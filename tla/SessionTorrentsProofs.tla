------------------------ MODULE SessionTorrentsProofs ------------------------
(***************************************************************************)
(* Proofs about SessionTorrents, for any number of torrents, events, runs  *)
(* and any size of the batches of the startup.                             *)
(*                                                                         *)
(* In order: sequences; type correctness; the startup (StartupInv); the    *)
(* flow of requests to libtorrent and of its answers (FlowInv), which says *)
(* whose each native torrent is; what m_numResumeData counts (Counted);    *)
(* where a change is until it is stored (ChangesInv); and what the data of *)
(* a torrent are at the end (SaveInv).                                     *)
(*                                                                         *)
(* From FlowInv on, ids are not used again while answers about their last  *)
(* torrent are on their way (~Overlap).  Without that an answer may be     *)
(* taken for one about the next torrent: the instance with Overlap and one *)
(* id shows a torrent of the session that is a hidden one.                 *)
(***************************************************************************)
EXTENDS SessionTorrents, FiniteSetTheorems, FunctionTheorems, SequenceTheorems, TLAPS
-----------------------------------------------------------------------------
(* Sequences: where their elements go, and how many are of a kind.         *)

Positions(s, P) == {i \in DOMAIN s : s[i] \in P}
Number(s, P) == Cardinality(Positions(s, P))

LEMMA Elements ==
    ASSUME NEW S, NEW s \in Seq(S)
    PROVE  /\ Len(s) \in Nat /\ DOMAIN s = 1 .. Len(s)
           /\ \A i \in DOMAIN s : s[i] \in S
OBVIOUS

LEMMA Appended ==
    ASSUME NEW S, NEW s \in Seq(S), NEW e \in S
    PROVE  /\ Append(s, e) \in Seq(S)
           /\ DOMAIN Append(s, e) = DOMAIN s \union {Len(s) + 1}
           /\ \A i \in DOMAIN s : Append(s, e)[i] = s[i] /\ i # Len(s) + 1 /\ i < Len(s) + 1
           /\ Append(s, e)[Len(s) + 1] = e
<1>1. Append(s, e) \in Seq(S) /\ Len(Append(s, e)) = Len(s) + 1
  BY AppendProperties
<1>2. DOMAIN Append(s, e) = 1 .. Len(s) + 1 /\ DOMAIN s = 1 .. Len(s) /\ Len(s) \in Nat
  BY <1>1, Elements
<1> QED BY <1>1, <1>2, AppendProperties

LEMMA Rest ==
    ASSUME NEW S, NEW s \in Seq(S), s # <<>>
    PROVE  /\ Tail(s) \in Seq(S) /\ Head(s) \in S /\ Head(s) = s[1] /\ 1 \in DOMAIN s
           /\ \A i \in DOMAIN Tail(s) : i + 1 \in DOMAIN s /\ i + 1 > 1 /\ Tail(s)[i] = s[i + 1]
           /\ \A i \in DOMAIN s : i # 1 => i - 1 \in DOMAIN Tail(s) /\ Tail(s)[i - 1] = s[i]
<1>1. Tail(s) \in Seq(S) /\ Len(Tail(s)) = Len(s) - 1 /\ Head(s) \in S
  BY HeadTailProperties
<1>2. DOMAIN Tail(s) = 1 .. Len(s) - 1 /\ DOMAIN s = 1 .. Len(s) /\ Len(s) \in Nat \ {0}
  BY <1>1, Elements, EmptySeq
<1>3. Head(s) = s[1]
  OBVIOUS
<1> QED BY <1>1, <1>2, <1>3, HeadTailProperties

LEMMA Joined ==
    ASSUME NEW S, NEW s \in Seq(S), NEW t \in Seq(S)
    PROVE  /\ s \o t \in Seq(S)
           /\ \A i \in DOMAIN (s \o t) : \/ i \in DOMAIN s
                                         \/ i > Len(s) /\ i - Len(s) \in DOMAIN t
           /\ \A i \in DOMAIN s : i \in DOMAIN (s \o t) /\ (s \o t)[i] = s[i] /\ i <= Len(s)
           /\ \A i \in DOMAIN t : i + Len(s) \in DOMAIN (s \o t) /\ (s \o t)[i + Len(s)] = t[i]
                                  /\ i + Len(s) > Len(s)
<1>1. s \o t \in Seq(S) /\ Len(s \o t) = Len(s) + Len(t)
  BY ConcatProperties
<1>2. DOMAIN (s \o t) = 1 .. Len(s) + Len(t) /\ DOMAIN s = 1 .. Len(s) /\ DOMAIN t = 1 .. Len(t)
      /\ Len(s) \in Nat /\ Len(t) \in Nat
  BY <1>1, Elements
<1>3. \A i \in 1 .. Len(s) + Len(t) :
         (s \o t)[i] = IF i <= Len(s) THEN s[i] ELSE t[i - Len(s)]
  BY ConcatProperties
<1>4. \A i \in DOMAIN s : i \in DOMAIN (s \o t) /\ (s \o t)[i] = s[i] /\ i <= Len(s)
  BY <1>2, <1>3
<1>5. ASSUME NEW i \in DOMAIN t
      PROVE  i + Len(s) \in DOMAIN (s \o t) /\ (s \o t)[i + Len(s)] = t[i] /\ i + Len(s) > Len(s)
  <2>1. i + Len(s) \in 1 .. Len(s) + Len(t) /\ ~(i + Len(s) <= Len(s)) /\ (i + Len(s)) - Len(s) = i
    BY <1>2
  <2> QED BY <1>2, <1>3, <2>1
<1> QED BY <1>1, <1>2, <1>4, <1>5

AtMostOne(X) == \A i, j \in X : i = j

LEMMA PositionsAppended ==
    ASSUME NEW S, NEW s \in Seq(S), NEW e \in S, NEW P
    PROVE  /\ Positions(s, P) \subseteq 1 .. Len(s) /\ Len(s) \in Nat
           /\ e \in P => Positions(Append(s, e), P) = Positions(s, P) \union {Len(s) + 1}
           /\ e \notin P => Positions(Append(s, e), P) = Positions(s, P)
           /\ \A i \in Positions(s, P) : Append(s, e)[i] = s[i]
           /\ Append(s, e)[Len(s) + 1] = e
           /\ Positions(s, P) = {} => AtMostOne(Positions(Append(s, e), P))
<1>1. Positions(s, P) \subseteq 1 .. Len(s) /\ Len(s) \in Nat
  BY Elements DEF Positions
<1>2. e \in P => Positions(Append(s, e), P) = Positions(s, P) \union {Len(s) + 1}
  BY Appended DEF Positions
<1>3. e \notin P => Positions(Append(s, e), P) = Positions(s, P)
  BY Appended DEF Positions
<1>4. \A i \in Positions(s, P) : Append(s, e)[i] = s[i]
  BY Appended DEF Positions
<1>5. Positions(s, P) = {} => AtMostOne(Positions(Append(s, e), P))
  BY <1>2, <1>3 DEF AtMostOne
<1> QED BY <1>1, <1>2, <1>3, <1>4, <1>5, Appended

LEMMA PositionsRest ==
    ASSUME NEW S, NEW s \in Seq(S), s # <<>>, NEW P
    PROVE  /\ Positions(s, P) \subseteq Int /\ Positions(Tail(s), P) \subseteq Int
           /\ 1 \in Positions(s, P) <=> Head(s) \in P
           /\ Head(s) = s[1]
           /\ \A i \in Positions(Tail(s), P) :
                 i + 1 \in Positions(s, P) /\ i + 1 > 1 /\ Tail(s)[i] = s[i + 1]
           /\ \A i \in Positions(s, P) :
                 i # 1 => i - 1 \in Positions(Tail(s), P) /\ s[i] = Tail(s)[i - 1]
           /\ AtMostOne(Positions(s, P)) => AtMostOne(Positions(Tail(s), P))
           /\ AtMostOne(Positions(s, P)) /\ Head(s) \in P => Positions(Tail(s), P) = {}
           /\ Head(s) \notin P => (Positions(Tail(s), P) = {} <=> Positions(s, P) = {})
           /\ Positions(s, P) = {} => Positions(Tail(s), P) = {} /\ Head(s) \notin P
<1>1. Positions(s, P) \subseteq Int /\ Positions(Tail(s), P) \subseteq Int
  <2>1. DOMAIN s \subseteq Int /\ DOMAIN Tail(s) \subseteq Int
    BY Rest, Elements
  <2> QED BY <2>1 DEF Positions
<1>2. 1 \in Positions(s, P) <=> Head(s) \in P
  BY Rest DEF Positions
<1>3. ASSUME NEW i \in Positions(Tail(s), P)
      PROVE  i + 1 \in Positions(s, P) /\ i + 1 > 1 /\ Tail(s)[i] = s[i + 1]
  BY Rest DEF Positions
<1>4. ASSUME NEW i \in Positions(s, P), i # 1
      PROVE  i - 1 \in Positions(Tail(s), P) /\ s[i] = Tail(s)[i - 1]
  BY <1>4, Rest DEF Positions
<1>5. AtMostOne(Positions(s, P)) => AtMostOne(Positions(Tail(s), P))
  <2> SUFFICES ASSUME AtMostOne(Positions(s, P)),
                      NEW i \in Positions(Tail(s), P), NEW j \in Positions(Tail(s), P)
               PROVE  i = j
    BY DEF AtMostOne
  <2>1. i + 1 = j + 1
    BY <1>3 DEF AtMostOne
  <2> QED BY <1>1, <2>1
<1>6. AtMostOne(Positions(s, P)) /\ Head(s) \in P => Positions(Tail(s), P) = {}
  <2> SUFFICES ASSUME AtMostOne(Positions(s, P)), Head(s) \in P,
                      NEW i \in Positions(Tail(s), P)
               PROVE  FALSE
    OBVIOUS
  <2>1. i + 1 = 1
    BY <1>2, <1>3 DEF AtMostOne
  <2> QED BY <1>3, <2>1
<1>7. Positions(s, P) = {} => Positions(Tail(s), P) = {} /\ Head(s) \notin P
  BY <1>2, <1>3
<1>8. Head(s) \notin P /\ Positions(Tail(s), P) = {} => Positions(s, P) = {}
  BY <1>2, <1>4
<1> QED BY <1>1, <1>2, <1>3, <1>4, <1>5, <1>6, <1>7, <1>8, Rest

LEMMA PositionsJoined ==
    ASSUME NEW S, NEW s \in Seq(S), NEW t \in Seq(S), NEW P
    PROVE  /\ \A i \in Positions(s, P) : i \in Positions(s \o t, P) /\ (s \o t)[i] = s[i]
           /\ \A i \in Positions(s \o t, P) :
                 \/ i \in Positions(s, P) /\ (s \o t)[i] = s[i]
                 \/ i > Len(s) /\ i - Len(s) \in Positions(t, P) /\ (s \o t)[i] = t[i - Len(s)]
           /\ \A i \in Positions(t, P) :
                 /\ i + Len(s) \in Positions(s \o t, P) /\ (s \o t)[i + Len(s)] = t[i]
                 /\ i + Len(s) > Len(s)
           /\ Positions(s, P) \subseteq 1 .. Len(s) /\ Len(s) \in Nat
           /\ Positions(t, P) = {} => Positions(s \o t, P) = Positions(s, P)
           /\ Positions(s \o t, P) \subseteq Int
<1>1. \A i \in Positions(s, P) : i \in Positions(s \o t, P) /\ (s \o t)[i] = s[i]
  BY Joined DEF Positions
<1>2. /\ Len(s) \in Nat /\ DOMAIN s = 1 .. Len(s) /\ DOMAIN t \subseteq Int
      /\ DOMAIN (s \o t) \subseteq Int
  <2>1. s \o t \in Seq(S)
    BY Joined
  <2> QED BY <2>1, Elements
<1>3. ASSUME NEW i \in Positions(s \o t, P)
      PROVE  \/ i \in Positions(s, P) /\ (s \o t)[i] = s[i]
             \/ i > Len(s) /\ i - Len(s) \in Positions(t, P) /\ (s \o t)[i] = t[i - Len(s)]
  <2>1. i \in DOMAIN (s \o t) /\ (s \o t)[i] \in P
    BY DEF Positions
  <2>2. CASE i \in DOMAIN s
    BY <2>1, <2>2, Joined DEF Positions
  <2>3. CASE i > Len(s) /\ i - Len(s) \in DOMAIN t
    <3>1. (i - Len(s)) + Len(s) = i
      BY <1>2, <2>1
    <3>2. (s \o t)[i] = t[i - Len(s)]
      BY <2>3, <3>1, Joined
    <3> QED BY <2>1, <2>3, <3>2 DEF Positions
  <2> QED BY <2>1, <2>2, <2>3, Joined
<1>4. \A i \in Positions(t, P) :
         /\ i + Len(s) \in Positions(s \o t, P) /\ (s \o t)[i + Len(s)] = t[i]
         /\ i + Len(s) > Len(s)
  BY Joined DEF Positions
<1>5. Positions(s, P) \subseteq 1 .. Len(s) /\ Positions(s \o t, P) \subseteq Int
  BY <1>2 DEF Positions
<1>6. Positions(t, P) = {} => Positions(s \o t, P) = Positions(s, P)
  BY <1>1, <1>3
<1> QED BY <1>1, <1>2, <1>3, <1>4, <1>5, <1>6

(* Is something of a kind in a sequence, is it only once, and what is      *)
(* before what: when an element is taken, when one is added.               *)
Has(s, P) == Positions(s, P) # {}
One(s, P) == AtMostOne(Positions(s, P))
Before(s, P, Q) == \A i \in Positions(s, P), j \in Positions(s, Q) : i < j

LEMMA HasNothing == \A P : ~Has(<<>>, P) /\ One(<<>>, P)
<1>1. \A P : Positions(<<>>, P) = {}
  BY DEF Positions
<1> QED BY <1>1 DEF Has, One, AtMostOne

LEMMA BeforeNothing == \A P, Q : Before(<<>>, P, Q)
BY DEF Before, Positions

LEMMA HasRest ==
    ASSUME NEW S, NEW s \in Seq(S), s # <<>>, NEW P
    PROVE  /\ Has(s, P) <=> Head(s) \in P \/ Has(Tail(s), P)
           /\ One(s, P) => One(Tail(s), P)
           /\ One(s, P) /\ Head(s) \in P => ~Has(Tail(s), P)
BY PositionsRest DEF Has, One

LEMMA HasAppended ==
    ASSUME NEW S, NEW s \in Seq(S), NEW e \in S, NEW P
    PROVE  /\ Has(Append(s, e), P) <=> e \in P \/ Has(s, P)
           /\ e \notin P => (One(Append(s, e), P) <=> One(s, P))
           /\ ~Has(s, P) => One(Append(s, e), P)
BY PositionsAppended DEF Has, One

LEMMA HasJoined ==
    ASSUME NEW S, NEW s \in Seq(S), NEW t \in Seq(S), NEW P
    PROVE  /\ Has(s \o t, P) <=> Has(s, P) \/ Has(t, P)
           /\ ~Has(t, P) => (One(s \o t, P) <=> One(s, P))
<1>1. Has(s \o t, P) <=> Has(s, P) \/ Has(t, P)
  BY PositionsJoined DEF Has
<1>2. ~Has(t, P) => (One(s \o t, P) <=> One(s, P))
  BY PositionsJoined DEF Has, One
<1> QED BY <1>1, <1>2

LEMMA BeforeRest ==
    ASSUME NEW S, NEW s \in Seq(S), s # <<>>, NEW P, NEW Q, Before(s, P, Q)
    PROVE  /\ Before(Tail(s), P, Q)
           /\ Head(s) \in Q => ~Has(s, P)
<1>1. ASSUME NEW i \in Positions(Tail(s), P), NEW j \in Positions(Tail(s), Q)
      PROVE  i < j
  <2>1. i + 1 \in Positions(s, P) /\ j + 1 \in Positions(s, Q) /\ i \in Int /\ j \in Int
    BY PositionsRest
  <2>2. i + 1 < j + 1
    BY <2>1 DEF Before
  <2> QED BY <2>1, <2>2
<1>2. ASSUME Head(s) \in Q, NEW i \in Positions(s, P)
      PROVE  FALSE
  <2>1. 1 \in Positions(s, Q)
    BY <1>2, PositionsRest
  <2>2. i < 1
    BY <2>1 DEF Before
  <2>3. i \in 1 .. Len(s)
    BY Elements DEF Positions
  <2>4. Len(s) \in Nat
    BY Elements
  <2> QED BY <2>2, <2>3, <2>4
<1> QED BY <1>1, <1>2 DEF Before, Has

LEMMA BeforeAppended ==
    ASSUME NEW S, NEW s \in Seq(S), NEW e \in S, NEW P, NEW Q, Before(s, P, Q),
           e \in P => e \notin Q /\ ~Has(s, Q)
    PROVE  Before(Append(s, e), P, Q)
<1> SUFFICES ASSUME NEW i \in Positions(Append(s, e), P), NEW j \in Positions(Append(s, e), Q)
             PROVE  i < j
  BY DEF Before
<1>1. /\ Positions(s, P) \subseteq 1 .. Len(s) /\ Positions(s, Q) \subseteq 1 .. Len(s)
      /\ Len(s) \in Nat
  BY PositionsAppended
<1>2. CASE e \in P
  <2>1. Positions(Append(s, e), Q) = {}
    BY <1>2, PositionsAppended DEF Has
  <2> QED BY <2>1
<1>3. CASE e \notin P
  <2>1. i \in Positions(s, P) /\ (j \in Positions(s, Q) \/ j = Len(s) + 1)
    BY <1>3, PositionsAppended
  <2>2. CASE j \in Positions(s, Q)
    BY <2>1, <2>2 DEF Before
  <2>3. CASE j = Len(s) + 1
    BY <1>1, <2>1, <2>3
  <2> QED BY <2>1, <2>2, <2>3
<1> QED BY <1>2, <1>3

LEMMA BeforeJoined ==
    ASSUME NEW S, NEW s \in Seq(S), NEW t \in Seq(S), NEW P, NEW Q, Before(s, P, Q), ~Has(t, P), ~Has(t, Q)
    PROVE  Before(s \o t, P, Q)
<1>1. Positions(s \o t, P) = Positions(s, P) /\ Positions(s \o t, Q) = Positions(s, Q)
  BY PositionsJoined DEF Has
<1> QED BY <1>1 DEF Before

LEMMA HasAny ==
    ASSUME NEW S, NEW s \in Seq(S), NEW P, \A i \in DOMAIN s : s[i] \notin P
    PROVE  ~Has(s, P) /\ One(s, P)
BY DEF Has, One, AtMostOne, Positions

LEMMA PositionsFinite ==
    ASSUME NEW S, NEW s \in Seq(S), NEW P
    PROVE  /\ IsFiniteSet(Positions(s, P)) /\ Number(s, P) \in Nat
           /\ Number(s, P) = 0 <=> \A i \in DOMAIN s : s[i] \notin P
<1>1. IsFiniteSet(DOMAIN s)
  BY Elements, FS_Interval
<1>2. IsFiniteSet(Positions(s, P))
  BY <1>1, FS_Subset DEF Positions
<1> QED BY <1>2, FS_CardinalityType, FS_EmptySet DEF Number, Positions

LEMMA NumberEmpty == \A P : Number(<<>>, P) = 0
<1>1. \A P : Positions(<<>>, P) = {}
  BY DEF Positions
<1> QED BY <1>1, FS_EmptySet DEF Number

LEMMA NumberAppended ==
    ASSUME NEW S, NEW s \in Seq(S), NEW e \in S, NEW P
    PROVE  Number(Append(s, e), P) = Number(s, P) + IF e \in P THEN 1 ELSE 0
<1>1. CASE e \in P
  <2>1. Positions(Append(s, e), P) = Positions(s, P) \cup {Len(s) + 1}
    BY <1>1, Appended DEF Positions
  <2>2. Len(s) + 1 \notin Positions(s, P)
    BY Appended DEF Positions
  <2> QED BY <1>1, <2>1, <2>2, PositionsFinite, FS_AddElement DEF Number
<1>2. CASE e \notin P
  <2>1. Positions(Append(s, e), P) = Positions(s, P)
    BY <1>2, Appended DEF Positions
  <2> QED BY <1>2, <2>1, PositionsFinite DEF Number
<1> QED BY <1>1, <1>2

(* A set of numbers has as many elements as the set moved on by k.         *)
LEMMA Moved ==
    ASSUME NEW X \in SUBSET Int, IsFiniteSet(X), NEW Y, NEW k \in Int,
           Y = {x + k : x \in X}
    PROVE  IsFiniteSet(Y) /\ Cardinality(Y) = Cardinality(X)
<1> DEFINE f == [x \in X |-> x + k]
<1>1. f \in [X -> Y]
  OBVIOUS
<1>2. \A x, y \in X : f[x] = f[y] => x = y
  OBVIOUS
<1>3. \A y \in Y : \E x \in X : f[x] = y
  OBVIOUS
<1>4. f \in Bijection(X, Y)
  BY <1>1, <1>2, <1>3, Fun_IsBij
<1> HIDE DEF f
<1>5. ExistsBijection(X, Y)
  BY <1>4, Fun_ExistsBij
<1> QED BY <1>5, FS_Bijection

LEMMA NumberRest ==
    ASSUME NEW S, NEW s \in Seq(S), s # <<>>, NEW P
    PROVE  Number(s, P) = Number(Tail(s), P) + IF Head(s) \in P THEN 1 ELSE 0
<1> DEFINE X == Positions(Tail(s), P)
           one == 1
           Y == {x + one : x \in X}
<1>1. IsFiniteSet(X) /\ X \subseteq Int
  <2>1. Tail(s) \in Seq(S)
    BY Rest
  <2>2. IsFiniteSet(X)
    BY <2>1, PositionsFinite
  <2>3. DOMAIN Tail(s) \subseteq Int
    BY <2>1, Elements
  <2> QED BY <2>2, <2>3 DEF Positions
<1>2. IsFiniteSet(Y) /\ Cardinality(Y) = Cardinality(X)
  <2>1. one \in Int
    OBVIOUS
  <2> HIDE DEF X, one
  <2> QED BY <1>1, <2>1, Moved
<1>3. \A i \in X : i + 1 \in Positions(s, P) /\ i + 1 # 1
  BY Rest, Elements DEF Positions
<1>4. \A i \in Positions(s, P) : i # 1 => i - 1 \in X /\ (i - 1) + 1 = i
  BY Rest, Elements DEF Positions
<1>5. 1 \in Positions(s, P) <=> Head(s) \in P
  BY Rest DEF Positions
<1>6. 1 \notin Y
  BY <1>3
<1>7. \A i \in Positions(s, P) : i = 1 \/ i \in Y
  BY <1>4
<1>8. \A i \in Y : i \in Positions(s, P)
  BY <1>3
<1> HIDE DEF X, Y
<1>9. CASE Head(s) \in P
  <2>1. Positions(s, P) = Y \cup {1}
    BY <1>5, <1>7, <1>8, <1>9
  <2>2. Cardinality(Positions(s, P)) = Cardinality(Y) + 1
    BY <1>2, <1>6, <2>1, FS_AddElement
  <2> QED BY <1>2, <1>9, <2>2 DEF Number, X
<1>10. CASE Head(s) \notin P
  <2>1. Positions(s, P) = Y
    BY <1>5, <1>7, <1>8, <1>10
  <2>2. Cardinality(X) \in Nat
    BY <1>1, FS_CardinalityType
  <2> QED BY <1>2, <1>10, <2>1, <2>2 DEF Number, X
<1> QED BY <1>9, <1>10

LEMMA NumberJoined ==
    ASSUME NEW S, NEW s \in Seq(S), NEW t \in Seq(S), NEW P
    PROVE  Number(s \o t, P) = Number(s, P) + Number(t, P)
<1> DEFINE X == Positions(t, P)
           Y == {x + Len(s) : x \in X}
           Z == Positions(s, P)
<1>1. IsFiniteSet(X) /\ X \subseteq Int /\ IsFiniteSet(Z) /\ Len(s) \in Int
  <2>1. IsFiniteSet(X) /\ IsFiniteSet(Z)
    BY PositionsFinite
  <2>2. DOMAIN t \subseteq Int /\ Len(s) \in Int
    BY Elements
  <2> QED BY <2>1, <2>2 DEF Positions
<1>2. IsFiniteSet(Y) /\ Cardinality(Y) = Cardinality(X)
  <2> HIDE DEF X
  <2> QED BY <1>1, Moved
<1>3. Positions(s \o t, P) = Z \cup Y
  <2>1. \A i \in Y : i \in Positions(s \o t, P)
    BY Joined DEF Positions
  <2>2. \A i \in Z : i \in Positions(s \o t, P)
    BY Joined DEF Positions
  <2>3. ASSUME NEW i \in Positions(s \o t, P), i \notin DOMAIN s
        PROVE  i \in Y
    <3>1. i - Len(s) \in DOMAIN t /\ (s \o t)[i] \in P
      BY <2>3, Joined DEF Positions
    <3>2. (i - Len(s)) + Len(s) = i
      BY <1>1, <2>3, Joined, Elements DEF Positions
    <3> QED BY <3>1, <3>2, Joined DEF Positions
  <2>4. \A i \in Positions(s \o t, P) : i \in DOMAIN s => i \in Z
    BY Joined DEF Positions
  <2>5. Positions(s \o t, P) \subseteq Z \cup Y
    BY <2>3, <2>4
  <2> QED BY <2>1, <2>2, <2>5
<1>4. Z \cap Y = {}
  <2>1. \A i \in Z : i <= Len(s)
    BY Joined DEF Positions
  <2>2. \A i \in Y : i > Len(s)
    BY Joined DEF Positions
  <2>3. \A i \in Z : ~(i > Len(s))
    <3>1. \A i \in Z : i \in Int
      BY Elements DEF Positions
    <3> QED BY <1>1, <2>1, <3>1
  <2> QED BY <2>2, <2>3
<1> HIDE DEF X, Y, Z
<1>5. Cardinality(Z \cup Y) = Cardinality(Z) + Cardinality(Y)
  <2>1. Cardinality(Z \cup Y) = Cardinality(Z) + Cardinality(Y) - Cardinality(Z \cap Y)
    BY <1>1, <1>2, FS_Union
  <2>2. Cardinality(Z \cap Y) = 0
    BY <1>4, FS_EmptySet
  <2>3. Cardinality(Z) \in Nat /\ Cardinality(Y) \in Nat
    BY <1>1, <1>2, FS_CardinalityType
  <2> QED BY <2>1, <2>2, <2>3
<1> QED BY <1>2, <1>3, <1>5 DEF Number, X, Z

LEMMA NumberAll ==
    ASSUME NEW S, NEW s \in Seq(S), NEW P, \A i \in DOMAIN s : s[i] \in P
    PROVE  Number(s, P) = Len(s)
<1>1. Positions(s, P) = 1 .. Len(s)
  BY Elements DEF Positions
<1> QED BY <1>1, Elements, FS_Interval DEF Number

(* SetToSeq lists every element of a finite set.                           *)
LEMMA Listed ==
    ASSUME NEW S, IsFiniteSet(S)
    PROVE  /\ SetToSeq(S) \in Seq(S) /\ Len(SetToSeq(S)) = Cardinality(S)
           /\ \A e \in S : \E i \in DOMAIN SetToSeq(S) : SetToSeq(S)[i] = e
<1> DEFINE n == Cardinality(S)
           L == SetToSeq(S)
<1>1. n \in Nat /\ ExistsBijection(1 .. n, S)
  BY FS_CardinalityType
<1>2. PICK f : f \in Bijection(1 .. n, S)
  BY <1>1, Fun_ExistsBij
<1>3. f \in [1 .. n -> S] /\ IsInjective(f)
  BY <1>2 DEF Bijection, Injection
<1>4. L \in [1 .. n -> S] /\ IsInjective(L)
  BY <1>3 DEF SetToSeq
<1>5. L \in Injection(1 .. n, S)
  BY <1>4 DEF Injection
<1>6. IsFiniteSet(1 .. n) /\ Cardinality(1 .. n) = n
  BY <1>1, FS_Interval
<1>7. L \in Surjection(1 .. n, S)
  BY <1>5, <1>6, FS_Injection
<1>8. \A e \in S : \E i \in 1 .. n : L[i] = e
  BY <1>7 DEF Surjection
<1> HIDE DEF L
<1>9. L \in Seq(S) /\ Len(L) = n
  BY <1>1, <1>4
<1> QED BY <1>4, <1>8, <1>9 DEF L
-----------------------------------------------------------------------------
Running == phase \in {"startup", "restored"}

(* Requests and answers about a torrent.                                   *)
Additions(id) == {r \in Request : r.do = "add" /\ r.id = id}
Removals(id, kind) == {r \in Request : r.do = "remove" /\ r.id = id /\ r.kind = kind}
Replies(id) == {a \in Alert : a.is = "added" /\ a.id = id}
Accepted(id) == {a \in Alert : a.is = "added" /\ a.id = id /\ a.ok}
AcceptedHidden(id) == {a \in Alert : a.is = "added" /\ a.id = id /\ a.ok /\ a.kind # "own"}
Metadata(id, kind) == {a \in Alert : a.is = "metadata" /\ a.id = id /\ a.kind = kind}

AddsIn(w, id) == Positions(w, Additions(id))
AddedIn(s, id) == Positions(s, Replies(id))
Asked(id) == AddsIn(work, id) # {}
Answered(id) == AddedIn(alerts, id) # {} \/ AddedIn(adds, id) # {}

(* While the session starts, each stored torrent is in one place: still to *)
(* be read, read, asked for, answered, in the session, or refused; and as  *)
(* many are processed as are asked for or answered.                        *)
AddRequests == {r \in Request : r.do = "add"}
AddedAlerts == {a \in Alert : a.is = "added"}
InLoaded(id) == \E i \in DOMAIN loaded : loaded[i] = id
Unread(id) == id \in toLoad \/ InLoaded(id)

ProcessingInv ==
    /\ processing = Number(work, AddRequests) + Number(alerts, AddedAlerts)
                        + Number(adds, AddedAlerts)
    /\ processing <= MaxProcessing

OnlyAdditions ==
    /\ \A i \in DOMAIN work : work[i].do = "add"
    /\ \A i \in DOMAIN alerts : alerts[i].is = "added"
    /\ \A i \in DOMAIN adds : adds[i].is = "added"
    /\ \A i \in DOMAIN batch : batch[i].is = "added"
    /\ needSave = {}

LoadedOnce ==
    /\ \A i, j \in DOMAIN loaded : loaded[i] = loaded[j] => i = j
    /\ loadFinished => toLoad = {}

UnreadInv(id) ==
    /\ id \in toLoad => ~InLoaded(id)
    /\ Unread(id) => /\ native[id] = None /\ loading[id] = None /\ ~InSession(id)
                     /\ stored[id] # NoData
                     /\ ~Asked(id)

AskedInv(id) ==
    /\ AtMostOne(AddsIn(work, id))
    /\ Asked(id) => native[id] = None
    /\ \A i \in AddsIn(work, id) : work[i].kind = "own" /\ work[i].data = stored[id]

AnsweredInv(id) ==
    /\ \A i \in AddedIn(alerts, id) : alerts[i].ok \/ id \in refused
    /\ \A i \in AddedIn(adds, id) : adds[i].ok \/ id \in refused

RestoredAsStored(id) ==
    /\ loading[id] # None => loading[id] = stored[id] /\ (Asked(id) \/ Answered(id))
    /\ native[id] # None => /\ native[id].progress = stored[id].progress
                            /\ ~native[id].needSave
    /\ InSession(id) => /\ stored[id] # NoData
                        /\ torrents[id].own = stored[id].own
                        /\ torrents[id].info = stored[id].info
                        /\ ~torrents[id].received
    /\ hidden[id] = "no" /\ searches[id] = 0

NotLost(id) ==
    stored[id] # NoData => Unread(id) \/ loading[id] # None \/ InSession(id) \/ id \in refused

Starting(id) ==
    UnreadInv(id) /\ AskedInv(id) /\ AnsweredInv(id) /\ RestoredAsStored(id) /\ NotLost(id)

StartupInv ==
    phase = "startup" =>
        ProcessingInv /\ OnlyAdditions /\ LoadedOnce /\ \A id \in Id : Starting(id)

(* The flow of torrents, for ids that are not used again too early.        *)
(* An addition that does not belong to what is being loaded, or fetched.   *)
Foreign(id) ==
    {r \in Additions(id) : IF loading[id] # None THEN ~(r.kind = "own" /\ r.data = loading[id])
                           ELSE ~(r.kind = "hidden" /\ ~r.data.info)}

InFlight(id) == Asked(id) \/ Answered(id)
AnsweredOk(id) == Has(alerts, Accepted(id)) \/ Has(adds, Accepted(id))
MetadataPending(id, kind) == Has(alerts, Metadata(id, kind)) \/ Has(batch, Metadata(id, kind))

(* Whose the native torrent is.                                            *)
Owner(id) == InSession(id) \/ (Running /\ loading[id] # None /\ AnsweredOk(id))
HiddenOwner(id) == hidden[id] = "handle" \/ (hidden[id] = "pending" /\ AnsweredOk(id))
HasInfo(id) == IF InSession(id) THEN torrents[id].info \/ torrents[id].received
               ELSE loading[id].info

OnceInv(id) ==
    /\ One(work, Additions(id)) /\ One(alerts, Replies(id)) /\ One(adds, Replies(id))
    /\ Asked(id) => ~Answered(id)
    /\ Has(alerts, Replies(id)) => ~Has(adds, Replies(id))

AdditionsInv(id) ==
    /\ InFlight(id) => searches[id] = 0 /\ (loading[id] # None \/ hidden[id] = "pending")
    /\ loading[id] # None => /\ ~InSession(id)
                             /\ hidden[id] = "no"
                             /\ InFlight(id) \/ searches[id] = 1
    /\ hidden[id] = "pending" => InFlight(id)
    /\ hidden[id] # "no" => ~InSession(id)
    /\ ~Has(work, Foreign(id))
    /\ loading[id] # None => ~Has(alerts, AcceptedHidden(id)) /\ ~Has(adds, AcceptedHidden(id))

OwnerInv(id) ==
    Owner(id) =>
        /\ native[id] # None /\ native[id].kind = "own"
        /\ ~Has(work, Removals(id, "own"))
        /\ native[id].info <=> HasInfo(id) \/ MetadataPending(id, "own")
        /\ MetadataPending(id, "own") => ~HasInfo(id)
        /\ One(alerts, Metadata(id, "own")) /\ One(batch, Metadata(id, "own"))
        /\ ~(Has(alerts, Metadata(id, "own")) /\ Has(batch, Metadata(id, "own")))
        /\ InSession(id) => /\ torrents[id].kind = "own"
                            /\ searches[id] > 0 => HasInfo(id)

MetadataInv(id) ==
    /\ loading[id] # None /\ ~AnsweredOk(id) =>
           ~MetadataPending(id, "own") /\ (native[id].kind = "own" => native[id].info)
    /\ loading[id] # None /\ Has(alerts, Replies(id)) => ~Has(batch, Metadata(id, "own"))
    /\ hidden[id] = "pending" /\ Asked(id) =>
           /\ ~MetadataPending(id, "own") /\ ~MetadataPending(id, "hidden")
           /\ native[id] # None => native[id].info
    /\ hidden[id] = "pending" /\ Has(alerts, Replies(id)) =>
           ~Has(batch, Metadata(id, "own")) /\ ~Has(batch, Metadata(id, "hidden"))

NativeInv(id) ==
    /\ HiddenOwner(id) => native[id].kind = "hidden" /\ ~Has(work, Removals(id, "hidden"))
    /\ native[id] # None => \/ native[id].kind = "own" /\ Owner(id)
                            \/ native[id].kind = "hidden" /\ HiddenOwner(id)
                            \/ Has(work, Removals(id, native[id].kind))
    /\ \A kind \in Kinds : Before(work, Removals(id, kind), Additions(id))

FlowOf(id) ==
    /\ OwnerInv(id)
    /\ Running => OnceInv(id) /\ AdditionsInv(id) /\ MetadataInv(id) /\ NativeInv(id)

FlowInv == (~Running => adds = <<>>) /\ \A id \in Id : FlowOf(id)

-----------------------------------------------------------------------------
(* Records.                                                                *)

LEMMA RequestTypes ==
    ASSUME NEW id \in Id
    PROVE  /\ \A kind \in Kinds, data \in Data :
                  /\ AddNative(id, kind, data) \in Request
                  /\ AddNative(id, kind, data).do = "add"
                  /\ AddNative(id, kind, data).id = id
                  /\ AddNative(id, kind, data).kind = kind
                  /\ AddNative(id, kind, data).data = data
           /\ \A kind \in Kinds :
                  /\ RemoveNative(id, kind) \in Request
                  /\ RemoveNative(id, kind).do = "remove"
                  /\ RemoveNative(id, kind).id = id
                  /\ RemoveNative(id, kind).kind = kind
           /\ \A always \in BOOLEAN :
                  /\ SaveNative(id, always) \in Request
                  /\ SaveNative(id, always).do = "save"
                  /\ SaveNative(id, always).id = id
                  /\ SaveNative(id, always).always = always
BY DEF Request, AddNative, RemoveNative, SaveNative

LEMMA RequestParts ==
    ASSUME NEW r \in Request
    PROVE  /\ r.id \in Id
           /\ r.do \in {"add", "remove", "save"}
           /\ r.do = "add" => r.kind \in Kinds /\ r.data \in Data
           /\ r.do = "remove" => r.kind \in Kinds
           /\ r.do = "save" => r.always \in BOOLEAN
BY DEF Request

LEMMA AlertParts ==
    ASSUME NEW a \in Alert
    PROVE  /\ a.id \in Id
           /\ a.is \in {"added", "saved", "not modified", "metadata"}
           /\ a.is = "added" => a.ok \in BOOLEAN /\ (a.ok => a.kind \in Kinds)
           /\ a.is = "saved" => a.progress \in Nat /\ a.info \in BOOLEAN
           /\ a.is = "metadata" => a.kind \in Kinds
BY DEF Alert

LEMMA AlertTypes ==
    ASSUME NEW id \in Id
    PROVE  /\ \A kind \in Kinds \union {"none"}, ok \in BOOLEAN :
                  LET a == [is |-> "added", id |-> id, kind |-> kind, ok |-> ok]
                  IN  /\ (ok => kind \in Kinds) => a \in Alert
                      /\ a.is = "added" /\ a.id = id /\ a.kind = kind /\ a.ok = ok
           /\ \A progress \in Nat, info \in BOOLEAN :
                  LET a == [is |-> "saved", id |-> id, progress |-> progress, info |-> info]
                  IN  /\ a \in Alert
                      /\ a.is = "saved" /\ a.id = id /\ a.progress = progress /\ a.info = info
           /\ LET a == [is |-> "not modified", id |-> id]
              IN  a \in Alert /\ a.is = "not modified" /\ a.id = id
           /\ \A kind \in Kinds :
                  LET a == [is |-> "metadata", id |-> id, kind |-> kind]
                  IN  a \in Alert /\ a.is = "metadata" /\ a.id = id /\ a.kind = kind
BY DEF Alert

LEMMA KindsAre == None.kind = "none" /\ "none" \notin Kinds /\ "own" \in Kinds /\ "hidden" \in Kinds
                  /\ \A kind \in Kinds : kind = "own" \/ kind = "hidden"
BY DEF None, Kinds

LEMMA DataIs ==
    /\ None \notin Data
    /\ \A own \in Nat, progress \in Nat, info \in BOOLEAN :
          LET d == [own |-> own, progress |-> progress, info |-> info]
          IN  d \in Data /\ d.own = own /\ d.progress = progress /\ d.info = info
    /\ \A d \in Data : d.own \in Nat /\ d.progress \in Nat /\ d.info \in BOOLEAN
    /\ NoData \notin Data
<1>1. \A d \in Data : "own" \in DOMAIN d
  BY DEF Data
<1>2. DOMAIN None = {"kind"}
  BY DEF None
<1>3. None \notin Data
  BY <1>1, <1>2
<1> QED BY <1>3, NoDataAssumption DEF Data

LEMMA TorrentIs ==
    /\ None \notin TorrentImpl
    /\ \A kind \in Kinds, own \in Nat, info \in BOOLEAN, received \in BOOLEAN :
          LET t == [kind |-> kind, own |-> own, info |-> info, received |-> received]
          IN  t \in TorrentImpl /\ t.kind = kind /\ t.own = own /\ t.info = info /\ t.received = received
    /\ \A t \in TorrentImpl :
          /\ t.kind \in Kinds /\ t.own \in Nat /\ t.info \in BOOLEAN /\ t.received \in BOOLEAN
          /\ \A own \in Nat : [t EXCEPT !.own = own] \in TorrentImpl
          /\ [t EXCEPT !.received = TRUE] \in TorrentImpl
          /\ [t EXCEPT !.received = FALSE, !.info = TRUE] \in TorrentImpl
BY KindsAre DEF TorrentImpl

LEMMA NativeIs ==
    /\ None \notin NativeTorrent
    /\ \A kind \in Kinds, info \in BOOLEAN, progress \in Nat, needs \in BOOLEAN :
          LET n == [kind |-> kind, info |-> info, progress |-> progress, needSave |-> needs]
          IN  n \in NativeTorrent /\ n.kind = kind /\ n.info = info /\ n.progress = progress /\ n.needSave = needs
    /\ \A n \in NativeTorrent :
          /\ n.kind \in Kinds /\ n.info \in BOOLEAN /\ n.progress \in Nat /\ n.needSave \in BOOLEAN
          /\ \A progress \in Nat : [n EXCEPT !.progress = progress, !.needSave = TRUE] \in NativeTorrent
          /\ [n EXCEPT !.info = TRUE, !.needSave = TRUE] \in NativeTorrent
          /\ \A b \in BOOLEAN : [n EXCEPT !.needSave = b] \in NativeTorrent
BY KindsAre DEF NativeTorrent

LEMMA SavesAre ==
    ASSUME NEW ids \in SUBSET Id, NEW always \in BOOLEAN
    PROVE  /\ Saves(ids, always) \in Seq(Request)
           /\ Len(Saves(ids, always)) = Cardinality(ids) /\ Cardinality(ids) \in Nat
           /\ \A i \in DOMAIN Saves(ids, always) :
                 /\ Saves(ids, always)[i].do = "save"
                 /\ Saves(ids, always)[i].id \in ids
                 /\ Saves(ids, always)[i].always = always
           /\ \A id \in ids : \E i \in DOMAIN Saves(ids, always) : Saves(ids, always)[i].id = id
<1> DEFINE R == {SaveNative(id, always) : id \in ids}
           f == [id \in ids |-> SaveNative(id, always)]
           t == Saves(ids, always)
<1>1. IsFiniteSet(ids)
  BY SessionAssumption, FS_Subset
<1>2. \A id \in ids : SaveNative(id, always) \in Request /\ SaveNative(id, always).do = "save"
                      /\ SaveNative(id, always).id = id /\ SaveNative(id, always).always = always
  BY RequestTypes
<1>3. f \in Bijection(ids, R)
  <2>1. f \in [ids -> R]
    OBVIOUS
  <2>2. \A a, b \in ids : f[a] = f[b] => a = b
    <3> SUFFICES ASSUME NEW a \in ids, NEW b \in ids, f[a] = f[b]
                 PROVE  a = b
      OBVIOUS
    <3>1. SaveNative(a, always) = SaveNative(b, always)
      OBVIOUS
    <3> QED BY <1>2, <3>1
  <2>3. \A y \in R : \E x \in ids : f[x] = y
    OBVIOUS
  <2> QED BY <2>1, <2>2, <2>3, Fun_IsBij
<1>4. IsFiniteSet(R) /\ Cardinality(R) = Cardinality(ids) /\ Cardinality(ids) \in Nat
  BY <1>1, <1>3, Fun_ExistsBij, FS_Bijection, FS_CardinalityType
<1>5. t = SetToSeq(R)
  BY DEF Saves
<1>6. \A r \in R : \E id \in ids : r = SaveNative(id, always)
  OBVIOUS
<1>7. \A id \in ids : SaveNative(id, always) \in R
  OBVIOUS
<1>8. R \subseteq Request
  BY <1>2, <1>6
<1> HIDE DEF R, f, t
<1>9. t \in Seq(R) /\ Len(t) = Cardinality(R) /\ \A r \in R : \E i \in DOMAIN t : t[i] = r
  BY <1>4, <1>5, Listed
<1>10. t \in Seq(Request)
  BY <1>8, <1>9, SeqMonotonic
<1>11. \A i \in DOMAIN t : t[i] \in R
  BY <1>9, Elements
<1>12. \A i \in DOMAIN t : t[i].do = "save" /\ t[i].id \in ids /\ t[i].always = always
  BY <1>2, <1>6, <1>11
<1>13. \A id \in ids : \E i \in DOMAIN t : t[i].id = id
  BY <1>2, <1>7, <1>9
<1> QED BY <1>4, <1>9, <1>10, <1>12, <1>13 DEF t

(* What becomes of a sequence of requests, or of alerts.                   *)
LEMMA RequestsMove ==
    ASSUME NEW w \in Seq(Request)
    PROVE  /\ \A r \in Request : Append(w, r) \in Seq(Request)
           /\ w # <<>> => Tail(w) \in Seq(Request) /\ Head(w) \in Request
           /\ \A t \in Seq(Request) : w \o t \in Seq(Request)
           /\ <<>> \in Seq(Request)
BY Appended, Rest, Joined, EmptySeq

LEMMA AlertsMove ==
    ASSUME NEW s \in Seq(Alert)
    PROVE  /\ \A a \in Alert : Append(s, a) \in Seq(Alert)
           /\ s # <<>> => Tail(s) \in Seq(Alert) /\ Head(s) \in Alert
           /\ <<>> \in Seq(Alert)
BY Appended, Rest, EmptySeq

-----------------------------------------------------------------------------
(* Type correctness.                                                       *)

LEMMA InitTypes == Init => TypeOK
<1> SUFFICES ASSUME Init PROVE TypeOK
  OBVIOUS
<1>1. [own |-> 0, progress |-> 0, info |-> TRUE] \in Data /\ [own |-> 0, progress |-> 0, info |-> FALSE] \in Data
  BY DataIs
<1>2. stored \in [Id -> Data \union {NoData}]
  BY <1>1 DEF Init
<1>3. runs \in 1 .. MaxRuns /\ events \in 0 .. MaxEvents /\ processing \in 0 .. MaxProcessing
  BY SessionAssumption DEF Init
<1>4. /\ loaded \in Seq(Id) /\ work \in Seq(Request)
      /\ alerts \in Seq(Alert) /\ adds \in Seq(Alert) /\ batch \in Seq(Alert)
  BY EmptySeq DEF Init
<1>5. /\ phase \in {"startup", "restored", "exiting", "ended", "aborted"}
      /\ torrents \in [Id -> TorrentImpl \union {None}]
      /\ loading \in [Id -> Data \union {None}]
      /\ hidden \in [Id -> {"no", "pending", "handle"}]
      /\ searches \in [Id -> Nat]
      /\ native \in [Id -> NativeTorrent \union {None}]
  BY DEF Init
<1>6. /\ needSave \subseteq Id /\ count \in Int /\ toLoad \subseteq Id
      /\ loadFinished \in BOOLEAN /\ handling \in BOOLEAN /\ refused \subseteq Id
  <2>1. needSave \subseteq Id /\ count \in Int /\ refused \subseteq Id
    BY DEF Init
  <2>2. toLoad \subseteq Id
    BY Zenon DEF Init
  <2>3. loadFinished \in BOOLEAN /\ handling \in BOOLEAN
    BY Zenon DEF Init
  <2> QED BY <2>1, <2>2, <2>3
<1> QED BY <1>2, <1>3, <1>4, <1>5, <1>6 DEF TypeOK

LEMMA NativeStepTypes ==
    ASSUME TypeOK, NativeStep
    PROVE  TypeOK'
<1> DEFINE r == Head(work)
<1>1. r \in Request /\ work' \in Seq(Request)
  BY RequestsMove DEF TypeOK, NativeStep
<1>2. r.id \in Id /\ native[r.id] \in NativeTorrent \union {None}
  BY <1>1, RequestParts DEF TypeOK
<1> HIDE DEF r
<1>3. ASSUME NativeAdd(r)
      PROVE  native' \in [Id -> NativeTorrent \union {None}] /\ alerts' \in Seq(Alert) /\ refused' \subseteq Id
  <2>1. PICK accepts \in BOOLEAN :
            /\ native' = IF native[r.id] # None \/ ~accepts THEN native
                         ELSE [native EXCEPT ![r.id] = [kind |-> r.kind, info |-> r.data.info,
                                                        progress |-> r.data.progress,
                                                        needSave |-> FALSE]]
            /\ refused' = IF accepts THEN refused ELSE refused \union {r.id}
            /\ alerts' = Append(alerts,
                   [is |-> "added", id |-> r.id, kind |-> native'[r.id].kind,
                    ok |-> accepts /\ (native[r.id] = None \/ r.kind = "hidden")])
    BY <1>3 DEF NativeAdd
  <2>2. r.kind \in Kinds /\ r.data \in Data
    BY <1>1, <1>3, RequestParts DEF NativeAdd
  <2>3. r.data.info \in BOOLEAN /\ r.data.progress \in Nat
    BY <2>2, DataIs
  <2>4. [kind |-> r.kind, info |-> r.data.info, progress |-> r.data.progress,
         needSave |-> FALSE] \in NativeTorrent
    BY <2>2, <2>3, NativeIs
  <2>5. native' \in [Id -> NativeTorrent \union {None}]
    BY <1>2, <2>1, <2>4 DEF TypeOK
  <2>6. native'[r.id].kind \in Kinds \union {"none"}
    <3>1. native'[r.id] \in NativeTorrent \union {None}
      BY <1>2, <2>5
    <3>2. None.kind = "none" /\ \A n \in NativeTorrent : n.kind \in Kinds
      BY NativeIs, KindsAre
    <3> QED BY <3>1, <3>2
  <2>7. (accepts /\ (native[r.id] = None \/ r.kind = "hidden")) => native'[r.id].kind \in Kinds
    <3>1. CASE native[r.id] = None /\ accepts
      BY <1>2, <2>1, <2>2, <3>1 DEF TypeOK
    <3>2. CASE native[r.id] # None
      BY <1>2, <2>1, <3>2, NativeIs
    <3> QED BY <3>1, <3>2
  <2> DEFINE ok == accepts /\ (native[r.id] = None \/ r.kind = "hidden")
  <2>8. ok \in BOOLEAN
    OBVIOUS
  <2>9. alerts' = Append(alerts, [is |-> "added", id |-> r.id, kind |-> native'[r.id].kind, ok |-> ok])
    BY <2>1
  <2>10. ok => native'[r.id].kind \in Kinds
    BY <2>7
  <2> HIDE DEF ok
  <2>11. [is |-> "added", id |-> r.id, kind |-> native'[r.id].kind, ok |-> ok] \in Alert
    BY <1>2, <2>6, <2>8, <2>10, AlertTypes
  <2>12. alerts' \in Seq(Alert)
    BY <2>9, <2>11, AlertsMove DEF TypeOK
  <2>13. refused' \subseteq Id
    BY <1>2, <2>1 DEF TypeOK
  <2> QED BY <2>5, <2>12, <2>13
<1>4. ASSUME NativeRemove(r)
      PROVE  native' \in [Id -> NativeTorrent \union {None}] /\ alerts' \in Seq(Alert) /\ refused' \subseteq Id
  BY <1>2, <1>4 DEF NativeRemove, TypeOK
<1>5. ASSUME NativeSave(r)
      PROVE  native' \in [Id -> NativeTorrent \union {None}] /\ alerts' \in Seq(Alert) /\ refused' \subseteq Id
  <2>1. CASE native[r.id] = None
    BY <1>5, <2>1 DEF NativeSave, TypeOK
  <2>2. CASE native[r.id] # None
    <3>1. native[r.id] \in NativeTorrent
      BY <1>2, <2>2
    <3>2. [native[r.id] EXCEPT !.needSave = FALSE] \in NativeTorrent
      BY <3>1, NativeIs
    <3>3. native' = [native EXCEPT ![r.id] = [native[r.id] EXCEPT !.needSave = FALSE]]
      BY <1>5, <2>2 DEF NativeSave
    <3>4. native' \in [Id -> NativeTorrent \union {None}]
      BY <1>2, <3>2, <3>3 DEF TypeOK
    <3>5. /\ [is |-> "saved", id |-> r.id, progress |-> native[r.id].progress,
                         info |-> native[r.id].info] \in Alert
          /\ [is |-> "not modified", id |-> r.id] \in Alert
      <4>1. native[r.id].progress \in Nat /\ native[r.id].info \in BOOLEAN
        BY <3>1, NativeIs
      <4> QED BY <1>2, <4>1, AlertTypes
    <3>6. alerts' \in Seq(Alert)
      <4>1. alerts \in Seq(Alert)
        BY DEF TypeOK
      <4>2. \/ alerts' = Append(alerts, [is |-> "saved", id |-> r.id, progress |-> native[r.id].progress,
                                         info |-> native[r.id].info])
            \/ alerts' = Append(alerts, [is |-> "not modified", id |-> r.id])
        BY <1>5, <2>2 DEF NativeSave
      <4> QED BY <3>5, <4>1, <4>2, AlertsMove
    <3> QED BY <1>5, <3>4, <3>6 DEF NativeSave, TypeOK
  <2> QED BY <2>1, <2>2
<1>6. native' \in [Id -> NativeTorrent \union {None}] /\ alerts' \in Seq(Alert) /\ refused' \subseteq Id
  BY <1>3, <1>4, <1>5 DEF NativeStep, r
<1> QED BY <1>1, <1>6 DEF NativeStep, TypeOK

LEMMA EventTypes ==
    ASSUME TypeOK, Event
    PROVE  /\ events' \in 0 .. MaxEvents
           /\ adds = <<>> /\ batch = <<>> /\ phase = "restored"
BY SessionAssumption DEF TypeOK, Event, Idle

LEMMA NativeProgressTypes ==
    ASSUME TypeOK, NEW id \in Id, NativeProgress(id)
    PROVE  TypeOK'
<1>1. native[id] \in NativeTorrent
  BY DEF TypeOK, NativeProgress
<1>2. native[id].progress + 1 \in Nat
  <2>1. native[id].progress \in Nat
    BY <1>1, NativeIs
  <2> QED BY <2>1
<1>3. [native[id] EXCEPT !.progress = native[id].progress + 1, !.needSave = TRUE] \in NativeTorrent
  BY <1>1, <1>2, NativeIs
<1>4. native' = [native EXCEPT ![id] = [native[id] EXCEPT !.progress = native[id].progress + 1,
                                                          !.needSave = TRUE]]
  BY DEF NativeProgress
<1>5. native' \in [Id -> NativeTorrent \union {None}]
  BY <1>3, <1>4 DEF TypeOK
<1> QED BY <1>5, EventTypes DEF TypeOK, NativeProgress, startupVars, alertVars

LEMMA NativeMetadataTypes ==
    ASSUME TypeOK, NEW id \in Id, NativeMetadata(id)
    PROVE  TypeOK'
<1>1. native[id] \in NativeTorrent
  BY DEF TypeOK, NativeMetadata
<1>2. [native[id] EXCEPT !.info = TRUE, !.needSave = TRUE] \in NativeTorrent
  BY <1>1, NativeIs
<1>3. native' = [native EXCEPT ![id] = [native[id] EXCEPT !.info = TRUE, !.needSave = TRUE]]
  BY DEF NativeMetadata
<1>4. native' \in [Id -> NativeTorrent \union {None}]
  BY <1>2, <1>3 DEF TypeOK
<1>5. native[id].kind \in Kinds
  BY <1>1, NativeIs
<1>6. [is |-> "metadata", id |-> id, kind |-> native[id].kind] \in Alert
  BY <1>5, AlertTypes
<1>7. alerts' \in Seq(Alert)
  BY <1>6, AlertsMove DEF TypeOK, NativeMetadata
<1> QED BY <1>4, <1>7, EventTypes DEF TypeOK, NativeMetadata, startupVars, alertVars

LEMMA ReadNextTypes == ASSUME TypeOK, ReadNext PROVE TypeOK'
<1>1. PICK id \in toLoad :
          /\ toLoad' = toLoad \ {id}
          /\ \/ loaded' = Append(loaded, id) /\ UNCHANGED refused
             \/ refused' = refused \union {id} /\ UNCHANGED loaded
  BY DEF ReadNext
<1>2. id \in Id
  BY DEF TypeOK
<1>3. toLoad' \subseteq Id /\ refused' \subseteq Id
  BY <1>1, <1>2 DEF TypeOK
<1>4. loaded' \in Seq(Id)
  <2>1. loaded \in Seq(Id)
    BY DEF TypeOK
  <2>2. Append(loaded, id) \in Seq(Id)
    BY <1>2, <2>1, Appended
  <2> QED BY <1>1, <2>1, <2>2
<1> QED BY <1>3, <1>4 DEF TypeOK, ReadNext, alertVars

LEMMA LoadFinishedTypes == ASSUME TypeOK, LoadFinished PROVE TypeOK'
BY DEF TypeOK, LoadFinished, alertVars

(* What handleLoadedResumeData() takes of the loaded, and what it leaves.  *)
LEMMA TakenAre ==
    ASSUME TypeOK
    PROVE  /\ Taken \in Nat /\ Taken <= Len(loaded) /\ processing + Taken <= MaxProcessing
           /\ processing \in Nat /\ Len(loaded) \in Nat
           /\ SubSeq(loaded, 1, Taken) \in Seq(Id) /\ Len(SubSeq(loaded, 1, Taken)) = Taken
           /\ DOMAIN SubSeq(loaded, 1, Taken) = 1 .. Taken
           /\ \A i \in 1 .. Taken : SubSeq(loaded, 1, Taken)[i] = loaded[i] /\ i \in DOMAIN loaded
           /\ SubSeq(loaded, Taken + 1, Len(loaded)) \in Seq(Id)
           /\ DOMAIN SubSeq(loaded, Taken + 1, Len(loaded)) = 1 .. Len(loaded) - Taken
           /\ \A i \in 1 .. Len(loaded) - Taken :
                 /\ SubSeq(loaded, Taken + 1, Len(loaded))[i] = loaded[Taken + i]
                 /\ Taken + i \in DOMAIN loaded
<1>1. /\ loaded \in Seq(Id) /\ Len(loaded) \in Nat /\ DOMAIN loaded = 1 .. Len(loaded)
      /\ processing \in Nat /\ processing <= MaxProcessing /\ MaxProcessing \in Nat
  BY SessionAssumption, Elements DEF TypeOK
<1>2. Taken \in Nat /\ Taken <= Len(loaded) /\ processing + Taken <= MaxProcessing
  BY <1>1 DEF Taken
<1> HIDE DEF Taken
<1>3. \A i \in 1 .. Taken : i \in 1 .. Len(loaded)
  BY <1>1, <1>2
<1>4. \A i \in Taken + 1 .. Len(loaded) : i \in 1 .. Len(loaded)
  BY <1>1, <1>2
<1>5. /\ SubSeq(loaded, 1, Taken) \in Seq(Id) /\ Len(SubSeq(loaded, 1, Taken)) = Taken
      /\ \A i \in 1 .. Taken : SubSeq(loaded, 1, Taken)[i] = loaded[i]
  BY <1>1, <1>2, <1>3, SubSeqProperties
<1>6. /\ SubSeq(loaded, Taken + 1, Len(loaded)) \in Seq(Id)
      /\ Len(SubSeq(loaded, Taken + 1, Len(loaded))) = Len(loaded) - Taken
      /\ \A i \in 1 .. Len(loaded) - Taken :
            SubSeq(loaded, Taken + 1, Len(loaded))[i] = loaded[Taken + i]
  <2> DEFINE m == Taken + 1
             n == Len(loaded)
             t == SubSeq(loaded, m, n)
  <2>1. m \in Int /\ n \in Int /\ \A i \in m .. n : loaded[i] \in Id
    BY <1>1, <1>2, <1>4
  <2> HIDE DEF m, n
  <2>2. /\ t \in Seq(Id) /\ Len(t) = IF m <= n THEN n - m + 1 ELSE 0
        /\ \A i \in 1 .. n - m + 1 : t[i] = loaded[m + i - 1]
    BY <2>1, SubSeqProperties
  <2> HIDE DEF t
  <2>3. Taken \in Int /\ Len(loaded) \in Int /\ Taken <= Len(loaded)
    BY <1>1, <1>2
  <2>4. n - m + 1 = Len(loaded) - Taken
    BY <2>3 DEF m, n
  <2>5. (IF m <= n THEN n - m + 1 ELSE 0) = Len(loaded) - Taken
    BY <2>3 DEF m, n
  <2>6. \A i \in Int : m + i - 1 = Taken + i
    BY <2>3 DEF m
  <2>7. Len(t) = Len(loaded) - Taken
    BY <2>2, <2>5
  <2>8. ASSUME NEW i \in 1 .. Len(loaded) - Taken
        PROVE  t[i] = loaded[Taken + i]
    <3>1. i \in Int /\ i \in 1 .. n - m + 1
      BY <2>3, <2>4
    <3>2. t[i] = loaded[m + i - 1]
      BY <2>2, <3>1, Zenon
    <3> QED BY <2>6, <3>1, <3>2
  <2> QED BY <2>2, <2>7, <2>8 DEF t, m, n
<1>7. \A i \in 1 .. Len(loaded) - Taken : Taken + i \in 1 .. Len(loaded)
  BY <1>1, <1>2
<1> QED BY <1>1, <1>2, <1>3, <1>5, <1>6, <1>7, Elements

LoadedRequests ==
    [i \in DOMAIN SubSeq(loaded, 1, Taken) |->
        AddNative(SubSeq(loaded, 1, Taken)[i], "own", stored[SubSeq(loaded, 1, Taken)[i]])]

LEMMA LoadedRequestsAre ==
    ASSUME TypeOK, \A id \in Id : InLoaded(id) => stored[id] # NoData
    PROVE  /\ LoadedRequests \in Seq(Request) /\ DOMAIN LoadedRequests = 1 .. Taken
           /\ Len(LoadedRequests) = Taken
           /\ \A i \in 1 .. Taken :
                 /\ LoadedRequests[i].do = "add" /\ LoadedRequests[i].id = loaded[i]
                 /\ LoadedRequests[i].kind = "own" /\ LoadedRequests[i].data = stored[loaded[i]]
                 /\ loaded[i] \in Id /\ stored[loaded[i]] \in Data
<1>1. /\ Taken \in Nat /\ DOMAIN SubSeq(loaded, 1, Taken) = 1 .. Taken
      /\ \A i \in 1 .. Taken : SubSeq(loaded, 1, Taken)[i] = loaded[i] /\ i \in DOMAIN loaded
  BY TakenAre
<1>2. ASSUME NEW i \in 1 .. Taken
      PROVE  loaded[i] \in Id /\ stored[loaded[i]] \in Data
  <2>1. loaded[i] \in Id
    BY <1>1, Elements DEF TypeOK
  <2>2. InLoaded(loaded[i])
    BY <1>1 DEF InLoaded
  <2>3. stored[loaded[i]] # NoData
    BY <2>1, <2>2
  <2> QED BY <2>1, <2>3 DEF TypeOK
<1>3. \A i \in 1 .. Taken :
         LET r == AddNative(loaded[i], "own", stored[loaded[i]])
         IN  r \in Request /\ r.do = "add" /\ r.id = loaded[i] /\ r.kind = "own"
             /\ r.data = stored[loaded[i]]
  BY <1>2, RequestTypes, KindsAre
<1>4. LoadedRequests = [i \in 1 .. Taken |-> AddNative(loaded[i], "own", stored[loaded[i]])]
  BY <1>1 DEF LoadedRequests
<1> HIDE DEF LoadedRequests
<1>5. LoadedRequests \in [1 .. Taken -> Request]
  BY <1>3, <1>4
<1>6. LoadedRequests \in Seq(Request) /\ DOMAIN LoadedRequests = 1 .. Taken
      /\ Len(LoadedRequests) = Taken
  BY <1>1, <1>5
<1>7. \A i \in 1 .. Taken : LoadedRequests[i] = AddNative(loaded[i], "own", stored[loaded[i]])
  BY <1>4
<1> QED BY <1>2, <1>3, <1>6, <1>7

LEMMA HandleLoadedTypes ==
    ASSUME TypeOK, \A id \in Id : InLoaded(id) => stored[id] # NoData, HandleLoadedResumeData
    PROVE  TypeOK'
<1>1. /\ loaded' = SubSeq(loaded, Taken + 1, Len(loaded))
      /\ processing' = processing + Len(SubSeq(loaded, 1, Taken))
      /\ loading' = [id \in Id |-> IF id \in ToSet(SubSeq(loaded, 1, Taken))
                                   THEN stored[id] ELSE loading[id]]
      /\ work' = work \o LoadedRequests
      /\ handling' \in BOOLEAN
      /\ phase' \in {"restored", phase}
  BY DEF HandleLoadedResumeData, LoadedRequests
<1>2. loaded' \in Seq(Id) /\ processing' \in 0 .. MaxProcessing
  <2>1. /\ Taken \in Nat /\ processing \in Nat /\ processing + Taken <= MaxProcessing
        /\ SubSeq(loaded, Taken + 1, Len(loaded)) \in Seq(Id)
        /\ Len(SubSeq(loaded, 1, Taken)) = Taken
    BY TakenAre
  <2>2. processing' = processing + Taken /\ MaxProcessing \in Nat
    BY <1>1, <2>1, SessionAssumption
  <2> HIDE DEF Taken
  <2> QED BY <1>1, <2>1, <2>2
<1>3. work' \in Seq(Request)
  BY <1>1, LoadedRequestsAre, RequestsMove DEF TypeOK
<1>4. ASSUME NEW id \in Id
      PROVE  loading'[id] \in Data \union {None}
  <2>1. CASE id \in ToSet(SubSeq(loaded, 1, Taken))
    <3>1. PICK i \in DOMAIN SubSeq(loaded, 1, Taken) : SubSeq(loaded, 1, Taken)[i] = id
      BY <2>1 DEF ToSet
    <3>2. i \in DOMAIN loaded /\ loaded[i] = id
      BY <3>1, TakenAre
    <3>3. stored[id] # NoData
      BY <3>2 DEF InLoaded
    <3>4. stored[id] \in Data
      BY <3>3 DEF TypeOK
    <3> QED BY <1>1, <2>1, <3>4
  <2>2. CASE id \notin ToSet(SubSeq(loaded, 1, Taken))
    BY <1>1, <2>2 DEF TypeOK
  <2> QED BY <2>1, <2>2
<1>5. loading' \in [Id -> Data \union {None}]
  BY <1>1, <1>4
<1>6. phase' \in {"startup", "restored", "exiting", "ended", "aborted"}
  BY <1>1 DEF TypeOK
<1>7. handling' \in BOOLEAN
  BY <1>1
<1>8. UNCHANGED <<stored, runs, events, torrents, hidden, needSave, count, searches,
                  toLoad, loadFinished, refused, native, alertVars>>
  BY DEF HandleLoadedResumeData
<1> QED BY <1>2, <1>3, <1>5, <1>6, <1>7, <1>8 DEF TypeOK, alertVars

(* A sequence of at most one request, for what is added with a condition.  *)
LEMMA CancelIs ==
    ASSUME NEW id \in Id
    PROVE  /\ Cancel(id) \in Seq(Request)
           /\ hidden[id] # "handle" => Cancel(id) = <<>>
           /\ hidden[id] = "handle" =>
                 /\ Len(Cancel(id)) = 1 /\ DOMAIN Cancel(id) = {1}
                 /\ Cancel(id)[1] = RemoveNative(id, "hidden")
<1>1. RemoveNative(id, "hidden") \in Request
  BY RequestTypes, KindsAre
<1> QED BY <1>1, EmptySeq DEF Cancel

LEMMA AddTorrentTypes ==
    ASSUME TypeOK, NEW id \in Id, AddTorrent(id)
    PROVE  TypeOK'
<1>1. PICK info \in BOOLEAN : \E search \in IF info THEN BOOLEAN ELSE {FALSE} :
          LET data == [own |-> 0, progress |-> 0, info |-> info]
          IN  /\ loading' = [loading EXCEPT ![id] = data]
              /\ searches' = IF search THEN [searches EXCEPT ![id] = @ + 1] ELSE searches
              /\ work' = work \o Cancel(id) \o
                             IF search THEN <<>> ELSE <<AddNative(id, "own", data)>>
  BY DEF AddTorrent
<1>2. PICK search \in BOOLEAN :
          LET data == [own |-> 0, progress |-> 0, info |-> info]
          IN  /\ loading' = [loading EXCEPT ![id] = data]
              /\ searches' = IF search THEN [searches EXCEPT ![id] = @ + 1] ELSE searches
              /\ work' = work \o Cancel(id) \o
                             IF search THEN <<>> ELSE <<AddNative(id, "own", data)>>
  BY <1>1
<1> DEFINE data == [own |-> 0, progress |-> 0, info |-> info]
<1>3. data \in Data
  BY DataIs
<1> HIDE DEF data
<1>4. loading' = [loading EXCEPT ![id] = data]
  BY <1>2 DEF data
<1>5. loading' \in [Id -> Data \union {None}]
  BY <1>3, <1>4 DEF TypeOK
<1>6. searches' \in [Id -> Nat]
  BY <1>2 DEF TypeOK
<1>7. work' \in Seq(Request)
  <2>1. <<>> \in Seq(Request) /\ <<AddNative(id, "own", data)>> \in Seq(Request)
    BY <1>3, RequestTypes, KindsAre, EmptySeq
  <2>2. PICK t \in Seq(Request) : work' = work \o Cancel(id) \o t
    BY <1>2, <2>1 DEF data
  <2>3. work \o Cancel(id) \in Seq(Request)
    BY CancelIs, RequestsMove DEF TypeOK
  <2> QED BY <2>2, <2>3, RequestsMove
<1>8. hidden' \in [Id -> {"no", "pending", "handle"}]
  BY DEF TypeOK, AddTorrent
<1> QED BY <1>5, <1>6, <1>7, <1>8, EventTypes DEF TypeOK, AddTorrent, startupVars, alertVars

LEMMA DownloadMetadataTypes ==
    ASSUME TypeOK, NEW id \in Id, DownloadMetadata(id)
    PROVE  TypeOK'
<1>1. [own |-> 0, progress |-> 0, info |-> FALSE] \in Data
  BY DataIs
<1>2. AddNative(id, "hidden", [own |-> 0, progress |-> 0, info |-> FALSE]) \in Request
  BY <1>1, RequestTypes, KindsAre
<1>3. work' \in Seq(Request)
  BY <1>2, RequestsMove DEF TypeOK, DownloadMetadata
<1>4. hidden' \in [Id -> {"no", "pending", "handle"}]
  BY DEF TypeOK, DownloadMetadata
<1> QED BY <1>3, <1>4, EventTypes DEF TypeOK, DownloadMetadata, startupVars, alertVars

LEMMA CancelDownloadMetadataTypes ==
    ASSUME TypeOK, NEW id \in Id, CancelDownloadMetadata(id)
    PROVE  TypeOK'
<1>1. work' \in Seq(Request)
  BY CancelIs, RequestsMove DEF TypeOK, CancelDownloadMetadata
<1>2. hidden' \in [Id -> {"no", "pending", "handle"}]
  BY DEF TypeOK, CancelDownloadMetadata
<1> QED BY <1>1, <1>2, EventTypes DEF TypeOK, CancelDownloadMetadata, startupVars, alertVars

LEMMA DeleteTorrentTypes ==
    ASSUME TypeOK, NEW id \in Id, DeleteTorrent(id)
    PROVE  TypeOK'
<1>1. torrents[id].kind \in Kinds
  <2>1. torrents[id] \in TorrentImpl
    BY DEF TypeOK, DeleteTorrent, InSession
  <2> QED BY <2>1, TorrentIs
<1>2. work' \in Seq(Request)
  BY <1>1, RequestTypes, RequestsMove DEF TypeOK, DeleteTorrent
<1>3. torrents' \in [Id -> TorrentImpl \union {None}] /\ stored' \in [Id -> Data \union {NoData}]
  BY DEF TypeOK, DeleteTorrent
<1> QED BY <1>2, <1>3, EventTypes DEF TypeOK, DeleteTorrent, startupVars, alertVars

LEMMA ChangeTorrentTypes ==
    ASSUME TypeOK, NEW id \in Id, ChangeTorrent(id)
    PROVE  TypeOK'
<1>1. torrents[id] \in TorrentImpl
  BY DEF TypeOK, ChangeTorrent, InSession
<1>2. torrents[id].own + 1 \in Nat
  <2>1. torrents[id].own \in Nat
    BY <1>1, TorrentIs
  <2> QED BY <2>1
<1>3. torrents' = [torrents EXCEPT ![id] = [torrents[id] EXCEPT !.own = torrents[id].own + 1]]
  BY DEF ChangeTorrent
<1>4. [torrents[id] EXCEPT !.own = torrents[id].own + 1] \in TorrentImpl
  BY <1>1, <1>2, TorrentIs
<1>5. torrents' \in [Id -> TorrentImpl \union {None}] /\ needSave' \subseteq Id
  BY <1>3, <1>4 DEF TypeOK, ChangeTorrent
<1> QED BY <1>5, EventTypes DEF TypeOK, ChangeTorrent, startupVars, alertVars

LEMMA SaveNeededTypes == ASSUME TypeOK, SaveNeeded PROVE TypeOK'
<1> DEFINE ids == {id \in needSave : InSession(id)}
<1>1. ids \in SUBSET Id
  BY DEF TypeOK
<1>2. work' = work \o Saves(ids, TRUE) /\ count' = count + Cardinality(ids) /\ needSave' = {}
  BY DEF SaveNeeded
<1> HIDE DEF ids
<1>3. Saves(ids, TRUE) \in Seq(Request) /\ Cardinality(ids) \in Nat
  BY <1>1, SavesAre
<1>4. work' \in Seq(Request)
  BY <1>2, <1>3, RequestsMove DEF TypeOK
<1>5. count' \in Int
  BY <1>2, <1>3 DEF TypeOK
<1> QED BY <1>2, <1>4, <1>5 DEF TypeOK, SaveNeeded, startupVars, alertVars

LEMMA GenerateResumeDataTypes == ASSUME TypeOK, GenerateResumeData PROVE TypeOK'
<1>1. PICK ids \in SUBSET Id :
          /\ needSave' = needSave \ ids
          /\ work' = work \o Saves(ids, TRUE)
          /\ count' = count + Cardinality(ids)
  BY DEF GenerateResumeData
<1>2. Saves(ids, TRUE) \in Seq(Request) /\ Cardinality(ids) \in Nat
  BY SavesAre
<1>3. work' \in Seq(Request)
  BY <1>1, <1>2, RequestsMove DEF TypeOK
<1>4. count' \in Int
  BY <1>1, <1>2 DEF TypeOK
<1>5. needSave' \subseteq Id
  BY <1>1 DEF TypeOK
<1> QED BY <1>3, <1>4, <1>5, EventTypes DEF TypeOK, GenerateResumeData, startupVars, alertVars

LEMMA SearchFinishedTypes ==
    ASSUME TypeOK, NEW id \in Id, SearchFinished(id)
    PROVE  TypeOK'
<1>1. searches' \in [Id -> Nat]
  <2>1. searches' = [searches EXCEPT ![id] = searches[id] - 1] /\ searches[id] > 0
    BY DEF SearchFinished
  <2>2. searches \in [Id -> Nat]
    BY DEF TypeOK
  <2>3. searches[id] - 1 \in Nat
    BY <2>1, <2>2
  <2> QED BY <2>1, <2>2, <2>3
<1>2. CASE InSession(id) /\ torrents[id].received
  <2>1. torrents[id] \in TorrentImpl
    BY <1>2 DEF TypeOK, InSession
  <2>2. [torrents[id] EXCEPT !.received = FALSE, !.info = TRUE] \in TorrentImpl
        /\ torrents[id].own \in Nat
    BY <2>1, TorrentIs
  <2>3. torrents' = [torrents EXCEPT ![id] = [torrents[id] EXCEPT !.received = FALSE, !.info = TRUE]]
    BY <1>2 DEF SearchFinished
  <2>4. torrents' \in [Id -> TorrentImpl \union {None}]
    BY <2>2, <2>3 DEF TypeOK
  <2>5. [own |-> torrents[id].own, progress |-> 0, info |-> TRUE] \in Data
    BY <2>2, DataIs
  <2>6. stored' \in [Id -> Data \union {NoData}]
    BY <1>2, <2>5 DEF TypeOK, SearchFinished
  <2>7. native' \in [Id -> NativeTorrent \union {None}]
    <3>1. native' = [native EXCEPT ![id] = [native[id] EXCEPT !.needSave = TRUE]]
      BY <1>2 DEF SearchFinished
    <3>2. [None EXCEPT !.needSave = TRUE] = None
      BY DEF None
    <3>3. \A n \in NativeTorrent : [n EXCEPT !.needSave = TRUE] \in NativeTorrent
      BY NativeIs
    <3>4. native[id] \in NativeTorrent \union {None}
      BY DEF TypeOK
    <3>5. [native[id] EXCEPT !.needSave = TRUE] \in NativeTorrent \union {None}
      BY <3>2, <3>3, <3>4
    <3> QED BY <3>1, <3>5 DEF TypeOK
  <2>8. count' \in Int /\ work' \in Seq(Request)
    BY <1>2 DEF TypeOK, SearchFinished
  <2> QED BY <1>1, <1>2, <2>4, <2>6, <2>7, <2>8 DEF TypeOK, SearchFinished, startupVars, alertVars
<1>3. CASE ~(InSession(id) /\ torrents[id].received)
  <2>1. work' \in Seq(Request)
    <3>1. CASE InSession(id) \/ loading[id] = None
      BY <1>3, <3>1 DEF TypeOK, SearchFinished
    <3>2. CASE ~(InSession(id) \/ loading[id] = None)
      <4>1. loading[id] \in Data
        BY <3>2 DEF TypeOK
      <4>2. AddNative(id, "own", loading[id]) \in Request
        BY <4>1, RequestTypes, KindsAre
      <4>3. work' = Append(work, AddNative(id, "own", loading[id]))
        BY <1>3, <3>2 DEF SearchFinished
      <4> QED BY <4>2, <4>3, RequestsMove DEF TypeOK
    <3> QED BY <3>1, <3>2
  <2> QED BY <1>1, <1>3, <2>1 DEF TypeOK, SearchFinished, startupVars, alertVars
<1> QED BY <1>2, <1>3

LEMMA ReadAlertsTypes == ASSUME TypeOK, ReadAlerts PROVE TypeOK'
<1>1. alerts' \in Seq(Alert) /\ adds' \in Seq(Alert) /\ batch' \in Seq(Alert)
  BY AlertsMove DEF TypeOK, ReadAlerts
<1> QED BY <1>1 DEF TypeOK, ReadAlerts, startupVars

LEMMA HandleAddedTypes ==
    ASSUME TypeOK, phase = "startup" => ProcessingInv, HandleAdded
    PROVE  TypeOK'
<1> DEFINE a == Head(adds)
<1>1. a \in Alert /\ adds' \in Seq(Alert)
  BY AlertsMove DEF TypeOK, HandleAdded
<1>2. a.id \in Id
  BY <1>1, AlertParts
<1> HIDE DEF a
<1>3. ASSUME OnAdded(a)
      PROVE  /\ loading' \in [Id -> Data \union {None}]
             /\ torrents' \in [Id -> TorrentImpl \union {None}]
             /\ hidden' \in [Id -> {"no", "pending", "handle"}]
             /\ work' \in Seq(Request)
             /\ count' \in Int
             /\ processing' \in 0 .. MaxProcessing
             /\ handling' \in BOOLEAN
  <2>1. loading' \in [Id -> Data \union {None}]
    BY <1>3 DEF OnAdded, Added, TypeOK
  <2>2. hidden' \in [Id -> {"no", "pending", "handle"}]
    BY <1>2, <1>3 DEF OnAdded, TypeOK
  <2>3. handling' \in BOOLEAN
    BY <1>3 DEF OnAdded, Processed, TypeOK
  <2>4. processing' \in 0 .. MaxProcessing
    <3>1. CASE phase = "startup"
      <4>1. ProcessingInv /\ processing' = processing - 1
        BY <1>3, <3>1 DEF OnAdded, Processed
      <4>2. adds # <<>> /\ Head(adds) \in AddedAlerts
        BY <1>1, <1>3 DEF HandleAdded, OnAdded, AddedAlerts, a
      <4>3. /\ Number(work, AddRequests) \in Nat /\ Number(alerts, AddedAlerts) \in Nat
            /\ Number(Tail(adds), AddedAlerts) \in Nat
        BY <1>1, PositionsFinite DEF TypeOK, HandleAdded
      <4>4. Number(adds, AddedAlerts) = Number(Tail(adds), AddedAlerts) + 1
        BY <4>2, NumberRest DEF TypeOK
      <4> QED BY <4>1, <4>3, <4>4, SessionAssumption DEF ProcessingInv
    <3>2. CASE phase # "startup"
      BY <1>3, <3>2 DEF OnAdded, Processed, TypeOK
    <3> QED BY <3>1, <3>2
  <2>5. /\ torrents' \in [Id -> TorrentImpl \union {None}]
        /\ work' \in Seq(Request)
        /\ count' \in Int
    <3>1. CASE loading[a.id] # None /\ a.ok
      <4>1. CreateTorrent(a)
        BY <1>3, <3>1 DEF OnAdded
      <4>2. loading[a.id] \in Data /\ a.kind \in Kinds
        BY <1>1, <1>2, <1>3, <3>1, AlertParts DEF TypeOK, OnAdded
      <4>3. loading[a.id].own \in Nat /\ loading[a.id].info \in BOOLEAN
        BY <4>2, DataIs
      <4>4. [kind |-> a.kind, own |-> loading[a.id].own,
             info |-> loading[a.id].info, received |-> FALSE] \in TorrentImpl
        BY <4>2, <4>3, TorrentIs
      <4>5. torrents' \in [Id -> TorrentImpl \union {None}]
        BY <4>1, <4>4 DEF CreateTorrent, TypeOK
      <4>6. SaveNative(a.id, TRUE) \in Request
        BY <1>2, RequestTypes
      <4>7. work' \in Seq(Request)
        BY <4>1, <4>6, RequestsMove DEF CreateTorrent, TypeOK
      <4>8. count' \in Int
        <5>1. count' \in {count, count + 1}
          BY <4>1, Zenon DEF CreateTorrent
        <5> QED BY <5>1 DEF TypeOK
      <4> QED BY <4>5, <4>7, <4>8
    <3>2. CASE ~(loading[a.id] # None /\ a.ok)
      BY <1>3, <3>2 DEF OnAdded, TypeOK
    <3> QED BY <3>1, <3>2
  <2> QED BY <2>1, <2>2, <2>3, <2>4, <2>5
<1>4. CASE OnAdded(a)
  BY <1>1, <1>3, <1>4 DEF TypeOK, HandleAdded
<1>5. CASE OnOther(a)
  BY <1>1, <1>5 DEF TypeOK, HandleAdded, OnOther
<1> QED BY <1>4, <1>5 DEF HandleAdded, a

LEMMA HandleAlertTypes == ASSUME TypeOK, HandleAlert PROVE TypeOK'
<1> DEFINE a == Head(batch)
<1>1. a \in Alert /\ batch' \in Seq(Alert)
  BY AlertsMove DEF TypeOK, HandleAlert
<1>2. a.id \in Id
  BY <1>1, AlertParts
<1> HIDE DEF a
<1>3. CASE OnSaved(a)
  <2>1. torrents[a.id] \in TorrentImpl
    BY <1>2, <1>3 DEF OnSaved, InSession, TypeOK
  <2>2. [own |-> torrents[a.id].own, progress |-> a.progress, info |-> a.info] \in Data
    <3>1. torrents[a.id].own \in Nat
      BY <2>1, TorrentIs
    <3>2. a.progress \in Nat /\ a.info \in BOOLEAN
      BY <1>1, <1>3, AlertParts DEF OnSaved
    <3> QED BY <3>1, <3>2, DataIs
  <2>3. searches' \in [Id -> Nat] /\ count' \in Int
    <3>1. searches' \in {searches, [searches EXCEPT ![a.id] = searches[a.id] + 1]}
      BY <1>3, Zenon DEF OnSaved
    <3>2. count' \in {count, count - 1}
      <4>1. torrents[a.id].received => count' = count
        BY <1>3 DEF OnSaved
      <4>2. ~torrents[a.id].received => count' = count - 1
        BY <1>3 DEF OnSaved
      <4> QED BY <4>1, <4>2
    <3>3. searches[a.id] + 1 \in Nat
      BY <1>2 DEF TypeOK
    <3>4. searches' \in [Id -> Nat]
      BY <1>2, <3>1, <3>3 DEF TypeOK
    <3>5. count' \in Int
      BY <3>2 DEF TypeOK
    <3> QED BY <3>4, <3>5
  <2>4. stored' \in [Id -> Data \union {NoData}]
    BY <1>3, <2>2 DEF OnSaved, TypeOK
  <2> QED BY <1>1, <1>3, <2>3, <2>4 DEF OnSaved, HandleAlert, TypeOK, startupVars
<1>4. CASE OnNotModified(a)
  <2>1. count' \in Int
    <3>1. count' = count - 1
      BY <1>4 DEF OnNotModified
    <3> QED BY <3>1 DEF TypeOK
  <2> QED BY <1>1, <1>4, <2>1 DEF OnNotModified, HandleAlert, TypeOK, startupVars
<1>5. CASE OnMetadata(a)
  <2>1. CASE InSession(a.id)
    <3>1. torrents[a.id] \in TorrentImpl
      BY <1>2, <2>1 DEF InSession, TypeOK
    <3>2. [torrents[a.id] EXCEPT !.received = TRUE] \in TorrentImpl
      BY <3>1, TorrentIs
    <3>3. torrents' = [torrents EXCEPT ![a.id] = [torrents[a.id] EXCEPT !.received = TRUE]]
      BY <1>5, <2>1 DEF OnMetadata
    <3>4. torrents' \in [Id -> TorrentImpl \union {None}]
      BY <3>2, <3>3 DEF TypeOK
    <3>5. needSave' \subseteq Id
      BY <1>2, <1>5, <2>1 DEF OnMetadata, TypeOK
    <3> QED BY <1>1, <1>5, <2>1, <3>4, <3>5 DEF OnMetadata, HandleAlert, TypeOK, startupVars
  <2>2. CASE ~InSession(a.id)
    <3>1. RemoveNative(a.id, "hidden") \in Request
      BY <1>2, RequestTypes, KindsAre
    <3>2. work' \in Seq(Request)
      <4>1. work' \in {work, Append(work, RemoveNative(a.id, "hidden"))}
        BY <1>5, <2>2, Zenon DEF OnMetadata
      <4> QED BY <3>1, <4>1, RequestsMove DEF TypeOK
    <3>3. hidden' \in [Id -> {"no", "pending", "handle"}]
      BY <1>5, <2>2 DEF OnMetadata, TypeOK
    <3> QED BY <1>1, <1>5, <2>2, <3>2, <3>3 DEF OnMetadata, HandleAlert, TypeOK, startupVars
  <2> QED BY <2>1, <2>2
<1>6. CASE OnUnknown(a)
  BY <1>1, <1>6 DEF OnUnknown, HandleAlert, TypeOK, startupVars
<1> QED BY <1>3, <1>4, <1>5, <1>6 DEF HandleAlert, a

LEMMA ExitTypes == ASSUME TypeOK, Exit PROVE TypeOK'
<1> DEFINE ids == {id \in Id : InSession(id)}
<1>1. ids \in SUBSET Id
  OBVIOUS
<1>2. work' = work \o Saves(ids, FALSE) /\ count' = count + Cardinality(ids) /\ phase' = "exiting"
  BY DEF Exit
<1> HIDE DEF ids
<1>3. Saves(ids, FALSE) \in Seq(Request) /\ Cardinality(ids) \in Nat
  BY <1>1, SavesAre
<1>4. work' \in Seq(Request)
  BY <1>2, <1>3, RequestsMove DEF TypeOK
<1>5. count' \in Int
  BY <1>2, <1>3 DEF TypeOK
<1> QED BY <1>2, <1>4, <1>5 DEF TypeOK, Exit, startupVars, alertVars

LEMMA EndTypes == ASSUME TypeOK, End PROVE TypeOK'
BY DEF TypeOK, End, startupVars, alertVars

LEMMA RestartTypes == ASSUME TypeOK, Restart PROVE TypeOK'
<1>1. runs' \in 1 .. MaxRuns /\ processing' \in 0 .. MaxProcessing
  BY SessionAssumption DEF TypeOK, Restart
<1>2. /\ loaded' \in Seq(Id) /\ work' \in Seq(Request)
      /\ alerts' \in Seq(Alert) /\ adds' \in Seq(Alert) /\ batch' \in Seq(Alert)
  BY EmptySeq DEF Restart
<1>3. /\ torrents' \in [Id -> TorrentImpl \union {None}]
      /\ loading' \in [Id -> Data \union {None}]
      /\ hidden' \in [Id -> {"no", "pending", "handle"}]
      /\ searches' \in [Id -> Nat]
      /\ native' \in [Id -> NativeTorrent \union {None}]
  BY DEF Restart
<1>4. needSave' \subseteq Id /\ count' \in Int /\ refused' \subseteq Id
  BY DEF Restart
<1>5. toLoad' \subseteq Id
  BY Zenon DEF Restart
<1>6. loadFinished' \in BOOLEAN /\ handling' \in BOOLEAN
  BY Zenon DEF Restart
<1>7. phase' \in {"startup", "restored", "exiting", "ended", "aborted"}
  BY DEF Restart
<1> QED BY <1>1, <1>2, <1>3, <1>4, <1>5, <1>6, <1>7 DEF TypeOK, Restart

-----------------------------------------------------------------------------
(* The startup.                                                            *)

(* A program that has just been started.                                   *)
Fresh ==
    /\ phase = "startup"
    /\ torrents = [id \in Id |-> None]
    /\ loading = [id \in Id |-> None]
    /\ hidden = [id \in Id |-> "no"]
    /\ needSave = {}
    /\ count = 0
    /\ searches = [id \in Id |-> 0]
    /\ toLoad = {id \in Id : stored[id] # NoData}
    /\ loaded = <<>>
    /\ loadFinished = FALSE
    /\ processing = 0
    /\ handling = TRUE
    /\ refused = {}
    /\ native = [id \in Id |-> None]
    /\ work = <<>> /\ alerts = <<>> /\ adds = <<>> /\ batch = <<>>

LEMMA NothingIn ==
    \A id : AddsIn(<<>>, id) = {} /\ AddedIn(<<>>, id) = {}
<1>1. \A P : Positions(<<>>, P) = {}
  BY DEF Positions
<1> QED BY <1>1, Zenon DEF AddsIn, AddedIn

LEMMA FreshStarts == Fresh => StartupInv
<1> SUFFICES ASSUME Fresh PROVE ProcessingInv /\ OnlyAdditions /\ LoadedOnce /\ \A id \in Id : Starting(id)
  BY DEF StartupInv
<1>1. ProcessingInv
  <2>1. processing = 0 /\ work = <<>> /\ alerts = <<>> /\ adds = <<>>
    BY DEF Fresh
  <2> QED BY <2>1, NumberEmpty, SessionAssumption DEF ProcessingInv
<1>2. OnlyAdditions /\ LoadedOnce
  BY DEF Fresh, OnlyAdditions, LoadedOnce
<1>3. ASSUME NEW id \in Id
      PROVE  Starting(id)
  <2>1. /\ torrents[id] = None /\ loading[id] = None /\ hidden[id] = "no" /\ searches[id] = 0
        /\ native[id] = None
    BY DEF Fresh
  <2>2. ~InLoaded(id)
    BY DEF Fresh, InLoaded
  <2>3. AddsIn(work, id) = {} /\ AddedIn(alerts, id) = {} /\ AddedIn(adds, id) = {}
    BY NothingIn DEF Fresh
  <2>4. id \in toLoad <=> stored[id] # NoData
    BY DEF Fresh
  <2>5. UnreadInv(id) /\ NotLost(id)
    BY <2>1, <2>2, <2>3, <2>4 DEF UnreadInv, NotLost, Unread, Asked, InSession
  <2>6. AskedInv(id) /\ AnsweredInv(id)
    BY <2>1, <2>3 DEF AskedInv, AnsweredInv, AtMostOne, Asked
  <2>7. RestoredAsStored(id)
    BY <2>1 DEF RestoredAsStored, InSession
  <2> QED BY <2>5, <2>6, <2>7 DEF Starting
<1> QED BY <1>1, <1>2, <1>3

LEMMA InitFresh == Init => Fresh
BY DEF Init, Fresh

LEMMA RestartFresh == Restart => Fresh'
BY DEF Restart, Fresh

(* What is in a sequence, by its parts.                                    *)
LEMMA IsIn ==
    /\ \A w, id : \A i \in AddsIn(w, id) :
          i \in DOMAIN w /\ w[i] \in Request /\ w[i].do = "add" /\ w[i].id = id
    /\ \A s, id : \A i \in AddedIn(s, id) :
          i \in DOMAIN s /\ s[i] \in Alert /\ s[i].is = "added" /\ s[i].id = id
BY DEF AddsIn, AddedIn, Additions, Replies, Positions

(* Additions after a request was taken, or one was added.                  *)
LEMMA AddsRest ==
    ASSUME NEW w \in Seq(Request), w # <<>>, NEW id \in Id
    PROVE  /\ Head(w).do = "add" /\ Head(w).id = id =>
                 1 \in AddsIn(w, id) /\ Head(w) = w[1]
                 /\ (AtMostOne(AddsIn(w, id)) => AddsIn(Tail(w), id) = {})
           /\ ~(Head(w).do = "add" /\ Head(w).id = id) =>
                 (AddsIn(Tail(w), id) = {} <=> AddsIn(w, id) = {})
           /\ AddsIn(w, id) = {} => AddsIn(Tail(w), id) = {}
           /\ AtMostOne(AddsIn(w, id)) => AtMostOne(AddsIn(Tail(w), id))
           /\ \A i \in AddsIn(Tail(w), id) : i + 1 \in AddsIn(w, id) /\ Tail(w)[i] = w[i + 1]
<1> DEFINE P == Additions(id)
<1>1. Head(w) \in P <=> Head(w).do = "add" /\ Head(w).id = id
  BY Rest DEF Additions
<1>2. AddsIn(w, id) = Positions(w, P) /\ AddsIn(Tail(w), id) = Positions(Tail(w), P)
  BY DEF AddsIn
<1> HIDE DEF P
<1>3. /\ Positions(w, P) \subseteq Int /\ Positions(Tail(w), P) \subseteq Int
      /\ 1 \in Positions(w, P) <=> Head(w) \in P
      /\ Head(w) = w[1]
      /\ \A i \in Positions(Tail(w), P) :
            i + 1 \in Positions(w, P) /\ i + 1 > 1 /\ Tail(w)[i] = w[i + 1]
      /\ \A i \in Positions(w, P) :
            i # 1 => i - 1 \in Positions(Tail(w), P) /\ w[i] = Tail(w)[i - 1]
      /\ AtMostOne(Positions(w, P)) => AtMostOne(Positions(Tail(w), P))
      /\ AtMostOne(Positions(w, P)) /\ Head(w) \in P => Positions(Tail(w), P) = {}
      /\ Head(w) \notin P => (Positions(Tail(w), P) = {} <=> Positions(w, P) = {})
      /\ Positions(w, P) = {} => Positions(Tail(w), P) = {} /\ Head(w) \notin P
  BY PositionsRest
<1> QED BY <1>1, <1>2, <1>3

LEMMA AddedRest ==
    ASSUME NEW s \in Seq(Alert), s # <<>>, NEW id \in Id
    PROVE  /\ Head(s).is = "added" /\ Head(s).id = id =>
                 1 \in AddedIn(s, id) /\ Head(s) = s[1]
                 /\ (AtMostOne(AddedIn(s, id)) => AddedIn(Tail(s), id) = {})
           /\ ~(Head(s).is = "added" /\ Head(s).id = id) =>
                 (AddedIn(Tail(s), id) = {} <=> AddedIn(s, id) = {})
           /\ AddedIn(s, id) = {} => AddedIn(Tail(s), id) = {}
           /\ AtMostOne(AddedIn(s, id)) => AtMostOne(AddedIn(Tail(s), id))
           /\ \A i \in AddedIn(Tail(s), id) : i + 1 \in AddedIn(s, id) /\ Tail(s)[i] = s[i + 1]
           /\ \A i \in AddedIn(s, id) : i = 1 \/ (i - 1 \in AddedIn(Tail(s), id) /\ Tail(s)[i - 1] = s[i])
<1> DEFINE P == Replies(id)
<1>1. Head(s) \in P <=> Head(s).is = "added" /\ Head(s).id = id
  BY Rest DEF Replies
<1>2. AddedIn(s, id) = Positions(s, P) /\ AddedIn(Tail(s), id) = Positions(Tail(s), P)
  BY DEF AddedIn
<1> HIDE DEF P
<1>3. /\ Positions(s, P) \subseteq Int /\ Positions(Tail(s), P) \subseteq Int
      /\ 1 \in Positions(s, P) <=> Head(s) \in P
      /\ Head(s) = s[1]
      /\ \A i \in Positions(Tail(s), P) :
            i + 1 \in Positions(s, P) /\ i + 1 > 1 /\ Tail(s)[i] = s[i + 1]
      /\ \A i \in Positions(s, P) :
            i # 1 => i - 1 \in Positions(Tail(s), P) /\ s[i] = Tail(s)[i - 1]
      /\ AtMostOne(Positions(s, P)) => AtMostOne(Positions(Tail(s), P))
      /\ AtMostOne(Positions(s, P)) /\ Head(s) \in P => Positions(Tail(s), P) = {}
      /\ Head(s) \notin P => (Positions(Tail(s), P) = {} <=> Positions(s, P) = {})
      /\ Positions(s, P) = {} => Positions(Tail(s), P) = {} /\ Head(s) \notin P
  BY PositionsRest
<1> QED BY <1>1, <1>2, <1>3

LEMMA AddedAppended ==
    ASSUME NEW s \in Seq(Alert), NEW a \in Alert, NEW id \in Id
    PROVE  /\ a.is = "added" /\ a.id = id =>
                 AddedIn(Append(s, a), id) = AddedIn(s, id) \union {Len(s) + 1}
           /\ ~(a.is = "added" /\ a.id = id) => AddedIn(Append(s, a), id) = AddedIn(s, id)
           /\ Append(s, a)[Len(s) + 1] = a
           /\ AddedIn(s, id) = {} => AtMostOne(AddedIn(Append(s, a), id))
<1> DEFINE P == Replies(id)
<1>1. a \in P <=> a.is = "added" /\ a.id = id
  BY DEF Replies
<1>2. AddedIn(s, id) = Positions(s, P) /\ AddedIn(Append(s, a), id) = Positions(Append(s, a), P)
  BY DEF AddedIn
<1> HIDE DEF P
<1> QED BY <1>1, <1>2, PositionsAppended

LEMMA AdditionCounted ==
    /\ \A r \in Request : r \in AddRequests <=> r.do = "add"
    /\ \A a \in Alert : a \in AddedAlerts <=> a.is = "added"
BY DEF AddRequests, AddedAlerts

LEMMA NativeStepStarting ==
    ASSUME TypeOK, StartupInv, phase = "startup", NativeStep
    PROVE  StartupInv'
<1> DEFINE r == Head(work)
<1>0. ProcessingInv /\ OnlyAdditions /\ LoadedOnce /\ \A id \in Id : Starting(id)
  BY DEF StartupInv
<1>1. /\ work \in Seq(Request) /\ work # <<>> /\ work' = Tail(work) /\ r \in Request
      /\ alerts \in Seq(Alert) /\ r = work[1] /\ 1 \in DOMAIN work /\ r.id \in Id
  <2>1. work \in Seq(Request) /\ work # <<>> /\ work' = Tail(work) /\ alerts \in Seq(Alert)
    BY DEF TypeOK, NativeStep
  <2> QED BY <2>1, Rest, RequestParts
<1>2. r.do = "add"
  BY <1>0, <1>1 DEF OnlyAdditions
<1>3. NativeAdd(r)
  BY <1>2 DEF NativeStep, NativeRemove, NativeSave
<1>4. r.kind = "own" /\ r.data = stored[r.id] /\ native[r.id] = None /\ AddsIn(Tail(work), r.id) = {}
      /\ ~Unread(r.id)
  <2>1. Starting(r.id) /\ 1 \in AddsIn(work, r.id)
    BY <1>0, <1>1, <1>2, AddsRest
  <2> QED BY <1>1, <1>2, <2>1, AddsRest DEF Starting, AskedInv, UnreadInv, Asked
<1> HIDE DEF r
<1>5. PICK accepts \in BOOLEAN :
          /\ native' = IF ~accepts THEN native
                       ELSE [native EXCEPT ![r.id] = [kind |-> r.kind, info |-> r.data.info,
                                                      progress |-> r.data.progress,
                                                      needSave |-> FALSE]]
          /\ refused' = IF accepts THEN refused ELSE refused \union {r.id}
          /\ alerts' = Append(alerts,
                 [is |-> "added", id |-> r.id, kind |-> native'[r.id].kind, ok |-> accepts])
  BY <1>3, <1>4, Zenon DEF NativeAdd
<1> DEFINE a == [is |-> "added", id |-> r.id, kind |-> native'[r.id].kind, ok |-> accepts]
<1>6. a.is = "added" /\ a.id = r.id /\ a.ok = accepts
  OBVIOUS
<1>7. a \in Alert
  <2>1. alerts' \in Seq(Alert)
    BY NativeStepTypes DEF TypeOK
  <2>2. Len(alerts') = Len(alerts) + 1 /\ alerts'[Len(alerts) + 1] = a /\ Len(alerts) \in Nat
    BY <1>1, <1>5
  <2>3. Len(alerts) + 1 \in DOMAIN alerts'
    BY <2>1, <2>2, Elements
  <2> QED BY <2>1, <2>2, <2>3, Elements
<1>8. alerts' = Append(alerts, a)
  BY <1>5
<1> HIDE DEF a
<1>9. /\ UNCHANGED <<stored, phase, torrents, loading, hidden, needSave, searches, toLoad, loaded,
                     loadFinished, processing, handling, adds, batch>>
      /\ refused \subseteq refused'
  BY <1>5 DEF NativeStep
<1>10. ProcessingInv'
  <2>1. Number(work', AddRequests) + 1 = Number(work, AddRequests)
    <3>1. Number(work, AddRequests) = Number(Tail(work), AddRequests) + 1
      BY <1>1, <1>2, NumberRest, AdditionCounted DEF r
    <3> QED BY <1>1, <3>1
  <2>2. Number(alerts', AddedAlerts) = Number(alerts, AddedAlerts) + 1
    <3>1. a \in AddedAlerts
      BY <1>6, <1>7, AdditionCounted
    <3> QED BY <1>1, <1>7, <1>8, <3>1, NumberAppended
  <2>3. /\ Number(work', AddRequests) \in Nat /\ Number(work, AddRequests) \in Nat
        /\ Number(alerts, AddedAlerts) \in Nat /\ Number(adds, AddedAlerts) \in Nat
    BY <1>1, RequestsMove, PositionsFinite DEF TypeOK
  <2>4. /\ processing = Number(work, AddRequests) + Number(alerts, AddedAlerts)
                        + Number(adds, AddedAlerts)
        /\ processing <= MaxProcessing
    BY <1>0 DEF ProcessingInv
  <2>5. processing' = processing /\ adds' = adds /\ AddedAlerts' = AddedAlerts /\ AddRequests' = AddRequests
    BY <1>9 DEF AddedAlerts, AddRequests
  <2>6. processing' = Number(work', AddRequests) + Number(alerts', AddedAlerts)
                        + Number(adds', AddedAlerts)
    BY <2>1, <2>2, <2>3, <2>4, <2>5
  <2> QED BY <2>4, <2>5, <2>6 DEF ProcessingInv
<1>11. OnlyAdditions' /\ LoadedOnce'
  <2>1. \A i \in DOMAIN work' : work'[i].do = "add"
    BY <1>0, <1>1, Rest DEF OnlyAdditions
  <2>2. \A i \in DOMAIN alerts' : alerts'[i].is = "added"
    BY <1>0, <1>1, <1>6, <1>7, <1>8, Appended DEF OnlyAdditions
  <2>3. OnlyAdditions'
    BY <1>0, <1>9, <2>1, <2>2 DEF OnlyAdditions
  <2> QED BY <1>0, <1>9, <2>3 DEF LoadedOnce
<1>12. ASSUME NEW id \in Id
       PROVE  Starting(id)'
  <2>0. UnreadInv(id) /\ AskedInv(id) /\ AnsweredInv(id) /\ RestoredAsStored(id) /\ NotLost(id)
    BY <1>0 DEF Starting
  <2>1. id # r.id => native'[id] = native[id]
    BY <1>1, <1>5 DEF TypeOK
  <2>2. /\ Asked(id)' => Asked(id) /\ id # r.id
        /\ AtMostOne(AddsIn(work, id)) => AtMostOne(AddsIn(work', id))
        /\ \A i \in AddsIn(work', id) : i + 1 \in AddsIn(work, id) /\ work'[i] = work[i + 1]
        /\ Asked(id) /\ id # r.id => Asked(id)'
    <3>1. id # r.id => (AddsIn(work', id) = {} <=> AddsIn(work, id) = {})
      BY <1>1, AddsRest DEF r
    <3>2. id = r.id => AddsIn(work', id) = {}
      BY <1>1, <1>4
    <3>3. AddsIn(work, id) = {} => AddsIn(work', id) = {}
      BY <1>1, AddsRest
    <3>4. /\ AtMostOne(AddsIn(work, id)) => AtMostOne(AddsIn(work', id))
          /\ \A i \in AddsIn(work', id) : i + 1 \in AddsIn(work, id) /\ work'[i] = work[i + 1]
      BY <1>1, AddsRest
    <3> QED BY <3>1, <3>2, <3>3, <3>4 DEF Asked
  <2>3. /\ \A i \in AddedIn(alerts, id) : alerts'[i] = alerts[i] /\ i \in AddedIn(alerts', id)
        /\ \A i \in AddedIn(alerts', id) : i \in AddedIn(alerts, id) \/ (alerts'[i] = a /\ id = r.id)
        /\ id = r.id => AddedIn(alerts', id) # {}
    <3>1. /\ id = r.id => AddedIn(alerts', id) = AddedIn(alerts, id) \union {Len(alerts) + 1}
          /\ id # r.id => AddedIn(alerts', id) = AddedIn(alerts, id)
          /\ \A i \in AddedIn(alerts, id) : alerts'[i] = alerts[i]
          /\ alerts'[Len(alerts) + 1] = a
      <4>1. /\ a.is = "added" /\ a.id = id =>
                 AddedIn(Append(alerts, a), id) = AddedIn(alerts, id) \union {Len(alerts) + 1}
            /\ ~(a.is = "added" /\ a.id = id) => AddedIn(Append(alerts, a), id) = AddedIn(alerts, id)
            /\ Append(alerts, a)[Len(alerts) + 1] = a
        BY <1>1, <1>7, AddedAppended
      <4>2. \A i \in DOMAIN alerts : alerts'[i] = alerts[i]
        BY <1>1, <1>7, <1>8, Appended
      <4>3. \A i \in AddedIn(alerts, id) : i \in DOMAIN alerts
        BY IsIn
      <4> QED BY <1>6, <1>8, <4>1, <4>2, <4>3
    <3> QED BY <3>1
  <2>4. UnreadInv(id)'
    <3>1. Unread(id)' <=> Unread(id)
      BY <1>9 DEF Unread, InLoaded
    <3>2. Unread(id) => id # r.id
      BY <1>4
    <3> QED BY <1>9, <2>0, <2>1, <2>2, <3>1, <3>2 DEF UnreadInv, InSession, InLoaded
  <2>5. AskedInv(id)'
    <3>1. Asked(id)' => native'[id] = None
      BY <2>0, <2>1, <2>2 DEF AskedInv
    <3> QED BY <1>9, <2>0, <2>2, <3>1 DEF AskedInv
  <2>6. AnsweredInv(id)'
    <3>1. \A i \in AddedIn(alerts', id) : alerts'[i].ok \/ id \in refused'
      <4>1. accepts \/ r.id \in refused'
        BY <1>5
      <4> QED BY <1>6, <1>9, <2>0, <2>3, <4>1 DEF AnsweredInv
    <3> QED BY <1>9, <2>0, <3>1 DEF AnsweredInv
  <2>7. RestoredAsStored(id)'
    <3>1. Asked(id) \/ Answered(id) => (Asked(id) \/ Answered(id))'
      BY <1>9, <2>2, <2>3 DEF Answered
    <3>2. native'[id] # None => native'[id].progress = stored[id].progress /\ ~native'[id].needSave
      <4>1. CASE native'[id] = native[id]
        BY <2>0, <4>1 DEF RestoredAsStored
      <4>2. CASE native'[id] # native[id]
        <5>1. id = r.id /\ accepts
          BY <1>5, <2>1, <4>2
        <5>2. native'[id] = [kind |-> r.kind, info |-> r.data.info, progress |-> r.data.progress,
                             needSave |-> FALSE]
          BY <1>5, <5>1 DEF TypeOK
        <5> QED BY <1>4, <5>1, <5>2
      <4> QED BY <4>1, <4>2
    <3> QED BY <1>9, <2>0, <3>1, <3>2 DEF RestoredAsStored, InSession
  <2>8. NotLost(id)'
    BY <1>9, <2>0 DEF NotLost, Unread, InLoaded, InSession
  <2> QED BY <2>4, <2>5, <2>6, <2>7, <2>8 DEF Starting
<1> QED BY <1>10, <1>11, <1>12 DEF StartupInv

LEMMA ReadNextStarting ==
    ASSUME TypeOK, StartupInv, phase = "startup", ReadNext
    PROVE  StartupInv'
<1>0. ProcessingInv /\ OnlyAdditions /\ LoadedOnce /\ \A id \in Id : Starting(id)
  BY DEF StartupInv
<1>1. PICK next \in toLoad :
          /\ toLoad' = toLoad \ {next}
          /\ \/ loaded' = Append(loaded, next) /\ UNCHANGED refused
             \/ refused' = refused \union {next} /\ UNCHANGED loaded
  BY DEF ReadNext
<1>2. next \in Id /\ loaded \in Seq(Id) /\ refused \subseteq refused'
  BY <1>1 DEF TypeOK
<1>3. UNCHANGED <<stored, phase, torrents, loading, hidden, needSave, searches, loadFinished,
                  processing, native, work, alerts, adds, batch>>
  BY DEF ReadNext, alertVars
<1>4. ~InLoaded(next)
  BY <1>0, <1>1, <1>2 DEF Starting, UnreadInv
<1>5. /\ \A i \in DOMAIN loaded : i \in DOMAIN loaded' /\ loaded'[i] = loaded[i]
      /\ \A i \in DOMAIN loaded' : (i \in DOMAIN loaded /\ loaded'[i] = loaded[i])
                                   \/ (i = Len(loaded) + 1 /\ loaded'[i] = next)
  BY <1>1, <1>2, Appended
<1>6. loaded' # loaded => \E i \in DOMAIN loaded' : loaded'[i] = next
  BY <1>1, <1>2, Appended
<1>7. ProcessingInv' /\ OnlyAdditions'
  BY <1>0, <1>3 DEF ProcessingInv, OnlyAdditions, AddedAlerts, AddRequests
<1>8. LoadedOnce'
  <2>1. \A i \in DOMAIN loaded : loaded[i] # next
    BY <1>4 DEF InLoaded
  <2>2. \A i, j \in DOMAIN loaded' : loaded'[i] = loaded'[j] => i = j
    BY <1>0, <1>5, <2>1 DEF LoadedOnce
  <2> QED BY <1>0, <1>1, <1>3, <2>2 DEF LoadedOnce
<1>9. ASSUME NEW id \in Id
      PROVE  Starting(id)'
  <2>0. UnreadInv(id) /\ AskedInv(id) /\ AnsweredInv(id) /\ RestoredAsStored(id) /\ NotLost(id)
    BY <1>0 DEF Starting
  <2>1. InLoaded(id)' => InLoaded(id) \/ id = next
    BY <1>5 DEF InLoaded
  <2>2. InLoaded(id) => InLoaded(id)'
    BY <1>5 DEF InLoaded
  <2>3. Unread(id)' => Unread(id)
    BY <1>1, <2>1 DEF Unread
  <2>4. UnreadInv(id)'
    <3>1. id \in toLoad' => ~InLoaded(id)'
      BY <1>1, <2>0, <2>1 DEF UnreadInv
    <3> QED BY <1>3, <2>0, <2>3, <3>1 DEF UnreadInv, InSession, Asked
  <2>5. NotLost(id)'
    <3>1. Unread(id) => Unread(id)' \/ id \in refused'
      <4>1. CASE id = next
        BY <1>1, <1>6, <4>1 DEF Unread, InLoaded
      <4>2. CASE id # next
        BY <1>1, <2>2, <4>2 DEF Unread
      <4> QED BY <4>1, <4>2
    <3> QED BY <1>2, <1>3, <2>0, <3>1 DEF NotLost, InSession
  <2>6. AskedInv(id)' /\ RestoredAsStored(id)'
    BY <1>3, <2>0 DEF AskedInv, RestoredAsStored, Asked, Answered, InSession
  <2>7. AnsweredInv(id)'
    BY <1>2, <1>3, <2>0 DEF AnsweredInv
  <2> QED BY <2>4, <2>5, <2>6, <2>7 DEF Starting
<1> QED BY <1>7, <1>8, <1>9 DEF StartupInv

LEMMA LoadFinishedStarting ==
    ASSUME TypeOK, StartupInv, phase = "startup", LoadFinished
    PROVE  StartupInv'
<1>1. UNCHANGED <<stored, phase, torrents, loading, hidden, needSave, searches, toLoad, loaded,
                  processing, refused, native, work, alerts, adds, batch>>
  BY DEF LoadFinished, alertVars
<1>2. LoadedOnce'
  BY <1>1 DEF StartupInv, LoadedOnce, LoadFinished
<1>3. ASSUME NEW id \in Id
      PROVE  Starting(id)'
  <2>0. UnreadInv(id) /\ AskedInv(id) /\ AnsweredInv(id) /\ RestoredAsStored(id) /\ NotLost(id)
    BY DEF StartupInv, Starting
  <2>1. UnreadInv(id)' /\ NotLost(id)'
    BY <1>1, <2>0 DEF UnreadInv, NotLost, Unread, InLoaded, InSession, Asked
  <2>2. AskedInv(id)' /\ AnsweredInv(id)' /\ RestoredAsStored(id)'
    BY <1>1, <2>0 DEF AskedInv, AnsweredInv, RestoredAsStored, Asked, Answered, InSession
  <2> QED BY <2>1, <2>2 DEF Starting
<1>4. ProcessingInv' /\ OnlyAdditions'
  BY <1>1 DEF StartupInv, ProcessingInv, OnlyAdditions, AddedAlerts, AddRequests
<1> QED BY <1>2, <1>3, <1>4 DEF StartupInv

LEMMA ReadAlertsStarting ==
    ASSUME TypeOK, StartupInv, phase = "startup", ReadAlerts
    PROVE  StartupInv'
<1>1. /\ UNCHANGED <<stored, phase, torrents, loading, hidden, needSave, searches, toLoad, loaded,
                     loadFinished, processing, refused, native, work>>
      /\ adds = <<>> /\ alerts' = <<>> /\ adds' = alerts /\ batch' = alerts
  BY DEF ReadAlerts, Idle, startupVars
<1>2. LoadedOnce' /\ OnlyAdditions'
  <2>1. \A i \in DOMAIN alerts' : alerts'[i].is = "added"
    BY <1>1
  <2> QED BY <1>1, <2>1 DEF StartupInv, LoadedOnce, OnlyAdditions
<1>3. ASSUME NEW id \in Id
      PROVE  Starting(id)'
  <2>0. UnreadInv(id) /\ AskedInv(id) /\ AnsweredInv(id) /\ RestoredAsStored(id) /\ NotLost(id)
    BY DEF StartupInv, Starting
  <2>1. UnreadInv(id)' /\ NotLost(id)'
    BY <1>1, <2>0 DEF UnreadInv, NotLost, Unread, InLoaded, InSession, Asked
  <2>2. AddedIn(alerts', id) = {} /\ AddedIn(adds, id) = {}
    BY <1>1, NothingIn
  <2>3. AnsweredInv(id)'
    BY <1>1, <2>0, <2>2 DEF AnsweredInv
  <2>4. AskedInv(id)' /\ RestoredAsStored(id)'
    BY <1>1, <2>0, <2>2 DEF AskedInv, RestoredAsStored, Asked, Answered, InSession
  <2> QED BY <2>1, <2>3, <2>4 DEF Starting
<1>4. ProcessingInv'
  <2>1. Number(alerts', AddedAlerts) = 0 /\ Number(adds, AddedAlerts) = 0
    BY <1>1, NumberEmpty
  <2>2. Number(alerts, AddedAlerts) \in Nat /\ Number(work, AddRequests) \in Nat
    BY PositionsFinite DEF TypeOK
  <2> QED BY <1>1, <2>1, <2>2 DEF StartupInv, ProcessingInv, AddedAlerts, AddRequests
<1> QED BY <1>2, <1>3, <1>4 DEF StartupInv

LEMMA HandleAlertStarting ==
    ASSUME TypeOK, StartupInv, phase = "startup", HandleAlert
    PROVE  StartupInv'
<1>1. Head(batch).is = "added" /\ batch # <<>> /\ batch \in Seq(Alert)
  BY Rest DEF StartupInv, OnlyAdditions, TypeOK, HandleAlert
<1>2. /\ UNCHANGED <<stored, phase, torrents, loading, hidden, needSave, searches, toLoad, loaded,
                     loadFinished, processing, refused, native, work, alerts, adds>>
      /\ batch' = Tail(batch)
  BY <1>1 DEF HandleAlert, OnSaved, OnNotModified, OnMetadata, OnUnknown, startupVars
<1>3. OnlyAdditions'
  <2>1. \A i \in DOMAIN batch' : batch'[i].is = "added"
    BY <1>1, <1>2, Rest DEF StartupInv, OnlyAdditions
  <2> QED BY <1>2, <2>1 DEF StartupInv, OnlyAdditions
<1>4. ASSUME NEW id \in Id
      PROVE  Starting(id)'
  <2>0. UnreadInv(id) /\ AskedInv(id) /\ AnsweredInv(id) /\ RestoredAsStored(id) /\ NotLost(id)
    BY DEF StartupInv, Starting
  <2>1. UnreadInv(id)' /\ NotLost(id)'
    BY <1>2, <2>0 DEF UnreadInv, NotLost, Unread, InLoaded, InSession, Asked
  <2>2. AskedInv(id)' /\ AnsweredInv(id)' /\ RestoredAsStored(id)'
    BY <1>2, <2>0 DEF AskedInv, AnsweredInv, RestoredAsStored, Asked, Answered, InSession
  <2> QED BY <2>1, <2>2 DEF Starting
<1>5. ProcessingInv' /\ LoadedOnce'
  BY <1>2 DEF StartupInv, ProcessingInv, LoadedOnce, AddedAlerts, AddRequests
<1> QED BY <1>3, <1>4, <1>5 DEF StartupInv

LEMMA HandleAddedStarting ==
    ASSUME TypeOK, StartupInv, phase = "startup", HandleAdded
    PROVE  StartupInv'
<1> DEFINE a == Head(adds)
<1>0. ProcessingInv /\ OnlyAdditions /\ LoadedOnce /\ \A id \in Id : Starting(id)
  BY DEF StartupInv
<1>1. /\ adds # <<>> /\ adds \in Seq(Alert) /\ adds' = Tail(adds) /\ a \in Alert
      /\ a.is = "added" /\ a.id \in Id /\ a = adds[1] /\ 1 \in AddedIn(adds, a.id)
  <2>1. adds # <<>> /\ adds \in Seq(Alert) /\ adds' = Tail(adds)
    BY DEF TypeOK, HandleAdded
  <2>2. a \in Alert /\ a = adds[1] /\ 1 \in DOMAIN adds
    BY <2>1, Rest
  <2>3. a.is = "added" /\ a.id \in Id
    BY <1>0, <2>2, AlertParts DEF OnlyAdditions
  <2> QED BY <2>1, <2>2, <2>3, AddedRest
<1>2. OnAdded(a)
  BY <1>1 DEF HandleAdded, OnOther
<1>3. UNCHANGED <<stored, phase, needSave, searches, toLoad, loaded, loadFinished, refused, native,
                  alerts, batch>>
  BY DEF HandleAdded
<1> HIDE DEF a
<1>4. processing' = processing - 1 /\ UNCHANGED <<hidden, work>>
  <2>1. processing' = processing - 1
    BY <1>2 DEF OnAdded, Processed
  <2>2. hidden[a.id] = "no"
    BY <1>0, <1>1 DEF Starting, RestoredAsStored
  <2>3. UNCHANGED hidden
    BY <1>2, <2>2 DEF OnAdded
  <2>4. UNCHANGED work
    BY <1>2 DEF OnAdded, CreateTorrent
  <2> QED BY <2>1, <2>3, <2>4
<1>5. \A id \in Id : id # a.id => loading'[id] = loading[id] /\ torrents'[id] = torrents[id]
  BY <1>2 DEF OnAdded, Added, CreateTorrent, TypeOK
<1>6. loading'[a.id] = None
  BY <1>1, <1>2 DEF OnAdded, Added, TypeOK
<1>7. \/ torrents'[a.id] = torrents[a.id] /\ (a.ok => loading[a.id] = None)
      \/ /\ loading[a.id] # None
         /\ torrents'[a.id] = [kind |-> a.kind, own |-> loading[a.id].own,
                               info |-> loading[a.id].info, received |-> FALSE]
  BY <1>1, <1>2 DEF OnAdded, CreateTorrent, TypeOK
<1>8. ProcessingInv'
  <2>1. Number(adds, AddedAlerts) = Number(adds', AddedAlerts) + 1
    <3>1. a \in AddedAlerts
      BY <1>1, AdditionCounted
    <3> QED BY <1>1, <3>1, NumberRest DEF a
  <2>2. /\ Number(adds, AddedAlerts) \in Nat /\ Number(adds', AddedAlerts) \in Nat
        /\ Number(alerts, AddedAlerts) \in Nat /\ Number(work, AddRequests) \in Nat
    BY <1>1, AlertsMove, PositionsFinite DEF TypeOK
  <2>3. /\ processing = Number(work, AddRequests) + Number(alerts, AddedAlerts)
                        + Number(adds, AddedAlerts)
        /\ processing <= MaxProcessing /\ MaxProcessing \in Nat
    BY <1>0, SessionAssumption DEF ProcessingInv
  <2>4. alerts' = alerts /\ work' = work /\ AddedAlerts' = AddedAlerts /\ AddRequests' = AddRequests
    BY <1>3, <1>4 DEF AddedAlerts, AddRequests
  <2>5. processing' = Number(work', AddRequests) + Number(alerts', AddedAlerts)
                      + Number(adds', AddedAlerts)
    BY <1>4, <2>1, <2>2, <2>3, <2>4
  <2>6. processing' <= MaxProcessing
    BY <1>4, <2>1, <2>2, <2>3
  <2> QED BY <2>4, <2>5, <2>6 DEF ProcessingInv
<1>9. OnlyAdditions' /\ LoadedOnce'
  <2>1. \A i \in DOMAIN adds' : adds'[i].is = "added"
    BY <1>0, <1>1, Rest DEF OnlyAdditions
  <2> QED BY <1>0, <1>3, <1>4, <2>1 DEF OnlyAdditions, LoadedOnce
<1>10. ASSUME NEW id \in Id
       PROVE  Starting(id)'
  <2>0. UnreadInv(id) /\ AskedInv(id) /\ AnsweredInv(id) /\ RestoredAsStored(id) /\ NotLost(id)
    BY <1>0 DEF Starting
  <2>1. Unread(id)' <=> Unread(id)
    BY <1>3 DEF Unread, InLoaded
  <2>2. /\ \A i \in AddedIn(adds', id) : i + 1 \in AddedIn(adds, id) /\ adds'[i] = adds[i + 1]
        /\ id # a.id => (AddedIn(adds', id) = {} <=> AddedIn(adds, id) = {})
    <3>1. /\ \A i \in AddedIn(Tail(adds), id) : i + 1 \in AddedIn(adds, id) /\ Tail(adds)[i] = adds[i + 1]
          /\ id # a.id => (AddedIn(Tail(adds), id) = {} <=> AddedIn(adds, id) = {})
      BY <1>1, AddedRest DEF a
    <3> QED BY <1>1, <3>1
  <2>3. AskedInv(id)'
    BY <1>3, <1>4, <2>0 DEF AskedInv, Asked
  <2>4. AnsweredInv(id)'
    BY <1>3, <2>0, <2>2 DEF AnsweredInv
  <2>5. CASE id # a.id
    <3>1. loading'[id] = loading[id] /\ torrents'[id] = torrents[id]
      BY <1>5, <2>5
    <3>2. UnreadInv(id)' /\ NotLost(id)'
      BY <1>3, <1>4, <2>0, <2>1, <3>1 DEF UnreadInv, NotLost, InLoaded, InSession, Asked
    <3>3. Answered(id)' <=> Answered(id)
      BY <1>3, <2>2, <2>5 DEF Answered
    <3>4. RestoredAsStored(id)'
      BY <1>3, <1>4, <2>0, <3>1, <3>3 DEF RestoredAsStored, Asked, InSession
    <3> QED BY <2>3, <2>4, <3>2, <3>4 DEF Starting
  <2>6. CASE id = a.id
    <3>1. CASE loading[id] = None
      <4>1. torrents'[id] = torrents[id] /\ loading'[id] = None
        BY <1>6, <1>7, <2>6, <3>1
      <4>2. UnreadInv(id)' /\ NotLost(id)'
        BY <1>3, <1>4, <2>0, <2>1, <3>1, <4>1 DEF UnreadInv, NotLost, InLoaded, InSession, Asked
      <4>3. RestoredAsStored(id)'
        BY <1>3, <1>4, <2>0, <3>1, <4>1 DEF RestoredAsStored, InSession
      <4> QED BY <2>3, <2>4, <4>2, <4>3 DEF Starting
    <3>2. CASE loading[id] # None
      <4>1. ~Unread(id) /\ loading[id] = stored[id] /\ loading[id] \in Data
        BY <2>0, <3>2 DEF UnreadInv, RestoredAsStored, TypeOK
      <4>2. UnreadInv(id)'
        BY <1>3, <2>0, <2>1, <4>1 DEF UnreadInv, InLoaded, Unread
      <4>3. CASE torrents'[id] = torrents[id] /\ (a.ok => loading[a.id] = None)
        <5>1. ~a.ok
          BY <2>6, <3>2, <4>3
        <5>2. id \in refused
          BY <1>1, <2>0, <2>6, <5>1 DEF AnsweredInv
        <5>3. NotLost(id)'
          BY <1>3, <5>2 DEF NotLost
        <5>4. RestoredAsStored(id)'
          BY <1>3, <1>4, <1>6, <2>0, <2>6, <4>3 DEF RestoredAsStored, InSession
        <5> QED BY <2>3, <2>4, <4>2, <5>3, <5>4 DEF Starting
      <4>4. CASE torrents'[id] = [kind |-> a.kind, own |-> loading[id].own,
                                  info |-> loading[id].info, received |-> FALSE]
        <5>1. torrents'[id] # None
          BY <4>4 DEF None
        <5>2. /\ torrents'[id].own = stored[id].own /\ torrents'[id].info = stored[id].info
              /\ ~torrents'[id].received
          BY <4>1, <4>4
        <5>3. stored[id] # NoData
          BY <4>1, DataIs
        <5>4. NotLost(id)'
          BY <5>1 DEF NotLost, InSession
        <5>5. RestoredAsStored(id)'
          BY <1>3, <1>4, <1>6, <2>0, <2>6, <5>1, <5>2, <5>3 DEF RestoredAsStored, InSession
        <5> QED BY <2>3, <2>4, <4>2, <5>4, <5>5 DEF Starting
      <4> QED BY <1>7, <2>6, <4>3, <4>4
    <3> QED BY <3>1, <3>2
  <2> QED BY <2>5, <2>6
<1> QED BY <1>8, <1>9, <1>10 DEF StartupInv

LEMMA HandleLoadedStarting ==
    ASSUME TypeOK, StartupInv, phase = "startup", HandleLoadedResumeData
    PROVE  /\ phase' = "startup" => StartupInv'
           /\ phase' # "startup" => StoredAreRestored'
<1>0. ProcessingInv /\ OnlyAdditions /\ LoadedOnce /\ \A id \in Id : Starting(id)
  BY DEF StartupInv
<1>1. /\ loaded' = SubSeq(loaded, Taken + 1, Len(loaded))
      /\ processing' = processing + Len(SubSeq(loaded, 1, Taken))
      /\ loading' = [id \in Id |-> IF id \in ToSet(SubSeq(loaded, 1, Taken))
                                   THEN stored[id] ELSE loading[id]]
      /\ work' = work \o LoadedRequests
      /\ UNCHANGED <<stored, torrents, hidden, needSave, searches, toLoad, loadFinished, refused,
                     native, alerts, adds, batch>>
  BY DEF HandleLoadedResumeData, LoadedRequests, alertVars
<1>2. \A id \in Id : InLoaded(id) => stored[id] # NoData
  BY <1>0 DEF Starting, UnreadInv, Unread
<1>3. /\ LoadedRequests \in Seq(Request) /\ DOMAIN LoadedRequests = 1 .. Taken
      /\ Len(LoadedRequests) = Taken
      /\ \A i \in 1 .. Taken :
            /\ LoadedRequests[i].do = "add" /\ LoadedRequests[i].id = loaded[i]
            /\ LoadedRequests[i].kind = "own" /\ LoadedRequests[i].data = stored[loaded[i]]
            /\ loaded[i] \in Id /\ stored[loaded[i]] \in Data
  BY <1>2, LoadedRequestsAre
<1>4. /\ Taken \in Nat /\ Taken <= Len(loaded) /\ processing + Taken <= MaxProcessing
      /\ processing \in Nat /\ Len(loaded) \in Nat
      /\ Len(SubSeq(loaded, 1, Taken)) = Taken
      /\ DOMAIN SubSeq(loaded, 1, Taken) = 1 .. Taken
      /\ \A i \in 1 .. Taken : SubSeq(loaded, 1, Taken)[i] = loaded[i] /\ i \in DOMAIN loaded
      /\ DOMAIN SubSeq(loaded, Taken + 1, Len(loaded)) = 1 .. Len(loaded) - Taken
      /\ \A i \in 1 .. Len(loaded) - Taken :
            /\ SubSeq(loaded, Taken + 1, Len(loaded))[i] = loaded[Taken + i]
            /\ Taken + i \in DOMAIN loaded
  BY TakenAre
<1>5. DOMAIN loaded' = 1 .. Len(loaded) - Taken
      /\ \A i \in 1 .. Len(loaded) - Taken : loaded'[i] = loaded[Taken + i] /\ Taken + i \in DOMAIN loaded
  BY <1>1, <1>4
<1> DEFINE Took(id) == \E i \in 1 .. Taken : loaded[i] = id
<1>6. \A id \in Id : id \in ToSet(SubSeq(loaded, 1, Taken)) <=> Took(id)
  BY <1>4 DEF ToSet
<1>7. \A id \in Id : loading'[id] = IF Took(id) THEN stored[id] ELSE loading[id]
  BY <1>1, <1>6
<1>8. \A id \in Id : Took(id) => InLoaded(id) /\ Starting(id)
  BY <1>0, <1>4 DEF InLoaded
<1>9. DOMAIN loaded = 1 .. Len(loaded)
  BY Elements DEF TypeOK
<1>10. ASSUME NEW id \in Id
       PROVE  /\ InLoaded(id) => Took(id) \/ InLoaded(id)'
              /\ InLoaded(id)' => InLoaded(id)
              /\ ~(InLoaded(id)' /\ Took(id))
  <2>1. ASSUME NEW i \in DOMAIN loaded, loaded[i] = id
        PROVE  Took(id) \/ InLoaded(id)'
    <3>1. CASE i <= Taken
      <4>1. i \in 1 .. Taken
        BY <1>4, <1>9, <3>1
      <4> QED BY <2>1, <4>1
    <3>2. CASE ~(i <= Taken)
      <4>1. i - Taken \in 1 .. Len(loaded) - Taken /\ Taken + (i - Taken) = i
        BY <1>4, <1>9, <3>2
      <4> QED BY <1>5, <2>1, <4>1 DEF InLoaded
    <3> QED BY <3>1, <3>2
  <2>2. InLoaded(id)' => InLoaded(id)
    BY <1>5 DEF InLoaded
  <2>3. ASSUME NEW i \in DOMAIN loaded', loaded'[i] = id, NEW j \in 1 .. Taken, loaded[j] = id
        PROVE  FALSE
    <3>1. Taken + i \in DOMAIN loaded /\ loaded[Taken + i] = loaded[j] /\ j \in DOMAIN loaded
      BY <1>4, <1>5, <2>3
    <3>2. Taken + i = j
      BY <1>0, <3>1 DEF LoadedOnce
    <3>3. i \in 1 .. Len(loaded) - Taken
      BY <1>5
    <3> QED BY <1>4, <3>2, <3>3
  <2> QED BY <2>1, <2>2, <2>3 DEF InLoaded
<1>11. /\ work \in Seq(Request) /\ DOMAIN work = 1 .. Len(work) /\ Len(work) \in Nat
       /\ work' \in Seq(Request)
  BY <1>1, <1>3, RequestsMove, Elements DEF TypeOK
<1>12. /\ \A i \in DOMAIN work' : (i \in DOMAIN work /\ work'[i] = work[i])
                                  \/ (i > Len(work) /\ i - Len(work) \in 1 .. Taken
                                      /\ work'[i] = LoadedRequests[i - Len(work)] /\ i \in Int)
       /\ \A i \in DOMAIN work : i \in DOMAIN work' /\ work'[i] = work[i]
       /\ \A i \in 1 .. Taken : i + Len(work) \in DOMAIN work' /\ work'[i + Len(work)] = LoadedRequests[i]
  <2>1. /\ \A i \in DOMAIN (work \o LoadedRequests) :
              i \in DOMAIN work \/ (i > Len(work) /\ i - Len(work) \in 1 .. Taken)
        /\ \A i \in DOMAIN work : i \in DOMAIN (work \o LoadedRequests)
                                  /\ (work \o LoadedRequests)[i] = work[i]
        /\ \A i \in 1 .. Taken : i + Len(work) \in DOMAIN (work \o LoadedRequests)
                                 /\ (work \o LoadedRequests)[i + Len(work)] = LoadedRequests[i]
    BY <1>3, <1>11, Joined
  <2>2. DOMAIN work' \subseteq Int
    BY <1>11, Elements
  <2>3. \A i \in DOMAIN work' : (i - Len(work)) + Len(work) = i
    BY <1>11, <2>2
  <2> QED BY <1>1, <2>1, <2>2, <2>3
<1>13. ProcessingInv'
  <2>1. Number(work', AddRequests) = Number(work, AddRequests) + Taken
    <3>1. \A i \in DOMAIN LoadedRequests : LoadedRequests[i] \in AddRequests
      BY <1>3, Elements, AdditionCounted
    <3>2. Number(LoadedRequests, AddRequests) = Taken
      BY <1>3, <3>1, NumberAll
    <3> QED BY <1>1, <1>3, <1>11, <3>2, NumberJoined
  <2>2. /\ Number(adds, AddedAlerts) \in Nat /\ Number(work, AddRequests) \in Nat
        /\ Number(alerts, AddedAlerts) \in Nat
    BY PositionsFinite DEF TypeOK
  <2>3. processing = Number(work, AddRequests) + Number(alerts, AddedAlerts)
                     + Number(adds, AddedAlerts)
    BY <1>0 DEF ProcessingInv
  <2>4. processing' = processing + Taken
    BY <1>1, <1>4
  <2>5. adds' = adds /\ alerts' = alerts /\ AddedAlerts' = AddedAlerts /\ AddRequests' = AddRequests
    BY <1>1 DEF AddedAlerts, AddRequests
  <2> HIDE DEF Took
  <2>6. processing' = Number(work', AddRequests) + Number(alerts', AddedAlerts)
                      + Number(adds', AddedAlerts)
    <3> HIDE DEF Taken
    <3> QED BY <1>4, <2>1, <2>2, <2>3, <2>4, <2>5
  <2>7. processing' <= MaxProcessing
    BY <1>4, <2>4
  <2> QED BY <2>5, <2>6, <2>7 DEF ProcessingInv
<1>14. OnlyAdditions' /\ LoadedOnce'
  <2>1. \A i \in DOMAIN work' : work'[i].do = "add"
    BY <1>0, <1>3, <1>12 DEF OnlyAdditions
  <2>2. OnlyAdditions'
    BY <1>0, <1>1, <2>1 DEF OnlyAdditions
  <2>3. ASSUME NEW i \in DOMAIN loaded', NEW j \in DOMAIN loaded', loaded'[i] = loaded'[j]
        PROVE  i = j
    <3>1. Taken + i \in DOMAIN loaded /\ Taken + j \in DOMAIN loaded /\ loaded[Taken + i] = loaded[Taken + j]
      BY <1>5, <2>3
    <3>2. Taken + i = Taken + j
      BY <1>0, <3>1 DEF LoadedOnce
    <3>3. i \in Int /\ j \in Int
      BY <1>5
    <3> QED BY <1>4, <3>2, <3>3
  <2> QED BY <1>0, <1>1, <2>2, <2>3 DEF LoadedOnce
<1> HIDE DEF Took
<1>15. ASSUME NEW id \in Id
       PROVE  Starting(id)'
  <2>0. UnreadInv(id) /\ AskedInv(id) /\ AnsweredInv(id) /\ RestoredAsStored(id) /\ NotLost(id)
    BY <1>0 DEF Starting
  <2>1. Took(id) => Unread(id) /\ native[id] = None /\ loading[id] = None /\ ~InSession(id)
                    /\ stored[id] # NoData /\ AddsIn(work, id) = {} /\ id \notin toLoad
    BY <1>8, <2>0 DEF UnreadInv, Unread, Asked
  <2>2. /\ \A i \in AddsIn(work', id) :
              \/ i \in AddsIn(work, id) /\ work'[i] = work[i]
              \/ /\ Took(id) /\ i - Len(work) \in 1 .. Taken /\ loaded[i - Len(work)] = id
                 /\ work'[i].kind = "own" /\ work'[i].data = stored[id] /\ i \in Int
        /\ \A i \in AddsIn(work, id) : i \in AddsIn(work', id)
    <3>1. ASSUME NEW i \in AddsIn(work', id)
          PROVE  \/ i \in AddsIn(work, id) /\ work'[i] = work[i]
                 \/ /\ Took(id) /\ i - Len(work) \in 1 .. Taken /\ loaded[i - Len(work)] = id
                    /\ work'[i].kind = "own" /\ work'[i].data = stored[id] /\ i \in Int
      <4>1. i \in DOMAIN work' /\ work'[i] \in Request /\ work'[i].do = "add" /\ work'[i].id = id
        BY IsIn
      <4>2. CASE i \in DOMAIN work /\ work'[i] = work[i]
        BY <4>1, <4>2 DEF AddsIn, Positions
      <4>3. CASE i - Len(work) \in 1 .. Taken /\ work'[i] = LoadedRequests[i - Len(work)] /\ i \in Int
        BY <1>3, <4>1, <4>3 DEF Took
      <4> QED BY <1>12, <4>1, <4>2, <4>3
    <3>2. \A i \in AddsIn(work, id) : i \in AddsIn(work', id)
      BY <1>12 DEF AddsIn, Positions
    <3> QED BY <3>1, <3>2
  <2>3. Took(id) => AddsIn(work', id) # {}
    <3> SUFFICES ASSUME NEW i \in 1 .. Taken, loaded[i] = id
                 PROVE  i + Len(work) \in AddsIn(work', id)
      BY DEF Took
    <3>1. LoadedRequests[i] \in Request
      BY <1>3, Elements
    <3> QED BY <1>3, <1>12, <3>1 DEF AddsIn, Positions, Additions
  <2>4. UnreadInv(id)'
    <3>1. id \in toLoad' => ~InLoaded(id)'
      BY <1>1, <1>10, <2>0 DEF UnreadInv
    <3>2. Unread(id)' => Unread(id) /\ ~Took(id)
      <4>1. id \in toLoad => ~Took(id)
        BY <2>1
      <4> QED BY <1>1, <1>10, <4>1 DEF Unread, Took
    <3>3. ~Took(id) /\ ~Asked(id) => ~Asked(id)'
      BY <2>2 DEF Asked
    <3>4. Unread(id)' => loading'[id] = None /\ ~Asked(id)' /\ native[id] = None /\ ~InSession(id)
                         /\ stored[id] # NoData
      BY <1>7, <2>0, <3>2, <3>3 DEF UnreadInv
    <3> QED BY <1>1, <3>1, <3>4 DEF UnreadInv, InSession
  <2>5. AskedInv(id)'
    <3>1. AtMostOne(AddsIn(work', id))
      <4>1. CASE Took(id)
        <5> SUFFICES ASSUME NEW i \in AddsIn(work', id), NEW j \in AddsIn(work', id)
                     PROVE  i = j
          BY DEF AtMostOne
        <5>1. /\ i - Len(work) \in 1 .. Taken /\ loaded[i - Len(work)] = id /\ i \in Int
              /\ j - Len(work) \in 1 .. Taken /\ loaded[j - Len(work)] = id /\ j \in Int
          BY <2>1, <2>2, <4>1
        <5>2. i - Len(work) = j - Len(work)
          BY <1>0, <1>4, <5>1 DEF LoadedOnce
        <5> QED BY <1>11, <5>1, <5>2
      <4>2. CASE ~Took(id)
        BY <2>0, <2>2, <4>2 DEF AskedInv, AtMostOne
      <4> QED BY <4>1, <4>2
    <3>2. Asked(id)' => native'[id] = None
      BY <1>1, <2>0, <2>1, <2>2 DEF AskedInv, Asked
    <3>3. \A i \in AddsIn(work', id) : work'[i].kind = "own" /\ work'[i].data = stored'[id]
      BY <1>1, <2>0, <2>2 DEF AskedInv
    <3> QED BY <3>1, <3>2, <3>3 DEF AskedInv
  <2>6. AnsweredInv(id)'
    BY <1>1, <2>0 DEF AnsweredInv
  <2>7. RestoredAsStored(id)'
    <3>1. Asked(id) \/ Took(id) => Asked(id)'
      BY <2>2, <2>3 DEF Asked
    <3>2. Answered(id)' <=> Answered(id)
      BY <1>1 DEF Answered
    <3>3. loading'[id] # None => loading'[id] = stored'[id] /\ (Asked(id)' \/ Answered(id)')
      BY <1>1, <1>7, <2>0, <3>1, <3>2 DEF RestoredAsStored
    <3> QED BY <1>1, <2>0, <3>3 DEF RestoredAsStored, InSession
  <2>8. NotLost(id)'
    <3>1. Unread(id) => Unread(id)' \/ loading'[id] # None
      <4>1. Took(id) => loading'[id] # None
        <5>1. Took(id) => loading'[id] = stored[id] /\ stored[id] # NoData
          BY <1>7, <2>1
        <5>2. stored[id] # NoData => stored[id] # None
          BY DataIs DEF TypeOK
        <5> QED BY <5>1, <5>2
      <4> QED BY <1>1, <1>10, <4>1 DEF Unread
    <3>2. loading[id] # None => loading'[id] # None
      BY <1>7, <2>1
    <3> QED BY <1>1, <2>0, <3>1, <3>2 DEF NotLost, InSession
  <2> QED BY <2>4, <2>5, <2>6, <2>7, <2>8 DEF Starting
<1>16. phase' = "startup" => StartupInv'
  BY <1>13, <1>14, <1>15 DEF StartupInv
<1>17. ASSUME phase' # "startup"
       PROVE  StoredAreRestored'
  <2>1. processing + Taken = 0 /\ loadFinished
    BY <1>4, <1>17 DEF HandleLoadedResumeData
  <2>2. processing' = 0 /\ Taken = 0
    <3>1. processing' = processing + Taken
      BY <1>1, <1>4
    <3> HIDE DEF Taken
    <3> QED BY <1>4, <2>1, <3>1
  <2>3. Len(loaded) = 0
    BY <1>4, <2>1, <2>2, SessionAssumption DEF Taken
  <2>4. ASSUME NEW id \in Id, stored'[id] # NoData
        PROVE  InSession(id)' \/ id \in refused'
    <3>1. NotLost(id)' /\ RestoredAsStored(id)'
      BY <1>15 DEF Starting
    <3>2. ~Unread(id)'
      <4>1. id \notin toLoad'
        BY <1>0, <1>1, <2>1 DEF LoadedOnce
      <4>2. ~InLoaded(id)
        BY <1>9, <2>3 DEF InLoaded
      <4> QED BY <1>10, <4>1, <4>2 DEF Unread
    <3>3. /\ Number(adds', AddedAlerts) = 0 /\ Number(work', AddRequests) = 0
          /\ Number(alerts', AddedAlerts) = 0
      <4>1. /\ Number(adds', AddedAlerts) \in Nat /\ Number(work', AddRequests) \in Nat
            /\ Number(alerts', AddedAlerts) \in Nat
        BY <1>1, <1>11, PositionsFinite DEF TypeOK
      <4>2. processing' = Number(work', AddRequests) + Number(alerts', AddedAlerts)
                          + Number(adds', AddedAlerts)
        BY <1>13 DEF ProcessingInv, AddRequests, AddedAlerts
      <4> QED BY <2>2, <4>1, <4>2
    <3>4. /\ \A i \in DOMAIN adds' : adds'[i] \notin AddedAlerts
          /\ \A i \in DOMAIN alerts' : alerts'[i] \notin AddedAlerts
          /\ \A i \in DOMAIN work' : work'[i] \notin AddRequests
      BY <1>1, <1>11, <3>3, PositionsFinite DEF TypeOK
    <3>5. ~Asked(id)' /\ ~Answered(id)'
      BY <3>4, IsIn, AdditionCounted DEF Asked, Answered
    <3> QED BY <2>4, <3>1, <3>2, <3>5 DEF NotLost, RestoredAsStored
  <2> QED BY <2>4 DEF StoredAreRestored
<1> QED BY <1>16, <1>17

LEMMA StartupStep == TypeOK /\ StartupInv /\ [Next]_vars => TypeOK' /\ StartupInv'
<1> SUFFICES ASSUME TypeOK, StartupInv, [Next]_vars
             PROVE  TypeOK' /\ StartupInv'
  OBVIOUS
<1>1. CASE NativeStep
  BY <1>1, NativeStepTypes, NativeStepStarting DEF NativeStep, StartupInv
<1>2. CASE ReadNext
  BY <1>2, ReadNextTypes, ReadNextStarting DEF ReadNext
<1>3. CASE LoadFinished
  BY <1>3, LoadFinishedTypes, LoadFinishedStarting DEF LoadFinished
<1>4. CASE HandleLoadedResumeData
  <2>1. phase = "startup"
    BY <1>4 DEF HandleLoadedResumeData
  <2>2. \A id \in Id : InLoaded(id) => stored[id] # NoData
    BY <2>1 DEF StartupInv, Starting, UnreadInv, Unread
  <2>3. TypeOK'
    BY <1>4, <2>2, HandleLoadedTypes
  <2>4. StartupInv'
    <3>1. CASE phase' = "startup"
      BY <1>4, <2>1, <3>1, HandleLoadedStarting
    <3>2. CASE phase' # "startup"
      BY <3>2 DEF StartupInv
    <3> QED BY <3>1, <3>2
  <2> QED BY <2>3, <2>4
<1>5. CASE ReadAlerts
  BY <1>5, ReadAlertsTypes, ReadAlertsStarting DEF ReadAlerts, StartupInv
<1>6. CASE HandleAdded
  BY <1>6, HandleAddedTypes, HandleAddedStarting DEF HandleAdded, StartupInv
<1>7. CASE HandleAlert
  BY <1>7, HandleAlertTypes, HandleAlertStarting DEF HandleAlert, StartupInv
<1>8. CASE SaveNeeded
  <2>1. phase # "startup" /\ phase' = phase
    BY <1>8 DEF SaveNeeded, StartupInv, OnlyAdditions
  <2> QED BY <1>8, <2>1, SaveNeededTypes DEF StartupInv
<1>9. CASE GenerateResumeData
  <2>1. phase # "startup" /\ phase' = phase
    BY <1>9 DEF GenerateResumeData, Event
  <2> QED BY <1>9, <2>1, GenerateResumeDataTypes DEF StartupInv
<1>10. CASE Exit
  <2>1. phase' = "exiting"
    BY <1>10 DEF Exit
  <2> QED BY <1>10, <2>1, ExitTypes DEF StartupInv
<1>11. CASE End
  <2>1. phase' \in {"ended", "aborted"}
    BY <1>11 DEF End
  <2> QED BY <1>11, <2>1, EndTypes DEF StartupInv
<1>12. CASE Restart
  <2>1. StartupInv'
    <3>1. Fresh'
      BY <1>12, RestartFresh
    <3>2. Fresh' => StartupInv'
      BY FreshStarts, PTL
    <3> QED BY <3>1, <3>2
  <2> QED BY <1>12, <2>1, RestartTypes
<1>13. ASSUME NEW id \in Id,
              \/ NativeProgress(id) \/ NativeMetadata(id)
              \/ AddTorrent(id) \/ DownloadMetadata(id) \/ CancelDownloadMetadata(id)
              \/ DeleteTorrent(id) \/ ChangeTorrent(id) \/ SearchFinished(id)
       PROVE  TypeOK' /\ StartupInv'
  <2>1. TypeOK'
    BY <1>13, NativeProgressTypes, NativeMetadataTypes, AddTorrentTypes, DownloadMetadataTypes,
       CancelDownloadMetadataTypes, DeleteTorrentTypes, ChangeTorrentTypes, SearchFinishedTypes
  <2>2. phase # "startup" /\ phase' = phase
    BY <1>13 DEF Event, NativeProgress, NativeMetadata, AddTorrent, DownloadMetadata,
                 CancelDownloadMetadata, DeleteTorrent, ChangeTorrent, SearchFinished
  <2> QED BY <2>1, <2>2 DEF StartupInv
<1>14. CASE UNCHANGED vars
  <2>1. TypeOK'
    BY <1>14 DEF TypeOK, vars, startupVars, alertVars
  <2>2. StartupInv'
    BY <1>14 DEF vars, startupVars, alertVars, StartupInv, ProcessingInv, OnlyAdditions, LoadedOnce,
                 AddedAlerts, AddRequests, Starting, UnreadInv, AskedInv, AnsweredInv, RestoredAsStored,
                 NotLost, Unread, InLoaded, InSession, Asked, Answered
  <2> QED BY <2>1, <2>2
<1> QED BY <1>1, <1>2, <1>3, <1>4, <1>5, <1>6, <1>7, <1>8, <1>9, <1>10, <1>11, <1>12, <1>13, <1>14 DEF Next

LEMMA StartupInvariant == Spec => [](TypeOK /\ StartupInv)
<1>1. Init => TypeOK /\ StartupInv
  BY InitTypes, InitFresh, FreshStarts
<1> QED BY <1>1, StartupStep, PTL DEF Spec

(* The variables hold values of their types in every reachable state.      *)
THEOREM TypeCorrect == Spec => []TypeOK
BY StartupInvariant, PTL

(* Torrents come to the session with an answer of libtorrent, and leave it *)
(* when they are deleted, or with the program.                             *)
LEMMA TorrentsStay ==
    ASSUME TypeOK, [Next]_vars, ~Restart, ~(\E id \in Id : DeleteTorrent(id)),
           NEW id \in Id, InSession(id)
    PROVE  InSession(id)'
<1>0. torrents \in [Id -> TorrentImpl \union {None}] /\ torrents[id] # None
  BY DEF TypeOK, InSession
<1>1. CASE torrents' = torrents
  BY <1>0, <1>1 DEF InSession
<1>2. CASE HandleAdded
  <2>1. torrents' = torrents \/ CreateTorrent(Head(adds))
    BY <1>2 DEF HandleAdded, OnAdded, OnOther
  <2>2. CASE CreateTorrent(Head(adds))
    <3> DEFINE a == Head(adds)
               t == [kind |-> a.kind, own |-> loading[a.id].own,
                     info |-> loading[a.id].info, received |-> FALSE]
    <3>1. torrents' = [torrents EXCEPT ![a.id] = t]
      BY <2>2 DEF CreateTorrent
    <3>2. t # None
      <4>1. "own" \in DOMAIN t /\ "own" \notin DOMAIN None
        BY DEF None
      <4> QED BY <4>1
    <3> HIDE DEF t, a
    <3>3. torrents'[id] \in {torrents[id], t}
      BY <1>0, <3>1
    <3> QED BY <1>0, <3>2, <3>3 DEF InSession
  <2> QED BY <1>1, <2>1, <2>2
<1>3. ASSUME NEW i \in Id, NEW t \in TorrentImpl, torrents' = [torrents EXCEPT ![i] = t]
      PROVE  InSession(id)'
  <2>1. torrents'[id] \in {torrents[id], t}
    BY <1>0, <1>3
  <2>2. t # None
    BY TorrentIs
  <2> QED BY <1>0, <2>1, <2>2 DEF InSession
<1>4. CASE HandleAlert
  <2>1. CASE OnMetadata(Head(batch)) /\ InSession(Head(batch).id)
    <3>1. Head(batch).id \in Id
      BY <1>4, AlertParts, AlertsMove DEF HandleAlert, TypeOK
    <3>2. torrents[Head(batch).id] \in TorrentImpl
      BY <1>0, <2>1, <3>1 DEF InSession
    <3>3. [torrents[Head(batch).id] EXCEPT !.received = TRUE] \in TorrentImpl
      BY <3>2, TorrentIs
    <3>4. torrents' = [torrents EXCEPT ![Head(batch).id] =
                          [torrents[Head(batch).id] EXCEPT !.received = TRUE]]
      BY <2>1 DEF OnMetadata
    <3> QED BY <1>3, <3>1, <3>3, <3>4
  <2>2. CASE ~(OnMetadata(Head(batch)) /\ InSession(Head(batch).id))
    <3>1. torrents' = torrents
      BY <1>4, <2>2 DEF HandleAlert, OnSaved, OnNotModified, OnMetadata, OnUnknown
    <3> QED BY <1>1, <3>1
  <2> QED BY <2>1, <2>2
<1>5. ASSUME NEW i \in Id, ChangeTorrent(i)
      PROVE  InSession(id)'
  <2>1. torrents[i] \in TorrentImpl
    BY <1>0, <1>5 DEF ChangeTorrent, InSession
  <2>2. torrents[i].own + 1 \in Nat
    <3>1. torrents[i].own \in Nat
      BY <2>1, TorrentIs
    <3> QED BY <3>1
  <2>3. [torrents[i] EXCEPT !.own = torrents[i].own + 1] \in TorrentImpl
    BY <2>1, <2>2, TorrentIs
  <2>4. torrents' = [torrents EXCEPT ![i] = [torrents[i] EXCEPT !.own = torrents[i].own + 1]]
    BY <1>5 DEF ChangeTorrent
  <2> QED BY <1>3, <2>3, <2>4
<1>6. ASSUME NEW i \in Id, SearchFinished(i)
      PROVE  InSession(id)'
  <2>1. CASE InSession(i) /\ torrents[i].received
    <3>1. torrents[i] \in TorrentImpl
      BY <1>0, <2>1 DEF InSession
    <3>2. [torrents[i] EXCEPT !.received = FALSE, !.info = TRUE] \in TorrentImpl
      BY <3>1, TorrentIs
    <3>3. torrents' = [torrents EXCEPT ![i] = [torrents[i] EXCEPT !.received = FALSE, !.info = TRUE]]
      BY <1>6, <2>1 DEF SearchFinished
    <3> QED BY <1>3, <3>2, <3>3
  <2>2. CASE ~(InSession(i) /\ torrents[i].received)
    BY <1>1, <1>6, <2>2 DEF SearchFinished
  <2> QED BY <2>1, <2>2
<1>7. CASE NativeStep \/ ReadNext \/ LoadFinished \/ HandleLoadedResumeData \/ SaveNeeded
           \/ GenerateResumeData \/ ReadAlerts \/ Exit \/ End
  <2>1. torrents' = torrents
    BY <1>7 DEF NativeStep, ReadNext, LoadFinished, HandleLoadedResumeData, SaveNeeded,
                GenerateResumeData, ReadAlerts, Exit, End
  <2> QED BY <1>1, <2>1
<1>8. ASSUME NEW i \in Id,
             \/ NativeProgress(i) \/ NativeMetadata(i)
             \/ AddTorrent(i) \/ DownloadMetadata(i) \/ CancelDownloadMetadata(i)
      PROVE  InSession(id)'
  <2>1. torrents' = torrents
    BY <1>8 DEF NativeProgress, NativeMetadata, AddTorrent, DownloadMetadata, CancelDownloadMetadata
  <2> QED BY <1>1, <2>1
<1>9. CASE UNCHANGED vars
  BY <1>1, <1>9 DEF vars
<1> QED BY <1>2, <1>4, <1>5, <1>6, <1>7, <1>8, <1>9 DEF Next

(* Outside of the startup, data are stored only for a torrent of the       *)
(* session; nothing that was refused is tried again.                       *)
LEMMA StoredMoves ==
    ASSUME TypeOK, [Next]_vars, phase' = "restored", phase = "restored"
    PROVE  /\ refused \subseteq refused'
           /\ \A id \in Id : stored'[id] # NoData => stored[id] # NoData \/ InSession(id)
           /\ \A id \in Id : DeleteTorrent(id) =>
                 /\ stored'[id] = NoData
                 /\ \A i \in Id : InSession(i) /\ i # id => InSession(i)'
<1>0. ~Restart
  BY DEF Restart
<1>1. refused \subseteq refused'
  <2>1. CASE NativeStep
    BY <2>1 DEF NativeStep, NativeAdd, NativeRemove, NativeSave
  <2>2. CASE ~NativeStep
    <3>1. \/ HandleAdded \/ HandleAlert \/ SaveNeeded \/ GenerateResumeData \/ ReadAlerts \/ Exit \/ End
          \/ \E id \in Id : \/ NativeProgress(id) \/ NativeMetadata(id)
                            \/ AddTorrent(id) \/ DownloadMetadata(id) \/ CancelDownloadMetadata(id)
                            \/ DeleteTorrent(id) \/ ChangeTorrent(id) \/ SearchFinished(id)
          \/ UNCHANGED vars
      BY <1>0, <2>2 DEF Next, ReadNext, LoadFinished, HandleLoadedResumeData
    <3>2. refused' = refused
      BY <3>1 DEF HandleAdded, HandleAlert, SaveNeeded, GenerateResumeData, ReadAlerts, Exit, End,
                  NativeProgress, NativeMetadata, AddTorrent, DownloadMetadata, CancelDownloadMetadata,
                  DeleteTorrent, ChangeTorrent, SearchFinished, vars, startupVars
    <3> QED BY <3>2
  <2> QED BY <2>1, <2>2
<1>2. ASSUME NEW id \in Id, stored'[id] # NoData
      PROVE  stored[id] # NoData \/ InSession(id)
  <2>0. stored \in [Id -> Data \union {NoData}]
    BY DEF TypeOK
  <2>1. ASSUME NEW i, NEW d, stored' = [stored EXCEPT ![i] = d], InSession(i)
        PROVE  stored[id] # NoData \/ InSession(id)
    BY <1>2, <2>0, <2>1
  <2>2. CASE HandleAlert
    <3>1. CASE OnSaved(Head(batch))
      <4>1. InSession(Head(batch).id) /\ \E d : stored' \in {stored, [stored EXCEPT ![Head(batch).id] = d]}
        BY <3>1 DEF OnSaved
      <4> QED BY <1>2, <2>1, <4>1
    <3>2. CASE ~OnSaved(Head(batch))
      BY <1>2, <2>2, <3>2 DEF HandleAlert, OnNotModified, OnMetadata, OnUnknown
    <3> QED BY <3>1, <3>2
  <2>3. ASSUME NEW i \in Id, DeleteTorrent(i)
        PROVE  stored[id] # NoData \/ InSession(id)
    BY <2>1, <2>3 DEF DeleteTorrent
  <2>4. ASSUME NEW i \in Id, SearchFinished(i)
        PROVE  stored[id] # NoData \/ InSession(id)
    <3>1. CASE InSession(i) /\ torrents[i].received
      BY <2>1, <2>4, <3>1 DEF SearchFinished
    <3>2. CASE ~(InSession(i) /\ torrents[i].received)
      BY <1>2, <2>4, <3>2 DEF SearchFinished
    <3> QED BY <3>1, <3>2
  <2>5. CASE NativeStep \/ SaveNeeded \/ GenerateResumeData \/ ReadAlerts \/ HandleAdded \/ Exit \/ End
             \/ ReadNext \/ LoadFinished \/ HandleLoadedResumeData
    BY <1>2, <2>5 DEF NativeStep, SaveNeeded, GenerateResumeData, ReadAlerts, HandleAdded, Exit, End,
                      ReadNext, LoadFinished, HandleLoadedResumeData
  <2>6. ASSUME NEW i \in Id,
               \/ NativeProgress(i) \/ NativeMetadata(i)
               \/ AddTorrent(i) \/ DownloadMetadata(i) \/ CancelDownloadMetadata(i) \/ ChangeTorrent(i)
        PROVE  stored[id] # NoData \/ InSession(id)
    BY <1>2, <2>6 DEF NativeProgress, NativeMetadata, AddTorrent, DownloadMetadata,
                      CancelDownloadMetadata, ChangeTorrent
  <2>7. CASE UNCHANGED vars
    BY <1>2, <2>7 DEF vars
  <2> QED BY <1>0, <2>2, <2>3, <2>4, <2>5, <2>6, <2>7 DEF Next
<1>3. \A id \in Id : DeleteTorrent(id) =>
         /\ stored'[id] = NoData
         /\ \A i \in Id : InSession(i) /\ i # id => InSession(i)'
  BY DEF DeleteTorrent, InSession, TypeOK
<1> QED BY <1>1, <1>2, <1>3

LEMMA RestoredStep ==
    TypeOK /\ StartupInv /\ StoredAreRestored /\ [Next]_vars => StoredAreRestored'
<1> SUFFICES ASSUME TypeOK, StartupInv, StoredAreRestored, [Next]_vars, phase' = "restored"
             PROVE  StoredAreRestored'
  BY DEF StoredAreRestored
<1>1. CASE phase = "startup"
  <2>1. HandleLoadedResumeData
    BY <1>1 DEF Next, Event, NativeProgress, NativeMetadata, AddTorrent, DownloadMetadata,
                CancelDownloadMetadata, DeleteTorrent, ChangeTorrent, SearchFinished, NativeStep,
                ReadNext, LoadFinished, SaveNeeded, GenerateResumeData, ReadAlerts, HandleAdded,
                HandleAlert, Exit, End, Restart, vars
  <2> QED BY <1>1, <2>1, HandleLoadedStarting
<1>2. CASE phase = "restored"
  <2> SUFFICES ASSUME NEW id \in Id, stored'[id] # NoData
               PROVE  InSession(id)' \/ id \in refused'
    BY DEF StoredAreRestored
  <2>1. InSession(id) \/ id \in refused
    BY <1>2, StoredMoves DEF StoredAreRestored
  <2>2. CASE InSession(id)
    <3>1. CASE \E i \in Id : DeleteTorrent(i)
      BY <1>2, <2>2, <3>1, StoredMoves
    <3>2. CASE ~(\E i \in Id : DeleteTorrent(i))
      BY <2>2, <3>2, TorrentsStay DEF Restart
    <3> QED BY <3>1, <3>2
  <2>3. CASE id \in refused
    BY <1>2, <2>3, StoredMoves
  <2> QED BY <2>1, <2>2, <2>3
<1>3. CASE phase \notin {"startup", "restored"}
  BY <1>3 DEF Next, Event, NativeProgress, NativeMetadata, AddTorrent, DownloadMetadata,
              CancelDownloadMetadata, DeleteTorrent, ChangeTorrent, SearchFinished, NativeStep,
              ReadNext, LoadFinished, HandleLoadedResumeData, SaveNeeded, GenerateResumeData,
              ReadAlerts, HandleAdded, HandleAlert, Exit, End, Restart, vars
<1> QED BY <1>1, <1>2, <1>3

(* Once the session is restored, it has every torrent whose data are       *)
(* stored, but for those that could not be read or added.                  *)
THEOREM AllRestored == Spec => []StoredAreRestored
<1>1. Init => StoredAreRestored
  BY DEF Init, StoredAreRestored
<1> QED BY <1>1, StartupInvariant, RestoredStep, PTL DEF Spec

-----------------------------------------------------------------------------
(* The flow: what concerns a torrent in a sequence of requests, or of      *)
(* alerts, and when it stays as it is.                                     *)

SameRequests(v, w, id) ==
    /\ \A P \in SUBSET Additions(id) : Has(w, P) <=> Has(v, P)
    /\ One(v, Additions(id)) => One(w, Additions(id))
    /\ \A kind \in Kinds :
          /\ Has(w, Removals(id, kind)) <=> Has(v, Removals(id, kind))
          /\ Before(v, Removals(id, kind), Additions(id)) => Before(w, Removals(id, kind), Additions(id))

SameReplies(s, t, id) ==
    /\ \A P \in SUBSET Replies(id) : Has(t, P) <=> Has(s, P)
    /\ One(s, Replies(id)) => One(t, Replies(id))
SameMetadata(s, t, id) ==
    \A kind \in Kinds :
        /\ Has(t, Metadata(id, kind)) <=> Has(s, Metadata(id, kind))
        /\ One(s, Metadata(id, kind)) => One(t, Metadata(id, kind))
SameAnswers(s, t, id) == SameReplies(s, t, id) /\ SameMetadata(s, t, id)

LEMMA RequestKinds ==
    ASSUME NEW r \in Request, NEW id
    PROVE  /\ r \in Additions(id) <=> r.do = "add" /\ r.id = id
           /\ \A kind : r \in Removals(id, kind) <=> r.do = "remove" /\ r.id = id /\ r.kind = kind
           /\ \A kind, i : Removals(id, kind) \cap Additions(i) = {}
BY DEF Additions, Removals

LEMMA AlertKinds ==
    ASSUME NEW a \in Alert, NEW id
    PROVE  /\ a \in Replies(id) <=> a.is = "added" /\ a.id = id
           /\ a \in Accepted(id) <=> a.is = "added" /\ a.id = id /\ a.ok
           /\ a \in AcceptedHidden(id) <=> a.is = "added" /\ a.id = id /\ a.ok /\ a.kind # "own"
           /\ \A kind : a \in Metadata(id, kind) <=> a.is = "metadata" /\ a.id = id /\ a.kind = kind
BY DEF Replies, Accepted, AcceptedHidden, Metadata

LEMMA Subsets ==
    /\ \A id : Accepted(id) \subseteq Replies(id) /\ AcceptedHidden(id) \subseteq Accepted(id)
    /\ \A id : Foreign(id) \subseteq Additions(id)
    /\ \A s, P, Q : P \subseteq Q /\ Has(s, P) => Has(s, Q)
<1>1. \A id : Accepted(id) \subseteq Replies(id) /\ AcceptedHidden(id) \subseteq Accepted(id)
  BY DEF Accepted, AcceptedHidden, Replies
<1>2. \A id : Foreign(id) \subseteq Additions(id)
  BY DEF Foreign
<1>3. \A s, P, Q : P \subseteq Q /\ Has(s, P) => Has(s, Q)
  BY DEF Has, Positions
<1> QED BY <1>1, <1>2, <1>3

LEMMA RequestsStay ==
    ASSUME NEW w \in Seq(Request), NEW id
    PROVE  SameRequests(w, w, id)
BY DEF SameRequests

LEMMA AnswersStay ==
    ASSUME NEW s \in Seq(Alert), NEW id
    PROVE  SameAnswers(s, s, id)
BY DEF SameAnswers, SameReplies, SameMetadata

LEMMA RequestTaken ==
    ASSUME NEW w \in Seq(Request), w # <<>>, NEW id,
           ~(Head(w).do \in {"add", "remove"} /\ Head(w).id = id)
    PROVE  SameRequests(w, Tail(w), id)
<1>1. Head(w) \in Request
  BY Rest
<1>2. Head(w) \notin Additions(id) /\ \A kind \in Kinds : Head(w) \notin Removals(id, kind)
  BY <1>1, RequestKinds
<1>3. \A P \in SUBSET Additions(id) : Has(Tail(w), P) <=> Has(w, P)
  BY <1>2, HasRest
<1>4. One(w, Additions(id)) => One(Tail(w), Additions(id))
  BY HasRest
<1>5. \A kind \in Kinds : Has(Tail(w), Removals(id, kind)) <=> Has(w, Removals(id, kind))
  BY <1>2, HasRest
<1>6. \A kind \in Kinds : Before(w, Removals(id, kind), Additions(id))
                          => Before(Tail(w), Removals(id, kind), Additions(id))
  BY BeforeRest
<1> QED BY <1>3, <1>4, <1>5, <1>6 DEF SameRequests

LEMMA RequestMade ==
    ASSUME NEW w \in Seq(Request), NEW r \in Request, NEW id,
           ~(r.do \in {"add", "remove"} /\ r.id = id)
    PROVE  SameRequests(w, Append(w, r), id)
<1>2. r \notin Additions(id) /\ \A kind \in Kinds : r \notin Removals(id, kind)
  BY RequestKinds
<1>3. \A P \in SUBSET Additions(id) : Has(Append(w, r), P) <=> Has(w, P)
  BY <1>2, HasAppended
<1>4. One(w, Additions(id)) => One(Append(w, r), Additions(id))
  BY <1>2, HasAppended
<1>5. \A kind \in Kinds : Has(Append(w, r), Removals(id, kind)) <=> Has(w, Removals(id, kind))
  BY <1>2, HasAppended
<1>6. \A kind \in Kinds : Before(w, Removals(id, kind), Additions(id))
                          => Before(Append(w, r), Removals(id, kind), Additions(id))
  BY <1>2, BeforeAppended
<1> QED BY <1>3, <1>4, <1>5, <1>6 DEF SameRequests

LEMMA RequestsMade ==
    ASSUME NEW w \in Seq(Request), NEW t \in Seq(Request), NEW id,
           \A i \in DOMAIN t : ~(t[i].do \in {"add", "remove"} /\ t[i].id = id)
    PROVE  SameRequests(w, w \o t, id)
<1>1. \A i \in DOMAIN t : t[i] \in Request
  BY Elements
<1>2. \A i \in DOMAIN t : t[i] \notin Additions(id) /\ \A kind \in Kinds : t[i] \notin Removals(id, kind)
  BY <1>1, RequestKinds
<1>3. /\ \A P \in SUBSET Additions(id) : ~Has(t, P)
      /\ \A kind \in Kinds : ~Has(t, Removals(id, kind))
  BY <1>2 DEF Has, Positions
<1>4. \A P \in SUBSET Additions(id) : Has(w \o t, P) <=> Has(w, P)
  BY <1>3, HasJoined
<1>5. One(w, Additions(id)) => One(w \o t, Additions(id))
  BY <1>3, HasJoined
<1>6. \A kind \in Kinds : Has(w \o t, Removals(id, kind)) <=> Has(w, Removals(id, kind))
  BY <1>3, HasJoined
<1>7. \A kind \in Kinds : Before(w, Removals(id, kind), Additions(id))
                          => Before(w \o t, Removals(id, kind), Additions(id))
  BY <1>3, BeforeJoined
<1> QED BY <1>4, <1>5, <1>6, <1>7 DEF SameRequests

LEMMA AnswerTaken ==
    ASSUME NEW s \in Seq(Alert), s # <<>>, NEW id,
           ~(Head(s).is \in {"added", "metadata"} /\ Head(s).id = id)
    PROVE  SameAnswers(s, Tail(s), id)
<1>1. Head(s) \in Alert
  BY Rest
<1>2. Head(s) \notin Replies(id) /\ \A kind \in Kinds : Head(s) \notin Metadata(id, kind)
  BY <1>1, AlertKinds
<1>3. \A P \in SUBSET Replies(id) : Has(Tail(s), P) <=> Has(s, P)
  BY <1>2, HasRest
<1>4. One(s, Replies(id)) => One(Tail(s), Replies(id))
  BY HasRest
<1>5. \A kind \in Kinds : /\ Has(Tail(s), Metadata(id, kind)) <=> Has(s, Metadata(id, kind))
                          /\ One(s, Metadata(id, kind)) => One(Tail(s), Metadata(id, kind))
  BY <1>2, HasRest
<1> QED BY <1>3, <1>4, <1>5 DEF SameAnswers, SameReplies, SameMetadata

LEMMA AnswerMade ==
    ASSUME NEW s \in Seq(Alert), NEW a \in Alert, NEW id,
           ~(a.is \in {"added", "metadata"} /\ a.id = id)
    PROVE  SameAnswers(s, Append(s, a), id)
<1>2. a \notin Replies(id) /\ \A kind \in Kinds : a \notin Metadata(id, kind)
  BY AlertKinds
<1>3. \A P \in SUBSET Replies(id) : Has(Append(s, a), P) <=> Has(s, P)
  BY <1>2, HasAppended
<1>4. One(s, Replies(id)) => One(Append(s, a), Replies(id))
  BY <1>2, HasAppended
<1>5. \A kind \in Kinds : /\ Has(Append(s, a), Metadata(id, kind)) <=> Has(s, Metadata(id, kind))
                          /\ One(s, Metadata(id, kind)) => One(Append(s, a), Metadata(id, kind))
  BY <1>2, HasAppended
<1> QED BY <1>3, <1>4, <1>5 DEF SameAnswers, SameReplies, SameMetadata

(* A torrent that a step does not touch.                                   *)
SameNative(id) ==
    /\ native'[id] = None <=> native[id] = None
    /\ native'[id].kind = native[id].kind /\ native'[id].info = native[id].info
SameTorrent(id) ==
    /\ torrents'[id] = None <=> torrents[id] = None
    /\ torrents'[id].kind = torrents[id].kind
    /\ torrents'[id].info = torrents[id].info /\ torrents'[id].received = torrents[id].received
SameState(id) ==
    /\ SameNative(id) /\ SameTorrent(id)
    /\ loading'[id] = loading[id] /\ hidden'[id] = hidden[id] /\ searches'[id] = searches[id]

LEMMA FlowKept ==
    ASSUME TypeOK, NEW id \in Id, FlowOf(id), SameState(id), Running' => Running,
           SameRequests(work, work', id), SameAnswers(alerts, alerts', id),
           SameReplies(adds, adds', id), SameMetadata(batch, batch', id)
    PROVE  FlowOf(id)'
<1>1. /\ \A P \in SUBSET Additions(id) : Has(work', P) <=> Has(work, P)
      /\ One(work, Additions(id)) => One(work', Additions(id))
      /\ \A kind \in Kinds :
            /\ Has(work', Removals(id, kind)) <=> Has(work, Removals(id, kind))
            /\ Before(work, Removals(id, kind), Additions(id)) => Before(work', Removals(id, kind), Additions(id))
  BY DEF SameRequests
<1>2. /\ \A P \in SUBSET Replies(id) : /\ Has(alerts', P) <=> Has(alerts, P)
                                       /\ Has(adds', P) <=> Has(adds, P)
      /\ One(alerts, Replies(id)) => One(alerts', Replies(id))
      /\ One(adds, Replies(id)) => One(adds', Replies(id))
      /\ \A kind \in Kinds :
            /\ Has(alerts', Metadata(id, kind)) <=> Has(alerts, Metadata(id, kind))
            /\ Has(batch', Metadata(id, kind)) <=> Has(batch, Metadata(id, kind))
            /\ One(alerts, Metadata(id, kind)) => One(alerts', Metadata(id, kind))
            /\ One(batch, Metadata(id, kind)) => One(batch', Metadata(id, kind))
  BY DEF SameAnswers, SameReplies, SameMetadata
<1>3. Foreign(id)' = Foreign(id)
  BY DEF Foreign, SameState
<1>4. /\ Asked(id)' <=> Asked(id)
      /\ Has(work', Foreign(id)') <=> Has(work, Foreign(id))
      /\ Has(work', Additions(id)) <=> Has(work, Additions(id))
      /\ Asked(id) <=> Has(work, Additions(id))
  BY <1>1, <1>3, Subsets DEF Asked, AddsIn, Has
<1>5. /\ Answered(id)' <=> Answered(id)
      /\ AnsweredOk(id)' <=> AnsweredOk(id)
      /\ Has(alerts', Replies(id)) <=> Has(alerts, Replies(id))
      /\ Has(adds', Replies(id)) <=> Has(adds, Replies(id))
      /\ Has(alerts', AcceptedHidden(id)) <=> Has(alerts, AcceptedHidden(id))
      /\ Has(adds', AcceptedHidden(id)) <=> Has(adds, AcceptedHidden(id))
  BY <1>2, Subsets DEF Answered, AnsweredOk, AddedIn, Has
<1>6. \A kind \in Kinds : MetadataPending(id, kind)' <=> MetadataPending(id, kind)
  BY <1>2 DEF MetadataPending
<1>7. InSession(id)' <=> InSession(id)
  BY DEF InSession, SameState, SameTorrent
<1>8. HasInfo(id)' = HasInfo(id)
  BY <1>7 DEF HasInfo, SameState, SameTorrent
<1>9. Owner(id)' => Owner(id)
  BY <1>5, <1>7 DEF Owner, SameState
<1>10. HiddenOwner(id)' <=> HiddenOwner(id)
  BY <1>5 DEF HiddenOwner, SameState
<1>11. InFlight(id)' <=> InFlight(id)
  BY <1>4, <1>5 DEF InFlight
<1>12. OwnerInv(id)'
  BY <1>1, <1>2, <1>6, <1>7, <1>8, <1>9, KindsAre DEF FlowOf, OwnerInv, SameState, SameNative, SameTorrent
<1>13. ASSUME Running' PROVE OnceInv(id)'
  BY <1>1, <1>2, <1>4, <1>5, <1>13 DEF FlowOf, OnceInv
<1>14. ASSUME Running' PROVE AdditionsInv(id)'
  BY <1>4, <1>5, <1>7, <1>11, <1>14 DEF FlowOf, AdditionsInv, SameState
<1>15. ASSUME Running' PROVE MetadataInv(id)'
  BY <1>2, <1>4, <1>5, <1>6, <1>15, KindsAre DEF FlowOf, MetadataInv, SameState, SameNative
<1>16. ASSUME Running' PROVE NativeInv(id)'
  <2>1. Owner(id)' <=> Owner(id)
    BY <1>5, <1>7, <1>16 DEF Owner, SameState
  <2>2. native[id].kind \in Kinds => (Has(work', Removals(id, native[id].kind)) <=> Has(work, Removals(id, native[id].kind)))
    BY <1>1
  <2>3. native[id] \in NativeTorrent \union {None}
    BY DEF TypeOK
  <2>4. native[id] # None => native[id].kind \in Kinds
    BY <2>3, NativeIs
  <2>5. NativeInv(id)
    BY <1>16 DEF FlowOf
  <2>6. (native'[id] = None <=> native[id] = None) /\ native'[id].kind = native[id].kind
    BY DEF SameState, SameNative
  <2>7. HiddenOwner(id)' => native'[id].kind = "hidden" /\ ~Has(work', Removals(id, "hidden"))
    BY <1>1, <1>10, <2>5, <2>6, KindsAre DEF NativeInv
  <2>8. native'[id] # None => \/ native'[id].kind = "own" /\ Owner(id)'
                              \/ native'[id].kind = "hidden" /\ HiddenOwner(id)'
                              \/ Has(work', Removals(id, native'[id].kind))
    BY <1>10, <2>1, <2>2, <2>4, <2>5, <2>6 DEF NativeInv
  <2>9. \A kind \in Kinds : Before(work', Removals(id, kind), Additions(id))
    BY <1>1, <2>5 DEF NativeInv
  <2> QED BY <2>7, <2>8, <2>9 DEF NativeInv
<1> QED BY <1>12, <1>13, <1>14, <1>15, <1>16 DEF FlowOf

LEMMA FlowFrame ==
    ASSUME TypeOK, NEW id \in Id, FlowOf(id), SameState(id), Running' => Running,
           SameRequests(work, work', id), SameAnswers(alerts, alerts', id),
           SameAnswers(adds, adds', id), SameAnswers(batch, batch', id)
    PROVE  FlowOf(id)'
<1>1. SameReplies(adds, adds', id) /\ SameMetadata(batch, batch', id)
  BY DEF SameAnswers
<1> QED BY <1>1, FlowKept

-----------------------------------------------------------------------------
LEMMA LastIs ==
    ASSUME NEW S, NEW s \in Seq(S), NEW e, Append(s, e) \in Seq(S)
    PROVE  e \in S
<1>1. Len(s) \in Nat /\ Len(Append(s, e)) = Len(s) + 1 /\ Append(s, e)[Len(s) + 1] = e
  OBVIOUS
<1>2. Len(s) + 1 \in DOMAIN Append(s, e)
  BY <1>1, Elements
<1> QED BY <1>1, <1>2, Elements

LEMMA SameSessionStays ==
    ASSUME NEW id, UNCHANGED <<torrents, loading, hidden, searches>>
    PROVE  SameTorrent(id) /\ loading'[id] = loading[id] /\ hidden'[id] = hidden[id] /\ searches'[id] = searches[id]
BY DEF SameTorrent

LEMMA SameNativeStays ==
    ASSUME NEW id, native' = native
    PROVE  SameNative(id)
BY DEF SameNative

(* libtorrent takes a request about another torrent, or saves this one.    *)
LEMMA NativeOtherFlow ==
    ASSUME TypeOK, NativeStep, NEW id \in Id, FlowOf(id),
           Head(work).id # id \/ Head(work).do = "save"
    PROVE  FlowOf(id)'
<1> DEFINE r == Head(work)
<1>1. /\ work \in Seq(Request) /\ work # <<>> /\ work' = Tail(work) /\ r \in Request
      /\ alerts \in Seq(Alert) /\ adds \in Seq(Alert) /\ batch \in Seq(Alert)
  BY Rest DEF TypeOK, NativeStep
<1>2. UNCHANGED <<torrents, loading, hidden, searches, phase, adds, batch>>
  BY DEF NativeStep
<1>3. NativeAdd(r) \/ NativeRemove(r) \/ NativeSave(r)
  BY DEF NativeStep
<1>4. r.id \in Id /\ native \in [Id -> NativeTorrent \union {None}]
  BY <1>1, RequestParts DEF TypeOK
<1>5. r.id # id \/ r.do = "save"
  OBVIOUS
<1> HIDE DEF r
<1>6. SameRequests(work, work', id)
  <2>1. ~(r.do \in {"add", "remove"} /\ r.id = id)
    BY <1>5
  <2> QED BY <1>1, <2>1, RequestTaken DEF r
<1>7. SameAnswers(adds, adds', id) /\ SameAnswers(batch, batch', id)
  BY <1>1, <1>2, AnswersStay
<1>8. SameAnswers(alerts, alerts', id) /\ SameNative(id)
  <2>1. CASE NativeAdd(r)
    <3>1. r.id # id
      BY <1>5, <2>1 DEF NativeAdd
    <3>2. PICK accepts \in BOOLEAN :
             /\ native' = IF native[r.id] # None \/ ~accepts THEN native
                          ELSE [native EXCEPT ![r.id] = [kind |-> r.kind, info |-> r.data.info,
                                                         progress |-> r.data.progress,
                                                         needSave |-> FALSE]]
             /\ alerts' = Append(alerts,
                    [is |-> "added", id |-> r.id, kind |-> native'[r.id].kind,
                     ok |-> accepts /\ (native[r.id] = None \/ r.kind = "hidden")])
      BY <2>1 DEF NativeAdd
    <3>3. SameNative(id)
      BY <1>4, <3>1, <3>2 DEF SameNative
    <3>4. PICK a : alerts' = Append(alerts, a) /\ a.id = r.id
      BY <3>2
    <3>5. a \in Alert
      <4>1. alerts' \in Seq(Alert)
        BY NativeStepTypes DEF TypeOK
      <4>2. Len(alerts) + 1 \in DOMAIN Append(alerts, a) /\ Append(alerts, a)[Len(alerts) + 1] = a
        BY <1>1
      <4> QED BY <3>4, <4>1, <4>2, Elements
    <3>6. SameAnswers(alerts, Append(alerts, a), id)
      BY <1>1, <3>1, <3>4, <3>5, AnswerMade
    <3> QED BY <3>3, <3>4, <3>6
  <2>2. CASE NativeRemove(r)
    <3>1. r.id # id
      BY <1>5, <2>2 DEF NativeRemove
    <3>2. SameNative(id)
      BY <1>4, <2>2, <3>1 DEF SameNative, NativeRemove
    <3> QED BY <1>1, <2>2, <3>2, AnswersStay DEF NativeRemove
  <2>3. CASE NativeSave(r)
    <3>1. CASE native[r.id] = None
      BY <1>1, <2>3, <3>1, AnswersStay, SameNativeStays DEF NativeSave
    <3>2. CASE native[r.id] # None
      <4>1. native[r.id] \in NativeTorrent
        BY <1>4, <3>2
      <4>2. native' = [native EXCEPT ![r.id] = [native[r.id] EXCEPT !.needSave = FALSE]]
        BY <2>3, <3>2 DEF NativeSave
      <4>3. SameNative(id)
        <5>1. CASE r.id # id
          BY <1>4, <4>2, <5>1 DEF SameNative
        <5>2. CASE r.id = id
          <6>1. native'[id] = [native[id] EXCEPT !.needSave = FALSE]
            BY <1>4, <4>2, <5>2
          <6>2. native'[id].kind = native[id].kind /\ native'[id].info = native[id].info
                /\ native'[id] \in NativeTorrent
            BY <4>1, <5>2, <6>1 DEF NativeTorrent
          <6> QED BY <3>2, <5>2, <6>2, NativeIs DEF SameNative
        <5> QED BY <5>1, <5>2
      <4>4. PICK a : alerts' = Append(alerts, a) /\ a.is \in {"saved", "not modified"}
        <5> DEFINE a == IF r.always \/ native[r.id].needSave
                        THEN [is |-> "saved", id |-> r.id, progress |-> native[r.id].progress,
                              info |-> native[r.id].info]
                        ELSE [is |-> "not modified", id |-> r.id]
        <5>1. alerts' = Append(alerts, a)
          BY <2>3, <3>2, Zenon DEF NativeSave
        <5>2. a.is \in {"saved", "not modified"}
          OBVIOUS
        <5> HIDE DEF a
        <5> QED BY <5>1, <5>2
      <4>5. a \in Alert
        <5>1. alerts' \in Seq(Alert)
          BY NativeStepTypes DEF TypeOK
        <5> QED BY <1>1, <4>4, <5>1, LastIs
      <4>6. ~(a.is \in {"added", "metadata"})
        BY <4>4
      <4>7. SameAnswers(alerts, Append(alerts, a), id)
        BY <1>1, <4>5, <4>6, AnswerMade
      <4> QED BY <4>3, <4>4, <4>7
    <3> QED BY <3>1, <3>2
  <2> QED BY <1>3, <2>1, <2>2, <2>3
<1>9. SameState(id)
  BY <1>2, <1>8, SameSessionStays DEF SameState
<1>10. Running' => Running
  BY <1>2 DEF Running
<1> QED BY <1>6, <1>7, <1>8, <1>9, <1>10, FlowFrame

LEMMA NativeRemoveFlow ==
    ASSUME TypeOK, NativeStep, NEW id \in Id, FlowOf(id), Head(work).id = id, NativeRemove(Head(work))
    PROVE  FlowOf(id)'
<1> DEFINE r == Head(work)
<1>1. /\ work \in Seq(Request) /\ work # <<>> /\ work' = Tail(work) /\ r \in Request
  BY Rest DEF TypeOK, NativeStep
<1>2. UNCHANGED <<torrents, loading, hidden, searches, phase, adds, batch, alerts>>
  BY DEF NativeStep, NativeRemove
<1>3. /\ r.do = "remove" /\ r.id = id /\ r.kind \in Kinds
      /\ native' = IF native[id].kind = r.kind THEN [native EXCEPT ![id] = None] ELSE native
  BY <1>1, RequestParts DEF NativeRemove
<1>4. native[id] \in NativeTorrent \union {None} /\ native \in [Id -> NativeTorrent \union {None}]
  BY DEF TypeOK
<1> HIDE DEF r
<1>5. r \in Removals(id, r.kind) /\ r \notin Additions(id)
      /\ \A kind \in Kinds : kind # r.kind => r \notin Removals(id, kind)
  BY <1>1, <1>3, RequestKinds
<1>6. /\ Has(work, Removals(id, r.kind))
      /\ \A kind \in Kinds : /\ Has(work', Removals(id, kind)) => Has(work, Removals(id, kind))
                             /\ kind # r.kind /\ Has(work, Removals(id, kind)) => Has(work', Removals(id, kind))
  BY <1>1, <1>5, HasRest DEF r
<1>7. /\ \A P \in SUBSET Additions(id) : Has(work', P) <=> Has(work, P)
      /\ One(work, Additions(id)) => One(work', Additions(id))
  BY <1>1, <1>5, HasRest DEF r
<1>8. \A kind \in Kinds : Before(work, Removals(id, kind), Additions(id)) => Before(work', Removals(id, kind), Additions(id))
  BY <1>1, BeforeRest
<1>9. /\ native'[id] = IF native[id].kind = r.kind THEN None ELSE native[id]
      /\ native[id] # None => native[id].kind \in Kinds
  BY <1>3, <1>4, NativeIs
<1>10. /\ Asked(id)' <=> Asked(id)
       /\ Foreign(id)' = Foreign(id) /\ (Has(work', Foreign(id)) <=> Has(work, Foreign(id)))
  BY <1>2, <1>7, Subsets DEF Asked, AddsIn, Has, Foreign
<1>11. /\ Answered(id)' = Answered(id) /\ AnsweredOk(id)' = AnsweredOk(id) /\ Owner(id)' = Owner(id)
       /\ HiddenOwner(id)' = HiddenOwner(id) /\ HasInfo(id)' = HasInfo(id) /\ InSession(id)' = InSession(id)
       /\ Running' = Running
       /\ \A kind : MetadataPending(id, kind)' = MetadataPending(id, kind)
  BY <1>2 DEF Answered, AnsweredOk, Owner, HiddenOwner, HasInfo, InSession, Running, MetadataPending
<1>12. Owner(id) => native'[id] = native[id]
  BY <1>6, <1>9 DEF FlowOf, OwnerInv
<1>13. OwnerInv(id)'
  BY <1>2, <1>6, <1>11, <1>12, KindsAre DEF FlowOf, OwnerInv
<1>14. ASSUME Running PROVE OnceInv(id)'
  BY <1>2, <1>7, <1>10, <1>11, <1>14 DEF FlowOf, OnceInv
<1>15. ASSUME Running PROVE AdditionsInv(id)'
  BY <1>2, <1>10, <1>11, <1>15 DEF FlowOf, AdditionsInv, InFlight
<1>16. ASSUME Running PROVE MetadataInv(id)'
  BY <1>2, <1>9, <1>10, <1>11, <1>16, KindsAre DEF FlowOf, MetadataInv
<1>17. ASSUME Running PROVE NativeInv(id)'
  <2>1. NativeInv(id)
    BY <1>17 DEF FlowOf
  <2>2. HiddenOwner(id) => native'[id].kind = "hidden" /\ ~Has(work', Removals(id, "hidden"))
    BY <1>6, <1>9, <2>1, KindsAre DEF NativeInv
  <2>3. native'[id] # None => \/ native'[id].kind = "own" /\ Owner(id)
                              \/ native'[id].kind = "hidden" /\ HiddenOwner(id)
                              \/ Has(work', Removals(id, native'[id].kind))
    BY <1>6, <1>9, <2>1 DEF NativeInv
  <2> QED BY <1>8, <1>11, <2>1, <2>2, <2>3 DEF NativeInv
<1> QED BY <1>11, <1>13, <1>14, <1>15, <1>16, <1>17 DEF FlowOf

-----------------------------------------------------------------------------
LEMMA NativeAddFlow ==
    ASSUME TypeOK, NativeStep, NEW id \in Id, FlowOf(id), Head(work).id = id, NativeAdd(Head(work))
    PROVE  FlowOf(id)'
<1> DEFINE r == Head(work)
<1>1. /\ work \in Seq(Request) /\ work # <<>> /\ work' = Tail(work) /\ r \in Request
      /\ alerts \in Seq(Alert)
  BY Rest DEF TypeOK, NativeStep
<1>2. UNCHANGED <<torrents, loading, hidden, searches, phase, adds, batch>>
  BY DEF NativeStep
<1>3. r.do = "add" /\ r.id = id /\ r.kind \in Kinds /\ r.data \in Data
  BY <1>1, RequestParts DEF NativeAdd
<1>4. native[id] \in NativeTorrent \union {None} /\ native \in [Id -> NativeTorrent \union {None}]
  BY DEF TypeOK
<1>5. PICK accepts \in BOOLEAN :
         /\ native' = IF native[id] # None \/ ~accepts THEN native
                      ELSE [native EXCEPT ![id] = [kind |-> r.kind, info |-> r.data.info,
                                                   progress |-> r.data.progress,
                                                   needSave |-> FALSE]]
         /\ alerts' = Append(alerts,
                [is |-> "added", id |-> id, kind |-> native'[id].kind,
                 ok |-> accepts /\ (native[id] = None \/ r.kind = "hidden")])
  BY <1>3 DEF NativeAdd
<1> DEFINE a == [is |-> "added", id |-> id, kind |-> native'[id].kind,
                 ok |-> accepts /\ (native[id] = None \/ r.kind = "hidden")]
           n == [kind |-> r.kind, info |-> r.data.info, progress |-> r.data.progress,
                 needSave |-> FALSE]
<1>6. alerts' = Append(alerts, a) /\ a.is = "added" /\ a.id = id /\ a.kind = native'[id].kind
  BY <1>5
<1>7. a.ok <=> accepts /\ (native[id] = None \/ r.kind = "hidden")
  BY Zenon
<1>8. native'[id] = IF native[id] # None \/ ~accepts THEN native[id] ELSE n
  BY <1>4, <1>5
<1>9. n.kind = r.kind /\ n.info = r.data.info
  OBVIOUS
<1>10. n \in NativeTorrent
  <2>1. r.data.info \in BOOLEAN /\ r.data.progress \in Nat
    BY <1>3, DataIs
  <2> QED BY <1>3, <2>1, NativeIs
<1> HIDE DEF r, n, a
<1>11. a \in Alert
  <2>1. alerts' \in Seq(Alert)
    BY NativeStepTypes DEF TypeOK
  <2> QED BY <1>1, <1>6, <2>1, LastIs
<1>12. r \in Additions(id) /\ \A kind \in Kinds : r \notin Removals(id, kind)
  BY <1>1, <1>3, RequestKinds
<1>13. /\ Has(work, Additions(id))
       /\ \A kind \in Kinds : Has(work', Removals(id, kind)) <=> Has(work, Removals(id, kind))
       /\ One(work, Additions(id)) => ~Has(work', Additions(id)) /\ One(work', Additions(id))
  BY <1>1, <1>12, HasRest DEF r
<1>14. \A kind \in Kinds : Before(work, Removals(id, kind), Additions(id))
          => Before(work', Removals(id, kind), Additions(id)) /\ ~Has(work, Removals(id, kind))
  BY <1>1, <1>12, BeforeRest DEF r
<1>15. a \in Replies(id) /\ (a \in Accepted(id) <=> a.ok)
       /\ (a \in AcceptedHidden(id) <=> a.ok /\ a.kind # "own")
       /\ \A kind \in Kinds : a \notin Metadata(id, kind)
  BY <1>6, <1>11, AlertKinds
<1>16. /\ Has(alerts', Replies(id))
       /\ Has(alerts', Accepted(id)) <=> a.ok \/ Has(alerts, Accepted(id))
       /\ Has(alerts', AcceptedHidden(id)) <=> (a.ok /\ a.kind # "own") \/ Has(alerts, AcceptedHidden(id))
       /\ ~Has(alerts, Replies(id)) => One(alerts', Replies(id))
       /\ \A kind \in Kinds : /\ Has(alerts', Metadata(id, kind)) <=> Has(alerts, Metadata(id, kind))
                              /\ One(alerts, Metadata(id, kind)) => One(alerts', Metadata(id, kind))
  BY <1>1, <1>6, <1>11, <1>15, HasAppended
<1>17. Running' = Running /\ InSession(id)' = InSession(id) /\ HasInfo(id)' = HasInfo(id)
       /\ Foreign(id)' = Foreign(id)
       /\ \A kind \in Kinds : MetadataPending(id, kind)' <=> MetadataPending(id, kind)
  <2>1. Running' = Running /\ InSession(id)' = InSession(id) /\ HasInfo(id)' = HasInfo(id)
        /\ Foreign(id)' = Foreign(id)
    BY <1>2 DEF Running, InSession, HasInfo, Foreign
  <2>2. \A kind \in Kinds : MetadataPending(id, kind)' <=> MetadataPending(id, kind)
    BY <1>2, <1>16 DEF MetadataPending
  <2> QED BY <2>1, <2>2
<1>18. CASE ~Running
  <2>1. Owner(id)' => Owner(id) /\ InSession(id)
    BY <1>17, <1>18 DEF Owner
  <2>2. Owner(id)' => native'[id] = native[id]
    BY <1>8, <2>1 DEF FlowOf, OwnerInv
  <2>3. OwnerInv(id)'
    BY <1>2, <1>13, <1>16, <1>17, <2>1, <2>2, KindsAre DEF FlowOf, OwnerInv
  <2> QED BY <1>17, <1>18, <2>3 DEF FlowOf
<1>19. CASE Running
  <2>1. OnceInv(id) /\ AdditionsInv(id) /\ MetadataInv(id) /\ NativeInv(id)
    BY <1>19 DEF FlowOf
  <2>2. Asked(id) /\ ~Asked(id)' /\ ~Has(work', Additions(id)) /\ One(work', Additions(id))
    BY <1>13, <2>1 DEF OnceInv, Asked, AddsIn, Has
  <2>3. ~Answered(id) /\ ~Has(alerts, Replies(id)) /\ ~Has(adds, Replies(id)) /\ ~AnsweredOk(id)
    BY <2>1, <2>2, Subsets DEF OnceInv, Answered, AnsweredOk, AddedIn, Has
  <2>4. ~Has(alerts, Accepted(id)) /\ ~Has(adds, Accepted(id))
        /\ ~Has(alerts, AcceptedHidden(id)) /\ ~Has(adds, AcceptedHidden(id))
    BY <2>3, Subsets
  <2>5. Answered(id)' /\ (AnsweredOk(id)' <=> a.ok) /\ InFlight(id)'
    BY <1>2, <1>16, <2>4 DEF Answered, AnsweredOk, AddedIn, Has, InFlight
  <2>6. searches[id] = 0 /\ ~InSession(id) /\ (loading[id] # None <=> hidden[id] = "no")
        /\ hidden[id] \in {"no", "pending"}
    BY <2>1, <2>2, <2>3 DEF AdditionsInv, InFlight
  <2>7. \A kind \in Kinds : ~Has(work, Removals(id, kind)) /\ ~Has(work', Removals(id, kind))
    BY <1>13, <1>14, <2>1 DEF NativeInv
  <2>8. native[id] = None
    <3>1. ~Owner(id) /\ ~HiddenOwner(id)
      BY <2>3, <2>6 DEF Owner, HiddenOwner
    <3>2. native[id] # None => native[id].kind \in Kinds
      BY <1>4, NativeIs
    <3> QED BY <2>1, <2>7, <3>1, <3>2 DEF NativeInv
  <2>9. native'[id] = IF accepts THEN n ELSE None
    BY <1>8, <2>8
  <2>10. a.ok <=> accepts
    BY <1>7, <2>8
  <2>11. ~Has(work', Foreign(id))
    BY <2>2, Subsets
  <2>12. r \notin Foreign(id)
    BY <1>1, <2>1, HasRest DEF AdditionsInv, r
  <2>13. OnceInv(id)'
    BY <1>2, <1>16, <2>1, <2>2, <2>3 DEF OnceInv
  <2>14. CASE loading[id] # None
    <3>1. hidden[id] = "no" /\ hidden'[id] = "no" /\ loading'[id] # None
      BY <1>2, <2>6, <2>14
    <3>2. r.kind = "own" /\ r.data = loading[id]
      BY <1>12, <2>12, <2>14 DEF Foreign
    <3>3. accepts => native'[id] = n /\ n # None /\ n.kind = "own" /\ (n.info <=> loading[id].info)
      BY <1>9, <1>10, <2>9, <3>2, NativeIs
    <3>4. HasInfo(id) <=> loading[id].info
      BY <2>6 DEF HasInfo
    <3>5. Owner(id)' <=> accepts
      BY <1>17, <1>19, <2>5, <2>6, <2>10, <3>1 DEF Owner
    <3>6. ~MetadataPending(id, "own") /\ ~MetadataPending(id, "own")'
      BY <1>17, <2>1, <2>3, <2>14, KindsAre DEF MetadataInv
    <3>7. ~Has(alerts', Metadata(id, "own")) /\ ~Has(batch', Metadata(id, "own"))
      BY <3>6 DEF MetadataPending
    <3>8. One(alerts', Metadata(id, "own")) /\ One(batch', Metadata(id, "own"))
      BY <3>7 DEF Has, One, AtMostOne
    <3>9. OwnerInv(id)'
      BY <1>2, <1>17, <2>6, <2>7, <3>3, <3>4, <3>5, <3>6, <3>7, <3>8, KindsAre DEF OwnerInv
    <3>10. a.ok => a.kind = "own"
      BY <1>6, <2>10, <3>3
    <3>11. AdditionsInv(id)'
      BY <1>2, <1>16, <1>17, <2>4, <2>5, <2>6, <2>11, <3>1, <3>10 DEF AdditionsInv
    <3>12. MetadataInv(id)'
      BY <1>2, <2>5, <2>9, <2>10, <3>1, <3>6, <3>7, KindsAre DEF MetadataInv
    <3>13. NativeInv(id)'
      BY <1>14, <2>1, <2>9, <3>1, <3>3, <3>5 DEF NativeInv, HiddenOwner
    <3> QED BY <2>13, <3>9, <3>11, <3>12, <3>13 DEF FlowOf
  <2>15. CASE loading[id] = None
    <3>1. hidden[id] = "pending" /\ hidden'[id] = "pending" /\ loading'[id] = None
      BY <1>2, <2>6, <2>15
    <3>2. r.kind = "hidden"
      BY <1>12, <2>12, <2>15 DEF Foreign
    <3>3. accepts => native'[id] = n /\ n # None /\ n.kind = "hidden"
      BY <1>9, <1>10, <2>9, <3>2, NativeIs
    <3>4. OwnerInv(id)'
      BY <1>17, <2>6, <3>1 DEF OwnerInv, Owner
    <3>5. HiddenOwner(id)' <=> accepts
      BY <2>5, <2>10, <3>1 DEF HiddenOwner
    <3>6. AdditionsInv(id)'
      BY <1>2, <1>17, <2>5, <2>6, <2>11, <3>1 DEF AdditionsInv
    <3>7. ~MetadataPending(id, "own") /\ ~MetadataPending(id, "hidden")
      BY <2>1, <2>2, <3>1 DEF MetadataInv
    <3>8. MetadataInv(id)'
      BY <1>2, <2>2, <3>1, <3>7 DEF MetadataInv, MetadataPending
    <3>9. NativeInv(id)'
      BY <1>14, <2>1, <2>7, <2>9, <3>3, <3>5, KindsAre DEF NativeInv
    <3> QED BY <2>13, <3>4, <3>6, <3>8, <3>9 DEF FlowOf
  <2> QED BY <2>14, <2>15
<1> QED BY <1>18, <1>19

LEMMA NativeStepFlow ==
    ASSUME TypeOK, NativeStep, NEW id \in Id, FlowOf(id)
    PROVE  FlowOf(id)'
<1>1. NativeAdd(Head(work)) \/ NativeRemove(Head(work)) \/ NativeSave(Head(work))
  BY DEF NativeStep
<1>2. NativeSave(Head(work)) => Head(work).do = "save"
  BY DEF NativeSave
<1> QED BY <1>1, <1>2, NativeOtherFlow, NativeRemoveFlow, NativeAddFlow

-----------------------------------------------------------------------------
LEMMA QueuesAre ==
    ASSUME TypeOK
    PROVE  /\ work \in Seq(Request)
           /\ alerts \in Seq(Alert) /\ adds \in Seq(Alert) /\ batch \in Seq(Alert)
BY DEF TypeOK

LEMMA AnswersUnchanged ==
    ASSUME TypeOK, NEW id, UNCHANGED alertVars
    PROVE  /\ SameAnswers(alerts, alerts', id)
           /\ SameAnswers(adds, adds', id) /\ SameAnswers(batch, batch', id)
BY QueuesAre, AnswersStay DEF alertVars

(* Requests for resume data are no concern of additions and removals.      *)
LEMMA SavesMade ==
    ASSUME TypeOK, NEW ids \in SUBSET Id, NEW always \in BOOLEAN, NEW id,
           work' = work \o Saves(ids, always)
    PROVE  SameRequests(work, work', id)
<1> DEFINE t == Saves(ids, always)
<1>1. t \in Seq(Request) /\ \A i \in DOMAIN t : t[i].do = "save"
  BY SavesAre
<1>2. work' = work \o t
  OBVIOUS
<1> HIDE DEF t
<1>3. \A i \in DOMAIN t : ~(t[i].do \in {"add", "remove"} /\ t[i].id = id)
  BY <1>1
<1> QED BY <1>1, <1>2, <1>3, QueuesAre, RequestsMade

(* Nothing happens to the torrents.                                        *)
LEMMA QuietFlow ==
    ASSUME TypeOK, NEW id \in Id, FlowOf(id), Running' => Running,
           UNCHANGED <<torrents, loading, hidden, searches, native, alertVars>>,
           SameRequests(work, work', id)
    PROVE  FlowOf(id)'
<1>1. SameState(id)
  BY SameSessionStays, SameNativeStays DEF SameState
<1> QED BY <1>1, AnswersUnchanged, FlowFrame

LEMMA PlainFlow ==
    ASSUME TypeOK, NEW id \in Id, FlowOf(id),
           \/ ReadNext \/ LoadFinished \/ SaveNeeded \/ GenerateResumeData \/ Exit \/ End
           \/ UNCHANGED vars
    PROVE  FlowOf(id)'
<1>1. UNCHANGED <<torrents, loading, hidden, searches, native, alertVars>>
  BY DEF ReadNext, LoadFinished, SaveNeeded, GenerateResumeData, Exit, End, vars
<1>2. Running' => Running
  BY DEF Running, ReadNext, LoadFinished, SaveNeeded, GenerateResumeData, Event, Exit, End, vars
<1>3. \/ work' = work
      \/ \E ids \in SUBSET Id, always \in BOOLEAN : work' = work \o Saves(ids, always)
  <2>1. CASE ReadNext \/ LoadFinished \/ End \/ UNCHANGED vars
    BY <2>1 DEF ReadNext, LoadFinished, End, vars
  <2>2. CASE SaveNeeded
    <3>1. work' = work \o Saves({i \in needSave : InSession(i)}, TRUE)
      BY <2>2 DEF SaveNeeded
    <3>2. {i \in needSave : InSession(i)} \in SUBSET Id
      BY DEF TypeOK
    <3> QED BY <3>1, <3>2
  <2>3. CASE GenerateResumeData
    <3>1. PICK ids \in SUBSET {i \in Id : InSession(i)} \ {{}} : work' = work \o Saves(ids, TRUE)
      BY <2>3 DEF GenerateResumeData
    <3> QED BY <3>1
  <2>4. CASE Exit
    <3>1. work' = work \o Saves({i \in Id : InSession(i)}, FALSE)
      BY <2>4 DEF Exit
    <3> QED BY <3>1
  <2> QED BY <2>1, <2>2, <2>3, <2>4
<1>4. SameRequests(work, work', id)
  BY <1>3, SavesMade, RequestsStay, QueuesAre
<1> QED BY <1>1, <1>2, <1>4, QuietFlow

LEMMA NativeProgressFlow ==
    ASSUME TypeOK, NEW i \in Id, NativeProgress(i), NEW id \in Id, FlowOf(id)
    PROVE  FlowOf(id)'
<1>1. UNCHANGED <<torrents, loading, hidden, searches, work, phase, alertVars>>
      /\ native[i] # None
      /\ native' = [native EXCEPT ![i] = [native[i] EXCEPT !.progress = native[i].progress + 1, !.needSave = TRUE]]
  BY DEF NativeProgress
<1>2. native \in [Id -> NativeTorrent \union {None}] /\ native[i] \in NativeTorrent
  BY <1>1 DEF TypeOK
<1> DEFINE n == [native[i] EXCEPT !.progress = native[i].progress + 1, !.needSave = TRUE]
<1>3. n.kind = native[i].kind /\ n.info = native[i].info
  BY <1>2 DEF NativeTorrent
<1>4. n \in NativeTorrent
  <2>1. native[i].progress \in Nat
    BY <1>2, NativeIs
  <2>2. native[i].progress + 1 \in Nat
    BY <2>1
  <2> QED BY <1>2, <2>2, NativeIs
<1>5. native' = [native EXCEPT ![i] = n]
  BY <1>1
<1> HIDE DEF n
<1>6. SameNative(id)
  <2>1. n # None
    BY <1>4, NativeIs
  <2>2. CASE i = id
    <3>1. native'[id] = n
      BY <1>2, <1>5, <2>2
    <3> QED BY <1>1, <1>3, <2>1, <2>2, <3>1 DEF SameNative
  <2>3. CASE i # id
    BY <1>2, <1>5, <2>3 DEF SameNative
  <2> QED BY <2>2, <2>3
<1>7. SameState(id)
  BY <1>1, <1>6, SameSessionStays DEF SameState
<1> QED BY <1>1, <1>7, AnswersUnchanged, RequestsStay, QueuesAre, FlowFrame DEF Running

LEMMA ChangeTorrentFlow ==
    ASSUME TypeOK, NEW i \in Id, ChangeTorrent(i), NEW id \in Id, FlowOf(id)
    PROVE  FlowOf(id)'
<1>1. UNCHANGED <<native, loading, hidden, searches, work, phase, alertVars>>
      /\ torrents[i] # None
      /\ torrents' = [torrents EXCEPT ![i] = [torrents[i] EXCEPT !.own = torrents[i].own + 1]]
  BY DEF ChangeTorrent, InSession
<1>2. torrents \in [Id -> TorrentImpl \union {None}] /\ torrents[i] \in TorrentImpl
  BY <1>1 DEF TypeOK
<1> DEFINE t == [torrents[i] EXCEPT !.own = torrents[i].own + 1]
<1>3. t.kind = torrents[i].kind /\ t.info = torrents[i].info /\ t.received = torrents[i].received
  BY <1>2 DEF TorrentImpl
<1>4. t \in TorrentImpl
  <2>1. torrents[i].own \in Nat
    BY <1>2, TorrentIs
  <2>2. torrents[i].own + 1 \in Nat
    BY <2>1
  <2> QED BY <1>2, <2>2, TorrentIs
<1>5. torrents' = [torrents EXCEPT ![i] = t]
  BY <1>1
<1> HIDE DEF t
<1>6. SameTorrent(id)
  <2>1. t # None
    BY <1>4, TorrentIs
  <2>2. CASE i = id
    <3>1. torrents'[id] = t
      BY <1>2, <1>5, <2>2
    <3> QED BY <1>1, <1>3, <2>1, <2>2, <3>1 DEF SameTorrent
  <2>3. CASE i # id
    BY <1>2, <1>5, <2>3 DEF SameTorrent
  <2> QED BY <2>2, <2>3
<1>7. SameState(id)
  BY <1>1, <1>6, SameNativeStays DEF SameState
<1> QED BY <1>1, <1>7, AnswersUnchanged, RequestsStay, QueuesAre, FlowFrame DEF Running

LEMMA NativeMetadataFlow ==
    ASSUME TypeOK, NEW i \in Id, NativeMetadata(i), NEW id \in Id, FlowOf(id)
    PROVE  FlowOf(id)'
<1>1. UNCHANGED <<torrents, loading, hidden, searches, work, phase, adds, batch>>
      /\ native[i] # None /\ ~native[i].info
      /\ native' = [native EXCEPT ![i] = [native[i] EXCEPT !.info = TRUE, !.needSave = TRUE]]
      /\ alerts' = Append(alerts, [is |-> "metadata", id |-> i, kind |-> native[i].kind])
  BY DEF NativeMetadata
<1>2. native \in [Id -> NativeTorrent \union {None}] /\ native[i] \in NativeTorrent
  BY <1>1 DEF TypeOK
<1>3. Running /\ Running' /\ adds = <<>> /\ batch = <<>>
  BY DEF NativeMetadata, Event, Idle, Running
<1> DEFINE n == [native[i] EXCEPT !.info = TRUE, !.needSave = TRUE]
           a == [is |-> "metadata", id |-> i, kind |-> native[i].kind]
<1>4. n.kind = native[i].kind /\ n.info = TRUE
  BY <1>2 DEF NativeTorrent
<1>5. n \in NativeTorrent /\ native[i].kind \in Kinds
  BY <1>2, NativeIs
<1>6. a \in Alert /\ a.is = "metadata" /\ a.id = i /\ a.kind = native[i].kind
  BY <1>5, AlertTypes
<1>7. native' = [native EXCEPT ![i] = n] /\ alerts' = Append(alerts, a)
  BY <1>1
<1> HIDE DEF n, a
<1>8. n # None
  BY <1>5, NativeIs
<1>9. CASE id # i
  <2>1. SameNative(id)
    BY <1>2, <1>7, <1>9 DEF SameNative
  <2>2. SameState(id)
    BY <1>1, <2>1, SameSessionStays DEF SameState
  <2>3. SameAnswers(alerts, alerts', id)
    BY <1>6, <1>7, <1>9, QueuesAre, AnswerMade
  <2> QED BY <1>1, <1>3, <2>2, <2>3, QueuesAre, AnswersStay, RequestsStay, FlowFrame
<1>10. CASE id = i
  <2>1. OwnerInv(id) /\ OnceInv(id) /\ AdditionsInv(id) /\ MetadataInv(id) /\ NativeInv(id)
    BY <1>3 DEF FlowOf
  <2>2. native'[id] = n
    BY <1>2, <1>7, <1>10
  <2>3. a \notin Replies(id) /\ a \notin Accepted(id) /\ a \notin AcceptedHidden(id)
        /\ \A kind \in Kinds : a \in Metadata(id, kind) <=> kind = native[id].kind
    BY <1>6, <1>10, AlertKinds
  <2>4. /\ Has(alerts', Replies(id)) <=> Has(alerts, Replies(id))
        /\ Has(alerts', Accepted(id)) <=> Has(alerts, Accepted(id))
        /\ Has(alerts', AcceptedHidden(id)) <=> Has(alerts, AcceptedHidden(id))
        /\ One(alerts, Replies(id)) => One(alerts', Replies(id))
        /\ \A kind \in Kinds : /\ Has(alerts', Metadata(id, kind)) <=> kind = native[id].kind \/ Has(alerts, Metadata(id, kind))
                               /\ ~Has(alerts, Metadata(id, kind)) => One(alerts', Metadata(id, kind))
    BY <1>6, <1>7, <2>3, QueuesAre, HasAppended
  <2>5. \A kind : ~Has(batch, Metadata(id, kind)) /\ ~Has(batch', Metadata(id, kind)) /\ One(batch', Metadata(id, kind))
    BY <1>1, <1>3, HasNothing
  <2>6. InSession(id)' = InSession(id) /\ HasInfo(id)' = HasInfo(id) /\ Foreign(id)' = Foreign(id)
        /\ Asked(id)' = Asked(id)
    BY <1>1 DEF InSession, HasInfo, Foreign, Asked, AddsIn
  <2>7. (AnsweredOk(id)' <=> AnsweredOk(id)) /\ (Answered(id)' <=> Answered(id)) /\ (InFlight(id)' <=> InFlight(id))
    <3>1. AnsweredOk(id)' <=> AnsweredOk(id)
      BY <1>1, <2>4 DEF AnsweredOk
    <3>2. Answered(id)' <=> Answered(id)
      BY <1>1, <2>4 DEF Answered, AddedIn, Has
    <3> QED BY <2>6, <3>1, <3>2 DEF InFlight
  <2>8. (Owner(id)' <=> Owner(id)) /\ (HiddenOwner(id)' <=> HiddenOwner(id))
    BY <1>1, <1>3, <2>6, <2>7 DEF Owner, HiddenOwner
  <2>9. \A kind \in Kinds : MetadataPending(id, kind)' <=> kind = native[id].kind \/ MetadataPending(id, kind)
    BY <2>4, <2>5 DEF MetadataPending
  <2>10. OwnerInv(id)'
    <3> SUFFICES ASSUME Owner(id) PROVE OwnerInv(id)'
      BY <2>8 DEF OwnerInv
    <3>1. native[id].kind = "own" /\ ~native[id].info
      BY <1>1, <1>10, <2>1 DEF OwnerInv
    <3>2. ~HasInfo(id) /\ ~MetadataPending(id, "own")
      BY <2>1, <3>1 DEF OwnerInv
    <3>3. One(alerts', Metadata(id, "own"))
      BY <2>4, <3>2, KindsAre DEF MetadataPending
    <3>4. MetadataPending(id, "own")'
      BY <2>9, <3>1, KindsAre
    <3> QED BY <1>1, <1>4, <1>8, <1>10, <2>1, <2>2, <2>5, <2>6, <3>1, <3>2, <3>3, <3>4 DEF OwnerInv
  <2>11. OnceInv(id)'
    BY <1>1, <2>1, <2>4, <2>6, <2>7 DEF OnceInv
  <2>12. AdditionsInv(id)'
    BY <1>1, <2>1, <2>4, <2>6, <2>7 DEF AdditionsInv
  <2>13. MetadataInv(id)'
    <3>1. loading[id] # None /\ ~AnsweredOk(id) => native[id].kind = "hidden"
      BY <1>1, <1>5, <1>10, <2>1, KindsAre DEF MetadataInv
    <3>2. ~(hidden[id] = "pending" /\ Asked(id))
      BY <1>1, <1>10, <2>1 DEF MetadataInv
    <3> QED BY <1>1, <1>4, <1>10, <2>1, <2>2, <2>5, <2>6, <2>7, <2>9, <3>1, <3>2, KindsAre DEF MetadataInv
  <2>14. NativeInv(id)'
    BY <1>1, <1>4, <1>8, <1>10, <2>1, <2>2, <2>8 DEF NativeInv
  <2> QED BY <2>10, <2>11, <2>12, <2>13, <2>14 DEF FlowOf
<1> QED BY <1>9, <1>10

-----------------------------------------------------------------------------
LEMMA OneMore ==
    ASSUME NEW w \in Seq(Request), NEW r \in Request
    PROVE  w \o <<r>> = Append(w, r) /\ w \o <<>> = w
OBVIOUS

LEMMA AdditionMade ==
    ASSUME NEW w \in Seq(Request), NEW r \in Request, NEW id \in Id, r.do = "add", r.id = id,
           ~Has(w, Additions(id)), NEW P \in SUBSET Additions(id), r \notin P
    PROVE  /\ Append(w, r) \in Seq(Request)
           /\ \A i \in Id : i # id => SameRequests(w, Append(w, r), i)
           /\ Has(Append(w, r), Additions(id)) /\ One(Append(w, r), Additions(id))
           /\ ~Has(Append(w, r), P)
           /\ \A kind \in Kinds :
                 /\ Has(Append(w, r), Removals(id, kind)) <=> Has(w, Removals(id, kind))
                 /\ Before(w, Removals(id, kind), Additions(id)) => Before(Append(w, r), Removals(id, kind), Additions(id))
<1>1. r \in Additions(id) /\ \A kind \in Kinds : r \notin Removals(id, kind)
  BY RequestKinds
<1>2. ~Has(w, P)
  BY Subsets
<1>3. \A i \in Id : i # id => SameRequests(w, Append(w, r), i)
  BY RequestMade
<1>4. Has(Append(w, r), Additions(id)) /\ One(Append(w, r), Additions(id)) /\ ~Has(Append(w, r), P)
  BY <1>1, <1>2, HasAppended
<1>5. \A kind \in Kinds : Has(Append(w, r), Removals(id, kind)) <=> Has(w, Removals(id, kind))
  BY <1>1, HasAppended
<1>6. \A kind \in Kinds : Before(w, Removals(id, kind), Additions(id)) => Before(Append(w, r), Removals(id, kind), Additions(id))
  BY <1>1, BeforeAppended
<1> QED BY <1>3, <1>4, <1>5, <1>6, RequestsMove

LEMMA RemovalMade ==
    ASSUME NEW w \in Seq(Request), NEW r \in Request, NEW id \in Id, r.do = "remove", r.id = id,
           ~Has(w, Additions(id))
    PROVE  /\ Append(w, r) \in Seq(Request)
           /\ \A i \in Id : i # id => SameRequests(w, Append(w, r), i)
           /\ ~Has(Append(w, r), Additions(id)) /\ One(Append(w, r), Additions(id))
           /\ \A kind \in Kinds :
                 /\ Has(Append(w, r), Removals(id, kind)) <=> kind = r.kind \/ Has(w, Removals(id, kind))
                 /\ Before(w, Removals(id, kind), Additions(id)) => Before(Append(w, r), Removals(id, kind), Additions(id))
<1>1. r \notin Additions(id) /\ \A kind \in Kinds : r \in Removals(id, kind) <=> kind = r.kind
  BY RequestKinds
<1>2. \A i \in Id : i # id => SameRequests(w, Append(w, r), i)
  BY RequestMade
<1>3. ~Has(Append(w, r), Additions(id))
  BY <1>1, HasAppended
<1>4. One(Append(w, r), Additions(id))
  BY <1>3 DEF Has, One, AtMostOne
<1>5. \A kind \in Kinds : Has(Append(w, r), Removals(id, kind)) <=> kind = r.kind \/ Has(w, Removals(id, kind))
  BY <1>1, HasAppended
<1>6. \A kind \in Kinds : Before(w, Removals(id, kind), Additions(id)) => Before(Append(w, r), Removals(id, kind), Additions(id))
  BY <1>1, BeforeAppended
<1> QED BY <1>2, <1>3, <1>4, <1>5, <1>6, RequestsMove

(* A hidden torrent is cancelled when nothing is being added.              *)
LEMMA CancelMade ==
    ASSUME NEW w \in Seq(Request), NEW id \in Id, ~Has(w, Additions(id))
    PROVE  /\ w \o Cancel(id) \in Seq(Request)
           /\ \A i \in Id : i # id => SameRequests(w, w \o Cancel(id), i)
           /\ ~Has(w \o Cancel(id), Additions(id)) /\ One(w \o Cancel(id), Additions(id))
           /\ \A kind \in Kinds :
                 /\ Has(w \o Cancel(id), Removals(id, kind)) <=>
                       (hidden[id] = "handle" /\ kind = "hidden") \/ Has(w, Removals(id, kind))
                 /\ Before(w, Removals(id, kind), Additions(id)) => Before(w \o Cancel(id), Removals(id, kind), Additions(id))
<1> DEFINE r == RemoveNative(id, "hidden")
<1>1. r \in Request /\ r.do = "remove" /\ r.id = id /\ r.kind = "hidden"
  BY RequestTypes, KindsAre
<1>2. Cancel(id) = IF hidden[id] = "handle" THEN <<r>> ELSE <<>>
  BY DEF Cancel
<1> HIDE DEF r
<1>3. CASE hidden[id] = "handle"
  <2>1. w \o Cancel(id) = Append(w, r)
    BY <1>1, <1>2, <1>3, OneMore
  <2> QED BY <1>1, <1>3, <2>1, RemovalMade
<1>4. CASE hidden[id] # "handle"
  <2>1. w \o Cancel(id) = w
    BY <1>1, <1>2, <1>4, OneMore
  <2>2. One(w, Additions(id))
    BY DEF Has, One, AtMostOne
  <2> QED BY <1>4, <2>1, <2>2, RequestsStay
<1> QED BY <1>3, <1>4

(* What is known when the user does something with a torrent.              *)
LEMMA SettledIs ==
    ASSUME TypeOK, NEW id \in Id, FlowOf(id), Event, Settled(id)
    PROVE  /\ Running
           /\ \A kind \in Kinds : ~MetadataPending(id, kind)
           /\ hidden[id] # "pending" /\ searches[id] = 0
           /\ native[id] # None => hidden[id] = "handle" \/ native[id].info
<1>1. Running /\ batch = <<>> /\ (Running' = Running \/ phase' # phase)
  BY DEF Event, Running, Idle
<1>2. \A kind : ~Has(alerts, Metadata(id, kind))
  BY DEF Settled, Has, Positions, Metadata
<1>3. \A kind : ~Has(batch, Metadata(id, kind))
  BY <1>1, HasNothing
<1>4. hidden[id] # "pending" /\ searches[id] = 0 /\ (native[id] # None => hidden[id] = "handle" \/ native[id].info)
  BY DEF Settled
<1> QED BY <1>1, <1>2, <1>3, <1>4 DEF MetadataPending

(* A step of the user about another torrent.                               *)
LEMMA EventOtherFlow ==
    ASSUME TypeOK, NEW id \in Id, FlowOf(id), Event, UNCHANGED <<phase, native, alertVars>>,
           SameTorrent(id), loading'[id] = loading[id], hidden'[id] = hidden[id], searches'[id] = searches[id],
           SameRequests(work, work', id)
    PROVE  FlowOf(id)'
<1>1. SameState(id)
  BY SameNativeStays DEF SameState
<1>2. Running' => Running
  BY DEF Running
<1> QED BY <1>1, <1>2, AnswersUnchanged, FlowFrame

LEMMA AnswersSame ==
    ASSUME NEW id, UNCHANGED alertVars
    PROVE  /\ UNCHANGED <<alerts, adds, batch>>
           /\ Answered(id)' = Answered(id) /\ AnsweredOk(id)' = AnsweredOk(id)
           /\ \A kind : MetadataPending(id, kind)' = MetadataPending(id, kind)
BY DEF alertVars, Answered, AnsweredOk, MetadataPending

LEMMA AddTorrentFlow ==
    ASSUME TypeOK, ~Overlap, NEW j \in Id, AddTorrent(j), NEW id \in Id, FlowOf(id)
    PROVE  FlowOf(id)'
<1>1. /\ Event /\ Settled(j) /\ loading[j] = None /\ ~InSession(j)
      /\ hidden' = [hidden EXCEPT ![j] = "no"]
      /\ UNCHANGED <<phase, torrents, native, alertVars>>
  BY DEF AddTorrent
<1>2. PICK info \in BOOLEAN : \E search \in IF info THEN BOOLEAN ELSE {FALSE} :
          LET data == [own |-> 0, progress |-> 0, info |-> info]
          IN  /\ loading' = [loading EXCEPT ![j] = data]
              /\ searches' = IF search THEN [searches EXCEPT ![j] = @ + 1] ELSE searches
              /\ work' = work \o Cancel(j) \o
                             IF search THEN <<>> ELSE <<AddNative(j, "own", data)>>
  BY DEF AddTorrent
<1>3. PICK search \in BOOLEAN :
          LET data == [own |-> 0, progress |-> 0, info |-> info]
          IN  /\ loading' = [loading EXCEPT ![j] = data]
              /\ searches' = IF search THEN [searches EXCEPT ![j] = @ + 1] ELSE searches
              /\ work' = work \o Cancel(j) \o
                             IF search THEN <<>> ELSE <<AddNative(j, "own", data)>>
  BY <1>2
<1> DEFINE data == [own |-> 0, progress |-> 0, info |-> info]
           r == AddNative(j, "own", data)
           w == work \o Cancel(j)
<1>4. data \in Data /\ data # None
  <2>1. data \in Data
    BY DataIs
  <2> QED BY <2>1, DataIs
<1>5. r \in Request /\ r.do = "add" /\ r.id = j /\ r.kind = "own" /\ r.data = data
  <2> HIDE DEF data
  <2> QED BY <1>4, RequestTypes, KindsAre
<1>6. /\ loading' = [loading EXCEPT ![j] = data]
      /\ searches' = IF search THEN [searches EXCEPT ![j] = searches[j] + 1] ELSE searches
      /\ work' = w \o IF search THEN <<>> ELSE <<r>>
  BY <1>3
<1> HIDE DEF data, r, w
<1>7. searches \in [Id -> Nat] /\ loading \in [Id -> Data \union {None}] /\ hidden \in [Id -> {"no", "pending", "handle"}]
  BY DEF TypeOK
<1>8. CASE id # j
  <2>1. w \in Seq(Request) /\ SameRequests(work, w, id)
    <3>1. CASE hidden[j] = "handle"
      <4>1. RemoveNative(j, "hidden") \in Request /\ RemoveNative(j, "hidden").id = j
        BY RequestTypes, KindsAre
      <4>2. w = Append(work, RemoveNative(j, "hidden"))
        BY <3>1, <4>1, QueuesAre, OneMore DEF w, Cancel
      <4> QED BY <1>8, <4>1, <4>2, QueuesAre, RequestMade, RequestsMove
    <3>2. CASE hidden[j] # "handle"
      <4>1. w = work
        BY <1>5, <3>2, QueuesAre, OneMore DEF w, Cancel
      <4> QED BY <4>1, QueuesAre, RequestsStay
    <3> QED BY <3>1, <3>2
  <2>2. SameRequests(w, work', id)
    <3>1. CASE search
      <4>1. work' = w
        BY <1>5, <1>6, <2>1, <3>1, OneMore
      <4> QED BY <2>1, <4>1, RequestsStay
    <3>2. CASE ~search
      <4>1. work' = Append(w, r)
        BY <1>5, <1>6, <2>1, <3>2, OneMore
      <4> QED BY <1>5, <1>8, <2>1, <4>1, RequestMade
    <3> QED BY <3>1, <3>2
  <2>3. SameRequests(work, work', id)
    BY <2>1, <2>2 DEF SameRequests
  <2>4. /\ loading'[id] = loading[id] /\ hidden'[id] = hidden[id] /\ searches'[id] = searches[id]
        /\ SameTorrent(id)
    BY <1>1, <1>6, <1>7, <1>8 DEF SameTorrent
  <2> QED BY <1>1, <2>3, <2>4, EventOtherFlow
<1>9. CASE id = j
  <2>1. Running /\ Running'
    BY <1>1 DEF Running, Event
  <2>2. OwnerInv(id) /\ OnceInv(id) /\ AdditionsInv(id) /\ MetadataInv(id) /\ NativeInv(id)
    BY <2>1 DEF FlowOf
  <2>3. /\ \A kind \in Kinds : ~MetadataPending(id, kind)
        /\ hidden[id] # "pending" /\ searches[id] = 0
        /\ native[id] # None => hidden[id] = "handle" \/ native[id].info
    BY <1>1, <1>9, SettledIs
  <2>4. ~Asked(id) /\ ~Answered(id) /\ ~Has(work, Additions(id))
    BY <1>1, <1>9, <2>2, <2>3 DEF AdditionsInv, InFlight, Asked, AddsIn, Has
  <2>5. ~AnsweredOk(id) /\ ~Has(alerts, Replies(id)) /\ ~Has(adds, Replies(id))
        /\ ~Has(alerts, AcceptedHidden(id)) /\ ~Has(adds, AcceptedHidden(id))
    BY <2>4, Subsets DEF Answered, AnsweredOk, AddedIn, Has
  <2>6. /\ w \in Seq(Request) /\ ~Has(w, Additions(id)) /\ One(w, Additions(id))
        /\ \A kind \in Kinds :
              /\ Has(w, Removals(id, kind)) <=>
                    (hidden[id] = "handle" /\ kind = "hidden") \/ Has(work, Removals(id, kind))
              /\ Before(w, Removals(id, kind), Additions(id))
    BY <1>9, <2>2, <2>4, QueuesAre, CancelMade DEF w, NativeInv
  <2>7. loading'[id] = data /\ hidden'[id] = "no" /\ searches'[id] = IF search THEN 1 ELSE 0
    BY <1>1, <1>6, <1>7, <1>9, <2>3
  <2>8. /\ Asked(id)' <=> ~search
        /\ One(work', Additions(id)) /\ ~Has(work', Foreign(id)')
        /\ \A kind \in Kinds : /\ Has(work', Removals(id, kind)) <=> Has(w, Removals(id, kind))
                               /\ Before(work', Removals(id, kind), Additions(id))
    <3>1. CASE search
      <4>1. work' = w
        BY <1>5, <1>6, <2>6, <3>1, OneMore
      <4>2. Foreign(id)' \subseteq Additions(id)
        BY DEF Foreign
      <4> QED BY <2>6, <3>1, <4>1, <4>2, Subsets DEF Asked, AddsIn, Has
    <3>2. CASE ~search
      <4>1. work' = Append(w, r)
        BY <1>5, <1>6, <2>6, <3>2, OneMore
      <4>2. Foreign(id)' \in SUBSET Additions(id) /\ r \notin Foreign(id)'
        BY <1>4, <1>5, <2>7 DEF Foreign
      <4>3. /\ Has(work', Additions(id)) /\ One(work', Additions(id)) /\ ~Has(work', Foreign(id)')
            /\ \A kind \in Kinds : /\ Has(work', Removals(id, kind)) <=> Has(w, Removals(id, kind))
                                   /\ Before(work', Removals(id, kind), Additions(id))
        BY <1>5, <1>9, <2>6, <4>1, <4>2, AdditionMade
      <4> QED BY <3>2, <4>3 DEF Asked, AddsIn, Has
    <3> QED BY <3>1, <3>2
  <2>9. UNCHANGED <<alerts, adds, batch>> /\ ~Answered(id)' /\ ~AnsweredOk(id)' /\ ~InSession(id)'
        /\ \A kind \in Kinds : ~MetadataPending(id, kind)'
    BY <1>1, <1>9, <2>3, <2>4, <2>5, AnswersSame DEF InSession
  <2>10. OwnerInv(id)'
    BY <2>9 DEF OwnerInv, Owner
  <2>11. OnceInv(id)'
    BY <2>2, <2>5, <2>8, <2>9 DEF OnceInv
  <2>12. AdditionsInv(id)'
    <3>1. loading'[id] # None /\ hidden'[id] = "no"
      BY <1>4, <2>7
    <3>2. InFlight(id)' <=> ~search
      BY <2>8, <2>9 DEF InFlight
    <3>3. searches'[id] = IF search THEN 1 ELSE 0
      BY <2>7
    <3> QED BY <2>5, <2>8, <2>9, <3>1, <3>2, <3>3 DEF AdditionsInv
  <2>13. native[id].kind = "own" => native[id].info
    BY <2>2, <2>3, KindsAre DEF NativeInv, HiddenOwner
  <2>14. MetadataInv(id)'
    BY <1>1, <2>5, <2>7, <2>9, <2>13, KindsAre DEF MetadataInv
  <2>15. ~Owner(id) /\ ~HiddenOwner(id)'
    BY <1>1, <1>9, <2>7 DEF Owner, HiddenOwner
  <2>16. native[id] # None => native[id].kind \in Kinds
    <3>1. native[id] \in NativeTorrent \union {None}
      BY DEF TypeOK
    <3> QED BY <3>1, NativeIs
  <2>17. native[id] # None => Has(work', Removals(id, native[id].kind))
    BY <2>2, <2>3, <2>5, <2>6, <2>8, <2>15, <2>16 DEF NativeInv, HiddenOwner
  <2>18. NativeInv(id)'
    BY <1>1, <2>8, <2>15, <2>17 DEF NativeInv
  <2> QED BY <2>10, <2>11, <2>12, <2>14, <2>18 DEF FlowOf
<1> QED BY <1>8, <1>9

-----------------------------------------------------------------------------
LEMMA NativeKinds ==
    ASSUME TypeOK, NEW id \in Id
    PROVE  /\ native[id] \in NativeTorrent \union {None}
           /\ native[id] # None => native[id].kind \in Kinds /\ native[id] \in NativeTorrent
<1>1. native[id] \in NativeTorrent \union {None}
  BY DEF TypeOK
<1> QED BY <1>1, NativeIs

LEMMA DownloadMetadataFlow ==
    ASSUME TypeOK, ~Overlap, NEW j \in Id, DownloadMetadata(j), NEW id \in Id, FlowOf(id)
    PROVE  FlowOf(id)'
<1> DEFINE data == [own |-> 0, progress |-> 0, info |-> FALSE]
           r == AddNative(j, "hidden", data)
<1>1. /\ Event /\ Settled(j) /\ loading[j] = None /\ hidden[j] = "no" /\ ~InSession(j)
      /\ hidden' = [hidden EXCEPT ![j] = "pending"]
      /\ work' = Append(work, r)
      /\ UNCHANGED <<phase, torrents, loading, searches, native, alertVars>>
  BY DEF DownloadMetadata
<1>2. data \in Data /\ ~data.info
  BY DataIs
<1>3. r \in Request /\ r.do = "add" /\ r.id = j /\ r.kind = "hidden" /\ r.data = data
  <2> HIDE DEF data
  <2> QED BY <1>2, RequestTypes, KindsAre
<1> HIDE DEF data, r
<1>4. hidden \in [Id -> {"no", "pending", "handle"}]
  BY DEF TypeOK
<1>5. CASE id # j
  <2>1. SameRequests(work, work', id)
    BY <1>1, <1>3, <1>5, QueuesAre, RequestMade
  <2>2. SameTorrent(id) /\ hidden'[id] = hidden[id]
    BY <1>1, <1>4, <1>5 DEF SameTorrent
  <2> QED BY <1>1, <2>1, <2>2, EventOtherFlow
<1>6. CASE id = j
  <2>1. Running /\ Running'
    BY <1>1 DEF Running, Event
  <2>2. OwnerInv(id) /\ OnceInv(id) /\ AdditionsInv(id) /\ MetadataInv(id) /\ NativeInv(id)
    BY <2>1 DEF FlowOf
  <2>3. /\ \A kind \in Kinds : ~MetadataPending(id, kind)
        /\ hidden[id] # "pending" /\ searches[id] = 0
        /\ native[id] # None => native[id].info
    BY <1>1, <1>6, SettledIs
  <2>4. ~Asked(id) /\ ~Answered(id) /\ ~Has(work, Additions(id))
    BY <1>1, <1>6, <2>2, <2>3 DEF AdditionsInv, InFlight, Asked, AddsIn, Has
  <2>5. ~AnsweredOk(id) /\ ~Has(alerts, Replies(id)) /\ ~Has(adds, Replies(id))
    BY <2>4, Subsets DEF Answered, AnsweredOk, AddedIn, Has
  <2>6. hidden'[id] = "pending" /\ loading'[id] = None
    BY <1>1, <1>4, <1>6
  <2>7. Foreign(id)' \in SUBSET Additions(id) /\ r \notin Foreign(id)'
    BY <1>2, <1>3, <2>6 DEF Foreign
  <2>8. /\ Has(work', Additions(id)) /\ One(work', Additions(id)) /\ ~Has(work', Foreign(id)')
        /\ \A kind \in Kinds : /\ Has(work', Removals(id, kind)) <=> Has(work, Removals(id, kind))
                               /\ Before(work', Removals(id, kind), Additions(id))
    BY <1>1, <1>3, <1>6, <2>2, <2>4, <2>7, QueuesAre, AdditionMade DEF NativeInv
  <2>9. Asked(id)' /\ InFlight(id)'
    BY <2>8 DEF Asked, AddsIn, Has, InFlight
  <2>10. UNCHANGED <<alerts, adds, batch>> /\ ~Answered(id)' /\ ~AnsweredOk(id)' /\ ~InSession(id)'
        /\ \A kind \in Kinds : ~MetadataPending(id, kind)'
    BY <1>1, <1>6, <2>3, <2>4, <2>5, AnswersSame DEF InSession
  <2>11. OwnerInv(id)'
    BY <2>10 DEF OwnerInv, Owner
  <2>12. OnceInv(id)'
    BY <2>2, <2>5, <2>8, <2>10 DEF OnceInv
  <2>13. AdditionsInv(id)'
    BY <1>1, <2>3, <2>6, <2>8, <2>9, <2>10 DEF AdditionsInv
  <2>14. MetadataInv(id)'
    BY <1>1, <2>3, <2>5, <2>6, <2>10, KindsAre DEF MetadataInv
  <2>15. ~Owner(id) /\ ~HiddenOwner(id) /\ ~HiddenOwner(id)'
    BY <1>1, <1>6, <2>6, <2>10 DEF Owner, HiddenOwner
  <2>16. native[id] # None => Has(work', Removals(id, native[id].kind))
    BY <2>2, <2>8, <2>15, NativeKinds DEF NativeInv
  <2>17. NativeInv(id)'
    BY <1>1, <2>8, <2>15, <2>16 DEF NativeInv
  <2> QED BY <2>11, <2>12, <2>13, <2>14, <2>17 DEF FlowOf
<1> QED BY <1>5, <1>6

LEMMA CancelDownloadMetadataFlow ==
    ASSUME TypeOK, ~Overlap, NEW j \in Id, CancelDownloadMetadata(j), NEW id \in Id, FlowOf(id)
    PROVE  FlowOf(id)'
<1>1. /\ Event /\ Settled(j) /\ hidden[j] # "no"
      /\ hidden' = [hidden EXCEPT ![j] = "no"]
      /\ work' = work \o Cancel(j)
      /\ UNCHANGED <<phase, torrents, loading, searches, native, alertVars>>
  BY DEF CancelDownloadMetadata
<1>2. hidden \in [Id -> {"no", "pending", "handle"}]
  BY DEF TypeOK
<1>3. hidden[j] = "handle"
  BY <1>1, <1>2 DEF Settled
<1> DEFINE r == RemoveNative(j, "hidden")
<1>4. r \in Request /\ r.do = "remove" /\ r.id = j /\ r.kind = "hidden"
  BY RequestTypes, KindsAre
<1>5. work' = Append(work, r)
  BY <1>1, <1>3, <1>4, QueuesAre, OneMore DEF Cancel
<1> HIDE DEF r
<1>6. CASE id # j
  <2>1. SameRequests(work, work', id)
    BY <1>4, <1>5, <1>6, QueuesAre, RequestMade
  <2>2. SameTorrent(id) /\ hidden'[id] = hidden[id]
    BY <1>1, <1>2, <1>6 DEF SameTorrent
  <2> QED BY <1>1, <2>1, <2>2, EventOtherFlow
<1>7. CASE id = j
  <2>1. Running /\ Running'
    BY <1>1 DEF Running, Event
  <2>2. OwnerInv(id) /\ OnceInv(id) /\ AdditionsInv(id) /\ MetadataInv(id) /\ NativeInv(id)
    BY <2>1 DEF FlowOf
  <2>3. loading[id] = None /\ ~InSession(id)
    BY <1>3, <1>7, <2>2 DEF AdditionsInv
  <2>4. ~Asked(id) /\ ~Answered(id) /\ ~Has(work, Additions(id))
    BY <1>3, <1>7, <2>2, <2>3 DEF AdditionsInv, InFlight, Asked, AddsIn, Has
  <2>5. hidden'[id] = "no" /\ loading'[id] = None
    BY <1>1, <1>2, <1>7, <2>3
  <2>6. /\ ~Has(work', Additions(id)) /\ One(work', Additions(id))
        /\ \A kind \in Kinds : /\ Has(work', Removals(id, kind)) <=> kind = "hidden" \/ Has(work, Removals(id, kind))
                               /\ Before(work', Removals(id, kind), Additions(id))
    BY <1>4, <1>5, <1>7, <2>2, <2>4, QueuesAre, RemovalMade DEF NativeInv
  <2>7. UNCHANGED <<alerts, adds, batch>> /\ ~Answered(id)' /\ ~InSession(id)' /\ Foreign(id)' = Foreign(id)
    BY <1>1, <1>7, <2>3, <2>4, AnswersSame DEF InSession, Foreign
  <2>8. ~Asked(id)' /\ ~InFlight(id)'
    BY <2>6, <2>7 DEF Asked, AddsIn, Has, InFlight
  <2>9. OwnerInv(id)'
    BY <2>5, <2>7 DEF OwnerInv, Owner
  <2>10. OnceInv(id)'
    BY <2>2, <2>6, <2>7, <2>8 DEF OnceInv
  <2>11. AdditionsInv(id)'
    BY <2>5, <2>6, <2>7, <2>8, Subsets DEF AdditionsInv
  <2>12. MetadataInv(id)'
    BY <2>5 DEF MetadataInv
  <2>13. native[id] # None => Has(work', Removals(id, native[id].kind))
    <3>1. HiddenOwner(id) /\ ~Owner(id)
      BY <1>3, <1>7, <2>3 DEF HiddenOwner, Owner
    <3> QED BY <2>2, <2>6, <3>1, KindsAre DEF NativeInv
  <2>14. NativeInv(id)'
    BY <1>1, <2>5, <2>6, <2>13 DEF NativeInv, HiddenOwner
  <2> QED BY <2>9, <2>10, <2>11, <2>12, <2>14 DEF FlowOf
<1> QED BY <1>6, <1>7

LEMMA DeleteTorrentFlow ==
    ASSUME TypeOK, NEW j \in Id, DeleteTorrent(j), NEW id \in Id, \A i \in Id : FlowOf(i)
    PROVE  FlowOf(id)'
<1> DEFINE r == RemoveNative(j, torrents[j].kind)
<1>1. /\ Event /\ InSession(j)
      /\ torrents' = [torrents EXCEPT ![j] = None]
      /\ work' = Append(work, r)
      /\ UNCHANGED <<phase, loading, hidden, searches, native, alertVars>>
  BY DEF DeleteTorrent
<1>2. torrents \in [Id -> TorrentImpl \union {None}]
  BY DEF TypeOK
<1>3. torrents[j].kind = "own"
  BY <1>1 DEF FlowOf, OwnerInv, Owner
<1>4. r \in Request /\ r.do = "remove" /\ r.id = j /\ r.kind = "own"
  BY <1>3, RequestTypes, KindsAre
<1> HIDE DEF r
<1>5. CASE id # j
  <2>1. SameRequests(work, work', id)
    BY <1>1, <1>4, <1>5, QueuesAre, RequestMade
  <2>2. SameTorrent(id)
    BY <1>1, <1>2, <1>5 DEF SameTorrent
  <2> QED BY <1>1, <2>1, <2>2, EventOtherFlow
<1>6. CASE id = j
  <2>1. Running /\ Running'
    BY <1>1 DEF Running, Event
  <2>2. OwnerInv(id) /\ OnceInv(id) /\ AdditionsInv(id) /\ MetadataInv(id) /\ NativeInv(id)
    BY <2>1 DEF FlowOf
  <2>3. loading[id] = None /\ hidden[id] = "no"
    BY <1>1, <1>6, <2>2 DEF AdditionsInv
  <2>4. ~Asked(id) /\ ~Answered(id) /\ ~Has(work, Additions(id))
    BY <2>2, <2>3 DEF AdditionsInv, InFlight, Asked, AddsIn, Has
  <2>5. torrents'[id] = None /\ hidden'[id] = "no" /\ loading'[id] = None
    BY <1>1, <1>2, <1>6, <2>3
  <2>6. /\ ~Has(work', Additions(id)) /\ One(work', Additions(id))
        /\ \A kind \in Kinds : /\ Has(work', Removals(id, kind)) <=> kind = "own" \/ Has(work, Removals(id, kind))
                               /\ Before(work', Removals(id, kind), Additions(id))
    BY <1>1, <1>4, <1>6, <2>2, <2>4, QueuesAre, RemovalMade DEF NativeInv
  <2>7. UNCHANGED <<alerts, adds, batch>> /\ ~Answered(id)' /\ ~InSession(id)' /\ Foreign(id)' = Foreign(id)
    BY <1>1, <2>4, <2>5, AnswersSame DEF InSession, Foreign
  <2>8. ~Asked(id)' /\ ~InFlight(id)'
    BY <2>6, <2>7 DEF Asked, AddsIn, Has, InFlight
  <2>9. OwnerInv(id)'
    BY <2>5, <2>7 DEF OwnerInv, Owner
  <2>10. OnceInv(id)'
    BY <2>2, <2>6, <2>7, <2>8 DEF OnceInv
  <2>11. AdditionsInv(id)'
    BY <2>5, <2>6, <2>7, <2>8, Subsets DEF AdditionsInv
  <2>12. MetadataInv(id)'
    BY <2>5 DEF MetadataInv
  <2>13. native[id].kind = "own"
    BY <1>1, <1>6, <2>2 DEF OwnerInv, Owner
  <2>14. Has(work', Removals(id, native[id].kind)) /\ native' = native
    BY <1>1, <2>6, <2>13, KindsAre
  <2>15. ~HiddenOwner(id)'
    BY <2>5 DEF HiddenOwner
  <2>16. NativeInv(id)'
    BY <2>6, <2>14, <2>15 DEF NativeInv
  <2> QED BY <2>9, <2>10, <2>11, <2>12, <2>16 DEF FlowOf
<1> QED BY <1>5, <1>6

LEMMA SearchFinishedFlow ==
    ASSUME TypeOK, NEW j \in Id, SearchFinished(j), NEW id \in Id, \A i \in Id : FlowOf(i)
    PROVE  FlowOf(id)'
<1>1. /\ phase = "restored" /\ searches[j] > 0
      /\ searches' = [searches EXCEPT ![j] = searches[j] - 1]
      /\ UNCHANGED <<phase, loading, hidden, alertVars>>
  BY DEF SearchFinished
<1>2. Running /\ Running'
  BY <1>1 DEF Running
<1>3. /\ torrents \in [Id -> TorrentImpl \union {None}] /\ searches \in [Id -> Nat]
      /\ native \in [Id -> NativeTorrent \union {None}] /\ loading \in [Id -> Data \union {None}]
  BY DEF TypeOK
<1>4. \A i \in Id : OwnerInv(i) /\ OnceInv(i) /\ AdditionsInv(i) /\ MetadataInv(i) /\ NativeInv(i)
  BY <1>2 DEF FlowOf
<1>5. FlowOf(id)
  OBVIOUS
<1>6. ~InFlight(j) /\ ~Asked(j) /\ ~Answered(j) /\ ~Has(work, Additions(j))
  BY <1>1, <1>4 DEF AdditionsInv, InFlight, Asked, AddsIn, Has
<1>7. UNCHANGED <<alerts, adds, batch>> /\ Answered(id)' = Answered(id) /\ AnsweredOk(id)' = AnsweredOk(id)
      /\ \A kind : MetadataPending(id, kind)' = MetadataPending(id, kind)
  BY <1>1, AnswersSame
<1>8. CASE InSession(j) /\ torrents[j].received
  <2> DEFINE t == [torrents[j] EXCEPT !.received = FALSE, !.info = TRUE]
             n == [native[j] EXCEPT !.needSave = TRUE]
  <2>1. /\ torrents' = [torrents EXCEPT ![j] = t]
        /\ native' = [native EXCEPT ![j] = n]
        /\ UNCHANGED work
    BY <1>8 DEF SearchFinished
  <2>2. native[j] \in NativeTorrent /\ torrents[j] \in TorrentImpl
    <3>1. Owner(j)
      BY <1>8 DEF Owner
    <3> QED BY <1>3, <1>4, <1>8, <3>1 DEF OwnerInv, InSession
  <2>3. t.kind = torrents[j].kind /\ t.info = TRUE /\ t.received = FALSE
    BY <2>2 DEF TorrentImpl
  <2>4. n.kind = native[j].kind /\ n.info = native[j].info
    BY <2>2 DEF NativeTorrent
  <2>5. t # None /\ n # None
    <3>1. t \in TorrentImpl
      BY <2>2, TorrentIs
    <3>2. n \in NativeTorrent
      BY <2>2, NativeIs
    <3> HIDE DEF t, n
    <3> QED BY <3>1, <3>2, TorrentIs, NativeIs
  <2> HIDE DEF t, n
  <2>6. SameNative(id)
    <3>1. CASE id = j
      <4>1. native'[id] = n
        BY <1>3, <2>1, <3>1
      <4>2. native[id] # None
        BY <2>2, <3>1, NativeIs
      <4> QED BY <2>4, <2>5, <3>1, <4>1, <4>2 DEF SameNative
    <3>2. CASE id # j
      BY <1>3, <2>1, <3>2 DEF SameNative
    <3> QED BY <3>1, <3>2
  <2>7. CASE id # j
    <3>1. SameTorrent(id) /\ searches'[id] = searches[id]
      BY <1>1, <1>3, <2>1, <2>7 DEF SameTorrent
    <3>2. SameState(id)
      BY <1>1, <2>6, <3>1 DEF SameState
    <3> QED BY <1>1, <1>2, <1>5, <2>1, <3>2, QueuesAre, RequestsStay, AnswersUnchanged, FlowFrame
  <2>8. CASE id = j
    <3>1. torrents'[id] = t /\ searches'[id] = searches[id] - 1 /\ searches[id] > 0 /\ searches[id] \in Nat
      BY <1>1, <1>3, <2>1, <2>8
    <3>2. InSession(id) /\ InSession(id)' /\ HasInfo(id) /\ HasInfo(id)'
      BY <1>8, <2>3, <2>5, <2>8, <3>1 DEF InSession, HasInfo
    <3>3. Foreign(id)' = Foreign(id) /\ Asked(id)' = Asked(id) /\ HiddenOwner(id)' = HiddenOwner(id)
      BY <1>1, <1>7, <2>1 DEF Foreign, Asked, AddsIn, HiddenOwner
    <3>4. Owner(id) /\ Owner(id)' /\ ~InFlight(id)'
      BY <1>6, <1>7, <2>8, <3>2, <3>3 DEF Owner, InFlight
    <3>5. OwnerInv(id)'
      BY <1>4, <1>7, <2>1, <2>3, <2>6, <2>8, <3>1, <3>2, <3>4 DEF OwnerInv, SameNative
    <3>6. OnceInv(id)'
      BY <1>4, <1>7, <2>1, <3>3 DEF OnceInv
    <3>7. loading[id] = None /\ hidden[id] = "no"
      BY <1>4, <3>2 DEF AdditionsInv
    <3>8. AdditionsInv(id)'
      BY <1>1, <1>4, <2>1, <3>2, <3>3, <3>4, <3>7 DEF AdditionsInv
    <3>9. MetadataInv(id)'
      BY <1>1, <3>7 DEF MetadataInv
    <3>10. NativeInv(id)'
      BY <1>4, <2>1, <2>6, <3>3, <3>4 DEF NativeInv, SameNative
    <3> QED BY <3>5, <3>6, <3>8, <3>9, <3>10 DEF FlowOf
  <2> QED BY <2>7, <2>8
<1>9. CASE ~(InSession(j) /\ torrents[j].received)
  <2>1. /\ work' = IF InSession(j) \/ loading[j] = None THEN work
                   ELSE Append(work, AddNative(j, "own", loading[j]))
        /\ UNCHANGED <<torrents, native>>
    BY <1>9 DEF SearchFinished
  <2> DEFINE r == AddNative(j, "own", loading[j])
  <2>2. loading[j] # None => r \in Request /\ r.do = "add" /\ r.id = j /\ r.kind = "own" /\ r.data = loading[j]
    <3>1. loading[j] # None => loading[j] \in Data
      BY <1>3
    <3> QED BY <3>1, RequestTypes, KindsAre
  <2>3. work' = IF InSession(j) \/ loading[j] = None THEN work ELSE Append(work, r)
    BY <2>1
  <2> HIDE DEF r
  <2>4. CASE id # j
    <3>1. SameRequests(work, work', id)
      BY <2>2, <2>3, <2>4, QueuesAre, RequestsStay, RequestMade
    <3>2. searches'[id] = searches[id]
      BY <1>1, <1>3, <2>4
    <3>3. SameState(id)
      BY <1>1, <2>1, <3>2, SameNativeStays DEF SameState, SameTorrent
    <3> QED BY <1>1, <1>2, <1>5, <3>1, <3>3, AnswersUnchanged, FlowFrame
  <2>5. CASE id = j
    <3>1. searches'[id] = searches[id] - 1 /\ searches[id] > 0 /\ searches[id] \in Nat
      BY <1>1, <1>3, <2>5
    <3>2. /\ InSession(id)' = InSession(id) /\ HasInfo(id)' = HasInfo(id) /\ Owner(id)' = Owner(id)
          /\ HiddenOwner(id)' = HiddenOwner(id) /\ Foreign(id)' = Foreign(id)
      BY <1>1, <1>2, <1>7, <2>1 DEF InSession, HasInfo, Owner, HiddenOwner, Foreign
    <3>3. ~Answered(id) /\ ~Answered(id)' /\ ~Asked(id) /\ ~Has(work, Additions(id))
      BY <1>6, <1>7, <2>5
    <3>4. CASE InSession(j) \/ loading[j] = None
      <4>1. work' = work
        BY <2>1, <3>4
      <4>2. ~Asked(id)' /\ ~InFlight(id)'
        BY <3>3, <4>1 DEF Asked, AddsIn, InFlight
      <4>3. OwnerInv(id)'
        BY <1>4, <1>7, <2>1, <3>1, <3>2, <4>1 DEF OwnerInv
      <4>4. OnceInv(id)'
        BY <1>4, <1>7, <4>1, <4>2 DEF OnceInv
      <4>5. loading[id] = None /\ hidden[id] # "pending"
        BY <1>4, <1>6, <2>5, <3>4 DEF AdditionsInv
      <4>6. AdditionsInv(id)'
        BY <1>1, <1>4, <3>2, <4>1, <4>2, <4>5 DEF AdditionsInv
      <4>7. MetadataInv(id)'
        BY <1>1, <4>5 DEF MetadataInv
      <4>8. NativeInv(id)'
        BY <1>4, <2>1, <3>2, <4>1 DEF NativeInv
      <4> QED BY <4>3, <4>4, <4>6, <4>7, <4>8 DEF FlowOf
    <3>5. CASE ~(InSession(j) \/ loading[j] = None)
      <4>1. work' = Append(work, r)
        BY <2>3, <3>5
      <4>2. loading[id] # None /\ ~InSession(id) /\ hidden[id] = "no" /\ searches[id] = 1
        BY <1>4, <1>6, <2>5, <3>5 DEF AdditionsInv
      <4>3. searches'[id] = 0
        BY <3>1, <4>2
      <4>4. Foreign(id) \in SUBSET Additions(id) /\ r \notin Foreign(id)
        BY <2>2, <2>5, <4>2 DEF Foreign
      <4>5. /\ Has(work', Additions(id)) /\ One(work', Additions(id)) /\ ~Has(work', Foreign(id))
            /\ \A kind \in Kinds : /\ Has(work', Removals(id, kind)) <=> Has(work, Removals(id, kind))
                                   /\ Before(work', Removals(id, kind), Additions(id))
        BY <1>4, <2>2, <2>5, <3>3, <4>1, <4>2, <4>4, QueuesAre, AdditionMade DEF NativeInv
      <4>6. Asked(id)' /\ InFlight(id)'
        BY <4>5 DEF Asked, AddsIn, Has, InFlight
      <4>7. ~Has(alerts, Replies(id)) /\ ~Has(adds, Replies(id)) /\ ~AnsweredOk(id)
        BY <3>3, Subsets DEF Answered, AnsweredOk, AddedIn, Has
      <4>8. ~Owner(id) /\ OwnerInv(id)'
        BY <3>2, <4>2, <4>7 DEF OwnerInv, Owner
      <4>9. OnceInv(id)'
        BY <1>4, <1>7, <3>3, <4>5, <4>7 DEF OnceInv
      <4>10. AdditionsInv(id)'
        BY <1>1, <1>4, <1>7, <3>2, <4>2, <4>3, <4>5, <4>6 DEF AdditionsInv
      <4>11. MetadataInv(id)'
        BY <1>1, <1>4, <1>7, <2>1, <4>2, <4>7 DEF MetadataInv
      <4>12. NativeInv(id)'
        BY <1>4, <2>1, <3>2, <4>5, <4>8, NativeKinds, KindsAre DEF NativeInv
      <4> QED BY <4>8, <4>9, <4>10, <4>11, <4>12 DEF FlowOf
    <3> QED BY <3>4, <3>5
  <2> QED BY <2>4, <2>5
<1> QED BY <1>8, <1>9

-----------------------------------------------------------------------------
(* The loaded torrents are given to libtorrent.                            *)
LEMMA HandleLoadedFlow ==
    ASSUME TypeOK, StartupInv, HandleLoadedResumeData, NEW id \in Id, FlowOf(id)
    PROVE  FlowOf(id)'
<1> DEFINE t == LoadedRequests
<1>1. /\ phase = "startup" /\ phase' \in {phase, "restored"}
      /\ loading' = [i \in Id |-> IF i \in ToSet(SubSeq(loaded, 1, Taken)) THEN stored[i] ELSE loading[i]]
      /\ work' = work \o LoadedRequests
      /\ UNCHANGED <<torrents, hidden, searches, native, alertVars>>
  BY DEF HandleLoadedResumeData, LoadedRequests
<1>2. Running /\ Running'
  BY <1>1 DEF Running
<1>3. OnlyAdditions /\ LoadedOnce /\ \A i \in Id : Starting(i)
  BY <1>1 DEF StartupInv
<1>4. \A i \in Id : InLoaded(i) => stored[i] # NoData
  BY <1>3 DEF Starting, UnreadInv, Unread
<1>5. /\ t \in Seq(Request) /\ DOMAIN t = 1 .. Taken
      /\ \A i \in 1 .. Taken :
            /\ t[i].do = "add" /\ t[i].id = loaded[i]
            /\ t[i].kind = "own" /\ t[i].data = stored[loaded[i]]
  BY <1>4, LoadedRequestsAre
<1>6. \A i \in 1 .. Taken : SubSeq(loaded, 1, Taken)[i] = loaded[i] /\ i \in DOMAIN loaded
  BY TakenAre
<1>7. DOMAIN SubSeq(loaded, 1, Taken) = 1 .. Taken
  BY TakenAre
<1>8. id \in ToSet(SubSeq(loaded, 1, Taken)) <=> \E i \in 1 .. Taken : loaded[i] = id
  BY <1>6, <1>7 DEF ToSet
<1>9. work' = work \o t
  BY <1>1
<1> HIDE DEF t
<1>10. OwnerInv(id) /\ OnceInv(id) /\ AdditionsInv(id) /\ MetadataInv(id) /\ NativeInv(id)
  BY <1>2 DEF FlowOf
<1>11. CASE ~(\E i \in 1 .. Taken : loaded[i] = id)
  <2>1. \A i \in DOMAIN t : ~(t[i].do \in {"add", "remove"} /\ t[i].id = id)
    BY <1>5, <1>11
  <2>2. SameRequests(work, work', id)
    BY <1>5, <1>9, <2>1, QueuesAre, RequestsMade
  <2>3. loading'[id] = loading[id]
    BY <1>1, <1>8, <1>11
  <2>4. SameState(id)
    BY <1>1, <2>3, SameNativeStays DEF SameState, SameTorrent
  <2> QED BY <1>1, <1>2, <2>2, <2>4, AnswersUnchanged, FlowFrame
<1>12. CASE \E i \in 1 .. Taken : loaded[i] = id
  <2>1. PICK k \in 1 .. Taken : loaded[k] = id
    BY <1>12
  <2>2. InLoaded(id) /\ Unread(id)
    BY <1>6, <2>1 DEF InLoaded, Unread
  <2>3. /\ native[id] = None /\ loading[id] = None /\ ~InSession(id) /\ stored[id] # NoData /\ ~Asked(id)
        /\ hidden[id] = "no" /\ searches[id] = 0
    BY <1>3, <2>2 DEF Starting, UnreadInv, RestoredAsStored
  <2>4. loading'[id] = stored[id] /\ stored[id] # None
    <3>1. stored[id] \in Data
      BY <2>3 DEF TypeOK
    <3> QED BY <1>1, <1>8, <1>12, <3>1, DataIs
  <2>5. ~Answered(id)
    BY <1>10, <2>3 DEF AdditionsInv, InFlight
  <2>6. ~Has(work, Additions(id)) /\ ~Has(alerts, Replies(id)) /\ ~Has(adds, Replies(id)) /\ ~AnsweredOk(id)
        /\ ~Has(alerts, AcceptedHidden(id)) /\ ~Has(adds, AcceptedHidden(id))
    BY <2>3, <2>5, Subsets DEF Asked, AddsIn, Answered, AnsweredOk, AddedIn, Has
  <2>7. \A i \in 1 .. Taken : t[i] \in Request
    BY <1>5, Elements
  <2>8. Has(t, Additions(id))
    BY <1>5, <2>1, <2>7 DEF Has, Positions, Additions
  <2>9. One(t, Additions(id))
    <3> SUFFICES ASSUME NEW i \in Positions(t, Additions(id)), NEW j \in Positions(t, Additions(id))
                 PROVE  i = j
      BY DEF One, AtMostOne
    <3>1. i \in 1 .. Taken /\ j \in 1 .. Taken /\ t[i].id = id /\ t[j].id = id
      BY <1>5 DEF Positions, Additions
    <3> QED BY <1>3, <1>5, <1>6, <3>1 DEF LoadedOnce
  <2>10. One(work', Additions(id)) /\ Has(work', Additions(id))
    <3>1. Positions(work, Additions(id)) = {}
      BY <2>6 DEF Has
    <3>2. \A i \in Positions(work', Additions(id)) :
             i - Len(work) \in Positions(t, Additions(id)) /\ i \in Int
      BY <1>5, <1>9, <3>1, QueuesAre, PositionsJoined
    <3>3. Len(work) \in Nat
      BY QueuesAre, Elements
    <3>4. ASSUME NEW i \in Positions(work', Additions(id)), NEW j \in Positions(work', Additions(id))
          PROVE  i = j
      <4>1. i - Len(work) = j - Len(work)
        BY <2>9, <3>2 DEF One, AtMostOne
      <4> QED BY <3>2, <3>3, <4>1
    <3>5. Has(work', Additions(id))
      BY <1>5, <1>9, <2>8, QueuesAre, HasJoined
    <3> QED BY <3>4, <3>5 DEF One, AtMostOne
  <2>11. ~Has(work', Foreign(id)')
    <3>1. ~Has(work, Foreign(id)')
      <4>1. Foreign(id)' \subseteq Additions(id)
        BY DEF Foreign
      <4> QED BY <2>6, <4>1, Subsets
    <3>2. ~Has(t, Foreign(id)')
      <4>1. \A i \in DOMAIN t : t[i] \notin Foreign(id)'
        BY <1>5, <2>4 DEF Foreign, Additions
      <4> QED BY <1>5, <4>1, HasAny
    <3> QED BY <1>5, <1>9, <3>1, <3>2, QueuesAre, HasJoined
  <2>12. \A kind \in Kinds : ~Has(work', Removals(id, kind))
    <3> SUFFICES ASSUME NEW kind \in Kinds PROVE ~Has(work', Removals(id, kind))
      OBVIOUS
    <3>1. ~Has(work, Removals(id, kind))
      BY <1>3 DEF OnlyAdditions, Has, Positions, Removals
    <3>2. \A i \in DOMAIN t : t[i] \notin Removals(id, kind)
      BY <1>5 DEF Removals
    <3>3. ~Has(t, Removals(id, kind))
      BY <1>5, <3>2, HasAny
    <3> QED BY <1>5, <1>9, <3>1, <3>3, QueuesAre, HasJoined
  <2>13. \A kind \in Kinds : ~MetadataPending(id, kind)
    BY <1>3 DEF OnlyAdditions, MetadataPending, Has, Positions, Metadata
  <2>14. UNCHANGED <<alerts, adds, batch>> /\ ~Answered(id)' /\ ~AnsweredOk(id)' /\ ~InSession(id)'
         /\ \A kind \in Kinds : ~MetadataPending(id, kind)'
    BY <1>1, <2>3, <2>5, <2>6, <2>13, AnswersSame DEF InSession
  <2>15. Asked(id)' /\ InFlight(id)'
    BY <2>10 DEF Asked, AddsIn, Has, InFlight
  <2>16. OwnerInv(id)'
    BY <2>14 DEF OwnerInv, Owner
  <2>17. OnceInv(id)'
    BY <1>10, <2>6, <2>10, <2>14 DEF OnceInv
  <2>18. AdditionsInv(id)'
    BY <1>1, <2>3, <2>4, <2>6, <2>11, <2>14, <2>15 DEF AdditionsInv
  <2>19. MetadataInv(id)'
    BY <1>1, <2>3, <2>6, <2>14, KindsAre DEF MetadataInv
  <2>20. NativeInv(id)'
    BY <1>1, <2>3, <2>12, KindsAre DEF NativeInv, HiddenOwner, Before, Has
  <2> QED BY <2>16, <2>17, <2>18, <2>19, <2>20 DEF FlowOf
<1> QED BY <1>11, <1>12

(* All answers are taken; the session that exits has no use for additions. *)
LEMMA ReadAlertsFlow ==
    ASSUME TypeOK, ReadAlerts, NEW id \in Id, FlowOf(id)
    PROVE  FlowOf(id)'
<1>1. /\ adds = <<>> /\ batch = <<>> /\ alerts' = <<>> /\ batch' = alerts
      /\ phase # "exiting" => adds' = alerts
      /\ UNCHANGED <<phase, torrents, loading, hidden, searches, native, work>>
  BY DEF ReadAlerts, Idle
<1>2. \A P : ~Has(adds, P) /\ ~Has(batch, P) /\ ~Has(alerts', P) /\ One(alerts', P)
  BY <1>1, HasNothing
<1>3. /\ InSession(id)' = InSession(id) /\ HasInfo(id)' = HasInfo(id) /\ Running' = Running
      /\ Asked(id)' = Asked(id) /\ Foreign(id)' = Foreign(id)
  BY <1>1 DEF InSession, HasInfo, Running, Asked, AddsIn, Foreign
<1>4. \A kind \in Kinds : MetadataPending(id, kind)' <=> MetadataPending(id, kind)
  BY <1>1, <1>2 DEF MetadataPending
<1>5. CASE ~Running
  <2>1. Owner(id)' <=> Owner(id)
    BY <1>3, <1>5 DEF Owner
  <2>2. OwnerInv(id)'
    BY <1>1, <1>2, <1>3, <1>4, <2>1, KindsAre DEF FlowOf, OwnerInv
  <2> QED BY <1>3, <1>5, <2>2 DEF FlowOf
<1>6. CASE Running
  <2>1. adds' = alerts
    BY <1>1, <1>6 DEF Running
  <2>2. OwnerInv(id) /\ OnceInv(id) /\ AdditionsInv(id) /\ MetadataInv(id) /\ NativeInv(id)
    BY <1>6 DEF FlowOf
  <2>3. (AnsweredOk(id)' <=> AnsweredOk(id)) /\ (Answered(id)' <=> Answered(id))
    BY <1>1, <1>2, <2>1 DEF AnsweredOk, Answered, AddedIn, Has
  <2>4. (InFlight(id)' <=> InFlight(id)) /\ (Owner(id)' <=> Owner(id)) /\ (HiddenOwner(id)' <=> HiddenOwner(id))
    BY <1>1, <1>3, <2>3 DEF InFlight, Owner, HiddenOwner
  <2>5. OwnerInv(id)'
    BY <1>1, <1>2, <1>3, <1>4, <2>2, <2>4, KindsAre DEF OwnerInv
  <2>6. OnceInv(id)'
    BY <1>1, <1>2, <1>3, <2>1, <2>2, <2>3 DEF OnceInv
  <2>7. AdditionsInv(id)'
    BY <1>1, <1>2, <1>3, <2>1, <2>2, <2>4 DEF AdditionsInv
  <2>8. MetadataInv(id)'
    BY <1>1, <1>2, <1>3, <1>4, <2>2, <2>3, KindsAre DEF MetadataInv
  <2>9. NativeInv(id)'
    BY <1>1, <2>2, <2>4 DEF NativeInv
  <2> QED BY <2>5, <2>6, <2>7, <2>8, <2>9 DEF FlowOf
<1> QED BY <1>5, <1>6

-----------------------------------------------------------------------------
LEMMA RepliesTaken ==
    ASSUME NEW s \in Seq(Alert), s # <<>>, NEW id, ~(Head(s).is = "added" /\ Head(s).id = id)
    PROVE  SameReplies(s, Tail(s), id)
<1>1. Head(s) \notin Replies(id)
  BY DEF Replies
<1>2. \A P \in SUBSET Replies(id) : Has(Tail(s), P) <=> Has(s, P)
  BY <1>1, HasRest
<1> QED BY <1>2, HasRest DEF SameReplies

LEMMA MetadataTaken ==
    ASSUME NEW s \in Seq(Alert), s # <<>>, NEW id, ~(Head(s).is = "metadata" /\ Head(s).id = id)
    PROVE  SameMetadata(s, Tail(s), id)
<1>1. \A kind \in Kinds : Head(s) \notin Metadata(id, kind)
  BY DEF Metadata
<1>2. \A kind \in Kinds : /\ Has(Tail(s), Metadata(id, kind)) <=> Has(s, Metadata(id, kind))
                          /\ One(s, Metadata(id, kind)) => One(Tail(s), Metadata(id, kind))
  BY <1>1, HasRest
<1> QED BY <1>2 DEF SameMetadata

LEMMA HandleAddedFlow ==
    ASSUME TypeOK, HandleAdded, Running, NEW id \in Id, FlowOf(id)
    PROVE  FlowOf(id)'
<1> DEFINE a == Head(adds)
<1>1. /\ adds # <<>> /\ adds' = Tail(adds)
      /\ OnAdded(a) \/ OnOther(a)
      /\ UNCHANGED <<phase, searches, native, alerts, batch>>
  BY DEF HandleAdded
<1>2. a \in Alert /\ adds \in Seq(Alert) /\ Tail(adds) \in Seq(Alert) /\ a.id \in Id
  BY <1>1, QueuesAre, AlertsMove, AlertParts
<1>3. Running' = Running
  BY <1>1 DEF Running
<1>4. SameAnswers(alerts, alerts', id) /\ SameMetadata(batch, batch', id)
  BY <1>1, QueuesAre, AnswersStay DEF SameAnswers
<1>5. OwnerInv(id) /\ OnceInv(id) /\ AdditionsInv(id) /\ MetadataInv(id) /\ NativeInv(id)
  BY DEF FlowOf
<1> DEFINE r == SaveNative(a.id, TRUE)
<1>6. r \in Request /\ r.do = "save"
  BY <1>2, RequestTypes
<1>7. /\ work' \in {work, Append(work, r)}
      /\ torrents' \in {torrents, [torrents EXCEPT ![a.id] =
                                      [kind |-> a.kind, own |-> loading[a.id].own,
                                       info |-> loading[a.id].info, received |-> FALSE]]}
      /\ loading' \in {loading, [loading EXCEPT ![a.id] = None]}
      /\ hidden' \in {hidden, [hidden EXCEPT ![a.id] = IF a.ok THEN "handle" ELSE "no"]}
  <2> HIDE DEF a
  <2>1. CASE OnAdded(a)
    <3>1. work' \in {work, Append(work, r)}
      BY <2>1 DEF OnAdded, CreateTorrent
    <3>2. torrents' \in {torrents, [torrents EXCEPT ![a.id] =
                                      [kind |-> a.kind, own |-> loading[a.id].own,
                                       info |-> loading[a.id].info, received |-> FALSE]]}
      BY <2>1, Zenon DEF OnAdded, CreateTorrent
    <3>3. /\ loading' \in {loading, [loading EXCEPT ![a.id] = None]}
          /\ hidden' \in {hidden, [hidden EXCEPT ![a.id] = IF a.ok THEN "handle" ELSE "no"]}
      BY <2>1, Zenon DEF OnAdded, Added
    <3> QED BY <3>1, <3>2, <3>3
  <2>2. CASE OnOther(a)
    BY <2>2 DEF OnOther
  <2> QED BY <1>1, <2>1, <2>2
<1> HIDE DEF a, r
<1>8. /\ torrents \in [Id -> TorrentImpl \union {None}] /\ loading \in [Id -> Data \union {None}]
      /\ hidden \in [Id -> {"no", "pending", "handle"}]
  BY DEF TypeOK
<1>9. SameRequests(work, work', id)
  <2>1. SameRequests(work, Append(work, r), id)
    <3>1. ~(r.do \in {"add", "remove"} /\ r.id = id)
      BY <1>6
    <3> QED BY <1>6, <3>1, QueuesAre, RequestMade
  <2>2. SameRequests(work, work, id)
    BY QueuesAre, RequestsStay
  <2>3. work' = work \/ work' = Append(work, r)
    BY <1>7
  <2> QED BY <2>1, <2>2, <2>3
<1>10. CASE ~(a.is = "added" /\ a.id = id)
  <2>1. SameReplies(adds, adds', id)
    BY <1>1, <1>2, <1>10, RepliesTaken DEF a
  <2>2. torrents'[id] = torrents[id] /\ loading'[id] = loading[id] /\ hidden'[id] = hidden[id]
    <3>1. CASE a.id # id
      BY <1>2, <1>7, <1>8, <3>1
    <3>2. CASE a.is # "added"
      BY <1>1, <3>2 DEF OnAdded, OnOther
    <3> QED BY <1>10, <3>1, <3>2
  <2>3. SameState(id)
    BY <1>1, <2>2, SameNativeStays DEF SameState, SameTorrent
  <2> QED BY <1>3, <1>4, <1>9, <2>1, <2>3, FlowKept
<1>11. CASE a.is = "added" /\ a.id = id
  <2>1. OnAdded(a)
    BY <1>1, <1>11 DEF OnOther
  <2>2. a \in Replies(id) /\ (a \in Accepted(id) <=> a.ok) /\ (a \in AcceptedHidden(id) <=> a.ok /\ a.kind # "own")
    BY <1>2, <1>11, AlertKinds
  <2>3. Has(adds, Replies(id)) /\ ~Has(adds', Replies(id)) /\ One(adds', Replies(id))
        /\ (a.ok => Has(adds, Accepted(id)))
        /\ (a.ok /\ a.kind # "own" => Has(adds, AcceptedHidden(id)))
        /\ (Has(adds, Accepted(id)) => a.ok \/ Has(adds', Accepted(id)))
    BY <1>1, <1>2, <1>5, <2>2, HasRest DEF OnceInv, a
  <2>4. Answered(id) /\ ~Asked(id) /\ ~Has(alerts, Replies(id)) /\ InFlight(id)
    BY <1>5, <2>3 DEF OnceInv, Answered, AddedIn, Has, InFlight
  <2>5. AnsweredOk(id) <=> a.ok
    BY <2>3, <2>4, Subsets DEF AnsweredOk
  <2>6. searches[id] = 0 /\ (loading[id] # None \/ hidden[id] = "pending")
    BY <1>5, <2>4 DEF AdditionsInv
  <2>7. ~Answered(id)' /\ ~AnsweredOk(id)'
    BY <1>1, <2>3, <2>4, Subsets DEF Answered, AnsweredOk, AddedIn, Has
  <2>8. ~Has(work, Additions(id)) /\ ~Has(work', Additions(id)) /\ One(work', Additions(id))
        /\ \A kind \in Kinds : /\ Has(work', Removals(id, kind)) <=> Has(work, Removals(id, kind))
                               /\ Before(work', Removals(id, kind), Additions(id))
    <3>1. ~Has(work, Additions(id)) /\ ~Has(work', Additions(id))
      BY <1>9, <2>4 DEF SameRequests, Asked, AddsIn, Has
    <3> QED BY <1>5, <1>9, <3>1 DEF SameRequests, OnceInv, NativeInv
  <2>9. ~Asked(id)' /\ ~InFlight(id)' /\ ~Has(work', Foreign(id)')
    <3>1. Foreign(id)' \subseteq Additions(id)
      BY DEF Foreign
    <3> QED BY <2>7, <2>8, <3>1, Subsets DEF Asked, AddsIn, Has, InFlight
  <2>10. \A kind \in Kinds : MetadataPending(id, kind)' = MetadataPending(id, kind)
    BY <1>1 DEF MetadataPending
  <2>11. OnceInv(id)'
    BY <1>1, <1>5, <2>3, <2>4, <2>8, <2>9 DEF OnceInv
  <2>12. native[id] # None => native[id].kind \in Kinds
    BY NativeKinds
  <2>13. CASE loading[id] # None
    <3>1. hidden[id] = "no" /\ ~InSession(id) /\ ~Has(adds, AcceptedHidden(id))
      BY <1>5, <2>13 DEF AdditionsInv
    <3>2. loading' = [loading EXCEPT ![id] = None] /\ hidden' = hidden
      BY <1>11, <2>1, <2>13 DEF OnAdded, Added
    <3>3. loading'[id] = None /\ hidden'[id] = "no"
      BY <1>8, <3>1, <3>2
    <3>4. MetadataInv(id)'
      BY <3>3 DEF MetadataInv
    <3>5. CASE a.ok
      <4>1. Owner(id) /\ a.kind = "own"
        BY <2>3, <2>5, <2>13, <3>1, <3>5 DEF Owner
      <4> DEFINE t == [kind |-> a.kind, own |-> loading[id].own,
                       info |-> loading[id].info, received |-> FALSE]
      <4>2. torrents' = [torrents EXCEPT ![id] = t]
        BY <1>11, <2>1, <2>13, <3>5 DEF OnAdded, CreateTorrent
      <4>3. t.kind = "own" /\ t.info = loading[id].info /\ t.received = FALSE
        BY <4>1
      <4>4. t # None
        <5>1. "own" \in DOMAIN t /\ "own" \notin DOMAIN None
          BY DEF None
        <5> QED BY <5>1
      <4> HIDE DEF t
      <4>5. torrents'[id] = t
        BY <1>8, <4>2
      <4>6. InSession(id)' /\ Owner(id)'
        BY <4>4, <4>5 DEF InSession, Owner
      <4>7. HasInfo(id)' <=> HasInfo(id)
        BY <3>1, <4>3, <4>5, <4>6 DEF HasInfo
      <4>8. OwnerInv(id)'
        BY <1>1, <1>5, <2>6, <2>8, <2>10, <4>1, <4>3, <4>5, <4>6, <4>7, KindsAre DEF OwnerInv
      <4>9. AdditionsInv(id)'
        BY <2>9, <3>3 DEF AdditionsInv
      <4>10. ~HiddenOwner(id)'
        BY <3>3 DEF HiddenOwner
      <4>11. native[id].kind = "own"
        BY <1>5, <4>1 DEF OwnerInv
      <4>12. NativeInv(id)'
        BY <1>1, <2>8, <4>6, <4>10, <4>11 DEF NativeInv
      <4> QED BY <2>11, <3>4, <4>8, <4>9, <4>12 DEF FlowOf
    <3>6. CASE ~a.ok
      <4>1. torrents' = torrents
        BY <1>11, <2>1, <2>13, <3>6 DEF OnAdded
      <4>2. ~InSession(id)' /\ ~Owner(id)' /\ ~Owner(id) /\ ~HiddenOwner(id) /\ ~HiddenOwner(id)'
        BY <2>5, <3>1, <3>3, <3>6, <4>1 DEF InSession, Owner, HiddenOwner
      <4>3. OwnerInv(id)'
        BY <4>2 DEF OwnerInv
      <4>4. AdditionsInv(id)'
        BY <2>9, <3>3 DEF AdditionsInv
      <4>5. NativeInv(id)'
        BY <1>1, <1>5, <2>8, <2>12, <4>2 DEF NativeInv
      <4> QED BY <2>11, <3>4, <4>3, <4>4, <4>5 DEF FlowOf
    <3> QED BY <3>5, <3>6
  <2>14. CASE loading[id] = None
    <3>1. hidden[id] = "pending" /\ ~InSession(id)
      BY <1>5, <2>6, <2>14 DEF AdditionsInv
    <3>2. loading' = loading /\ torrents' = torrents
          /\ hidden' = [hidden EXCEPT ![id] = IF a.ok THEN "handle" ELSE "no"]
      BY <1>11, <2>1, <2>14, <3>1 DEF OnAdded
    <3>3. loading'[id] = None /\ hidden'[id] = IF a.ok THEN "handle" ELSE "no"
      BY <1>8, <2>14, <3>2
    <3>4. ~InSession(id)' /\ ~Owner(id)' /\ ~Owner(id)
      BY <2>14, <3>1, <3>2 DEF InSession, Owner
    <3>5. OwnerInv(id)'
      BY <3>4 DEF OwnerInv
    <3>6. AdditionsInv(id)'
      BY <2>9, <3>3, <3>4 DEF AdditionsInv
    <3>7. MetadataInv(id)'
      BY <3>3 DEF MetadataInv
    <3>8. (HiddenOwner(id) <=> a.ok) /\ (HiddenOwner(id)' <=> a.ok)
      <4>1. HiddenOwner(id) <=> a.ok
        BY <2>5, <3>1 DEF HiddenOwner
      <4>2. HiddenOwner(id)' <=> a.ok
        BY <3>3 DEF HiddenOwner
      <4> QED BY <4>1, <4>2
    <3>9. NativeInv(id)'
      BY <1>1, <1>5, <2>8, <2>12, <3>4, <3>8, KindsAre DEF NativeInv
    <3> QED BY <2>11, <3>5, <3>6, <3>7, <3>9 DEF FlowOf
  <2> QED BY <2>13, <2>14
<1> QED BY <1>10, <1>11

-----------------------------------------------------------------------------
LEMMA HandleAlertFlow ==
    ASSUME TypeOK, ~Overlap, HandleAlert, NEW id \in Id, FlowOf(id)
    PROVE  FlowOf(id)'
<1> DEFINE a == Head(batch)
<1>1. /\ adds = <<>> /\ batch # <<>> /\ batch' = Tail(batch)
      /\ OnSaved(a) \/ OnNotModified(a) \/ OnMetadata(a) \/ OnUnknown(a)
      /\ UNCHANGED <<phase, loading, native, alerts, adds>>
  BY DEF HandleAlert
<1>2. a \in Alert /\ batch \in Seq(Alert) /\ a.id \in Id
  BY <1>1, QueuesAre, AlertsMove, AlertParts
<1>3. Running' = Running /\ AnsweredOk(id)' = AnsweredOk(id) /\ Answered(id)' = Answered(id)
      /\ \A P : ~Has(adds, P)
  BY <1>1, HasNothing DEF Running, AnsweredOk, Answered
<1>4. SameAnswers(alerts, alerts', id) /\ SameReplies(adds, adds', id)
  BY <1>1, QueuesAre, AnswersStay DEF SameAnswers
<1>5. \A kind \in Kinds : /\ Has(batch', Metadata(id, kind)) => Has(batch, Metadata(id, kind))
                          /\ One(batch, Metadata(id, kind)) => One(batch', Metadata(id, kind))
                          /\ a \in Metadata(id, kind) => Has(batch, Metadata(id, kind))
                          /\ a \in Metadata(id, kind) /\ One(batch, Metadata(id, kind)) => ~Has(batch', Metadata(id, kind))
                          /\ a \notin Metadata(id, kind) => (Has(batch', Metadata(id, kind)) <=> Has(batch, Metadata(id, kind)))
  BY <1>1, <1>2, HasRest
<1>6. a.is = "metadata" => a.kind \in Kinds
  BY <1>2, AlertParts
<1>7. \A kind : a \in Metadata(id, kind) <=> a.is = "metadata" /\ a.id = id /\ a.kind = kind
  BY <1>2, AlertKinds
<1>8. ~(a.is = "metadata" /\ a.id = id) => SameMetadata(batch, batch', id)
  BY <1>1, <1>2, MetadataTaken
<1> HIDE DEF a
<1>9. /\ torrents \in [Id -> TorrentImpl \union {None}] /\ searches \in [Id -> Nat]
      /\ hidden \in [Id -> {"no", "pending", "handle"}]
  BY DEF TypeOK
<1>10. /\ \A kind \in Kinds : MetadataPending(id, kind)' => MetadataPending(id, kind)
  BY <1>1, <1>5 DEF MetadataPending
<1> DEFINE r == RemoveNative(a.id, "hidden")
<1>11. r \in Request /\ r.do = "remove" /\ r.id = a.id /\ r.kind = "hidden"
  BY <1>2, RequestTypes, KindsAre
<1>12. work' \in {work, Append(work, r)}
  BY <1>1 DEF OnSaved, OnNotModified, OnMetadata, OnUnknown
<1> HIDE DEF r
<1>13. CASE a.id # id
  <2>1. /\ torrents'[id] = torrents[id] /\ searches'[id] = searches[id] /\ hidden'[id] = hidden[id]
    <3>1. CASE OnSaved(a)
      BY <1>2, <1>9, <1>13, <3>1 DEF OnSaved
    <3>2. CASE OnNotModified(a) \/ OnUnknown(a)
      BY <3>2 DEF OnNotModified, OnUnknown
    <3>3. CASE OnMetadata(a)
      BY <1>2, <1>9, <1>13, <3>3 DEF OnMetadata
    <3> QED BY <1>1, <3>1, <3>2, <3>3
  <2>2. SameState(id)
    BY <1>1, <2>1, SameNativeStays DEF SameState, SameTorrent
  <2>3. SameRequests(work, work', id)
    <3>1. SameRequests(work, Append(work, r), id)
      BY <1>11, <1>13, QueuesAre, RequestMade
    <3> QED BY <1>12, <3>1, QueuesAre, RequestsStay
  <2> QED BY <1>3, <1>4, <1>8, <1>13, <2>2, <2>3, FlowKept
<1>14. CASE a.id = id /\ a.is # "metadata"
  <2>1. UNCHANGED <<torrents, hidden, work>>
    BY <1>1, <1>14 DEF OnSaved, OnNotModified, OnUnknown, OnMetadata
  <2>2. CASE searches' = searches
    <3>1. SameState(id)
      BY <1>1, <2>1, <2>2, SameNativeStays DEF SameState, SameTorrent
    <3> QED BY <1>3, <1>4, <1>8, <1>14, <2>1, <3>1, QueuesAre, RequestsStay, FlowKept
  <2>3. CASE searches' # searches
    <3>1. InSession(id) /\ torrents[id].received
      BY <1>1, <1>14, <2>3 DEF OnSaved, OnNotModified, OnUnknown, OnMetadata
    <3>2. HasInfo(id)
      BY <3>1 DEF HasInfo
    <3>3. /\ InSession(id)' = InSession(id) /\ HasInfo(id)' = HasInfo(id) /\ Owner(id)' = Owner(id)
          /\ HiddenOwner(id)' = HiddenOwner(id) /\ Foreign(id)' = Foreign(id) /\ Asked(id)' = Asked(id)
          /\ InFlight(id)' = InFlight(id)
      BY <1>1, <1>3, <2>1 DEF InSession, HasInfo, Owner, HiddenOwner, Foreign, Asked, AddsIn, InFlight
    <3>4. /\ \A kind \in Kinds : Has(batch', Metadata(id, kind)) <=> Has(batch, Metadata(id, kind))
          /\ \A kind \in Kinds : One(batch, Metadata(id, kind)) => One(batch', Metadata(id, kind))
          /\ \A kind \in Kinds : MetadataPending(id, kind)' <=> MetadataPending(id, kind)
      BY <1>1, <1>8, <1>14 DEF SameMetadata, MetadataPending
    <3>5. OwnerInv(id)'
      BY <1>1, <2>1, <3>2, <3>3, <3>4, KindsAre DEF FlowOf, OwnerInv
    <3>6. ASSUME Running PROVE OnceInv(id)' /\ AdditionsInv(id)' /\ MetadataInv(id)' /\ NativeInv(id)'
      <4>1. OnceInv(id) /\ AdditionsInv(id) /\ MetadataInv(id) /\ NativeInv(id)
        BY <3>6 DEF FlowOf
      <4>2. loading[id] = None /\ hidden[id] = "no" /\ ~InFlight(id)
        BY <1>9, <3>1, <4>1 DEF AdditionsInv
      <4>3. OnceInv(id)'
        BY <1>1, <1>3, <2>1, <3>3, <4>1 DEF OnceInv
      <4>4. AdditionsInv(id)'
        BY <1>1, <2>1, <3>3, <4>1, <4>2 DEF AdditionsInv
      <4>5. MetadataInv(id)'
        BY <1>1, <2>1, <4>2 DEF MetadataInv
      <4>6. NativeInv(id)'
        BY <1>1, <2>1, <3>3, <4>1 DEF NativeInv
      <4> QED BY <4>3, <4>4, <4>5, <4>6
    <3> QED BY <1>3, <3>5, <3>6 DEF FlowOf
  <2> QED BY <2>2, <2>3
<1>15. CASE a.id = id /\ a.is = "metadata" /\ OnMetadata(a) /\ InSession(id)
  <2> DEFINE t == [torrents[id] EXCEPT !.received = TRUE]
  <2>1. /\ torrents' = [torrents EXCEPT ![id] = t]
        /\ UNCHANGED <<hidden, work, searches>>
    BY <1>15 DEF OnMetadata
  <2>2. torrents[id] \in TorrentImpl
    BY <1>9, <1>15 DEF InSession
  <2>3. t.kind = torrents[id].kind /\ t.received = TRUE
    BY <2>2 DEF TorrentImpl
  <2>4. t # None
    <3>1. t \in TorrentImpl
      BY <2>2, TorrentIs
    <3> HIDE DEF t
    <3> QED BY <3>1, TorrentIs
  <2> HIDE DEF t
  <2>5. torrents'[id] = t
    BY <1>9, <2>1
  <2>6. InSession(id)' /\ HasInfo(id)' /\ Owner(id) /\ Owner(id)'
    BY <1>15, <2>3, <2>4, <2>5 DEF InSession, HasInfo, Owner
  <2>7. Foreign(id)' = Foreign(id) /\ Asked(id)' = Asked(id) /\ InFlight(id)' = InFlight(id)
        /\ HiddenOwner(id)' = HiddenOwner(id)
    BY <1>1, <1>3, <2>1 DEF Foreign, Asked, AddsIn, InFlight, HiddenOwner
  <2>8. OwnerInv(id)
    BY DEF FlowOf
  <2>9. native[id].info /\ native[id].kind = a.kind
    BY <1>15 DEF OnMetadata, Recognised
  <2>10. a.kind = "own"
    BY <2>6, <2>8, <2>9 DEF OwnerInv
  <2>11. ~MetadataPending(id, "own")'
    <3>1. a \in Metadata(id, "own")
      BY <1>7, <1>15, <2>10
    <3>2. Has(batch, Metadata(id, "own")) /\ ~Has(batch', Metadata(id, "own"))
      BY <1>5, <2>6, <2>8, <3>1, KindsAre DEF OwnerInv
    <3>3. ~Has(alerts, Metadata(id, "own"))
      BY <2>6, <2>8, <3>2 DEF OwnerInv
    <3> QED BY <1>1, <3>2, <3>3 DEF MetadataPending
  <2>12. OwnerInv(id)'
    <3>1. /\ One(alerts', Metadata(id, "own")) /\ One(batch', Metadata(id, "own"))
          /\ ~(Has(alerts', Metadata(id, "own")) /\ Has(batch', Metadata(id, "own")))
      BY <1>1, <1>5, <2>6, <2>8, <2>11, KindsAre DEF OwnerInv, MetadataPending
    <3>2. native'[id] # None /\ native'[id].kind = "own" /\ native'[id].info
          /\ ~Has(work', Removals(id, "own"))
      BY <1>1, <2>1, <2>6, <2>8, <2>9 DEF OwnerInv
    <3>3. torrents'[id].kind = "own"
      BY <1>15, <2>3, <2>5, <2>6, <2>8 DEF OwnerInv
    <3> QED BY <2>6, <2>11, <3>1, <3>2, <3>3 DEF OwnerInv
  <2>13. ASSUME Running PROVE OnceInv(id)' /\ AdditionsInv(id)' /\ MetadataInv(id)' /\ NativeInv(id)'
    <3>1. OnceInv(id) /\ AdditionsInv(id) /\ MetadataInv(id) /\ NativeInv(id)
      BY <2>13 DEF FlowOf
    <3>2. loading[id] = None /\ hidden[id] = "no"
      BY <1>9, <1>15, <3>1 DEF AdditionsInv
    <3>3. OnceInv(id)'
      BY <1>1, <1>3, <2>1, <2>7, <3>1 DEF OnceInv
    <3>4. AdditionsInv(id)'
      BY <1>1, <2>1, <2>7, <3>1, <3>2 DEF AdditionsInv
    <3>5. MetadataInv(id)'
      BY <1>1, <2>1, <3>2 DEF MetadataInv
    <3>6. NativeInv(id)'
      BY <1>1, <2>1, <2>6, <2>7, <3>1 DEF NativeInv
    <3> QED BY <3>3, <3>4, <3>5, <3>6
  <2> QED BY <1>3, <2>12, <2>13 DEF FlowOf
<1>16. CASE a.id = id /\ a.is = "metadata" /\ OnMetadata(a) /\ ~InSession(id)
  <2>1. /\ hidden' = [hidden EXCEPT ![id] = "no"]
        /\ work' = IF hidden[id] = "no" THEN work ELSE Append(work, r)
        /\ UNCHANGED <<torrents, searches>>
    BY <1>16 DEF OnMetadata, r
  <2>2. hidden'[id] = "no" /\ ~InSession(id)' /\ HasInfo(id)' = HasInfo(id)
    BY <1>1, <1>9, <1>16, <2>1 DEF InSession, HasInfo
  <2>3. native[id] # None /\ native[id].info /\ native[id].kind = a.kind
    BY <1>16 DEF OnMetadata, Recognised
  <2>4. CASE ~Running
    BY <1>3, <2>2, <2>4 DEF FlowOf, OwnerInv, Owner
  <2>5. CASE Running
    <3>1. OwnerInv(id) /\ OnceInv(id) /\ AdditionsInv(id) /\ MetadataInv(id) /\ NativeInv(id)
      BY <2>5 DEF FlowOf
    <3>2. a \in Metadata(id, a.kind) /\ a.kind \in Kinds /\ Has(batch, Metadata(id, a.kind)) /\ MetadataPending(id, a.kind)
      BY <1>5, <1>6, <1>7, <1>16 DEF MetadataPending
    <3>3. ~Owner(id)
      <4> SUFFICES ASSUME Owner(id) PROVE FALSE
        OBVIOUS
      <4>1. loading[id] # None /\ AnsweredOk(id) /\ native[id].kind = "own"
        BY <1>16, <3>1 DEF Owner, OwnerInv
      <4>2. Has(alerts, Replies(id))
        BY <1>3, <4>1, Subsets DEF AnsweredOk
      <4> QED BY <2>3, <3>1, <3>2, <4>1, <4>2 DEF MetadataInv
    <3>4. ~Owner(id)'
      BY <1>1, <1>3, <2>2, <3>3 DEF Owner
    <3>5. OwnerInv(id)'
      BY <3>4 DEF OwnerInv
    <3>6. hidden[id] # "pending"
      <4> SUFFICES ASSUME hidden[id] = "pending" PROVE FALSE
        OBVIOUS
      <4>1. Asked(id) \/ Has(alerts, Replies(id))
        BY <1>3, <3>1 DEF AdditionsInv, InFlight, Answered, AddedIn, Has
      <4> QED BY <3>1, <3>2, <4>1, KindsAre DEF MetadataInv
    <3>7. Foreign(id)' = Foreign(id)
      BY <1>1 DEF Foreign
    <3>8. CASE hidden[id] = "no"
      <4>1. work' = work /\ hidden'[id] = hidden[id]
        BY <2>1, <2>2, <3>8
      <4>2. Asked(id)' = Asked(id) /\ InFlight(id)' = InFlight(id)
        BY <1>3, <4>1 DEF Asked, AddsIn, InFlight
      <4>3. OnceInv(id)'
        BY <1>1, <1>3, <3>1, <4>1, <4>2 DEF OnceInv
      <4>4. AdditionsInv(id)'
        BY <1>1, <1>16, <2>1, <2>2, <3>1, <3>7, <4>1, <4>2 DEF AdditionsInv
      <4>5. MetadataInv(id)'
        BY <1>1, <1>3, <1>5, <1>10, <2>2, <3>1, KindsAre DEF MetadataInv
      <4>6. NativeInv(id)'
        BY <1>1, <2>2, <3>1, <3>3, <3>8, <4>1 DEF NativeInv, HiddenOwner
      <4> QED BY <3>5, <4>3, <4>4, <4>5, <4>6 DEF FlowOf
    <3>9. CASE hidden[id] = "handle"
      <4>1. work' = Append(work, r) /\ loading[id] = None /\ ~InFlight(id)
        BY <2>1, <3>1, <3>6, <3>9 DEF AdditionsInv
      <4>2. ~Asked(id) /\ ~Answered(id) /\ ~Has(work, Additions(id))
        BY <4>1 DEF InFlight, Asked, AddsIn, Has
      <4>3. /\ ~Has(work', Additions(id)) /\ One(work', Additions(id))
            /\ \A kind \in Kinds : /\ Has(work', Removals(id, kind)) <=> kind = "hidden" \/ Has(work, Removals(id, kind))
                                   /\ Before(work', Removals(id, kind), Additions(id))
        BY <1>11, <1>16, <3>1, <4>1, <4>2, QueuesAre, RemovalMade DEF NativeInv
      <4>4. ~Asked(id)' /\ ~InFlight(id)'
        BY <1>3, <4>2, <4>3 DEF Asked, AddsIn, Has, InFlight
      <4>5. OnceInv(id)'
        BY <1>1, <1>3, <3>1, <4>3, <4>4 DEF OnceInv
      <4>6. ~Has(work', Foreign(id)')
        <5>1. Foreign(id)' \subseteq Additions(id)
          BY DEF Foreign
        <5> QED BY <4>3, <5>1, Subsets
      <4>7. AdditionsInv(id)'
        BY <1>1, <2>2, <4>1, <4>4, <4>6 DEF AdditionsInv
      <4>8. MetadataInv(id)'
        BY <1>1, <2>2, <4>1 DEF MetadataInv
      <4>9. native[id].kind = "hidden"
        BY <3>1, <3>9 DEF NativeInv, HiddenOwner
      <4>10. NativeInv(id)'
        BY <1>1, <2>2, <4>3, <4>9, KindsAre DEF NativeInv, HiddenOwner
      <4> QED BY <3>5, <4>5, <4>7, <4>8, <4>10 DEF FlowOf
    <3> QED BY <1>9, <3>6, <3>8, <3>9
  <2> QED BY <2>4, <2>5
<1>17. CASE a.id = id /\ a.is = "metadata" /\ ~OnMetadata(a)
  <2>1. ~Recognised(a) /\ UNCHANGED <<searches, torrents, hidden, work>>
    BY <1>1, <1>17 DEF OnUnknown, OnSaved, OnNotModified
  <2>2. /\ InSession(id)' = InSession(id) /\ HasInfo(id)' = HasInfo(id) /\ Owner(id)' = Owner(id)
        /\ HiddenOwner(id)' = HiddenOwner(id) /\ Foreign(id)' = Foreign(id) /\ Asked(id)' = Asked(id)
        /\ InFlight(id)' = InFlight(id)
    BY <1>1, <1>3, <2>1 DEF InSession, HasInfo, Owner, HiddenOwner, Foreign, Asked, AddsIn, InFlight
  <2>3. Owner(id) => a.kind # "own"
    <3> SUFFICES ASSUME Owner(id), a.kind = "own" PROVE FALSE
      OBVIOUS
    <3>1. MetadataPending(id, "own")
      BY <1>5, <1>7, <1>17, KindsAre DEF MetadataPending
    <3>2. native[id] # None /\ native[id].kind = "own" /\ native[id].info
      BY <3>1 DEF FlowOf, OwnerInv
    <3> QED BY <1>17, <2>1, <3>2 DEF Recognised
  <2>4. Owner(id) => (Has(batch', Metadata(id, "own")) <=> Has(batch, Metadata(id, "own")))
                     /\ (MetadataPending(id, "own")' <=> MetadataPending(id, "own"))
    BY <1>1, <1>5, <1>7, <2>3, KindsAre DEF MetadataPending
  <2>5. OwnerInv(id)'
    BY <1>1, <1>5, <2>1, <2>2, <2>4, KindsAre DEF FlowOf, OwnerInv
  <2>6. ASSUME Running PROVE OnceInv(id)' /\ AdditionsInv(id)' /\ MetadataInv(id)' /\ NativeInv(id)'
    <3>1. OnceInv(id) /\ AdditionsInv(id) /\ MetadataInv(id) /\ NativeInv(id)
      BY <2>6 DEF FlowOf
    <3>2. OnceInv(id)'
      BY <1>1, <1>3, <2>1, <2>2, <3>1 DEF OnceInv
    <3>3. AdditionsInv(id)'
      BY <1>1, <2>1, <2>2, <3>1 DEF AdditionsInv
    <3>4. MetadataInv(id)'
      BY <1>1, <1>3, <1>5, <1>10, <2>1, <2>2, <3>1, KindsAre DEF MetadataInv
    <3>5. NativeInv(id)'
      BY <1>1, <2>1, <2>2, <3>1 DEF NativeInv
    <3> QED BY <3>2, <3>3, <3>4, <3>5
  <2> QED BY <1>3, <2>5, <2>6 DEF FlowOf
<1> QED BY <1>13, <1>14, <1>15, <1>16, <1>17

(* Nothing of a torrent in a program that has just been started.           *)
LEMMA FreshFlow == Fresh => FlowInv
<1> SUFFICES ASSUME Fresh, NEW id \in Id PROVE FlowOf(id)
  BY DEF FlowInv, Fresh
<1>1. /\ torrents[id] = None /\ loading[id] = None /\ hidden[id] = "no" /\ searches[id] = 0
      /\ native[id] = None
      /\ work = <<>> /\ alerts = <<>> /\ adds = <<>> /\ batch = <<>> /\ phase = "startup"
  BY DEF Fresh
<1>2. /\ \A P : ~Has(work, P) /\ ~Has(alerts, P) /\ ~Has(adds, P) /\ ~Has(batch, P)
      /\ \A P : One(work, P) /\ One(alerts, P) /\ One(adds, P) /\ One(batch, P)
      /\ \A P, Q : Before(work, P, Q)
  BY <1>1, HasNothing, BeforeNothing
<1>3. ~InSession(id) /\ ~Owner(id) /\ ~HiddenOwner(id) /\ Running
  BY <1>1 DEF InSession, Owner, HiddenOwner, Running
<1>4. ~Asked(id) /\ ~Answered(id) /\ ~InFlight(id)
  BY <1>2 DEF Asked, AddsIn, Answered, AddedIn, Has, InFlight
<1>5. OwnerInv(id) /\ OnceInv(id) /\ NativeInv(id)
  BY <1>1, <1>2, <1>3, <1>4 DEF OwnerInv, OnceInv, NativeInv
<1>6. AdditionsInv(id) /\ MetadataInv(id)
  BY <1>1, <1>2, <1>3, <1>4 DEF AdditionsInv, MetadataInv
<1> QED BY <1>3, <1>5, <1>6 DEF FlowOf

LEMMA FlowStep ==
    ~Overlap /\ TypeOK /\ StartupInv /\ FlowInv /\ [Next]_vars => FlowInv'
<1> SUFFICES ASSUME ~Overlap, TypeOK, StartupInv, FlowInv, [Next]_vars PROVE FlowInv'
  OBVIOUS
<1>1. CASE Restart
  <2>1. Fresh' => FlowInv'
    BY FreshFlow, PTL
  <2> QED BY <1>1, <2>1, RestartFresh
<1>2. CASE ~Restart
  <2>1. ~Running' => adds' = <<>>
    <3>1. CASE ReadAlerts
      BY <3>1 DEF ReadAlerts, Running
    <3>2. CASE HandleAdded
      <4>1. Running
        BY <3>2 DEF HandleAdded, FlowInv
      <4> QED BY <3>2, <4>1 DEF HandleAdded, Running
    <3>3. CASE Exit
      BY <3>3 DEF Exit, Idle, alertVars
    <3>4. CASE HandleLoadedResumeData
      BY <3>4 DEF HandleLoadedResumeData, Running
    <3>5. CASE End
      BY <3>5 DEF End, Idle, alertVars
    <3>6. CASE NativeStep \/ ReadNext \/ LoadFinished \/ SaveNeeded \/ GenerateResumeData
               \/ HandleAlert \/ UNCHANGED vars
               \/ \E i \in Id : \/ NativeProgress(i) \/ NativeMetadata(i)
                                \/ AddTorrent(i) \/ DownloadMetadata(i) \/ CancelDownloadMetadata(i)
                                \/ DeleteTorrent(i) \/ ChangeTorrent(i) \/ SearchFinished(i)
      <4>1. UNCHANGED <<phase, adds>>
        BY <3>6 DEF NativeStep, ReadNext, LoadFinished, SaveNeeded, GenerateResumeData, HandleAlert, vars,
                    NativeProgress, NativeMetadata, AddTorrent, DownloadMetadata, CancelDownloadMetadata,
                    DeleteTorrent, ChangeTorrent, SearchFinished, alertVars
      <4> QED BY <4>1 DEF FlowInv, Running
    <3> QED BY <1>2, <3>1, <3>2, <3>3, <3>4, <3>5, <3>6 DEF Next
  <2>2. ASSUME NEW id \in Id PROVE FlowOf(id)'
    <3>0. \A i \in Id : FlowOf(i)
      BY DEF FlowInv
    <3>1. CASE HandleAdded
      <4>1. Running
        BY <3>1 DEF HandleAdded, FlowInv
      <4> QED BY <3>0, <3>1, <4>1, HandleAddedFlow
    <3>2. CASE NativeStep \/ HandleAlert \/ HandleLoadedResumeData \/ ReadAlerts
      BY <3>0, <3>2, NativeStepFlow, HandleAlertFlow, HandleLoadedFlow, ReadAlertsFlow
    <3>3. CASE \/ ReadNext \/ LoadFinished \/ SaveNeeded \/ GenerateResumeData \/ Exit \/ End
               \/ UNCHANGED vars
      BY <3>0, <3>3, PlainFlow
    <3>4. ASSUME NEW i \in Id,
                 \/ NativeProgress(i) \/ NativeMetadata(i) \/ ChangeTorrent(i)
                 \/ AddTorrent(i) \/ DownloadMetadata(i) \/ CancelDownloadMetadata(i)
          PROVE  FlowOf(id)'
      BY <3>0, <3>4, NativeProgressFlow, NativeMetadataFlow, ChangeTorrentFlow, AddTorrentFlow,
         DownloadMetadataFlow, CancelDownloadMetadataFlow
    <3>5. ASSUME NEW i \in Id, DeleteTorrent(i) \/ SearchFinished(i)
          PROVE  FlowOf(id)'
      BY <3>0, <3>5, DeleteTorrentFlow, SearchFinishedFlow
    <3> QED BY <1>2, <3>1, <3>2, <3>3, <3>4, <3>5 DEF Next
  <2> QED BY <2>1, <2>2 DEF FlowInv
<1> QED BY <1>1, <1>2

LEMMA FlowInvariant == ~Overlap => (Spec => [](TypeOK /\ StartupInv /\ FlowInv))
<1>1. Init => TypeOK /\ StartupInv /\ FlowInv
  BY InitTypes, InitFresh, FreshStarts, FreshFlow
<1>2. ~Overlap /\ TypeOK /\ StartupInv /\ FlowInv /\ [Next]_vars => TypeOK' /\ StartupInv' /\ FlowInv'
  BY FlowStep, StartupStep
<1>3. ~Overlap => [](~Overlap)
  OBVIOUS
<1> QED BY <1>1, <1>2, <1>3, PTL DEF Spec

(* In a restored session libtorrent has every torrent of the session, and  *)
(* no other but the hidden ones and those it is about to add or remove     *)
(* (addTorrent_impl, downloadMetadata, cancelDownloadMetadata,             *)
(* deleteTorrent, handleAddTorrentAlerts).                                 *)
THEOREM NativesKnown == ~Overlap => (Spec => []NativesAreKnown)
<1>1. TypeOK /\ FlowInv => NativesAreKnown
  <2> SUFFICES ASSUME TypeOK, FlowInv, phase = "restored", NEW id \in Id
               PROVE  /\ InSession(id) => native[id] # None
                      /\ native[id] # None =>
                             InSession(id) \/ loading[id] # None \/ hidden[id] # "no" \/ About(id) # {}
    BY DEF NativesAreKnown
  <2>1. Running
    BY DEF Running
  <2>2. OwnerInv(id) /\ NativeInv(id)
    BY <2>1 DEF FlowInv, FlowOf
  <2>3. InSession(id) => native[id] # None
    BY <2>2 DEF OwnerInv, Owner
  <2>4. \A kind : Has(work, Removals(id, kind)) => About(id) # {}
    BY DEF Has, Positions, Removals, About
  <2>5. native[id] # None => InSession(id) \/ loading[id] # None \/ hidden[id] # "no" \/ About(id) # {}
    BY <2>2, <2>4 DEF NativeInv, Owner, HiddenOwner
  <2> QED BY <2>3, <2>5
<1> QED BY <1>1, FlowInvariant, PTL

(* A torrent of the session was added with the parameters of the user and  *)
(* is never one whose metadata alone were to be fetched, as the comment in *)
(* addTorrent_impl wants it, as long as its id has come to rest before.    *)
THEOREM OwnParameters == ~Overlap => (Spec => []AddedWithOwnParameters)
<1>1. FlowInv => AddedWithOwnParameters
  BY DEF FlowInv, FlowOf, OwnerInv, Owner, AddedWithOwnParameters
<1> QED BY <1>1, FlowInvariant, PTL

-----------------------------------------------------------------------------
(* What is counted: saves that are asked for or answered, and metadata     *)
(* that wait for their files.                                              *)
SaveRequests == {r \in Request : r.do = "save"}
SaveAnswers == {a \in Alert : a.is \in {"saved", "not modified"}}
Owed == Number(work, SaveRequests) + Number(alerts, SaveAnswers) + Number(batch, SaveAnswers)
Waiters == {id \in Id : Waiting(id)}
Counted == count >= Owed + Cardinality(Waiters)

LEMMA SaveKinds ==
    /\ \A r \in Request : r \in SaveRequests <=> r.do = "save"
    /\ \A a \in Alert : a \in SaveAnswers <=> a.is \in {"saved", "not modified"}
BY DEF SaveRequests, SaveAnswers

LEMMA OwedTypes ==
    ASSUME TypeOK
    PROVE  /\ Number(work, SaveRequests) \in Nat /\ Number(alerts, SaveAnswers) \in Nat
           /\ Number(batch, SaveAnswers) \in Nat
           /\ Owed \in Nat /\ IsFiniteSet(Waiters) /\ Cardinality(Waiters) \in Nat /\ count \in Int
<1>1. /\ Number(work, SaveRequests) \in Nat /\ Number(alerts, SaveAnswers) \in Nat
      /\ Number(batch, SaveAnswers) \in Nat
  BY QueuesAre, PositionsFinite
<1>2. IsFiniteSet(Waiters) /\ Cardinality(Waiters) \in Nat
  BY SessionAssumption, FS_Subset, FS_CardinalityType DEF Waiters
<1>3. count \in Int
  BY DEF TypeOK
<1> QED BY <1>1, <1>2, <1>3 DEF Owed

LEMMA OwedAre ==
    TypeOK => /\ Number(work, SaveRequests) \in Nat /\ Number(alerts, SaveAnswers) \in Nat
              /\ Owed \in Nat /\ Cardinality(Waiters) \in Nat
BY OwedTypes

LEMMA CountFrame ==
    ASSUME TypeOK, TypeOK', Counted, NEW k \in Int, count' = count + k, Owed' <= Owed + k,
           Waiters' \subseteq Waiters
    PROVE  Counted'
<1>1. /\ Owed \in Nat /\ IsFiniteSet(Waiters) /\ Cardinality(Waiters) \in Nat /\ count \in Int
      /\ Owed' \in Nat /\ Cardinality(Waiters') \in Nat
  <2>1. TypeOK' => (Owed \in Nat)' /\ (Cardinality(Waiters) \in Nat)'
    BY OwedAre, PTL
  <2> QED BY <2>1, OwedTypes
<1>2. Cardinality(Waiters') <= Cardinality(Waiters)
  BY <1>1, FS_Subset
<1> QED BY <1>1, <1>2 DEF Counted

(* What libtorrent answers to a request.                                   *)
LEMMA NativeAnswers ==
    ASSUME TypeOK, NativeStep
    PROVE  /\ Head(work) \in Request /\ work # <<>> /\ work' = Tail(work) /\ UNCHANGED <<adds, batch>>
           /\ \/ UNCHANGED alerts
              \/ \E a \in Alert : /\ alerts' = Append(alerts, a) /\ a.id = Head(work).id
                                  /\ Head(work).do = "add" /\ a.is = "added"
              \/ \E a \in Alert : /\ alerts' = Append(alerts, a) /\ a.id = Head(work).id
                                  /\ Head(work).do = "save" /\ a.is \in {"saved", "not modified"}
<1> DEFINE r == Head(work)
<1>1. r \in Request /\ work # <<>> /\ work' = Tail(work) /\ UNCHANGED <<adds, batch>>
  BY QueuesAre, RequestsMove DEF NativeStep
<1>2. NativeAdd(r) \/ NativeRemove(r) \/ NativeSave(r)
  BY DEF NativeStep
<1>3. alerts' \in Seq(Alert)
  BY NativeStepTypes DEF TypeOK
<1> HIDE DEF r
<1>4. CASE NativeAdd(r)
  <2>1. PICK a : alerts' = Append(alerts, a) /\ a.id = r.id /\ a.is = "added"
    BY <1>4 DEF NativeAdd
  <2>2. a \in Alert
    BY <1>3, <2>1, QueuesAre, LastIs
  <2> QED BY <1>1, <1>4, <2>1, <2>2 DEF NativeAdd, r
<1>5. CASE NativeRemove(r)
  BY <1>1, <1>5 DEF NativeRemove, r
<1>6. CASE NativeSave(r)
  <2>1. CASE native[r.id] = None
    BY <1>1, <1>6, <2>1 DEF NativeSave, r
  <2>2. CASE native[r.id] # None
    <3> DEFINE a == IF r.always \/ native[r.id].needSave
                    THEN [is |-> "saved", id |-> r.id, progress |-> native[r.id].progress,
                          info |-> native[r.id].info]
                    ELSE [is |-> "not modified", id |-> r.id]
    <3>1. alerts' = Append(alerts, a)
      BY <1>6, <2>2, Zenon DEF NativeSave
    <3>2. a.is \in {"saved", "not modified"} /\ a.id = r.id
      OBVIOUS
    <3> HIDE DEF a
    <3>3. a \in Alert
      BY <1>3, <3>1, QueuesAre, LastIs
    <3> QED BY <1>1, <1>6, <3>1, <3>2, <3>3 DEF NativeSave, r
  <2> QED BY <2>1, <2>2
<1> QED BY <1>2, <1>4, <1>5, <1>6

LEMMA NativeStepCounts ==
    ASSUME TypeOK, TypeOK', Counted, NativeStep
    PROVE  Counted'
<1> DEFINE r == Head(work)
<1>1. r \in Request /\ work # <<>> /\ work' = Tail(work) /\ UNCHANGED <<adds, batch>>
  BY NativeAnswers
<1>2. Number(work, SaveRequests) = Number(work', SaveRequests) + IF r.do = "save" THEN 1 ELSE 0
  BY <1>1, QueuesAre, NumberRest, SaveKinds
<1>3. Number(alerts', SaveAnswers) <= Number(alerts, SaveAnswers) + IF r.do = "save" THEN 1 ELSE 0
  <2>1. CASE UNCHANGED alerts
    BY <2>1, OwedTypes
  <2>2. ASSUME NEW a \in Alert, alerts' = Append(alerts, a), r.do = "add", a.is = "added"
        PROVE  Number(alerts', SaveAnswers) = Number(alerts, SaveAnswers)
    <3>1. a \notin SaveAnswers
      BY <2>2, SaveKinds
    <3>2. Number(alerts', SaveAnswers) = Number(alerts, SaveAnswers) + 0
      BY <2>2, <3>1, QueuesAre, NumberAppended
    <3> QED BY <3>2, OwedTypes
  <2>3. ASSUME NEW a \in Alert, alerts' = Append(alerts, a), r.do = "save"
        PROVE  Number(alerts', SaveAnswers) <= Number(alerts, SaveAnswers) + 1
    <3>1. Number(alerts', SaveAnswers) = Number(alerts, SaveAnswers) + IF a \in SaveAnswers THEN 1 ELSE 0
      BY <2>3, QueuesAre, NumberAppended
    <3> QED BY <3>1, OwedTypes
  <2>4. CASE \E a \in Alert : alerts' = Append(alerts, a) /\ r.do = "add" /\ a.is = "added"
    BY <2>2, <2>4, OwedTypes
  <2>5. CASE \E a \in Alert : alerts' = Append(alerts, a) /\ r.do = "save"
    BY <2>3, <2>5, OwedTypes
  <2> HIDE DEF r
  <2> QED BY <2>1, <2>4, <2>5, NativeAnswers DEF r
<1> HIDE DEF r
<1>4. Number(work', SaveRequests) \in Nat /\ Number(alerts', SaveAnswers) \in Nat
  <2>1. TypeOK' => (Number(work, SaveRequests) \in Nat)' /\ (Number(alerts, SaveAnswers) \in Nat)'
    BY OwedAre, PTL
  <2> QED BY <2>1
<1>5. Owed' <= Owed + 0
  BY <1>1, <1>2, <1>3, <1>4, OwedTypes DEF Owed
<1>6. count' = count + 0 /\ Waiters' = Waiters
  BY OwedTypes DEF NativeStep, Waiters, Waiting, InSession
<1> QED BY <1>5, <1>6, CountFrame

(* Nothing that is counted changes.                                        *)
LEMMA CountStays ==
    ASSUME TypeOK, TypeOK', Counted, UNCHANGED <<count, torrents, searches>>, Owed' = Owed
    PROVE  Counted'
<1>1. count' = count + 0 /\ Owed' <= Owed + 0
  BY OwedTypes
<1>2. Waiters' = Waiters
  BY DEF Waiters, Waiting, InSession
<1> QED BY <1>1, <1>2, CountFrame

LEMMA SavesCounted ==
    ASSUME TypeOK, TypeOK', Counted, NEW ids \in SUBSET Id, NEW always \in BOOLEAN,
           work' = work \o Saves(ids, always), count' = count + Cardinality(ids),
           UNCHANGED <<torrents, searches, alerts, batch>>
    PROVE  Counted'
<1> DEFINE t == Saves(ids, always)
<1>1. t \in Seq(Request) /\ Len(t) = Cardinality(ids) /\ Cardinality(ids) \in Nat
      /\ \A i \in DOMAIN t : t[i].do = "save"
  BY SavesAre
<1>2. work' = work \o t
  OBVIOUS
<1> HIDE DEF t
<1>3. \A i \in DOMAIN t : t[i] \in SaveRequests
  BY <1>1, Elements, SaveKinds
<1>4. Number(t, SaveRequests) = Cardinality(ids)
  BY <1>1, <1>3, NumberAll
<1>5. Number(work', SaveRequests) = Number(work, SaveRequests) + Cardinality(ids)
  BY <1>1, <1>2, <1>4, QueuesAre, NumberJoined
<1>6. Owed' = Owed + Cardinality(ids)
  BY <1>1, <1>5, OwedTypes DEF Owed
<1>7. Waiters' = Waiters
  BY DEF Waiters, Waiting, InSession
<1> QED BY <1>1, <1>6, <1>7, OwedTypes, CountFrame

LEMMA MoreRequests ==
    ASSUME NEW w \in Seq(Request), NEW r \in Request
    PROVE  Number(Append(w, r), SaveRequests) = Number(w, SaveRequests) + IF r.do = "save" THEN 1 ELSE 0
BY NumberAppended, SaveKinds

LEMMA MoreRequestsSame ==
    ASSUME NEW w \in Seq(Request), NEW r \in Request, r.do # "save"
    PROVE  Number(Append(w, r), SaveRequests) = Number(w, SaveRequests)
<1>1. Number(Append(w, r), SaveRequests) = Number(w, SaveRequests) + 0
  BY MoreRequests
<1>2. Number(w, SaveRequests) \in Nat
  BY PositionsFinite
<1> QED BY <1>1, <1>2

-----------------------------------------------------------------------------
LEMMA NoSavesJoined ==
    ASSUME NEW w \in Seq(Request), NEW t \in Seq(Request), \A i \in DOMAIN t : t[i].do # "save"
    PROVE  Number(w \o t, SaveRequests) = Number(w, SaveRequests)
<1>1. \A i \in DOMAIN t : t[i] \notin SaveRequests
  BY DEF SaveRequests
<1>2. Number(t, SaveRequests) = 0 /\ Number(w, SaveRequests) \in Nat
  BY <1>1, PositionsFinite
<1> QED BY <1>2, NumberJoined

LEMMA HandleLoadedCounts ==
    ASSUME TypeOK, TypeOK', StartupInv, Counted, HandleLoadedResumeData
    PROVE  Counted'
<1> DEFINE t == LoadedRequests
<1>1. /\ phase = "startup" /\ work' = work \o t
      /\ UNCHANGED <<torrents, searches, count, alertVars>>
  BY DEF HandleLoadedResumeData, LoadedRequests
<1>2. \A i \in Id : InLoaded(i) => stored[i] # NoData
  BY <1>1 DEF StartupInv, Starting, UnreadInv, Unread
<1>3. t \in Seq(Request) /\ \A i \in DOMAIN t : t[i].do # "save"
  BY <1>2, LoadedRequestsAre
<1> HIDE DEF t
<1>4. Number(work', SaveRequests) = Number(work, SaveRequests)
  BY <1>1, <1>3, QueuesAre, NoSavesJoined
<1>5. Owed' = Owed
  BY <1>1, <1>4 DEF Owed, alertVars
<1> QED BY <1>1, <1>5, CountStays

LEMMA CancelNoSaves ==
    ASSUME NEW w \in Seq(Request), NEW id \in Id
    PROVE  w \o Cancel(id) \in Seq(Request)
           /\ Number(w \o Cancel(id), SaveRequests) = Number(w, SaveRequests)
<1>1. RemoveNative(id, "hidden").do = "remove"
  BY RequestTypes, KindsAre
<1>2. Cancel(id) \in Seq(Request) /\ \A i \in DOMAIN Cancel(id) : Cancel(id)[i].do # "save"
  <2>1. CASE hidden[id] = "handle"
    BY <1>1, <2>1, CancelIs
  <2>2. CASE hidden[id] # "handle"
    BY <2>2, CancelIs
  <2> QED BY <2>1, <2>2
<1> QED BY <1>2, NoSavesJoined, Joined

LEMMA AddTorrentCounts ==
    ASSUME TypeOK, TypeOK', Counted, NEW j \in Id, AddTorrent(j)
    PROVE  Counted'
<1>1. ~InSession(j) /\ UNCHANGED <<torrents, count, alertVars>>
  BY DEF AddTorrent
<1>2. PICK info \in BOOLEAN : \E search \in IF info THEN BOOLEAN ELSE {FALSE} :
          LET data == [own |-> 0, progress |-> 0, info |-> info]
          IN  /\ loading' = [loading EXCEPT ![j] = data]
              /\ searches' = IF search THEN [searches EXCEPT ![j] = @ + 1] ELSE searches
              /\ work' = work \o Cancel(j) \o
                             IF search THEN <<>> ELSE <<AddNative(j, "own", data)>>
  BY DEF AddTorrent
<1>3. PICK search \in BOOLEAN :
          LET data == [own |-> 0, progress |-> 0, info |-> info]
          IN  /\ loading' = [loading EXCEPT ![j] = data]
              /\ searches' = IF search THEN [searches EXCEPT ![j] = @ + 1] ELSE searches
              /\ work' = work \o Cancel(j) \o
                             IF search THEN <<>> ELSE <<AddNative(j, "own", data)>>
  BY <1>2
<1> DEFINE data == [own |-> 0, progress |-> 0, info |-> info]
           r == AddNative(j, "own", data)
           w == work \o Cancel(j)
<1>4. data \in Data
  BY DataIs
<1>5. r \in Request /\ r.do = "add"
  <2> HIDE DEF data
  <2> QED BY <1>4, RequestTypes, KindsAre
<1>6. /\ searches' = IF search THEN [searches EXCEPT ![j] = searches[j] + 1] ELSE searches
      /\ work' = w \o IF search THEN <<>> ELSE <<r>>
  BY <1>3
<1>7. w \in Seq(Request) /\ Number(w, SaveRequests) = Number(work, SaveRequests)
  BY QueuesAre, CancelNoSaves
<1> HIDE DEF data, r, w
<1>8. Number(work', SaveRequests) = Number(w, SaveRequests)
  <2>1. CASE search
    BY <1>5, <1>6, <1>7, <2>1, OneMore
  <2>2. CASE ~search
    <3>1. work' = Append(w, r)
      BY <1>5, <1>6, <1>7, <2>2, OneMore
    <3> QED BY <1>5, <1>7, <3>1, MoreRequestsSame
  <2> QED BY <2>1, <2>2
<1>9. Owed' = Owed
  BY <1>1, <1>7, <1>8 DEF Owed, alertVars
<1>10. Waiters' \subseteq Waiters
  <2>1. \A i \in Id : i # j => searches'[i] = searches[i]
    BY <1>6 DEF TypeOK
  <2> QED BY <1>1, <2>1 DEF Waiters, Waiting, InSession
<1>11. count' = count + 0 /\ Owed' <= Owed + 0
  BY <1>1, <1>9, OwedTypes
<1> QED BY <1>10, <1>11, CountFrame

LEMMA RequestsCount ==
    ASSUME TypeOK, TypeOK', Counted, NEW j \in Id,
           DownloadMetadata(j) \/ CancelDownloadMetadata(j) \/ DeleteTorrent(j)
    PROVE  Counted'
<1>1. /\ UNCHANGED <<searches, count, alertVars>>
      /\ torrents' \in {torrents, [torrents EXCEPT ![j] = None]}
  BY DEF DownloadMetadata, CancelDownloadMetadata, DeleteTorrent
<1>2. Number(work', SaveRequests) = Number(work, SaveRequests)
  <2>1. CASE DownloadMetadata(j)
    <3> DEFINE data == [own |-> 0, progress |-> 0, info |-> FALSE]
               r == AddNative(j, "hidden", data)
    <3>0. data \in Data
      BY DataIs
    <3>1. r \in Request /\ r.do # "save"
      <4> HIDE DEF data
      <4> QED BY <3>0, RequestTypes, KindsAre
    <3>2. work' = Append(work, r)
      BY <2>1 DEF DownloadMetadata
    <3> HIDE DEF r
    <3> QED BY <3>1, <3>2, QueuesAre, MoreRequestsSame
  <2>2. CASE CancelDownloadMetadata(j)
    <3>1. work' = work \o Cancel(j)
      BY <2>2 DEF CancelDownloadMetadata
    <3> QED BY <3>1, QueuesAre, CancelNoSaves
  <2>3. CASE DeleteTorrent(j)
    <3> DEFINE r == RemoveNative(j, torrents[j].kind)
    <3>1. torrents[j].kind \in Kinds
      <4>1. torrents[j] \in TorrentImpl
        BY <2>3 DEF DeleteTorrent, InSession, TypeOK
      <4> QED BY <4>1, TorrentIs
    <3>2. r \in Request /\ r.do # "save"
      BY <3>1, RequestTypes
    <3>3. work' = Append(work, r)
      BY <2>3 DEF DeleteTorrent
    <3> HIDE DEF r
    <3> QED BY <3>2, <3>3, QueuesAre, MoreRequestsSame
  <2> QED BY <2>1, <2>2, <2>3
<1>3. Owed' = Owed
  BY <1>1, <1>2 DEF Owed, alertVars
<1>4. Waiters' \subseteq Waiters
  BY <1>1 DEF Waiters, Waiting, InSession, TypeOK
<1>5. count' = count + 0 /\ Owed' <= Owed + 0
  BY <1>1, <1>3, OwedTypes
<1> QED BY <1>4, <1>5, CountFrame

LEMMA ChangeTorrentCounts ==
    ASSUME TypeOK, TypeOK', Counted, NEW j \in Id, ChangeTorrent(j)
    PROVE  Counted'
<1>1. /\ UNCHANGED <<searches, count, work, alertVars>> /\ torrents[j] # None
      /\ torrents' = [torrents EXCEPT ![j] = [torrents[j] EXCEPT !.own = torrents[j].own + 1]]
  BY DEF ChangeTorrent, InSession
<1>2. torrents \in [Id -> TorrentImpl \union {None}] /\ torrents[j] \in TorrentImpl
  BY <1>1 DEF TypeOK
<1>3. [torrents[j] EXCEPT !.own = torrents[j].own + 1].received = torrents[j].received
  BY <1>2 DEF TorrentImpl
<1>4. \A i \in Id : torrents'[i].received = torrents[i].received /\ (torrents'[i] # None => torrents[i] # None)
  BY <1>1, <1>2, <1>3
<1>5. Waiters' \subseteq Waiters
  BY <1>1, <1>4 DEF Waiters, Waiting, InSession
<1>6. Owed' = Owed
  BY <1>1 DEF Owed, alertVars
<1>7. count' = count + 0 /\ Owed' <= Owed + 0
  BY <1>1, <1>6, OwedTypes
<1> QED BY <1>5, <1>7, CountFrame

LEMMA SearchFinishedCounts ==
    ASSUME TypeOK, TypeOK', Counted, NEW j \in Id, SearchFinished(j)
    PROVE  Counted'
<1>1. /\ searches[j] > 0 /\ searches' = [searches EXCEPT ![j] = searches[j] - 1]
      /\ UNCHANGED alertVars
  BY DEF SearchFinished
<1>2. torrents \in [Id -> TorrentImpl \union {None}] /\ searches \in [Id -> Nat]
  BY DEF TypeOK
<1>3. searches[j] \in Nat /\ searches'[j] = searches[j] - 1 /\ \A i \in Id : i # j => searches'[i] = searches[i]
  BY <1>1, <1>2
<1>4. CASE InSession(j) /\ torrents[j].received
  <2> DEFINE t == [torrents[j] EXCEPT !.received = FALSE, !.info = TRUE]
  <2>1. torrents' = [torrents EXCEPT ![j] = t] /\ UNCHANGED work /\ count' = count - 1
    BY <1>4 DEF SearchFinished
  <2>2. torrents[j] \in TorrentImpl
    BY <1>2, <1>4 DEF InSession
  <2>3. t.received = FALSE
    BY <2>2 DEF TorrentImpl
  <2> HIDE DEF t
  <2>4. torrents'[j].received = FALSE /\ \A i \in Id : i # j => torrents'[i] = torrents[i]
    BY <1>2, <2>1, <2>3
  <2>5. j \in Waiters /\ Waiters' \subseteq Waiters \ {j}
    <3>1. j \in Waiters
      BY <1>1, <1>4 DEF Waiters, Waiting
    <3>2. j \notin Waiters'
      BY <2>4 DEF Waiters, Waiting
    <3>3. Waiters' \subseteq Waiters
      <4> SUFFICES ASSUME NEW i \in Id, Waiting(i)' PROVE Waiting(i)
        BY DEF Waiters
      <4>1. i # j
        BY <2>4 DEF Waiting
      <4> QED BY <1>3, <2>4, <4>1 DEF Waiting, InSession
    <3> QED BY <3>1, <3>2, <3>3
  <2>6. Cardinality(Waiters \ {j}) = Cardinality(Waiters) - 1 /\ IsFiniteSet(Waiters \ {j})
    BY <2>5, OwedTypes, FS_RemoveElement
  <2>7. Cardinality(Waiters') <= Cardinality(Waiters) - 1
    BY <2>5, <2>6, FS_Subset
  <2>8. Owed' = Owed
    BY <1>1, <2>1 DEF Owed, alertVars
  <2>9. (Cardinality(Waiters) \in Nat)'
    <3>1. TypeOK' => (Cardinality(Waiters) \in Nat)'
      BY OwedAre, PTL
    <3> QED BY <3>1
  <2> QED BY <2>1, <2>7, <2>8, <2>9, OwedTypes DEF Counted
<1>5. CASE ~(InSession(j) /\ torrents[j].received)
  <2>1. /\ work' = IF InSession(j) \/ loading[j] = None THEN work
                   ELSE Append(work, AddNative(j, "own", loading[j]))
        /\ UNCHANGED <<torrents, count>>
    BY <1>5 DEF SearchFinished
  <2> DEFINE r == AddNative(j, "own", loading[j])
  <2>2. loading[j] # None => r \in Request /\ r.do # "save"
    <3>1. loading[j] # None => loading[j] \in Data
      BY DEF TypeOK
    <3> QED BY <3>1, RequestTypes, KindsAre
  <2>3. work' = IF InSession(j) \/ loading[j] = None THEN work ELSE Append(work, r)
    BY <2>1
  <2> HIDE DEF r
  <2>4. Number(work', SaveRequests) = Number(work, SaveRequests)
    BY <2>2, <2>3, QueuesAre, MoreRequestsSame
  <2>5. Owed' = Owed
    BY <1>1, <2>4 DEF Owed, alertVars
  <2>6. Waiters' \subseteq Waiters
    BY <1>1, <1>3, <2>1 DEF Waiters, Waiting, InSession
  <2>7. count' = count + 0 /\ Owed' <= Owed + 0
    BY <2>1, <2>5, OwedTypes
  <2> QED BY <2>6, <2>7, CountFrame
<1> QED BY <1>4, <1>5

LEMMA ReadAlertsCounts ==
    ASSUME TypeOK, TypeOK', Counted, ReadAlerts
    PROVE  Counted'
<1>1. /\ batch = <<>> /\ alerts' = <<>> /\ batch' = alerts
      /\ UNCHANGED <<torrents, searches, count, work>>
  BY DEF ReadAlerts, Idle
<1>2. Owed' = Owed
  BY <1>1, NumberEmpty, OwedTypes DEF Owed
<1> QED BY <1>1, <1>2, CountStays

LEMMA HandleAddedCounts ==
    ASSUME TypeOK, TypeOK', Counted, HandleAdded
    PROVE  Counted'
<1> DEFINE a == Head(adds)
           t == [kind |-> a.kind, own |-> loading[a.id].own,
                 info |-> loading[a.id].info, received |-> FALSE]
           r == SaveNative(a.id, TRUE)
<1>1. a.id \in Id
  BY QueuesAre, AlertsMove, AlertParts DEF HandleAdded
<1>2. r \in Request /\ r.do = "save"
  BY <1>1, RequestTypes
<1>3. UNCHANGED <<searches, alerts, batch>>
  BY DEF HandleAdded
<1>4. torrents' \in {torrents, [torrents EXCEPT ![a.id] = t]}
      /\ \/ UNCHANGED <<work, count>>
         \/ work' = Append(work, r) /\ count' = count + 1
  <2>1. CASE OnAdded(a)
    <3> HIDE DEF a, t, r
    <3>1. CASE CreateTorrent(a)
      BY <3>1 DEF CreateTorrent, t, r
    <3>2. CASE ~CreateTorrent(a)
      BY <2>1, <3>2 DEF OnAdded
    <3> QED BY <3>1, <3>2
  <2>2. CASE OnOther(a)
    BY <2>2 DEF OnOther
  <2> QED BY <2>1, <2>2 DEF HandleAdded
<1>5. t.received = FALSE
  OBVIOUS
<1> HIDE DEF a, t, r
<1>6. Waiters' \subseteq Waiters
  <2>1. CASE torrents' = torrents
    BY <1>3, <2>1 DEF Waiters, Waiting, InSession
  <2>2. CASE torrents' = [torrents EXCEPT ![a.id] = t]
    <3>1. torrents'[a.id].received = FALSE /\ \A i \in Id : i # a.id => torrents'[i] = torrents[i]
      BY <1>1, <1>5, <2>2 DEF TypeOK
    <3> SUFFICES ASSUME NEW i \in Id, Waiting(i)' PROVE Waiting(i)
      BY DEF Waiters
    <3>2. i # a.id
      BY <3>1 DEF Waiting
    <3> QED BY <1>3, <3>1, <3>2 DEF Waiting, InSession
  <2> QED BY <1>4, <2>1, <2>2
<1>7. CASE UNCHANGED <<work, count>>
  <2>1. Owed' = Owed
    BY <1>3, <1>7 DEF Owed
  <2>2. count' = count + 0 /\ Owed' <= Owed + 0
    BY <1>7, <2>1, OwedTypes
  <2> QED BY <1>6, <2>2, CountFrame
<1>8. CASE work' = Append(work, r) /\ count' = count + 1
  <2>1. Number(work', SaveRequests) = Number(work, SaveRequests) + 1
    BY <1>2, <1>8, QueuesAre, MoreRequests
  <2>2. Owed' = Owed + 1
    BY <1>3, <2>1, OwedTypes DEF Owed
  <2>3. Owed' <= Owed + 1
    BY <2>2, OwedTypes
  <2> QED BY <1>6, <1>8, <2>3, CountFrame
<1> QED BY <1>4, <1>7, <1>8

LEMMA OneLess ==
    ASSUME TypeOK, TypeOK', NEW n \in {0, 1},
           Number(batch, SaveAnswers) = Number(batch', SaveAnswers) + n,
           Number(alerts', SaveAnswers) = Number(alerts, SaveAnswers),
           Number(work', SaveRequests) = Number(work, SaveRequests)
    PROVE  Owed' = Owed + (-n) /\ Owed' <= Owed
<1>1. Number(batch', SaveAnswers) \in Nat
  <2>1. TypeOK' => batch' \in Seq(Alert)
    BY DEF TypeOK
  <2> QED BY <2>1, PositionsFinite
<1>2. /\ Number(work, SaveRequests) \in Nat /\ Number(alerts, SaveAnswers) \in Nat
      /\ Number(batch, SaveAnswers) \in Nat
  BY OwedTypes
<1>3. Owed' = Number(work', SaveRequests) + Number(alerts', SaveAnswers) + Number(batch', SaveAnswers)
  BY DEF Owed
<1> QED BY <1>1, <1>2, <1>3 DEF Owed

LEMMA HandleAlertCounts ==
    ASSUME TypeOK, TypeOK', ~Overlap, FlowInv, Counted, HandleAlert
    PROVE  Counted'
<1> SUFFICES ASSUME NEW a \in Alert, a = Head(batch) PROVE Counted'
  BY QueuesAre, AlertsMove DEF HandleAlert
<1> DEFINE id == a.id
<1>1. /\ batch # <<>> /\ batch' = Tail(batch)
      /\ OnSaved(a) \/ OnNotModified(a) \/ OnMetadata(a) \/ OnUnknown(a)
      /\ UNCHANGED alerts
  BY DEF HandleAlert
<1>2. a \in Alert /\ id \in Id
  BY AlertParts
<1>3. Number(batch, SaveAnswers) = Number(batch', SaveAnswers) + IF a.is \in {"saved", "not modified"} THEN 1 ELSE 0
  BY <1>1, <1>2, QueuesAre, NumberRest, SaveKinds
<1>4. Number(batch', SaveAnswers) \in Nat
  <2>1. TypeOK' => batch' \in Seq(Alert)
    BY DEF TypeOK
  <2> QED BY <2>1, PositionsFinite
<1> DEFINE r == RemoveNative(id, "hidden")
<1>5. r \in Request /\ r.do # "save"
  BY <1>2, RequestTypes, KindsAre
<1>6. work' \in {work, Append(work, r)}
  BY <1>1 DEF OnSaved, OnNotModified, OnMetadata, OnUnknown
<1> HIDE DEF r
<1>8. Number(work', SaveRequests) = Number(work, SaveRequests)
  BY <1>5, <1>6, QueuesAre, MoreRequestsSame
<1>7. Number(alerts', SaveAnswers) = Number(alerts, SaveAnswers)
  BY <1>1
<1>9. a.is = "saved" \/ a.is = "not modified" => Owed' = Owed + (-1)
  <2>1. a.is = "saved" \/ a.is = "not modified"
            => Number(batch, SaveAnswers) = Number(batch', SaveAnswers) + 1
    BY <1>3
  <2> QED BY <1>7, <1>8, <2>1, OneLess
<1>11. Owed' <= Owed
  <2>1. \E n \in {0, 1} : Number(batch, SaveAnswers) = Number(batch', SaveAnswers) + n
    BY <1>3
  <2> QED BY <1>7, <1>8, <2>1, OneLess
<1>12. torrents \in [Id -> TorrentImpl \union {None}] /\ searches \in [Id -> Nat]
  BY DEF TypeOK
<1>13. a.is = "metadata" => MetadataPending(id, a.kind)
  <2>1. a.is = "metadata" => a \in Metadata(id, a.kind)
    BY <1>2 DEF Metadata
  <2> QED BY <1>1, <2>1, QueuesAre, HasRest DEF MetadataPending
<1>14. CASE OnSaved(a)
  <2>1. a.is = "saved" /\ UNCHANGED torrents
    BY <1>14 DEF OnSaved
  <2>2. CASE torrents[id].received
    <3>1. count' = count /\ searches' = [searches EXCEPT ![id] = searches[id] + 1]
      BY <1>14, <2>2 DEF OnSaved
    <3>2. Waiters' \subseteq Waiters \union {id}
      <4>1. \A i \in Id : i # id => searches'[i] = searches[i]
        BY <1>2, <1>12, <3>1
      <4> HIDE DEF id
      <4> QED BY <2>1, <4>1 DEF Waiters, Waiting, InSession
    <3>3. /\ IsFiniteSet(Waiters \union {id})
          /\ Cardinality(Waiters \union {id}) \in {Cardinality(Waiters), Cardinality(Waiters) + 1}
      BY OwedTypes, FS_AddElement
    <3>4. Cardinality(Waiters') <= Cardinality(Waiters) + 1
      <4>1. Cardinality(Waiters') <= Cardinality(Waiters \union {id})
        BY <3>2, <3>3, FS_Subset
      <4>2. (Cardinality(Waiters) \in Nat)'
        <5>1. TypeOK' => (Cardinality(Waiters) \in Nat)'
          BY OwedAre, PTL
        <5> QED BY <5>1
      <4> QED BY <3>3, <4>1, <4>2, OwedTypes
    <3>5. (Cardinality(Waiters) \in Nat)' /\ (Owed \in Nat)'
      <4>1. TypeOK' => (Cardinality(Waiters) \in Nat)' /\ (Owed \in Nat)'
        BY OwedAre, PTL
      <4> QED BY <4>1
    <3>6. Owed' = Owed + (-1)
      BY <1>9, <2>1
    <3> QED BY <3>1, <3>4, <3>5, <3>6, OwedTypes DEF Counted
  <2>3. CASE ~torrents[id].received
    <3>1. count' = count - 1 /\ searches' = searches
      BY <1>14, <2>3 DEF OnSaved
    <3>2. Waiters' = Waiters
      BY <2>1, <3>1 DEF Waiters, Waiting, InSession
    <3>3. count' = count + (-1) /\ Owed' <= Owed + (-1)
      <4>1. Owed' = Owed + (-1)
        BY <1>9, <2>1
      <4> QED BY <3>1, <4>1, OwedTypes
    <3> QED BY <3>2, <3>3, CountFrame
  <2> QED BY <2>2, <2>3
<1>15. CASE OnNotModified(a)
  <2>1. a.is = "not modified" /\ UNCHANGED <<torrents, searches>> /\ count' = count - 1
    BY <1>15 DEF OnNotModified
  <2>2. Waiters' = Waiters
    BY <2>1 DEF Waiters, Waiting, InSession
  <2>3. count' = count + (-1) /\ Owed' <= Owed + (-1)
    <3>1. Owed' = Owed + (-1)
      BY <1>9, <2>1
    <3>2. count' = count - 1
      BY <2>1
    <3> QED BY <3>1, <3>2, OwedTypes
  <2> QED BY <2>2, <2>3, CountFrame
<1>16. CASE OnUnknown(a)
  <2>1. UNCHANGED <<torrents, searches, count>>
    BY <1>16 DEF OnUnknown
  <2>2. Waiters' = Waiters
    BY <2>1 DEF Waiters, Waiting, InSession
  <2>3. count' = count + 0 /\ Owed' <= Owed + 0
    BY <1>11, <2>1, OwedTypes
  <2> QED BY <2>2, <2>3, CountFrame
<1>17. CASE OnMetadata(a)
  <2>1. a.is = "metadata" /\ UNCHANGED <<searches, count>>
        /\ torrents' \in {torrents, [torrents EXCEPT ![id] = [torrents[id] EXCEPT !.received = TRUE]]}
    BY <1>17 DEF OnMetadata
  <2>2. InSession(id) => searches[id] = 0
    <3> SUFFICES ASSUME InSession(id) PROVE searches[id] = 0
      OBVIOUS
    <3>1. OwnerInv(id) /\ Owner(id)
      BY <1>2 DEF FlowInv, FlowOf, Owner
    <3>2. a.kind = "own"
      BY <1>17, <3>1 DEF OnMetadata, Recognised, OwnerInv
    <3>3. ~HasInfo(id)
      BY <1>13, <2>1, <3>1, <3>2 DEF OwnerInv
    <3> QED BY <1>2, <1>12, <3>1, <3>3 DEF OwnerInv
  <2>3. Waiters' \subseteq Waiters
    <3> SUFFICES ASSUME NEW i \in Id, Waiting(i)' PROVE Waiting(i)
      BY DEF Waiters
    <3>1. CASE ~InSession(id)
      <4>1. torrents' = torrents
        BY <1>17, <3>1 DEF OnMetadata
      <4> QED BY <2>1, <4>1 DEF Waiting, InSession
    <3>2. CASE InSession(id)
      <4>1. i # id
        BY <1>12, <2>1, <2>2, <3>2 DEF Waiting
      <4>2. torrents'[i] = torrents[i]
        BY <1>2, <1>12, <2>1, <4>1
      <4> QED BY <2>1, <4>2 DEF Waiting, InSession
    <3> QED BY <3>1, <3>2
  <2>4. count' = count + 0 /\ Owed' <= Owed + 0
    BY <1>11, <2>1, OwedTypes
  <2> QED BY <2>3, <2>4, CountFrame
<1> QED BY <1>1, <1>14, <1>15, <1>16, <1>17

-----------------------------------------------------------------------------
LEMMA FreshCounts == Fresh => Counted
<1> SUFFICES ASSUME Fresh PROVE Counted
  OBVIOUS
<1>1. /\ work = <<>> /\ alerts = <<>> /\ batch = <<>> /\ count = 0
      /\ \A id \in Id : torrents[id] = None
  BY DEF Fresh
<1>2. Owed = 0
  BY <1>1, NumberEmpty DEF Owed
<1>3. Waiters = {}
  BY <1>1 DEF Waiters, Waiting, InSession
<1>4. Cardinality(Waiters) = 0
  BY <1>3, FS_EmptySet
<1> QED BY <1>1, <1>2, <1>4 DEF Counted

LEMMA CountedStep ==
    ~Overlap /\ TypeOK /\ StartupInv /\ FlowInv /\ TypeOK' /\ Counted /\ [Next]_vars => Counted'
<1> SUFFICES ASSUME ~Overlap, TypeOK, StartupInv, FlowInv, TypeOK', Counted, [Next]_vars PROVE Counted'
  OBVIOUS
<1>1. CASE Restart
  <2>1. Fresh' => Counted'
    BY FreshCounts, PTL
  <2> QED BY <1>1, <2>1, RestartFresh
<1>2. CASE NativeStep
  BY <1>2, NativeStepCounts
<1>3. CASE HandleLoadedResumeData
  BY <1>3, HandleLoadedCounts
<1>4. CASE ReadAlerts
  BY <1>4, ReadAlertsCounts
<1>5. CASE HandleAdded
  BY <1>5, HandleAddedCounts
<1>6. CASE HandleAlert
  BY <1>6, HandleAlertCounts
<1>7. CASE SaveNeeded \/ GenerateResumeData \/ Exit
  <2>1. \E ids \in SUBSET Id, always \in BOOLEAN :
            work' = work \o Saves(ids, always) /\ count' = count + Cardinality(ids)
    <3>1. CASE SaveNeeded
      <4> DEFINE ids == {id \in needSave : InSession(id)}
      <4>1. work' = work \o Saves(ids, TRUE) /\ count' = count + Cardinality(ids)
        BY <3>1 DEF SaveNeeded
      <4>2. ids \in SUBSET Id
        BY DEF TypeOK
      <4> HIDE DEF ids
      <4> QED BY <4>1, <4>2
    <3>2. CASE GenerateResumeData
      BY <3>2 DEF GenerateResumeData
    <3>3. CASE Exit
      BY <3>3 DEF Exit
    <3> QED BY <1>7, <3>1, <3>2, <3>3
  <2>2. UNCHANGED <<torrents, searches, alerts, batch>>
    BY <1>7 DEF SaveNeeded, GenerateResumeData, Exit, alertVars
  <2> QED BY <2>1, <2>2, SavesCounted
<1>8. CASE ReadNext \/ LoadFinished \/ End \/ UNCHANGED vars
  <2>1. UNCHANGED <<count, torrents, searches, work, alerts, batch>>
    BY <1>8 DEF ReadNext, LoadFinished, End, vars, alertVars
  <2>2. Owed' = Owed
    BY <2>1 DEF Owed
  <2> QED BY <2>1, <2>2, CountStays
<1>9. ASSUME NEW i \in Id, NativeProgress(i) \/ NativeMetadata(i)
      PROVE  Counted'
  <2>1. UNCHANGED <<count, torrents, searches, work, batch>>
    BY <1>9 DEF NativeProgress, NativeMetadata, alertVars
  <2>2. Number(alerts', SaveAnswers) = Number(alerts, SaveAnswers)
    <3>1. CASE NativeProgress(i)
      BY <3>1 DEF NativeProgress, alertVars
    <3>2. CASE NativeMetadata(i)
      <4>1. PICK a : alerts' = Append(alerts, a) /\ a.is = "metadata"
        BY <3>2 DEF NativeMetadata
      <4>2. alerts' \in Seq(Alert)
        BY DEF TypeOK
      <4>3. a \in Alert
        BY <4>1, <4>2, QueuesAre, LastIs
      <4>4. a \notin SaveAnswers
        BY <4>1, <4>3, SaveKinds
      <4>5. Number(alerts', SaveAnswers) = Number(alerts, SaveAnswers) + 0
        BY <4>1, <4>3, <4>4, QueuesAre, NumberAppended
      <4> QED BY <4>5, OwedTypes
    <3> QED BY <1>9, <3>1, <3>2
  <2>3. Owed' = Owed
    BY <2>1, <2>2 DEF Owed
  <2> QED BY <2>1, <2>3, CountStays
<1>10. ASSUME NEW i \in Id,
             \/ AddTorrent(i) \/ DownloadMetadata(i) \/ CancelDownloadMetadata(i)
             \/ DeleteTorrent(i) \/ ChangeTorrent(i) \/ SearchFinished(i)
       PROVE  Counted'
  BY <1>10, AddTorrentCounts, RequestsCount, ChangeTorrentCounts, SearchFinishedCounts
<1> QED BY <1>1, <1>2, <1>3, <1>4, <1>5, <1>6, <1>7, <1>8, <1>9, <1>10 DEF Next

LEMMA CountedInvariant ==
    ~Overlap => (Spec => [](TypeOK /\ StartupInv /\ FlowInv /\ Counted))
<1>1. Init => Counted
  BY InitFresh, FreshCounts
<1>2. ~Overlap /\ TypeOK /\ StartupInv /\ FlowInv /\ TypeOK' /\ Counted /\ [Next]_vars => Counted'
  BY CountedStep
<1>3. ~Overlap => [](~Overlap)
  OBVIOUS
<1> QED BY <1>1, <1>2, <1>3, FlowInvariant, PTL DEF Spec

(* m_numResumeData counts at least every request for resume data and every *)
(* answer that is on its way, and the metadata that wait for their files,  *)
(* so the loop at exit does not end too soon (saveResumeData,              *)
(* handleTorrentSaveResumeDataRequested, handleTorrentResumeDataReady).    *)
THEOREM OutstandingCounted == ~Overlap => (Spec => []OutstandingAreCounted)
<1>1. TypeOK /\ Counted => OutstandingAreCounted
  <2> SUFFICES ASSUME TypeOK, Counted PROVE OutstandingAreCounted
    OBVIOUS
  <2>1. Requests = Positions(work, SaveRequests)
    BY QueuesAre, Elements, SaveKinds DEF Requests, Positions
  <2>2. Answers(alerts) = Positions(alerts, SaveAnswers)
    BY QueuesAre, Elements, SaveKinds DEF Answers, Positions
  <2>3. Answers(batch) = Positions(batch, SaveAnswers)
    BY QueuesAre, Elements, SaveKinds DEF Answers, Positions
  <2> QED BY <2>1, <2>2, <2>3 DEF OutstandingAreCounted, Counted, Owed, Number, Waiters
<1> QED BY <1>1, CountedInvariant, PTL

-----------------------------------------------------------------------------
(* Changes that are not stored: while the program runs every save is asked *)
(* for unconditionally and is answered with data.                          *)
SavesOf(id) == {r \in Request : r.do = "save" /\ r.id = id}
SavedOf(id) == {a \in Alert : a.is = "saved" /\ a.id = id}
Conditional == {r \in Request : r.do = "save" /\ ~r.always}
NotModified == {a \in Alert : a.is = "not modified"}

SavesAlways == ~Has(work, Conditional) /\ ~Has(alerts, NotModified) /\ ~Has(batch, NotModified)
Underway(id) == Has(work, SavesOf(id)) \/ Has(alerts, SavedOf(id)) \/ Has(batch, SavedOf(id))
OwnStored(id) == stored[id] # NoData /\ stored[id].own = torrents[id].own
Remembered(id) == OwnStored(id) \/ id \in needSave \/ Underway(id) \/ Waiting(id)

ChangesInv ==
    Running => SavesAlways /\ \A id \in Id : InSession(id) => Remembered(id)

LEMMA SaveParts ==
    /\ \A id : \A r \in Request : r \in SavesOf(id) <=> r.do = "save" /\ r.id = id
    /\ \A r \in Request : r \in Conditional <=> r.do = "save" /\ ~r.always
    /\ \A id : \A a \in Alert : a \in SavedOf(id) <=> a.is = "saved" /\ a.id = id
    /\ \A a \in Alert : a \in NotModified <=> a.is = "not modified"
BY DEF SavesOf, SavedOf, Conditional, NotModified

LEMMA QueueGrows ==
    ASSUME NEW S, NEW s \in Seq(S)
    PROVE  /\ \A P : \A e \in S : Has(s, P) => Has(Append(s, e), P)
           /\ \A P : \A t \in Seq(S) : Has(s, P) => Has(s \o t, P)
BY HasAppended, HasJoined

LEMMA SavesHave ==
    ASSUME NEW w \in Seq(Request), NEW ids \in SUBSET Id, NEW always \in BOOLEAN
    PROVE  /\ \A id \in ids : Has(w \o Saves(ids, always), SavesOf(id))
           /\ always /\ ~Has(w, Conditional) => ~Has(w \o Saves(ids, always), Conditional)
           /\ \A P : Has(w, P) => Has(w \o Saves(ids, always), P)
<1> DEFINE t == Saves(ids, always)
<1>1. /\ t \in Seq(Request)
      /\ \A i \in DOMAIN t : t[i].do = "save" /\ t[i].id \in ids
  BY SavesAre
<1>6. \A i \in DOMAIN t : t[i].always = always
  BY SavesAre, Zenon
<1>0. \A id \in ids : \E i \in DOMAIN t : t[i].id = id
  BY SavesAre
<1> HIDE DEF t
<1>2. \A i \in DOMAIN t : t[i] \in Request
  BY <1>1, Elements
<1>3. ASSUME NEW id \in ids PROVE Has(t, SavesOf(id))
  <2>1. PICK i \in DOMAIN t : t[i].id = id
    BY <1>0
  <2>2. t[i] \in SavesOf(id)
    BY <1>1, <1>2, <2>1, SaveParts
  <2> QED BY <2>2 DEF Has, Positions
<1>4. always => ~Has(t, Conditional)
  BY <1>1, <1>2, <1>6, SaveParts DEF Has, Positions
<1>5. \A P : Has(w \o t, P) <=> Has(w, P) \/ Has(t, P)
  BY <1>1, HasJoined
<1> QED BY <1>3, <1>4, <1>5 DEF t

(* What libtorrent does with the request of a save.                        *)
LEMMA NativeSaves ==
    ASSUME TypeOK, NativeStep, Head(work).do = "save"
    PROVE  LET id == Head(work).id
           IN  /\ native[id] = None => UNCHANGED <<native, alerts>>
               /\ native[id] # None =>
                      /\ native' = [native EXCEPT ![id].needSave = FALSE]
                      /\ \E a \in Alert :
                            /\ alerts' = Append(alerts, a) /\ a.id = id
                            /\ IF Head(work).always \/ native[id].needSave
                               THEN /\ a.is = "saved" /\ a.progress = native[id].progress
                                    /\ a.info = native[id].info
                               ELSE a.is = "not modified"
<1> DEFINE r == Head(work)
<1>1. r \in Request /\ r.do = "save" /\ r.id \in Id /\ r.always \in BOOLEAN
  BY QueuesAre, RequestsMove, RequestParts DEF NativeStep
<1>2. NativeSave(r)
  BY <1>1 DEF NativeStep, NativeAdd, NativeRemove
<1>3. alerts' \in Seq(Alert)
  BY NativeStepTypes DEF TypeOK
<1> HIDE DEF r
<1>4. CASE native[r.id] = None
  BY <1>2, <1>4 DEF NativeSave, r
<1>5. CASE native[r.id] # None
  <2> DEFINE always == r.always \/ native[r.id].needSave
             saved == [is |-> "saved", id |-> r.id, progress |-> native[r.id].progress,
                       info |-> native[r.id].info]
             same == [is |-> "not modified", id |-> r.id]
             a == IF always THEN saved ELSE same
  <2>1. native' = [native EXCEPT ![r.id].needSave = FALSE] /\ alerts' = Append(alerts, a)
    BY <1>2, <1>5, Zenon DEF NativeSave
  <2>2. /\ saved.is = "saved" /\ saved.id = r.id /\ saved.progress = native[r.id].progress
        /\ saved.info = native[r.id].info /\ same.is = "not modified" /\ same.id = r.id
    OBVIOUS
  <2> HIDE DEF saved, same
  <2>3. a.id = r.id /\ IF always THEN /\ a.is = "saved" /\ a.progress = native[r.id].progress
                                      /\ a.info = native[r.id].info
                       ELSE a.is = "not modified"
    <3>1. CASE always
      BY <2>2, <3>1
    <3>2. CASE ~always
      BY <2>2, <3>2
    <3> QED BY <3>1, <3>2
  <2> HIDE DEF a
  <2>4. a \in Alert
    BY <1>3, <2>1, QueuesAre, LastIs
  <2> QED BY <1>5, <2>1, <2>3, <2>4 DEF r
<1> QED BY <1>4, <1>5

-----------------------------------------------------------------------------
(* Except for libtorrent's own steps, what waits for it only grows; and a  *)
(* save is asked for unconditionally, except at the end.                   *)
Asks(t, unconditional) ==
    /\ t \in Seq(Request)
    /\ \A i \in DOMAIN t : t[i].do = "save" => t[i].always \/ ~unconditional

LEMMA AsksNothing == ASSUME TypeOK, NEW b PROVE Asks(<<>>, b) /\ work \o <<>> = work
BY QueuesAre, EmptySeq DEF Asks

LEMMA AsksOne ==
    ASSUME TypeOK, NEW r \in Request, NEW b, r.do = "save" => r.always \/ ~b
    PROVE  Asks(<<r>>, b) /\ work \o <<r>> = Append(work, r)
<1>1. <<r>> \in Seq(Request) /\ DOMAIN <<r>> = {1} /\ <<r>>[1] = r
  OBVIOUS
<1>2. work \o <<r>> = Append(work, r)
  BY QueuesAre
<1> QED BY <1>1, <1>2 DEF Asks

LEMMA JoinedThrice ==
    ASSUME NEW w \in Seq(Request), NEW t \in Seq(Request), NEW r \in Request
    PROVE  w \o t \o <<>> = w \o t /\ w \o t \o <<r>> = w \o Append(t, r)
<1>1. w \o t \in Seq(Request)
  BY Joined
<1>2. w \o t \o <<>> = w \o t
  BY <1>1
<1>3. <<r>> \in Seq(Request) /\ w \o t \o <<r>> = w \o (t \o <<r>>)
  BY ConcatAssociative
<1>4. t \o <<r>> = Append(t, r)
  OBVIOUS
<1> QED BY <1>2, <1>3, <1>4

LEMMA CancelAsks ==
    ASSUME NEW id \in Id
    PROVE  /\ Cancel(id) \in Seq(Request)
           /\ \A i \in DOMAIN Cancel(id) : Cancel(id)[i].do = "remove"
<1>1. RemoveNative(id, "hidden").do = "remove"
  BY RequestTypes, KindsAre
<1>2. CASE hidden[id] = "handle"
  BY <1>1, <1>2, CancelIs
<1>3. CASE hidden[id] # "handle"
  BY <1>3, CancelIs
<1> QED BY <1>2, <1>3

LEMMA WorkGrows ==
    ASSUME TypeOK, StartupInv, [Next]_vars, ~Restart, ~NativeStep
    PROVE  \E t \in Seq(Request) : work' = work \o t /\ Asks(t, ~Exit)
<1> DEFINE Goal == \E t \in Seq(Request) : work' = work \o t /\ Asks(t, ~Exit)
<1> SUFFICES Goal
  OBVIOUS
<1>1. ASSUME work' = work PROVE Goal
  <2>1. <<>> \in Seq(Request) /\ work' = work \o <<>> /\ Asks(<<>>, ~Exit)
    BY <1>1, AsksNothing DEF Asks
  <2> QED BY <2>1
<1>2. ASSUME NEW r \in Request, work' = Append(work, r), r.do = "save" => r.always PROVE Goal
  <2>1. <<r>> \in Seq(Request) /\ work' = work \o <<r>> /\ Asks(<<r>>, ~Exit)
    BY <1>2, AsksOne DEF Asks
  <2> QED BY <2>1
<1>3. ASSUME NEW t \in Seq(Request), work' = work \o t, \A i \in DOMAIN t : t[i].do # "save" PROVE Goal
  BY <1>3 DEF Asks
<1>4. ASSUME NEW ids \in SUBSET Id, NEW always \in BOOLEAN, work' = work \o Saves(ids, always), always \/ Exit
      PROVE  Goal
  <2> DEFINE t == Saves(ids, always)
  <2>1. t \in Seq(Request)
    BY SavesAre
  <2>2. \A i \in DOMAIN t : t[i].always = always
    BY SavesAre, Zenon
  <2>3. work' = work \o t
    BY <1>4
  <2> HIDE DEF t
  <2>4. Asks(t, ~Exit)
    <3>1. CASE always = TRUE
      BY <2>1, <2>2, <3>1 DEF Asks
    <3>2. CASE Exit
      BY <2>1, <3>2, Zenon DEF Asks
    <3> QED BY <1>4, <3>1, <3>2
  <2> QED BY <2>1, <2>3, <2>4
<1> HIDE DEF Goal
<1>5. CASE \/ ReadNext \/ LoadFinished \/ ReadAlerts \/ End \/ UNCHANGED vars
          \/ \E id \in Id : NativeProgress(id) \/ NativeMetadata(id) \/ ChangeTorrent(id)
  <2>1. work' = work
    BY <1>5 DEF ReadNext, LoadFinished, ReadAlerts, End, vars, NativeProgress, NativeMetadata, ChangeTorrent
  <2> QED BY <1>1, <2>1
<1>6. CASE HandleLoadedResumeData
  <2> DEFINE t == LoadedRequests
  <2>1. phase = "startup" /\ work' = work \o t
    BY <1>6 DEF HandleLoadedResumeData, LoadedRequests
  <2>2. \A i \in Id : InLoaded(i) => stored[i] # NoData
    BY <2>1 DEF StartupInv, Starting, UnreadInv, Unread
  <2>3. t \in Seq(Request) /\ \A i \in DOMAIN t : t[i].do # "save"
    BY <2>2, LoadedRequestsAre
  <2> HIDE DEF t
  <2> QED BY <1>3, <2>1, <2>3
<1>7. CASE SaveNeeded
  <2> DEFINE ids == {id \in needSave : InSession(id)}
  <2>1. work' = work \o Saves(ids, TRUE)
    BY <1>7 DEF SaveNeeded
  <2>2. ids \in SUBSET Id
    BY DEF TypeOK
  <2> HIDE DEF ids
  <2> QED BY <1>4, <2>1, <2>2
<1>8. CASE GenerateResumeData
  <2>1. PICK ids \in SUBSET Id : work' = work \o Saves(ids, TRUE)
    BY <1>8 DEF GenerateResumeData
  <2> QED BY <1>4, <2>1
<1>9. CASE Exit
  <2> DEFINE ids == {id \in Id : InSession(id)}
  <2>1. work' = work \o Saves(ids, FALSE)
    BY <1>9 DEF Exit
  <2>2. ids \in SUBSET Id
    OBVIOUS
  <2> HIDE DEF ids
  <2> QED BY <1>4, <1>9, <2>1, <2>2
<1>10. CASE HandleAlert
  <2>1. Head(batch).id \in Id
    BY <1>10, QueuesAre, AlertsMove, AlertParts DEF HandleAlert
  <2> DEFINE r == RemoveNative(Head(batch).id, "hidden")
  <2>2. r \in Request /\ r.do = "remove"
    BY <2>1, RequestTypes, KindsAre
  <2>3. work' = work \/ work' = Append(work, r)
    <3>1. CASE OnMetadata(Head(batch))
      BY <3>1 DEF OnMetadata
    <3>2. CASE OnSaved(Head(batch)) \/ OnNotModified(Head(batch)) \/ OnUnknown(Head(batch))
      BY <3>2 DEF OnSaved, OnNotModified, OnUnknown
    <3> QED BY <1>10, <3>1, <3>2 DEF HandleAlert
  <2> HIDE DEF r
  <2> QED BY <1>1, <1>2, <2>2, <2>3
<1>11. CASE HandleAdded
  <2> DEFINE a == Head(adds)
             r == SaveNative(a.id, TRUE)
  <2>1. a.id \in Id
    BY <1>11, QueuesAre, AlertsMove, AlertParts DEF HandleAdded
  <2>2. r \in Request /\ r.always = TRUE
    BY <2>1, RequestTypes
  <2>3. work' = Append(work, r) \/ work' = work
    <3> HIDE DEF a, r
    <3>1. CASE CreateTorrent(a)
      BY <3>1 DEF CreateTorrent, r
    <3>2. CASE ~CreateTorrent(a)
      BY <1>11, <3>2 DEF HandleAdded, OnAdded, OnOther, a
    <3> QED BY <3>1, <3>2
  <2> HIDE DEF a, r
  <2>4. r.do = "save" => r.always
    BY <2>2, Zenon
  <2> QED BY <1>1, <1>2, <2>2, <2>3, <2>4
<1>12. ASSUME NEW id \in Id, SearchFinished(id)
       PROVE  Goal
  <2>2. work' = work \/ (loading[id] # None /\ work' = Append(work, AddNative(id, "own", loading[id])))
    <3>1. CASE InSession(id) /\ torrents[id].received
      <4>1. UNCHANGED work
        BY <1>12, <3>1 DEF SearchFinished
      <4> QED BY <4>1
    <3>2. CASE ~(InSession(id) /\ torrents[id].received)
      <4>1. work' = IF InSession(id) \/ loading[id] = None THEN work
                    ELSE Append(work, AddNative(id, "own", loading[id]))
        BY <1>12, <3>2 DEF SearchFinished
      <4>2. CASE InSession(id) \/ loading[id] = None
        BY <4>1, <4>2
      <4>3. CASE ~(InSession(id) \/ loading[id] = None)
        BY <4>1, <4>3
      <4> QED BY <4>2, <4>3
    <3> QED BY <3>1, <3>2
  <2> DEFINE r == AddNative(id, "own", loading[id])
  <2>3. loading[id] # None => r \in Request /\ r.do = "add"
    <3>1. loading[id] # None => loading[id] \in Data
      BY DEF TypeOK
    <3> QED BY <3>1, RequestTypes, KindsAre
  <2>4. work' = work \/ (loading[id] # None /\ work' = Append(work, r))
    BY <2>2
  <2> HIDE DEF r
  <2> QED BY <1>1, <1>2, <2>3, <2>4
<1>13. ASSUME NEW id \in Id, DeleteTorrent(id)
       PROVE  Goal
  <2> DEFINE r == RemoveNative(id, torrents[id].kind)
  <2>1. torrents[id].kind \in Kinds
    <3>1. torrents[id] \in TorrentImpl
      BY <1>13 DEF DeleteTorrent, InSession, TypeOK
    <3> QED BY <3>1, TorrentIs
  <2>2. r \in Request /\ r.do # "save"
    BY <2>1, RequestTypes
  <2>3. work' = Append(work, r)
    BY <1>13 DEF DeleteTorrent
  <2> HIDE DEF r
  <2> QED BY <1>2, <2>2, <2>3
<1>14. ASSUME NEW id \in Id, DownloadMetadata(id)
       PROVE  Goal
  <2> DEFINE data == [own |-> 0, progress |-> 0, info |-> FALSE]
             r == AddNative(id, "hidden", data)
  <2>1. data \in Data
    BY DataIs
  <2>2. r \in Request /\ r.do # "save"
    <3> HIDE DEF data
    <3> QED BY <2>1, RequestTypes, KindsAre
  <2>3. work' = Append(work, r)
    BY <1>14 DEF DownloadMetadata
  <2> HIDE DEF r
  <2> QED BY <1>2, <2>2, <2>3
<1>15. ASSUME NEW id \in Id, CancelDownloadMetadata(id)
       PROVE  Goal
  <2>1. work' = work \o Cancel(id)
    BY <1>15 DEF CancelDownloadMetadata
  <2> QED BY <1>3, <2>1, CancelAsks
<1>16. ASSUME NEW id \in Id, AddTorrent(id)
       PROVE  Goal
  <2>1. PICK info \in BOOLEAN :
            LET r == AddNative(id, "own", [own |-> 0, progress |-> 0, info |-> info])
            IN  work' = work \o Cancel(id) \o <<>> \/ work' = work \o Cancel(id) \o <<r>>
    BY <1>16 DEF AddTorrent
  <2> DEFINE data == [own |-> 0, progress |-> 0, info |-> info]
             r == AddNative(id, "own", data)
  <2>2. data \in Data
    BY DataIs
  <2>3. r \in Request /\ r.do # "save"
    <3> HIDE DEF data
    <3> QED BY <2>2, RequestTypes, KindsAre
  <2>4. work' = work \o Cancel(id) \o <<>> \/ work' = work \o Cancel(id) \o <<r>>
    BY <2>1
  <2> HIDE DEF r
  <2>5. Cancel(id) \in Seq(Request) /\ \A i \in DOMAIN Cancel(id) : Cancel(id)[i].do # "save"
    BY CancelAsks
  <2>6. CASE work' = work \o Cancel(id) \o <<>>
    <3>1. work' = work \o Cancel(id)
      BY <2>5, <2>6, QueuesAre, JoinedThrice
    <3> QED BY <1>3, <2>5, <3>1
  <2>7. CASE work' = work \o Cancel(id) \o <<r>>
    <3> DEFINE t == Append(Cancel(id), r)
    <3>1. work' = work \o t
      BY <2>3, <2>5, <2>7, QueuesAre, JoinedThrice
    <3>2. t \in Seq(Request) /\ \A i \in DOMAIN t : t[i].do # "save"
      BY <2>3, <2>5, Appended
    <3> HIDE DEF t
    <3> QED BY <1>3, <3>1, <3>2
  <2> QED BY <2>4, <2>6, <2>7
<1> QED BY <1>5, <1>6, <1>7, <1>8, <1>9, <1>10, <1>11, <1>12, <1>13, <1>14, <1>15, <1>16 DEF Next

-----------------------------------------------------------------------------
(* What becomes of the answers, in a step that is not libtorrent's own.    *)
LEMMA AnswersMove ==
    ASSUME TypeOK, TypeOK', [Next]_vars, ~Restart, ~NativeStep
    PROVE  \/ UNCHANGED <<alerts, batch>>
           \/ ReadAlerts /\ batch = <<>> /\ alerts' = <<>> /\ batch' = alerts
           \/ HandleAlert /\ batch # <<>> /\ batch' = Tail(batch) /\ UNCHANGED alerts
           \/ UNCHANGED batch /\ \E a \in Alert, id \in Id :
                 NativeMetadata(id) /\ alerts' = Append(alerts, a) /\ a.is = "metadata" /\ a.id = id
<1>1. CASE ReadAlerts
  BY <1>1 DEF ReadAlerts, Idle
<1>2. CASE HandleAlert
  BY <1>2 DEF HandleAlert
<1>3. ASSUME NEW id \in Id, NativeMetadata(id)
      PROVE  UNCHANGED batch /\ \E a \in Alert :
                 alerts' = Append(alerts, a) /\ a.is = "metadata" /\ a.id = id
  <2>1. PICK a : alerts' = Append(alerts, a) /\ a.is = "metadata" /\ a.id = id
    BY <1>3 DEF NativeMetadata
  <2>2. alerts' \in Seq(Alert)
    BY DEF TypeOK
  <2>3. a \in Alert
    BY <2>1, <2>2, QueuesAre, LastIs
  <2> QED BY <1>3, <2>1, <2>3 DEF NativeMetadata
<1>4. CASE \/ ReadNext \/ LoadFinished \/ HandleLoadedResumeData \/ SaveNeeded \/ GenerateResumeData
          \/ HandleAdded \/ Exit \/ End \/ UNCHANGED vars
  BY <1>4 DEF ReadNext, LoadFinished, HandleLoadedResumeData, SaveNeeded, GenerateResumeData, HandleAdded,
              Exit, End, vars, alertVars
<1>5. ASSUME NEW id \in Id, \/ NativeProgress(id) \/ AddTorrent(id) \/ DownloadMetadata(id)
                            \/ CancelDownloadMetadata(id) \/ DeleteTorrent(id) \/ ChangeTorrent(id)
                            \/ SearchFinished(id)
      PROVE  UNCHANGED <<alerts, batch>>
  BY <1>5 DEF NativeProgress, AddTorrent, DownloadMetadata, CancelDownloadMetadata, DeleteTorrent,
              ChangeTorrent, SearchFinished, alertVars
<1> QED BY <1>1, <1>2, <1>3, <1>4, <1>5 DEF Next

LEMMA SavesAlwaysStep ==
    ASSUME TypeOK, TypeOK', StartupInv, Running, Running', SavesAlways, [Next]_vars, ~Restart
    PROVE  SavesAlways'
<1>1. CASE NativeStep
  <2>1. /\ Head(work) \in Request /\ work # <<>> /\ work' = Tail(work) /\ UNCHANGED batch
        /\ work \in Seq(Request) /\ alerts \in Seq(Alert)
    BY <1>1, NativeAnswers, QueuesAre
  <2>2. Head(work) \notin Conditional /\ ~Has(work', Conditional)
    BY <2>1, HasRest DEF SavesAlways
  <2>3. ~Has(alerts', NotModified)
    <3>1. CASE UNCHANGED alerts
      BY <3>1 DEF SavesAlways
    <3>2. ASSUME NEW a \in Alert, alerts' = Append(alerts, a), a.is # "not modified"
          PROVE  ~Has(alerts', NotModified)
      <4>1. a \notin NotModified
        BY <3>2, SaveParts
      <4> QED BY <2>1, <3>2, <4>1, HasAppended DEF SavesAlways
    <3>3. CASE Head(work).do = "save"
      <4>1. Head(work).always
        BY <2>1, <2>2, <3>3, SaveParts
      <4>2. UNCHANGED alerts \/ \E a \in Alert : alerts' = Append(alerts, a) /\ a.is = "saved"
        BY <1>1, <3>3, <4>1, NativeSaves
      <4> QED BY <3>1, <3>2, <4>2
    <3>4. CASE Head(work).do # "save"
      <4>1. UNCHANGED alerts \/ \E a \in Alert : alerts' = Append(alerts, a) /\ a.is = "added"
        BY <1>1, <3>4, NativeAnswers
      <4> QED BY <3>1, <3>2, <4>1
    <3> QED BY <3>3, <3>4
  <2> QED BY <2>1, <2>2, <2>3 DEF SavesAlways
<1>2. CASE ~NativeStep
  <2>1. ~Exit
    BY DEF Exit, Running
  <2>2. PICK t \in Seq(Request) : work' = work \o t /\ Asks(t, ~Exit)
    BY <1>2, WorkGrows
  <2>3. \A i \in DOMAIN t : t[i] \notin Conditional
    BY <2>1, <2>2, Elements, SaveParts DEF Asks
  <2>4. ~Has(t, Conditional)
    BY <2>3 DEF Has, Positions
  <2>5. ~Has(work', Conditional)
    BY <2>2, <2>4, QueuesAre, HasJoined DEF SavesAlways
  <2>6. ~Has(alerts', NotModified) /\ ~Has(batch', NotModified)
    <3>1. CASE UNCHANGED <<alerts, batch>>
      BY <3>1 DEF SavesAlways
    <3>2. CASE alerts' = <<>> /\ batch' = alerts
      BY <3>2, HasNothing DEF SavesAlways
    <3>3. CASE batch # <<>> /\ batch' = Tail(batch) /\ UNCHANGED alerts
      BY <3>3, QueuesAre, HasRest DEF SavesAlways
    <3>4. ASSUME UNCHANGED batch, NEW a \in Alert, alerts' = Append(alerts, a), a.is = "metadata"
          PROVE  ~Has(alerts', NotModified) /\ ~Has(batch', NotModified)
      <4>1. a \notin NotModified
        BY <3>4, SaveParts
      <4> QED BY <3>4, <4>1, QueuesAre, HasAppended DEF SavesAlways
    <3> QED BY <1>2, <3>1, <3>2, <3>3, <3>4, AnswersMove
  <2> QED BY <2>5, <2>6 DEF SavesAlways
<1> QED BY <1>1, <1>2

-----------------------------------------------------------------------------
(* What a step does to a torrent that is in the session after it.          *)
Unconditional(id) == {r \in Request : r.do = "save" /\ r.id = id /\ r.always}

OwnFrame(id) ==
    /\ InSession(id) /\ torrents'[id] = torrents[id] /\ stored'[id] = stored[id]
    /\ id \in needSave => id \in needSave'
    /\ Waiting(id) => Waiting(id)'
Frame(id) == OwnFrame(id) /\ native'[id] = native[id]

SavesSoon(id) == phase' = "restored" /\ id \in needSave'
NativeSavesSoon(id) ==
    /\ phase' = "restored" /\ InSession(id) /\ native'[id].needSave
    /\ OwnFrame(id) \/ OwnStored(id)'
SavedNow(id) == HandleAlert /\ OnSaved(Head(batch)) /\ Head(batch).id = id
MetadataNow(id) ==
    /\ HandleAlert /\ OnMetadata(Head(batch)) /\ Head(batch).id = id /\ InSession(id)
    /\ ~Running

LEMMA FrameIs ==
    ASSUME NEW id \in Id, InSession(id)', torrents'[id] = torrents[id], stored'[id] = stored[id],
           native'[id] = native[id], id \in needSave => id \in needSave', searches'[id] = searches[id]
    PROVE  Frame(id)
BY DEF Frame, OwnFrame, InSession, Waiting

LEMMA SaveNeededTorrent ==
    ASSUME TypeOK, NEW id \in Id, InSession(id)', SaveNeeded \/ GenerateResumeData
    PROVE  Frame(id) \/ Has(work', Unconditional(id))
<1>1. UNCHANGED <<torrents, stored, native, searches>>
  BY DEF SaveNeeded, GenerateResumeData
<1>2. PICK ids \in SUBSET Id :
          /\ work' = work \o Saves(ids, TRUE)
          /\ InSession(id) /\ id \in needSave => id \in ids \/ id \in needSave'
  <2>1. CASE SaveNeeded
    <3> DEFINE ids == {i \in needSave : InSession(i)}
    <3>1. work' = work \o Saves(ids, TRUE)
      BY <2>1 DEF SaveNeeded
    <3>2. ids \in SUBSET Id /\ (InSession(id) => id \in ids \/ id \notin needSave)
      BY DEF TypeOK
    <3> HIDE DEF ids
    <3> QED BY <3>1, <3>2
  <2>2. CASE GenerateResumeData
    BY <2>2 DEF GenerateResumeData
  <2> QED BY <2>1, <2>2
<1>3. CASE id \in ids
  <2> DEFINE t == Saves(ids, TRUE)
  <2>1. t \in Seq(Request)
    BY SavesAre
  <2>2. \A i \in DOMAIN t : t[i].always = TRUE
    BY SavesAre, Zenon
  <2>3. \A i \in DOMAIN t : t[i].do = "save"
    BY SavesAre
  <2>4. PICK i \in DOMAIN t : t[i].id = id
    BY <1>3, SavesAre
  <2> HIDE DEF t
  <2>5. t[i] \in Unconditional(id)
    BY <2>1, <2>2, <2>3, <2>4, Elements DEF Unconditional
  <2>6. Has(t, Unconditional(id))
    BY <2>5 DEF Has, Positions
  <2>7. work' = work \o t
    BY <1>2 DEF t
  <2> QED BY <2>1, <2>6, <2>7, QueuesAre, HasJoined
<1>4. CASE id \notin ids
  <2>1. id \in needSave => id \in needSave'
    BY <1>1, <1>2, <1>4 DEF InSession
  <2> QED BY <1>1, <2>1, FrameIs
<1> QED BY <1>3, <1>4

LEMMA AddedTorrent ==
    ASSUME TypeOK, NEW id \in Id, InSession(id)', HandleAdded, phase' = "restored"
    PROVE  Frame(id) \/ Has(work', Unconditional(id))
<1> DEFINE a == Head(adds)
           r == SaveNative(a.id, TRUE)
           t == [kind |-> a.kind, own |-> loading[a.id].own,
                 info |-> loading[a.id].info, received |-> FALSE]
<1>1. a.id \in Id /\ UNCHANGED <<stored, native, searches, needSave, phase>> /\ phase = "restored"
  BY QueuesAre, AlertsMove, AlertParts DEF HandleAdded
<1>2. r \in Request /\ r.do = "save" /\ r.id = a.id /\ r.always
  BY <1>1, RequestTypes
<1>3. torrents' = torrents \/ (torrents' = [torrents EXCEPT ![a.id] = t] /\ work' = Append(work, r))
  <2> HIDE DEF a, r, t
  <2>1. CASE CreateTorrent(a)
    BY <1>1, <2>1 DEF CreateTorrent, t, r
  <2>2. CASE ~CreateTorrent(a)
    BY <2>2 DEF HandleAdded, OnAdded, OnOther, a
  <2> QED BY <2>1, <2>2
<1> HIDE DEF a, r, t
<1>4. CASE torrents' = torrents
  BY <1>1, <1>4, FrameIs
<1>5. CASE torrents' = [torrents EXCEPT ![a.id] = t] /\ work' = Append(work, r)
  <2>1. CASE a.id = id
    <3>1. r \in Unconditional(id)
      BY <1>2, <2>1 DEF Unconditional
    <3> QED BY <1>2, <1>5, <3>1, QueuesAre, HasAppended
  <2>2. CASE a.id # id
    <3>1. torrents'[id] = torrents[id]
      BY <1>1, <1>5, <2>2 DEF TypeOK
    <3> QED BY <1>1, <3>1, FrameIs
  <2> QED BY <2>1, <2>2
<1> QED BY <1>3, <1>4, <1>5

LEMMA AlertTorrent ==
    ASSUME TypeOK, NEW id \in Id, InSession(id)', HandleAlert, phase # "startup"
    PROVE  Frame(id) \/ SavesSoon(id) \/ SavedNow(id) \/ MetadataNow(id)
<1> SUFFICES ASSUME NEW a \in Alert, a = Head(batch)
             PROVE  Frame(id) \/ SavesSoon(id) \/ SavedNow(id) \/ MetadataNow(id)
  BY QueuesAre, AlertsMove DEF HandleAlert
<1>0. a.id \in Id /\ UNCHANGED <<native, phase>>
  BY AlertParts DEF HandleAlert
<1>1. CASE OnSaved(a)
  <2>1. CASE a.id = id
    BY <1>1, <2>1 DEF SavedNow
  <2>2. CASE a.id # id
    <3>1. UNCHANGED <<torrents, needSave>>
      BY <1>1 DEF OnSaved
    <3>2. stored'[id] = stored[id] /\ searches'[id] = searches[id]
      <4>1. CASE torrents[a.id].received
        BY <1>0, <1>1, <2>2, <4>1 DEF OnSaved, TypeOK
      <4>2. CASE ~torrents[a.id].received
        BY <1>0, <1>1, <2>2, <4>2 DEF OnSaved, TypeOK
      <4> QED BY <4>1, <4>2
    <3> QED BY <1>0, <3>1, <3>2, FrameIs
  <2> QED BY <2>1, <2>2
<1>2. CASE OnNotModified(a) \/ OnUnknown(a)
  <2>1. UNCHANGED <<torrents, needSave, searches, stored>>
    BY <1>2 DEF OnNotModified, OnUnknown
  <2> QED BY <1>0, <2>1, FrameIs
<1>3. CASE OnMetadata(a)
  <2>1. UNCHANGED <<stored, searches>>
    BY <1>3 DEF OnMetadata
  <2>2. CASE ~InSession(a.id)
    <3>1. UNCHANGED <<torrents, needSave>>
      BY <1>3, <2>2 DEF OnMetadata
    <3> QED BY <1>0, <2>1, <3>1, FrameIs
  <2>3. CASE InSession(a.id)
    <3>1. /\ torrents' = [torrents EXCEPT ![a.id] = [torrents[a.id] EXCEPT !.received = TRUE]]
          /\ needSave' = needSave \union {a.id}
      BY <1>3, <2>3 DEF OnMetadata
    <3>2. CASE a.id # id
      <4>1. torrents'[id] = torrents[id]
        BY <1>0, <3>1, <3>2 DEF TypeOK
      <4> QED BY <1>0, <2>1, <3>1, <4>1, FrameIs
    <3>3. CASE a.id = id /\ Running
      BY <1>0, <3>1, <3>3 DEF SavesSoon, Running
    <3>4. CASE a.id = id /\ ~Running
      BY <1>3, <2>3, <3>4 DEF MetadataNow
    <3> QED BY <3>2, <3>3, <3>4
  <2> QED BY <2>2, <2>3
<1> QED BY <1>1, <1>2, <1>3 DEF HandleAlert

-----------------------------------------------------------------------------
LEMMA SearchedTorrent ==
    ASSUME TypeOK, NEW id \in Id, InSession(id)', NEW j \in Id, SearchFinished(j)
    PROVE  Frame(id) \/ NativeSavesSoon(id)
<1>0. /\ torrents \in [Id -> TorrentImpl \union {None}] /\ searches \in [Id -> Nat]
      /\ native \in [Id -> NativeTorrent \union {None}] /\ stored \in [Id -> Data \union {NoData}]
  BY DEF TypeOK
<1>1. /\ UNCHANGED <<needSave, phase>> /\ phase = "restored"
      /\ searches' = [searches EXCEPT ![j] = searches[j] - 1]
  BY DEF SearchFinished
<1>2. CASE InSession(j) /\ torrents[j].received
  <2> DEFINE t == [torrents[j] EXCEPT !.received = FALSE, !.info = TRUE]
             n == [native[j] EXCEPT !.needSave = TRUE]
             d == [own |-> torrents[j].own, progress |-> 0, info |-> TRUE]
  <2>1. /\ torrents' = [torrents EXCEPT ![j] = t] /\ native' = [native EXCEPT ![j] = n]
        /\ stored' = [stored EXCEPT ![j] = d]
    BY <1>2 DEF SearchFinished
  <2>2. CASE j = id
    <3>1. torrents[j] \in TorrentImpl
      BY <1>0, <1>2 DEF InSession
    <3>2. torrents[j].own \in Nat
      BY <3>1, TorrentIs
    <3>3. d \in Data /\ d.own = torrents[j].own
      BY <3>2, DataIs
    <3>4. t.own = torrents[j].own
      BY <3>1 DEF TorrentImpl
    <3>5. n.needSave = TRUE
      <4>1. native[j] \in NativeTorrent \/ native[j] = None
        BY <1>0
      <4>2. CASE native[j] \in NativeTorrent
        BY <4>2 DEF NativeTorrent
      <4>3. CASE native[j] = None
        BY <4>3 DEF None
      <4> QED BY <4>1, <4>2, <4>3
    <3> HIDE DEF t, n, d
    <3>6. stored'[id] = d /\ torrents'[id] = t /\ native'[id] = n
      BY <1>0, <2>1, <2>2
    <3>7. OwnStored(id)'
      BY <2>2, <3>3, <3>4, <3>6, DataIs DEF OwnStored
    <3>8. native'[id].needSave
      BY <3>5, <3>6, Zenon
    <3> QED BY <1>1, <1>2, <2>2, <3>7, <3>8 DEF NativeSavesSoon
  <2>3. CASE j # id
    <3> HIDE DEF t, n, d
    <3>1. /\ torrents'[id] = torrents[id] /\ native'[id] = native[id] /\ stored'[id] = stored[id]
          /\ searches'[id] = searches[id]
      BY <1>0, <1>1, <2>1, <2>3
    <3> QED BY <1>1, <3>1, FrameIs
  <2> QED BY <2>2, <2>3
<1>3. CASE ~(InSession(j) /\ torrents[j].received)
  <2>1. UNCHANGED <<torrents, native, stored>>
    BY <1>3 DEF SearchFinished
  <2>2. CASE j = id
    BY <1>1, <1>3, <2>1, <2>2 DEF Frame, OwnFrame, Waiting, InSession
  <2>3. CASE j # id
    <3>1. searches'[id] = searches[id]
      BY <1>0, <1>1, <2>3
    <3> QED BY <1>1, <2>1, <3>1, FrameIs
  <2> QED BY <2>2, <2>3
<1> QED BY <1>2, <1>3

LEMMA ChangedTorrent ==
    ASSUME TypeOK, NEW id \in Id, InSession(id)', NEW j \in Id,
           \/ NativeProgress(j) \/ NativeMetadata(j) \/ ChangeTorrent(j) \/ DeleteTorrent(j)
           \/ AddTorrent(j) \/ DownloadMetadata(j) \/ CancelDownloadMetadata(j)
    PROVE  Frame(id) \/ SavesSoon(id) \/ NativeSavesSoon(id)
<1>0. /\ torrents \in [Id -> TorrentImpl \union {None}] /\ searches \in [Id -> Nat]
      /\ native \in [Id -> NativeTorrent \union {None}] /\ stored \in [Id -> Data \union {NoData}]
  BY DEF TypeOK
<1>1. CASE NativeProgress(j) \/ NativeMetadata(j)
  <2>1. UNCHANGED <<stored, torrents, needSave, searches, phase>> /\ phase = "restored" /\ native[j] # None
    BY <1>1 DEF NativeProgress, NativeMetadata, Event
  <2>2. PICK n : native' = [native EXCEPT ![j] = n] /\ n.needSave = TRUE
    <3>1. native[j] \in NativeTorrent
      BY <1>0, <2>1
    <3>2. CASE NativeProgress(j)
      <4> DEFINE n == [native[j] EXCEPT !.progress = native[j].progress + 1, !.needSave = TRUE]
      <4>1. native' = [native EXCEPT ![j] = n]
        BY <3>2 DEF NativeProgress
      <4>2. n.needSave = TRUE
        BY <3>1 DEF NativeTorrent
      <4> QED BY <4>1, <4>2
    <3>3. CASE NativeMetadata(j)
      <4> DEFINE n == [native[j] EXCEPT !.info = TRUE, !.needSave = TRUE]
      <4>1. native' = [native EXCEPT ![j] = n]
        BY <3>3 DEF NativeMetadata
      <4>2. n.needSave = TRUE
        BY <3>1 DEF NativeTorrent
      <4> QED BY <4>1, <4>2
    <3> QED BY <1>1, <3>2, <3>3
  <2>3. CASE j = id
    <3>1. native'[id] = n
      BY <1>0, <2>2, <2>3
    <3>2. native'[id].needSave
      BY <2>2, <3>1, Zenon
    <3>3. OwnFrame(id)
      BY <2>1 DEF OwnFrame, Waiting, InSession
    <3> QED BY <2>1, <3>2, <3>3 DEF NativeSavesSoon, OwnFrame
  <2>4. CASE j # id
    <3>1. native'[id] = native[id]
      BY <1>0, <2>2, <2>4
    <3> QED BY <2>1, <3>1, FrameIs
  <2> QED BY <2>3, <2>4
<1>2. CASE ChangeTorrent(j)
  <2>1. /\ torrents' = [torrents EXCEPT ![j] = [torrents[j] EXCEPT !.own = torrents[j].own + 1]]
        /\ UNCHANGED <<stored, native, searches, phase>> /\ needSave' = needSave \union {j}
        /\ phase = "restored"
    BY <1>2 DEF ChangeTorrent, Event
  <2>2. CASE j = id
    BY <2>1, <2>2 DEF SavesSoon
  <2>3. CASE j # id
    <3>1. torrents'[id] = torrents[id]
      BY <1>0, <2>1, <2>3
    <3> QED BY <2>1, <3>1, FrameIs
  <2> QED BY <2>2, <2>3
<1>3. CASE DeleteTorrent(j)
  <2>1. /\ torrents' = [torrents EXCEPT ![j] = None] /\ stored' = [stored EXCEPT ![j] = NoData]
        /\ UNCHANGED <<native, searches, needSave>>
    BY <1>3 DEF DeleteTorrent
  <2>2. j # id
    BY <1>0, <2>1 DEF InSession
  <2>3. torrents'[id] = torrents[id] /\ stored'[id] = stored[id]
    BY <1>0, <2>1, <2>2
  <2> QED BY <2>1, <2>3, FrameIs
<1>4. CASE DownloadMetadata(j) \/ CancelDownloadMetadata(j)
  <2>1. UNCHANGED <<torrents, stored, native, searches, needSave>>
    BY <1>4 DEF DownloadMetadata, CancelDownloadMetadata
  <2> QED BY <2>1, FrameIs
<1>5. CASE AddTorrent(j)
  <2>1. UNCHANGED <<torrents, stored, native, needSave>> /\ ~InSession(j)
    BY <1>5 DEF AddTorrent
  <2>2. \A i \in Id : i # j => searches'[i] = searches[i]
    <3>1. searches' = [searches EXCEPT ![j] = searches[j] + 1] \/ searches' = searches
      BY <1>5 DEF AddTorrent
    <3> QED BY <1>0, <3>1
  <2>3. j # id
    BY <2>1 DEF InSession
  <2> QED BY <2>1, <2>2, <2>3, FrameIs
<1> QED BY <1>1, <1>2, <1>3, <1>4, <1>5

LEMMA TorrentStep ==
    ASSUME TypeOK, [Next]_vars, ~Restart, ~NativeStep, NEW id \in Id, InSession(id)',
           phase # "startup", ~Running => adds = <<>>
    PROVE  \/ Frame(id) \/ (Has(work', Unconditional(id)) /\ phase' = "restored")
           \/ SavesSoon(id) \/ NativeSavesSoon(id) \/ SavedNow(id) \/ MetadataNow(id)
<1>1. CASE \/ ReadNext \/ LoadFinished \/ HandleLoadedResumeData \/ ReadAlerts \/ Exit \/ End
           \/ UNCHANGED vars
  <2>1. UNCHANGED <<torrents, stored, native, searches, needSave>>
    BY <1>1 DEF ReadNext, LoadFinished, HandleLoadedResumeData, ReadAlerts, Exit, End, vars
  <2> QED BY <2>1, FrameIs
<1>2. CASE SaveNeeded \/ GenerateResumeData
  <2>1. phase' = "restored"
    BY <1>2 DEF SaveNeeded, GenerateResumeData, Event
  <2> QED BY <1>2, <2>1, SaveNeededTorrent
<1>3. CASE HandleAdded
  <2>1. phase' = "restored"
    BY <1>3 DEF HandleAdded, Running
  <2> QED BY <1>3, <2>1, AddedTorrent
<1>4. CASE HandleAlert
  BY <1>4, AlertTorrent
<1>5. ASSUME NEW j \in Id,
             \/ NativeProgress(j) \/ NativeMetadata(j) \/ ChangeTorrent(j) \/ DeleteTorrent(j)
             \/ AddTorrent(j) \/ DownloadMetadata(j) \/ CancelDownloadMetadata(j) \/ SearchFinished(j)
      PROVE  Frame(id) \/ SavesSoon(id) \/ NativeSavesSoon(id)
  BY <1>5, ChangedTorrent, SearchedTorrent
<1> QED BY <1>1, <1>2, <1>3, <1>4, <1>5 DEF Next

-----------------------------------------------------------------------------
(* A save that is under way stays so until its data arrive.                *)
LEMMA UnderwayStays ==
    ASSUME TypeOK, TypeOK', StartupInv, FlowInv, SavesAlways, [Next]_vars, ~Restart, NEW id \in Id,
           InSession(id), Underway(id), ~SavedNow(id)
    PROVE  Underway(id)'
<1>1. CASE NativeStep
  <2>1. /\ Head(work) \in Request /\ work # <<>> /\ work' = Tail(work) /\ UNCHANGED batch
        /\ work \in Seq(Request) /\ alerts \in Seq(Alert)
    BY <1>1, NativeAnswers, QueuesAre
  <2>2. UNCHANGED alerts \/ \E a \in Alert : alerts' = Append(alerts, a)
    BY <1>1, NativeAnswers
  <2>3. Has(alerts, SavedOf(id)) => Has(alerts', SavedOf(id))
    <3>1. CASE UNCHANGED alerts
      BY <3>1
    <3>2. ASSUME NEW a \in Alert, alerts' = Append(alerts, a)
          PROVE  Has(alerts, SavedOf(id)) => Has(alerts', SavedOf(id))
      BY <2>1, <3>2, HasAppended
    <3> QED BY <2>2, <3>1, <3>2
  <2>4. CASE Head(work) \in SavesOf(id)
    <3>1. Head(work).do = "save" /\ Head(work).id = id
      BY <2>1, <2>4, SaveParts
    <3>2. native[id] # None
      BY DEF FlowInv, FlowOf, OwnerInv, Owner
    <3>3. Head(work).always
      <4>1. Head(work) \notin Conditional
        BY <2>1, HasRest DEF SavesAlways
      <4> QED BY <2>1, <3>1, <4>1, SaveParts
    <3>4. PICK a \in Alert : alerts' = Append(alerts, a) /\ a.id = id /\ a.is = "saved"
      BY <1>1, <3>1, <3>2, <3>3, NativeSaves
    <3>5. a \in SavedOf(id)
      BY <3>4, SaveParts
    <3>6. Has(alerts', SavedOf(id))
      BY <2>1, <3>4, <3>5, HasAppended
    <3> QED BY <3>6 DEF Underway
  <2>5. CASE Head(work) \notin SavesOf(id)
    <3>1. Has(work, SavesOf(id)) => Has(work', SavesOf(id))
      BY <2>1, <2>5, HasRest
    <3> QED BY <2>1, <2>3, <3>1 DEF Underway
  <2> QED BY <2>4, <2>5
<1>2. CASE ~NativeStep
  <2>1. Has(work, SavesOf(id)) => Has(work', SavesOf(id))
    <3>1. PICK t \in Seq(Request) : work' = work \o t
      BY <1>2, WorkGrows
    <3> QED BY <3>1, QueuesAre, QueueGrows
  <2>2. Has(alerts, SavedOf(id)) \/ Has(batch, SavedOf(id))
            => Has(alerts', SavedOf(id)) \/ Has(batch', SavedOf(id))
    <3>1. CASE UNCHANGED <<alerts, batch>>
      BY <3>1
    <3>2. CASE batch = <<>> /\ alerts' = <<>> /\ batch' = alerts
      BY <3>2, HasNothing
    <3>3. CASE HandleAlert /\ batch # <<>> /\ batch' = Tail(batch) /\ UNCHANGED alerts
      <4>1. Head(batch) \in Alert
        BY <3>3, QueuesAre, AlertsMove
      <4>2. Head(batch) \notin SavedOf(id)
        <5> SUFFICES ASSUME Head(batch) \in SavedOf(id) PROVE FALSE
          OBVIOUS
        <5>1. Head(batch).is = "saved" /\ Head(batch).id = id
          BY <4>1, SaveParts
        <5>2. OnSaved(Head(batch))
          BY <3>3, <5>1 DEF HandleAlert, OnNotModified, OnMetadata, OnUnknown
        <5> QED BY <3>3, <5>1, <5>2 DEF SavedNow
      <4> QED BY <3>3, <4>2, QueuesAre, HasRest
    <3>4. ASSUME UNCHANGED batch, NEW a \in Alert, alerts' = Append(alerts, a)
          PROVE  Has(alerts, SavedOf(id)) \/ Has(batch, SavedOf(id))
                     => Has(alerts', SavedOf(id)) \/ Has(batch', SavedOf(id))
      BY <3>4, QueuesAre, QueueGrows
    <3> QED BY <1>2, <3>1, <3>2, <3>3, <3>4, AnswersMove
  <2> QED BY <2>1, <2>2 DEF Underway
<1> QED BY <1>1, <1>2

LEMMA RememberedStep ==
    ASSUME TypeOK, TypeOK', StartupInv, StartupInv', FlowInv, ChangesInv,
           Running, Running', [Next]_vars, ~Restart, NEW id \in Id, InSession(id)'
    PROVE  Remembered(id)'
<1>0. SavesAlways /\ (InSession(id) => Remembered(id))
  BY DEF ChangesInv
<1>1. CASE phase' = "startup"
  <2>1. RestoredAsStored(id)'
    BY <1>1 DEF StartupInv, Starting
  <2>2. OwnStored(id)'
    BY <2>1 DEF RestoredAsStored, OwnStored
  <2> QED BY <2>2 DEF Remembered
<1>2. CASE phase' = "restored" /\ phase = "startup"
  <2>1. UNCHANGED <<torrents, stored>>
    <3>1. CASE HandleLoadedResumeData
      BY <3>1 DEF HandleLoadedResumeData
    <3>2. CASE \/ NativeStep \/ ReadNext \/ LoadFinished \/ SaveNeeded \/ GenerateResumeData \/ ReadAlerts
               \/ HandleAdded \/ HandleAlert \/ Exit \/ End \/ UNCHANGED vars
      BY <1>2, <3>2 DEF NativeStep, ReadNext, LoadFinished, SaveNeeded, GenerateResumeData, ReadAlerts,
         HandleAdded, HandleAlert, Exit, End, Event, vars
    <3>3. ASSUME NEW j \in Id,
             \/ NativeProgress(j) \/ NativeMetadata(j) \/ ChangeTorrent(j) \/ DeleteTorrent(j)
             \/ AddTorrent(j) \/ DownloadMetadata(j) \/ CancelDownloadMetadata(j) \/ SearchFinished(j)
          PROVE FALSE
      BY <1>2, <3>3 DEF NativeProgress, NativeMetadata, ChangeTorrent, DeleteTorrent, AddTorrent,
         DownloadMetadata, CancelDownloadMetadata, SearchFinished, Event
    <3> QED BY <3>1, <3>2, <3>3 DEF Next
  <2>2. InSession(id)
    BY <2>1 DEF InSession
  <2>3. RestoredAsStored(id)
    BY <1>2 DEF StartupInv, Starting
  <2>4. OwnStored(id)'
    BY <2>1, <2>2, <2>3 DEF RestoredAsStored, OwnStored
  <2> QED BY <2>4 DEF Remembered
<1>3. CASE phase' = "restored" /\ phase = "restored"
  <2>1. ASSUME OwnFrame(id), ~SavedNow(id) PROVE Remembered(id)'
    <3>1. InSession(id) /\ Remembered(id)
      BY <1>0, <2>1 DEF OwnFrame
    <3>2. OwnStored(id) => OwnStored(id)'
      BY <2>1 DEF OwnFrame, OwnStored
    <3>3. Underway(id) => Underway(id)'
      BY <1>0, <2>1, <3>1, UnderwayStays
    <3> QED BY <2>1, <3>1, <3>2, <3>3 DEF Remembered, OwnFrame
  <2>2. CASE NativeStep
    <3>1. UNCHANGED <<torrents, stored, needSave, searches>>
      BY <2>2 DEF NativeStep
    <3>2. OwnFrame(id)
      BY <3>1 DEF OwnFrame, Waiting, InSession
    <3>3. ~SavedNow(id)
      <4>1. ~(batch' = Tail(batch) /\ batch # <<>>)
        <5>1. batch # <<>> => Tail(batch) # batch
          BY QueuesAre
        <5> QED BY <2>2, <5>1 DEF NativeStep
      <4> QED BY <4>1 DEF SavedNow, HandleAlert
    <3> QED BY <2>1, <3>2, <3>3
  <2>3. CASE SavedNow(id)
    <3>1. OnSaved(Head(batch)) /\ Head(batch).id = id /\ InSession(id)
      BY <2>3 DEF SavedNow, OnSaved
    <3>2. UNCHANGED torrents /\ torrents[id] \in TorrentImpl
      BY <3>1 DEF OnSaved, InSession, TypeOK
    <3>3. CASE torrents[id].received
      <4>1. searches' = [searches EXCEPT ![id] = searches[id] + 1]
        BY <3>1, <3>3 DEF OnSaved
      <4>2. searches'[id] > 0
        <5>1. searches \in [Id -> Nat]
          BY DEF TypeOK
        <5> QED BY <4>1, <5>1
      <4> QED BY <3>1, <3>2, <3>3, <4>2 DEF Remembered, Waiting, InSession
    <3>4. CASE ~torrents[id].received
      <4> DEFINE d == [own |-> torrents[id].own, progress |-> Head(batch).progress, info |-> Head(batch).info]
      <4>1. stored' = [stored EXCEPT ![id] = d]
        BY <3>1, <3>4 DEF OnSaved
      <4>2. d.own = torrents[id].own
        OBVIOUS
      <4> HIDE DEF d
      <4>3. stored'[id] = d
        BY <4>1 DEF TypeOK
      <4>4. stored'[id] # NoData
        <5>1. d \in Data
          <6>1. Head(batch).progress \in Nat /\ Head(batch).info \in BOOLEAN
            BY <2>3, <3>1, QueuesAre, AlertsMove, AlertParts DEF SavedNow, HandleAlert, OnSaved
          <6>2. torrents[id].own \in Nat
            BY <3>2, TorrentIs
          <6> QED BY <6>1, <6>2, DataIs DEF d
        <5> QED BY <4>3, <5>1, DataIs
      <4> QED BY <3>2, <4>2, <4>3, <4>4 DEF Remembered, OwnStored
    <3> QED BY <3>3, <3>4
  <2>4. CASE Has(work', Unconditional(id))
    <3>1. Unconditional(id) \subseteq SavesOf(id)
      BY DEF Unconditional, SavesOf
    <3>2. Has(work', SavesOf(id))
      BY <2>4, <3>1, Subsets
    <3> QED BY <3>2 DEF Remembered, Underway
  <2>5. CASE ~NativeStep /\ ~SavedNow(id) /\ ~Has(work', Unconditional(id))
    <3>1. ~MetadataNow(id)
      BY DEF MetadataNow
    <3>2. Frame(id) \/ SavesSoon(id) \/ NativeSavesSoon(id)
      BY <1>3, <2>5, <3>1, TorrentStep
    <3>3. CASE Frame(id)
      BY <2>1, <2>5, <3>3 DEF Frame
    <3>4. CASE SavesSoon(id)
      BY <3>4 DEF SavesSoon, Remembered
    <3>5. CASE NativeSavesSoon(id)
      BY <2>1, <2>5, <3>5 DEF NativeSavesSoon, Remembered
    <3> QED BY <3>2, <3>3, <3>4, <3>5
  <2> QED BY <2>2, <2>3, <2>4, <2>5
<1> QED BY <1>1, <1>2, <1>3 DEF Running

LEMMA FreshChanges == Fresh => ChangesInv
<1> SUFFICES ASSUME Fresh PROVE ChangesInv
  OBVIOUS
<1>1. SavesAlways
  BY HasNothing DEF Fresh, SavesAlways
<1>2. \A id \in Id : ~InSession(id)
  BY DEF Fresh, InSession
<1> QED BY <1>1, <1>2 DEF ChangesInv

LEMMA ChangesInvariant ==
    ~Overlap => (Spec => [](TypeOK /\ StartupInv /\ FlowInv /\ ChangesInv))
<1>1. Init => ChangesInv
  BY InitFresh, FreshChanges
<1>2. ~Overlap /\ TypeOK /\ StartupInv /\ FlowInv /\ ChangesInv /\ TypeOK' /\ StartupInv' /\ [Next]_vars
          => ChangesInv'
  <2> SUFFICES ASSUME ~Overlap, TypeOK, StartupInv, FlowInv, ChangesInv, TypeOK', StartupInv', [Next]_vars
               PROVE  ChangesInv'
    OBVIOUS
  <2>1. CASE Restart
    <3>1. Fresh' => ChangesInv'
      BY FreshChanges, PTL
    <3> QED BY <2>1, <3>1, RestartFresh
  <2>2. CASE ~Restart
    <3> SUFFICES ASSUME Running' PROVE SavesAlways' /\ \A id \in Id : InSession(id)' => Remembered(id)'
      BY DEF ChangesInv
    <3>1. Running
      <4>1. CASE End \/ Exit
        BY <4>1 DEF End, Exit, Running
      <4>2. CASE HandleLoadedResumeData
        BY <4>2 DEF HandleLoadedResumeData, Running
      <4>3. CASE ~(End \/ Exit \/ HandleLoadedResumeData)
        <5>1. UNCHANGED phase
          <6>1. CASE \/ NativeStep \/ ReadNext \/ LoadFinished \/ SaveNeeded \/ GenerateResumeData
                     \/ ReadAlerts \/ HandleAdded \/ HandleAlert \/ UNCHANGED vars
            BY <6>1 DEF NativeStep, ReadNext, LoadFinished, SaveNeeded, GenerateResumeData, ReadAlerts,
               HandleAdded, HandleAlert, vars
          <6>2. ASSUME NEW j \in Id,
                   \/ NativeProgress(j) \/ NativeMetadata(j) \/ ChangeTorrent(j) \/ DeleteTorrent(j)
                   \/ AddTorrent(j) \/ DownloadMetadata(j) \/ CancelDownloadMetadata(j) \/ SearchFinished(j)
                PROVE UNCHANGED phase
            BY <6>2 DEF NativeProgress, NativeMetadata, ChangeTorrent, DeleteTorrent, AddTorrent,
               DownloadMetadata, CancelDownloadMetadata, SearchFinished
          <6> QED BY <2>2, <4>3, <6>1, <6>2 DEF Next
        <5> QED BY <5>1 DEF Running
      <4> QED BY <4>1, <4>2, <4>3
    <3>2. SavesAlways
      BY <3>1 DEF ChangesInv
    <3> QED BY <2>2, <3>1, <3>2, SavesAlwaysStep, RememberedStep
  <2> QED BY <2>1, <2>2
<1>3. ~Overlap => [](~Overlap)
  OBVIOUS
<1> QED BY <1>1, <1>2, <1>3, FlowInvariant, PTL DEF Spec

(* A change of a torrent is stored or is going to be: it waits in          *)
(* m_needSaveResumeDataTorrents, an answer with it is on its way, or its   *)
(* metadata wait for their files (handleTorrentNeedSaveResumeData,         *)
(* generateResumeData, handleSaveResumeDataAlert).                         *)
THEOREM NoChangeForgotten == ~Overlap => (Spec => []NoChangeIsForgotten)
<1>1. TypeOK /\ ChangesInv => NoChangeIsForgotten
  <2> SUFFICES ASSUME TypeOK, ChangesInv, phase = "restored", NEW id \in Id, InSession(id)
               PROVE  \/ stored[id] # NoData /\ stored[id].own = torrents[id].own
                      \/ id \in needSave \/ Outstanding(id) \/ Waiting(id)
    BY DEF NoChangeIsForgotten
  <2>1. Remembered(id)
    BY DEF ChangesInv, Running
  <2>2. Has(work, SavesOf(id)) => Outstanding(id)
    <3> SUFFICES ASSUME NEW i \in Positions(work, SavesOf(id)) PROVE Outstanding(id)
      BY DEF Has
    <3>1. i \in DOMAIN work /\ work[i] \in SavesOf(id)
      BY DEF Positions
    <3>2. work[i].do = "save" /\ work[i].id = id
      BY <3>1 DEF SavesOf
    <3> QED BY <3>1, <3>2 DEF Outstanding, Requests
  <2>3. Has(alerts, SavedOf(id)) => Outstanding(id)
    BY DEF Has, Positions, SavedOf, Outstanding, Answers
  <2>4. Has(batch, SavedOf(id)) => Outstanding(id)
    BY DEF Has, Positions, SavedOf, Outstanding, Answers
  <2> QED BY <2>1, <2>2, <2>3, <2>4 DEF Remembered, OwnStored, Underway
<1> QED BY <1>1, ChangesInvariant, PTL

-----------------------------------------------------------------------------
(* Is the last element of kind Q in a sequence one of kind P?              *)
EndsIn(s, P, Q) == \E i \in Positions(s, P) : \A j \in Positions(s, Q) : j <= i

LEMMA NothingEnds == \A P, Q : ~EndsIn(<<>>, P, Q)
BY DEF EndsIn, Positions

LEMMA EndsAppended ==
    ASSUME NEW S, NEW s \in Seq(S), NEW e \in S, NEW P, NEW Q
    PROVE  /\ EndsIn(s, P, Q) /\ e \notin Q => EndsIn(Append(s, e), P, Q)
           /\ e \in P => EndsIn(Append(s, e), P, Q)
<1>0. /\ Positions(s, P) \subseteq 1 .. Len(s) /\ Positions(s, Q) \subseteq 1 .. Len(s) /\ Len(s) \in Nat
  BY PositionsAppended
<1>1. ASSUME EndsIn(s, P, Q), e \notin Q PROVE EndsIn(Append(s, e), P, Q)
  <2>1. PICK i \in Positions(s, P) : \A j \in Positions(s, Q) : j <= i
    BY <1>1 DEF EndsIn
  <2>2. i \in Positions(Append(s, e), P)
    BY PositionsAppended
  <2>3. Positions(Append(s, e), Q) = Positions(s, Q)
    BY <1>1, PositionsAppended
  <2> QED BY <2>1, <2>2, <2>3 DEF EndsIn
<1>2. ASSUME e \in P PROVE EndsIn(Append(s, e), P, Q)
  <2>1. Len(s) + 1 \in Positions(Append(s, e), P)
    BY <1>2, PositionsAppended
  <2>2. \A j \in Positions(Append(s, e), Q) : j \in 1 .. Len(s) \/ j = Len(s) + 1
    BY <1>0, PositionsAppended
  <2>3. \A j \in Positions(Append(s, e), Q) : j <= Len(s) + 1
    BY <1>0, <2>2
  <2> QED BY <2>1, <2>3 DEF EndsIn
<1> QED BY <1>1, <1>2

LEMMA EndsRest ==
    ASSUME NEW S, NEW s \in Seq(S), s # <<>>, NEW P, NEW Q, EndsIn(s, P, Q)
    PROVE  EndsIn(Tail(s), P, Q) \/ (Head(s) \in P /\ ~Has(Tail(s), Q))
<1>1. PICK i \in Positions(s, P) : \A j \in Positions(s, Q) : j <= i
  BY DEF EndsIn
<1>2. Positions(s, P) \subseteq Int /\ Positions(Tail(s), Q) \subseteq Int
  BY PositionsRest
<1>3. CASE i = 1
  <2>1. Head(s) \in P
    BY <1>1, <1>3, PositionsRest
  <2>2. ASSUME NEW j \in Positions(Tail(s), Q) PROVE FALSE
    <3>1. j + 1 \in Positions(s, Q) /\ j + 1 > 1
      BY PositionsRest
    <3> QED BY <1>1, <1>2, <1>3, <3>1
  <2> QED BY <2>1, <2>2 DEF Has
<1>4. CASE i # 1
  <2>1. i - 1 \in Positions(Tail(s), P)
    BY <1>4, PositionsRest
  <2>2. ASSUME NEW j \in Positions(Tail(s), Q) PROVE j <= i - 1
    <3>1. j + 1 \in Positions(s, Q)
      BY PositionsRest
    <3>2. j + 1 <= i
      BY <1>1, <3>1
    <3> QED BY <1>2, <3>2
  <2> QED BY <2>1, <2>2 DEF EndsIn
<1> QED BY <1>3, <1>4

LEMMA EndsHas == \A s, P, Q : EndsIn(s, P, Q) => Has(s, P)
BY DEF EndsIn, Has

(* How the program goes on.                                                *)
LEMMA PhaseMoves ==
    ASSUME [Next]_vars, ~Restart
    PROVE  \/ UNCHANGED phase /\ ~Exit /\ ~End
           \/ HandleLoadedResumeData /\ phase = "startup" /\ phase' \in {"startup", "restored"}
           \/ Exit /\ Running /\ phase' = "exiting"
           \/ End /\ phase = "exiting" /\ phase' \in {"ended", "aborted"}
<1>1. CASE End \/ Exit \/ HandleLoadedResumeData
  BY <1>1 DEF End, Exit, HandleLoadedResumeData, Running
<1>2. CASE /\ ~(End \/ Exit)
           /\ \/ NativeStep \/ ReadNext \/ LoadFinished \/ SaveNeeded \/ GenerateResumeData
              \/ ReadAlerts \/ HandleAdded \/ HandleAlert \/ UNCHANGED vars
  BY <1>2 DEF NativeStep, ReadNext, LoadFinished, SaveNeeded, GenerateResumeData, ReadAlerts,
     HandleAdded, HandleAlert, vars
<1>3. ASSUME ~(End \/ Exit), NEW j \in Id,
         \/ NativeProgress(j) \/ NativeMetadata(j) \/ ChangeTorrent(j) \/ DeleteTorrent(j)
         \/ AddTorrent(j) \/ DownloadMetadata(j) \/ CancelDownloadMetadata(j) \/ SearchFinished(j)
      PROVE UNCHANGED phase
  BY <1>3 DEF NativeProgress, NativeMetadata, ChangeTorrent, DeleteTorrent, AddTorrent,
     DownloadMetadata, CancelDownloadMetadata, SearchFinished
<1> QED BY <1>1, <1>2, <1>3 DEF Next

(* At the end every torrent has its data stored as they are, or a save of  *)
(* it that brings them: asked for or answered with what libtorrent still   *)
(* has, and nothing about the torrent after it.                            *)
Effective(id) == {r \in Request : r.do = "save" /\ r.id = id /\ (r.always \/ native[id].needSave)}
CurrentOf(id) == {a \in Alert : /\ a.is = "saved" /\ a.id = id
                                /\ a.progress = native[id].progress /\ a.info = native[id].info}
BearingOn(id) == SavedOf(id) \union Metadata(id, "own")

Kept(id) ==
    stored[id] = [own |-> torrents[id].own, progress |-> native[id].progress, info |-> torrents[id].info]
Saved(id) ==
    \/ EndsIn(alerts, CurrentOf(id), BearingOn(id))
    \/ ~Has(alerts, BearingOn(id)) /\ EndsIn(batch, CurrentOf(id), BearingOn(id))
    \/ ~Has(alerts, BearingOn(id)) /\ ~Has(batch, BearingOn(id)) /\ Kept(id)
SaveOf(id) == Has(work, Effective(id)) \/ Waiting(id) \/ Saved(id)
SaveComes(id) == SaveOf(id) \/ (Running /\ (native[id].needSave \/ id \in needSave))

SaveInv == \A id \in Id : InSession(id) => SaveComes(id)

LEMMA BearingKinds ==
    ASSUME NEW a \in Alert, NEW id
    PROVE  /\ a \in BearingOn(id) <=> a.id = id /\ (a.is = "saved" \/ (a.is = "metadata" /\ a.kind = "own"))
           /\ a \in CurrentOf(id) <=> /\ a.is = "saved" /\ a.id = id
                                      /\ a.progress = native[id].progress /\ a.info = native[id].info
BY DEF BearingOn, SavedOf, Metadata, CurrentOf

(* While the session starts there are no saves, and torrents are as they   *)
(* were stored.                                                            *)
LEMMA StartupSaved ==
    TypeOK /\ StartupInv /\ FlowInv /\ phase = "startup" => \A id \in Id : InSession(id) => Saved(id)
<1> SUFFICES ASSUME TypeOK, StartupInv, FlowInv, phase = "startup", NEW id \in Id, InSession(id)
             PROVE  Saved(id)
  OBVIOUS
<1>1. RestoredAsStored(id) /\ OnlyAdditions
  BY DEF StartupInv, Starting
<1>2. ~Has(alerts, BearingOn(id)) /\ ~Has(batch, BearingOn(id))
  <2>1. ASSUME NEW s \in Seq(Alert), \A i \in DOMAIN s : s[i].is = "added" PROVE ~Has(s, BearingOn(id))
    <3>1. \A i \in DOMAIN s : s[i] \in Alert
      BY Elements
    <3>2. \A i \in DOMAIN s : s[i] \notin BearingOn(id)
      BY <2>1, <3>1, BearingKinds
    <3> QED BY <3>2 DEF Has, Positions
  <2> QED BY <1>1, <2>1, QueuesAre DEF OnlyAdditions
<1>3. Kept(id)
  <2>1. native[id] # None
    BY DEF FlowInv, FlowOf, OwnerInv, Owner
  <2>2. stored[id] \in Data
    BY <1>1 DEF TypeOK, RestoredAsStored
  <2>3. stored[id] = [own |-> stored[id].own, progress |-> stored[id].progress, info |-> stored[id].info]
    BY <2>2 DEF Data
  <2>4. native[id].progress = stored[id].progress /\ torrents[id].own = stored[id].own
    BY <1>1, <2>1 DEF RestoredAsStored
  <2>5. torrents[id].info = stored[id].info
    BY <1>1, Zenon DEF RestoredAsStored
  <2> QED BY <2>3, <2>4, <2>5 DEF Kept
<1> QED BY <1>2, <1>3 DEF Saved

-----------------------------------------------------------------------------
(* libtorrent leaves a torrent of the session as it is, except that a save *)
(* takes the mark that there is something to save.                         *)
LEMMA NativeOther ==
    ASSUME TypeOK, FlowInv, NativeStep, NEW id \in Id, InSession(id),
           ~(Head(work).do = "save" /\ Head(work).id = id)
    PROVE  /\ native'[id] = native[id]
           /\ UNCHANGED alerts \/ \E a \in Alert : alerts' = Append(alerts, a) /\ a \notin BearingOn(id)
<1> SUFFICES ASSUME NEW r \in Request, r = Head(work)
             PROVE  /\ native'[id] = native[id]
                    /\ \/ UNCHANGED alerts
                       \/ \E a \in Alert : alerts' = Append(alerts, a) /\ a \notin BearingOn(id)
  BY NativeAnswers
<1>1. /\ native[id] # None /\ native[id].kind = "own" /\ ~Has(work, Removals(id, "own"))
      /\ native \in [Id -> NativeTorrent \union {None}]
  BY DEF FlowInv, FlowOf, OwnerInv, Owner, TypeOK
<1>2. work # <<>> /\ work \in Seq(Request) /\ r.id \in Id
  BY NativeAnswers, QueuesAre, RequestParts
<1>3. UNCHANGED alerts \/ \E a \in Alert : alerts' = Append(alerts, a) /\ a \notin BearingOn(id)
  <2>1. CASE UNCHANGED alerts
    BY <2>1
  <2>2. ASSUME NEW a \in Alert, alerts' = Append(alerts, a), a.id = r.id,
               (r.do = "add" /\ a.is = "added") \/ (r.do = "save" /\ a.is \in {"saved", "not modified"})
        PROVE  a \notin BearingOn(id)
    BY <2>2, BearingKinds
  <2> QED BY <2>1, <2>2, NativeAnswers
<1>4. native'[id] = native[id]
  <2>1. CASE NativeAdd(r)
    <3>1. \/ native' = native
          \/ /\ native[r.id] = None
             /\ \E n : native' = [native EXCEPT ![r.id] = n]
      BY <2>1 DEF NativeAdd
    <3> QED BY <1>1, <1>2, <3>1
  <2>2. CASE NativeRemove(r)
    <3>1. r.id = id => r.kind # "own"
      <4>1. r \notin Removals(id, "own")
        BY <1>1, <1>2, HasRest
      <4> QED BY <2>2, <4>1 DEF NativeRemove, Removals
    <3>2. native' = native \/ (native[r.id].kind = r.kind /\ native' = [native EXCEPT ![r.id] = None])
      BY <2>2 DEF NativeRemove
    <3> QED BY <1>1, <1>2, <3>1, <3>2
  <2>3. CASE NativeSave(r)
    <3>1. native' = native \/ native' = [native EXCEPT ![r.id].needSave = FALSE]
      BY <2>3 DEF NativeSave
    <3>2. r.id # id
      BY <2>3 DEF NativeSave
    <3> QED BY <1>1, <1>2, <3>1, <3>2
  <2> QED BY <2>1, <2>2, <2>3 DEF NativeStep
<1> QED BY <1>3, <1>4

(* What a torrent has is as it was: so is what bears on it.                *)
LEMMA BearingStays ==
    ASSUME NEW id \in Id, native'[id].progress = native[id].progress, native'[id].info = native[id].info
    PROVE  CurrentOf(id)' = CurrentOf(id) /\ BearingOn(id)' = BearingOn(id)
BY DEF CurrentOf, BearingOn, SavedOf, Metadata

LEMMA NativeSaveComes ==
    ASSUME TypeOK, FlowInv, NativeStep, NEW id \in Id, InSession(id), SaveComes(id)
    PROVE  SaveComes(id)'
<1> SUFFICES ASSUME NEW r \in Request, r = Head(work) PROVE SaveComes(id)'
  BY NativeAnswers
<1>1. /\ work # <<>> /\ work \in Seq(Request) /\ work' = Tail(work) /\ UNCHANGED batch
      /\ alerts \in Seq(Alert) /\ r.id \in Id
  BY NativeAnswers, QueuesAre, RequestParts
<1>2. UNCHANGED <<stored, phase, torrents, searches, needSave>>
  BY DEF NativeStep
<1>3. CASE ~(r.do = "save" /\ r.id = id)
  <2>1. /\ native'[id] = native[id]
        /\ UNCHANGED alerts \/ \E a \in Alert : alerts' = Append(alerts, a) /\ a \notin BearingOn(id)
    BY <1>3, NativeOther
  <2>2. CurrentOf(id)' = CurrentOf(id) /\ BearingOn(id)' = BearingOn(id)
    BY <2>1, BearingStays
  <2>3. Has(work, Effective(id)) => Has(work', Effective(id)')
    <3>1. r \notin Effective(id)
      BY <1>3 DEF Effective
    <3>2. Effective(id)' = Effective(id)
      BY <2>1 DEF Effective
    <3> QED BY <1>1, <3>1, <3>2, HasRest
  <2>4. Waiting(id) => Waiting(id)'
    BY <1>2 DEF Waiting, InSession
  <2>5. EndsIn(alerts, CurrentOf(id), BearingOn(id)) => EndsIn(alerts', CurrentOf(id), BearingOn(id))
    BY <1>1, <2>1, EndsAppended
  <2>6. ~Has(alerts, BearingOn(id)) => ~Has(alerts', BearingOn(id))
    BY <1>1, <2>1, HasAppended
  <2>7. Kept(id) => Kept(id)'
    BY <1>2, <2>1 DEF Kept
  <2>8. Saved(id) => Saved(id)'
    BY <1>1, <2>2, <2>5, <2>6, <2>7 DEF Saved
  <2>9. SaveOf(id) => SaveOf(id)'
    BY <2>3, <2>4, <2>8 DEF SaveOf
  <2> QED BY <1>2, <2>1, <2>9 DEF SaveComes, Running
<1>4. CASE r.do = "save" /\ r.id = id
  <2>0. native[id] # None /\ native \in [Id -> NativeTorrent \union {None}]
    BY DEF FlowInv, FlowOf, OwnerInv, Owner, TypeOK
  <2>1. native' = [native EXCEPT ![id].needSave = FALSE]
    BY <1>4, <2>0, NativeSaves
  <2>2. native'[id].progress = native[id].progress /\ native'[id].info = native[id].info
    BY <2>0, <2>1 DEF NativeTorrent
  <2>3. CurrentOf(id)' = CurrentOf(id) /\ BearingOn(id)' = BearingOn(id)
    BY <2>2, BearingStays
  <2>4. PICK a \in Alert :
            /\ alerts' = Append(alerts, a) /\ a.id = id
            /\ IF r.always \/ native[id].needSave
               THEN a.is = "saved" /\ a.progress = native[id].progress /\ a.info = native[id].info
               ELSE a.is = "not modified"
    BY <1>4, <2>0, NativeSaves
  <2>5. CASE r.always \/ native[id].needSave
    <3>1. a \in CurrentOf(id)
      BY <2>4, <2>5, BearingKinds
    <3>2. EndsIn(alerts', CurrentOf(id), BearingOn(id))
      BY <1>1, <2>4, <3>1, EndsAppended
    <3> QED BY <2>3, <3>2 DEF SaveComes, SaveOf, Saved
  <2>6. CASE ~(r.always \/ native[id].needSave)
    <3>1. a \notin BearingOn(id)
      BY <2>4, <2>6, BearingKinds
    <3>2. Has(work, Effective(id)) => Has(work', Effective(id)')
      <4>1. r \notin Effective(id)
        BY <2>6 DEF Effective
      <4>2. Effective(id) \subseteq Effective(id)'
        BY <2>6 DEF Effective
      <4> QED BY <1>1, <4>1, <4>2, HasRest, Subsets
    <3>3. Waiting(id) => Waiting(id)'
      BY <1>2 DEF Waiting, InSession
    <3>4. EndsIn(alerts, CurrentOf(id), BearingOn(id)) => EndsIn(alerts', CurrentOf(id), BearingOn(id))
      BY <1>1, <2>4, <3>1, EndsAppended
    <3>5. ~Has(alerts, BearingOn(id)) => ~Has(alerts', BearingOn(id))
      BY <1>1, <2>4, <3>1, HasAppended
    <3>6. Kept(id) => Kept(id)'
      BY <1>2, <2>2 DEF Kept
    <3>7. Saved(id) => Saved(id)'
      BY <1>1, <2>3, <3>4, <3>5, <3>6 DEF Saved
    <3>8. SaveOf(id) => SaveOf(id)'
      BY <3>2, <3>3, <3>7 DEF SaveOf
    <3> QED BY <1>2, <2>6, <3>8 DEF SaveComes, Running
  <2> QED BY <2>5, <2>6
<1> QED BY <1>3, <1>4

-----------------------------------------------------------------------------
(* A torrent that a step of the session leaves as it is: its save comes.   *)
LEMMA EffectiveGrows ==
    ASSUME TypeOK, StartupInv, [Next]_vars, ~Restart, ~NativeStep, NEW id \in Id,
           Effective(id) \subseteq Effective(id)', Has(work, Effective(id))
    PROVE  Has(work', Effective(id)')
<1>1. PICK t \in Seq(Request) : work' = work \o t
  BY WorkGrows
<1>2. Has(work', Effective(id))
  BY <1>1, QueuesAre, QueueGrows
<1> QED BY <1>2, Subsets

LEMMA FrameSaved ==
    ASSUME TypeOK, TypeOK', [Next]_vars, ~Restart, ~NativeStep, NEW id \in Id, Saved(id),
           torrents'[id] = torrents[id], stored'[id] = stored[id], native'[id] = native[id],
           HandleAlert => Head(batch) \notin BearingOn(id)
    PROVE  Saved(id)'
<1>1. CurrentOf(id)' = CurrentOf(id) /\ BearingOn(id)' = BearingOn(id)
  BY BearingStays
<1>2. Kept(id)' = Kept(id)
  BY DEF Kept
<1>3. CASE UNCHANGED <<alerts, batch>>
  BY <1>1, <1>2, <1>3 DEF Saved
<1>4. CASE batch = <<>> /\ alerts' = <<>> /\ batch' = alerts
  <2>1. ~EndsIn(batch, CurrentOf(id), BearingOn(id)) /\ ~Has(alerts', BearingOn(id))
    BY <1>4, NothingEnds, HasNothing
  <2> QED BY <1>1, <1>2, <1>4, <2>1 DEF Saved
<1>5. CASE HandleAlert /\ batch # <<>> /\ batch' = Tail(batch) /\ UNCHANGED alerts
  <2>1. Head(batch) \notin BearingOn(id) /\ CurrentOf(id) \subseteq BearingOn(id)
    BY <1>5 DEF CurrentOf, BearingOn, SavedOf
  <2>2. EndsIn(batch, CurrentOf(id), BearingOn(id)) => EndsIn(batch', CurrentOf(id), BearingOn(id))
    BY <1>5, <2>1, QueuesAre, EndsRest
  <2>3. ~Has(batch, BearingOn(id)) => ~Has(batch', BearingOn(id))
    BY <1>5, QueuesAre, HasRest
  <2> QED BY <1>1, <1>2, <1>5, <2>2, <2>3 DEF Saved
<1>6. ASSUME UNCHANGED batch, NEW a \in Alert, NEW j \in Id,
             NativeMetadata(j), alerts' = Append(alerts, a), a.is = "metadata", a.id = j
      PROVE  Saved(id)'
  <2>1. j # id
    <3> SUFFICES ASSUME j = id PROVE FALSE
      OBVIOUS
    <3>1. /\ native[id] # None /\ ~native[id].info /\ native \in [Id -> NativeTorrent \union {None}]
          /\ native' = [native EXCEPT ![id].info = TRUE, ![id].needSave = TRUE]
      BY <1>6 DEF NativeMetadata, TypeOK
    <3>2. native[id] \in NativeTorrent
      BY <3>1
    <3>3. native'[id].info = TRUE
      BY <3>1, <3>2 DEF NativeTorrent
    <3> QED BY <3>1, <3>3
  <2>2. a \notin BearingOn(id)
    BY <1>6, <2>1, BearingKinds
  <2>3. EndsIn(alerts, CurrentOf(id), BearingOn(id)) => EndsIn(alerts', CurrentOf(id), BearingOn(id))
    BY <1>6, <2>2, QueuesAre, EndsAppended
  <2>4. ~Has(alerts, BearingOn(id)) => ~Has(alerts', BearingOn(id))
    BY <1>6, <2>2, QueuesAre, HasAppended
  <2> QED BY <1>1, <1>2, <1>6, <2>3, <2>4 DEF Saved
<1> QED BY <1>3, <1>4, <1>5, <1>6, AnswersMove

(* Whoever has something to save when the session ends is asked to.        *)
LEMMA ExitSaves ==
    ASSUME TypeOK, Exit, NEW id \in Id, InSession(id), native[id].needSave \/ id \in needSave
    PROVE  Has(work', Effective(id)')
<1>1. /\ work' = work \o Saves({i \in Id : InSession(i)}, FALSE) /\ needSave = {}
      /\ UNCHANGED native /\ work \in Seq(Request)
  BY QueuesAre DEF Exit
<1>2. Has(work', SavesOf(id))
  BY <1>1, SavesHave
<1>3. native[id].needSave
  BY <1>1
<1>4. SavesOf(id) \subseteq Effective(id)'
  BY <1>1, <1>3 DEF SavesOf, Effective
<1> QED BY <1>2, <1>4, Subsets

-----------------------------------------------------------------------------
(* The handler of data that arrive stores them, or searches for files.     *)
LEMMA SavedNowComes ==
    ASSUME TypeOK, FlowInv, NEW id \in Id, InSession(id), SaveComes(id), SavedNow(id)
    PROVE  SaveComes(id)'
<1> SUFFICES ASSUME NEW a \in Alert, a = Head(batch) PROVE SaveComes(id)'
  BY QueuesAre, AlertsMove DEF SavedNow, HandleAlert
<1>1. /\ batch # <<>> /\ batch' = Tail(batch) /\ batch \in Seq(Alert) /\ a.is = "saved" /\ a.id = id
      /\ UNCHANGED <<phase, native, alerts, torrents, needSave, work>>
  BY QueuesAre DEF SavedNow, HandleAlert, OnSaved
<1>2. IF torrents[id].received
      THEN searches' = [searches EXCEPT ![id] = @ + 1]
      ELSE /\ stored' = [stored EXCEPT ![id] = [own |-> torrents[id].own, progress |-> a.progress,
                                                info |-> a.info]]
           /\ UNCHANGED searches
  BY <1>1 DEF SavedNow, OnSaved
<1>3. /\ searches \in [Id -> Nat] /\ torrents[id] \in TorrentImpl /\ stored \in [Id -> Data \union {NoData}]
      /\ native[id] # None /\ native \in [Id -> NativeTorrent \union {None}]
      /\ native[id].info <=> HasInfo(id) \/ MetadataPending(id, "own")
  BY DEF TypeOK, InSession, FlowInv, FlowOf, OwnerInv, Owner
<1>4. CASE torrents[id].received
  <2>1. searches'[id] = searches[id] + 1 /\ searches[id] \in Nat
    BY <1>2, <1>3, <1>4
  <2>2. Waiting(id)'
    BY <1>1, <1>4, <2>1 DEF Waiting, InSession
  <2> QED BY <2>2 DEF SaveComes, SaveOf
<1>5. CASE ~torrents[id].received
  <2>1. CurrentOf(id)' = CurrentOf(id) /\ BearingOn(id)' = BearingOn(id) /\ Effective(id)' = Effective(id)
    BY <1>1 DEF CurrentOf, BearingOn, SavedOf, Metadata, Effective
  <2>2. a \in BearingOn(id)
    BY <1>1, BearingKinds
  <2>3. Has(batch, BearingOn(id))
    BY <1>1, <2>2, HasRest
  <2>4. CASE Running /\ (native[id].needSave \/ id \in needSave)
    BY <1>1, <2>4 DEF SaveComes, Running
  <2>5. CASE Has(work, Effective(id))
    BY <1>1, <2>1, <2>5 DEF SaveComes, SaveOf
  <2>6. CASE Waiting(id)
    BY <1>5, <2>6 DEF Waiting
  <2>7. CASE EndsIn(alerts, CurrentOf(id), BearingOn(id))
    BY <1>1, <2>1, <2>7 DEF SaveComes, SaveOf, Saved
  <2>8. CASE ~Has(alerts, BearingOn(id)) /\ EndsIn(batch, CurrentOf(id), BearingOn(id))
    <3>1. CASE EndsIn(Tail(batch), CurrentOf(id), BearingOn(id))
      BY <1>1, <2>1, <2>8, <3>1 DEF SaveComes, SaveOf, Saved
    <3>2. CASE a \in CurrentOf(id) /\ ~Has(Tail(batch), BearingOn(id))
      <4>1. ~MetadataPending(id, "own")
        <5>1. Metadata(id, "own") \subseteq BearingOn(id) /\ a \notin Metadata(id, "own")
          BY <1>1 DEF BearingOn, Metadata
        <5>2. ~Has(alerts, Metadata(id, "own")) /\ ~Has(Tail(batch), Metadata(id, "own"))
          BY <2>8, <3>2, <5>1, Subsets
        <5> QED BY <1>1, <5>1, <5>2, HasRest DEF MetadataPending
      <4>2. native[id].info \in BOOLEAN /\ torrents[id].info \in BOOLEAN
        BY <1>3 DEF NativeTorrent, TorrentImpl
      <4>3. native[id].info <=> torrents[id].info
        BY <1>3, <1>5, <4>1 DEF HasInfo
      <4>4. native[id].info = torrents[id].info
        BY <4>2, <4>3
      <4>5. a.progress = native[id].progress /\ a.info = native[id].info
        BY <3>2, BearingKinds
      <4>6. stored'[id] = [own |-> torrents[id].own, progress |-> a.progress, info |-> a.info]
        BY <1>2, <1>3, <1>5
      <4>7. Kept(id)'
        BY <1>1, <4>4, <4>5, <4>6 DEF Kept
      <4> QED BY <1>1, <2>1, <2>8, <3>2, <4>7 DEF SaveComes, SaveOf, Saved
    <3> QED BY <1>1, <2>8, <3>1, <3>2, EndsRest
  <2> QED BY <2>3, <2>4, <2>5, <2>6, <2>7, <2>8 DEF SaveComes, SaveOf, Saved
<1> QED BY <1>4, <1>5

(* Answers about a torrent of the session are never passed over.           *)
LEMMA HeadBears ==
    ASSUME TypeOK, FlowInv, NEW id \in Id, InSession(id), HandleAlert, Head(batch) \in BearingOn(id)
    PROVE  SavedNow(id) \/ (OnMetadata(Head(batch)) /\ Head(batch).id = id /\ Head(batch).is = "metadata")
<1> SUFFICES ASSUME NEW a \in Alert, a = Head(batch)
             PROVE  SavedNow(id) \/ (OnMetadata(a) /\ a.id = id /\ a.is = "metadata")
  BY QueuesAre, AlertsMove DEF HandleAlert
<1>1. /\ batch # <<>> /\ batch \in Seq(Alert) /\ a \in BearingOn(id)
      /\ OnSaved(a) \/ OnNotModified(a) \/ OnMetadata(a) \/ OnUnknown(a)
  BY QueuesAre DEF HandleAlert
<1>2. a.id = id /\ (a.is = "saved" \/ (a.is = "metadata" /\ a.kind = "own"))
  BY <1>1, BearingKinds
<1>3. CASE a.is = "saved"
  <2>1. OnSaved(a)
    BY <1>1, <1>2, <1>3 DEF OnNotModified, OnMetadata, OnUnknown
  <2> QED BY <1>2, <2>1 DEF SavedNow
<1>4. CASE a.is = "metadata" /\ a.kind = "own"
  <2>1. MetadataPending(id, "own")
    <3>1. a \in Metadata(id, "own")
      BY <1>2, <1>4 DEF Metadata
    <3> QED BY <1>1, <3>1, HasRest DEF MetadataPending
  <2>2. native[id] # None /\ native[id].kind = "own" /\ native[id].info
    BY <2>1 DEF FlowInv, FlowOf, OwnerInv, Owner
  <2>3. Recognised(a)
    BY <1>2, <1>4, <2>2 DEF Recognised
  <2> QED BY <1>1, <1>2, <1>4, <2>3 DEF OnSaved, OnNotModified, OnUnknown
<1> QED BY <1>2, <1>3, <1>4

LEMMA MetadataComes ==
    ASSUME TypeOK, FlowInv, NEW id \in Id, InSession(id), SaveComes(id), HandleAlert,
           OnMetadata(Head(batch)), Head(batch).id = id, Head(batch) \in BearingOn(id)
    PROVE  SaveComes(id)'
<1> SUFFICES ASSUME NEW a \in Alert, a = Head(batch) PROVE SaveComes(id)'
  BY QueuesAre, AlertsMove DEF HandleAlert
<1>1. /\ batch # <<>> /\ batch' = Tail(batch) /\ batch \in Seq(Alert) /\ a.is = "metadata"
      /\ a.id = id /\ a \in BearingOn(id)
      /\ UNCHANGED <<phase, native, alerts, work, searches, stored>>
      /\ torrents' = [torrents EXCEPT ![id].received = TRUE] /\ needSave' = needSave \union {id}
  BY QueuesAre DEF HandleAlert, OnMetadata
<1>2. CASE Running
  BY <1>1, <1>2 DEF SaveComes, Running
<1>3. CASE ~Running
  <2>1. CurrentOf(id)' = CurrentOf(id) /\ BearingOn(id)' = BearingOn(id) /\ Effective(id)' = Effective(id)
    BY <1>1 DEF CurrentOf, BearingOn, SavedOf, Metadata, Effective
  <2>2. Has(batch, BearingOn(id)) /\ a \notin CurrentOf(id)
    BY <1>1, HasRest, BearingKinds
  <2>3. CASE Has(work, Effective(id))
    BY <1>1, <2>1, <2>3 DEF SaveComes, SaveOf
  <2>4. CASE Waiting(id)
    <3>1. torrents \in [Id -> TorrentImpl \union {None}] /\ torrents[id] \in TorrentImpl
      BY DEF TypeOK, InSession
    <3>2. torrents'[id] = [torrents[id] EXCEPT !.received = TRUE]
      BY <1>1, <3>1
    <3>3. torrents'[id] \in TorrentImpl /\ torrents'[id].received = TRUE
      BY <3>1, <3>2 DEF TorrentImpl
    <3>4. torrents'[id] # None
      BY <3>3, TorrentIs
    <3>5. Waiting(id)'
      BY <1>1, <2>4, <3>3, <3>4 DEF Waiting, InSession
    <3> QED BY <3>5 DEF SaveComes, SaveOf
  <2>5. CASE EndsIn(alerts, CurrentOf(id), BearingOn(id))
    BY <1>1, <2>1, <2>5 DEF SaveComes, SaveOf, Saved
  <2>6. CASE ~Has(alerts, BearingOn(id)) /\ EndsIn(batch, CurrentOf(id), BearingOn(id))
    <3>1. EndsIn(Tail(batch), CurrentOf(id), BearingOn(id))
      BY <1>1, <2>2, <2>6, EndsRest
    <3> QED BY <1>1, <2>1, <2>6, <3>1 DEF SaveComes, SaveOf, Saved
  <2> QED BY <1>3, <2>2, <2>3, <2>4, <2>5, <2>6 DEF SaveComes, SaveOf, Saved
<1> QED BY <1>2, <1>3

-----------------------------------------------------------------------------
LEMMA OwnSaveComes ==
    ASSUME ~Overlap, TypeOK, TypeOK', StartupInv, FlowInv, SaveInv, [Next]_vars, ~Restart, ~NativeStep,
           phase # "startup", NEW id \in Id, InSession(id)'
    PROVE  SaveComes(id)'
<1>0. InSession(id) => SaveComes(id)
  BY DEF SaveInv
<1>1. CASE HandleAlert /\ Head(batch) \in BearingOn(id) /\ InSession(id)
  BY <1>0, <1>1, HeadBears, SavedNowComes, MetadataComes
<1>2. CASE Frame(id) /\ ~(HandleAlert /\ Head(batch) \in BearingOn(id))
  <2>1. /\ InSession(id) /\ torrents'[id] = torrents[id] /\ stored'[id] = stored[id]
        /\ native'[id] = native[id] /\ (id \in needSave => id \in needSave')
        /\ Waiting(id) => Waiting(id)'
    BY <1>2 DEF Frame, OwnFrame
  <2>2. Effective(id)' = Effective(id)
    BY <2>1 DEF Effective
  <2>3. CASE SaveOf(id)
    <3>1. Has(work, Effective(id)) => Has(work', Effective(id)')
      BY <2>2, EffectiveGrows
    <3>2. Saved(id) => Saved(id)'
      BY <1>2, <2>1, FrameSaved
    <3> QED BY <2>1, <2>3, <3>1, <3>2 DEF SaveComes, SaveOf
  <2>4. CASE Running /\ (native[id].needSave \/ id \in needSave)
    <3>1. CASE Exit
      <4>1. Has(work', Effective(id)')
        BY <2>1, <2>4, <3>1, ExitSaves
      <4> QED BY <4>1 DEF SaveComes, SaveOf
    <3>2. CASE ~Exit
      <4>1. Running'
        BY <2>4, <3>2, PhaseMoves DEF Running, End
      <4> QED BY <2>1, <2>4, <4>1 DEF SaveComes
    <3> QED BY <3>1, <3>2
  <2> QED BY <1>0, <2>1, <2>3, <2>4 DEF SaveComes
<1>3. CASE Has(work', Unconditional(id))
  <2>1. Unconditional(id) \subseteq Effective(id)'
    BY DEF Unconditional, Effective
  <2> QED BY <1>3, <2>1, Subsets DEF SaveComes, SaveOf
<1>4. CASE SavesSoon(id) \/ NativeSavesSoon(id)
  BY <1>4 DEF SavesSoon, NativeSavesSoon, SaveComes, Running
<1>5. ASSUME SavedNow(id) \/ MetadataNow(id)
      PROVE  HandleAlert /\ Head(batch) \in BearingOn(id) /\ InSession(id)
  <2>1. HandleAlert /\ Head(batch) \in Alert /\ Head(batch).id = id
    BY <1>5, QueuesAre, AlertsMove DEF SavedNow, MetadataNow, HandleAlert
  <2>2. CASE SavedNow(id)
    <3>1. Head(batch).is = "saved" /\ InSession(id)
      BY <2>2 DEF SavedNow, OnSaved
    <3> QED BY <2>1, <3>1, BearingKinds
  <2>3. CASE MetadataNow(id)
    <3>1. Head(batch).is = "metadata" /\ InSession(id) /\ Recognised(Head(batch))
      BY <2>3 DEF MetadataNow, OnMetadata
    <3>2. native[id].kind = "own" /\ Head(batch).kind = native[id].kind
      BY <2>1, <3>1 DEF Recognised, FlowInv, FlowOf, OwnerInv, Owner
    <3> QED BY <2>1, <3>1, <3>2, BearingKinds
  <2> QED BY <1>5, <2>2, <2>3
<1>6. Frame(id) => InSession(id)
  BY DEF Frame, OwnFrame
<1>7. ~Running => adds = <<>>
  BY DEF FlowInv
<1> QED BY <1>1, <1>2, <1>3, <1>4, <1>5, <1>6, <1>7, TorrentStep

LEMMA StartedSaveComes ==
    ASSUME TypeOK, StartupInv, FlowInv, [Next]_vars, ~Restart, phase = "startup", phase' # "startup",
           NEW id \in Id, InSession(id)'
    PROVE  SaveComes(id)'
<1>1. HandleLoadedResumeData \/ Exit
  BY PhaseMoves
<1>2. UNCHANGED <<torrents, stored, native, alerts, batch>>
  BY <1>1 DEF HandleLoadedResumeData, Exit, alertVars
<1>3. Saved(id)
  BY <1>2, StartupSaved DEF InSession
<1>4. Saved(id)'
  BY <1>2, <1>3 DEF Saved, CurrentOf, BearingOn, SavedOf, Metadata, Kept
<1> QED BY <1>4 DEF SaveComes, SaveOf

(* The loop at exit leaves nothing that it has taken.                      *)
EndInv ==
    /\ phase \in {"ended", "aborted"} => batch = <<>>
    /\ phase = "ended" => count <= 0

LEMMA FreshSaves == Fresh => SaveInv /\ EndInv
BY DEF Fresh, SaveInv, EndInv, InSession

LEMMA StartupSavedNext ==
    (TypeOK /\ StartupInv /\ FlowInv /\ phase = "startup" => \A id \in Id : InSession(id) => Saved(id))'
BY StartupSaved, PTL

LEMMA SaveStep ==
    ASSUME ~Overlap, TypeOK, StartupInv, FlowInv, SaveInv, TypeOK', StartupInv', FlowInv', [Next]_vars,
           ~Restart
    PROVE  SaveInv'
<1> SUFFICES ASSUME NEW id \in Id, InSession(id)' PROVE SaveComes(id)'
  BY DEF SaveInv
<1>1. CASE phase' = "startup"
  <2>1. Saved(id)'
    BY <1>1, StartupSavedNext
  <2> QED BY <2>1 DEF SaveComes, SaveOf
<1>2. CASE phase = "startup" /\ phase' # "startup"
  BY <1>2, StartedSaveComes
<1>3. CASE phase # "startup" /\ NativeStep
  <2>1. InSession(id)
    BY <1>3 DEF NativeStep, InSession
  <2> QED BY <1>3, <2>1, NativeSaveComes DEF SaveInv
<1>4. CASE phase # "startup" /\ ~NativeStep
  BY <1>4, OwnSaveComes
<1> QED BY <1>1, <1>2, <1>3, <1>4

LEMMA EndStep ==
    ASSUME TypeOK, FlowInv, EndInv, [Next]_vars, ~Restart
    PROVE  EndInv'
<1>1. CASE End
  BY <1>1 DEF End, Idle, EndInv, alertVars
<1>2. CASE ~End
  <2> SUFFICES ASSUME phase' \in {"ended", "aborted"} PROVE EndInv'
    BY DEF EndInv
  <2>1. UNCHANGED phase /\ ~Exit
    BY <1>2, PhaseMoves
  <2>2. batch = <<>> /\ adds = <<>> /\ (phase = "ended" => count <= 0)
    BY <2>1 DEF EndInv, FlowInv, Running
  <2>3. CASE NativeStep \/ UNCHANGED vars
    BY <2>1, <2>2, <2>3 DEF NativeStep, EndInv, vars, alertVars
  <2>4. ASSUME ~(NativeStep \/ UNCHANGED vars) PROVE FALSE
    <3>1. CASE \/ ReadNext \/ LoadFinished \/ HandleLoadedResumeData \/ SaveNeeded
               \/ GenerateResumeData \/ ReadAlerts \/ HandleAdded \/ HandleAlert
      BY <2>1, <2>2, <3>1 DEF ReadNext, LoadFinished, HandleLoadedResumeData, SaveNeeded,
         GenerateResumeData, Event, ReadAlerts, HandleAdded, HandleAlert
    <3>2. ASSUME NEW j \in Id,
             \/ NativeProgress(j) \/ NativeMetadata(j) \/ ChangeTorrent(j) \/ DeleteTorrent(j)
             \/ AddTorrent(j) \/ DownloadMetadata(j) \/ CancelDownloadMetadata(j) \/ SearchFinished(j)
          PROVE FALSE
      BY <2>1, <3>2 DEF NativeProgress, NativeMetadata, ChangeTorrent, DeleteTorrent,
         AddTorrent, DownloadMetadata, CancelDownloadMetadata, SearchFinished, Event
    <3> QED BY <1>2, <2>1, <2>4, <3>1, <3>2 DEF Next
  <2> QED BY <2>3, <2>4
<1> QED BY <1>1, <1>2

LEMMA SaveInvariant ==
    ~Overlap => (Spec => [](TypeOK /\ StartupInv /\ FlowInv /\ Counted /\ SaveInv /\ EndInv))
<1>1. Init => SaveInv /\ EndInv
  BY InitFresh, FreshSaves
<1>2. ~Overlap /\ TypeOK /\ StartupInv /\ FlowInv /\ SaveInv /\ EndInv
      /\ TypeOK' /\ StartupInv' /\ FlowInv' /\ [Next]_vars
          => SaveInv' /\ EndInv'
  <2> SUFFICES ASSUME ~Overlap, TypeOK, StartupInv, FlowInv, SaveInv, EndInv,
                      TypeOK', StartupInv', FlowInv', [Next]_vars
               PROVE  SaveInv' /\ EndInv'
    OBVIOUS
  <2>1. CASE Restart
    <3>1. Fresh' => SaveInv' /\ EndInv'
      BY FreshSaves, PTL
    <3> QED BY <2>1, <3>1, RestartFresh
  <2>2. CASE ~Restart
    BY <2>2, SaveStep, EndStep
  <2> QED BY <2>1, <2>2
<1>3. ~Overlap => [](~Overlap)
  OBVIOUS
<1> QED BY <1>1, <1>2, <1>3, CountedInvariant, PTL DEF Spec

(* When the session has ended of itself nothing is outstanding, so of all  *)
(* the ways a save could come it has come.                                 *)
LEMMA EndKeeps ==
    ASSUME TypeOK, Counted, SaveInv, EndInv, phase = "ended", NEW id \in Id, InSession(id)
    PROVE  Kept(id)
<1>0. Owed \in Nat /\ IsFiniteSet(Waiters) /\ Cardinality(Waiters) \in Nat /\ count \in Int
      /\ Number(work, SaveRequests) \in Nat /\ Number(alerts, SaveAnswers) \in Nat
      /\ Number(batch, SaveAnswers) \in Nat
  BY OwedTypes
<1>1. Owed = 0 /\ Cardinality(Waiters) = 0
  BY <1>0 DEF Counted, EndInv
<1>2. Number(work, SaveRequests) = 0 /\ Number(alerts, SaveAnswers) = 0
  BY <1>0, <1>1 DEF Owed
<1>3. ~Has(work, Effective(id))
  <2>1. \A i \in DOMAIN work : work[i] \notin SaveRequests
    BY <1>2, QueuesAre, PositionsFinite
  <2>2. Effective(id) \subseteq SaveRequests
    BY DEF Effective, SaveRequests
  <2> QED BY <2>1, <2>2 DEF Has, Positions
<1>4. ~Has(alerts, CurrentOf(id))
  <2>1. \A i \in DOMAIN alerts : alerts[i] \notin SaveAnswers
    BY <1>2, QueuesAre, PositionsFinite
  <2>2. CurrentOf(id) \subseteq SaveAnswers
    BY DEF CurrentOf, SaveAnswers
  <2> QED BY <2>1, <2>2 DEF Has, Positions
<1>5. ~Waiting(id)
  <2>1. Waiters = {}
    BY <1>0, <1>1, FS_EmptySet
  <2> QED BY <2>1 DEF Waiters
<1>6. ~EndsIn(alerts, CurrentOf(id), BearingOn(id)) /\ ~EndsIn(batch, CurrentOf(id), BearingOn(id))
  BY <1>4, EndsHas, NothingEnds DEF EndInv
<1>7. SaveOf(id)
  BY DEF SaveInv, SaveComes, Running
<1> QED BY <1>3, <1>5, <1>6, <1>7 DEF SaveOf, Saved

(* A session that ends without giving up has stored every torrent as it    *)
(* is, with what libtorrent did to it (saveResumeData, ~SessionImpl).      *)
THEOREM EndSaves == ~Overlap => (Spec => []EndSavesAll)
<1>1. TypeOK /\ Counted /\ SaveInv /\ EndInv => EndSavesAll
  BY EndKeeps DEF EndSavesAll, Kept
<1> QED BY <1>1, SaveInvariant, PTL
=============================================================================
