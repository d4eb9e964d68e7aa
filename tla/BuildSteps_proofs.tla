-------------------------- MODULE BuildSteps_proofs --------------------------
(***************************************************************************)
(* Proofs about the step registry, for every set of steps, every default   *)
(* registration and every bound on the list; and about the target table,   *)
(* for every step list, every build and every target.                      *)
(***************************************************************************)
EXTENDS BuildSteps, DefaultTargets, FiniteSetTheorems, SequenceTheorems, WellFoundedInduction, TLAPS

\* A non-empty set of naturals has a minimum, so Min is well defined on it.
LEMMA MinProperty ==
  ASSUME NEW S \in SUBSET Nat, S # {}
  PROVE  /\ Min(S) \in S
         /\ \A y \in S : Min(S) <= y
<1>1. PICK x \in S : \A y \in S : ~(<<y, x>> \in OpToRel(<, Nat))
  BY NatLessThanWellFounded, WFMin
<1>2. \A y \in S : ~(y < x)
  BY <1>1 DEF OpToRel
<1>3. \A y \in S : x <= y
  BY <1>2
<1> QED
  BY <1>3 DEF Min

LEMMA MinIs ==
  ASSUME NEW S \in SUBSET Nat, NEW m \in S, \A k \in S : m <= k
  PROVE  Min(S) = m
<1>1. Min(S) \in S /\ Min(S) <= m
  BY MinProperty
<1>2. m <= Min(S) /\ m \in Nat /\ Min(S) \in Nat
  BY <1>1
<1> QED
  BY ONLY <1>1, <1>2

-----------------------------------------------------------------------------
(* Facts about the operators the registry is built from.                   *)

\* Rank is the inverse of categoryOrder: the eight categories are distinct.
LEMMA RankProperty ==
  /\ \A c \in Category : Rank(c) \in 1..8 /\ CategoryOrder[Rank(c)] = c
  /\ \A r \in 1..8 : CategoryOrder[r] \in Category /\ Rank(CategoryOrder[r]) = r
<1>1. \A c \in Category : Rank(c) \in 1..8 /\ CategoryOrder[Rank(c)] = c
  BY DEF Category, Rank
<1>2. \A q, r \in 1..8 : CategoryOrder[q] = CategoryOrder[r] => q = r
  BY DEF CategoryOrder
<1>3. \A r \in 1..8 : CategoryOrder[r] \in Category
  BY DEF Category
<1> QED
  BY <1>1, <1>2, <1>3

\* t is s with e at position i and everything else in order.
Inserted(S, s, i, e, t) ==
  /\ t \in Seq(S) /\ Len(t) = Len(s) + 1
  /\ \A j \in 1..(Len(s) + 1) : t[j] = IF j < i THEN s[j] ELSE IF j = i THEN e ELSE s[j - 1]

\* InsertAt makes room at position i and keeps everything else in order.
LEMMA InsertAtProperty ==
  ASSUME NEW S, NEW s \in Seq(S), NEW i \in 1..(Len(s) + 1), NEW e \in S
  PROVE  Inserted(S, s, i, e, InsertAt(s, i, e))
<1> DEFINE a == SubSeq(s, 1, i - 1)
           b == SubSeq(s, i, Len(s))
<1>0. Len(s) \in Nat
  BY LenProperties
<1>1. /\ a \in Seq(S) /\ Len(a) = i - 1
      /\ \A j \in 1..(i - 1) : a[j] = s[j]
  BY <1>0, SubSeqProperties
<1>2. /\ b \in Seq(S) /\ Len(b) = Len(s) - i + 1
      /\ \A j \in 1..(Len(s) - i + 1) : b[j] = s[i + j - 1]
  BY <1>0, SubSeqProperties
<1>3. /\ a \o <<e>> \in Seq(S) /\ Len(a \o <<e>>) = i
      /\ \A j \in 1..i : (a \o <<e>>)[j] = IF j < i THEN s[j] ELSE e
  <2>1. <<e>> \in Seq(S) /\ Len(<<e>>) = 1 /\ <<e>>[1] = e
    OBVIOUS
  <2> QED BY <1>1, <2>1, ConcatProperties
<1> HIDE DEF a, b
<1>4. /\ (a \o <<e>>) \o b \in Seq(S)
      /\ Len((a \o <<e>>) \o b) = Len(s) + 1
      /\ \A j \in 1..(Len(s) + 1) :
           ((a \o <<e>>) \o b)[j] = IF j <= i THEN (a \o <<e>>)[j] ELSE b[j - i]
  BY <1>0, <1>2, <1>3, ConcatProperties
<1>5. InsertAt(s, i, e) = (a \o <<e>>) \o b
  BY DEF InsertAt, a, b
<1> QED
  BY <1>0, <1>2, <1>3, <1>4, <1>5 DEF Inserted

-----------------------------------------------------------------------------
(* What the two searches of the registry return.                           *)

\* findFirstStepInCategory returns the first entry of the category, or "not found".
LEMMA FindFirstProperty ==
  ASSUME TypeOK, NEW c
  PROVE  LET f == FindFirstStepInCategory(c) IN
         /\ f \in 0..Len(Steps)
         /\ f # 0 => Steps[f].category = c
         /\ \A j \in 1..Len(Steps) : Steps[j].category = c => f # 0 /\ f <= j
<1> DEFINE I == {i \in 1..Len(Steps) : Steps[i].category = c}
<1>1. Len(Steps) \in Nat
  BY LenProperties DEF TypeOK
<1>2. FindFirstStepInCategory(c) = IF I # {} THEN Min(I) ELSE 0
  BY DEF FindFirstStepInCategory, SelectInSeq
<1>3. I \in SUBSET Nat
  BY <1>1
<1>4. CASE I = {}
  BY <1>1, <1>2, <1>4
<1>5. CASE I # {}
  <2> DEFINE f == FindFirstStepInCategory(c)
  <2>1. f \in I /\ \A y \in I : f <= y
    BY <1>2, <1>3, <1>5, MinProperty
  <2>2. f \in 1..Len(Steps) /\ Steps[f].category = c
    BY <2>1
  <2>3. \A j \in 1..Len(Steps) : Steps[j].category = c => f <= j
    BY <2>1
  <2> QED
    BY <1>1, <2>2, <2>3
<1> QED
  BY <1>4, <1>5

\* The search by name returns an index of the list, or "not found".
LEMMA FindByNameProperty ==
  ASSUME TypeOK, NEW name
  PROVE  FindByName(name) \in 0..Len(Steps)
<1> DEFINE I == {i \in 1..Len(Steps) : NameOf[Steps[i].build] = name}
<1>1. Len(Steps) \in Nat
  BY LenProperties DEF TypeOK
<1>2. FindByName(name) = IF I # {} THEN Min(I) ELSE 0
  BY DEF FindByName, SelectInSeq
<1>3. I \in SUBSET Nat
  BY <1>1
<1>4. CASE I = {}
  BY <1>1, <1>2, <1>4
<1>5. CASE I # {}
  <2>1. Min(I) \in I
    BY <1>3, <1>5, MinProperty
  <2> QED
    BY <1>1, <1>2, <1>5, <2>1
<1> QED
  BY <1>4, <1>5

\* The rank of every entry is one of the eight ranks.
LEMMA EntryRank ==
  ASSUME TypeOK
  PROVE  \A j \in 1..Len(Steps) : /\ Steps[j] \in BuildContext
                                 /\ Steps[j].category \in Category
                                 /\ Rank(Steps[j].category) \in 1..8
<1>1. \A j \in 1..Len(Steps) : Steps[j] \in BuildContext
  BY ElementOfSeq DEF TypeOK
<1> QED
  BY <1>1, RankProperty DEF BuildContext

\* The insertion position is always an index of the longer list, sorted or not.
LEMMA InsertPosRange ==
  ASSUME TypeOK, NEW c \in Category
  PROVE  InsertPos(c) \in 1..(Len(Steps) + 1)
<1>1. Len(Steps) \in Nat
  BY LenProperties DEF TypeOK
<1>2. CASE LaterRanks(c) = {}
  BY <1>1, <1>2 DEF InsertPos
<1>3. CASE LaterRanks(c) # {}
  <2>1. Min(LaterRanks(c)) \in LaterRanks(c)
    BY <1>3, RankProperty, MinProperty DEF LaterRanks
  <2>2. FindFirstStepInCategory(CategoryOrder[Min(LaterRanks(c))]) # 0
    BY <2>1 DEF LaterRanks
  <2> QED
    BY <1>1, <1>3, <2>2, FindFirstProperty DEF InsertPos
<1> QED
  BY <1>2, <1>3

\* On a sorted list the insertion position splits the list at the category.
LEMMA InsertPosSplits ==
  ASSUME TypeOK, CategorySorted, NEW c \in Category
  PROVE  /\ \A j \in 1..Len(Steps) : j < InsertPos(c) => Rank(Steps[j].category) <= Rank(c)
         /\ \A j \in 1..Len(Steps) : j >= InsertPos(c) => Rank(Steps[j].category) > Rank(c)
<1>1. Len(Steps) \in Nat
  BY LenProperties DEF TypeOK
<1>2. \A j \in 1..Len(Steps) :
        Rank(Steps[j].category) > Rank(c) => Rank(Steps[j].category) \in LaterRanks(c)
  <2> SUFFICES ASSUME NEW j \in 1..Len(Steps), Rank(Steps[j].category) > Rank(c)
               PROVE  Rank(Steps[j].category) \in LaterRanks(c)
    OBVIOUS
  <2>1. CategoryOrder[Rank(Steps[j].category)] = Steps[j].category
    BY EntryRank, RankProperty
  <2>2. FindFirstStepInCategory(CategoryOrder[Rank(Steps[j].category)]) # 0
    BY <2>1, FindFirstProperty
  <2> QED
    BY <2>2, EntryRank, RankProperty DEF LaterRanks
<1>3. CASE LaterRanks(c) = {}
  <2>1. InsertPos(c) = Len(Steps) + 1
    BY <1>3 DEF InsertPos
  <2>2. \A j \in 1..Len(Steps) : ~(Rank(Steps[j].category) > Rank(c))
    BY <1>2, <1>3
  <2>3. \A j \in 1..Len(Steps) : Rank(Steps[j].category) \in 1..8
    BY EntryRank
  <2>4. Rank(c) \in 1..8
    BY RankProperty
  <2> QED
    BY <1>1, <2>1, <2>2, <2>3, <2>4
<1>4. CASE LaterRanks(c) # {}
  <2> DEFINE r == Min(LaterRanks(c))
             p == InsertPos(c)
  <2>1. r \in LaterRanks(c) /\ \A q \in LaterRanks(c) : r <= q
    BY <1>4, RankProperty, MinProperty DEF LaterRanks
  <2>2. p = FindFirstStepInCategory(CategoryOrder[r])
    BY <1>4 DEF InsertPos
  <2>3. r \in 1..8 /\ r > Rank(c) /\ p # 0
    BY <2>1, <2>2, RankProperty DEF LaterRanks
  <2> HIDE DEF r, p
  <2>4. /\ p \in 1..Len(Steps) /\ Rank(Steps[p].category) = r
        /\ \A j \in 1..Len(Steps) : j < p => Rank(Steps[j].category) # r
    <3>1. p \in 1..Len(Steps) /\ Steps[p].category = CategoryOrder[r]
      BY <1>1, <2>2, <2>3, FindFirstProperty
    <3>2. \A j \in 1..Len(Steps) : j < p => Steps[j].category # CategoryOrder[r]
      BY <1>1, <2>2, FindFirstProperty
    <3> QED
      BY <2>3, <3>1, <3>2, EntryRank, RankProperty
  <2>5. ASSUME NEW j \in 1..Len(Steps), j < p
        PROVE  Rank(Steps[j].category) <= Rank(c)
    <3>1. Rank(Steps[j].category) <= r
      BY <2>4, <2>5 DEF CategorySorted
    <3>2. Rank(Steps[j].category) < r
      BY <2>3, <2>4, <2>5, <3>1, EntryRank
    <3> QED
      BY <1>2, <2>1, <2>3, <3>2, EntryRank, RankProperty
  <2>6. ASSUME NEW j \in 1..Len(Steps), j >= p
        PROVE  Rank(Steps[j].category) > Rank(c)
    <3>1. Rank(Steps[j].category) >= r
      BY <2>3, <2>4, <2>6, EntryRank DEF CategorySorted
    <3> QED
      BY <2>3, <3>1, EntryRank, RankProperty
  <2> QED
    BY <2>5, <2>6 DEF p
<1> QED
  BY <1>3, <1>4

-----------------------------------------------------------------------------
(* What one insertion or replacement does to the list.                     *)

\* Removing what InsertAt put in gives the old sequence back.
LEMMA RemoveInserted ==
  ASSUME NEW S, NEW s \in Seq(S), NEW p \in 1..(Len(s) + 1), NEW e \in S
  PROVE  RemoveAt(InsertAt(s, p, e), p) = s
<1> DEFINE t == InsertAt(s, p, e)
           a == SubSeq(t, 1, p - 1)
           b == SubSeq(t, p + 1, Len(t))
<1>0. Len(s) \in Nat
  BY LenProperties
<1>i. Inserted(S, s, p, e, t)
  BY InsertAtProperty
<1>7. RemoveAt(t, p) = a \o b
  BY DEF RemoveAt
<1> HIDE DEF t
<1>1. /\ t \in Seq(S) /\ Len(t) = Len(s) + 1
      /\ \A j \in 1..(Len(s) + 1) :
           t[j] = IF j < p THEN s[j] ELSE IF j = p THEN e ELSE s[j - 1]
  BY <1>i DEF Inserted
<1>2. /\ a \in Seq(S) /\ Len(a) = p - 1
      /\ \A j \in 1..(p - 1) : a[j] = t[j]
  BY <1>0, <1>1, SubSeqProperties
<1>3. /\ b \in Seq(S) /\ Len(b) = Len(s) - p + 1
      /\ \A j \in 1..(Len(s) - p + 1) : b[j] = t[p + j]
  BY <1>0, <1>1, SubSeqProperties
<1> HIDE DEF a, b
<1>4. /\ a \o b \in Seq(S) /\ Len(a \o b) = Len(s)
      /\ \A j \in 1..Len(s) :
           (a \o b)[j] = IF j <= p - 1 THEN a[j] ELSE b[j - (p - 1)]
  BY <1>0, <1>2, <1>3, ConcatProperties
<1> DEFINE c == a \o b
<1> HIDE DEF c
<1>5. ASSUME NEW j \in 1..Len(s)
      PROVE  c[j] = s[j]
  <2>0. c[j] = IF j <= p - 1 THEN a[j] ELSE b[j - (p - 1)]
    BY <1>4 DEF c
  <2>1. CASE j <= p - 1
    BY <1>0, <1>1, <1>2, <2>0, <2>1
  <2>2. CASE j > p - 1
    <3>1. j - (p - 1) \in 1..(Len(s) - p + 1)
      BY <1>0, <2>2
    <3>2. c[j] = b[j - (p - 1)]
      BY <1>0, <2>0, <2>2
    <3>3. b[j - (p - 1)] = t[p + (j - (p - 1))]
      BY <1>3, <3>1
    <3>4. p + (j - (p - 1)) = j + 1
      BY <1>0
    <3>5. t[j + 1] = s[j]
      BY <1>0, <1>1, <2>2
    <3> QED
      BY <3>2, <3>3, <3>4, <3>5
  <2> QED
    BY <1>0, <2>1, <2>2
<1>6. a \o b = s
  BY <1>4, <1>5, SeqEqual DEF c
<1> QED
  BY <1>6, <1>7 DEF t

\* A list extended by InsertAt is well typed and is the old list plus one entry.
LEMMA InsertExtends ==
  ASSUME TypeOK, NEW p \in 1..(Len(Steps) + 1), NEW e \in BuildContext,
         Steps' = InsertAt(Steps, p, e)
  PROVE  /\ Steps' \in Seq(BuildContext)
         /\ p \in 1..Len(Steps') /\ Steps'[p] = e
         /\ RemoveAt(Steps', p) = Steps
<1>0. Steps \in Seq(BuildContext) /\ Len(Steps) \in Nat
  BY LenProperties DEF TypeOK
<1> DEFINE t == InsertAt(Steps, p, e)
<1>a. Inserted(BuildContext, Steps, p, e, t)
  BY <1>0, InsertAtProperty
<1>2. RemoveAt(t, p) = Steps
  BY <1>0, RemoveInserted
<1> HIDE DEF t
<1>3. t \in Seq(BuildContext) /\ p \in 1..Len(t) /\ t[p] = e
  BY <1>0, <1>a DEF Inserted
<1> QED
  BY <1>2, <1>3 DEF t

\* An entry inserted where its category belongs keeps the list sorted.
LEMMA InsertSorted ==
  ASSUME TypeOK, CategorySorted,
         NEW p \in 1..(Len(Steps) + 1), NEW e \in BuildContext,
         Steps' = InsertAt(Steps, p, e),
         \A j \in 1..Len(Steps) : j < p => Rank(Steps[j].category) <= Rank(e.category),
         \A j \in 1..Len(Steps) : j >= p => Rank(Steps[j].category) >= Rank(e.category)
  PROVE  CategorySorted'
<1>0. Steps \in Seq(BuildContext) /\ Len(Steps) \in Nat
  BY LenProperties DEF TypeOK
<1> DEFINE t == InsertAt(Steps, p, e)
<1>a. Inserted(BuildContext, Steps, p, e, t)
  BY <1>0, InsertAtProperty
<1>b. Steps' = t
  OBVIOUS
<1> HIDE DEF t
<1>1. /\ Len(Steps') = Len(Steps) + 1
      /\ \A j \in 1..(Len(Steps) + 1) :
           Steps'[j] = IF j < p THEN Steps[j] ELSE IF j = p THEN e ELSE Steps[j - 1]
  BY <1>a, <1>b DEF Inserted
<1>2. Rank(e.category) \in 1..8
  BY RankProperty DEF BuildContext
<1>3. ASSUME NEW i \in 1..Len(Steps'), NEW j \in 1..Len(Steps'), i < j
      PROVE  Rank(Steps'[i].category) <= Rank(Steps'[j].category)
  <2> DEFINE R(k) == Rank(Steps[k].category)
  <2>1. \A k \in 1..Len(Steps) : R(k) \in 1..8
    BY EntryRank
  <2>2. \A k, l \in 1..Len(Steps) : k < l => R(k) <= R(l)
    BY DEF CategorySorted
  <2>3. CASE i < p /\ j < p
    <3>1. i \in 1..Len(Steps) /\ j \in 1..Len(Steps)
      BY <1>0, <1>1, <2>3
    <3>2. Steps'[i] = Steps[i] /\ Steps'[j] = Steps[j]
      BY <1>0, <1>1, <2>3
    <3> QED
      BY <1>3, <2>2, <3>1, <3>2
  <2>4. CASE i < p /\ j = p
    <3>1. i \in 1..Len(Steps) /\ Steps'[i] = Steps[i] /\ Steps'[j] = e
      BY <1>0, <1>1, <1>3, <2>4
    <3> QED
      BY <2>4, <3>1
  <2>5. CASE i < p /\ j > p
    <3>1. i \in 1..Len(Steps) /\ j - 1 \in 1..Len(Steps) /\ j - 1 >= p
      BY <1>0, <1>1, <2>5
    <3>2. R(i) <= Rank(e.category) /\ Rank(e.category) <= R(j - 1)
      BY <2>5, <3>1
    <3>3. R(i) \in 1..8 /\ R(j - 1) \in 1..8
      BY <2>1, <3>1
    <3> HIDE DEF R
    <3>4. R(i) <= R(j - 1)
      <4> DEFINE l == R(i)
                 m == Rank(e.category)
                 n == R(j - 1)
      <4>1. l <= m /\ m <= n /\ l \in 1..8 /\ m \in 1..8 /\ n \in 1..8
        BY <1>2, <3>2, <3>3
      <4> HIDE DEF l, m, n
      <4>2. l <= n
        BY ONLY <4>1
      <4> QED
        BY <4>2 DEF l, n
    <3>5. Steps'[i] = Steps[i]
      BY <1>1, <2>5, <3>1
    <3>6. Steps'[j] = Steps[j - 1]
      BY <1>0, <1>1, <2>5
    <3> QED
      BY <3>4, <3>5, <3>6 DEF R
  <2>6. CASE i = p
    <3>1. j - 1 \in 1..Len(Steps) /\ j - 1 >= p
      BY <1>0, <1>1, <1>3, <2>6
    <3>2. Steps'[i] = e /\ Steps'[j] = Steps[j - 1]
      BY <1>0, <1>1, <1>3, <2>6
    <3>3. R(j - 1) >= Rank(e.category) /\ R(j - 1) \in 1..8
      BY <2>1, <3>1
    <3> HIDE DEF R
    <3>4. Rank(e.category) <= R(j - 1)
      BY <1>2, <3>3
    <3> QED
      BY <3>2, <3>4 DEF R
  <2>7. CASE i > p
    <3>1. i - 1 \in 1..Len(Steps) /\ j - 1 \in 1..Len(Steps) /\ i - 1 < j - 1
      BY <1>0, <1>1, <1>3, <2>7
    <3>2. Steps'[i] = Steps[i - 1] /\ Steps'[j] = Steps[j - 1]
      BY <1>0, <1>1, <1>3, <2>7
    <3> QED
      BY <2>2, <3>1, <3>2
  <2> QED
    BY <1>0, <1>1, <2>3, <2>4, <2>5, <2>6, <2>7
<1> QED
  BY <1>3 DEF CategorySorted

\* A replacement touches one entry and leaves every category where it was.
LEMMA ReplaceExtends ==
  ASSUME TypeOK, NEW p \in 1..Len(Steps), NEW e \in BuildContext,
         e.category = Steps[p].category, Steps' = ReplaceAt(Steps, p, e)
  PROVE  /\ Steps' \in Seq(BuildContext) /\ Len(Steps') = Len(Steps)
         /\ \A j \in 1..Len(Steps) : Steps'[j].category = Steps[j].category
         /\ \A j \in 1..Len(Steps) \ {p} : Steps'[j] = Steps[j]
<1>1. Steps \in Seq(BuildContext)
  BY DEF TypeOK
<1>2. Steps' = [Steps EXCEPT ![p] = e]
  BY DEF ReplaceAt
<1> QED
  BY <1>1, <1>2, ExceptSeq

-----------------------------------------------------------------------------
(* What each operation does: it keeps the list well typed, it only extends *)
(* the list, and - Add and AddAsync apart - it keeps the list sorted.      *)

Kept == Steps' \in Seq(BuildContext) /\ err' \in BOOLEAN /\ (Steps' # Steps => Extends(Steps, Steps'))

\* insertAtCategoryEnd, for known and unknown categories.
LEMMA CategoryEndStep ==
  ASSUME TypeOK, NEW c, NEW s \in Step, NEW async \in BOOLEAN, InsertAtCategoryEnd(c, s, async)
  PROVE  Kept /\ (CategorySorted => CategorySorted')
<1> DEFINE e == [build |-> s, category |-> c, async |-> async]
<1>1. CASE c \notin Category
  <2>1. Steps' = Steps /\ err' \in BOOLEAN
    BY <1>1 DEF InsertAtCategoryEnd
  <2> QED
    BY <2>1 DEF Kept, TypeOK, CategorySorted
<1>2. CASE c \in Category
  <2>1. e \in BuildContext /\ e.category = c
    BY <1>2 DEF BuildContext
  <2>2. Steps' = InsertAt(Steps, InsertPos(c), e) /\ err' \in BOOLEAN
    BY <1>2 DEF InsertAtCategoryEnd
  <2>3. InsertPos(c) \in 1..(Len(Steps) + 1)
    BY <1>2, InsertPosRange
  <2> HIDE DEF e
  <2>4. /\ Steps' \in Seq(BuildContext)
        /\ InsertPos(c) \in 1..Len(Steps') /\ RemoveAt(Steps', InsertPos(c)) = Steps
    BY <2>1, <2>2, <2>3, InsertExtends
  <2>5. ASSUME CategorySorted
        PROVE  CategorySorted'
    <3>1. /\ \A j \in 1..Len(Steps) : j < InsertPos(c) => Rank(Steps[j].category) <= Rank(e.category)
          /\ \A j \in 1..Len(Steps) : j >= InsertPos(c) => Rank(Steps[j].category) >= Rank(e.category)
      BY <1>2, <2>1, <2>5, InsertPosSplits, EntryRank, RankProperty
    <3> QED
      BY <2>1, <2>2, <2>3, <2>5, <3>1, InsertSorted
  <2> QED
    BY <2>2, <2>4, <2>5 DEF Kept, Extends
<1> QED
  BY <1>1, <1>2

\* insertRelativeToStep, whether the name is found or not.
LEMMA RelativeStep ==
  ASSUME TypeOK, NEW name, NEW s \in Step, NEW async \in BOOLEAN, NEW before \in BOOLEAN,
         InsertRelativeToStep(name, s, async, before)
  PROVE  Kept /\ (CategorySorted => CategorySorted')
<1> DEFINE i == FindByName(name)
           p == IF before THEN i ELSE i + 1
           e == [build |-> s, category |-> Steps[i].category, async |-> async]
<1>0. i \in 0..Len(Steps) /\ Len(Steps) \in Nat
  BY FindByNameProperty, LenProperties DEF TypeOK
<1>1. CASE i = 0
  <2>1. Steps' = Steps /\ err' \in BOOLEAN
    BY <1>1 DEF InsertRelativeToStep
  <2> QED
    BY <2>1 DEF Kept, TypeOK, CategorySorted
<1>2. CASE i # 0
  <2>0. i \in 1..Len(Steps)
    BY <1>0, <1>2
  <2>1. e \in BuildContext /\ e.category = Steps[i].category
    BY <2>0, EntryRank DEF BuildContext
  <2>2. Steps' = InsertAt(Steps, p, e) /\ err' \in BOOLEAN
    BY <1>2 DEF InsertRelativeToStep
  <2>3. p \in 1..(Len(Steps) + 1) /\ (p = i \/ p = i + 1)
    BY <1>0, <2>0
  <2> HIDE DEF e, p, i
  <2>4. /\ Steps' \in Seq(BuildContext)
        /\ p \in 1..Len(Steps') /\ RemoveAt(Steps', p) = Steps
    BY <2>1, <2>2, <2>3, InsertExtends
  <2>5. ASSUME CategorySorted
        PROVE  CategorySorted'
    <3>1. \A j \in 1..Len(Steps) : j < p => Rank(Steps[j].category) <= Rank(e.category)
      <4> SUFFICES ASSUME NEW j \in 1..Len(Steps), j < p
                   PROVE  Rank(Steps[j].category) <= Rank(Steps[i].category)
        BY <2>1
      <4>1. j < i \/ j = i
        BY <2>0, <2>3
      <4> QED
        BY <2>0, <2>5, <4>1, EntryRank DEF CategorySorted
    <3>2. \A j \in 1..Len(Steps) : j >= p => Rank(Steps[j].category) >= Rank(e.category)
      <4> SUFFICES ASSUME NEW j \in 1..Len(Steps), j >= p
                   PROVE  Rank(Steps[j].category) >= Rank(Steps[i].category)
        BY <2>1
      <4>1. i < j \/ j = i
        BY <2>0, <2>3
      <4>2. Rank(Steps[i].category) <= Rank(Steps[j].category)
        BY <2>0, <2>5, <4>1, EntryRank DEF CategorySorted
      <4>3. Rank(Steps[i].category) \in 1..8 /\ Rank(Steps[j].category) \in 1..8
        BY <2>0, EntryRank
      <4> QED
        BY <4>2, <4>3
    <3> QED
      BY <2>1, <2>2, <2>3, <2>5, <3>1, <3>2, InsertSorted
  <2> QED
    BY <2>2, <2>4, <2>5 DEF Kept, Extends
<1> QED
  BY <1>1, <1>2

\* Replace, whether the name is found or not.
LEMMA ReplaceStep ==
  ASSUME TypeOK, NEW name, NEW s \in Step, Replace(name, s)
  PROVE  Kept /\ (CategorySorted => CategorySorted')
<1> DEFINE i == FindByName(name)
           e == [build |-> s, category |-> Steps[i].category, async |-> s \in AsyncSteps]
<1>0. i \in 0..Len(Steps) /\ Len(Steps) \in Nat
  BY FindByNameProperty, LenProperties DEF TypeOK
<1>1. CASE i = 0
  <2>1. Steps' = Steps /\ err' \in BOOLEAN
    BY <1>1 DEF Replace
  <2> QED
    BY <2>1 DEF Kept, TypeOK, CategorySorted
<1>2. CASE i # 0
  <2>0. i \in 1..Len(Steps)
    BY <1>0, <1>2
  <2>1. e \in BuildContext /\ e.category = Steps[i].category
    BY <2>0, EntryRank DEF BuildContext
  <2>2. Steps' = ReplaceAt(Steps, i, e) /\ err' \in BOOLEAN
    BY <1>2 DEF Replace
  <2> HIDE DEF e, i
  <2>3. /\ Steps' \in Seq(BuildContext) /\ Len(Steps') = Len(Steps)
        /\ \A j \in 1..Len(Steps) : Steps'[j].category = Steps[j].category
        /\ \A j \in 1..Len(Steps) \ {i} : Steps'[j] = Steps[j]
    BY <2>0, <2>1, <2>2, ReplaceExtends
  <2>4. Extends(Steps, Steps')
    BY <2>0, <2>3 DEF Extends
  <2>5. CategorySorted => CategorySorted'
    BY <2>3 DEF CategorySorted
  <2> QED
    BY <2>2, <2>3, <2>4, <2>5 DEF Kept
<1> QED
  BY <1>1, <1>2

\* Add and AddAsync: well typed and extending, but nothing about the order.
LEMMA AppendStep ==
  ASSUME TypeOK, NEW s \in Step, NEW async \in BOOLEAN, AddEntry(s, async)
  PROVE  Kept
<1> DEFINE e == [build |-> s, category |-> "build", async |-> async]
           n == Len(Steps) + 1
<1>0. Steps \in Seq(BuildContext) /\ Len(Steps) \in Nat
  BY LenProperties DEF TypeOK
<1>1. e \in BuildContext
  <2>1. CategoryOrder[3] = "build"
    BY DEF CategoryOrder
  <2> QED
    BY <2>1 DEF Category, BuildContext
<1>2. Steps' = Append(Steps, e) /\ err' = FALSE
  BY DEF AddEntry
<1> HIDE DEF e
<1>3. Steps' \in Seq(BuildContext) /\ Len(Steps') = n
  BY <1>0, <1>1, <1>2
<1>4. RemoveAt(Steps', n) = Steps
  <2>1. SubSeq(Steps', 1, n - 1) = Steps
    BY <1>0, <1>1, <1>2
  <2>2. SubSeq(Steps', n + 1, Len(Steps')) = << >>
    BY <1>0, <1>3
  <2>3. RemoveAt(Steps', n) = Steps \o << >>
    BY <2>1, <2>2 DEF RemoveAt
  <2> QED
    BY <1>0, <2>3, ConcatEmptySeq
<1>5. Extends(Steps, Steps')
  <2>1. n \in 1..Len(Steps')
    BY <1>0, <1>3
  <2> QED
    BY <1>4, <2>1 DEF Extends
<1>6. err' \in BOOLEAN
  BY <1>2
<1> QED
  BY <1>3, <1>5, <1>6 DEF Kept

-----------------------------------------------------------------------------
(* The theorems.                                                           *)

\* Every step of the whole interface keeps the list typed and only extends it.
LEMMA NextKept ==
  ASSUME TypeOK, Next
  PROVE  TypeOK' /\ Kept /\ (HookNext /\ CategorySorted => CategorySorted')
<1> USE RegistryAssumption
<1>0. Len(DefaultSteps) \in Nat
  BY LenProperties
<1>1. CASE InitBuildSteps \/ FinishInit
  <2>1. Steps' = Steps /\ err' = err
    BY <1>1 DEF InitBuildSteps, FinishInit
  <2>2. next' \in 0..(Len(DefaultSteps) + 1)
    BY <1>0, <1>1 DEF InitBuildSteps, FinishInit
  <2>3. init' \in BOOLEAN
    BY <1>1, Zenon DEF InitBuildSteps, FinishInit, TypeOK
  <2> QED
    BY <2>1, <2>2, <2>3 DEF TypeOK, Kept, CategorySorted
<1>2. CASE AddStep
  <2>1. DefaultSteps[next] \in Category \X Step
    BY <1>0, <1>2, ElementOfSeq DEF AddStep
  <2>2. next' \in 0..(Len(DefaultSteps) + 1) /\ init' \in BOOLEAN
    BY <1>0, <1>2 DEF AddStep, TypeOK
  <2> DEFINE c == DefaultSteps[next][1]
             s == DefaultSteps[next][2]
             async == s \in AsyncSteps
  <2>3. s \in Step /\ async \in BOOLEAN /\ InsertAtCategoryEnd(c, s, async)
    BY <1>2, <2>1 DEF AddStep
  <2> HIDE DEF c, s, async
  <2>4. Kept /\ (CategorySorted => CategorySorted')
    BY <2>3, CategoryEndStep
  <2> QED
    BY <2>2, <2>4 DEF TypeOK, Kept
<1>3. CASE Hooks
  <2>1. next' = next /\ init' = init
    BY <1>3 DEF Hooks, AddBefore, AddAfter, AddAsyncBefore, AddAsyncAfter, Replace,
                AddToCategory, AddAsyncToCategory, Call
  <2>2. PICK s \in Step :
          \/ \E n \in {NameOf[t] : t \in Step} :
               \/ AddBefore(n, s) \/ AddAfter(n, s)
               \/ AddAsyncBefore(n, s) \/ AddAsyncAfter(n, s)
               \/ Replace(n, s)
          \/ \E c \in CallCategory : AddToCategory(c, s) \/ AddAsyncToCategory(c, s)
    BY <1>3 DEF Hooks
  <2> DEFINE Goal == Kept /\ (CategorySorted => CategorySorted')
  <2> HIDE DEF Goal
  <2>4. ASSUME NEW n, AddBefore(n, s) \/ AddAfter(n, s) \/ AddAsyncBefore(n, s) \/ AddAsyncAfter(n, s)
        PROVE  Goal
    BY <2>4, RelativeStep DEF AddBefore, AddAfter, AddAsyncBefore, AddAsyncAfter, Goal
  <2>5. ASSUME NEW n, Replace(n, s)
        PROVE  Goal
    BY <2>5, ReplaceStep DEF Goal
  <2>6. ASSUME NEW c, AddToCategory(c, s) \/ AddAsyncToCategory(c, s)
        PROVE  Goal
    BY <2>6, CategoryEndStep DEF AddToCategory, AddAsyncToCategory, Goal
  <2>3. Kept /\ (CategorySorted => CategorySorted')
    BY <2>2, <2>4, <2>5, <2>6 DEF Goal
  <2> QED
    BY <2>1, <2>3 DEF TypeOK, Kept
<1>4. CASE Appends /\ ~HookNext
  <2>1. next' = next /\ init' = init
    BY <1>4 DEF Appends, Add, AddAsync, AddEntry, Call
  <2>2. Kept
    BY <1>4, AppendStep DEF Appends, Add, AddAsync
  <2> QED
    BY <1>4, <2>1, <2>2 DEF TypeOK, Kept
<1> QED
  BY <1>1, <1>2, <1>3, <1>4 DEF Next, HookNext, Registration

\* Initially the list is well typed and, all in the Build category, sorted.
LEMMA InitSorted == Init => TypeOK /\ CategorySorted
<1> SUFFICES ASSUME Init PROVE TypeOK /\ CategorySorted
  OBVIOUS
<1>0. PICK n \in 0..2 : \E initial \in [1..n -> Step] :
        /\ Steps = [i \in DOMAIN initial |->
                      [build |-> initial[i], category |-> "build", async |-> initial[i] \in AsyncSteps]]
        /\ init = (Len(initial) > 0)
  BY DEF Init
<1>1. PICK initial \in [1..n -> Step] :
        /\ Steps = [i \in DOMAIN initial |->
                      [build |-> initial[i], category |-> "build", async |-> initial[i] \in AsyncSteps]]
        /\ init = (Len(initial) > 0)
  BY <1>0
<1>2. "build" \in Category
  <2>1. CategoryOrder[3] = "build"
    BY DEF CategoryOrder
  <2> QED
    BY <2>1 DEF Category
<1>3. DOMAIN initial = 1..n
  BY <1>1
<1>4. Steps \in [1..n -> BuildContext] /\ \A i \in 1..n : Steps[i].category = "build"
  BY <1>1, <1>2, <1>3 DEF BuildContext
<1>5. Steps \in Seq(BuildContext) /\ Len(Steps) = n
  BY <1>4, SeqDef
<1>6. init \in BOOLEAN
  BY <1>1
<1>7. Len(DefaultSteps) \in Nat
  BY RegistryAssumption, LenProperties
<1>8. CategorySorted
  BY <1>2, <1>4, <1>5, RankProperty DEF CategorySorted
<1>9. next \in 0..(Len(DefaultSteps) + 1)
  BY <1>7 DEF Init
<1>10. err \in BOOLEAN
  BY DEF Init
<1> QED
  BY <1>5, <1>6, <1>8, <1>9, <1>10 DEF TypeOK

\* The list is well typed whatever operations of the interface are called.
THEOREM RegistryTyped == Spec => []TypeOK
<1>1. Init => TypeOK
  BY InitSorted
<1>2. TypeOK /\ [Next]_vars => TypeOK'
  <2>1. CASE Next
    BY <2>1, NextKept
  <2>2. CASE UNCHANGED vars
    BY <2>2 DEF vars, TypeOK
  <2> QED
    BY <2>1, <2>2
<1> QED
  BY <1>1, <1>2, PTL DEF Spec

\* No operation loses, duplicates or reorders a step that is registered.
THEOREM RegistryKeepsSteps == Spec => StepsKept
<1>1. TypeOK /\ [Next]_vars => [Steps' # Steps => Extends(Steps, Steps')]_vars
  BY NextKept DEF Kept
<1> QED
  BY <1>1, RegistryTyped, PTL DEF Spec, StepsKept

\* Used without Add and AddAsync, the registry is sorted by category at every
\* moment: what cmd/engine.go and hook users get runs in category order.
THEOREM RegistrySorted == HookSpec => []CategorySorted
<1>1. Init => TypeOK /\ CategorySorted
  BY InitSorted
<1>2. TypeOK /\ CategorySorted /\ [HookNext]_vars => TypeOK' /\ CategorySorted'
  <2>1. CASE TypeOK /\ CategorySorted /\ HookNext
    BY <2>1, NextKept DEF Next
  <2>2. CASE TypeOK /\ CategorySorted /\ UNCHANGED vars
    BY <2>2 DEF vars, TypeOK, CategorySorted
  <2> QED
    BY <2>1, <2>2
<1> QED
  BY <1>1, <1>2, PTL DEF HookSpec

\* And once Add or AddAsync has broken the order, or before, no other operation
\* breaks it: the order only depends on the interface that a caller chooses.
THEOREM RegistryKeepsOrder == Spec => HooksKeepOrder
<1>1. TypeOK /\ [Next]_vars => [CategorySorted /\ HookNext => CategorySorted']_vars
  BY NextKept DEF Next
<1> QED
  BY <1>1, RegistryTyped, PTL DEF Spec, HooksKeepOrder

\* On a sorted list what AddToCategory inserts is the last of its category.
LEMMA InsertedLast ==
  ASSUME TypeOK, CategorySorted, NEW c \in Category, NEW s \in Step, AddToCategory(c, s)
  PROVE  \E p \in 1..Len(Steps') :
           /\ Steps'[p].build = s /\ Steps'[p].category = c
           /\ RemoveAt(Steps', p) = Steps
           /\ \A q \in (p + 1)..Len(Steps') : Steps'[q].category # c
<1> DEFINE e == [build |-> s, category |-> c, async |-> FALSE]
           p == InsertPos(c)
<1>1. e \in BuildContext /\ e.build = s /\ e.category = c
  BY DEF BuildContext
<1>2. Steps' = InsertAt(Steps, p, e)
  BY DEF AddToCategory, InsertAtCategoryEnd
<1>3. p \in 1..(Len(Steps) + 1) /\ Steps \in Seq(BuildContext) /\ Len(Steps) \in Nat
  BY InsertPosRange, LenProperties DEF TypeOK
<1>4. \A j \in 1..Len(Steps) : j >= p => Rank(Steps[j].category) > Rank(c)
  BY InsertPosSplits
<1>5. Rank(c) \in 1..8
  BY RankProperty
<1> HIDE DEF e, p
<1>6. p \in 1..Len(Steps') /\ Steps'[p] = e /\ RemoveAt(Steps', p) = Steps
  BY <1>1, <1>2, <1>3, InsertExtends
<1>7. Inserted(BuildContext, Steps, p, e, Steps')
  BY <1>1, <1>2, <1>3, InsertAtProperty
<1>8. ASSUME NEW q \in (p + 1)..Len(Steps')
      PROVE  Steps'[q].category # c
  <2>1. q - 1 \in 1..Len(Steps) /\ q - 1 >= p /\ Steps'[q] = Steps[q - 1]
    BY <1>3, <1>7 DEF Inserted
  <2>2. Rank(Steps[q - 1].category) > Rank(c)
    BY <1>4, <2>1
  <2> QED
    BY <1>5, <2>1, <2>2
<1> QED
  BY <1>1, <1>6, <1>8

\* A step that is added to a category of a sorted list runs after every other
\* step of the category, in lists of any length.
THEOREM RegistryAddsAtTheEnd == Spec => AtCategoryEnd
<1>1. TypeOK /\ [Next]_vars =>
        [\A c \in Category, s \in Step : CategorySorted /\ AddToCategory(c, s) =>
           \E p \in 1..Len(Steps') :
             /\ Steps'[p].build = s /\ Steps'[p].category = c
             /\ RemoveAt(Steps', p) = Steps
             /\ \A q \in (p + 1)..Len(Steps') : Steps'[q].category # c]_vars
  BY InsertedLast
<1> QED
  BY <1>1, RegistryTyped, PTL DEF Spec, AtCategoryEnd

-----------------------------------------------------------------------------
(* The target table.                                                       *)

Holder(k, n) == k \in RegisteredFor(ArgType[arg]) /\ Registry[k].alias = n

\* While the table is filled, a name maps to the first step that registers it
\* among the steps seen so far, or to nothing if there is none.
Filled ==
  \A n \in TargetName :
    /\ targets[n] \in Index => targets[n] < reached /\ Holder(targets[n], n)
    /\ \A k \in Index : k < reached /\ Holder(k, n) => targets[n] \in Index /\ targets[n] <= k

TableInv ==
  /\ arg \in Arg /\ target \in Requested
  /\ reached \in 1..(Len(Registry) + 1)
  /\ targets \in [TargetName -> Index \cup {0, Builtin}]
  /\ stage \in {"register", "lookup", "done"}
  /\ stage = "register" => \A n \in TargetName : targets[n] # Builtin
  /\ stage # "register" => reached = Len(Registry) + 1
  /\ Filled
  /\ TargetMeaning

\* Sizes and element types of the registry.
LEMMA RegistryFacts ==
  /\ Len(Registry) \in Nat /\ Index = 1..Len(Registry)
  /\ Builtin = Len(Registry) + 1 /\ 0 \notin Index /\ Builtin \notin Index
  /\ \A k \in Index : Registry[k].alias \in TargetName
BY CommandAssumption, LenProperties DEF Index, Builtin, TargetName

LEMMA TableInitInv == TableInit => TableInv
<1> SUFFICES ASSUME TableInit PROVE TableInv
  OBVIOUS
<1> USE RegistryFacts DEF TableInit
<1>1. Filled
  BY DEF Filled
<1>2. TargetMeaning
  BY DEF TargetMeaning
<1> QED
  BY <1>1, <1>2 DEF TableInv

LEMMA RegisterInv ==
  ASSUME TableInv, RegisterStep
  PROVE  TableInv'
<1> USE RegistryFacts
<1> DEFINE a == Registry[reached].alias
<1>1. /\ stage = "register" /\ reached \in Index /\ reached' = reached + 1 /\ a \in TargetName
      /\ UNCHANGED <<arg, target, stage, ran>>
      /\ targets \in [TargetName -> Index \cup {0, Builtin}]
      /\ \A n \in TargetName : targets[n] # Builtin
  BY DEF RegisterStep, TableInv
<1>2. CASE Holder(reached, a) /\ targets[a] = 0
  <2>1. targets' = [targets EXCEPT ![a] = reached]
    BY <1>1, <1>2 DEF RegisterStep, AddTarget, Holder, RegisteredFor
  <2>2. ASSUME NEW n \in TargetName
        PROVE  /\ targets'[n] \in Index => targets'[n] < reached' /\ Holder(targets'[n], n)
               /\ \A k \in Index : k < reached' /\ Holder(k, n) => targets'[n] \in Index /\ targets'[n] <= k
    <3>1. CASE n = a
      <4>1. targets'[n] = reached
        BY <1>1, <2>1, <3>1
      <4>2. \A k \in Index : k < reached => ~Holder(k, a)
        BY <1>1, <1>2 DEF TableInv, Filled
      <4> QED
        BY <1>1, <1>2, <3>1, <4>1, <4>2
    <3>2. CASE n # a
      <4>1. targets'[n] = targets[n]
        BY <1>1, <2>1, <3>2
      <4>2. ~Holder(reached, n)
        BY <3>2 DEF Holder
      <4> QED
        BY <1>1, <4>1, <4>2 DEF TableInv, Filled
    <3> QED
      BY <3>1, <3>2
  <2>3. Filled'
    BY <1>1, <2>2 DEF Filled, Holder
  <2>4. targets' \in [TargetName -> Index \cup {0, Builtin}] /\ \A n \in TargetName : targets'[n] # Builtin
    BY <1>1, <2>1
  <2> QED
    BY <1>1, <2>3, <2>4 DEF TableInv, TargetMeaning
<1>3. CASE ~(Holder(reached, a) /\ targets[a] = 0)
  <2>1. targets' = targets
    BY <1>1, <1>3 DEF RegisterStep, AddTarget, Holder, RegisteredFor
  <2>2. \A n \in TargetName : Holder(reached, n) => n = a /\ targets[n] \in Index
    BY <1>1, <1>3 DEF Holder
  <2>3. Filled'
    <3>1. ASSUME NEW n \in TargetName
          PROVE  /\ targets[n] \in Index => targets[n] < reached + 1 /\ Holder(targets[n], n)
                 /\ \A k \in Index : k < reached + 1 /\ Holder(k, n) => targets[n] \in Index /\ targets[n] <= k
      <4>1. targets[n] \in Index => targets[n] < reached /\ Holder(targets[n], n)
        BY DEF TableInv, Filled
      <4>2. \A k \in Index : k < reached /\ Holder(k, n) => targets[n] \in Index /\ targets[n] <= k
        BY DEF TableInv, Filled
      <4>3. Holder(reached, n) => targets[n] \in Index /\ targets[n] <= reached
        BY <1>1, <2>2, <4>1
      <4> QED
        BY <1>1, <4>1, <4>2, <4>3
    <3> QED
      BY <1>1, <2>1, <3>1 DEF Filled, Holder
  <2> QED
    BY <1>1, <2>1, <2>3 DEF TableInv, TargetMeaning
<1> QED
  BY <1>2, <1>3

LEMMA BuiltinsInv ==
  ASSUME TableInv, AddBuiltins
  PROVE  TableInv'
<1> USE RegistryFacts
<1>1. /\ stage = "register" /\ stage' = "lookup" /\ reached = Len(Registry) + 1
      /\ UNCHANGED <<arg, target, reached, ran>>
      /\ targets \in [TargetName -> Index \cup {0, Builtin}]
  BY DEF AddBuiltins, TableInv
<1>2. targets' \in [TargetName -> Index \cup {0, Builtin}]
  BY <1>1 DEF AddBuiltins
<1>3. \A n \in TargetName : /\ targets[n] \in Index => targets'[n] = targets[n]
                            /\ targets'[n] \in Index => targets'[n] = targets[n]
  BY <1>1 DEF AddBuiltins
<1>4. Filled'
  BY <1>1, <1>3 DEF TableInv, Filled, Holder
<1> QED
  BY <1>1, <1>2, <1>4 DEF TableInv, TargetMeaning

\* At the lookup the table holds the step that Wanted chooses.
LEMMA LookupInv ==
  ASSUME TableInv, RunTarget
  PROVE  TableInv'
<1> USE RegistryFacts
<1> DEFINE H == AliasHolders(ArgType[arg], target)
<1>1. /\ stage = "lookup" /\ stage' = "done" /\ reached = Len(Registry) + 1
      /\ UNCHANGED <<arg, target, reached, targets>>
      /\ targets \in [TargetName -> Index \cup {0, Builtin}] /\ ArgMatches[arg] \subseteq Index
  BY TargetsAssumption DEF RunTarget, TableInv
<1>2. H \subseteq Index /\ \A k \in Index : k \in H <=> Holder(k, target)
  BY DEF AliasHolders, RegisteredFor, Holder
<1>3. CASE H # {}
  <2>1. target \in TargetName /\ targets[target] \in Index
    BY <1>1, <1>2, <1>3 DEF TableInv, Filled, Holder
  <2>2. targets[target] \in H /\ \A k \in H : targets[target] <= k
    BY <1>1, <1>2, <2>1 DEF TableInv, Filled
  <2>3. H \in SUBSET Nat
    BY <1>2
  <2>4. Min(H) \in H /\ \A k \in H : Min(H) <= k
    BY <1>3, <2>3, MinProperty
  <2>5. targets[target] = Min(H)
    BY <2>2, <2>3, <2>4
  <2>6. ran' = {j \in ArgMatches[arg] : Registry[j].name = Registry[Min(H)].name}
    BY <2>1, <2>5 DEF RunTarget, StepsOf
  <2>7. ran' = Wanted(ArgType[arg], target) \cap ArgMatches[arg]
    BY <1>1, <1>3, <2>6 DEF Wanted
  <2> QED
    BY <1>1, <2>7 DEF TableInv, TargetMeaning, Filled, Holder
<1>4. CASE H = {}
  <2>1. ~(target \in TargetName /\ targets[target] \in Index)
    BY <1>2, <1>4 DEF TableInv, Filled
  <2>2. ran' = IF target = "all" THEN ArgMatches[arg] ELSE {}
    BY <2>1 DEF RunTarget
  <2>3. ran' = Wanted(ArgType[arg], target) \cap ArgMatches[arg]
    BY <1>1, <1>4, <2>2 DEF Wanted
  <2> QED
    BY <1>1, <2>3 DEF TableInv, TargetMeaning, Filled, Holder
<1> QED
  BY <1>3, <1>4

THEOREM TableInvariant == TableSpec => []TableInv
<1>1. TableInv /\ [TableNext]_tableVars => TableInv'
  <2> SUFFICES ASSUME TableInv, [TableNext]_tableVars PROVE TableInv'
    OBVIOUS
  <2>1. CASE UNCHANGED tableVars
    BY <2>1 DEF tableVars, TableInv, Filled, Holder, TargetMeaning
  <2> QED
    BY <2>1, RegisterInv, BuiltinsInv, LookupInv DEF TableNext
<1> QED
  BY <1>1, TableInitInv, PTL DEF TableSpec

\* Whatever the step list, the registration loop and the lookup run exactly the
\* steps the target means: the first holder of an alias decides the name, the
\* name decides the steps, and the built-in targets never hide a step's alias.
THEOREM TargetsMeanWhatTheySay == TableSpec => []TargetMeaning
<1>1. TableInv => TargetMeaning
  BY DEF TableInv
<1> QED
  BY <1>1, TableInvariant, PTL

-----------------------------------------------------------------------------
(* The registry of the engine, with any steps appended to it.              *)

\* The steps of the engine keep their places, and nobody is called "all".
LEMMA EnginePlaces ==
  /\ Len(EngineSteps) = 22 /\ 1..22 \subseteq Index
  /\ \A k \in 1..22 : Registry[k] = EngineSteps[k]
  /\ \A k \in Index \ (1..22) : Registry[k].alias # "all"
<1>1. Len(EngineSteps) = 22
  BY DEF EngineSteps
<1>2. Len(Registry) \in Nat /\ Index = 1..Len(Registry) /\ Len(Registry) >= Len(EngineSteps)
  BY RegistryFacts, DefaultTargetsAssumption
<1>3. Len(Registry) >= 22 /\ 1..22 \subseteq Index
  BY ONLY <1>1, <1>2
<1>4. \A k \in 1..22 : Registry[k] = EngineSteps[k]
  BY <1>1, DefaultTargetsAssumption
<1>5. \A k \in Index \ (1..22) : Registry[k].alias # "all"
  BY <1>1, DefaultTargetsAssumption
<1> QED
  BY <1>1, <1>3, <1>4, <1>5

\* The aliases, names and types that decide who compiles.
LEMMA EngineCompilers ==
  /\ \A k \in 1..22 : EngineSteps[k].alias # "all" /\ (EngineSteps[k].alias = "build" <=> k \in 5..10)
  /\ \A k \in 5..7 : EngineSteps[k].type = "GoLang" /\ EngineSteps[k].name = "golang"
  /\ EngineSteps[8].type = "Maven" /\ EngineSteps[8].name = "maven"
  /\ EngineSteps[9].type = "Python" /\ EngineSteps[9].name = "python"
  /\ EngineSteps[10].type = "Zig" /\ EngineSteps[10].name = "zig"
<1> DEFINE E == EngineSteps
<1>1. /\ E[1].alias = "oidc" /\ E[2].alias = "copier" /\ E[3].alias = "protobuf" /\ E[4].alias = "packer"
      /\ E[5].alias = "build" /\ E[6].alias = "build" /\ E[7].alias = "build"
      /\ E[8].alias = "build" /\ E[9].alias = "build" /\ E[10].alias = "build"
      /\ E[11].alias = "push" /\ E[12].alias = "push" /\ E[13].alias = "push"
      /\ E[14].alias = "push" /\ E[15].alias = "push" /\ E[16].alias = "lint"
      /\ E[17].alias = "sonar" /\ E[18].alias = "trivy" /\ E[19].alias = "pulumi"
      /\ E[20].alias = "release" /\ E[21].alias = "github" /\ E[22].alias = "dummy"
  BY DEF EngineSteps, Entry
<1>2. /\ E[5].type = "GoLang" /\ E[5].name = "golang" /\ E[6].type = "GoLang" /\ E[6].name = "golang"
      /\ E[7].type = "GoLang" /\ E[7].name = "golang" /\ E[8].type = "Maven" /\ E[8].name = "maven"
      /\ E[9].type = "Python" /\ E[9].name = "python" /\ E[10].type = "Zig" /\ E[10].name = "zig"
  BY DEF EngineSteps, Entry
<1> HIDE DEF E
<1>3. \A k \in 1..22 :
        k \in {1, 2, 3, 4, 5, 6, 7, 8, 9, 10, 11, 12, 13, 14, 15, 16, 17, 18, 19, 20, 21, 22}
  OBVIOUS
<1>4. \A k \in 1..22 : E[k].alias # "all" /\ (E[k].alias = "build" <=> k \in 5..10)
  BY <1>1, <1>3
<1> QED
  BY <1>2, <1>4 DEF E

\* A build that a compile step is there for: of a language that has one, and a
\* Go build only with a variant that is known.
Compiled(b) ==
  b.type \in {"GoLang", "Maven", "Python", "Zig"} /\ ~(b.type = "GoLang" /\ b.from \notin Variant)

\* The compile step of a build, of the languages that have one.
CompilerFor(b) ==
  IF b.type = "Maven" THEN 8
  ELSE IF b.type = "Python" THEN 9
  ELSE IF b.type = "Zig" THEN 10
  ELSE IF b.from = "debian" THEN 6
  ELSE IF b.from = "debiancgo" THEN 7
  ELSE IF b.from \in Variant THEN 5
  ELSE 0

LEMMA CompilerForFacts ==
  ASSUME NEW b
  PROVE  /\ b.type = "Maven" => CompilerFor(b) = 8
         /\ b.type = "Python" => CompilerFor(b) = 9
         /\ b.type = "Zig" => CompilerFor(b) = 10
         /\ b.type = "GoLang" =>
              /\ CompilerFor(b) \in {0, 5, 6, 7}
              /\ CompilerFor(b) = 5 <=> b.from \in {"unset", "alpine"}
              /\ CompilerFor(b) = 6 <=> b.from = "debian"
              /\ CompilerFor(b) = 7 <=> b.from = "debiancgo"
              /\ CompilerFor(b) = 0 <=> b.from \notin Variant
BY DEF CompilerFor, Variant

LEMMA EngineMatches ==
  ASSUME NEW b \in Arg
  PROVE  /\ b.type \in {"GoLang", "Maven", "Python", "Zig"} =>
              \A k \in Compilers : k \in MatchedSteps(b) <=> k = CompilerFor(b)
         /\ \A p \in DOMAIN CompilerOf :
              p \in MatchedSteps(b) => CompilerOf[p] \in MatchedSteps(b) /\ CompilerOf[p] \in 1..22
<1>2. MatchedSteps(b) = {k \in 1..22 : Matched(b)[k]}
  BY EnginePlaces DEF MatchedSteps
<1>3. /\ Matched(b)[5] = MatchesAlpine(b) /\ Matched(b)[6] = MatchesDebian(b)
      /\ Matched(b)[7] = MatchesDebianCGO(b) /\ Matched(b)[8] = (b.type = "Maven")
      /\ Matched(b)[9] = (b.type = "Python") /\ Matched(b)[10] = (b.type = "Zig")
      /\ Matched(b)[11] = MatchesAlpine(b) /\ Matched(b)[12] = MatchesDebian(b)
      /\ Matched(b)[13] = FALSE /\ Matched(b)[14] = (b.type = "Python") /\ Matched(b)[15] = (b.type = "Zig")
  BY DEF Matched
<1>4. b.type \in {"GoLang", "Maven", "Python", "Zig"} =>
        \A k \in Compilers : Matched(b)[k] <=> k = CompilerFor(b)
  <2>1. \A k \in Compilers : k \in {5, 6, 7, 8, 9, 10}
    BY DEF Compilers
  <2>2. /\ Matched(b)[5] <=> b.type = "GoLang" /\ b.from \in {"unset", "alpine"}
        /\ Matched(b)[6] <=> b.type = "GoLang" /\ b.from = "debian"
        /\ Matched(b)[7] <=> b.type = "GoLang" /\ b.from = "debiancgo"
    BY <1>3 DEF MatchesAlpine, MatchesDebian, MatchesDebianCGO
  <2> SUFFICES ASSUME b.type \in {"GoLang", "Maven", "Python", "Zig"}, NEW k \in {5, 6, 7, 8, 9, 10}
               PROVE  Matched(b)[k] <=> k = CompilerFor(b)
    BY <2>1
  <2>3. CASE b.type = "GoLang"
    <3>1. ~Matched(b)[8] /\ ~Matched(b)[9] /\ ~Matched(b)[10]
      BY <1>3, <2>3
    <3>2. /\ Matched(b)[5] <=> CompilerFor(b) = 5
          /\ Matched(b)[6] <=> CompilerFor(b) = 6
          /\ Matched(b)[7] <=> CompilerFor(b) = 7
      BY <2>2, <2>3, CompilerForFacts, Zenon
    <3>3. CompilerFor(b) \in {0, 5, 6, 7}
      BY <2>3, CompilerForFacts, Zenon
    <3> QED
      BY ONLY <3>1, <3>2, <3>3
  <2>4. CASE b.type # "GoLang"
    BY <1>3, <2>2, <2>4, CompilerForFacts
  <2> QED
    BY <2>3, <2>4
<1>5. ASSUME NEW p \in 11..15, Matched(b)[p]
      PROVE  CompilerOf[p] \in 1..22 /\ Matched(b)[CompilerOf[p]]
  BY <1>3, <1>5 DEF CompilerOf
<1> QED
  BY <1>2, <1>4, <1>5 DEF Compilers, CompilerOf

\* What "all" and "build" ask for, as far as the compile steps are concerned.
LEMMA CompileTargets ==
  ASSUME NEW b \in Arg
  PROVE  /\ Wanted(b.type, "all") = Index
         /\ Compiled(b) => CompilerFor(b) \in Wanted(b.type, "build")
<1>1. \A k \in Index : Registry[k].alias # "all"
  BY EnginePlaces, EngineCompilers
<1>2. Wanted(b.type, "all") = Index
  BY <1>1 DEF Wanted, AliasHolders, RegisteredFor
<1>3. ASSUME Compiled(b)
      PROVE  CompilerFor(b) \in Wanted(b.type, "build")
  <2>0. b.type \in {"GoLang", "Maven", "Python", "Zig"} /\ (b.type = "GoLang" => b.from \in Variant)
    BY <1>3 DEF Compiled
  <2> DEFINE H == AliasHolders(b.type, "build")
             first == IF b.type = "GoLang" THEN 5 ELSE CompilerFor(b)
  <2>1. first \in 5..10 /\ CompilerFor(b) \in 5..10
    BY <2>0, CompilerForFacts
  <2>2. H \subseteq Index /\ H \in SUBSET Nat
    <3>1. H \subseteq Index
      BY DEF AliasHolders, RegisteredFor
    <3>2. Index \subseteq Nat
      BY ONLY RegistryFacts
    <3> QED
      BY <3>1, <3>2
  <2>3. \A k \in 1..22 : k \in H <=> k \in Compilers /\ EngineSteps[k].type = b.type
    <3>1. \A k \in {5, 6, 7, 8, 9, 10} : EngineSteps[k].type \in {"GoLang", "Maven", "Python", "Zig"}
      <4>1. /\ EngineSteps[5].type = "GoLang" /\ EngineSteps[6].type = "GoLang"
            /\ EngineSteps[7].type = "GoLang" /\ EngineSteps[8].type = "Maven"
            /\ EngineSteps[9].type = "Python" /\ EngineSteps[10].type = "Zig"
        BY EngineCompilers
      <4> QED
        BY <4>1
    <3>2. \A k \in 1..22 : k \in Compilers <=> EngineSteps[k].alias = "build"
      BY EngineCompilers DEF Compilers
    <3>3. \A k \in Compilers : k \in {5, 6, 7, 8, 9, 10}
      BY DEF Compilers
    <3>4. \A k \in 1..22 : k \in Index /\ Registry[k] = EngineSteps[k]
      BY EnginePlaces
    <3> QED
      BY <3>1, <3>2, <3>3, <3>4 DEF AliasHolders, RegisteredFor
  <2>4. first \in H /\ \A k \in H : first <= k
    <3>1. \A k \in 5..10 : k \in H <=> EngineSteps[k].type = b.type
      BY <2>3 DEF Compilers
    <3>2. \A k \in 1..22 : k \in H => k \in 5..10
      BY <2>3 DEF Compilers
    <3>3. /\ EngineSteps[5].type = "GoLang" /\ EngineSteps[6].type = "GoLang"
          /\ EngineSteps[7].type = "GoLang" /\ EngineSteps[8].type = "Maven"
          /\ EngineSteps[9].type = "Python" /\ EngineSteps[10].type = "Zig"
      BY EngineCompilers
    <3>4. \A k \in 5..10 : k \in {5, 6, 7, 8, 9, 10}
      OBVIOUS
    <3>5. EngineSteps[first].type = b.type
      BY <2>0, <3>3, CompilerForFacts
    <3>6. \A k \in {5, 6, 7, 8, 9, 10} : EngineSteps[k].type = b.type => first <= k
      BY <2>0, <3>3, CompilerForFacts
    <3> HIDE DEF H, first
    <3>7. \A k \in H : k \in 1..22 \/ k > 22
      <4>1. \A k \in Index : k \in 1..22 \/ k > 22
        BY ONLY RegistryFacts
      <4> QED
        BY ONLY <2>2, <4>1
    <3>8. first \in H
      BY <2>1, <3>1, <3>5
    <3>9. ASSUME NEW k \in H PROVE first <= k
      <4>1. CASE k \in 1..22
        <5>1. k \in {5, 6, 7, 8, 9, 10} /\ EngineSteps[k].type = b.type
          BY <4>1, <3>1, <3>2, <3>4
        <5> QED
          BY <5>1, <3>6
      <4>2. CASE k > 22
        BY <2>1, <2>2, <4>2
      <4> QED
        BY <4>1, <4>2, <3>7
    <3> QED
      BY <3>8, <3>9
  <2>5. Min(H) = first
    <3> HIDE DEF H, first
    <3> QED
      BY ONLY <2>2, <2>4, MinIs
  <2>6. Registry[CompilerFor(b)].name = Registry[first].name
    BY <2>0, <2>1, EnginePlaces, EngineCompilers, CompilerForFacts
  <2>7. H # {} /\ CompilerFor(b) \in Index
    BY <2>1, <2>4, EnginePlaces
  <2> QED
    BY <2>5, <2>6, <2>7 DEF Wanted
<1> QED
  BY <1>2, <1>3

\* With the engine's registry and any steps behind it, as long as none of them
\* is called "all", and whatever "from" says: one compile step runs, the one of
\* the build's variant, and none for a Go build whose variant no step knows.
THEOREM OneCompilerRuns == TableSpec => []OneCompiler
<1>1. ASSUME TableInv, stage = "done", target \in {"all", "build"},
             arg.type \in {"GoLang", "Maven", "Python", "Zig"}
      PROVE  Cardinality(ran \cap Compilers) = IF arg.type = "GoLang" /\ arg.from \notin Variant THEN 0 ELSE 1
  <2>1. /\ arg \in Arg /\ ran = Wanted(arg.type, target) \cap ArgMatches[arg]
        /\ ArgMatches[arg] \cap (1..22) = MatchedSteps(arg)
    BY <1>1, DefaultTargetsAssumption, EnginePlaces DEF TableInv, TargetMeaning
  <2>2. \A k \in Compilers : k \in ArgMatches[arg] <=> k = CompilerFor(arg)
    <3>1. Compilers \subseteq 1..22
      BY DEF Compilers
    <3> QED
      BY <1>1, <2>1, <3>1, EngineMatches
  <2>3. CASE Compiled(arg)
    <3>1. CompilerFor(arg) \in Compilers
      BY <2>3, CompilerForFacts DEF Compilers, Compiled
    <3>2. CompilerFor(arg) \in Index
      BY <3>1, EnginePlaces DEF Compilers
    <3>3. CompilerFor(arg) \in Wanted(arg.type, target)
      BY <1>1, <2>1, <2>3, <3>2, CompileTargets
    <3>4. ran \cap Compilers = {CompilerFor(arg)}
      BY <2>1, <2>2, <3>1, <3>3
    <3>5. Cardinality(ran \cap Compilers) = 1
      BY <3>4, FS_Singleton
    <3> QED
      BY <2>3, <3>5 DEF Compiled
  <2>4. CASE ~Compiled(arg)
    <3>1. arg.type = "GoLang" /\ arg.from \notin Variant
      BY <1>1, <2>4 DEF Compiled
    <3>2. CompilerFor(arg) \notin Compilers
      BY <3>1, CompilerForFacts DEF Compilers
    <3>3. ran \cap Compilers = {}
      BY <2>1, <2>2, <3>2
    <3> QED
      BY <3>1, <3>3, FS_EmptySet
  <2> QED
    BY <2>3, <2>4
<1>2. TableInv => OneCompiler
  BY <1>1 DEF OneCompiler
<1> QED
  BY <1>2, TableInvariant, PTL

\* And a production step runs behind the compile step of its own variant only.
THEOREM OnlyCompiledIsPackaged == TableSpec => []ProdAfterItsCompiler
<1>1. ASSUME TableInv, stage = "done", target = "all", NEW p \in ran \cap DOMAIN CompilerOf
      PROVE  CompilerOf[p] \in ran
  <2>1. /\ arg \in Arg /\ ran = Index \cap ArgMatches[arg]
        /\ ArgMatches[arg] \cap (1..22) = MatchedSteps(arg)
    BY <1>1, DefaultTargetsAssumption, EnginePlaces, CompileTargets DEF TableInv, TargetMeaning
  <2>2. p \in MatchedSteps(arg)
    BY <1>1, <2>1 DEF CompilerOf
  <2>3. CompilerOf[p] \in MatchedSteps(arg) /\ CompilerOf[p] \in 1..22
    BY <1>1, <2>1, <2>2, EngineMatches
  <2> QED
    BY <2>1, <2>3, EnginePlaces
<1>2. TableInv => ProdAfterItsCompiler
  BY <1>1 DEF ProdAfterItsCompiler
<1> QED
  BY <1>2, TableInvariant, PTL
=============================================================================
