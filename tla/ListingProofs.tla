---------------------------- MODULE ListingProofs ----------------------------
(* What is proved of Listing for every number of posts, page size and        *)
(* history of the table.  The first half is about the rows alone: where one  *)
(* stands in the order, what a page holds, and how far a deletion or a return*)
(* moves the others.  The second half is the client's walk.                  *)
EXTENDS Listing, Induction, SequenceTheorems

-----------------------------------------------------------------------------
(* The order of the rows. *)

\* The place of a row: how many are before it; and the first k rows.
Rank(i, S) == Cardinality(Below(i, S))
First(k, S) == {i \in S : Rank(i, S) < k}

\* Sets of ids are finite.
LEMMA IdsFinite ==
  ASSUME NEW S \in SUBSET Ids
  PROVE  IsFiniteSet(S) /\ Cardinality(S) \in Nat /\ S \subseteq Nat
<1>1. IsFiniteSet(Ids)
  BY BoundsAssumption, FS_Interval DEF Ids
<1>2. IsFiniteSet(S)
  BY <1>1, FS_Subset
<1>. QED BY <1>2, FS_CardinalityType, BoundsAssumption DEF Ids

\* A row's place is a number below that of the rows.
LEMMA RankRange ==
  ASSUME NEW S \in SUBSET Ids, NEW i \in Ids
  PROVE  /\ Rank(i, S) \in 0 .. Cardinality(S) /\ Rank(i, S) \in Nat
         /\ i \in S => Rank(i, S) < Cardinality(S)
<1>1. Below(i, S) \in SUBSET S /\ Below(i, S) \in SUBSET Ids
  BY DEF Below
<1>2. Rank(i, S) \in Nat /\ Rank(i, S) <= Cardinality(S) /\ Cardinality(S) \in Nat
  BY <1>1, IdsFinite, FS_Subset DEF Rank
<1>3. ASSUME i \in S PROVE Rank(i, S) # Cardinality(S)
  <2>1. i \notin Below(i, S)
    BY IdsFinite DEF Below
  <2>. QED BY <1>1, <1>3, <2>1, IdsFinite, FS_Subset DEF Rank
<1>. QED BY <1>2, <1>3

\* Places follow the order of the ids.
LEMMA RankMonotone ==
  ASSUME NEW S \in SUBSET Ids, NEW i \in Ids, NEW j \in Ids, i < j
  PROVE  /\ Rank(i, S) <= Rank(j, S)
         /\ i \in S => Rank(i, S) < Rank(j, S)
<1>1. Below(i, S) \in SUBSET Below(j, S) /\ Below(j, S) \in SUBSET Ids
  <2>1. i \in Int /\ j \in Int /\ \A x \in S : x \in Int
    BY IdsFinite
  <2>2. \A x \in S : x < i => x < j
    BY <2>1
  <2>. QED BY <2>2, Zenon DEF Below
<1>2. Rank(i, S) \in Nat /\ Rank(j, S) \in Nat /\ Rank(i, S) <= Rank(j, S)
  BY <1>1, RankRange, IdsFinite, FS_Subset DEF Rank
<1>3. ASSUME i \in S PROVE Rank(i, S) # Rank(j, S)
  <2>1. i \in Below(j, S) /\ i \notin Below(i, S)
    BY <1>3, BoundsAssumption DEF Below, Ids
  <2>. QED BY <1>1, <2>1, IdsFinite, FS_Subset DEF Rank
<1>. QED BY <1>2, <1>3

\* No two rows share a place, and a lower place means a lower id.
LEMMA RankInjective ==
  ASSUME NEW S \in SUBSET Ids, NEW i \in S, NEW j \in S
  PROVE  /\ Rank(i, S) = Rank(j, S) => i = j
         /\ Rank(i, S) < Rank(j, S) => i < j
<1>1. i \in Ids /\ j \in Ids /\ i \in Int /\ j \in Int
  BY IdsFinite
<1>2. Rank(i, S) \in Int /\ Rank(j, S) \in Int
  BY <1>1, RankRange
<1>. QED BY <1>1, <1>2, RankMonotone

\* Every place below the number of rows is some row's: as many places as rows,
\* and no two rows in one.
LEMMA RankOnto ==
  ASSUME NEW S \in SUBSET Ids, NEW k \in 0 .. (Cardinality(S) - 1)
  PROVE  \E i \in S : Rank(i, S) = k
<1> DEFINE T == 0 .. (Cardinality(S) - 1)
           f == [i \in S |-> Rank(i, S)]
<1>1. Cardinality(S) \in Nat /\ IsFiniteSet(T) /\ Cardinality(T) = Cardinality(S)
  BY IdsFinite, FS_Interval
<1>2. f \in Injection(S, T)
  BY RankRange, RankInjective, <1>1 DEF Injection, IsInjective
<1>3. f \in Surjection(S, T)
  <2> HIDE DEF f, T
  <2>. QED BY <1>1, <1>2, FS_Injection
<1>. QED BY <1>3 DEF Surjection

-----------------------------------------------------------------------------
(* Listings. *)

\* ORDER BY id puts each row in its place.
LEMMA InOrderIs ==
  ASSUME NEW S \in SUBSET Ids
  PROVE  /\ InOrder(S) \in Seq(S) /\ Len(InOrder(S)) = Cardinality(S)
         /\ \A n \in 1..Cardinality(S) : InOrder(S)[n] \in S /\ Rank(InOrder(S)[n], S) = n - 1
         /\ \A i \in S : Rank(i, S) + 1 \in 1..Cardinality(S) /\ InOrder(S)[Rank(i, S) + 1] = i
         /\ Ascending(InOrder(S))
<1> DEFINE s == InOrder(S)
           c == Cardinality(S)
<1>1. c \in Nat
  BY IdsFinite
<1>2. ASSUME NEW n \in 1..c PROVE s[n] \in S /\ Rank(s[n], S) = n - 1
  <2>1. \E i \in S : Cardinality(Below(i, S)) = n - 1
    BY <1>1, RankOnto DEF Rank
  <2>2. s[n] = CHOOSE i \in S : Cardinality(Below(i, S)) = n - 1
    BY DEF InOrder
  <2>. QED BY <2>1, <2>2, Zenon DEF Rank
<1>3. s \in [1..c -> S] /\ s \in Seq(S) /\ Len(s) = c
  BY <1>1, <1>2 DEF InOrder
<1>4. ASSUME NEW i \in S PROVE Rank(i, S) + 1 \in 1..c /\ s[Rank(i, S) + 1] = i
  <2>1. PICK n \in 1..c : n = Rank(i, S) + 1
    BY <1>1, RankRange
  <2>2. n - 1 = Rank(i, S)
    BY <2>1, RankRange
  <2>3. s[n] \in S /\ Rank(s[n], S) = Rank(i, S)
    BY <1>2, <2>2
  <2>. QED BY <2>1, <2>3, RankInjective
<1>5. Ascending(s)
  <2> SUFFICES ASSUME NEW m \in 1..c, NEW n \in 1..c, m < n PROVE s[m] < s[n]
    BY <1>3 DEF Ascending
  <2>1. Rank(s[m], S) < Rank(s[n], S) /\ s[m] \in S /\ s[n] \in S
    BY <1>1, <1>2
  <2>. QED BY <2>1, RankInjective
<1>. QED BY <1>2, <1>3, <1>4, <1>5

\* An ascending listing shows as many rows as it is long.
LEMMA AscendingCount ==
  ASSUME NEW s \in Seq(Ids), Ascending(s)
  PROVE  Cardinality(ToSet(s)) = Len(s) /\ ToSet(s) \in SUBSET Ids
<1>1. Len(s) \in Nat /\ s \in [1..Len(s) -> Ids] /\ DOMAIN s = 1..Len(s)
  OBVIOUS
<1>2. ToSet(s) \in SUBSET Ids
  BY <1>1 DEF ToSet
<1>3. s \in Bijection(1..Len(s), ToSet(s))
  <2>1. ASSUME NEW m \in 1..Len(s), NEW n \in 1..Len(s), s[m] = s[n] PROVE m = n
    <3>1. s[m] \in Int /\ ~(s[m] < s[m])
      BY <1>1, IdsFinite
    <3>2. ~(m < n) /\ ~(n < m)
      BY <1>1, <2>1, <3>1 DEF Ascending
    <3>. QED BY <3>2
  <2>2. s \in [1..Len(s) -> ToSet(s)] /\ \A t \in ToSet(s) : \E n \in 1..Len(s) : s[n] = t
    BY <1>1 DEF ToSet
  <2>. QED BY <1>1, <2>1, <2>2 DEF Bijection, Injection, IsInjective, Surjection
<1>4. IsFiniteSet(1..Len(s)) /\ Cardinality(1..Len(s)) = Len(s)
  BY <1>1, FS_Interval
<1>. QED BY <1>2, <1>3, <1>4, FS_Bijection DEF ExistsBijection

\* LIMIT t OFFSET k holds the rows with places k to k + t - 1, in their order;
\* when it is short there are no rows after it.
LEMMA PageHolds ==
  ASSUME NEW S \in SUBSET Ids, NEW k \in Nat, NEW t \in Nat,
         NEW page, page = SubSeq(InOrder(S), k + 1, Smaller(k + t, Len(InOrder(S))))
  PROVE  /\ page \in Seq(Ids) /\ Ascending(page)
         /\ ToSet(page) = First(k + t, S) \ First(k, S)
         /\ Len(page) <= t
         /\ Len(page) < t => S = First(k + t, S)
<1> DEFINE s == InOrder(S)
           c == Cardinality(S)
           top == Smaller(k + t, c)
<1>1. c \in Nat /\ Len(s) = c /\ s \in Seq(S)
  BY IdsFinite, InOrderIs
<1>2. top \in Nat /\ top <= c /\ top <= k + t /\ (top = c \/ top = k + t)
  BY <1>1 DEF Smaller
<1>3. /\ page \in Seq(S) /\ Len(page) = (IF k + 1 <= top THEN top - k ELSE 0)
      /\ \A n \in 1..Len(page) : page[n] = s[k + n] /\ k + n \in 1..c
  BY <1>1, <1>2
<1>4. page \in Seq(Ids) /\ DOMAIN page = 1..Len(page)
  BY <1>3
<1>5. Ascending(page)
  <2> SUFFICES ASSUME NEW m \in 1..Len(page), NEW n \in 1..Len(page), m < n
               PROVE  page[m] < page[n]
    BY <1>4 DEF Ascending
  <2>1. DOMAIN s = 1..c /\ k + m < k + n
    BY <1>1, <1>3
  <2>2. s[k + m] < s[k + n]
    BY <1>3, <2>1, InOrderIs DEF Ascending
  <2>. QED BY <1>3, <2>2
<1>6. ASSUME NEW n \in 1..Len(page) PROVE page[n] \in First(k + t, S) \ First(k, S)
  <2>1. n \in Nat /\ 1 <= n /\ n <= t /\ k + n \in 1..c
    BY <1>2, <1>3
  <2>2. page[n] \in S /\ Rank(page[n], S) = k + n - 1
    BY <1>3, <2>1, InOrderIs
  <2>3. k + n - 1 < k + t /\ ~(k + n - 1 < k)
    BY <2>1
  <2>. QED BY <2>2, <2>3, Zenon DEF First
<1>7. ASSUME NEW i \in First(k + t, S) \ First(k, S) PROVE \E n \in 1..Len(page) : page[n] = i
  <2>1. i \in S /\ Rank(i, S) \in Nat /\ Rank(i, S) < k + t /\ k <= Rank(i, S) /\ Rank(i, S) < c
    <3>1. i \in S /\ i \in Ids /\ Rank(i, S) < k + t /\ ~(Rank(i, S) < k)
      BY DEF First
    <3>. QED BY <1>1, <3>1, RankRange
  <2>2. Rank(i, S) - k + 1 \in 1..Len(page)
    BY <1>2, <1>3, <2>1
  <2>3. page[Rank(i, S) - k + 1] = s[Rank(i, S) + 1]
    BY <1>3, <2>1, <2>2
  <2>. QED BY <2>1, <2>2, <2>3, InOrderIs
<1>8. ToSet(page) = First(k + t, S) \ First(k, S)
  BY <1>4, <1>6, <1>7 DEF ToSet
<1>9. Len(page) <= t
  BY <1>2, <1>3
<1>10. ASSUME Len(page) < t, NEW i \in S PROVE i \in First(k + t, S)
  <2>1. c <= k + t
    BY <1>1, <1>2, <1>3, <1>10
  <2>2. Rank(i, S) \in Nat /\ Rank(i, S) < c
    BY RankRange
  <2>. QED BY <1>1, <2>1, <2>2 DEF First
<1>. QED BY <1>4, <1>5, <1>8, <1>9, <1>10 DEF First

-----------------------------------------------------------------------------
(* How far the rows move when one goes or comes. *)

\* A set whose elements are all the same has at most one.
LEMMA AtMostOne ==
  ASSUME NEW S \in SUBSET Ids, \A i, j \in S : i = j
  PROVE  Cardinality(S) <= 1
<1>1. CASE S = {}
  BY <1>1, FS_EmptySet
<1>2. CASE S # {}
  <2>1. PICK i \in S : S = {i}
    BY <1>2
  <2>. QED BY <2>1, FS_Singleton
<1>. QED BY <1>1, <1>2

\* What one row less does to the places: only those after it move, by one.
LEMMA RankWithout ==
  ASSUME NEW S \in SUBSET Ids, NEW d \in S, NEW i \in Ids
  PROVE  Rank(i, S \ {d}) = (IF d < i THEN Rank(i, S) - 1 ELSE Rank(i, S))
<1>1. IsFiniteSet(Below(i, S))
  BY IdsFinite DEF Below
<1>2. Below(i, S \ {d}) = Below(i, S) \ {d} /\ (d \in Below(i, S) <=> d < i)
  BY DEF Below
<1>3. Cardinality(Below(i, S) \ {d}) = IF d \in Below(i, S) THEN Rank(i, S) - 1 ELSE Rank(i, S)
  BY <1>1, FS_RemoveElement DEF Rank
<1>. QED BY <1>2, <1>3 DEF Rank

\* When a row goes, at most one other moves up into the first k.
LEMMA GoneMovesOne ==
  ASSUME NEW S \in SUBSET Ids, NEW d \in S, NEW k \in Nat
  PROVE  Cardinality(First(k, S \ {d}) \ First(k, S)) <= 1
<1> DEFINE M == First(k, S \ {d}) \ First(k, S)
<1>1. ASSUME NEW i \in M PROVE i \in S /\ Rank(i, S) = k
  <2>1. i \in S /\ i \in Ids /\ Rank(i, S) \in Nat
    BY RankRange DEF First
  <2>. QED BY <2>1, RankWithout DEF First
<1>2. M \in SUBSET Ids /\ \A i, j \in M : i = j
  BY <1>1, RankInjective
<1>. QED BY <1>2, AtMostOne

\* When a row comes, either it is among the first k, and at most one other is
\* moved out of them, or it is not, and none is.
LEMMA ComeMovesOne ==
  ASSUME NEW S \in SUBSET Ids, NEW a \in Ids \ S, NEW k \in Nat
  PROVE  LET T == S \cup {a} IN Cardinality((T \ First(k, T)) \ (S \ First(k, S))) <= 1
<1> DEFINE T == S \cup {a}
           M == (T \ First(k, T)) \ (S \ First(k, S))
<1>1. T \in SUBSET Ids /\ a \in T /\ T \ {a} = S
  OBVIOUS
<1>2. ASSUME NEW i \in M, i # a PROVE a < i /\ Rank(i, T) = k
  <2>1. i \in S /\ i \in T /\ Rank(i, S) < k /\ ~(Rank(i, T) < k)
    BY <1>2 DEF First
  <2>2. Rank(i, T) \in Nat /\ Rank(i, S) \in Nat
    BY <1>1, <2>1, RankRange
  <2>3. Rank(i, S) = (IF a < i THEN Rank(i, T) - 1 ELSE Rank(i, T))
    BY <1>1, <2>1, RankWithout
  <2>. QED BY <2>1, <2>2, <2>3
<1>3. ASSUME NEW i \in M, i # a, a \in M PROVE FALSE
  <2>1. i \in T /\ i \in Ids /\ Rank(a, T) < Rank(i, T) /\ ~(Rank(a, T) < k)
    BY <1>1, <1>2, <1>3, RankMonotone DEF First
  <2>2. Rank(a, T) \in Nat
    BY <1>1, RankRange
  <2>. QED BY <1>2, <1>3, <2>1, <2>2
<1>4. M \in SUBSET Ids /\ \A i, j \in M : i = j
  BY <1>1, <1>2, <1>3, RankInjective
<1>. QED BY <1>4, AtMostOne

-----------------------------------------------------------------------------
(* What a walk has read, against the rows as they move. *)

\* A set in the union of another and of one with at most one element.
LEMMA OneMore ==
  ASSUME NEW A \in SUBSET Ids, NEW B \in SUBSET Ids, NEW C \in SUBSET Ids,
         A \subseteq B \cup C, Cardinality(C) <= 1
  PROVE  Cardinality(A) <= Cardinality(B) + 1
<1>1. B \cup C \in SUBSET Ids /\ B \cap C \in SUBSET Ids /\ A \in SUBSET (B \cup C)
  OBVIOUS
<1>2. IsFiniteSet(B) /\ IsFiniteSet(C) /\ IsFiniteSet(B \cup C)
      /\ Cardinality(A) \in Nat /\ Cardinality(B) \in Nat /\ Cardinality(C) \in Nat
      /\ Cardinality(B \cap C) \in Nat /\ Cardinality(B \cup C) \in Nat
  BY <1>1, IdsFinite
<1>3. Cardinality(A) <= Cardinality(B \cup C)
  BY <1>1, <1>2, FS_Subset
<1>4. Cardinality(B \cup C) = Cardinality(B) + Cardinality(C) - Cardinality(B \cap C)
  BY <1>2, FS_Union
<1>. QED BY <1>2, <1>3, <1>4

\* A subset is not larger.
LEMMA NoMore ==
  ASSUME NEW A \in SUBSET Ids, NEW B \in SUBSET Ids, A \subseteq B
  PROVE  Cardinality(A) <= Cardinality(B)
BY IdsFinite, FS_Subset

\* Of the rows L, S were there all along and R were read, the first k are
\* behind.  When d goes, one more of S may be behind unread, and no more of R
\* are ahead.
LEMMA AfterGone ==
  ASSUME NEW L \in SUBSET Ids, NEW d \in L, NEW k \in Nat,
         NEW S \in SUBSET L, NEW R \in SUBSET Ids
  PROVE  LET T == L \ {d} IN
         /\ Cardinality(((S \ {d}) \cap First(k, T)) \ R) <= Cardinality((S \cap First(k, L)) \ R) + 1
         /\ Cardinality(R \cap (T \ First(k, T))) <= Cardinality(R \cap (L \ First(k, L)))
<1> DEFINE T == L \ {d}
<1>1. /\ First(k, T) \in SUBSET Ids /\ First(k, L) \in SUBSET Ids /\ T \in SUBSET Ids
      /\ Cardinality(First(k, T) \ First(k, L)) <= 1
  BY GoneMovesOne DEF First
<1>2. Cardinality(((S \ {d}) \cap First(k, T)) \ R) <= Cardinality((S \cap First(k, L)) \ R) + 1
  <2> HIDE DEF T
  <2>1. ((S \ {d}) \cap First(k, T)) \ R
          \subseteq ((S \cap First(k, L)) \ R) \cup (First(k, T) \ First(k, L))
    OBVIOUS
  <2>. QED BY <1>1, <2>1, OneMore
<1>3. ASSUME NEW i \in T, i \notin First(k, T) PROVE i \notin First(k, L)
  <2>1. i \in L /\ i \in Ids /\ ~(Rank(i, T) < k)
    BY <1>3 DEF First
  <2>2. Rank(i, L) \in Nat
    BY <2>1, RankRange
  <2>3. Rank(i, T) = (IF d < i THEN Rank(i, L) - 1 ELSE Rank(i, L))
    BY <2>1, RankWithout
  <2>4. ~(Rank(i, L) < k)
    BY <2>1, <2>2, <2>3
  <2>. QED BY <2>4 DEF First
<1>4. R \cap (T \ First(k, T)) \subseteq R \cap (L \ First(k, L))
  BY <1>3
<1>5. R \cap (T \ First(k, T)) \in SUBSET Ids /\ R \cap (L \ First(k, L)) \in SUBSET Ids
  OBVIOUS
<1>. QED BY <1>2, <1>4, <1>5, NoMore

\* When a comes, no more of S are behind, and one more of R may be ahead.
LEMMA AfterCome ==
  ASSUME NEW L \in SUBSET Ids, NEW a \in Ids \ L, NEW k \in Nat,
         NEW S \in SUBSET L, NEW R \in SUBSET Ids
  PROVE  LET T == L \cup {a} IN
         /\ Cardinality((S \cap First(k, T)) \ R) <= Cardinality((S \cap First(k, L)) \ R)
         /\ Cardinality(R \cap (T \ First(k, T))) <= Cardinality(R \cap (L \ First(k, L))) + 1
<1> DEFINE T == L \cup {a}
<1>1. T \in SUBSET Ids /\ a \in T /\ T \ {a} = L
  OBVIOUS
<1>2. ASSUME NEW i \in L, i \in First(k, T) PROVE i \in First(k, L)
  <2>1. i \in T /\ i \in Ids /\ Rank(i, T) < k
    BY <1>2 DEF First
  <2>2. Rank(i, L) = (IF a < i THEN Rank(i, T) - 1 ELSE Rank(i, T)) /\ Rank(i, T) \in Nat
    BY <1>1, <2>1, RankWithout, RankRange
  <2>3. Rank(i, L) < k
    BY <2>1, <2>2
  <2>. QED BY <2>3 DEF First
<1>3. (S \cap First(k, T)) \ R \subseteq (S \cap First(k, L)) \ R
  BY <1>2
<1>4. (S \cap First(k, T)) \ R \in SUBSET Ids /\ (S \cap First(k, L)) \ R \in SUBSET Ids
  OBVIOUS
<1>5. Cardinality(R \cap (T \ First(k, T))) <= Cardinality(R \cap (L \ First(k, L))) + 1
  <2>1. Cardinality((T \ First(k, T)) \ (L \ First(k, L))) <= 1
    BY ComeMovesOne
  <2> HIDE DEF T
  <2>2. R \cap (T \ First(k, T))
          \subseteq (R \cap (L \ First(k, L))) \cup ((T \ First(k, T)) \ (L \ First(k, L)))
    OBVIOUS
  <2>. QED BY <1>1, <2>1, <2>2, OneMore
<1>. QED BY <1>3, <1>4, <1>5, NoMore

\* When the page P is read, the rows behind grow from F to G: no more of S are
\* behind unread.
LEMMA AfterPage ==
  ASSUME NEW L \in SUBSET Ids, NEW S \in SUBSET L, NEW R \in SUBSET Ids,
         NEW F \in SUBSET L, NEW G \in SUBSET L, F \subseteq G, NEW P \in SUBSET Ids, P = G \ F
  PROVE  Cardinality((S \cap G) \ (R \cup P)) <= Cardinality((S \cap F) \ R)
<1>1. (S \cap G) \ (R \cup P) \subseteq (S \cap F) \ R
  OBVIOUS
<1>. QED BY <1>1, NoMore

\* How many there are in two sets.
LEMMA InBoth ==
  ASSUME NEW A \in SUBSET Ids, NEW B \in SUBSET Ids
  PROVE  /\ Cardinality(A \cup B) = Cardinality(A) + Cardinality(B) - Cardinality(A \cap B)
         /\ Cardinality(A) \in Nat /\ Cardinality(B) \in Nat
         /\ Cardinality(A \cup B) \in Nat /\ Cardinality(A \cap B) \in Nat
         /\ A \cap B = {} => Cardinality(A \cap B) = 0
BY IdsFinite, FS_Union, FS_EmptySet

\* The rows behind grow with their number.
LEMMA FirstGrows ==
  ASSUME NEW S \in SUBSET Ids, NEW k \in Nat, NEW t \in Nat
  PROVE  First(k, S) \in SUBSET S /\ First(k + t, S) \in SUBSET S /\ First(k, S) \subseteq First(k + t, S)
<1>1. ASSUME NEW i \in S PROVE Rank(i, S) < k => Rank(i, S) < k + t
  <2>1. Rank(i, S) \in Nat
    BY RankRange
  <2>. QED BY <2>1
<1>. QED BY <1>1 DEF First

-----------------------------------------------------------------------------
(* The walk. *)

Received == ToSet(walk.got)
Repeats == Len(walk.got) - Cardinality(Received)

\* The rows that the pages already read would hold by now.
Behind == First(Skip(walk.pos, Take(walk.limit)), Live)

\* Between two pages by offset every page so far was full; what was there all
\* along and has slipped behind unread is paid for by a deletion; and what was
\* read and is ahead again, or was read again, by a row that came.
OffsetOK ==
  walk.kind = "offset" =>
    /\ Walking =>
         /\ walk.pos >= 1 /\ Len(walk.got) = Skip(walk.pos, Take(walk.limit))
         /\ Cardinality((walk.stayed \cap Behind) \ Received) <= walk.removed
         /\ Repeats + Cardinality(Received \cap (Live \ Behind)) <= walk.appeared
    /\ WalkAccounted

\* Between two pages by key nothing that was there all along is at or before
\* the last key and unread.
KeysetOK ==
  walk.kind = "keyset" =>
    /\ KeysetComplete
    /\ walk.pos = (IF walk.got = <<>> THEN 0 ELSE Last(walk.got))
    /\ Walking => \A i \in walk.stayed : i <= walk.pos => i \in Received

LInductive == LTypeOK /\ OffsetOK /\ KeysetOK

\* The page size is positive and within the limit.
LEMMA TakeRange ==
  ASSUME NEW limit \in Int
  PROVE  Take(limit) \in Nat /\ 1 <= Take(limit) /\ Take(limit) <= MaxTake
BY TakeAssumption DEF Take, Smaller, Larger

\* The next page starts a page later.
LEMMA SkipNext ==
  ASSUME NEW p \in Nat, 1 <= p, NEW t \in Nat, 1 <= t
  PROVE  /\ Skip(p, t) \in Nat /\ Skip(p + 1, t) = Skip(p, t) + t
         /\ p - 1 <= Skip(p, t)
<1>1. Skip(p, t) = (p - 1) * t /\ Skip(p + 1, t) = p * t
  BY DEF Skip, Larger
<1>2. p * t = (p - 1) * t + t /\ (p - 1) * t \in Nat
  OBVIOUS
<1>3. p - 1 <= (p - 1) * t
  <2> DEFINE q == p - 1
  <2>1. q \in Nat
    OBVIOUS
  <2> HIDE DEF q
  <2>. QED BY <2>1
<1>. QED BY <1>1, <1>2, <1>3

\* Types that follow.
LEMMA WalkTyped ==
  ASSUME LTypeOK
  PROVE  /\ Live \in SUBSET Ids /\ Received \in SUBSET Ids
         /\ Repeats \in Int /\ Len(walk.got) \in Nat
         /\ Take(walk.limit) \in Nat /\ 1 <= Take(walk.limit) /\ walk.limit \in Int
<1>1. walk.limit \in Limits \union {1} /\ walk.got \in Seq(Ids)
  BY DEF LTypeOK, Walks
<1>2. walk.limit \in Int
  <2>1. 1 \in Int
    OBVIOUS
  <2>. QED BY <1>1, <2>1, TakeAssumption, Zenon
<1>3. Live \in SUBSET Ids
  BY DEF Live
<1>4. Received \in SUBSET Ids
  BY <1>1 DEF Received, ToSet
<1>5. Cardinality(Received) \in Nat /\ Len(walk.got) \in Nat
  BY <1>1, <1>4, IdsFinite
<1>6. Take(walk.limit) \in Nat /\ 1 <= Take(walk.limit)
  BY <1>2, TakeRange
<1>. QED BY <1>2, <1>3, <1>4, <1>5, <1>6 DEF Repeats

LEMMA ListingInit == LInit => LInductive
<1> SUFFICES ASSUME LInit PROVE LInductive
  OBVIOUS
<1>1. rows \in [Ids -> RowStates] /\ walk = NoWalk /\ restored = 0 /\ deleted = 0
  BY DEF LInit, RowStates
<1>2. /\ walk.at = "idle" /\ walk.kind = "offset" /\ walk.limit = 1 /\ walk.pos = 0
      /\ walk.got = <<>> /\ walk.stayed = {} /\ walk.removed = 0 /\ walk.appeared = 0
  BY <1>1 DEF NoWalk
<1>3. LTypeOK
  <2>1. walk \in Walks
    BY <1>1 DEF NoWalk, Kinds, Walks
  <2>. QED BY <1>1, <1>2, <2>1, BoundsAssumption DEF LTypeOK
<1>4. OffsetOK /\ KeysetOK
  BY <1>2 DEF OffsetOK, KeysetOK, Walking, WalkAccounted, Ended
<1>. QED BY <1>3, <1>4 DEF LInductive

\* A write of the table that leaves the live rows alone.
LEMMA RowsStill ==
  ASSUME LInductive, rows' \in [Ids -> RowStates], Live' = Live, UNCHANGED <<restored, deleted, walk>>
  PROVE  LInductive'
<1>1. LTypeOK'
  BY DEF LInductive, LTypeOK
<1>2. OffsetOK'
  BY DEF LInductive, OffsetOK, Walking, WalkAccounted, Ended, Behind, Received, Repeats
<1>3. KeysetOK'
  BY DEF LInductive, KeysetOK, Walking, KeysetComplete, Ended, Received
<1>. QED BY <1>1, <1>2, <1>3 DEF LInductive

\* A row comes, or comes back.
LEMMA RowComes ==
  ASSUME LInductive, NEW a \in Ids \ Live, rows' \in [Ids -> RowStates], Live' = Live \cup {a},
         Appears, restored' \in 0..MaxChanges, deleted' \in 0..MaxChanges
  PROVE  LInductive'
<1> DEFINE k == Skip(walk.pos, Take(walk.limit))
<1>0. LTypeOK /\ OffsetOK /\ KeysetOK
  BY DEF LInductive
<1>a. PICK n \in {0, 1} : n = (IF Walking THEN 1 ELSE 0) /\ walk' = [walk EXCEPT !.appeared = @ + n]
  BY DEF Appears
<1>b. walk \in Walks /\ walk.appeared \in Nat /\ walk.removed \in Nat /\ walk.pos \in Nat
  BY <1>0 DEF LTypeOK, Walks
<1>1. /\ walk' \in Walks
      /\ walk'.at = walk.at /\ walk'.kind = walk.kind /\ walk'.limit = walk.limit
      /\ walk'.pos = walk.pos /\ walk'.got = walk.got /\ walk'.stayed = walk.stayed
      /\ walk'.removed = walk.removed /\ walk'.appeared = walk.appeared + n
  BY <1>a, <1>b DEF Walks
<1>2. LTypeOK'
  <2>1. walk'.stayed \subseteq Live' /\ walk'.pos <= MaxId + walk'.appeared + 2
    BY <1>0, <1>1, <1>b, BoundsAssumption DEF LTypeOK
  <2>. QED BY <1>1, <2>1 DEF LTypeOK
<1>3. OffsetOK'
  <2>1. WalkAccounted'
    <3> SUFFICES ASSUME walk.at = "ended", walk.kind = "offset" PROVE WalkAccounted'
      BY <1>1 DEF WalkAccounted, Ended
    <3>1. WalkAccounted /\ walk'.appeared = walk.appeared
      BY <1>0, <1>1, <1>a, <1>b DEF OffsetOK, Walking
    <3>. QED BY <1>1, <3>1 DEF WalkAccounted, Ended
  <2>2. ASSUME walk.kind = "offset", Walking
        PROVE  /\ Cardinality((walk'.stayed \cap Behind') \ Received') <= walk'.removed
               /\ Repeats' + Cardinality(Received' \cap (Live' \ Behind')) <= walk'.appeared
    <3>1. /\ walk.pos >= 1 /\ Cardinality((walk.stayed \cap Behind) \ Received) <= walk.removed
          /\ Repeats + Cardinality(Received \cap (Live \ Behind)) <= walk.appeared
      BY <1>0, <2>2 DEF OffsetOK
    <3>2. Behind = First(k, Live) /\ Behind' = First(k, Live \cup {a}) /\ Received' = Received /\ Repeats' = Repeats
      BY <1>1 DEF Behind, Received, Repeats
    <3>3. k \in Nat /\ Live \in SUBSET Ids /\ Received \in SUBSET Ids /\ walk.stayed \in SUBSET Live /\ Repeats \in Int
      <4>1. k \in Nat
        BY <1>0, <1>b, <3>1, WalkTyped, SkipNext
      <4>. QED BY <1>0, <4>1, WalkTyped DEF LTypeOK
    <3> HIDE DEF k
    <3>4. /\ Cardinality((walk.stayed \cap Behind') \ Received) <= Cardinality((walk.stayed \cap Behind) \ Received)
          /\ Cardinality(Received \cap (Live' \ Behind')) <= Cardinality(Received \cap (Live \ Behind)) + 1
      BY <3>2, <3>3, AfterCome
    <3>5. /\ Cardinality((walk.stayed \cap Behind') \ Received) \in Nat /\ Cardinality((walk.stayed \cap Behind) \ Received) \in Nat
          /\ Cardinality(Received \cap (Live' \ Behind')) \in Nat /\ Cardinality(Received \cap (Live \ Behind)) \in Nat
      BY <3>3, IdsFinite
    <3>6. walk'.appeared = walk.appeared + 1
      BY <1>1, <1>a, <2>2
    <3>7. Cardinality((walk'.stayed \cap Behind') \ Received') <= walk'.removed
      BY <1>1, <1>b, <3>1, <3>2, <3>4, <3>5
    <3>8. Repeats' + Cardinality(Received' \cap (Live' \ Behind')) <= walk'.appeared
      BY <1>b, <3>1, <3>2, <3>3, <3>4, <3>5, <3>6
    <3>. QED BY <3>7, <3>8
  <2>. QED BY <1>0, <1>1, <2>1, <2>2 DEF OffsetOK, Walking
<1>4. KeysetOK'
  BY <1>0, <1>1 DEF KeysetOK, Walking, KeysetComplete, Ended, Received
<1>. QED BY <1>2, <1>3, <1>4 DEF LInductive

\* A row goes.
LEMMA RowGoes ==
  ASSUME LInductive, NEW d \in Live, rows' \in [Ids -> RowStates], Live' = Live \ {d},
         Vanishes(d), restored' \in 0..MaxChanges, deleted' \in 0..MaxChanges
  PROVE  LInductive'
<1> DEFINE k == Skip(walk.pos, Take(walk.limit))
<1>1. LTypeOK /\ OffsetOK /\ KeysetOK
  BY DEF LInductive
<1>2. PICK n \in {0, 1} : n = (IF Walking THEN 1 ELSE 0)
        /\ walk' = [walk EXCEPT !.stayed = @ \ {d}, !.removed = @ + n]
  BY DEF Vanishes
<1>3. walk \in Walks /\ walk.appeared \in Nat /\ walk.removed \in Nat /\ walk.pos \in Nat
  BY <1>1 DEF LTypeOK, Walks
<1>4. /\ walk' \in Walks
      /\ walk'.at = walk.at /\ walk'.kind = walk.kind /\ walk'.limit = walk.limit
      /\ walk'.pos = walk.pos /\ walk'.got = walk.got /\ walk'.stayed = walk.stayed \ {d}
      /\ walk'.removed = walk.removed + n /\ walk'.appeared = walk.appeared
  <2>1. walk.stayed \ {d} \in SUBSET Ids /\ walk.removed + n \in Nat
    BY <1>3 DEF Walks
  <2>2. walk' \in Walks
    BY <1>2, <1>3, <2>1 DEF Walks
  <2>. QED BY <1>2, <1>3, <2>2 DEF Walks
<1>5. Live \in SUBSET Ids /\ Received \in SUBSET Ids /\ Repeats \in Int /\ walk.stayed \in SUBSET Live
      /\ Received' = Received /\ Repeats' = Repeats
  BY <1>1, <1>4, WalkTyped DEF LTypeOK, Received, Repeats
<1>6. LTypeOK'
  <2>1. walk'.stayed \subseteq Live' /\ walk'.pos <= MaxId + walk'.appeared + 2
    BY <1>1, <1>4 DEF LTypeOK
  <2>. QED BY <1>4, <2>1 DEF LTypeOK
<1>7. OffsetOK'
  <2>1. WalkAccounted'
    <3> SUFFICES ASSUME walk.at = "ended", walk.kind = "offset" PROVE WalkAccounted'
      BY <1>4 DEF WalkAccounted, Ended
    <3>1. WalkAccounted /\ walk'.removed = walk.removed
      BY <1>1, <1>2, <1>3, <1>4 DEF OffsetOK, Walking
    <3>2. Cardinality(walk.stayed \ Received) <= walk.removed /\ Repeats <= walk.appeared
      BY <3>1 DEF WalkAccounted, Ended, Received, Repeats
    <3>3. /\ Cardinality((walk.stayed \ {d}) \ Received) \in Nat /\ Cardinality(walk.stayed \ Received) \in Nat
          /\ Cardinality((walk.stayed \ {d}) \ Received) <= Cardinality(walk.stayed \ Received)
      <4>1. (walk.stayed \ {d}) \ Received \in SUBSET Ids /\ walk.stayed \ Received \in SUBSET Ids
        BY <1>5
      <4>. QED BY <4>1, NoMore, IdsFinite
    <3>4. Cardinality(walk'.stayed \ Received') <= walk'.removed
      BY <1>3, <1>4, <1>5, <3>1, <3>2, <3>3
    <3>5. Repeats' <= walk'.appeared
      BY <1>4, <1>5, <3>2
    <3>. QED BY <3>4, <3>5 DEF WalkAccounted, Received, Repeats
  <2>2. ASSUME walk.kind = "offset", Walking
        PROVE  /\ Cardinality((walk'.stayed \cap Behind') \ Received') <= walk'.removed
               /\ Repeats' + Cardinality(Received' \cap (Live' \ Behind')) <= walk'.appeared
    <3>1. /\ walk.pos >= 1 /\ Cardinality((walk.stayed \cap Behind) \ Received) <= walk.removed
          /\ Repeats + Cardinality(Received \cap (Live \ Behind)) <= walk.appeared
      BY <1>1, <2>2 DEF OffsetOK
    <3>2. Behind = First(k, Live) /\ Behind' = First(k, Live \ {d})
      BY <1>4 DEF Behind
    <3>3. k \in Nat
      BY <1>1, <1>3, <3>1, WalkTyped, SkipNext
    <3> HIDE DEF k
    <3>4. /\ Cardinality(((walk.stayed \ {d}) \cap Behind') \ Received)
               <= Cardinality((walk.stayed \cap Behind) \ Received) + 1
          /\ Cardinality(Received \cap (Live' \ Behind')) <= Cardinality(Received \cap (Live \ Behind))
      BY <1>5, <3>2, <3>3, AfterGone
    <3>5. /\ Cardinality(((walk.stayed \ {d}) \cap Behind') \ Received) \in Nat
          /\ Cardinality((walk.stayed \cap Behind) \ Received) \in Nat
          /\ Cardinality(Received \cap (Live' \ Behind')) \in Nat
          /\ Cardinality(Received \cap (Live \ Behind)) \in Nat
      BY <1>5, IdsFinite
    <3>6. walk'.removed = walk.removed + 1
      BY <1>2, <1>4, <2>2
    <3>7. Cardinality((walk'.stayed \cap Behind') \ Received') <= walk'.removed
      BY <1>3, <1>4, <1>5, <3>1, <3>4, <3>5, <3>6
    <3>8. Repeats' + Cardinality(Received' \cap (Live' \ Behind')) <= walk'.appeared
      BY <1>3, <1>4, <1>5, <3>1, <3>4, <3>5
    <3>. QED BY <3>7, <3>8
  <2>. QED BY <1>1, <1>4, <2>1, <2>2 DEF OffsetOK, Walking
<1>8. KeysetOK'
  BY <1>1, <1>4 DEF KeysetOK, Walking, KeysetComplete, Ended, Received
<1>. QED BY <1>6, <1>7, <1>8 DEF LInductive

\* A walk begins.
LEMMA WalkStarts ==
  ASSUME LInductive, NEW kind \in Kinds, NEW limit \in Limits, Start(kind, limit)
  PROVE  LInductive'
<1>1. LTypeOK /\ Live' = Live /\ Live \in SUBSET Ids /\ UNCHANGED <<rows, restored, deleted>>
  BY DEF LInductive, Start, Live
<1>2. /\ walk' \in Walks
      /\ walk'.at = "walking" /\ walk'.kind = kind /\ walk'.limit = limit
      /\ walk'.pos = (IF kind = "offset" THEN 1 ELSE 0) /\ walk'.got = <<>>
      /\ walk'.stayed = Live /\ walk'.removed = 0 /\ walk'.appeared = 0
  <2>1. PICK p \in {0, 1} : p = (IF kind = "offset" THEN 1 ELSE 0)
    OBVIOUS
  <2>2. walk' = [at |-> "walking", kind |-> kind, limit |-> limit, pos |-> p, got |-> <<>>,
                 stayed |-> Live, removed |-> 0, appeared |-> 0]
    BY <2>1 DEF Start, NoWalk
  <2>3. walk' \in Walks
    BY <1>1, <2>2 DEF Walks
  <2>. QED BY <2>1, <2>2, <2>3
<1>3. Received' = {} /\ Repeats' = 0
  <2>1. Received' = {}
    BY <1>2 DEF Received, ToSet
  <2>. QED BY <1>2, <2>1, FS_EmptySet DEF Repeats
<1>4. LTypeOK'
  <2>1. walk'.stayed \subseteq Live' /\ walk'.pos <= MaxId + walk'.appeared + 2
    BY <1>1, <1>2, BoundsAssumption
  <2>. QED BY <1>1, <1>2, <2>1 DEF LTypeOK
<1>5. OffsetOK'
  <2> SUFFICES ASSUME kind = "offset" PROVE OffsetOK'
    BY <1>2 DEF OffsetOK
  <2>1. Take(limit) \in Nat
    BY TakeAssumption, TakeRange
  <2>2. Skip(walk'.pos, Take(walk'.limit)) = 0
    BY <1>2, <2>1 DEF Skip, Larger
  <2>3. First(0, Live) = {}
    BY <1>1, RankRange DEF First
  <2>4. Behind' = {}
    BY <1>1, <2>2, <2>3 DEF Behind
  <2>5. Cardinality((walk'.stayed \cap Behind') \ Received') = 0 /\ Cardinality(Received' \cap (Live' \ Behind')) = 0
    BY <1>3, <2>4, FS_EmptySet
  <2>. QED BY <1>2, <1>3, <2>2, <2>5 DEF OffsetOK, WalkAccounted, Ended
<1>6. KeysetOK'
  <2>1. \A i \in walk'.stayed : ~(i <= 0)
    <3>1. \A i \in Ids : ~(i <= 0)
      BY BoundsAssumption DEF Ids
    <3>. QED BY <1>1, <1>2, <3>1
  <2>. QED BY <1>2, <2>1 DEF KeysetOK, KeysetComplete, Ended, Ascending
<1>. QED BY <1>4, <1>5, <1>6 DEF LInductive

\* What a listing shows after a page was appended.
LEMMA ConcatShows ==
  ASSUME NEW s \in Seq(Ids), NEW t \in Seq(Ids)
  PROVE  s \o t \in Seq(Ids) /\ Len(s \o t) = Len(s) + Len(t) /\ ToSet(s \o t) = ToSet(s) \cup ToSet(t)
<1>1. /\ s \o t \in Seq(Ids) /\ Len(s \o t) = Len(s) + Len(t) /\ Len(s) \in Nat /\ Len(t) \in Nat
      /\ DOMAIN s = 1..Len(s) /\ DOMAIN t = 1..Len(t) /\ DOMAIN (s \o t) = 1..(Len(s) + Len(t))
      /\ \A n \in 1..(Len(s) + Len(t)) : (s \o t)[n] = IF n <= Len(s) THEN s[n] ELSE t[n - Len(s)]
  BY ConcatProperties
<1>2. ASSUME NEW n \in 1..(Len(s) + Len(t)) PROVE (s \o t)[n] \in ToSet(s) \cup ToSet(t)
  <2>1. CASE n <= Len(s)
    BY <1>1, <2>1 DEF ToSet
  <2>2. CASE ~(n <= Len(s))
    <3>1. n - Len(s) \in 1..Len(t) /\ (s \o t)[n] = t[n - Len(s)]
      BY <1>1, <2>2
    <3>. QED BY <1>1, <3>1 DEF ToSet
  <2>. QED BY <2>1, <2>2
<1>3. ASSUME NEW n \in 1..Len(s) PROVE s[n] \in ToSet(s \o t)
  <2>1. n \in 1..(Len(s) + Len(t)) /\ (s \o t)[n] = s[n]
    BY <1>1
  <2>. QED BY <1>1, <2>1 DEF ToSet
<1>4. ASSUME NEW n \in 1..Len(t) PROVE t[n] \in ToSet(s \o t)
  <2>1. n + Len(s) \in 1..(Len(s) + Len(t)) /\ n + Len(s) - Len(s) = n /\ ~(n + Len(s) <= Len(s))
    BY <1>1
  <2>2. (s \o t)[n + Len(s)] = t[n]
    BY <1>1, <2>1
  <2>. QED BY <1>1, <2>1, <2>2 DEF ToSet
<1>. QED BY <1>1, <1>2, <1>3, <1>4 DEF ToSet

\* What Receive leaves alone, and adds.
LEMMA ReceiveAdds ==
  ASSUME LInductive, Walking, NEW page \in Seq(Ids), NEW pos \in Nat, Receive(page, pos)
  PROVE  /\ walk' \in Walks /\ UNCHANGED <<rows, restored, deleted>>
         /\ Live' = Live /\ Received' = Received \cup ToSet(page)
         /\ walk'.at = (IF Len(page) < Take(walk.limit) THEN "ended" ELSE "walking")
         /\ walk'.kind = walk.kind /\ walk'.limit = walk.limit /\ walk'.pos = pos
         /\ walk'.got = walk.got \o page /\ walk'.stayed = walk.stayed
         /\ walk'.removed = walk.removed /\ walk'.appeared = walk.appeared
<1>1. walk \in Walks /\ walk.got \in Seq(Ids)
  BY DEF LInductive, LTypeOK, Walks
<1>2. walk.got \o page \in Seq(Ids)
  BY <1>1, ConcatShows
<1>3. PICK at \in {"ended", "walking"} : at = (IF Len(page) < Take(walk.limit) THEN "ended" ELSE "walking")
  OBVIOUS
<1>4. walk' = [walk EXCEPT !.got = walk.got \o page, !.pos = pos, !.at = at]
  BY <1>3 DEF Receive
<1>5. walk' \in Walks
  BY <1>1, <1>2, <1>4 DEF Walks
<1>6. /\ walk'.at = at /\ walk'.kind = walk.kind /\ walk'.limit = walk.limit /\ walk'.pos = pos
      /\ walk'.got = walk.got \o page /\ walk'.stayed = walk.stayed
      /\ walk'.removed = walk.removed /\ walk'.appeared = walk.appeared
  BY <1>1, <1>4 DEF Walks
<1>7. UNCHANGED <<rows, restored, deleted>> /\ Live' = Live
  BY DEF Receive, Live
<1>8. Received' = Received \cup ToSet(page)
  BY <1>1, <1>6, ConcatShows DEF Received
<1>. QED BY <1>3, <1>5, <1>6, <1>7, <1>8

\* A page by offset is read.
LEMMA PageRead == ASSUME LInductive, NextPage PROVE LInductive'
<1> DEFINE k == Skip(walk.pos, Take(walk.limit))
           t == Take(walk.limit)
           page == FindAll(walk.pos, walk.limit)
           F == First(k, Live)
           G == First(k + t, Live)
           P == G \ F
<1>1. LTypeOK /\ OffsetOK /\ Walking /\ walk.kind = "offset" /\ Receive(page, walk.pos + 1)
  BY DEF LInductive, NextPage
<1>2. walk.appeared \in Nat /\ walk.removed \in Nat /\ walk.pos \in Nat /\ walk.got \in Seq(Ids)
  BY <1>1 DEF LTypeOK, Walks
<1>3. /\ Live \in SUBSET Ids /\ Received \in SUBSET Ids /\ Repeats \in Int /\ walk.stayed \in SUBSET Live
      /\ Len(walk.got) \in Nat /\ t \in Nat /\ 1 <= t
  BY <1>1, WalkTyped DEF LTypeOK
<1>4. /\ walk.pos >= 1 /\ Len(walk.got) = k
      /\ Cardinality((walk.stayed \cap F) \ Received) <= walk.removed
      /\ Repeats + Cardinality(Received \cap (Live \ F)) <= walk.appeared
  BY <1>1 DEF OffsetOK, Behind
<1>5. k \in Nat /\ Skip(walk.pos + 1, t) = k + t /\ walk.pos - 1 <= k
  BY <1>2, <1>3, <1>4, SkipNext
<1>6. /\ page \in Seq(Ids) /\ Ascending(page) /\ ToSet(page) = P /\ Len(page) <= t
      /\ Len(page) < t => Live = G
  <2>1. page = SubSeq(InOrder(Live), k + 1, Smaller(k + t, Len(InOrder(Live))))
    BY DEF FindAll
  <2> HIDE DEF k, t, page
  <2>. QED BY <1>3, <1>5, <2>1, PageHolds
<1>7. Behind' = G <=> First(Skip(walk'.pos, Take(walk'.limit)), Live') = First(k + t, Live)
  BY DEF Behind
<1> HIDE DEF k, t, page, F, G, P
<1>8. Cardinality(P) = Len(page) /\ P \in SUBSET Ids /\ Len(page) \in Nat
  BY <1>6, AscendingCount
<1>9. /\ walk' \in Walks /\ UNCHANGED <<rows, restored, deleted>>
      /\ Live' = Live /\ Received' = Received \cup P
      /\ walk'.at = (IF Len(page) < t THEN "ended" ELSE "walking")
      /\ walk'.kind = "offset" /\ walk'.limit = walk.limit /\ walk'.pos = walk.pos + 1
      /\ walk'.got = walk.got \o page /\ walk'.stayed = walk.stayed
      /\ walk'.removed = walk.removed /\ walk'.appeared = walk.appeared
  <2>1. walk.pos + 1 \in Nat
    BY <1>2
  <2>. QED BY <1>1, <1>6, <2>1, ReceiveAdds DEF t
<1>10. Len(walk'.got) = k + Len(page) /\ Repeats' = k + Len(page) - Cardinality(Received \cup P)
  <2>1. Len(walk'.got) = k + Len(page)
    BY <1>2, <1>4, <1>6, <1>9, ConcatShows
  <2>2. Received' = Received \cup P
    BY <1>9
  <2>3. Repeats' = Len(walk'.got) - Cardinality(Received')
    BY DEF Repeats
  <2>4. Repeats' = Len(walk'.got) - Cardinality(Received \cup P)
    BY <2>2, <2>3
  <2>5. Cardinality(Received \cup P) \in Nat
    BY <1>3, <1>8, IdsFinite
  <2>6. Repeats' = k + Len(page) - Cardinality(Received \cup P)
    <3> DEFINE m == Len(walk'.got)
               n == Cardinality(Received \cup P)
               q == Repeats'
               z == Len(page)
    <3>1. m = k + z /\ q = m - n /\ k \in Nat /\ z \in Nat /\ n \in Nat
      BY <1>5, <1>8, <2>1, <2>4, <2>5
    <3> HIDE DEF m, n, q, z
    <3>2. q = k + z - n
      BY <3>1
    <3>. QED BY <3>2 DEF m, n, q, z
  <2>. QED BY <2>1, <2>6
<1>11. F \in SUBSET Live /\ G \in SUBSET Live /\ F \subseteq G /\ P = G \ F
  BY <1>3, <1>5, FirstGrows DEF F, G, P
<1> DEFINE slipped == Cardinality((walk.stayed \cap F) \ Received)
           slipping == Cardinality((walk.stayed \cap G) \ (Received \cup P))
           ahead == Cardinality(Received \cap (Live \ F))
           left == Cardinality((Received \cup P) \cap (Live \ G))
           read == Cardinality(Received)
           now == Cardinality(Received \cup P)
           size == Len(page)
<1>12. slipping <= slipped /\ size + read + left = ahead + now
  <2>1. slipping <= slipped /\ Cardinality(P) + read + left = ahead + now
    <3>1. /\ Live \in SUBSET Ids /\ F \in SUBSET Live /\ G \in SUBSET Live /\ F \subseteq G
          /\ walk.stayed \in SUBSET Live /\ Received \in SUBSET Ids /\ P \in SUBSET Ids /\ P = G \ F
      BY <1>3, <1>8, <1>11, Zenon
    <3> DEFINE A == Received \cap (Live \ G)
               B == Received \cap P
    <3>2. /\ (Received \cup P) \cap (Live \ G) = A
          /\ Received \cap (Live \ F) = A \cup B /\ A \cap B = {}
      BY <3>1
    <3>0. slipping <= slipped
      BY <3>1, AfterPage
    <3>3. A \in SUBSET Ids /\ B \in SUBSET Ids
      BY <3>1
    <3>4. now = read + Cardinality(P) - Cardinality(B)
      BY <3>1, InBoth
    <3>5. left = Cardinality(A) /\ ahead = Cardinality(A \cup B)
      BY <3>2
    <3> HIDE DEF A, B, left, ahead, now
    <3>6. ahead = Cardinality(A) + Cardinality(B) /\ Cardinality(A) \in Nat /\ Cardinality(B) \in Nat
      <4>1. /\ Cardinality(A \cup B) = Cardinality(A) + Cardinality(B) - Cardinality(A \cap B)
            /\ Cardinality(A) \in Nat /\ Cardinality(B) \in Nat
        BY <3>3, InBoth
      <4>2. Cardinality(A \cap B) = 0
        BY <3>2, FS_EmptySet
      <4>. QED BY <3>5, <4>1, <4>2
    <3>7. read \in Nat /\ Cardinality(P) \in Nat
      BY <3>1, IdsFinite
    <3> HIDE DEF read
    <3>. QED BY <3>0, <3>4, <3>5, <3>6, <3>7
  <2>. QED BY <1>8, <2>1, Zenon
<1>13. /\ slipping \in Nat /\ slipped \in Nat /\ ahead \in Nat /\ left \in Nat /\ read \in Nat /\ now \in Nat
       /\ size \in Nat /\ read <= MaxId
  <2>1. Ids \in SUBSET Ids /\ Cardinality(Ids) = MaxId
    BY FS_Interval, BoundsAssumption DEF Ids
  <2>. QED BY <1>3, <1>8, <2>1, IdsFinite, NoMore
<1>14. Repeats = k - read /\ Repeats + ahead <= walk.appeared /\ slipped <= walk.removed
       /\ Repeats' = k + size - now
  BY <1>4, <1>10 DEF Repeats
<1>15. Cardinality((walk'.stayed \cap G) \ Received') = slipping /\ Cardinality(Received' \cap (Live' \ G)) = left
  BY <1>9
<1> HIDE DEF slipped, slipping, ahead, left, read, now, size
<1>16. slipping <= walk'.removed /\ Repeats' + left <= walk'.appeared /\ Repeats' \in Int
       /\ k <= walk.appeared + MaxId
  <2>1. slipping <= walk'.removed
    BY <1>2, <1>9, <1>12, <1>13, <1>14
  <2>2. Repeats' \in Int /\ Repeats' + left = Repeats + ahead
    BY <1>5, <1>12, <1>13, <1>14
  <2>3. k <= walk.appeared + MaxId
    BY <1>2, <1>5, <1>13, <1>14, BoundsAssumption
  <2>. QED BY <1>9, <1>14, <2>1, <2>2, <2>3
<1>17. LTypeOK'
  <2>1. walk'.pos <= MaxId + walk'.appeared + 2
    BY <1>2, <1>5, <1>9, <1>16, BoundsAssumption
  <2>2. walk'.stayed \subseteq Live'
    BY <1>3, <1>9
  <2>. QED BY <1>1, <1>9, <2>1, <2>2 DEF LTypeOK
<1>18. OffsetOK'
  <2>1. CASE Len(page) < t
    <3>1. walk'.at = "ended" /\ Live = G
      BY <1>6, <1>9, <2>1
    <3>2. walk'.stayed \cap G = walk'.stayed
      BY <1>3, <1>9, <3>1
    <3>3. Repeats' <= walk'.appeared
      BY <1>2, <1>9, <1>13, <1>16
    <3>4. Cardinality(walk'.stayed \ Received') <= walk'.removed
      BY <1>15, <1>16, <3>2
    <3>. QED BY <3>1, <3>3, <3>4 DEF OffsetOK, Walking, WalkAccounted, Received, Repeats
  <2>2. CASE ~(Len(page) < t)
    <3>1. walk'.at = "walking" /\ Len(page) = t
      BY <1>3, <1>6, <1>8, <1>9, <2>2
    <3>2. Skip(walk'.pos, Take(walk'.limit)) = k + t
      BY <1>5, <1>9 DEF t
    <3>3. Behind' = G
      BY <1>7, <1>9, <3>2
    <3>4. walk'.pos >= 1 /\ Len(walk'.got) = Skip(walk'.pos, Take(walk'.limit))
      BY <1>2, <1>9, <1>10, <3>1, <3>2
    <3>. QED BY <1>9, <1>15, <1>16, <3>1, <3>3, <3>4 DEF OffsetOK, WalkAccounted, Ended
  <2>. QED BY <2>1, <2>2
<1>19. KeysetOK'
  BY <1>9 DEF KeysetOK
<1>. QED BY <1>17, <1>18, <1>19 DEF LInductive

\* The last row of an ascending listing is the largest.
LEMMA LastIs ==
  ASSUME NEW s \in Seq(Ids), Ascending(s), s # <<>>
  PROVE  /\ Last(s) \in ToSet(s) /\ Last(s) \in Ids /\ \A i \in ToSet(s) : i <= Last(s)
         /\ \A r \in Seq(Ids) : r \o s # <<>> /\ Last(r \o s) = Last(s)
<1>1. Len(s) \in Nat /\ Len(s) # 0 /\ DOMAIN s = 1..Len(s) /\ Len(s) \in 1..Len(s)
  <2>1. Len(s) # 0
    BY EmptySeq
  <2>. QED BY <2>1
<1>2. Last(s) = s[Len(s)] /\ s[Len(s)] \in Ids
  BY <1>1 DEF Last
<1>3. Last(s) \in ToSet(s)
  BY <1>1, <1>2 DEF ToSet
<1>4. ASSUME NEW n \in 1..Len(s) PROVE s[n] <= Last(s)
  <2>1. s[n] \in Int /\ Last(s) \in Int
    <3>1. s[n] \in Ids
      OBVIOUS
    <3>. QED BY <1>2, <3>1, BoundsAssumption DEF Ids
  <2>2. CASE n = Len(s)
    BY <1>2, <2>1, <2>2
  <2>3. CASE n # Len(s)
    <3>1. n < Len(s)
      BY <2>3
    <3>2. s[n] < Last(s)
      BY <1>1, <1>2, <3>1 DEF Ascending
    <3>. QED BY <2>1, <3>2
  <2>. QED BY <2>2, <2>3
<1>5. ASSUME NEW r \in Seq(Ids) PROVE r \o s # <<>> /\ Last(r \o s) = Last(s)
  <2>1. Len(r) \in Nat /\ Len(r \o s) = Len(r) + Len(s)
    BY ConcatShows
  <2>2. (r \o s)[Len(r) + Len(s)] = s[Len(s)]
    BY <1>1, <2>1, ConcatProperties
  <2>3. r \o s # <<>>
    BY <1>1, <2>1
  <2>. QED BY <1>2, <2>1, <2>2, <2>3 DEF Last
<1>. QED BY <1>1, <1>2, <1>3, <1>4, <1>5 DEF ToSet

\* The page after a key: the live rows above it, and all of them up to the
\* last one shown, or to the end when it is short.
LEMMA SeekHolds ==
  ASSUME NEW cursor \in Nat, NEW t \in Nat, NEW page, page = Seek(cursor, t)
  PROVE  /\ page \in Seq(Ids) /\ Ascending(page)
         /\ \A i \in ToSet(page) : i \in Live /\ i > cursor
         /\ \A i \in Live : i > cursor /\ Len(page) < t => i \in ToSet(page)
         /\ \A i \in Live : i > cursor /\ page # <<>> /\ i <= Last(page) => i \in ToSet(page)
<1> DEFINE L == {i \in Live : i > cursor}
<1>1. L \in SUBSET Ids
  BY DEF Live
<1>2. page = SubSeq(InOrder(L), 0 + 1, Smaller(0 + t, Len(InOrder(L))))
  <2>1. page = SubSeq(InOrder(L), 1, Smaller(t, Len(InOrder(L))))
    BY DEF Seek
  <2>2. 0 + 1 = 1 /\ 0 + t = t
    OBVIOUS
  <2> HIDE DEF L
  <2>. QED BY <2>1, <2>2, Zenon
<1> HIDE DEF L
<1>3. /\ page \in Seq(Ids) /\ Ascending(page) /\ Len(page) <= t
      /\ ToSet(page) = First(0 + t, L) \ First(0, L)
      /\ Len(page) < t => L = First(0 + t, L)
  BY <1>1, <1>2, PageHolds
<1>4. First(0, L) = {}
  BY <1>1, RankRange DEF First
<1>5. ToSet(page) = First(t, L) /\ First(t, L) \subseteq L
  BY <1>3, <1>4 DEF First
<1>6. ASSUME NEW i \in L, page # <<>>, i <= Last(page) PROVE i \in ToSet(page)
  <2>1. Last(page) \in First(t, L) /\ Last(page) \in Ids /\ Last(page) \in Int /\ i \in Ids /\ i \in Int
    BY <1>1, <1>3, <1>5, <1>6, LastIs, IdsFinite
  <2>2. i = Last(page) \/ i < Last(page)
    BY <1>6, <2>1
  <2>3. CASE i = Last(page)
    BY <1>5, <2>1, <2>3
  <2>4. CASE i < Last(page)
    <3>1. Rank(i, L) < Rank(Last(page), L) /\ Rank(i, L) \in Nat /\ Rank(Last(page), L) \in Nat
      BY <1>1, <2>1, <2>4, RankMonotone, RankRange
    <3>2. Rank(Last(page), L) < t
      BY <2>1 DEF First
    <3>. QED BY <1>5, <3>1, <3>2 DEF First
  <2>. QED BY <2>2, <2>3, <2>4
<1>. QED BY <1>3, <1>5, <1>6 DEF L

\* A page by key is read.
LEMMA SeekRead == ASSUME LInductive, NextSeek PROVE LInductive'
<1> DEFINE t == Take(walk.limit)
           page == Seek(walk.pos, t)
           key == IF page = <<>> THEN walk.pos ELSE Last(page)
<1>1. LTypeOK /\ KeysetOK /\ Walking /\ walk.kind = "keyset" /\ Receive(page, key)
  BY DEF LInductive, NextSeek
<1>2. walk.appeared \in Nat /\ walk.pos \in Nat /\ walk.got \in Seq(Ids)
  BY <1>1 DEF LTypeOK, Walks
<1>3. t \in Nat /\ Live \in SUBSET Ids /\ walk.stayed \in SUBSET Live
  BY <1>1, WalkTyped DEF LTypeOK
<1>4. /\ Ascending(walk.got) /\ walk.pos = (IF walk.got = <<>> THEN 0 ELSE Last(walk.got))
      /\ \A i \in walk.stayed : i <= walk.pos => i \in Received
  BY <1>1 DEF KeysetOK, KeysetComplete
<1>5. /\ page \in Seq(Ids) /\ Ascending(page)
      /\ \A i \in ToSet(page) : i \in Live /\ i > walk.pos
      /\ \A i \in Live : i > walk.pos /\ Len(page) < t => i \in ToSet(page)
      /\ \A i \in Live : i > walk.pos /\ page # <<>> /\ i <= Last(page) => i \in ToSet(page)
  <2> HIDE DEF t
  <2>. QED BY <1>2, <1>3, SeekHolds
<1> HIDE DEF page, t
<1>6. key \in Nat /\ (key = walk.pos \/ key \in Ids)
  BY <1>2, <1>5, LastIs, BoundsAssumption DEF Ids
<1> HIDE DEF key
<1>7. /\ walk' \in Walks /\ UNCHANGED <<rows, restored, deleted>>
      /\ Live' = Live /\ Received' = Received \cup ToSet(page)
      /\ walk'.at = (IF Len(page) < t THEN "ended" ELSE "walking")
      /\ walk'.kind = "keyset" /\ walk'.limit = walk.limit /\ walk'.pos = key
      /\ walk'.got = walk.got \o page /\ walk'.stayed = walk.stayed
      /\ walk'.removed = walk.removed /\ walk'.appeared = walk.appeared
  BY <1>1, <1>5, <1>6, ReceiveAdds DEF t
<1>8. LTypeOK'
  <2>1. walk'.pos <= MaxId + walk'.appeared + 2
    <3>1. CASE key = walk.pos
      BY <1>1, <1>7, <3>1 DEF LTypeOK
    <3>2. CASE key \in Ids
      BY <1>2, <1>7, <3>2, BoundsAssumption DEF Ids
    <3>. QED BY <1>6, <3>1, <3>2
  <2>2. walk'.stayed \subseteq Live'
    BY <1>3, <1>7
  <2>. QED BY <1>1, <1>7, <2>1, <2>2 DEF LTypeOK
<1>9. OffsetOK'
  BY <1>7 DEF OffsetOK
<1>10. Ascending(walk.got \o page)
  <2>1. /\ DOMAIN (walk.got \o page) = 1..(Len(walk.got) + Len(page))
        /\ DOMAIN walk.got = 1..Len(walk.got) /\ DOMAIN page = 1..Len(page)
        /\ Len(walk.got) \in Nat /\ Len(page) \in Nat
        /\ \A n \in 1..(Len(walk.got) + Len(page)) :
             (walk.got \o page)[n] = IF n <= Len(walk.got) THEN walk.got[n] ELSE page[n - Len(walk.got)]
    BY <1>2, <1>5, ConcatProperties
  <2>2. ASSUME NEW i \in ToSet(walk.got), NEW j \in ToSet(page) PROVE i < j
    <3>1. walk.got # <<>>
      BY DEF ToSet
    <3>2. i <= walk.pos /\ j > walk.pos /\ i \in Ids /\ j \in Ids
      <4>1. i <= walk.pos /\ j > walk.pos
        BY <1>2, <1>4, <1>5, <3>1, LastIs
      <4>2. i \in Ids /\ j \in Ids
        BY <1>2, <1>5, AscendingCount, <1>4
      <4>. QED BY <4>1, <4>2
    <3>3. i \in Int /\ j \in Int /\ walk.pos \in Int
      BY <1>2, <3>2, BoundsAssumption DEF Ids
    <3>. QED BY <3>2, <3>3
  <2> SUFFICES ASSUME NEW m \in 1..(Len(walk.got) + Len(page)),
                      NEW n \in 1..(Len(walk.got) + Len(page)), m < n
               PROVE  (walk.got \o page)[m] < (walk.got \o page)[n]
    BY <2>1 DEF Ascending
  <2>3. CASE n <= Len(walk.got)
    <3>1. m \in DOMAIN walk.got /\ n \in DOMAIN walk.got /\ m <= Len(walk.got)
      BY <2>1, <2>3
    <3>2. (walk.got \o page)[m] = walk.got[m] /\ (walk.got \o page)[n] = walk.got[n]
      BY <2>1, <2>3, <3>1
    <3>. QED BY <1>4, <3>1, <3>2 DEF Ascending
  <2>4. CASE m <= Len(walk.got) /\ ~(n <= Len(walk.got))
    <3>1. m \in DOMAIN walk.got /\ n - Len(walk.got) \in DOMAIN page
      BY <2>1, <2>4
    <3>2. (walk.got \o page)[m] = walk.got[m] /\ (walk.got \o page)[n] = page[n - Len(walk.got)]
      BY <2>1, <2>4
    <3>3. walk.got[m] \in ToSet(walk.got) /\ page[n - Len(walk.got)] \in ToSet(page)
      BY <3>1 DEF ToSet
    <3>. QED BY <2>2, <3>2, <3>3
  <2>5. CASE ~(m <= Len(walk.got))
    <3>1. /\ m - Len(walk.got) \in DOMAIN page /\ n - Len(walk.got) \in DOMAIN page
          /\ m - Len(walk.got) < n - Len(walk.got) /\ ~(n <= Len(walk.got))
      BY <2>1, <2>5
    <3>2. /\ (walk.got \o page)[m] = page[m - Len(walk.got)]
          /\ (walk.got \o page)[n] = page[n - Len(walk.got)]
      BY <2>1, <2>5, <3>1
    <3>. QED BY <1>5, <3>1, <3>2 DEF Ascending
  <2>. QED BY <2>1, <2>3, <2>4, <2>5
<1>11. key = (IF walk'.got = <<>> THEN 0 ELSE Last(walk'.got))
  <2>1. CASE page = <<>>
    <3>1. walk.got \o page = walk.got
      BY <1>2, <2>1, ConcatEmptySeq
    <3>. QED BY <1>4, <1>7, <2>1, <3>1 DEF key
  <2>2. CASE page # <<>>
    BY <1>2, <1>5, <1>7, <2>2, LastIs DEF key
  <2>. QED BY <2>1, <2>2
<1>12. ASSUME NEW i \in walk.stayed, i <= key \/ Len(page) < t PROVE i \in Received \cup ToSet(page)
  <2>1. i \in Live /\ i \in Int /\ walk.pos \in Int
    <3>1. i \in Live /\ i \in Ids
      BY <1>3
    <3>. QED BY <1>2, <3>1, BoundsAssumption DEF Ids
  <2>2. CASE i <= walk.pos
    BY <1>4, <2>2
  <2>3. CASE ~(i <= walk.pos)
    <3>1. i > walk.pos
      BY <2>1, <2>3
    <3>2. Len(page) < t \/ (page # <<>> /\ i <= Last(page))
      BY <1>12, <2>3 DEF key
    <3>. QED BY <1>5, <2>1, <3>1, <3>2
  <2>. QED BY <2>2, <2>3
<1>13. KeysetOK'
  <2>1. KeysetComplete'
    BY <1>7, <1>10, <1>12 DEF KeysetComplete, Ended, Received
  <2>2. Walking' => \A i \in walk'.stayed : i <= walk'.pos => i \in Received'
    BY <1>7, <1>12
  <2>. QED BY <1>7, <1>11, <2>1, <2>2 DEF KeysetOK
<1>. QED BY <1>8, <1>9, <1>13 DEF LInductive

\* Every step keeps the inductive invariant.
LEMMA ListingStep == LInductive /\ [LNext]_lvars => LInductive'
<1> SUFFICES ASSUME LInductive, [LNext]_lvars PROVE LInductive'
  OBVIOUS
<1>1. rows \in [Ids -> RowStates] /\ restored \in 0..MaxChanges /\ deleted \in 0..MaxChanges
  BY DEF LInductive, LTypeOK
<1>2. ASSUME NEW i \in Ids, Write(i) PROVE LInductive'
  <2>1. CASE Allocate(i)
    <3>1. rows' \in [Ids -> RowStates] /\ Live' = Live /\ UNCHANGED <<restored, deleted, walk>>
      BY <1>1, <2>1 DEF Allocate, Become, Live, RowStates
    <3>. QED BY <3>1, RowsStill
  <2>2. CASE Refuse(i)
    <3>1. rows' \in [Ids -> RowStates] /\ Live' = Live /\ UNCHANGED <<restored, deleted, walk>>
      BY <1>1, <2>2 DEF Refuse, Become, Live, RowStates
    <3>. QED BY <3>1, RowsStill
  <2>3. CASE Commit(i)
    <3>1. /\ rows' \in [Ids -> RowStates] /\ Live' = Live \cup {i} /\ i \in Ids \ Live
          /\ Appears /\ UNCHANGED <<restored, deleted>>
      BY <1>1, <2>3 DEF Commit, Become, Live, RowStates
    <3>. QED BY <1>1, <3>1, RowComes
  <2>4. CASE Restore(i)
    <3>1. /\ rows' \in [Ids -> RowStates] /\ Live' = Live \cup {i} /\ i \in Ids \ Live
          /\ Appears
      BY <1>1, <2>4 DEF Restore, Become, Live, RowStates
    <3>2. restored' \in 0..MaxChanges /\ deleted' \in 0..MaxChanges
      BY <1>1, <2>4, BoundsAssumption DEF Restore
    <3>. QED BY <3>1, <3>2, RowComes
  <2>5. CASE SoftDelete(i)
    <3>1. /\ rows' \in [Ids -> RowStates] /\ Live' = Live \ {i} /\ i \in Live
          /\ Vanishes(i)
      BY <1>1, <2>5 DEF SoftDelete, Become, Live, RowStates
    <3>2. restored' \in 0..MaxChanges /\ deleted' \in 0..MaxChanges
      BY <1>1, <2>5, BoundsAssumption DEF SoftDelete
    <3>. QED BY <3>1, <3>2, RowGoes
  <2>. QED BY <1>2, <2>1, <2>2, <2>3, <2>4, <2>5 DEF Write
<1>3. CASE UNCHANGED lvars
  <2>1. rows' \in [Ids -> RowStates] /\ Live' = Live /\ UNCHANGED <<restored, deleted, walk>>
    BY <1>1, <1>3 DEF lvars, Live
  <2>. QED BY <2>1, RowsStill
<1>. QED BY <1>2, <1>3, WalkStarts, PageRead, SeekRead DEF LNext

LEMMA ListingInductive == LSpec => []LInductive
<1>. QED BY ListingInit, ListingStep, PTL DEF LSpec

\* The rows and the walk keep their types, and a walk ends within as many pages
\* as there were ever rows to show.
THEOREM ListingTyped == LSpec => []LTypeOK
<1>1. LInductive => LTypeOK
  BY DEF LInductive
<1>. QED BY <1>1, ListingInductive, PTL

\* findAll's pages skip no more of the posts that stayed than were deleted
\* while a client read them, and repeat one no more often than posts came.
THEOREM WalkAccountedFor == LSpec => []WalkAccounted
<1>1. LInductive => WalkAccounted
  BY DEF LInductive, OffsetOK, WalkAccounted, Ended
<1>. QED BY <1>1, ListingInductive, PTL

\* Pages after a key repeat no post and skip none that stayed.
THEOREM KeysetMissesNothing == LSpec => []KeysetComplete
<1>1. LInductive => KeysetComplete
  BY DEF LInductive, KeysetOK, KeysetComplete, Ended
<1>. QED BY <1>1, ListingInductive, PTL

-----------------------------------------------------------------------------
(* Lists at one moment. *)

\* Sequences put together one after the other are what a function says that
\* follows the same steps.
LEMMA Flattened ==
  ASSUME NEW seqs \in Seq(Seq(Ids)), NEW goal \in [1..Len(seqs) -> Seq(Ids)], Len(seqs) # 0,
         goal[1] = seqs[1], \A i \in 1..Len(seqs) : i # 1 => goal[i] = goal[i-1] \o seqs[i]
  PROVE  FlattenSeq(seqs) = goal[Len(seqs)]
<1> DEFINE Step(f) == [i \in 1..Len(seqs) |-> IF i = 1 THEN seqs[i] ELSE f[i-1] \o seqs[i]]
           flatten == CHOOSE f : f = Step(f)
<1>1. FlattenSeq(seqs) = flatten[Len(seqs)]
  BY Zenon DEF FlattenSeq
<1>2. goal = Step(goal)
  OBVIOUS
<1>3. flatten = Step(flatten)
  <2>1. \E f : f = Step(f)
    BY <1>2
  <2>. QED BY <2>1, Zenon
<1>4. ASSUME NEW i \in 1..Len(seqs)
      PROVE  flatten[i] = IF i = 1 THEN seqs[i] ELSE flatten[i-1] \o seqs[i]
  <2> HIDE DEF flatten
  <2>. QED BY <1>3
<1> HIDE DEF flatten
<1> DEFINE N == Len(seqs) - 1
           S == {n \in Nat : n + 1 \in 1..Len(seqs) => flatten[n + 1] = goal[n + 1]}
<1>5. N \in Nat /\ N + 1 = Len(seqs) /\ N + 1 \in 1..Len(seqs)
  OBVIOUS
<1>6. 0 \in S
  BY <1>4
<1>7. ASSUME NEW n \in Nat, n \in S PROVE n + 1 \in S
  <2> SUFFICES ASSUME n + 1 + 1 \in 1..Len(seqs) PROVE flatten[n + 1 + 1] = goal[n + 1 + 1]
    OBVIOUS
  <2>1. PICK i \in 1..Len(seqs) : i = n + 1 + 1
    OBVIOUS
  <2>2. i - 1 = n + 1 /\ n + 1 \in 1..Len(seqs) /\ i # 1
    BY <2>1
  <2>3. flatten[i - 1] = goal[i - 1]
    BY <1>7, <2>2
  <2>4. flatten[i] = flatten[i - 1] \o seqs[i] /\ goal[i] = goal[i - 1] \o seqs[i]
    BY <1>4, <2>2
  <2>. QED BY <2>1, <2>3, <2>4
<1> HIDE DEF S, N
<1>8. N \in S
  BY <1>5, <1>6, <1>7, SetInduction
<1>. QED BY <1>1, <1>5, <1>8 DEF S

\* The pages of findAll, one after the other, are the live posts: the first i
\* of them hold the first i times the page size.
LEMMA PagesTile ==
  ASSUME NEW limit \in Int
  PROVE  FlattenSeq([p \in Ids |-> FindAll(p, limit)]) = InOrder(Live)
<1> DEFINE t == Take(limit)
           s == InOrder(Live)
           c == Cardinality(Live)
           pages == [p \in Ids |-> FindAll(p, limit)]
           goal == [i \in Ids |-> SubSeq(s, 1, Smaller(i * t, c))]
<1>1. t \in Nat /\ 1 <= t /\ Live \in SUBSET Ids
  BY TakeRange DEF Live
<1>2. s \in Seq(Ids) /\ Len(s) = c /\ c \in Nat /\ c <= MaxId
  <2>1. s \in Seq(Live) /\ Len(s) = c /\ c \in Nat
    BY <1>1, InOrderIs, IdsFinite
  <2>2. Cardinality(Ids) = MaxId
    BY FS_Interval, BoundsAssumption DEF Ids
  <2>. QED BY <1>1, <2>1, <2>2, NoMore
<1>3. ASSUME NEW i \in Ids
      PROVE  /\ (i - 1) * t \in Nat /\ i * t = (i - 1) * t + t /\ i * t \in Nat /\ i <= i * t
             /\ FindAll(i, limit) = SubSeq(s, (i - 1) * t + 1, Smaller(i * t, c))
  <2>1. i \in Nat /\ 1 <= i
    BY BoundsAssumption DEF Ids
  <2>2. i + 1 \in Nat /\ 1 <= i + 1 /\ i + 1 - 1 = i
    BY <2>1
  <2>3. Skip(i, t) = (i - 1) * t /\ Skip(i + 1, t) = i * t
    BY <2>1, <2>2 DEF Skip, Larger
  <2> HIDE DEF t
  <2>4. Skip(i, t) \in Nat /\ Skip(i + 1, t) = Skip(i, t) + t /\ Skip(i + 1, t) \in Nat
        /\ i <= Skip(i + 1, t)
    BY <1>1, <2>1, <2>2, SkipNext
  <2>5. FindAll(i, limit) = SubSeq(s, Skip(i, t) + 1, Smaller(Skip(i, t) + t, Len(s)))
    BY DEF FindAll, t
  <2> HIDE DEF s, c
  <2>. QED BY <1>2, <2>3, <2>4, <2>5
<1>4. CASE MaxId = 0
  <2>1. Ids = {} /\ Len(s) = 0
    BY <1>2, <1>4 DEF Ids
  <2>2. pages = <<>> /\ Len(pages) = 0
    BY <2>1
  <2>3. s = <<>>
    BY <1>2, <2>1, EmptySeq
  <2>4. FlattenSeq(pages) = pages
    BY <2>2 DEF FlattenSeq
  <2>. QED BY <2>2, <2>3, <2>4
<1>5. CASE MaxId # 0
  <2>1. /\ pages \in Seq(Seq(Ids)) /\ Len(pages) = MaxId /\ MaxId \in Nat /\ 1..Len(pages) = Ids
        /\ \A i \in Ids : pages[i] = FindAll(i, limit)
    <3>1. ASSUME NEW i \in Ids PROVE FindAll(i, limit) \in Seq(Ids)
      <4> DEFINE k == (i - 1) * t
                 n == Smaller(i * t, c)
      <4>1. k \in Nat /\ n \in Nat /\ n <= Len(s) /\ FindAll(i, limit) = SubSeq(s, k + 1, n)
        <5> HIDE DEF s, t, c
        <5>. QED BY <1>1, <1>2, <1>3 DEF Smaller
      <4> HIDE DEF s, t, c, k, n
      <4>2. \A m \in k + 1 .. n : s[m] \in Ids
        BY <1>2, <4>1
      <4>. QED BY <4>1, <4>2, SubSeqProperties
    <3>2. pages \in [1..MaxId -> Seq(Ids)] /\ MaxId \in Nat
      BY <3>1, BoundsAssumption DEF Ids
    <3>. QED BY <3>2 DEF Ids
  <2>2. goal \in [1..Len(pages) -> Seq(Ids)]
    <3>1. ASSUME NEW i \in Ids PROVE SubSeq(s, 1, Smaller(i * t, c)) \in Seq(Ids)
      <4> HIDE DEF s, t, c
      <4>. QED BY <1>2, <1>3 DEF Smaller
    <3> HIDE DEF pages, s, t, c
    <3>. QED BY <2>1, <3>1
  <2>3. goal[1] = pages[1]
    <3>1. 1 \in Ids
      BY <1>5, BoundsAssumption DEF Ids
    <3>2. (1 - 1) * t + 1 = 1
      BY <1>1
    <3> HIDE DEF s, t, c, pages
    <3>3. goal[1] = SubSeq(s, 1, Smaller(1 * t, c))
      BY <3>1
    <3>4. pages[1] = SubSeq(s, (1 - 1) * t + 1, Smaller(1 * t, c))
      BY <1>3, <2>1, <3>1
    <3>. QED BY <3>2, <3>3, <3>4, Zenon
  <2>4. ASSUME NEW i \in Ids, i # 1 PROVE goal[i] = goal[i-1] \o pages[i]
    <3>1. i - 1 \in Ids
      BY <2>4, BoundsAssumption DEF Ids
    <3> DEFINE k == (i - 1) * t
               m == Smaller(k, c)
               n == Smaller(k + t, c)
    <3>2. k \in Nat /\ goal[i - 1] = SubSeq(s, 1, m) /\ goal[i] = SubSeq(s, 1, n)
          /\ pages[i] = SubSeq(s, k + 1, n)
      <4> HIDE DEF s, c, t, pages
      <4>. QED BY <1>3, <2>1, <3>1
    <3> HIDE DEF s, c, t, k, pages, goal
    <3>3. CASE k <= c
      <4>1. m = k /\ n \in k .. Len(s) /\ k \in 0 .. Len(s)
        BY <1>1, <1>2, <3>2, <3>3 DEF Smaller
      <4>2. SubSeq(s, 1, k) \o SubSeq(s, k + 1, n) = SubSeq(s, 1, n)
        <5>1. 1 \in 1 .. (Len(s) + 1) /\ k \in 1 - 1 .. Len(s)
          BY <1>2, <4>1
        <5> HIDE DEF n
        <5>. QED BY <1>2, <4>1, <5>1, ConcatAdjacentSubSeq
      <4>. QED BY <3>2, <4>1, <4>2
    <3>4. CASE ~(k <= c)
      <4>1. m = c /\ n = c /\ k + 1 > n /\ n \in Nat
        BY <1>1, <1>2, <3>2, <3>4 DEF Smaller
      <4>2. pages[i] = <<>>
        BY <3>2, <4>1, SubSeqEmpty
      <4>3. goal[i - 1] \in Seq(Ids) /\ goal[i] = goal[i - 1]
        BY <2>1, <2>2, <3>1, <3>2, <4>1
      <4>. QED BY <4>2, <4>3, ConcatEmptySeq
    <3>. QED BY <3>3, <3>4
  <2>5. goal[MaxId] = s
    <3>1. MaxId \in Ids
      BY <1>5, BoundsAssumption DEF Ids
    <3>2. goal[MaxId] = SubSeq(s, 1, Smaller(MaxId * t, c))
      BY <3>1
    <3> HIDE DEF s, t, c, goal
    <3>3. Smaller(MaxId * t, c) = Len(s)
      BY <1>2, <1>3, <3>1, BoundsAssumption DEF Smaller
    <3>. QED BY <1>2, <3>2, <3>3, SubSeqFull
  <2> HIDE DEF pages, goal, s
  <2>6. FlattenSeq(pages) = goal[Len(pages)]
    BY <1>5, <2>1, <2>2, <2>3, <2>4, Flattened
  <2>. QED BY <2>1, <2>5, <2>6 DEF pages, s
<1>. QED BY <1>4, <1>5

\* A page of findAll is not longer than the limit, and those below the first
\* are the first.
LEMMA PagesBounded ==
  ASSUME NEW limit \in Int
  PROVE  /\ \A p \in Ids : Len(FindAll(p, limit)) <= MaxTake
         /\ \A p \in {0, -1} : FindAll(p, limit) = FindAll(1, limit)
<1>1. ASSUME NEW p \in Ids PROVE Len(FindAll(p, limit)) <= MaxTake
  <2> DEFINE t == Take(limit)
             k == Skip(p, t)
             page == FindAll(p, limit)
  <2>1. t \in Nat /\ 1 <= t /\ t <= MaxTake /\ Live \in SUBSET Ids
    BY TakeRange DEF Live
  <2>2. k \in Nat
    <3>1. p \in Nat /\ 1 <= p
      BY BoundsAssumption DEF Ids
    <3> HIDE DEF t
    <3>. QED BY <2>1, <3>1, SkipNext
  <2>3. page = SubSeq(InOrder(Live), k + 1, Smaller(k + t, Len(InOrder(Live))))
    BY DEF FindAll
  <2> HIDE DEF t, k, page
  <2>4. page \in Seq(Ids) /\ Len(page) <= t
    BY <2>1, <2>2, <2>3, PageHolds
  <2>5. Len(page) \in Nat
    BY <2>4
  <2>6. Len(page) <= MaxTake
    BY <2>1, <2>4, <2>5, TakeAssumption
  <2>. QED BY <2>6 DEF page
<1>2. ASSUME NEW p \in {0, -1} PROVE FindAll(p, limit) = FindAll(1, limit)
  <2>1. Larger(p, 1) = Larger(1, 1)
    BY DEF Larger
  <2>. QED BY <2>1 DEF FindAll, Skip
<1>. QED BY <1>1, <1>2

\* Whatever was written, at any moment the pages of findAll tile the live posts
\* for any _limit.
THEOREM PagesAlwaysCover == LSpec => []PagesCoverLive
<1>1. PagesCoverLive
  <2> SUFFICES ASSUME NEW limit \in Limits
               PROVE  LET live == InOrder(Live)
                          pages == [p \in Ids |-> FindAll(p, limit)]
                      IN /\ FlattenSeq(pages) = live /\ Ascending(live)
                         /\ \A p \in Ids : Len(pages[p]) <= MaxTake
                         /\ \A p \in {0, -1} : FindAll(p, limit) = FindAll(1, limit)
    BY DEF PagesCoverLive
  <2>1. limit \in Int
    BY TakeAssumption
  <2>2. Live \in SUBSET Ids
    BY DEF Live
  <2>3. FlattenSeq([p \in Ids |-> FindAll(p, limit)]) = InOrder(Live) /\ Ascending(InOrder(Live))
    BY <2>1, <2>2, PagesTile, InOrderIs
  <2>4. \A p \in Ids : [q \in Ids |-> FindAll(q, limit)][p] = FindAll(p, limit)
    OBVIOUS
  <2>5. /\ \A p \in Ids : Len([q \in Ids |-> FindAll(q, limit)][p]) <= MaxTake
        /\ \A p \in {0, -1} : FindAll(p, limit) = FindAll(1, limit)
    BY <2>1, <2>4, PagesBounded
  <2>. QED BY <2>3, <2>5, Zenon
<1>. QED BY <1>1, PTL
==============================================================================
