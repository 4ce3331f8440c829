---------------------------- MODULE CollectionsProofs ----------------------------
(***************************************************************************)
(* Facts about lists, their parts and what is reached, for the proofs      *)
(* about the passes.  The provers have no induction, so that each proof by *)
(* induction takes the least counterexample (LeastNat).                    *)
(***************************************************************************)
EXTENDS Collections, FiniteSetTheorems, SequenceTheorems, WellFoundedInduction, TLAPS

LEMMA LeastNat ==
  ASSUME NEW S, S \subseteq Nat, S # {}
  PROVE  \E n \in S : \A m \in S : n <= m
<1> DEFINE R == {ss \in Nat \X Nat : ss[1] < ss[2]}
<1>1. IsWellFoundedOn(R, Nat)
  BY NatLessThanWellFounded, Zenon DEF OpToRel
<1>2. PICK n \in S : \A m \in S : <<m, n>> \notin R
  <2> HIDE DEF R
  <2> QED
    BY <1>1, WFMin, Zenon
<1>3. ASSUME NEW m \in S PROVE n <= m
  <2>1. /\ n \in Nat /\ m \in Nat
        /\ <<m, n>> \in Nat \X Nat /\ <<m, n>>[1] = m /\ <<m, n>>[2] = n
    OBVIOUS
  <2>2. ~(<<m, n>>[1] < <<m, n>>[2])
    BY <1>2, <2>1, Zenon
  <2> QED
    BY <2>1, <2>2
<1> QED
  BY <1>3

-----------------------------------------------------------------------------
\* The places of a list that Picked takes.

Smaller(S, n) == {m \in S : m < n}

\* Every number from 1 on is the rank of a member of a set of numbers: the next
\* rank is that of the least member that is above a member of the last.
LEMMA Ranked ==
  ASSUME NEW S, S \subseteq Nat, IsFiniteSet(S), NEW i \in 1..Cardinality(S)
  PROVE  \E n \in S : Cardinality(Smaller(S, n)) = i - 1
<1> DEFINE Good(j) == \E n \in S : Cardinality(Smaller(S, n)) = j
           bad == {j \in 0..(Cardinality(S) - 1) : ~Good(j)}
<1>1. Cardinality(S) \in Nat /\ \A T \in SUBSET S : IsFiniteSet(T) /\ Cardinality(T) \in Nat
  BY FS_CardinalityType, FS_Subset
<1>2. Good(0)
  <2>1. S # {}
    BY <1>1, FS_EmptySet
  <2>2. PICK n \in S : \A m \in S : n <= m
    BY <2>1, LeastNat
  <2>a. \A m \in S : ~(m < n)
    BY <2>2
  <2>3. Smaller(S, n) = {}
    BY <2>a DEF Smaller
  <2> QED
    BY <2>3, FS_EmptySet
<1>3. ASSUME NEW j \in Nat, j + 1 < Cardinality(S), Good(j) PROVE Good(j + 1)
  <2>1. PICK n \in S : Cardinality(Smaller(S, n)) = j
    BY <1>3
  <2> DEFINE below == Smaller(S, n) \cup {n}
             rest == S \ below
  <2>2. Smaller(S, n) \in SUBSET S /\ n \notin Smaller(S, n) /\ below \in SUBSET S
    BY DEF Smaller
  <2>3. Cardinality(below) = j + 1
    BY <1>1, <2>1, <2>2, FS_AddElement
  <2>4. rest # {} /\ rest \subseteq Nat
    <3>1. below # S
      BY <1>1, <1>3, <2>3
    <3> QED
      BY <2>2, <3>1
  <2>5. PICK o \in rest : \A m \in rest : o <= m
    <3> HIDE DEF rest
    <3> QED
      BY <2>4, LeastNat
  <2>a. o \in S /\ o > n
    BY <2>5 DEF Smaller
  <2>b. \A m \in S : m < o <=> m \in below
    BY <2>5, <2>a DEF Smaller
  <2>6. Smaller(S, o) = below
    BY <2>2, <2>b DEF Smaller
  <2> QED
    BY <2>3, <2>5, <2>6
<1>4. bad = {}
  <2> SUFFICES ASSUME bad # {} PROVE FALSE
    OBVIOUS
  <2>1. bad \subseteq Nat
    BY <1>1
  <2>2. PICK j \in bad : \A m \in bad : j <= m
    <3> HIDE DEF bad
    <3> QED
      BY <2>1, LeastNat
  <2>3. j \in Nat /\ ~Good(j) /\ j < Cardinality(S)
    BY <1>1
  <2> HIDE DEF Good
  <2>4. j # 0
    BY <1>2, <2>3
  <2>5. j - 1 \in 0..(Cardinality(S) - 1) /\ j - 1 \in Nat /\ j - 1 + 1 = j
    BY <1>1, <2>3, <2>4
  <2>6. j - 1 \notin bad
    <3> HIDE DEF bad
    <3> QED
    BY <2>2, <2>5
  <2>7. Good(j - 1)
    BY <2>5, <2>6
  <2> QED
    BY <1>3, <2>3, <2>5, <2>7
<1>5. i - 1 \in 0..(Cardinality(S) - 1)
  BY <1>1
<1>6. Good(i - 1)
  <2> HIDE DEF Good
  <2> QED
    BY <1>4, <1>5
<1> QED
  BY <1>6

\* Each member of the set has one place.
LEMMA AscendingPlaces ==
  ASSUME NEW S, S \subseteq Nat, IsFiniteSet(S)
  PROVE  /\ Cardinality(S) \in Nat
         /\ \A i \in 1..Cardinality(S) : /\ Ascending(S)[i] \in S
                                         /\ Cardinality(Smaller(S, Ascending(S)[i])) = i - 1
         /\ \A i, j \in 1..Cardinality(S) : Ascending(S)[i] = Ascending(S)[j] => i = j
         /\ \A n \in S : \E i \in 1..Cardinality(S) : Ascending(S)[i] = n
<1>1. Cardinality(S) \in Nat /\ \A T \in SUBSET S : IsFiniteSet(T) /\ Cardinality(T) \in Nat
  BY FS_CardinalityType, FS_Subset
<1>2. ASSUME NEW i \in 1..Cardinality(S)
      PROVE  Ascending(S)[i] \in S /\ Cardinality(Smaller(S, Ascending(S)[i])) = i - 1
  <2>1. \E n \in S : Cardinality(Smaller(S, n)) = i - 1
    BY Ranked
  <2>2. Ascending(S)[i] = CHOOSE n \in S : Cardinality(Smaller(S, n)) = i - 1
    BY DEF Ascending, Smaller
  <2> HIDE DEF Ascending
  <2> QED
    BY <2>1, <2>2
<1>3. \A i, j \in 1..Cardinality(S) : Ascending(S)[i] = Ascending(S)[j] => i = j
  <2> TAKE i, j \in 1..Cardinality(S)
  <2> HAVE Ascending(S)[i] = Ascending(S)[j]
  <2>1. i - 1 = j - 1
    BY <1>2
  <2> QED
    BY <1>1, <2>1
<1>4. ASSUME NEW m \in S, NEW n \in S, m < n
      PROVE  Cardinality(Smaller(S, m)) < Cardinality(Smaller(S, n))
  <2>a. m \in Nat /\ n \in Nat /\ \A o \in S : o < m => o < n
    BY <1>4
  <2>1. /\ Smaller(S, m) \in SUBSET S /\ Smaller(S, n) \in SUBSET S
        /\ m \notin Smaller(S, m) /\ Smaller(S, m) \cup {m} \in SUBSET Smaller(S, n)
    <3>1. Smaller(S, m) \in SUBSET S /\ Smaller(S, n) \in SUBSET S
      BY DEF Smaller
    <3>2. m \notin Smaller(S, m)
      BY <2>a DEF Smaller
    <3>3. \A o \in Smaller(S, m) \cup {m} : o \in S /\ o < n
      BY <1>4, <2>a DEF Smaller
    <3>4. \A o \in Smaller(S, m) \cup {m} : o \in Smaller(S, n)
      BY <3>3, Zenon DEF Smaller
    <3> QED
      BY <3>1, <3>2, <3>4
  <2>2. Cardinality(Smaller(S, m) \cup {m}) = Cardinality(Smaller(S, m)) + 1
    BY <1>1, <2>1, FS_AddElement
  <2>3. Cardinality(Smaller(S, m) \cup {m}) <= Cardinality(Smaller(S, n))
    BY <1>1, <2>1, FS_Subset
  <2> QED
    BY <1>1, <2>1, <2>2, <2>3
<1>5. ASSUME NEW n \in S PROVE \E i \in 1..Cardinality(S) : Ascending(S)[i] = n
  <2> DEFINE i == Cardinality(Smaller(S, n)) + 1
  <2>1. Smaller(S, n) \in SUBSET S /\ n \notin Smaller(S, n)
    BY DEF Smaller
  <2>2. Cardinality(Smaller(S, n)) \in Nat /\ Cardinality(Smaller(S, n)) < Cardinality(S)
    <3>1. Smaller(S, n) \cup {n} \in SUBSET S
      BY <2>1
    <3>2. Cardinality(Smaller(S, n) \cup {n}) = Cardinality(Smaller(S, n)) + 1
      BY <1>1, <2>1, FS_AddElement
    <3>3. Cardinality(Smaller(S, n) \cup {n}) <= Cardinality(S)
      BY <3>1, FS_Subset
    <3> QED
      BY <1>1, <2>1, <3>2, <3>3
  <2>3. i \in 1..Cardinality(S) /\ i - 1 = Cardinality(Smaller(S, n))
    BY <1>1, <2>2
  <2> HIDE DEF i
  <2>4. Ascending(S)[i] \in S
        /\ Cardinality(Smaller(S, Ascending(S)[i])) = Cardinality(Smaller(S, n))
    BY <1>2, <2>3
  <2> DEFINE m == Ascending(S)[i]
  <2> HIDE DEF m
  <2>5. m \in S /\ Cardinality(Smaller(S, m)) = Cardinality(Smaller(S, n))
    BY <2>4 DEF m
  <2>6. ~(m < n) /\ ~(n < m)
    BY <1>4, <2>2, <2>5
  <2>7. m = n
    BY <2>5, <2>6
  <2> QED
    BY <2>3, <2>7 DEF m
<1> QED
  BY <1>1, <1>2, <1>3, <1>5

\* The greatest of some numbers.
LEMMA Greatest ==
  ASSUME NEW S, S \subseteq Nat, IsFiniteSet(S), S # {}
  PROVE  Max(S) \in S /\ \A n \in S : Max(S) >= n
<1> DEFINE c == Cardinality(S)
<1>1. c \in Nat /\ c # 0 /\ \A T \in SUBSET S : IsFiniteSet(T) /\ Cardinality(T) \in Nat
  BY FS_CardinalityType, FS_EmptySet, FS_Subset
<1>2. PICK m \in S : Cardinality(Smaller(S, m)) = c - 1
  <2>1. c \in 1..c
    BY <1>1
  <2> QED
    BY <2>1, Ranked
<1>3. ASSUME NEW n \in S, n > m PROVE FALSE
  <2>1. /\ Smaller(S, m) \in SUBSET S /\ m \notin Smaller(S, m) /\ n \notin Smaller(S, m) /\ m # n
        /\ Smaller(S, m) \cup {m} \in SUBSET S /\ n \notin Smaller(S, m) \cup {m}
    BY <1>3 DEF Smaller
  <2>2. Cardinality(Smaller(S, m) \cup {m}) = c
    BY <1>1, <1>2, <2>1, FS_AddElement
  <2>3. Smaller(S, m) \cup {m} = S
    BY <2>1, <2>2, FS_Subset
  <2> QED
    BY <2>1, <2>3
<1>4. m \in S /\ \A n \in S : m >= n
  BY <1>3
<1> QED
  BY <1>4 DEF Max

LEMMA Least ==
  ASSUME NEW S, S \subseteq Nat, S # {}
  PROVE  Min(S) \in S /\ \A n \in S : Min(S) <= n
<1>1. \E m \in S : \A n \in S : m <= n
  BY LeastNat
<1> QED
  BY <1>1 DEF Min

-----------------------------------------------------------------------------
\* Lists.

\* A list, whatever its elements are.
IsList(s) == s \in Seq(Range(s))

LEMMA Lists ==
  ASSUME NEW s, IsList(s)
  PROVE  Len(s) \in Nat /\ DOMAIN s = 1..Len(s)
BY DEF IsList

LEMMA ListOf ==
  ASSUME NEW S, NEW s \in Seq(S)
  PROVE  IsList(s)
<1>1. \A i \in 1..Len(s) : s[i] \in Range(s)
  BY DEF Range
<1> QED
  BY <1>1 DEF IsList

LEMMA Pushed ==
  ASSUME NEW s, IsList(s), NEW x
  PROVE  /\ IsList(Append(s, x)) /\ Len(Append(s, x)) = Len(s) + 1
         /\ Append(s, x)[Len(s) + 1] = x
         /\ \A i \in 1..Len(s) : Append(s, x)[i] = s[i]
<1>1. s \in Seq(Range(s) \cup {x})
  BY SeqMonotonic DEF IsList
<1> DEFINE S == Range(s) \cup {x}
<1>2. x \in S /\ s \in Seq(S)
  BY <1>1
<1> HIDE DEF S
<1>3. /\ Append(s, x) \in Seq(S) /\ Len(Append(s, x)) = Len(s) + 1
      /\ \A i \in 1..Len(s) : Append(s, x)[i] = s[i]
      /\ Append(s, x)[Len(s) + 1] = x
  BY <1>2, AppendProperties
<1> QED
  BY <1>3, ListOf

LEMMA Popped ==
  ASSUME NEW s, IsList(s), s # <<>>
  PROVE  /\ Len(s) \in Nat \ {0} /\ Last(s) = s[Len(s)]
         /\ IsList(Front(s)) /\ Len(Front(s)) = Len(s) - 1
         /\ \A i \in 1..(Len(s) - 1) : Front(s)[i] = s[i]
<1>1. s \in Seq(Range(s)) /\ Len(s) \in Nat \ {0}
  BY DEF IsList
<1>2. Front(s) = SubSeq(s, 1, Len(s) - 1) /\ Last(s) = s[Len(s)]
  BY DEF Front, Last
<1> DEFINE S == Range(s)
<1> HIDE DEF S
<1>a. s \in Seq(S) /\ Len(s) \in Nat \ {0}
  BY <1>1 DEF S
<1>3. Front(s) \in Seq(S) /\ Len(Front(s)) = Len(s) - 1
      /\ \A i \in 1..(Len(s) - 1) : Front(s)[i] = s[i]
  <2> DEFINE n == Len(s) - 1
  <2>1. n \in Int /\ 1 \in Int /\ n >= 0 /\ \A i \in 1..n : s[i] \in S
    BY <1>a
  <2>2. Front(s) = SubSeq(s, 1, n)
    BY <1>2
  <2> HIDE DEF n
  <2>3. /\ SubSeq(s, 1, n) \in Seq(S) /\ Len(SubSeq(s, 1, n)) = IF 1 <= n THEN n - 1 + 1 ELSE 0
        /\ \A i \in 1..(n - 1 + 1) : SubSeq(s, 1, n)[i] = s[1 + i - 1]
    BY <2>1, SubSeqProperties
  <2>4. n - 1 + 1 = n /\ (~(1 <= n) => n = 0) /\ \A i \in 1..n : 1 + i - 1 = i
    BY <2>1
  <2>5. /\ Front(s) \in Seq(S) /\ Len(Front(s)) = n
        /\ \A i \in 1..n : Front(s)[i] = s[i]
    BY <2>2, <2>3, <2>4
  <2> QED
    BY <2>5 DEF n
<1> QED
  BY <1>1, <1>2, <1>3, ListOf

\* A part of a list is a list, and fresh names for a list are one.
LEMMA PickedIsList ==
  ASSUME NEW s, IsList(s), NEW I, I \subseteq DOMAIN s
  PROVE  IsList(Picked(s, I)) /\ Len(Picked(s, I)) = Cardinality(I) /\ IsFiniteSet(I)
<1>1. IsFiniteSet(1..Len(s))
  BY Lists, FS_Interval
<1>2. IsFiniteSet(I)
  BY <1>1, Lists, FS_Subset
<1>3. Cardinality(I) \in Nat
  BY <1>2, FS_CardinalityType
<1> DEFINE order == Ascending(I)
           picked == [i \in 1..Cardinality(I) |-> s[order[i]]]
<1>4. Picked(s, I) = picked
  BY DEF Picked
<1> HIDE DEF order
<1>5. picked \in Seq({s[order[i]] : i \in 1..Cardinality(I)}) /\ Len(picked) = Cardinality(I)
  BY <1>3
<1> HIDE DEF picked
<1> QED
  BY <1>2, <1>4, <1>5, ListOf

LEMMA PickedFrom ==
  ASSUME NEW s, IsList(s), NEW I, I \subseteq DOMAIN s, NEW i \in 1..Cardinality(I)
  PROVE  \E n \in I : Picked(s, I)[i] = s[n]
<1>1. Len(s) \in Nat /\ I \subseteq 1..Len(s)
  BY Lists
<1>a. I \subseteq Nat /\ IsFiniteSet(I)
  BY <1>1, PickedIsList
<1>2. Ascending(I)[i] \in I
  BY <1>a, AscendingPlaces
<1> DEFINE order == Ascending(I)
<1>3. Picked(s, I) = [j \in 1..Cardinality(I) |-> s[order[j]]]
  BY DEF Picked
<1> HIDE DEF order
<1>4. Picked(s, I)[i] = s[order[i]]
  BY <1>3
<1> QED
  BY <1>2, <1>4 DEF order

\* A function of the numbers up to n is a list, and so is one of the places of
\* a list.
LEMMA CountedIsList ==
  ASSUME NEW n \in Nat, NEW g, g = [i \in 1..n |-> g[i]]
  PROVE  IsList(g) /\ Len(g) = n
<1>1. g \in Seq({g[i] : i \in 1..n}) /\ Len(g) = n
  OBVIOUS
<1> QED
  BY <1>1, ListOf

Counts(g, k) == g = [i \in 1..k |-> g[i]]

LEMMA Counted ==
  ASSUME NEW X, NEW k, k \in Nat, NEW g, Counts(g, k), \A i \in 1..k : g[i] \in X
  PROVE  g \in Seq(X) /\ Len(g) = k /\ DOMAIN g = 1..k
<1>1. [i \in 1..k |-> g[i]] \in Seq(X) /\ Len([i \in 1..k |-> g[i]]) = k
  OBVIOUS
<1> QED
  BY <1>1 DEF Counts

LEMMA MappedIsList ==
  ASSUME NEW s, IsList(s), NEW g, g = [i \in DOMAIN s |-> g[i]]
  PROVE  IsList(g) /\ Len(g) = Len(s)
<1>1. Len(s) \in Nat /\ g = [i \in 1..Len(s) |-> g[i]]
  BY Lists
<1> QED
  BY <1>1, CountedIsList

\* The list of a set of numbers.
LEMMA AscendingList ==
  ASSUME NEW S, S \subseteq Nat, IsFiniteSet(S)
  PROVE  /\ Ascending(S) \in Seq(S) /\ Len(Ascending(S)) = Cardinality(S)
         /\ DOMAIN Ascending(S) = 1..Cardinality(S) /\ Range(Ascending(S)) = S
<1> DEFINE c == Cardinality(S)
<1>1. /\ c \in Nat
      /\ \A i \in 1..c : Ascending(S)[i] \in S
      /\ \A n \in S : \E i \in 1..c : Ascending(S)[i] = n
  BY AscendingPlaces
<1>2. Ascending(S) = [i \in 1..c |-> Ascending(S)[i]]
  <2> DEFINE nth(i) == CHOOSE n \in S : Cardinality({m \in S : m < n}) = i - 1
  <2>1. Ascending(S) = [i \in 1..c |-> nth(i)]
    BY DEF Ascending
  <2> HIDE DEF nth
  <2> QED
    BY <2>1
<1> DEFINE s == Ascending(S)
<1> HIDE DEF s, c
<1>3. /\ c \in Nat /\ s = [i \in 1..c |-> s[i]]
      /\ \A i \in 1..c : s[i] \in S
      /\ \A n \in S : \E i \in 1..c : s[i] = n
  BY <1>1, <1>2 DEF s
<1>4. s \in Seq(S) /\ Len(s) = c /\ DOMAIN s = 1..c
  BY <1>3
<1>5. Range(s) = S
  BY <1>3, <1>4 DEF Range
<1> QED
  BY <1>4, <1>5 DEF s, c

-----------------------------------------------------------------------------
\* Lists in a row.

LEMMA Joined ==
  ASSUME NEW X, NEW s \in Seq(X), NEW u \in Seq(X)
  PROVE  /\ s \o u \in Seq(X) /\ Len(s \o u) = Len(s) + Len(u)
         /\ Len(s) \in Nat /\ Len(u) \in Nat
         /\ \A i \in 1..Len(s) : (s \o u)[i] = s[i]
         /\ \A i \in 1..Len(u) : (s \o u)[Len(s) + i] = u[i]
         /\ Range(s \o u) = Range(s) \cup Range(u)
<1>1. /\ s \o u \in Seq(X) /\ Len(s \o u) = Len(s) + Len(u)
      /\ Len(s) \in Nat /\ Len(u) \in Nat
      /\ \A i \in 1..(Len(s) + Len(u)) : (s \o u)[i] = IF i <= Len(s) THEN s[i] ELSE u[i - Len(s)]
  BY ConcatProperties
<1>2. \A i \in 1..Len(s) : i \in 1..(Len(s) + Len(u)) /\ (s \o u)[i] = s[i]
  BY <1>1
<1>3. \A i \in 1..Len(u) : Len(s) + i \in 1..(Len(s) + Len(u)) /\ (s \o u)[Len(s) + i] = u[i]
  BY <1>1
<1>4. Range(s \o u) = Range(s) \cup Range(u)
  <2>1. DOMAIN s = 1..Len(s) /\ DOMAIN u = 1..Len(u) /\ DOMAIN (s \o u) = 1..(Len(s) + Len(u))
    BY <1>1
  <2>2. ASSUME NEW x \in Range(s \o u) PROVE x \in Range(s) \cup Range(u)
    <3>1. PICK i \in 1..(Len(s) + Len(u)) : (s \o u)[i] = x
      BY <2>1 DEF Range
    <3>2. CASE i <= Len(s)
      <4>1. i \in 1..Len(s) /\ s[i] = x
        BY <1>1, <3>1, <3>2
      <4> QED
        BY <2>1, <4>1 DEF Range
    <3>3. CASE ~(i <= Len(s))
      <4>1. i - Len(s) \in 1..Len(u) /\ u[i - Len(s)] = x
        BY <1>1, <3>1, <3>3
      <4> QED
        BY <2>1, <4>1 DEF Range
    <3> QED
      BY <3>2, <3>3
  <2>3. ASSUME NEW x \in Range(s) \cup Range(u) PROVE x \in Range(s \o u)
    <3>1. CASE x \in Range(s)
      <4>1. PICK i \in 1..Len(s) : s[i] = x
        BY <2>1, <3>1 DEF Range
      <4> QED
        BY <1>2, <2>1, <4>1 DEF Range
    <3>2. CASE x \in Range(u)
      <4>1. PICK i \in 1..Len(u) : u[i] = x
        BY <2>1, <3>2 DEF Range
      <4> QED
        BY <1>3, <2>1, <4>1 DEF Range
    <3> QED
      BY <2>3, <3>1, <3>2
  <2> QED
    BY <2>2, <2>3
<1> QED
  BY <1>1, <1>2, <1>3, <1>4

IsJoined(w, X, s, u) ==
  /\ w \in Seq(X) /\ Len(w) = Len(s) + Len(u)
  /\ Len(s) \in Nat /\ Len(u) \in Nat
  /\ \A i \in 1..Len(s) : w[i] = s[i]
  /\ \A i \in 1..Len(u) : w[Len(s) + i] = u[i]

LEMMA JoinedTwo ==
  ASSUME NEW X, NEW s, s \in Seq(X), NEW u, u \in Seq(X)
  PROVE  IsJoined(s \o u, X, s, u)
BY Joined DEF IsJoined

Flattening(seqs, f) ==
  f = [i \in 1..Len(seqs) |-> IF i = 1 THEN seqs[i] ELSE f[i - 1] \o seqs[i]]

\* The recursive function of FlattenSeq is there.
LEMMA FlattenUnfold ==
  ASSUME NEW seqs, Len(seqs) \in Nat \ {0}
  PROVE  \E f : Flattening(seqs, f) /\ FlattenSeq(seqs) = f[Len(seqs)]
<1> DEFINE N == Len(seqs)
           Rec(g, k) == [i \in 1..k |-> IF i = 1 THEN seqs[i] ELSE g[i - 1] \o seqs[i]]
           bad == {k \in Nat : \A g : g # Rec(g, k)}
<1>1. bad = {}
  <2> SUFFICES ASSUME bad # {} PROVE FALSE
    OBVIOUS
  <2>1. PICK k \in bad : \A m \in bad : k <= m
    BY LeastNat
  <2>2. CASE k = 0
    <3> DEFINE g == [i \in 1..0 |-> seqs]
    <3>1. g = Rec(g, 0)
      OBVIOUS
    <3> QED
      BY <2>1, <2>2, <3>1
  <2>3. CASE k # 0
    <3>1. k \in Nat /\ k > 0
      BY <2>3
    <3>2. k - 1 \in Nat /\ k - 1 \notin bad
      <4> HIDE DEF bad
      <4> QED
        BY <2>1, <3>1
    <3>3. PICK g : g = Rec(g, k - 1)
      BY <3>2
    <3> DEFINE h == [i \in 1..k |-> IF i = k THEN IF k = 1 THEN seqs[k] ELSE g[k - 1] \o seqs[k]
                                    ELSE g[i]]
    <3>4. ASSUME NEW i \in 1..k PROVE h[i] = IF i = 1 THEN seqs[i] ELSE h[i - 1] \o seqs[i]
      <4>1. CASE i = k
        BY <2>3, <3>2, <4>1
      <4>2. CASE i # k
        <5>1. i \in 1..(k - 1)
          BY <3>2, <4>2
        <5>2. g[i] = IF i = 1 THEN seqs[i] ELSE g[i - 1] \o seqs[i]
          BY <3>3, <5>1
        <5> QED
          BY <3>2, <5>1, <5>2
      <4> QED
        BY <4>1, <4>2
    <3>5. h = Rec(h, k)
      BY <3>4
    <3> QED
      BY <2>1, <3>5
  <2> QED
    BY <2>2, <2>3
<1>2. \E f : f = Rec(f, N)
  <2>1. N \in Nat /\ N \notin bad
    BY <1>1
  <2> QED
    BY <2>1
<1> DEFINE flatten[i \in 1..N] == IF i = 1 THEN seqs[i] ELSE flatten[i - 1] \o seqs[i]
<1>3. flatten = CHOOSE f : f = Rec(f, N)
  OBVIOUS
<1>4. flatten = Rec(flatten, N)
  <2> HIDE DEF flatten, Rec
  <2> QED
    BY <1>2, <1>3
<1>5. FlattenSeq(seqs) = flatten[N]
  BY DEF FlattenSeq
<1> HIDE DEF flatten
<1> QED
  BY <1>4, <1>5 DEF Flattening

\* Every part of it begins the next ones.
Beginnings(X, seqs, f) ==
  \A i \in 1..Len(seqs) :
    /\ f[i] \in Seq(X)
    /\ \A j \in 1..i : /\ Range(seqs[j]) \subseteq Range(f[i])
                       /\ Len(f[j]) \in Nat /\ Len(f[j]) <= Len(f[i])
                       /\ \A k \in 1..Len(f[j]) : f[i][k] = f[j][k]

LEMMA FlattenParts ==
  ASSUME NEW X, NEW seqs \in Seq(Seq(X)), NEW f, Len(seqs) # 0, Flattening(seqs, f)
  PROVE  Beginnings(X, seqs, f)
<1> DEFINE N == Len(seqs)
           Begins(j, i) == /\ Range(seqs[j]) \subseteq Range(f[i])
                           /\ Len(f[j]) \in Nat /\ Len(f[j]) <= Len(f[i])
                           /\ \A k \in 1..Len(f[j]) : f[i][k] = f[j][k]
           Good(i) == f[i] \in Seq(X) /\ \A j \in 1..i : Begins(j, i)
           bad == {i \in 1..N : ~Good(i)}
<1>1. N \in Nat \ {0} /\ \A i \in 1..N : seqs[i] \in Seq(X)
  OBVIOUS
<1>2. f[1] = seqs[1] /\ \A i \in 1..N : i # 1 => f[i] = f[i - 1] \o seqs[i]
  <2> DEFINE value(i) == IF i = 1 THEN seqs[i] ELSE f[i - 1] \o seqs[i]
  <2>1. f = [i \in 1..N |-> value(i)]
    BY DEF Flattening
  <2>2. \A i \in 1..N : f[i] = value(i)
    <3> HIDE DEF value
    <3> QED
      BY <2>1
  <2>3. 1 \in 1..N
    BY <1>1
  <2>4. f[1] = value(1)
    BY <2>2, <2>3
  <2> QED
    BY <2>2, <2>4
<1> HIDE DEF N
<1>3. Good(1)
  <2>1. f[1] \in Seq(X) /\ Len(f[1]) \in Nat
    BY <1>1, <1>2
  <2> QED
    BY <1>2, <2>1
<1>4. ASSUME NEW i \in 1..N, i # 1, Good(i - 1) PROVE Good(i)
  <2>0. i # 1
    BY <1>4
  <2>a. i - 1 \in 1..N /\ f[i] = f[i - 1] \o seqs[i] /\ seqs[i] \in Seq(X)
    <3>1. i - 1 \in 1..N
      BY <1>1, <2>0
    <3>2. f[i] = f[i - 1] \o seqs[i]
      BY <1>2, <2>0, Zenon
    <3>3. seqs[i] \in Seq(X)
      BY <1>1
    <3> QED
      BY <3>1, <3>2, <3>3
  <2>1. f[i - 1] \in Seq(X)
    BY <1>4
  <2> DEFINE g == f[i - 1]
             q == seqs[i]
  <2> HIDE DEF g, q
  <2>b. g \in Seq(X) /\ q \in Seq(X) /\ f[i] = g \o q
    BY <2>a, <2>1 DEF g, q
  <2>2. /\ f[i] \in Seq(X) /\ Len(f[i]) = Len(g) + Len(q)
        /\ Len(g) \in Nat /\ Len(q) \in Nat
        /\ \A k \in 1..Len(g) : f[i][k] = g[k]
        /\ Range(f[i]) = Range(g) \cup Range(q)
    BY <2>b, Joined
  <2>3. ASSUME NEW j \in 1..i PROVE Begins(j, i)
    <3>1. CASE j = i
      <4>1. Range(seqs[i]) \subseteq Range(f[i])
        BY <2>2 DEF q
      <4>2. Len(f[i]) \in Nat
        BY <2>2
      <4> QED
        BY <3>1, <4>1, <4>2
    <3>2. CASE j # i
      <4>1. j \in 1..(i - 1)
        BY <1>1, <3>2
      <4>2. Begins(j, i - 1)
        BY <1>4, <4>1
      <4>3. /\ Range(seqs[j]) \subseteq Range(g) /\ Len(f[j]) \in Nat /\ Len(f[j]) <= Len(g)
            /\ \A k \in 1..Len(f[j]) : g[k] = f[j][k]
        BY <4>2 DEF g
      <4>4. \A k \in 1..Len(f[j]) : k \in 1..Len(g)
        BY <2>2, <4>3
      <4> QED
        BY <2>2, <4>3, <4>4
    <3> QED
      BY <3>1, <3>2
  <2> QED
    BY <2>2, <2>3
<1>5. bad = {}
  <2> SUFFICES ASSUME bad # {} PROVE FALSE
    OBVIOUS
  <2> HIDE DEF Good
  <2>1. bad \subseteq Nat
    OBVIOUS
  <2>2. PICK k \in bad : \A m \in bad : k <= m
    <3> HIDE DEF bad
    <3> QED
      BY <2>1, LeastNat
  <2>3. k # 1
    BY <1>3
  <2>4. k - 1 \in 1..N /\ k - 1 \notin bad
    <3>1. k \in 1..N
      OBVIOUS
    <3> HIDE DEF bad
    <3> QED
      BY <1>1, <2>2, <2>3, <3>1
  <2>5. Good(k - 1)
    BY <2>4
  <2> QED
    BY <1>4, <2>3, <2>5
<1> QED
  BY <1>5 DEF N, Beginnings

\* The lists in a row have the elements of each, those of the first two before
\* any others.
LEMMA Flattened ==
  ASSUME NEW X, NEW seqs \in Seq(Seq(X))
  PROVE  /\ FlattenSeq(seqs) \in Seq(X)
         /\ \A i \in 1..Len(seqs) : Range(seqs[i]) \subseteq Range(FlattenSeq(seqs))
         /\ Len(seqs) >= 2 =>
              /\ Len(FlattenSeq(seqs)) >= Len(seqs[1]) + Len(seqs[2])
              /\ \A k \in 1..(Len(seqs[1]) + Len(seqs[2])) :
                   FlattenSeq(seqs)[k] = (seqs[1] \o seqs[2])[k]
<1>1. CASE Len(seqs) = 0
  <2>1. FlattenSeq(seqs) = seqs /\ seqs = <<>>
    BY <1>1 DEF FlattenSeq
  <2> QED
    BY <1>1, <2>1
<1>2. CASE Len(seqs) # 0
  <2>1. Len(seqs) \in Nat \ {0}
    BY <1>2
  <2>2. PICK f : Flattening(seqs, f) /\ FlattenSeq(seqs) = f[Len(seqs)]
    BY <2>1, FlattenUnfold
  <2>3. \A i \in 1..Len(seqs) :
           /\ f[i] \in Seq(X)
           /\ \A j \in 1..i : /\ Range(seqs[j]) \subseteq Range(f[i])
                              /\ Len(f[j]) \in Nat /\ Len(f[j]) <= Len(f[i])
                              /\ \A k \in 1..Len(f[j]) : f[i][k] = f[j][k]
    <3>1. Len(seqs) # 0
      BY <1>2
    <3>2. Beginnings(X, seqs, f)
      BY <2>2, <3>1, FlattenParts
    <3> QED
      BY <3>2 DEF Beginnings
  <2>4. Len(seqs) \in 1..Len(seqs)
    BY <2>1
  <2>5. ASSUME Len(seqs) >= 2
        PROVE  /\ Len(FlattenSeq(seqs)) >= Len(seqs[1]) + Len(seqs[2])
               /\ \A k \in 1..(Len(seqs[1]) + Len(seqs[2])) :
                    FlattenSeq(seqs)[k] = (seqs[1] \o seqs[2])[k]
    <3>1. 1 \in 1..Len(seqs) /\ 2 \in 1..Len(seqs) /\ 2 - 1 = 1
      BY <2>1, <2>5
    <3> DEFINE value(i) == IF i = 1 THEN seqs[i] ELSE f[i - 1] \o seqs[i]
    <3>2. f = [i \in 1..Len(seqs) |-> value(i)]
      BY <2>2 DEF Flattening
    <3>3. \A i \in 1..Len(seqs) : f[i] = value(i)
      <4> HIDE DEF value
      <4> QED
        BY <3>2
    <3>a. f[1] = value(1) /\ f[2] = value(2)
      <4> HIDE DEF value
      <4> QED
        BY <3>1, <3>3
    <3>4. f[2] = seqs[1] \o seqs[2]
      <4>1. f[2] = f[1] \o seqs[2] /\ f[1] = seqs[1]
        <5>1. value(1) = seqs[1]
          OBVIOUS
        <5>2. value(2) = f[2 - 1] \o seqs[2]
          OBVIOUS
        <5> HIDE DEF value
        <5> QED
          BY <3>a, <3>1, <5>1, <5>2
      <4> QED
        BY <4>1
    <3>5. Len(f[2]) = Len(seqs[1]) + Len(seqs[2])
      <4>1. seqs[1] \in Seq(X) /\ seqs[2] \in Seq(X)
        BY <3>1
      <4> QED
        BY <3>4, <4>1, Joined
    <3>6. /\ Len(f[2]) <= Len(f[Len(seqs)])
          /\ \A k \in 1..Len(f[2]) : f[Len(seqs)][k] = f[2][k]
      BY <2>3, <2>4, <3>1
    <3> QED
      BY <2>2, <3>4, <3>5, <3>6
  <2> QED
    BY <2>2, <2>3, <2>4, <2>5
<1> QED
  BY <1>1, <1>2

\* Each beginning of the row is the one before it and the next list.
Grows(f, seqs) == f[1] = seqs[1] /\ \A i \in 2..Len(seqs) : f[i] = f[i - 1] \o seqs[i]

LEMMA FlattenSteps ==
  ASSUME NEW seqs, Len(seqs) \in Nat \ {0}, NEW f, Flattening(seqs, f)
  PROVE  Grows(f, seqs)
<1> DEFINE N == Len(seqs)
           value(i) == IF i = 1 THEN seqs[i] ELSE f[i - 1] \o seqs[i]
<1>1. f = [i \in 1..N |-> value(i)]
  BY DEF Flattening
<1>2. \A i \in 1..N : f[i] = value(i)
  <2> HIDE DEF value
  <2> QED
    BY <1>1
<1>3. N \in Nat /\ N >= 1
  OBVIOUS
<1> HIDE DEF N
<1>4. f[1] = seqs[1]
  <2>1. f[1] = value(1)
    <3> HIDE DEF value
    <3> QED
      BY <1>2, <1>3
  <2> QED
    BY <2>1
<1>5. ASSUME NEW i \in 2..N PROVE f[i] = f[i - 1] \o seqs[i]
  <2>1. i \in 1..N /\ i # 1
    BY <1>3
  <2>2. f[i] = value(i)
    <3> HIDE DEF value
    <3> QED
      BY <1>2, <2>1
  <2> QED
    BY <2>1, <2>2
<1> QED
  BY <1>4, <1>5 DEF N, Grows

\* A list is that of its elements one by one.
LEMMA FlattenedSingles ==
  ASSUME NEW X, NEW ns, ns \in Seq(X), NEW seqs, seqs = [i \in DOMAIN ns |-> <<ns[i]>>]
  PROVE  FlattenSeq(seqs) = ns
<1> DEFINE N == Len(ns)
<1>1. N \in Nat /\ DOMAIN ns = 1..N /\ IsList(ns) /\ \A i \in 1..N : ns[i] \in X
  BY ListOf
<1>2. IsList(seqs) /\ Len(seqs) = N /\ \A i \in 1..N : seqs[i] = <<ns[i]>>
  BY <1>1, MappedIsList
<1>3. CASE N = 0
  <2>1. seqs = <<>> /\ ns = <<>>
    BY <1>1, <1>2, <1>3 DEF IsList
  <2> QED
    BY <2>1 DEF FlattenSeq
<1>4. CASE N # 0
  <2>1. PICK f : Flattening(seqs, f) /\ FlattenSeq(seqs) = f[N]
    BY <1>1, <1>2, <1>4, FlattenUnfold
  <2>b. Len(seqs) \in Nat \ {0} /\ Len(seqs) = N
    BY <1>1, <1>2, <1>4
  <2>c. Grows(f, seqs)
    BY <2>1, <2>b, FlattenSteps, Zenon
  <2>2. f[1] = seqs[1] /\ \A i \in 2..N : f[i] = f[i - 1] \o seqs[i]
    BY <2>b, <2>c DEF Grows
  <2> DEFINE Good(i) == f[i] \in Seq(X) /\ Len(f[i]) = i /\ \A k \in 1..i : f[i][k] = ns[k]
             bad == {i \in 1..N : ~Good(i)}
  <2> HIDE DEF N
  <2>a. 1 \in 1..N
    BY <1>1, <1>4
  <2>3. Good(1)
    <3>1. f[1] = <<ns[1]>> /\ ns[1] \in X
      BY <1>1, <1>2, <2>2, <2>a
    <3> QED
      BY <3>1
  <2>4. ASSUME NEW i \in 2..N, Good(i - 1) PROVE Good(i)
    <3>1. i \in 1..N /\ i - 1 \in Nat
      BY <1>1
    <3>2. f[i] = f[i - 1] \o <<ns[i]>> /\ ns[i] \in X
      BY <1>1, <1>2, <2>2, <3>1
    <3> DEFINE g == f[i - 1]
               x == ns[i]
    <3> HIDE DEF g, x
    <3>3. g \in Seq(X) /\ Len(g) = i - 1 /\ (\A k \in 1..(i - 1) : g[k] = ns[k]) /\ x \in X
      BY <2>4, <3>2 DEF g, x
    <3>4. f[i] = g \o <<x>>
      BY <3>2 DEF g, x
    <3>5. f[i] \in Seq(X) /\ Len(f[i]) = i /\ f[i][i] = x /\ \A k \in 1..(i - 1) : f[i][k] = g[k]
      BY <3>1, <3>3, <3>4
    <3> QED
      BY <3>1, <3>3, <3>5 DEF x
  <2>5. bad = {}
    <3> SUFFICES ASSUME bad # {} PROVE FALSE
      OBVIOUS
    <3> HIDE DEF Good
    <3>1. bad \subseteq Nat
      OBVIOUS
    <3>2. PICK k \in bad : \A m \in bad : k <= m
      <4> HIDE DEF bad
      <4> QED
        BY <3>1, LeastNat
    <3>3. k # 1 /\ k \in 1..N
      BY <2>3
    <3>4. k - 1 \in 1..N /\ k - 1 \notin bad /\ k \in 2..N
      <4> HIDE DEF bad
      <4> QED
        BY <1>1, <3>2, <3>3
    <3>5. Good(k - 1)
      BY <3>4
    <3> QED
      BY <2>4, <3>4, <3>5
  <2>6. Good(N) /\ N \in 1..N
    BY <1>1, <1>4, <2>5
  <2> DEFINE F == FlattenSeq(seqs)
  <2>7. F \in Seq(X) /\ Len(F) = N /\ \A k \in 1..N : F[k] = ns[k]
    BY <2>1, <2>6
  <2> HIDE DEF F, Good
  <2>8. IsList(F)
    BY <2>7, ListOf
  <2>9. F = ns
    BY <1>1, <2>7, <2>8 DEF IsList, N
  <2> QED
    BY <2>9 DEF F
<1> QED
  BY <1>3, <1>4

\* Elements of the lists that a function h tells apart are told apart in the row.
IsRowApart(F, seqs, h) ==
  /\ \A k \in 1..Len(F) : \E i \in 1..Len(seqs) : \E l \in 1..Len(seqs[i]) : F[k] = seqs[i][l]
  /\ \A k, l \in 1..Len(F) : h[F[k]] = h[F[l]] => k = l

LEMMA FlattenedApart ==
  ASSUME NEW X, NEW seqs \in Seq(Seq(X)), NEW h,
         \A i, j \in 1..Len(seqs) : \A k \in 1..Len(seqs[i]), l \in 1..Len(seqs[j]) :
           h[seqs[i][k]] = h[seqs[j][l]] => i = j /\ k = l
  PROVE  IsRowApart(FlattenSeq(seqs), seqs, h)
<1> DEFINE N == Len(seqs)
           F == FlattenSeq(seqs)
           Comes(g, i) == \A k \in 1..Len(g) : \E j \in 1..i : \E l \in 1..Len(seqs[j]) : g[k] = seqs[j][l]
           Apart(g) == \A k, l \in 1..Len(g) : h[g[k]] = h[g[l]] => k = l
           Good(g, i) == g \in Seq(X) /\ Comes(g, i) /\ Apart(g)
<1>1. N \in Nat /\ \A i \in 1..N : seqs[i] \in Seq(X)
  OBVIOUS
<1>2. CASE N = 0
  <2>1. F = <<>>
    BY <1>2 DEF FlattenSeq
  <2> QED
    BY <2>1 DEF IsRowApart
<1>3. CASE N # 0
  <2>1. PICK f : Flattening(seqs, f) /\ F = f[N]
    BY <1>1, <1>3, FlattenUnfold
  <2>b. Len(seqs) \in Nat \ {0}
    BY <1>1, <1>3
  <2>c. Flattening(seqs, f)
    BY <2>1
  <2>d. Grows(f, seqs)
    <3> HIDE DEF N, F, Comes, Apart, Good
    <3> QED
      BY <2>b, <2>c, FlattenSteps, Zenon
  <2>2. f[1] = seqs[1] /\ \A i \in 2..N : f[i] = f[i - 1] \o seqs[i]
    BY <2>d DEF Grows
  <2> DEFINE bad == {i \in 1..N : ~Good(f[i], i)}
  <2>a. \A i, j \in 1..N : \A k \in 1..Len(seqs[i]), l \in 1..Len(seqs[j]) :
           h[seqs[i][k]] = h[seqs[j][l]] => i = j /\ k = l
    OBVIOUS
  <2> HIDE DEF N
  <2>3. Good(f[1], 1)
    <3>1. 1 \in 1..N
      BY <1>1, <1>3
    <3> QED
      BY <1>1, <2>2, <2>a, <3>1
  <2>4. ASSUME NEW i \in 2..N, Good(f[i - 1], i - 1) PROVE Good(f[i], i)
    <3>1. i \in 1..N /\ i - 1 \in 1..N /\ i \notin 1..(i - 1) /\ 1..(i - 1) \subseteq 1..N /\ 1..(i - 1) \subseteq 1..i
      BY <1>1
    <3> DEFINE g == f[i - 1]
               q == seqs[i]
               s == f[i]
    <3>2. g \in Seq(X) /\ q \in Seq(X) /\ s = g \o q
      BY <1>1, <2>2, <2>4, <3>1
    <3>3. Comes(g, i - 1) /\ Apart(g)
      BY <2>4
    <3> HIDE DEF g, q, s
    <3>4. /\ s \in Seq(X) /\ Len(s) = Len(g) + Len(q)
          /\ Len(g) \in Nat /\ Len(q) \in Nat
          /\ \A k \in 1..Len(g) : s[k] = g[k]
          /\ \A k \in 1..Len(q) : s[Len(g) + k] = q[k]
      BY <3>2, Joined
    <3>5. ASSUME NEW k \in 1..Len(s)
          PROVE  \/ k \in 1..Len(g) /\ s[k] = g[k]
                 \/ k - Len(g) \in 1..Len(q) /\ s[k] = q[k - Len(g)] /\ k \notin 1..Len(g)
      <4>1. CASE k \in 1..Len(g)
        BY <3>4, <4>1
      <4>2. CASE k \notin 1..Len(g)
        <5>1. k - Len(g) \in 1..Len(q) /\ Len(g) + (k - Len(g)) = k
          BY <3>4, <4>2
        <5> QED
          BY <3>4, <4>2, <5>1
      <4> QED
        BY <4>1, <4>2
    <3>6. Comes(s, i)
      <4> TAKE k \in 1..Len(s)
      <4>1. CASE k \in 1..Len(g) /\ s[k] = g[k]
        BY <3>1, <3>3, <4>1
      <4>2. CASE k - Len(g) \in 1..Len(q) /\ s[k] = q[k - Len(g)]
        <5>1. i \in 1..i
          BY <3>1
        <5> QED
          BY <4>2, <5>1 DEF q
      <4> QED
        BY <3>5, <4>1, <4>2
    <3>7. ASSUME NEW k \in 1..Len(g), NEW l \in 1..Len(q) PROVE h[g[k]] # h[q[l]]
      <4>1. PICK j \in 1..(i - 1) : \E m \in 1..Len(seqs[j]) : g[k] = seqs[j][m]
        BY <3>3
      <4>2. j \in 1..N /\ j # i
        BY <3>1
      <4> QED
        BY <2>a, <3>1, <4>1, <4>2 DEF q
    <3>8. \A k, l \in 1..Len(q) : h[q[k]] = h[q[l]] => k = l
      BY <2>a, <3>1 DEF q
    <3>9. Apart(s)
      <4> SUFFICES ASSUME NEW k \in 1..Len(s), NEW l \in 1..Len(s), h[s[k]] = h[s[l]] PROVE k = l
        OBVIOUS
      <4>0. h[s[k]] = h[s[l]]
        OBVIOUS
      <4>1. CASE k \in 1..Len(g) /\ l \in 1..Len(g)
        BY <3>3, <3>4, <4>1
      <4>2. CASE k \notin 1..Len(g) /\ l \notin 1..Len(g)
        <5>a. /\ k - Len(g) \in 1..Len(q) /\ s[k] = q[k - Len(g)]
              /\ l - Len(g) \in 1..Len(q) /\ s[l] = q[l - Len(g)]
          BY <3>5, <4>2
        <5> DEFINE a == k - Len(g)
                   b == l - Len(g)
        <5> HIDE DEF a, b
        <5>b. a \in 1..Len(q) /\ b \in 1..Len(q) /\ h[q[a]] = h[q[b]]
          BY <4>0, <5>a DEF a, b
        <5>1. a = b
          BY <3>8, <5>b
        <5> QED
          BY <3>4, <5>1 DEF a, b
      <4>3. CASE k \in 1..Len(g) /\ l \notin 1..Len(g)
        <5>1. s[k] = g[k] /\ l - Len(g) \in 1..Len(q) /\ s[l] = q[l - Len(g)]
          BY <3>5, <4>3
        <5>2. h[g[k]] # h[q[l - Len(g)]]
          BY <3>7, <4>3, <5>1
        <5> QED
          BY <4>0, <5>1, <5>2
      <4>4. CASE k \notin 1..Len(g) /\ l \in 1..Len(g)
        <5>1. s[l] = g[l] /\ k - Len(g) \in 1..Len(q) /\ s[k] = q[k - Len(g)]
          BY <3>5, <4>4
        <5>2. h[g[l]] # h[q[k - Len(g)]]
          BY <3>7, <4>4, <5>1
        <5> QED
          BY <4>0, <5>1, <5>2
      <4> QED
        BY <4>1, <4>2, <4>3, <4>4
    <3> QED
      BY <3>4, <3>6, <3>9 DEF s
  <2>5. bad = {}
    <3> SUFFICES ASSUME bad # {} PROVE FALSE
      OBVIOUS
    <3> HIDE DEF Good
    <3>1. bad \subseteq Nat
      OBVIOUS
    <3>2. PICK k \in bad : \A m \in bad : k <= m
      <4> HIDE DEF bad
      <4> QED
        BY <3>1, LeastNat
    <3>3. k # 1 /\ k \in 1..N
      BY <2>3
    <3>4. k - 1 \in 1..N /\ k - 1 \notin bad /\ k \in 2..N
      <4> HIDE DEF bad
      <4> QED
        BY <1>1, <3>2, <3>3
    <3>5. Good(f[k - 1], k - 1)
      BY <3>4
    <3> QED
      BY <2>4, <3>4, <3>5
  <2>6. Good(F, N)
    <3>1. N \in 1..N
      BY <1>1, <1>3
    <3> HIDE DEF Good, F
    <3>2. Good(f[N], N)
      BY <2>5, <3>1
    <3> QED
      BY <2>1, <3>2
  <2> QED
    BY <2>6 DEF N, IsRowApart
<1> QED
  BY <1>2, <1>3

\* The first of them is the first of the first list.
LEMMA FlattenedFirst ==
  ASSUME NEW X, NEW seqs \in Seq(Seq(X)), Len(seqs) >= 1, Len(seqs[1]) >= 1
  PROVE  FlattenSeq(seqs)[1] = seqs[1][1]
<1>1. Len(seqs) \in Nat \ {0} /\ seqs[1] \in Seq(X)
  OBVIOUS
<1>2. PICK f : Flattening(seqs, f) /\ FlattenSeq(seqs) = f[Len(seqs)]
  BY <1>1, FlattenUnfold
<1>3. f[1] = seqs[1]
  BY <1>1, <1>2, FlattenSteps DEF Grows
<1>4. Beginnings(X, seqs, f)
  BY <1>1, <1>2, FlattenParts
<1>5. 1 \in 1..Len(seqs) /\ Len(seqs) \in 1..Len(seqs) /\ 1 \in 1..Len(seqs[1])
  BY <1>1
<1>6. \A k \in 1..Len(f[1]) : f[Len(seqs)][k] = f[1][k]
  BY <1>4, <1>5 DEF Beginnings
<1> QED
  BY <1>2, <1>3, <1>5, <1>6

-----------------------------------------------------------------------------
\* What is reached.

\* One round.
Further(steps, before) == before \cup {s[2] : s \in {q \in steps : q[1] \in before}}

Rounds(steps, E, f, k) ==
  f = [i \in 0..k |-> IF i = 0 THEN E ELSE Further(steps, f[i - 1])]

\* The recursive function of Reached is there, and obeys its equation.
LEMMA Unfold ==
  ASSUME NEW steps, NEW E, Cardinality(steps) \in Nat
  PROVE  \E f : /\ Rounds(steps, E, f, Cardinality(steps))
                /\ Reached(steps, E) = f[Cardinality(steps)]
<1> DEFINE N == Cardinality(steps)
           Rec(g, k) == [i \in 0..k |-> IF i = 0 THEN E ELSE Further(steps, g[i - 1])]
           bad == {k \in Nat : \A g : g # Rec(g, k)}
<1>1. bad = {}
  <2> SUFFICES ASSUME bad # {} PROVE FALSE
    OBVIOUS
  <2>1. PICK k \in bad : \A m \in bad : k <= m
    BY LeastNat
  <2>2. CASE k = 0
    <3> DEFINE g == [i \in 0..0 |-> E]
    <3>1. g = Rec(g, 0)
      OBVIOUS
    <3> QED
      BY <2>1, <2>2, <3>1
  <2>3. CASE k # 0
    <3>1. k \in Nat /\ k > 0
      BY <2>3
    <3>2. k - 1 \in Nat /\ k - 1 \notin bad
      <4> HIDE DEF bad
      <4> QED
        BY <2>1, <3>1
    <3>3. PICK g : g = Rec(g, k - 1)
      BY <3>2
    <3> DEFINE h == [i \in 0..k |-> IF i = k THEN Further(steps, g[k - 1]) ELSE g[i]]
    <3>4. ASSUME NEW i \in 0..k PROVE h[i] = IF i = 0 THEN E ELSE Further(steps, h[i - 1])
      <4>1. CASE i = k
        BY <2>3, <3>2, <4>1
      <4>2. CASE i # k
        <5>1. i \in 0..(k - 1)
          BY <3>2, <4>2
        <5>2. g[i] = IF i = 0 THEN E ELSE Further(steps, g[i - 1])
          BY <3>3, <5>1
        <5> QED
          BY <3>2, <5>1, <5>2
      <4> QED
        BY <4>1, <4>2
    <3>5. h = Rec(h, k)
      BY <3>4
    <3> QED
      BY <2>1, <3>5
  <2> QED
    BY <2>2, <2>3
<1>2. \E f : f = Rec(f, N)
  BY <1>1
<1> DEFINE more[i \in 0..N] ==
             IF i = 0 THEN E
             ELSE LET before == more[i - 1]
                  IN before \cup {s[2] : s \in {q \in steps : q[1] \in before}}
<1>3. more = CHOOSE f : f = Rec(f, N)
  BY DEF Further
<1>4. more = Rec(more, N)
  <2> HIDE DEF more, Rec
  <2> QED
    BY <1>2, <1>3
<1>5. Reached(steps, E) = more[N]
  BY DEF Reached
<1> HIDE DEF more
<1> QED
  BY <1>4, <1>5 DEF Rounds

LEMMA RoundsUnfold ==
  ASSUME NEW steps, NEW E, NEW f, NEW k \in Nat, Rounds(steps, E, f, k)
  PROVE  /\ f[0] = E
         /\ \A i \in 0..k : i # 0 => f[i] = Further(steps, f[i - 1])
<1>1. 0 \in 0..k
  OBVIOUS
<1> DEFINE value(i) == IF i = 0 THEN E ELSE Further(steps, f[i - 1])
<1>2. f = [i \in 0..k |-> value(i)]
  BY DEF Rounds
<1>3. \A i \in 0..k : f[i] = value(i)
  <2> HIDE DEF value
  <2> QED
    BY <1>2
<1> QED
  BY <1>1, <1>3

IsClosed(steps, C) == \A s \in steps : s[1] \in C => s[2] \in C

\* Nothing is reached that a closed set around the beginning leaves out.
LEMMA ReachedWithin ==
  ASSUME NEW steps, NEW E, NEW C, IsFiniteSet(steps), E \subseteq C, IsClosed(steps, C)
  PROVE  Reached(steps, E) \subseteq C
<1> DEFINE N == Cardinality(steps)
<1>1. N \in Nat
  BY FS_CardinalityType
<1>2. PICK f : Rounds(steps, E, f, N) /\ Reached(steps, E) = f[N]
  BY <1>1, Unfold
<1> DEFINE bad == {i \in 0..N : ~(f[i] \subseteq C)}
<1>3. bad = {}
  <2> SUFFICES ASSUME bad # {} PROVE FALSE
    OBVIOUS
  <2>1. bad \subseteq Nat
    OBVIOUS
  <2>2. PICK k \in bad : \A m \in bad : k <= m
    BY <2>1, LeastNat
  <2>3. k # 0
    BY <1>1, <1>2, RoundsUnfold
  <2>4. k - 1 \in 0..N /\ k - 1 \notin bad
    <3>1. k \in 0..N
      OBVIOUS
    <3> HIDE DEF bad
    <3> QED
      BY <1>1, <2>2, <2>3, <3>1
  <2>5. f[k - 1] \subseteq C
    BY <2>4
  <2>6. f[k] = Further(steps, f[k - 1])
    BY <1>1, <1>2, <2>3, RoundsUnfold
  <2> QED
    BY <2>5, <2>6 DEF Further, IsClosed
<1>4. N \in 0..N
  BY <1>1
<1> QED
  BY <1>2, <1>3, <1>4

\* What is reached contains the beginning and is closed: every round that adds
\* anything has a new step behind it.
LEMMA ReachedClosed ==
  ASSUME NEW steps, NEW E, IsFiniteSet(steps)
  PROVE  E \subseteq Reached(steps, E) /\ IsClosed(steps, Reached(steps, E))
<1> DEFINE N == Cardinality(steps)
<1>1. N \in Nat
  BY FS_CardinalityType
<1>2. PICK f : Rounds(steps, E, f, N) /\ Reached(steps, E) = f[N]
  BY <1>1, Unfold
<1> DEFINE Made(i) == {s \in steps : s[2] \in f[i]}
           Good(i) == E \subseteq f[i] /\ (IsClosed(steps, f[i]) \/ Cardinality(Made(i)) >= i)
           bad == {i \in 0..N : ~Good(i)}
<1>3. ASSUME NEW i \in 0..N PROVE IsFiniteSet(Made(i)) /\ Cardinality(Made(i)) \in Nat
  <2>1. Made(i) \in SUBSET steps
    OBVIOUS
  <2> HIDE DEF Made
  <2> QED
    BY <2>1, FS_Subset, FS_CardinalityType
<1>4. Good(0)
  <2>1. 0 \in 0..N
    BY <1>1
  <2>2. Cardinality(Made(0)) >= 0
    BY <1>3, <2>1
  <2>3. f[0] = E
    BY <1>1, <1>2, RoundsUnfold
  <2> QED
    BY <2>2, <2>3
<1>5. ASSUME NEW k \in 0..N, k # 0, Good(k - 1) PROVE Good(k)
  <2>1. k - 1 \in 0..N
    BY <1>1, <1>5
  <2>2. f[k] = Further(steps, f[k - 1])
    BY <1>1, <1>2, <1>5, RoundsUnfold
  <2>3. E \subseteq f[k]
    BY <1>5, <2>2 DEF Further
  <2>4. CASE IsClosed(steps, f[k - 1])
    <3>1. f[k] = f[k - 1]
      BY <2>2, <2>4 DEF Further, IsClosed
    <3> QED
      BY <2>3, <2>4, <3>1
  <2>5. CASE ~IsClosed(steps, f[k - 1])
    <3>1. PICK s \in steps : s[1] \in f[k - 1] /\ s[2] \notin f[k - 1]
      BY <2>5 DEF IsClosed
    <3>2. s \in Made(k) /\ s \notin Made(k - 1) /\ Made(k - 1) \subseteq Made(k)
      BY <2>2, <3>1 DEF Further
    <3>3. Cardinality(Made(k - 1)) >= k - 1
      BY <1>5, <2>5
    <3> HIDE DEF Made
    <3>4. Made(k - 1) \cup {s} \in SUBSET Made(k)
      BY <3>2
    <3>5. Cardinality(Made(k - 1) \cup {s}) = Cardinality(Made(k - 1)) + 1
      BY <1>3, <2>1, <3>2, FS_AddElement
    <3>6. Cardinality(Made(k - 1) \cup {s}) <= Cardinality(Made(k))
      BY <1>3, <3>4, FS_Subset
    <3>7. Cardinality(Made(k)) >= k
      BY <1>1, <1>3, <2>1, <3>3, <3>5, <3>6
    <3> QED
      BY <2>3, <3>7
  <2> QED
    BY <2>4, <2>5
<1>6. bad = {}
  <2> SUFFICES ASSUME bad # {} PROVE FALSE
    OBVIOUS
  <2> HIDE DEF Good
  <2>1. bad \subseteq Nat
    OBVIOUS
  <2>2. PICK k \in bad : \A m \in bad : k <= m
    BY <2>1, LeastNat
  <2>3. k # 0
    BY <1>4
  <2>4. k - 1 \in 0..N /\ k - 1 \notin bad
    <3>1. k \in 0..N
      OBVIOUS
    <3> HIDE DEF bad
    <3> QED
      BY <1>1, <2>2, <2>3, <3>1
  <2>5. Good(k - 1)
    BY <2>4
  <2> QED
    BY <1>5, <2>3, <2>5
<1>7. Good(N)
  <2> HIDE DEF Good
  <2> QED
    BY <1>1, <1>6
<1>8. IsClosed(steps, f[N])
  <2>1. CASE Cardinality(Made(N)) >= N
    <3>1. N \in 0..N
      BY <1>1
    <3>2. Made(N) \in SUBSET steps
      OBVIOUS
    <3>3. Made(N) = steps
      <4> HIDE DEF Made
      <4>1. Cardinality(Made(N)) <= N /\ Cardinality(Made(N)) \in Nat
        BY <1>3, <3>1, <3>2, FS_Subset
      <4>2. Cardinality(Made(N)) = N
        BY <1>1, <2>1, <4>1
      <4> QED
        BY <3>2, <4>2, FS_Subset
    <3> QED
      BY <3>3 DEF IsClosed
  <2> QED
    BY <1>7, <2>1
<1> QED
  BY <1>2, <1>7, <1>8
=============================================================================
