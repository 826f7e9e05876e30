------------------------------ MODULE Selections ------------------------------
(***************************************************************************)
(* The entries of a list at some of its positions, and what can be said of *)
(* them: where a list is filtered in a component that has proofs, it is    *)
(* filtered by this operator, whose positions a proof can name.            *)
(***************************************************************************)
EXTENDS Integers, Sequences, FiniteSets, FiniteSetTheorems, WellFoundedInduction, TLAPS

(* The entries of a list at some of its positions, in their order: what filter
   leaves of an array, and what a Map keeps after a delete. *)
Selected(s, positions) ==
  LET order == CHOOSE f \in [1..Cardinality(positions) -> positions] :
                 \A i, j \in DOMAIN f : i < j => f[i] < f[j]
  IN  [i \in DOMAIN order |-> s[order[i]]]

\* The newest n of a list: the oldest go.
LastOf(s, n) == IF Len(s) <= n THEN s ELSE SubSeq(s, Len(s) - n + 1, Len(s))

(* A set of numbers that has a member has a least one: with this lemma what
   holds at 0 and from n to n + 1 can be proved of all numbers. *)
LEMMA LeastNumber == ASSUME NEW T \in SUBSET Nat, T # {} PROVE \E n \in T : \A m \in T : n <= m
<1>1. PICK n \in T : \A m \in T : <<m, n>> \notin OpToRel(<, Nat)
  BY WFMin, NatLessThanWellFounded, Zenon
<1>2. \A m \in T : ~(m < n)
  BY <1>1, Zenon DEF OpToRel
<1> QED
  BY <1>2

(* The listings of a set of numbers in ascending order. *)
Listings(K) ==
  {f \in [1..Cardinality(K) -> K] : \A i, j \in DOMAIN f : i < j => f[i] < f[j]}

(* A listing of a set without its greatest member is made longer by it. *)
LEMMA LongerListing ==
  ASSUME NEW n \in Nat \ {0}, NEW K \in SUBSET (1..n), n \in K, Listings(K \ {n}) # {}
  PROVE  Listings(K) # {}
<1> DEFINE L == K \ {n}
           k == Cardinality(L)
<1>1. IsFiniteSet(L) /\ k \in Nat /\ Cardinality(K) = k + 1
  <2>1. IsFiniteSet(1..n)
    BY FS_Interval
  <2>2. IsFiniteSet(K) /\ IsFiniteSet(L)
    BY <2>1, FS_Subset
  <2> QED
    BY <2>2, FS_CardinalityType, FS_RemoveElement
<1>2. PICK f \in [1..k -> L] : \A i, j \in DOMAIN f : i < j => f[i] < f[j]
  BY DEF Listings
<1> HIDE DEF k
<1> DEFINE g == [i \in 1..(k + 1) |-> IF i = k + 1 THEN n ELSE f[i]]
<1>3. g \in [1..(k + 1) -> K]
  BY <1>1, <1>2
<1>4. ASSUME NEW i \in 1..(k + 1), NEW j \in 1..(k + 1), i < j PROVE g[i] < g[j]
  <2>1. i \in 1..k /\ g[i] = f[i] /\ f[i] \in L
    BY <1>1, <1>2, <1>4
  <2>2. CASE j = k + 1
    <3>1. f[i] \in 1..n /\ f[i] # n
      BY <2>1
    <3> QED
      BY <2>1, <2>2, <3>1
  <2>3. CASE j # k + 1
    BY <2>1, <2>3, <1>1, <1>2, <1>4
  <2> QED
    BY <2>2, <2>3
<1>5. g \in Listings(K)
  BY <1>1, <1>3, <1>4 DEF Listings
<1> QED
  BY <1>5

(* Every set of the numbers up to n has one, by induction on n: a least n
   without would have n - 1 without. *)
LEMMA ListingExists ==
  ASSUME NEW n \in Nat, NEW K \in SUBSET (1..n)
  PROVE  Listings(K) # {}
<1> DEFINE Bad == {m \in Nat : \E J \in SUBSET (1..m) : Listings(J) = {}}
<1>1. SUFFICES ASSUME Bad # {} PROVE FALSE
  OBVIOUS
<1>2. PICK m \in Bad : \A l \in Bad : m <= l
  BY <1>1, LeastNumber
<1>3. PICK J \in SUBSET (1..m) : Listings(J) = {}
  BY <1>2
<1>4. m # 0
  <2> SUFFICES ASSUME m = 0 PROVE FALSE
    OBVIOUS
  <2>1. J = {} /\ Cardinality(J) = 0
    <3>1. J = {}
      BY <1>3
    <3> QED
      BY <3>1, FS_EmptySet
  <2>2. [i \in {} |-> 0] \in Listings(J)
    BY <2>1 DEF Listings
  <2> QED
    BY <2>2, <1>3
<1>5. m - 1 \in Nat /\ m - 1 \notin Bad
  BY <1>2, <1>4
<1>6. \A I \in SUBSET (1..(m - 1)) : Listings(I) # {}
  BY <1>5
<1>7. CASE m \in J
  <2>1. J \ {m} \in SUBSET (1..(m - 1))
    BY <1>5
  <2> QED
    BY <1>3, <1>4, <1>6, <1>7, <2>1, LongerListing
<1>8. CASE m \notin J
  BY <1>3, <1>5, <1>6, <1>8
<1> QED
  BY <1>7, <1>8

(* The entries at some positions of a list are a list, no longer, of entries of
   it in their order. *)
LEMMA SelectedIs ==
  ASSUME NEW S, NEW s \in Seq(S), NEW P \in SUBSET (DOMAIN s)
  PROVE  /\ Selected(s, P) \in Seq(S) /\ Len(Selected(s, P)) <= Len(s)
         /\ \E f \in [DOMAIN Selected(s, P) -> P] :
              /\ \A i \in DOMAIN f : Selected(s, P)[i] = s[f[i]]
              /\ \A i, j \in DOMAIN f : i < j => f[i] < f[j]
<1> DEFINE k == Cardinality(P)
           order == CHOOSE f \in [1..k -> P] : \A i, j \in DOMAIN f : i < j => f[i] < f[j]
<1>1. DOMAIN s = 1..Len(s) /\ Len(s) \in Nat
  OBVIOUS
<1>2. \E f \in [1..k -> P] : \A i, j \in DOMAIN f : i < j => f[i] < f[j]
  BY <1>1, ListingExists DEF Listings
<1>3. order \in [1..k -> P] /\ \A i, j \in DOMAIN order : i < j => order[i] < order[j]
  BY <1>2
<1>4. k \in Nat /\ k <= Len(s)
  <2>1. IsFiniteSet(1..Len(s)) /\ Cardinality(1..Len(s)) = Len(s)
    <3> DEFINE l == Len(s)
    <3>1. 1 \in Int /\ l \in Int /\ l >= 0
      BY <1>1
    <3> HIDE DEF l
    <3>2. IsFiniteSet(1..l) /\ Cardinality(1..l) = IF 1 > l THEN 0 ELSE l - 1 + 1
      BY <3>1, FS_Interval
    <3>3. Cardinality(1..l) = l
      BY <3>1, <3>2
    <3> QED
      BY <3>2, <3>3 DEF l
  <2>2. IsFiniteSet(P) /\ Cardinality(P) <= Cardinality(1..Len(s))
    BY <1>1, <2>1, FS_Subset
  <2> QED
    BY <2>1, <2>2, FS_CardinalityType
<1>5. Selected(s, P) = [i \in DOMAIN order |-> s[order[i]]]
  BY DEF Selected
<1> HIDE DEF order, k
<1>6. Selected(s, P) \in [1..k -> S]
  BY <1>1, <1>3, <1>5
<1>7. Selected(s, P) \in Seq(S) /\ Len(Selected(s, P)) = k
  BY <1>4, <1>6
<1>8. \A i \in DOMAIN order : Selected(s, P)[i] = s[order[i]]
  BY <1>5
<1> QED
  BY <1>3, <1>4, <1>6, <1>7, <1>8

(* The newest of a list are entries of it in their order, and n at most. *)
LEMMA LastIs ==
  ASSUME NEW S, NEW s \in Seq(S), NEW n \in Nat
  PROVE  /\ LastOf(s, n) \in Seq(S) /\ Len(LastOf(s, n)) <= n
         /\ \E k \in Nat : \A i \in DOMAIN LastOf(s, n) :
              i + k \in DOMAIN s /\ LastOf(s, n)[i] = s[i + k]
<1>1. CASE Len(s) <= n
  <2>1. LastOf(s, n) = s
    BY <1>1 DEF LastOf
  <2>2. \A i \in DOMAIN s : i + 0 \in DOMAIN s /\ s[i] = s[i + 0]
    OBVIOUS
  <2> QED
    BY <1>1, <2>1, <2>2
<1>2. CASE Len(s) > n
  <2> DEFINE k == Len(s) - n
             t == SubSeq(s, k + 1, Len(s))
  <2>1. LastOf(s, n) = t /\ k \in Nat /\ Len(s) \in Nat /\ k + n = Len(s)
    BY <1>2 DEF LastOf
  <2>2. t \in Seq(S) /\ Len(t) = n /\ \A i \in 1..n : t[i] = s[i + k]
    BY <1>2
  <2>3. DOMAIN t = 1..n /\ DOMAIN s = 1..Len(s)
    BY <2>2
  <2> HIDE DEF t, k
  <2>4. \A i \in DOMAIN t : i + k \in DOMAIN s /\ t[i] = s[i + k]
    BY <2>1, <2>2, <2>3
  <2> QED
    BY <2>1, <2>2, <2>4
<1> QED
  BY <1>1, <1>2

(* A list is what it lists: a sequence whose entries need no set to be named. *)
IsList(l) == Len(l) \in Nat /\ l = [i \in 1 .. Len(l) |-> l[i]]

(* Some set holds what it lists, and a sequence over a set is a list. *)
LEMMA ListIn ==
  ASSUME NEW s, IsList(s)
  PROVE  \E S : s \in Seq(S)
<1> DEFINE S == {s[i] : i \in 1 .. Len(s)}
<1>1. s \in [1 .. Len(s) -> S] /\ Len(s) \in Nat
  BY DEF IsList
<1> HIDE DEF S
<1>2. s \in Seq(S)
  BY <1>1
<1> QED
  BY <1>2

LEMMA SeqIsList ==
  ASSUME NEW S, NEW s \in Seq(S) PROVE IsList(s) /\ DOMAIN s = 1 .. Len(s)
<1>1. s = [i \in 1 .. Len(s) |-> s[i]]
  OBVIOUS
<1> QED
  BY <1>1 DEF IsList

(* One list after the other. *)
LEMMA Joined ==
  ASSUME NEW s, IsList(s), NEW t, IsList(t)
  PROVE  /\ IsList(s \o t) /\ Len(s \o t) = Len(s) + Len(t)
         /\ \A i \in 1 .. Len(s) : (s \o t)[i] = s[i]
         /\ \A i \in 1 .. Len(t) : (s \o t)[Len(s) + i] = t[i]
         /\ \A i \in 1 .. Len(s) + Len(t) :
              \/ i \in 1 .. Len(s) /\ (s \o t)[i] = s[i]
              \/ \E j \in 1 .. Len(t) : i = Len(s) + j /\ (s \o t)[i] = t[j]
<1> DEFINE S == {s[i] : i \in 1 .. Len(s)} \cup {t[i] : i \in 1 .. Len(t)}
<1>1. s \in [1 .. Len(s) -> S] /\ Len(s) \in Nat
  BY DEF IsList
<1>2. t \in [1 .. Len(t) -> S] /\ Len(t) \in Nat
  BY DEF IsList
<1> HIDE DEF S
<1>3. s \in Seq(S)
  BY <1>1
<1>4. t \in Seq(S)
  BY <1>2
<1>5. s \o t \in Seq(S) /\ Len(s \o t) = Len(s) + Len(t)
  BY <1>3, <1>4
<1>6. \A i \in 1 .. Len(s) + Len(t) :
        (s \o t)[i] = IF i <= Len(s) THEN s[i] ELSE t[i - Len(s)]
  BY <1>3, <1>4
<1>7. \A i \in 1 .. Len(s) : (s \o t)[i] = s[i]
  BY <1>1, <1>2, <1>6
<1>8. \A i \in 1 .. Len(t) : (s \o t)[Len(s) + i] = t[i]
  BY <1>1, <1>2, <1>6
<1>9. ASSUME NEW i \in 1 .. Len(s) + Len(t)
      PROVE  \/ i \in 1 .. Len(s) /\ (s \o t)[i] = s[i]
             \/ \E j \in 1 .. Len(t) : i = Len(s) + j /\ (s \o t)[i] = t[j]
  <2>1. CASE i <= Len(s)
    BY <1>1, <1>2, <1>7, <2>1
  <2>2. CASE i > Len(s)
    <3>1. i - Len(s) \in 1 .. Len(t) /\ i = Len(s) + (i - Len(s))
      BY <1>1, <1>2, <2>2
    <3> QED
      BY Zenon, <1>8, <3>1
  <2> QED
    BY <1>1, <1>2, <2>1, <2>2
<1> QED
  BY Zenon, <1>5, <1>7, <1>8, <1>9, SeqIsList

(* A listing of a set of numbers lists all of them. *)
LEMMA ListingOnto ==
  ASSUME NEW n \in Nat, NEW K \in SUBSET (1 .. n), NEW f \in Listings(K)
  PROVE  /\ Cardinality(K) \in Nat /\ f \in [1 .. Cardinality(K) -> K]
         /\ \A i, j \in 1 .. Cardinality(K) : i < j => f[i] < f[j]
         /\ \A p \in K : \E i \in 1 .. Cardinality(K) : f[i] = p
<1> DEFINE k == Cardinality(K)
<1>1. IsFiniteSet(K) /\ k \in Nat
  <2>1. IsFiniteSet(1 .. n)
    BY FS_Interval
  <2>2. IsFiniteSet(K)
    BY <2>1, FS_Subset
  <2> QED
    BY <2>2, FS_CardinalityType
<1>2. f \in [1 .. k -> K] /\ \A i, j \in 1 .. k : i < j => f[i] < f[j]
  BY DEF Listings
<1> HIDE DEF k
<1>3. f \in Injection(1 .. k, K)
  <2>1. ASSUME NEW i \in 1 .. k, NEW j \in 1 .. k, i # j PROVE f[i] # f[j]
    <3>1. f[i] \in 1 .. n /\ f[j] \in 1 .. n
      BY <1>2
    <3>2. i < j \/ j < i
      BY <2>1, <1>1
    <3> QED
      BY <1>2, <3>1, <3>2
  <2> QED
    BY <1>2, <2>1 DEF Injection, IsInjective
<1>4. Cardinality(1 .. k) = k
  <2>1. Cardinality(1 .. k) = IF 1 > k THEN 0 ELSE k - 1 + 1
    BY <1>1, FS_Interval
  <2> QED
    BY <1>1, <2>1
<1>5. f \in Surjection(1 .. k, K)
  BY <1>1, <1>3, <1>4, FS_Injection DEF k
<1>6. \A p \in K : \E i \in 1 .. k : f[i] = p
  BY <1>5 DEF Surjection
<1> QED
  BY <1>1, <1>2, <1>6 DEF k

(* What is selected of a list: each entry at a position, and nothing else. *)
LEMMA SelectedAll ==
  ASSUME NEW s, IsList(s), NEW P \in SUBSET (DOMAIN s)
  PROVE  /\ IsList(Selected(s, P)) /\ Len(Selected(s, P)) = Cardinality(P)
         /\ \A i \in 1 .. Len(Selected(s, P)) : \E p \in P : Selected(s, P)[i] = s[p]
         /\ \A p \in P : \E i \in 1 .. Len(Selected(s, P)) : Selected(s, P)[i] = s[p]
<1> DEFINE k == Cardinality(P)
           order == CHOOSE f \in [1..k -> P] : \A i, j \in DOMAIN f : i < j => f[i] < f[j]
<1>1. PICK S : s \in Seq(S)
  BY ListIn
<1>2. DOMAIN s = 1 .. Len(s) /\ Len(s) \in Nat
  BY <1>1
<1>3. \E f \in [1..k -> P] : \A i, j \in DOMAIN f : i < j => f[i] < f[j]
  BY Zenon, <1>2, ListingExists DEF Listings
<1>4. order \in [1..k -> P] /\ \A i, j \in DOMAIN order : i < j => order[i] < order[j]
  BY Zenon, <1>3
<1>5. order \in Listings(P)
  BY Zenon, <1>4 DEF Listings
<1>6. Selected(s, P) = [i \in DOMAIN order |-> s[order[i]]]
  BY DEF Selected
<1> HIDE DEF order, k
<1>7. k \in Nat /\ \A p \in P : \E i \in 1 .. k : order[i] = p
  BY <1>2, <1>5, ListingOnto DEF k
<1>8. Selected(s, P) \in [1 .. k -> S]
  BY <1>1, <1>2, <1>4, <1>6
<1>9. Selected(s, P) \in Seq(S) /\ Len(Selected(s, P)) = k
  BY <1>7, <1>8
<1>10. \A i \in 1 .. k : Selected(s, P)[i] = s[order[i]]
  BY <1>4, <1>6
<1>11. IsList(Selected(s, P))
  BY <1>9, SeqIsList
<1>12. \A i \in 1 .. k : \E p \in P : Selected(s, P)[i] = s[p]
  BY <1>4, <1>10
<1>13. \A p \in P : \E i \in 1 .. k : Selected(s, P)[i] = s[p]
  BY <1>7, <1>10
<1> QED
  BY <1>9, <1>11, <1>12, <1>13 DEF k

(* A list of one, and a list with one more. *)
LEMMA OneList ==
  ASSUME NEW e PROVE IsList(<<e>>) /\ Len(<<e>>) = 1 /\ <<e>>[1] = e
<1>1. <<e>> \in Seq({e})
  OBVIOUS
<1> QED
  BY Zenon, <1>1, SeqIsList

LEMMA AppendIs ==
  ASSUME NEW s, IsList(s), NEW e PROVE Append(s, e) = s \o <<e>>
<1>1. PICK S : s \in Seq(S)
  BY ListIn
<1>2. s \in Seq(S \cup {e}) /\ <<e>> \in Seq(S \cup {e})
  <2>1. s \in [1 .. Len(s) -> S \cup {e}] /\ Len(s) \in Nat
    BY <1>1
  <2> QED
    BY <2>1
<1> QED
  BY <1>2

LEMMA AppendedIs ==
  ASSUME NEW s, IsList(s), NEW e
  PROVE  /\ IsList(Append(s, e)) /\ Len(Append(s, e)) = Len(s) + 1 /\ Len(s) \in Nat
         /\ \A i \in 1 .. Len(s) : Append(s, e)[i] = s[i]
         /\ Append(s, e)[Len(s) + 1] = e
         /\ \A i \in 1 .. Len(s) + 1 : i \in 1 .. Len(s) \/ i = Len(s) + 1
<1> DEFINE n == Len(s)
           t == s \o <<e>>
<1>1. n \in Nat /\ Append(s, e) = t
  BY AppendIs DEF IsList
<1>2. IsList(<<e>>) /\ Len(<<e>>) = 1 /\ <<e>>[1] = e
  BY OneList
<1>3. IsList(t) /\ Len(t) = n + 1 /\ \A i \in 1 .. n : t[i] = s[i]
  BY <1>2, Joined
<1>4. \A i \in 1 .. 1 : t[n + i] = <<e>>[i]
  BY <1>2, Joined
<1>5. t[n + 1] = e
  BY <1>2, <1>4
<1> HIDE DEF t
<1>6. \A i \in 1 .. n + 1 : i \in 1 .. n \/ i = n + 1
  BY <1>1
<1> QED
  BY <1>1, <1>3, <1>5, <1>6

(* What is left when the first is taken, and the list of nothing. *)
LEMMA TailIs ==
  ASSUME NEW s, IsList(s), s # <<>>
  PROVE  /\ Head(s) = s[1] /\ IsList(Tail(s)) /\ Len(s) \in Nat \ {0} /\ Len(Tail(s)) = Len(s) - 1
         /\ \A i \in 1 .. Len(s) - 1 : Tail(s)[i] = s[i + 1]
<1>1. PICK S : s \in Seq(S)
  BY ListIn
<1>2. /\ Head(s) = s[1] /\ Tail(s) \in Seq(S) /\ Len(s) \in Nat \ {0} /\ Len(Tail(s)) = Len(s) - 1
      /\ \A i \in 1 .. Len(s) - 1 : Tail(s)[i] = s[i + 1]
  BY <1>1
<1> QED
  BY <1>2, SeqIsList

LEMMA EmptyIs == ASSUME NEW s, IsList(s) PROVE s = <<>> <=> Len(s) = 0
<1>1. PICK S : s \in Seq(S)
  BY ListIn
<1> QED
  BY <1>1
=============================================================================
