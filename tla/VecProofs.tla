----------------------------- MODULE VecProofs -----------------------------
(* What Vec::retain keeps, and in which order. *)
EXTENDS Vec, FiniteSetTheorems, TLAPS

(* A position's number among those kept. *)
Rank(keep, i) == Cardinality({j \in keep : j <= i})

(* The numbers are those from 1 to their count, later positions having     *)
(* greater ones, and Nth undoes them.                                      *)
LEMMA NthRank ==
    ASSUME NEW n \in Nat, NEW keep \in SUBSET (1..n)
    PROVE  /\ IsFiniteSet(keep)
           /\ Cardinality(keep) \in Nat /\ Cardinality(keep) <= n
           /\ \A i \in keep : Rank(keep, i) \in 1..Cardinality(keep)
           /\ \A i, j \in keep : i < j => Rank(keep, i) < Rank(keep, j)
           /\ \A i, j \in keep : Rank(keep, i) = Rank(keep, j) => i = j
           /\ \A k \in 1..Cardinality(keep) :
                 Nth(keep, k) \in keep /\ Rank(keep, Nth(keep, k)) = k
<1> DEFINE c == Cardinality(keep)
           UpTo(i) == {j \in keep : j <= i}
           R(i) == Cardinality(UpTo(i))
<1>1. IsFiniteSet(keep) /\ c \in Nat /\ c <= n
  <2>1. IsFiniteSet(1..n) /\ Cardinality(1..n) = n
    BY FS_Interval
  <2>2. QED
    BY <2>1, FS_Subset, FS_CardinalityType
<1>2. ASSUME NEW i \in keep
      PROVE  R(i) \in 1..c /\ IsFiniteSet(UpTo(i))
  <2>1. IsFiniteSet(UpTo(i)) /\ R(i) <= c
    BY <1>1, FS_Subset
  <2>2. R(i) \in Nat
    BY <2>1, FS_CardinalityType
  <2>3. i \in UpTo(i)
    OBVIOUS
  <2>4. R(i) # 0
    BY <2>1, <2>3, FS_EmptySet
  <2>5. QED
    BY <1>1, <2>1, <2>2, <2>4
<1>3. ASSUME NEW i \in keep, NEW j \in keep, i < j
      PROVE  R(i) < R(j)
  <2>1. UpTo(i) \in SUBSET UpTo(j) /\ j \in UpTo(j) /\ j \notin UpTo(i)
    <3>1. keep \subseteq Int
      OBVIOUS
    <3>2. \A k \in keep : k <= i => k <= j
      BY <1>3, <3>1
    <3>3. j <= j /\ ~(j <= i)
      BY <1>3, <3>1
    <3>4. QED
      BY <3>2, <3>3
  <2>2. UpTo(i) # UpTo(j)
    BY <2>1
  <2> HIDE DEF UpTo
  <2>3. R(i) <= R(j) /\ R(i) # R(j)
    BY <1>2, <2>1, <2>2, FS_Subset
  <2>4. QED
    BY <1>2, <2>3
<1> HIDE DEF c, UpTo
<1>4. \A i, j \in keep : R(i) = R(j) => i = j
  <2> SUFFICES ASSUME NEW i \in keep, NEW j \in keep, R(i) = R(j), i # j
               PROVE  FALSE
    OBVIOUS
  <2>1. i < j \/ j < i
    OBVIOUS
  <2>2. R(i) \in Int /\ R(j) \in Int
    BY <1>1, <1>2
  <2>3. QED
    BY <1>3, <2>1, <2>2
<1>5. \A k \in 1..c : \E i \in keep : R(i) = k
  <2> DEFINE f == [i \in keep |-> R(i)]
  <2> HIDE DEF R
  <2>1. f \in [keep -> 1..c]
    BY <1>2
  <2>2. f \in Injection(keep, 1..c)
    BY <2>1, <1>4 DEF Injection, IsInjective
  <2>3. IsFiniteSet(1..c) /\ Cardinality(1..c) = Cardinality(keep)
    BY <1>1, FS_Interval DEF c
  <2>4. f \in Surjection(keep, 1..c)
    BY <2>2, <2>3, FS_Injection
  <2>5. QED
    BY <2>4 DEF Surjection
<1>6. \A k \in 1..c : Nth(keep, k) \in keep /\ R(Nth(keep, k)) = k
  BY <1>5 DEF Nth, UpTo
<1>7. QED
  BY <1>1, <1>2, <1>3, <1>4, <1>6 DEF c, UpTo, Rank

(* The positions in order, each of them once. *)
THEOREM NthPosition ==
    ASSUME NEW n \in Nat, NEW keep \in SUBSET (1..n)
    PROVE  /\ Cardinality(keep) \in Nat /\ Cardinality(keep) <= n
           /\ \A k \in 1..Cardinality(keep) : Nth(keep, k) \in keep
           /\ \A j, k \in 1..Cardinality(keep) :
                 j < k => Nth(keep, j) < Nth(keep, k)
           /\ \A i \in keep : \E k \in 1..Cardinality(keep) : Nth(keep, k) = i
<1> DEFINE c == Cardinality(keep)
<1>1. /\ c \in Nat /\ c <= n
      /\ \A i \in keep : Rank(keep, i) \in 1..c
      /\ \A i, j \in keep : i < j => Rank(keep, i) < Rank(keep, j)
      /\ \A i, j \in keep : Rank(keep, i) = Rank(keep, j) => i = j
      /\ \A k \in 1..c : Nth(keep, k) \in keep /\ Rank(keep, Nth(keep, k)) = k
  BY NthRank
<1> HIDE DEF c
<1>2. \A j, k \in 1..c : j < k => Nth(keep, j) < Nth(keep, k)
  <2> SUFFICES ASSUME NEW j \in 1..c, NEW k \in 1..c, j < k,
                      ~(Nth(keep, j) < Nth(keep, k))
               PROVE  FALSE
    OBVIOUS
  <2>1. Nth(keep, j) \in keep /\ Nth(keep, k) \in keep
    BY <1>1
  <2>2. Nth(keep, k) = Nth(keep, j) \/ Nth(keep, k) < Nth(keep, j)
    <3>1. \A x \in keep : x \in Int
      OBVIOUS
    <3>2. Nth(keep, j) \in Int /\ Nth(keep, k) \in Int
      BY <2>1, <3>1
    <3>3. QED
      BY <3>2
  <2>3. Rank(keep, Nth(keep, k)) = k /\ Rank(keep, Nth(keep, j)) = j
    BY <1>1
  <2>4. CASE Nth(keep, k) < Nth(keep, j)
    <3>1. k < j
      BY <1>1, <2>1, <2>3, <2>4
    <3>2. QED
      BY <1>1, <3>1
  <2>5. QED
    BY <1>1, <2>2, <2>3, <2>4
<1>3. \A i \in keep : \E k \in 1..c : Nth(keep, k) = i
  BY <1>1
<1>4. QED
  BY <1>1, <1>2, <1>3 DEF c

(* What is retained are the elements at the positions kept. *)
THEOREM RetainType ==
    ASSUME NEW S, NEW s \in Seq(S), NEW keep \in SUBSET (1..Len(s))
    PROVE  /\ RetainAt(s, keep) \in Seq(S)
           /\ Len(RetainAt(s, keep)) = Cardinality(keep)
           /\ \A k \in 1..Cardinality(keep) :
                 RetainAt(s, keep)[k] = s[Nth(keep, k)]
<1>1. /\ Cardinality(keep) \in Nat
      /\ \A k \in 1..Cardinality(keep) : Nth(keep, k) \in 1..Len(s)
  <2>1. Len(s) \in Nat
    OBVIOUS
  <2>2. QED
    BY <2>1, NthPosition
<1>2. \A k \in 1..Cardinality(keep) : s[Nth(keep, k)] \in S
  BY <1>1
<1>3. QED
  BY <1>1, <1>2 DEF RetainAt

(* The first of some positions, as a search from the front finds it. *)
THEOREM FirstPosition ==
    ASSUME NEW n \in Nat, NEW match \in SUBSET (1..n), match # {},
           NEW pos, pos = CHOOSE i \in match : \A j \in match : i <= j
    PROVE  pos \in match /\ \A j \in match : pos <= j
<1> DEFINE c == Cardinality(match)
<1>1. /\ c \in Nat /\ \A k \in 1..c : Nth(match, k) \in match
      /\ \A j, k \in 1..c : j < k => Nth(match, j) < Nth(match, k)
      /\ \A i \in match : \E k \in 1..c : Nth(match, k) = i
  BY NthPosition
<1> HIDE DEF c
<1>2. 1 \in 1..c /\ match \subseteq Int
  <2>1. PICK i \in match : TRUE
    OBVIOUS
  <2>2. \E k \in 1..c : TRUE
    BY <1>1, <2>1
  <2>3. QED
    BY <1>1, <2>2
<1>3. ASSUME NEW i \in match
      PROVE  Nth(match, 1) <= i
  <2>1. PICK k \in 1..c : Nth(match, k) = i
    BY <1>1
  <2>2. Nth(match, 1) \in Int /\ i \in Int
    BY <1>1, <1>2
  <2>3. CASE k = 1
    BY <2>1, <2>2, <2>3
  <2>4. CASE 1 < k
    <3>1. Nth(match, 1) < Nth(match, k)
      BY <1>1, <1>2, <2>4
    <3>2. QED
      BY <2>1, <2>2, <3>1
  <2>5. QED
    BY <1>1, <2>3, <2>4
<1>4. Nth(match, 1) \in match
  BY <1>1, <1>2
<1>5. QED
  BY <1>3, <1>4

(* Keeping one more element at the end. *)
THEOREM RetainAppend ==
    ASSUME NEW S, NEW q \in Seq(S), NEW x \in S, NEW keep \in SUBSET (1..Len(q))
    PROVE  RetainAt(Append(q, x), keep \cup {Len(q) + 1}) = Append(RetainAt(q, keep), x)
<1>1. PICK n \in Nat : n = Len(q)
  OBVIOUS
<1> DEFINE more == keep \cup {n + 1}
           c == Cardinality(keep)
           longer == Append(q, x)
           left == RetainAt(longer, more)
           right == RetainAt(q, keep)
<1>2. n + 1 \in Nat /\ keep \in SUBSET (1..n) /\ more \in SUBSET (1..(n + 1))
  <2>1. keep \in SUBSET (1..n)
    BY <1>1
  <2>2. \A i \in 1..n : i \in 1..(n + 1)
    OBVIOUS
  <2>3. n + 1 \in Nat /\ n + 1 \in 1..(n + 1)
    OBVIOUS
  <2>4. QED
    BY <2>1, <2>2, <2>3
<1>3. n + 1 \notin keep /\ \A i \in keep : i \in 1..n /\ i < n + 1
  BY <1>2
<1>4. /\ IsFiniteSet(keep) /\ c \in Nat
      /\ \A k \in 1..c : Nth(keep, k) \in keep /\ Rank(keep, Nth(keep, k)) = k
  BY <1>2, NthRank
<1>5. Cardinality(more) = c + 1
  BY <1>3, <1>4, FS_AddElement
<1>6. \A i \in keep : Rank(more, i) = Rank(keep, i)
  <2> SUFFICES ASSUME NEW i \in keep PROVE Rank(more, i) = Rank(keep, i)
    OBVIOUS
  <2>1. i \in Nat /\ ~(n + 1 <= i)
    BY <1>3
  <2>2. {j \in more : j <= i} = {j \in keep : j <= i}
    BY <2>1
  <2>3. QED
    BY <2>2 DEF Rank
<1>7. Rank(more, n + 1) = c + 1
  <2>1. \A j \in more : j <= n + 1
    BY <1>2
  <2>2. {j \in more : j <= n + 1} = more
    BY <2>1
  <2>3. QED
    BY <1>5, <2>2 DEF Rank
<1>8. keep \subseteq more /\ n + 1 \in more
  OBVIOUS
<1>9. /\ \A i, j \in more : Rank(more, i) = Rank(more, j) => i = j
      /\ \A k \in 1..(c + 1) : Nth(more, k) \in more /\ Rank(more, Nth(more, k)) = k
  <2> HIDE DEF more, c
  <2>1. /\ \A i, j \in more : Rank(more, i) = Rank(more, j) => i = j
        /\ \A k \in 1..Cardinality(more) :
              Nth(more, k) \in more /\ Rank(more, Nth(more, k)) = k
    BY <1>2, NthRank
  <2>2. QED
    BY <1>5, <2>1
<1> HIDE DEF more, c
<1>10. \A k \in 1..c : Nth(more, k) = Nth(keep, k)
  <2> SUFFICES ASSUME NEW k \in 1..c PROVE Nth(more, k) = Nth(keep, k)
    OBVIOUS
  <2>1. k \in 1..(c + 1)
    BY <1>4
  <2>2. /\ Nth(keep, k) \in more /\ Rank(more, Nth(keep, k)) = k
        /\ Nth(more, k) \in more /\ Rank(more, Nth(more, k)) = k
    BY <1>4, <1>6, <1>8, <1>9, <2>1
  <2>3. QED
    BY <1>9, <2>2
<1>11. Nth(more, c + 1) = n + 1
  <2>1. c + 1 \in 1..(c + 1)
    BY <1>4
  <2>2. QED
    BY <1>7, <1>8, <1>9, <2>1
<1>12. /\ longer \in Seq(S) /\ Len(longer) = n + 1 /\ longer[n + 1] = x
       /\ \A i \in 1..n : longer[i] = q[i]
  BY <1>1
<1> HIDE DEF longer
<1>13. /\ left \in Seq(S) /\ Len(left) = c + 1
       /\ \A k \in 1..(c + 1) : left[k] = longer[Nth(more, k)]
  <2> HIDE DEF left
  <2>1. /\ left \in Seq(S) /\ Len(left) = Cardinality(more)
        /\ \A k \in 1..Cardinality(more) : left[k] = longer[Nth(more, k)]
    BY <1>2, <1>12, RetainType DEF left
  <2>2. QED
    BY <1>5, <2>1
<1>14. /\ right \in Seq(S) /\ Len(right) = c
       /\ \A k \in 1..c : right[k] = q[Nth(keep, k)]
  BY <1>1, <1>2, RetainType DEF c
<1> HIDE DEF left, right
<1> DEFINE w == Append(right, x)
<1>15. /\ w \in Seq(S) /\ Len(w) = c + 1 /\ w[c + 1] = x
       /\ \A k \in 1..c : w[k] = right[k]
  BY <1>4, <1>14
<1> HIDE DEF w
<1>16. \A k \in 1..(c + 1) : left[k] = w[k]
  <2> SUFFICES ASSUME NEW k \in 1..(c + 1) PROVE left[k] = w[k]
    OBVIOUS
  <2>1. CASE k = c + 1
    BY <1>11, <1>12, <1>13, <1>15, <2>1
  <2>2. CASE k # c + 1
    <3>1. k \in 1..c
      BY <1>4, <2>2
    <3>2. Nth(keep, k) \in 1..n
      BY <1>3, <1>4, <3>1
    <3>3. left[k] = q[Nth(keep, k)]
      BY <1>10, <1>12, <1>13, <3>1, <3>2
    <3>4. QED
      BY <1>14, <1>15, <3>1, <3>3
  <2>3. QED
    BY <2>1, <2>2
<1>17. left = w
  <2>1. /\ left = [k \in 1..(c + 1) |-> left[k]]
        /\ w = [k \in 1..(c + 1) |-> w[k]]
    BY <1>13, <1>15
  <2>2. QED
    BY <1>16, <2>1
<1>18. QED
  BY <1>1, <1>17 DEF left, right, w, more, longer
=============================================================================
