-------------------------- MODULE AlgorithmsProofs --------------------------
(***************************************************************************)
(* Proofs about the programs that compute an answer: about FindUsers, for  *)
(* any users, requests, limits and failures; and about FastSearch and      *)
(* SlowSearch, for any file.                                               *)
(***************************************************************************)
EXTENDS FindUsers, Search, FiniteSetTheorems, SequenceTheorems, NaturalsInduction,
        WellFoundedInduction, TLAPS

(* The elements of a sequence.                                              *)
Elements(s) == {s[i] : i \in DOMAIN s}

LEMMA SeqElement ==
  ASSUME NEW S, NEW s \in Seq(S), NEW i \in DOMAIN s
  PROVE  s[i] \in S
OBVIOUS

(* A function on 1 .. n is a sequence of its values.                        *)
LEMMA FunctionSeq ==
  ASSUME NEW n \in Nat, NEW f, f = [i \in 1 .. n |-> f[i]]
  PROVE  f \in Seq(Elements(f)) /\ Len(f) = n
<1>1. DOMAIN f = 1 .. n
  OBVIOUS
<1>2. \A i \in 1 .. n : f[i] \in Elements(f)
  BY <1>1 DEF Elements
<1> DEFINE S == Elements(f)
<1> HIDE DEF S
<1>3. f \in [1 .. n -> S]
  BY <1>2 DEF S
<1> QED
  BY <1>3 DEF S

LEMMA OrderedSeq ==
  ASSUME NEW S, NEW s \in Seq(S), NEW req
  PROVE  Ordered(s, req) \in Seq(Elements(Ordered(s, req))) /\ Len(Ordered(s, req)) = Len(s)
<1> DEFINE f == Ordered(s, req)
<1>1. f = [i \in 1 .. Len(s) |-> f[i]]
  <2>1. DOMAIN s = 1 .. Len(s) /\ s = [i \in 1 .. Len(s) |-> s[i]]
    BY LenProperties
  <2>2. CASE req.OrderBy = 0
    BY <2>1, <2>2 DEF Ordered
  <2>3. CASE req.OrderBy # 0
    BY <2>1, <2>3 DEF Ordered
  <2> QED
    BY <2>2, <2>3
<1>2. Len(s) \in Nat
  BY LenProperties
<1> HIDE DEF f
<1>3. f \in Seq(Elements(f)) /\ Len(f) = Len(s)
  BY <1>1, <1>2, FunctionSeq
<1> QED
  BY <1>3 DEF f

LEMMA MatchingSeq ==
  ASSUME NEW users \in Seq(Users)
  PROVE  Matching(users) \in Seq(Elements(Matching(users)))
<1> DEFINE places == {i \in DOMAIN users : users[i].match}
           n == Cardinality(places)
           f == Matching(users)
<1>1. n \in Nat
  <2>1. DOMAIN users = 1 .. Len(users) /\ Len(users) \in Nat
    BY LenProperties
  <2>2. IsFiniteSet(DOMAIN users)
    BY <2>1, FS_Interval
  <2> QED
    BY <2>2, FS_Subset, FS_CardinalityType
<1>2. f = [i \in 1 .. n |-> f[i]]
  BY DEF Matching
<1> HIDE DEF n, f
<1>3. f \in Seq(Elements(f))
  BY <1>1, <1>2, FunctionSeq
<1> QED
  BY <1>3 DEF f

(* What is not sorted stays as it is.                                       *)
LEMMA AsIs ==
  ASSUME NEW s, NEW req, req.OrderBy = 0
  PROVE  Ordered(s, req) = s
BY DEF Ordered

-----------------------------------------------------------------------------
(* Sorting.  Ranked puts the places of a set into the order of a relation:  *)
(* each gets the rank that the number of those before it says.              *)
StrictOrder(places, precedes) ==
  /\ \A i \in places : <<i, i>> \notin precedes
  /\ \A i, j \in places : i = j \/ <<i, j>> \in precedes \/ <<j, i>> \in precedes
  /\ \A i, j, k \in places : <<i, j>> \in precedes /\ <<j, k>> \in precedes => <<i, k>> \in precedes

Arranges(p, n, places, precedes) ==
  /\ p \in [1 .. n -> places]
  /\ \A i \in places : \E k \in 1 .. n : p[k] = i
  /\ \A k, l \in 1 .. n : k < l => <<p[k], p[l]>> \in precedes

(* One that precedes another has fewer before it.                           *)
LEMMA FewerBefore ==
  ASSUME NEW places, IsFiniteSet(places), NEW precedes, StrictOrder(places, precedes),
         NEW i \in places, NEW j \in places, <<i, j>> \in precedes
  PROVE  Cardinality({a \in places : <<a, i>> \in precedes})
           < Cardinality({a \in places : <<a, j>> \in precedes})
<1> DEFINE A == {a \in places : <<a, i>> \in precedes}
           B == {a \in places : <<a, j>> \in precedes}
<1>1. A \subseteq B /\ i \in B /\ i \notin A /\ B \subseteq places
  BY DEF StrictOrder
<1> HIDE DEF A, B
<1>2. IsFiniteSet(B) /\ Cardinality(B) \in Nat
  BY <1>1, FS_Subset, FS_CardinalityType
<1>3. IsFiniteSet(A) /\ Cardinality(A) <= Cardinality(B) /\ (Cardinality(B) = Cardinality(A) => B = A)
  BY <1>1, <1>2, FS_Subset
<1>4. Cardinality(A) \in Nat
  BY <1>3, FS_CardinalityType
<1>5. Cardinality(A) < Cardinality(B)
  BY <1>1, <1>2, <1>3, <1>4
<1> QED
  BY <1>5 DEF A, B

LEMMA RankedArranges ==
  ASSUME NEW places, IsFiniteSet(places), NEW precedes, StrictOrder(places, precedes)
  PROVE  Arranges([k \in 1 .. Cardinality(places) |-> Ranked(places, precedes, k)],
                  Cardinality(places), places, precedes)
<1> DEFINE n == Cardinality(places)
           Before(i) == {j \in places : <<j, i>> \in precedes}
           rank == [i \in places |-> Cardinality(Before(i)) + 1]
           p == [k \in 1 .. n |-> Ranked(places, precedes, k)]
<1>1. n \in Nat
  BY FS_CardinalityType
<1>2. ASSUME NEW i \in places PROVE rank[i] \in 1 .. n
  <2> DEFINE B == Before(i)
             C == places \ {i}
  <2>1. B \subseteq C
    BY DEF StrictOrder
  <2> HIDE DEF B
  <2>2. IsFiniteSet(C) /\ Cardinality(C) = n - 1
    BY <1>2, FS_RemoveElement
  <2> HIDE DEF C, n
  <2>3. IsFiniteSet(B) /\ Cardinality(B) <= n - 1
    BY <2>1, <2>2, FS_Subset
  <2>4. Cardinality(B) \in Nat
    BY <2>3, FS_CardinalityType
  <2>5. Cardinality(B) + 1 \in 1 .. n
    BY <1>1, <2>3, <2>4
  <2> QED
    BY <2>5 DEF B
<1>3. \A i, j \in places : <<i, j>> \in precedes => rank[i] < rank[j]
  <2> SUFFICES ASSUME NEW i \in places, NEW j \in places, <<i, j>> \in precedes
               PROVE  rank[i] < rank[j]
    OBVIOUS
  <2>1. Cardinality(Before(i)) < Cardinality(Before(j))
    BY FewerBefore
  <2>2. rank[i] = Cardinality(Before(i)) + 1 /\ rank[j] = Cardinality(Before(j)) + 1
    OBVIOUS
  <2>3. rank[i] \in Int /\ rank[j] \in Int
    BY <1>2, <1>1
  <2>4. Cardinality(Before(i)) \in Nat /\ Cardinality(Before(j)) \in Nat
    BY FS_Subset, FS_CardinalityType
  <2> HIDE DEF Before, rank
  <2> QED
    BY <2>1, <2>2, <2>3, <2>4
<1>4. \A k \in 1 .. n : p[k] = CHOOSE i \in places : Cardinality(Before(i)) = k - 1
  BY DEF Ranked
<1>5. \A i \in places : rank[i] = Cardinality(Before(i)) + 1 /\ Cardinality(Before(i)) \in Nat
  <2>1. \A i \in places : Cardinality(Before(i)) \in Nat
    BY FS_Subset, FS_CardinalityType
  <2> HIDE DEF Before
  <2> QED
    BY <2>1
<1> HIDE DEF n, Before, p
<1>6. rank \in [places -> 1 .. n]
  BY <1>2
<1> HIDE DEF rank
<1>7. \A i, j \in places : rank[i] = rank[j] => i = j
  <2> SUFFICES ASSUME NEW i \in places, NEW j \in places, rank[i] = rank[j], i # j
               PROVE  FALSE
    OBVIOUS
  <2>1. <<i, j>> \in precedes \/ <<j, i>> \in precedes
    BY DEF StrictOrder
  <2>2. rank[i] < rank[j] \/ rank[j] < rank[i]
    BY <1>3, <2>1
  <2>3. rank[i] \in Int
    BY <1>1, <1>6
  <2> QED
    BY <2>2, <2>3
<1>8. \A k \in 1 .. n : \E i \in places : rank[i] = k
  <2>1. rank \in Injection(places, 1 .. n)
    BY <1>6, <1>7 DEF Injection, IsInjective
  <2>2. IsFiniteSet(1 .. n) /\ Cardinality(1 .. n) = n
    BY <1>1, FS_Interval
  <2>3. rank \in Surjection(places, 1 .. n)
    BY <2>1, <2>2, FS_Injection DEF n
  <2> QED
    BY <2>3 DEF Surjection
<1>9. \A k \in 1 .. n : p[k] \in places /\ rank[p[k]] = k
  <2> SUFFICES ASSUME NEW k \in 1 .. n
               PROVE  p[k] \in places /\ rank[p[k]] = k
    OBVIOUS
  <2>1. \E i \in places : Cardinality(Before(i)) = k - 1
    <3>1. PICK i \in places : rank[i] = k
      BY <1>8
    <3>2. Cardinality(Before(i)) \in Nat /\ rank[i] = Cardinality(Before(i)) + 1
      BY <1>5
    <3>3. Cardinality(Before(i)) = k - 1
      BY <1>1, <3>1, <3>2
    <3> QED
      BY <3>3
  <2>2. p[k] \in places /\ Cardinality(Before(p[k])) = k - 1
    BY <1>4, <2>1
  <2> QED
    BY <1>1, <1>5, <2>2
<1>10. p \in [1 .. n -> places]
  BY <1>9 DEF p
<1>11. \A i \in places : \E k \in 1 .. n : p[k] = i
  BY <1>6, <1>7, <1>9
<1>12. \A k, l \in 1 .. n : k < l => <<p[k], p[l]>> \in precedes
  <2> SUFFICES ASSUME NEW k \in 1 .. n, NEW l \in 1 .. n, k < l
               PROVE  <<p[k], p[l]>> \in precedes
    OBVIOUS
  <2>1. p[k] \in places /\ p[l] \in places /\ rank[p[k]] = k /\ rank[p[l]] = l
    BY <1>9
  <2>2. p[k] # p[l]
    BY <1>1, <2>1
  <2>3. <<p[l], p[k]>> \notin precedes
    BY <1>1, <1>3, <2>1
  <2> QED
    BY <2>1, <2>2, <2>3 DEF StrictOrder
<1>13. Arranges(p, n, places, precedes)
  BY <1>10, <1>11, <1>12 DEF Arranges
<1> QED
  BY <1>13 DEF p, n

(* Whether user a comes before user b, where i and j are their places.      *)
Comes(req, a, b, i, j) ==
  LET x == Key(a, req.OrderField)
      y == Key(b, req.OrderField)
  IN IF x = y \/ req.OrderBy = 0 THEN i < j
     ELSE IF req.OrderBy = 1 THEN x > y ELSE x < y

LEMMA KeyIsInt ==
  ASSUME NEW u \in Users, NEW field
  PROVE  Key(u, field) \in Int
BY DEF Key, Users

LEMMA ComesStrictly ==
  ASSUME NEW users \in Seq(Users), NEW req
  PROVE  LET places == DOMAIN users
         IN StrictOrder(places, {p \in places \X places :
                                   Comes(req, users[p[1]], users[p[2]], p[1], p[2])})
<1> DEFINE places == DOMAIN users
           key == [i \in places |-> Key(users[i], req.OrderField)]
           Before(i, j) == Comes(req, users[i], users[j], i, j)
           precedes == {p \in places \X places : Before(p[1], p[2])}
<1>1. \A i \in places : i \in Int /\ key[i] \in Int
  <2>1. \A i \in places : users[i] \in Users
    BY SeqElement
  <2>2. \A i \in places : i \in Int
    BY LenProperties
  <2> QED
    BY <2>1, <2>2, KeyIsInt
<1>2. \A i, j \in places :
        Before(i, j) <=> IF key[i] = key[j] \/ req.OrderBy = 0 THEN i < j
                         ELSE IF req.OrderBy = 1 THEN key[i] > key[j] ELSE key[i] < key[j]
  BY DEF Comes
<1>3. \A i, j \in places : <<i, j>> \in precedes <=> Before(i, j)
  <2> HIDE DEF Before
  <2> QED
    OBVIOUS
<1> HIDE DEF places, key, Before, precedes
<1>4. \A i \in places : ~Before(i, i)
  BY <1>1, <1>2
<1>5. \A i, j \in places : i = j \/ Before(i, j) \/ Before(j, i)
  BY <1>1, <1>2
<1>6. ASSUME NEW i \in places, NEW j \in places, NEW k \in places, Before(i, j), Before(j, k)
      PROVE  Before(i, k)
  <2>1. CASE req.OrderBy = 0
    BY <1>1, <1>2, <1>6, <2>1
  <2>2. CASE req.OrderBy # 0 /\ req.OrderBy = 1
    BY <1>1, <1>2, <1>6, <2>2
  <2>3. CASE req.OrderBy # 0 /\ req.OrderBy # 1
    BY <1>1, <1>2, <1>6, <2>3
  <2> QED
    BY <2>1, <2>2, <2>3
<1>7. StrictOrder(places, precedes)
  BY <1>3, <1>4, <1>5, <1>6 DEF StrictOrder
<1> QED
  BY <1>7 DEF places, precedes, Before

(* The order of two keys that a request asks for.                           *)
KeysInOrder(req, a, b) ==
  LET x == Key(a, req.OrderField)
      y == Key(b, req.OrderField)
  IN IF req.OrderBy = 1 THEN x >= y ELSE x <= y

(* There is a permutation that sorts: the one that keeps equal keys in      *)
(* place.                                                                   *)
LEMMA SomeSorting ==
  ASSUME NEW users \in Seq(Users), NEW req, req.OrderBy # 0
  PROVE  \E p : p \in Sortings(users, req)
<1> DEFINE places == DOMAIN users
           n == Cardinality(places)
           precedes == {q \in places \X places :
                          Comes(req, users[q[1]], users[q[2]], q[1], q[2])}
           p == [k \in 1 .. n |-> Ranked(places, precedes, k)]
<1>1. Len(users) \in Nat /\ places = 1 .. Len(users)
  BY LenProperties
<1>2. IsFiniteSet(places) /\ n = Len(users)
  BY <1>1, FS_Interval
<1>3. StrictOrder(places, precedes)
  BY ComesStrictly
<1>4. \A i, j \in places : <<i, j>> \in precedes => KeysInOrder(req, users[i], users[j])
  <2> SUFFICES ASSUME NEW i \in places, NEW j \in places, <<i, j>> \in precedes
               PROVE  KeysInOrder(req, users[i], users[j])
    OBVIOUS
  <2>1. users[i] \in Users /\ users[j] \in Users
    BY SeqElement
  <2>2. Key(users[i], req.OrderField) \in Int /\ Key(users[j], req.OrderField) \in Int
    BY <2>1, KeyIsInt
  <2>3. Comes(req, users[i], users[j], i, j)
    OBVIOUS
  <2> DEFINE x == Key(users[i], req.OrderField)
             y == Key(users[j], req.OrderField)
  <2>4. x = y \/ (IF req.OrderBy = 1 THEN x > y ELSE x < y)
    BY <2>3 DEF Comes
  <2>5. x \in Int /\ y \in Int
    BY <2>2
  <2> HIDE DEF x, y, precedes, places
  <2>6. IF req.OrderBy = 1 THEN x >= y ELSE x <= y
    BY <2>4, <2>5
  <2> QED
    BY <2>6 DEF KeysInOrder, x, y
<1> HIDE DEF precedes, places
<1>5. Arranges(p, n, places, precedes)
  BY <1>2, <1>3, RankedArranges
<1> HIDE DEF p, n
<1>6. /\ p \in [places -> places]
      /\ \A i \in places : \E k \in places : p[k] = i
      /\ \A k, l \in places : k < l => <<p[k], p[l]>> \in precedes
  BY <1>1, <1>2, <1>5 DEF Arranges
<1>7. \A k, l \in places : p[k] = p[l] => k = l
  <2>1. \A k, l \in places : k # l => k < l \/ l < k
    BY <1>1
  <2>2. \A i \in places : <<i, i>> \notin precedes
    BY <1>3 DEF StrictOrder
  <2>3. ASSUME NEW k \in places, NEW l \in places, p[k] = p[l], k < l
        PROVE  FALSE
    <3>1. p[k] \in places /\ <<p[k], p[k]>> \in precedes
      BY <1>6, <2>3
    <3> QED
      BY <2>2, <3>1
  <2> QED
    BY <2>1, <2>3
<1>8. p \in Bijection(places, places)
  BY <1>6, <1>7 DEF Bijection, Injection, Surjection, IsInjective
<1>9. \A k, l \in places : k < l => KeysInOrder(req, users[p[k]], users[p[l]])
  BY <1>4, <1>6
<1>10. Sortings(users, req) =
         {q \in Bijection(places, places) :
            \A k, l \in places : k < l => KeysInOrder(req, users[q[k]], users[q[l]])}
  <2>1. \A q \in Bijection(places, places) : \A k \in places : q[k] \in places
    BY DEF Bijection, Injection
  <2> QED
    BY <2>1 DEF Sortings, KeysInOrder, places
<1>11. p \in Sortings(users, req)
  BY <1>8, <1>9, <1>10
<1> QED
  BY <1>11

(* Sorting loses no user and doubles none, and puts them into the order of  *)
(* the field that the request names; those of equal keys may come in any    *)
(* order: sort.Slice of the server, for any list of users.                  *)
THEOREM OrderedSorts ==
  ASSUME NEW users \in Seq(Users), NEW req
  PROVE  \E p \in Bijection(DOMAIN users, DOMAIN users) :
           /\ Ordered(users, req) = [k \in DOMAIN users |-> users[p[k]]]
           /\ \A k, l \in DOMAIN users :
                k < l => IF req.OrderBy = 0 THEN p[k] < p[l]
                         ELSE KeysInOrder(req, users[p[k]], users[p[l]])
<1> DEFINE places == DOMAIN users
<1>1. CASE req.OrderBy = 0
  <2> DEFINE id == [k \in places |-> k]
  <2>1. id \in Bijection(places, places)
    BY DEF Bijection, Injection, Surjection, IsInjective
  <2>2. users = [k \in places |-> users[k]]
    BY LenProperties
  <2>3. Ordered(users, req) = [k \in places |-> users[id[k]]]
    BY <1>1, <2>2, AsIs
  <2>4. \A k, l \in places : k < l => id[k] < id[l]
    OBVIOUS
  <2> HIDE DEF id
  <2> QED
    BY <1>1, <2>1, <2>3, <2>4
<1>2. CASE req.OrderBy # 0
  <2> DEFINE p == CHOOSE q \in Sortings(users, req) : TRUE
  <2>1. Ordered(users, req) = [k \in places |-> users[p[k]]]
    BY <1>2 DEF Ordered
  <2>2. p \in Sortings(users, req)
    BY <1>2, SomeSorting
  <2> HIDE DEF p
  <2>3. p \in Bijection(places, places)
    BY <2>2 DEF Sortings
  <2>4. \A k \in places : p[k] \in places
    BY <2>3 DEF Bijection, Injection
  <2>5. \A k, l \in places : k < l => KeysInOrder(req, users[p[k]], users[p[l]])
    BY <2>2, <2>4 DEF Sortings, KeysInOrder
  <2> QED
    BY <1>2, <2>1, <2>3, <2>5
<1> QED
  BY <1>1, <1>2

(* The users that match the query are picked, each once and in the order in *)
(* which they were.                                                         *)
THEOREM MatchingPicks ==
  ASSUME NEW users \in Seq(Users)
  PROVE  \E m \in Nat : \E p :
           /\ p \in [1 .. m -> {i \in DOMAIN users : users[i].match}]
           /\ \A i \in DOMAIN users : users[i].match => \E k \in 1 .. m : p[k] = i
           /\ \A k, l \in 1 .. m : k < l => p[k] < p[l]
           /\ Matching(users) = [k \in 1 .. m |-> users[p[k]]]
<1> DEFINE places == {i \in DOMAIN users : users[i].match}
           precedes == {q \in places \X places : q[1] < q[2]}
           m == Cardinality(places)
           p == [k \in 1 .. m |-> Ranked(places, precedes, k)]
<1>1. DOMAIN users = 1 .. Len(users) /\ Len(users) \in Nat
  BY LenProperties
<1>2. IsFiniteSet(places)
  <2>1. IsFiniteSet(DOMAIN users)
    BY <1>1, FS_Interval
  <2> QED
    BY <2>1, FS_Subset
<1>3. m \in Nat
  BY <1>2, FS_CardinalityType
<1>4. StrictOrder(places, precedes)
  <2>1. \A i \in places : i \in Int
    BY <1>1
  <2>2. \A i, j \in places : <<i, j>> \in precedes <=> i < j
    OBVIOUS
  <2> HIDE DEF places, precedes
  <2> QED
    BY <2>1, <2>2 DEF StrictOrder
<1>5. Matching(users) = [k \in 1 .. m |-> users[p[k]]]
  BY DEF Matching
<1>6. \A i, j : <<i, j>> \in precedes => i < j
  OBVIOUS
<1>7. Arranges(p, m, places, precedes)
  <2> HIDE DEF places, precedes
  <2> QED
    BY <1>2, <1>4, RankedArranges
<1> HIDE DEF m, p, precedes
<1>8. /\ p \in [1 .. m -> places] /\ \A i \in places : \E k \in 1 .. m : p[k] = i
      /\ \A k, l \in 1 .. m : k < l => p[k] < p[l]
  BY <1>6, <1>7 DEF Arranges
<1> QED
  BY <1>3, <1>5, <1>8

-----------------------------------------------------------------------------
(* What lies between two places of a sequence, if anything does.            *)
LEMMA Slice ==
  ASSUME NEW S, NEW s \in Seq(S), NEW a \in Nat, NEW b \in Int, b <= Len(s)
  PROVE  /\ SubSeq(s, a + 1, b) \in Seq(S)
         /\ Len(SubSeq(s, a + 1, b)) = IF a < b THEN b - a ELSE 0
         /\ \A i \in 1 .. b - a : SubSeq(s, a + 1, b)[i] = s[a + i]
<1>1. Len(s) \in Nat /\ DOMAIN s = 1 .. Len(s)
  BY LenProperties
<1>2. \A i \in a + 1 .. b : i \in DOMAIN s
  BY <1>1
<1>3. \A i \in a + 1 .. b : s[i] \in S
  BY <1>2, SeqElement
<1>4. /\ SubSeq(s, a + 1, b) \in Seq(S)
      /\ Len(SubSeq(s, a + 1, b)) = IF a + 1 <= b THEN b - (a + 1) + 1 ELSE 0
      /\ \A i \in 1 .. b - (a + 1) + 1 : SubSeq(s, a + 1, b)[i] = s[a + 1 + i - 1]
  BY <1>3, SubSeqProperties
<1>5. /\ b - (a + 1) + 1 = b - a /\ (a + 1 <= b <=> a < b)
      /\ \A i \in Int : a + 1 + i - 1 = a + i
  OBVIOUS
<1>6. \A i \in 1 .. b - a : SubSeq(s, a + 1, b)[i] = s[a + i]
  BY <1>4, <1>5
<1> QED
  BY <1>4, <1>5, <1>6

(* A beginning, and what comes next.                                        *)
LEMMA BeginningSeq ==
  ASSUME NEW S, NEW s \in Seq(S), NEW k \in Nat, k <= Len(s)
  PROVE  /\ SubSeq(s, 1, k) \in Seq(S) /\ Len(SubSeq(s, 1, k)) = k
         /\ \A i \in 1 .. k : SubSeq(s, 1, k)[i] = s[i]
<1>1. Len(s) \in Nat /\ DOMAIN s = 1 .. Len(s)
  BY LenProperties
<1>2. \A i \in 1 .. k : i \in DOMAIN s
  BY <1>1
<1>3. \A i \in 1 .. k : s[i] \in S
  BY <1>2, SeqElement
<1>4. /\ SubSeq(s, 1, k) \in Seq(S)
      /\ Len(SubSeq(s, 1, k)) = IF 1 <= k THEN k - 1 + 1 ELSE 0
      /\ \A i \in 1 .. k - 1 + 1 : SubSeq(s, 1, k)[i] = s[1 + i - 1]
  BY <1>3, SubSeqProperties
<1>5. k - 1 + 1 = k /\ (~(1 <= k) => k = 0) /\ \A i \in Int : 1 + i - 1 = i
  OBVIOUS
<1>6. \A i \in 1 .. k : SubSeq(s, 1, k)[i] = s[i]
  BY <1>4, <1>5
<1> QED
  BY <1>4, <1>5, <1>6

LEMMA Joined ==
  ASSUME NEW S, NEW s \in Seq(S), NEW t \in Seq(S), NEW n \in Nat, NEW k \in Nat,
         n + k <= Len(s), k <= Len(t), \A i \in 1 .. k : t[i] = s[n + i]
  PROVE  SubSeq(s, 1, n) \o SubSeq(t, 1, k) = SubSeq(s, 1, n + k)
<1> DEFINE first == SubSeq(s, 1, n)
           next == SubSeq(t, 1, k)
           left == first \o next
           right == SubSeq(s, 1, n + k)
<1>0. n <= Len(s) /\ n + k \in Nat
  BY LenProperties
<1>1. first \in Seq(S) /\ Len(first) = n /\ \A i \in 1 .. n : first[i] = s[i]
  BY <1>0, BeginningSeq
<1>2. next \in Seq(S) /\ Len(next) = k /\ \A i \in 1 .. k : next[i] = t[i]
  BY BeginningSeq
<1>3. right \in Seq(S) /\ Len(right) = n + k /\ \A i \in 1 .. n + k : right[i] = s[i]
  BY <1>0, BeginningSeq
<1> HIDE DEF first, next, right
<1>4. /\ left \in Seq(S) /\ Len(left) = n + k
      /\ \A i \in 1 .. n + k : left[i] = IF i <= n THEN first[i] ELSE next[i - n]
  BY <1>1, <1>2, ConcatProperties
<1> HIDE DEF left
<1>5. ASSUME NEW i \in 1 .. n + k PROVE left[i] = right[i]
  <2>1. CASE i <= n
    BY <1>1, <1>3, <1>4, <2>1
  <2>2. CASE ~(i <= n)
    <3>1. i - n \in 1 .. k /\ n + (i - n) = i
      BY <2>2
    <3>2. left[i] = next[i - n]
      BY <1>4, <2>2
    <3>3. next[i - n] = s[n + (i - n)]
      BY <1>2, <3>1
    <3> QED
      BY <1>3, <3>1, <3>2, <3>3
  <2> QED
    BY <2>1, <2>2
<1>6. left = right
  BY <1>3, <1>4, <1>5, SeqEqual
<1> QED
  BY <1>6 DEF left, right, first, next

(* One more page, of a server that was asked for one user more than a page  *)
(* shows, and gave what was wanted next.                                    *)
PageFits(wanted, resp, n, limit) ==
  /\ Len(resp) = limit + 1 =>
       /\ SubSeq(wanted, 1, n) \o SubSeq(resp, 1, limit) = SubSeq(wanted, 1, n + limit)
       /\ n + limit < Len(wanted)
  /\ Len(resp) # limit + 1 => SubSeq(wanted, 1, n) \o resp = wanted

LEMMA PageAppended ==
  ASSUME NEW S, NEW wanted \in Seq(S), NEW resp \in Seq(S), NEW n \in Nat, NEW limit \in Nat,
         n + Len(resp) <= Len(wanted),
         Len(resp) # limit + 1 => n + Len(resp) = Len(wanted),
         \A i \in 1 .. Len(resp) : resp[i] = wanted[n + i]
  PROVE  PageFits(wanted, resp, n, limit)
<1>1. Len(wanted) \in Nat /\ Len(resp) \in Nat
  BY LenProperties
<1>2. ASSUME NEW k \in Nat, k <= Len(resp)
      PROVE  SubSeq(wanted, 1, n) \o SubSeq(resp, 1, k) = SubSeq(wanted, 1, n + k)
  <2>1. n + k <= Len(wanted)
    BY <1>1, <1>2
  <2>2. \A i \in 1 .. k : resp[i] = wanted[n + i]
    BY <1>1, <1>2
  <2> QED
    BY <1>2, <2>1, <2>2, Joined
<1>3. CASE Len(resp) = limit + 1
  <2>1. n + limit < Len(wanted) /\ limit <= Len(resp)
    BY <1>1, <1>3
  <2> QED
    BY <1>2, <1>3, <2>1 DEF PageFits
<1>4. CASE Len(resp) # limit + 1
  <2>1. n + Len(resp) = Len(wanted) /\ Len(resp) <= Len(resp)
    BY <1>1, <1>4
  <2>2. SubSeq(wanted, 1, n) \o SubSeq(resp, 1, Len(resp)) = SubSeq(wanted, 1, Len(wanted))
    BY <1>1, <1>2, <2>1
  <2>3. SubSeq(resp, 1, Len(resp)) = resp /\ SubSeq(wanted, 1, Len(wanted)) = wanted
    BY SubSeqFull
  <2> QED
    BY <1>4, <2>2, <2>3 DEF PageFits
<1> QED
  BY <1>3, <1>4

(* How many users that answer has: N are there, o are skipped, W are wanted *)
(* and n of them shown.                                                     *)
LEMMA PageLengths ==
  ASSUME NEW N \in Nat, NEW o \in Nat, NEW n \in Nat, NEW limit \in Nat,
         NEW a \in Nat, a = o + n,
         NEW end \in Int, end <= N, end <= a + (limit + 1), end # a + (limit + 1) => end = N,
         NEW W, W = (IF o < N THEN N - o ELSE 0), n <= W,
         NEW R, R = (IF a < end THEN end - a ELSE 0)
  PROVE  /\ W \in Nat /\ R \in Nat /\ n + R <= W
         /\ R # limit + 1 => n + R = W
         /\ \A i \in 1 .. R : i \in 1 .. end - a /\ n + i \in 1 .. N - o /\ a + i = o + (n + i)
OBVIOUS

LEMMA AnswerIsNext ==
  ASSUME NEW S, NEW all, NEW wanted \in Seq(S), NEW resp \in Seq(S),
         NEW N \in Nat, NEW o \in Nat, NEW n \in Nat, NEW limit \in Nat,
         NEW a \in Nat, a = o + n,
         NEW end \in Int, end <= N, end <= a + (limit + 1), end # a + (limit + 1) => end = N,
         Len(wanted) = (IF o < N THEN N - o ELSE 0), n <= Len(wanted),
         \A i \in 1 .. N - o : wanted[i] = all[o + i],
         Len(resp) = (IF a < end THEN end - a ELSE 0),
         \A i \in 1 .. end - a : resp[i] = all[a + i]
  PROVE  /\ n + Len(resp) <= Len(wanted)
         /\ Len(resp) # limit + 1 => n + Len(resp) = Len(wanted)
         /\ \A i \in 1 .. Len(resp) : resp[i] = wanted[n + i]
<1> DEFINE W == Len(wanted)
           R == Len(resp)
<1>1. W = (IF o < N THEN N - o ELSE 0) /\ n <= W /\ R = (IF a < end THEN end - a ELSE 0)
  OBVIOUS
<1> HIDE DEF W, R
<1>2. /\ n + R <= W
      /\ R # limit + 1 => n + R = W
      /\ \A i \in 1 .. R : i \in 1 .. end - a /\ n + i \in 1 .. N - o /\ a + i = o + (n + i)
  BY <1>1, PageLengths
<1>3. \A i \in 1 .. R : resp[i] = wanted[n + i]
  BY <1>2
<1> QED
  BY <1>2, <1>3 DEF W, R

(* What is left after skipping, and what a server that pages gives of it.   *)
Rest(all, o) == SubSeq(all, o + 1, Len(all))
Given(all, a, count) == SubSeq(all, a + 1, Smaller(a + count, Len(all)))

PageComes(S, all, o, n, a, limit) ==
  LET wanted == Rest(all, o)
      resp == Given(all, a, limit + 1)
  IN /\ wanted \in Seq(S) /\ resp \in Seq(S)
     /\ Len(resp) = limit + 1 =>
          /\ SubSeq(wanted, 1, n) \o SubSeq(resp, 1, limit) = SubSeq(wanted, 1, n + limit)
          /\ n + limit < Len(wanted)
     /\ Len(resp) # limit + 1 => SubSeq(wanted, 1, n) \o resp = wanted

LEMMA TurnedPage ==
  ASSUME NEW S, NEW all \in Seq(S), NEW o \in Nat, NEW limit \in Nat,
         NEW n \in Nat, n <= Len(Rest(all, o)), NEW a \in Nat, a = o + n
  PROVE  PageComes(S, all, o, n, a, limit)
<1> DEFINE wanted == Rest(all, o)
           resp == Given(all, a, limit + 1)
           end == Smaller(a + (limit + 1), Len(all))
           N == Len(all)
<1>1. /\ N \in Nat /\ end \in Int /\ end <= N
      /\ end <= a + (limit + 1) /\ (end # a + (limit + 1) => end = N)
  BY LenProperties DEF Smaller
<1>2. /\ wanted \in Seq(S) /\ Len(wanted) = (IF o < N THEN N - o ELSE 0)
      /\ \A i \in 1 .. N - o : wanted[i] = all[o + i]
  BY <1>1, Slice DEF Rest
<1>3. resp = SubSeq(all, a + 1, end)
  BY DEF Given
<1> HIDE DEF end, resp
<1>4. /\ resp \in Seq(S) /\ Len(resp) = (IF a < end THEN end - a ELSE 0)
      /\ \A i \in 1 .. end - a : resp[i] = all[a + i]
  BY <1>1, <1>3, Slice
<1>5. n <= Len(wanted)
  OBVIOUS
<1> HIDE DEF N, wanted
<1>6. /\ n + Len(resp) <= Len(wanted)
      /\ Len(resp) # limit + 1 => n + Len(resp) = Len(wanted)
      /\ \A i \in 1 .. Len(resp) : resp[i] = wanted[n + i]
  BY <1>1, <1>2, <1>4, <1>5, AnswerIsNext
<1>7. PageFits(wanted, resp, n, limit)
  BY <1>2, <1>4, <1>6, PageAppended
<1> QED
  BY <1>2, <1>4, <1>7 DEF PageFits, PageComes, wanted, resp

-----------------------------------------------------------------------------
(* What a call makes of an answer: an error and no users, or a page.        *)
FailedCall(p) == p.err # "" /\ p.users = <<>> /\ p.nextPage = FALSE
PageOf(p, users, limit) ==
  /\ p.err = ""
  /\ Len(users) = limit + 1 => p.users = SubSeq(users, 1, limit) /\ p.nextPage = TRUE
  /\ Len(users) # limit + 1 => p.users = users /\ p.nextPage = FALSE

LEMMA ErrorFails ==
  ASSUME NEW error, error # ""
  PROVE  FailedCall(Failed(error))
BY DEF FailedCall, Failed

LEMMA FullPage ==
  ASSUME NEW users, NEW limit, Len(users) = limit + 1
  PROVE  PageOf(Page(SubSeq(users, 1, limit), TRUE), users, limit)
BY Zenon DEF PageOf, Page

LEMMA LastPage ==
  ASSUME NEW users, NEW limit, Len(users) # limit + 1
  PROVE  PageOf(Page(users, FALSE), users, limit)
BY Zenon DEF PageOf, Page

LEMMA SentFields ==
  ASSUME NEW req \in SearchRequest
  PROVE  /\ Sent(req).Limit = Smaller(req.Limit, MaxLimit) + 1
         /\ Sent(req).Offset = req.Offset
         /\ Sent(req).OrderField = req.OrderField /\ Sent(req).OrderBy = req.OrderBy
BY DEF Sent, SearchRequest

LEMMA ResultCases ==
  ASSUME NEW req, NEW resp
  PROVE  \/ FailedCall(Result(req, resp))
         \/ /\ resp.error = ""
            /\ Result(req, resp) =
                 IF Len(resp.users) = Sent(req).Limit
                 THEN Page(SubSeq(resp.users, 1, Len(resp.users) - 1), TRUE)
                 ELSE Page(resp.users, FALSE)
<1>1. CASE resp.status = "timeout"
  BY <1>1, ErrorFails DEF Result
<1>2. CASE resp.status = "broken"
  BY <1>2, ErrorFails DEF Result
<1>3. CASE resp.status = "Unauthorized"
  BY <1>3, ErrorFails DEF Result
<1>4. CASE resp.status = "InternalServerError"
  BY <1>4, ErrorFails DEF Result
<1>5. CASE resp.status = "BadRequest"
  <2>1. \E error \in {"OrderField invalid", "cant unpack error json", "unknown bad request error"} :
           Result(req, resp) = Failed(error)
    BY <1>5 DEF Result
  <2> QED
    BY <2>1, ErrorFails
<1>6. CASE /\ resp.status # "timeout" /\ resp.status # "broken" /\ resp.status # "Unauthorized"
           /\ resp.status # "InternalServerError" /\ resp.status # "BadRequest"
  <2>1. Result(req, resp) =
          IF resp.error # "" THEN Failed("cant unpack result json")
          ELSE IF Len(resp.users) = Sent(req).Limit
          THEN Page(SubSeq(resp.users, 1, Len(resp.users) - 1), TRUE)
          ELSE Page(resp.users, FALSE)
    BY <1>6 DEF Result
  <2>2. CASE resp.error # ""
    <3>1. Result(req, resp) = Failed("cant unpack result json")
      BY <2>1, <2>2
    <3> QED
      BY <3>1, ErrorFails
  <2>3. CASE resp.error = ""
    BY <2>1, <2>3
  <2> QED
    BY <2>2, <2>3
<1> QED
  BY <1>1, <1>2, <1>3, <1>4, <1>5, <1>6

LEMMA ResultOf ==
  ASSUME NEW req \in SearchRequest, NEW limit \in Nat, Sent(req).Limit = limit + 1,
         NEW resp
  PROVE  \/ FailedCall(Result(req, resp))
         \/ resp.error = "" /\ PageOf(Result(req, resp), resp.users, limit)
<1>1. CASE FailedCall(Result(req, resp))
  BY <1>1
<1>2. CASE /\ resp.error = ""
           /\ Result(req, resp) =
                IF Len(resp.users) = Sent(req).Limit
                THEN Page(SubSeq(resp.users, 1, Len(resp.users) - 1), TRUE)
                ELSE Page(resp.users, FALSE)
  <2>1. CASE Len(resp.users) = limit + 1
    <3>1. Len(resp.users) = Sent(req).Limit /\ Len(resp.users) - 1 = limit
      BY <2>1
    <3>2. Result(req, resp) = Page(SubSeq(resp.users, 1, limit), TRUE)
      BY <1>2, <3>1
    <3> QED
      BY <1>2, <2>1, <3>2, FullPage
  <2>2. CASE Len(resp.users) # limit + 1
    <3>1. Len(resp.users) # Sent(req).Limit
      BY <2>2
    <3>2. Result(req, resp) = Page(resp.users, FALSE)
      BY <1>2, <3>1
    <3> QED
      BY <1>2, <2>2, <3>2, LastPage
  <2> QED
    BY <2>1, <2>2
<1> QED
  BY <1>1, <1>2, ResultCases

(* A call that is allowed fails, or shows what its server answered.         *)
LEMMA CallOf ==
  ASSUME NEW c, NEW req \in SearchRequest, req.Limit >= 0, req.Offset >= 0,
         NEW limit \in Nat, Sent(req).Limit = limit + 1,
         NEW p \in FindUsers(c, req)
  PROVE  \/ FailedCall(p)
         \/ /\ c.server = "tests" /\ SearchServer(c.users, Sent(req)).error = ""
            /\ PageOf(p, SearchServer(c.users, Sent(req)).users, limit)
         \/ /\ c.server # "tests"
            /\ PageOf(p, PagingServer(c.users, Sent(req)).users, limit)
<1>1. ~(req.Limit < 0) /\ ~(req.Offset < 0)
  BY DEF SearchRequest
<1>2. \E resp \in Answers(c, Sent(req)) : p = Result(req, resp)
  BY <1>1 DEF FindUsers
<1>3. PICK resp \in Answers(c, Sent(req)) : p = Result(req, resp)
  BY <1>2
<1>4. FailedCall(p) \/ (resp.error = "" /\ PageOf(p, resp.users, limit))
  BY <1>3, ResultOf
<1>5. ASSUME resp \in Failures PROVE resp.error # ""
  <2>1. \A status, error : Respond(status, error, <<>>).error = error
    BY DEF Respond
  <2>2. \/ \E status : resp = Respond(status, "no json", <<>>)
        \/ resp = Respond("BadRequest", "ErrorBadOrderField", <<>>)
        \/ resp = Respond("BadRequest", "other", <<>>)
    BY <1>5 DEF Failures
  <2>3. resp.error = "no json" \/ resp.error = "ErrorBadOrderField" \/ resp.error = "other"
    BY <2>1, <2>2
  <2> QED
    BY <2>3
<1>6. resp \notin Failures =>
        IF c.server = "tests" THEN resp = SearchServer(c.users, Sent(req))
        ELSE resp = PagingServer(c.users, Sent(req))
  BY DEF Answers
<1> QED
  BY <1>4, <1>5, <1>6

(* A negative limit or offset is an error.                                  *)
LEMMA CallRefused ==
  ASSUME NEW c, NEW req \in SearchRequest, req.Limit < 0 \/ req.Offset < 0,
         NEW p \in FindUsers(c, req)
  PROVE  FailedCall(p)
<1>1. \E error \in {"limit must be > 0", "offset must be > 0"} : p = Failed(error)
  BY DEF FindUsers
<1> QED
  BY <1>1, ErrorFails

LEMMA SameOrder ==
  ASSUME NEW users, NEW req, NEW other,
         other.OrderField = req.OrderField, other.OrderBy = req.OrderBy
  PROVE  Ordered(users, other) = Ordered(users, req)
BY DEF Ordered, Sortings

-----------------------------------------------------------------------------
(* PagesTurn, of any pages shown.                                           *)
Turned(wanted, limit, seen, next, error, count) ==
  /\ seen = Beginning(wanted, Len(seen))
  /\ next = TRUE => Len(seen) = count * limit
  /\ next = TRUE /\ count > 0 => Len(seen) < Len(wanted)
  /\ next = FALSE /\ error = "" => seen = wanted

PagesAfter(p, count) == IF p.err = "" THEN count + 1 ELSE count

LEMMA BeginningOf ==
  ASSUME NEW S, NEW s \in Seq(S), NEW k \in Nat, k <= Len(s)
  PROVE  /\ SubSeq(s, 1, k) = Beginning(s, k)
         /\ SubSeq(s, 1, k) = Beginning(s, Len(SubSeq(s, 1, k)))
<1>1. Len(SubSeq(s, 1, k)) = k
  BY BeginningSeq
<1>2. Len(s) \in Nat
  BY LenProperties
<1>3. Smaller(k, Len(s)) = k
  BY <1>2 DEF Smaller
<1> QED
  BY <1>1, <1>3 DEF Beginning

LEMMA NothingTurned ==
  ASSUME NEW S, NEW wanted \in Seq(S), NEW limit \in Nat, NEW error
  PROVE  Turned(wanted, limit, <<>>, TRUE, error, 0)
<1>1. Len(wanted) \in Nat
  BY LenProperties
<1>2. Smaller(0, Len(wanted)) = 0
  BY <1>1 DEF Smaller
<1>3. Len(SubSeq(wanted, 1, 0)) = 0 /\ SubSeq(wanted, 1, 0) \in Seq(S)
  BY <1>1, BeginningSeq
<1>4. SubSeq(wanted, 1, 0) = <<>>
  BY <1>3, EmptySeq
<1>5. Len(<<>>) = 0 /\ 0 * limit = 0
  BY EmptySeq
<1> QED
  BY <1>2, <1>4, <1>5 DEF Turned, Beginning

(* One call keeps it, whether it fails or not.                              *)
LEMMA TurnedOnce ==
  ASSUME NEW S, NEW all \in Seq(S), NEW o \in Nat, NEW limit \in Nat, NEW count \in Nat,
         NEW seen \in Seq(S), NEW error, Turned(Rest(all, o), limit, seen, TRUE, error, count),
         NEW a \in Nat, a = o + Len(seen),
         NEW p, FailedCall(p) \/ PageOf(p, Given(all, a, limit + 1), limit),
         NEW after, after = PagesAfter(p, count)
  PROVE  /\ seen \o p.users \in Seq(S)
         /\ Turned(Rest(all, o), limit, seen \o p.users, p.nextPage, p.err, after)
<1> DEFINE wanted == Rest(all, o)
           resp == Given(all, a, limit + 1)
           n == Len(seen)
<1>1. n \in Nat /\ Len(all) \in Nat
  BY LenProperties
<1>2. wanted \in Seq(S)
  BY <1>1, Slice DEF Rest
<1>3. Len(wanted) \in Nat
  BY <1>2, LenProperties
<1>4. n <= Len(wanted) /\ seen = SubSeq(wanted, 1, n)
  <2>1. seen = SubSeq(wanted, 1, Smaller(n, Len(wanted)))
    BY DEF Turned, Beginning
  <2> HIDE DEF wanted
  <2> DEFINE k == Smaller(n, Len(wanted))
  <2>2. k \in Nat /\ k <= Len(wanted) /\ (k # n => k = Len(wanted) /\ k < n)
    BY <1>1, <1>3 DEF Smaller
  <2>3. seen = SubSeq(wanted, 1, k)
    BY <2>1
  <2> HIDE DEF k
  <2>4. Len(SubSeq(wanted, 1, k)) = k
    BY <1>2, <2>2, BeginningSeq
  <2>5. k = n
    BY <2>3, <2>4
  <2> QED
    BY <2>2, <2>3, <2>5
<1>5. n = count * limit
  BY DEF Turned
<1>6. CASE FailedCall(p)
  <2>1. seen \o <<>> = seen
    BY ConcatEmptySeq
  <2>2. p.err # "" /\ seen \o p.users = seen /\ p.nextPage = FALSE
    BY <1>6, <2>1 DEF FailedCall
  <2> QED
    BY <2>2, Zenon DEF Turned
<1>7. CASE PageOf(p, resp, limit)
  <2>1. /\ resp \in Seq(S)
        /\ Len(resp) = limit + 1 =>
             /\ SubSeq(wanted, 1, n) \o SubSeq(resp, 1, limit) = SubSeq(wanted, 1, n + limit)
             /\ n + limit < Len(wanted)
        /\ Len(resp) # limit + 1 => SubSeq(wanted, 1, n) \o resp = wanted
    <3>1. n \in Nat /\ n <= Len(Rest(all, o)) /\ a = o + n
      BY <1>1, <1>4
    <3> HIDE DEF n
    <3>2. PageComes(S, all, o, n, a, limit)
      BY <3>1, TurnedPage
    <3> QED
      BY <3>2 DEF PageComes
  <2>2. after = count + 1
    BY <1>7, Zenon DEF PageOf, PagesAfter
  <2> HIDE DEF wanted, resp, n
  <2>3. CASE Len(resp) = limit + 1
    <3>1. seen \o p.users = SubSeq(wanted, 1, n + limit) /\ p.nextPage = TRUE
      BY <1>4, <1>7, <2>1, <2>3, Zenon DEF PageOf
    <3>2. n + limit \in Nat /\ n + limit <= Len(wanted) /\ n + limit < Len(wanted)
      BY <1>1, <1>3, <2>1, <2>3
    <3>3. /\ SubSeq(wanted, 1, n + limit) \in Seq(S)
          /\ Len(SubSeq(wanted, 1, n + limit)) = n + limit
      BY <1>2, <3>2, BeginningSeq
    <3>4. SubSeq(wanted, 1, n + limit) = Beginning(wanted, Len(SubSeq(wanted, 1, n + limit)))
      BY <1>2, <3>2, BeginningOf
    <3>5. n + limit = (count + 1) * limit
      BY <1>5
    <3>6. Turned(wanted, limit, SubSeq(wanted, 1, n + limit), TRUE, p.err, after)
      <4>1. Len(SubSeq(wanted, 1, n + limit)) = after * limit
        BY <2>2, <3>3, <3>5, Zenon
      <4>2. Len(SubSeq(wanted, 1, n + limit)) < Len(wanted)
        BY <3>2, <3>3, Zenon
      <4> QED
        BY <3>4, <4>1, <4>2, Zenon DEF Turned
    <3> QED
      BY <3>1, <3>3, <3>6, Zenon DEF wanted
  <2>4. CASE Len(resp) # limit + 1
    <3>1. seen \o p.users = wanted /\ p.nextPage = FALSE
      BY <1>4, <1>7, <2>1, <2>4, Zenon DEF PageOf
    <3>2. wanted = Beginning(wanted, Len(wanted))
      <4>1. SubSeq(wanted, 1, Len(wanted)) = wanted
        BY <1>2, SubSeqFull
      <4>2. Len(wanted) <= Len(wanted)
        BY <1>3
      <4> QED
        BY <1>2, <1>3, <4>1, <4>2, BeginningOf
    <3>3. Turned(wanted, limit, wanted, FALSE, p.err, after)
      BY <3>2, Zenon DEF Turned
    <3> QED
      BY <1>2, <3>1, <3>3, Zenon DEF wanted
  <2> QED
    BY <2>3, <2>4
<1> QED
  BY <1>6, <1>7 DEF resp

-----------------------------------------------------------------------------
(* The first page of the test's server, if sorting before or after it stops *)
(* looking is the same.                                                     *)
LEMMA AllIsBeginning ==
  ASSUME NEW S, NEW s \in Seq(S), NEW k \in Nat, Len(s) <= k
  PROVE  Beginning(s, k) = s
<1>1. Len(s) \in Nat
  BY LenProperties
<1>2. Smaller(k, Len(s)) = Len(s)
  BY <1>1 DEF Smaller
<1>3. SubSeq(s, 1, Len(s)) = s
  BY SubSeqFull
<1> QED
  BY <1>2, <1>3 DEF Beginning

LEMMA BeginningTwice ==
  ASSUME NEW S, NEW s \in Seq(S), NEW j \in Nat, NEW k \in Nat, j <= k, k <= Len(s)
  PROVE  SubSeq(SubSeq(s, 1, k), 1, j) = SubSeq(s, 1, j)
<1> DEFINE t == SubSeq(s, 1, k)
           left == SubSeq(t, 1, j)
           right == SubSeq(s, 1, j)
<1>1. t \in Seq(S) /\ Len(t) = k /\ \A i \in 1 .. k : t[i] = s[i]
  BY BeginningSeq
<1>2. j <= Len(s)
  BY LenProperties
<1>3. right \in Seq(S) /\ Len(right) = j /\ \A i \in 1 .. j : right[i] = s[i]
  BY <1>2, BeginningSeq
<1> HIDE DEF t
<1>4. left \in Seq(S) /\ Len(left) = j /\ \A i \in 1 .. j : left[i] = t[i]
  BY <1>1, BeginningSeq
<1> HIDE DEF left, right
<1>5. \A i \in 1 .. j : left[i] = right[i]
  BY <1>1, <1>3, <1>4
<1>6. left = right
  BY <1>3, <1>4, <1>5, SeqEqual
<1> QED
  BY <1>6 DEF left, right, t

LEMMA FirstOf ==
  ASSUME NEW S, NEW all \in Seq(S), NEW limit \in Nat,
         NEW p, PageOf(p, Beginning(all, limit + 1), limit)
  PROVE  /\ p.users = Beginning(all, limit)
         /\ p.nextPage \in BOOLEAN /\ (p.nextPage = TRUE <=> Len(all) > limit)
<1> DEFINE N == Len(all)
           resp == Beginning(all, limit + 1)
<1>1. N \in Nat
  BY LenProperties
<1>2. CASE N > limit
  <2>1. limit + 1 <= Len(all) /\ limit <= limit + 1 /\ limit <= Len(all) /\ limit + 1 \in Nat
    BY <1>1, <1>2
  <2>2. resp = SubSeq(all, 1, limit + 1) /\ Beginning(all, limit) = SubSeq(all, 1, limit)
    <3>1. Smaller(limit + 1, Len(all)) = limit + 1 /\ Smaller(limit, Len(all)) = limit
      BY <1>1, <1>2 DEF Smaller
    <3> QED
      BY <3>1 DEF Beginning
  <2>3. Len(resp) = limit + 1
    BY <2>1, <2>2, BeginningSeq
  <2>4. SubSeq(resp, 1, limit) = SubSeq(all, 1, limit)
    BY <2>1, <2>2, BeginningTwice
  <2>5. p.users = SubSeq(resp, 1, limit) /\ p.nextPage = TRUE
    BY <2>3, Zenon DEF PageOf
  <2> QED
    BY <1>2, <2>2, <2>4, <2>5
<1>3. CASE ~(N > limit)
  <2>1. Len(all) <= limit /\ Len(all) <= limit + 1 /\ limit + 1 \in Nat /\ N # limit + 1
    BY <1>1, <1>3
  <2>2. resp = all /\ Beginning(all, limit) = all
    BY <2>1, AllIsBeginning
  <2>3. p.users = all /\ p.nextPage = FALSE
    BY <2>1, <2>2, Zenon DEF PageOf
  <2> QED
    BY <1>3, <2>2, <2>3
<1> QED
  BY <1>2, <1>3

LEMMA SortedEnough ==
  ASSUME NEW S, NEW found \in Seq(S), NEW req, NEW count \in Nat,
         req.OrderBy = 0 \/ Len(found) <= count
  PROVE  Ordered(Beginning(found, count), req) = Beginning(Ordered(found, req), count)
<1>1. CASE Len(found) <= count
  <2>1. Beginning(found, count) = found
    BY <1>1, AllIsBeginning
  <2> DEFINE all == Ordered(found, req)
             T == Elements(all)
  <2>2. all \in Seq(T) /\ Len(all) = Len(found)
    BY OrderedSeq
  <2> HIDE DEF all, T
  <2>3. Beginning(all, count) = all
    BY <1>1, <2>2, AllIsBeginning
  <2> QED
    BY <2>1, <2>3 DEF all
<1>2. CASE req.OrderBy = 0
  <2>1. Ordered(found, req) = found
    BY <1>2, AsIs
  <2> DEFINE k == Smaller(count, Len(found))
             some == SubSeq(found, 1, k)
  <2>2. k \in Nat /\ k <= Len(found)
    BY LenProperties DEF Smaller
  <2> HIDE DEF k
  <2>3. some \in Seq(S)
    BY <2>2, BeginningSeq
  <2> HIDE DEF some
  <2>4. Ordered(some, req) = some
    BY <1>2, <2>3, AsIs
  <2> QED
    BY <2>1, <2>4 DEF some, k, Beginning
<1> QED
  BY <1>1, <1>2

-----------------------------------------------------------------------------
(* PagesComplete, of any case asked and any pages shown.                    *)
All(c) == Ordered(Matching(c.users), c.req)
PageLimit(c) == Smaller(c.req.Limit, MaxLimit)
Refused(c) == c.req.Limit < 0 \/ c.req.Offset < 0

FirstRight(c, seen, next) ==
  \/ c.req.OrderBy # 0 /\ Len(Matching(c.users)) > PageLimit(c) + 1
  \/ /\ seen = Beginning(Rest(All(c), c.req.Offset), PageLimit(c))
     /\ next = TRUE <=> Len(Rest(All(c), c.req.Offset)) > PageLimit(c)

PagesCompleteFor(c, seen, next, error, count) ==
  /\ error # "" => next = FALSE
  /\ Refused(c) => seen = <<>> /\ count = 0
  /\ ~Refused(c) /\ c.server = "pages" =>
       Turned(Rest(All(c), c.req.Offset), PageLimit(c), seen, next, error, count)
  /\ ~Refused(c) /\ c.server = "tests" /\ c.req.Offset = 0 /\ count = 1 /\ error = "" =>
       FirstRight(c, seen, next)

LEMMA CompleteNow ==
  ASSUME chosen # NoCase, more \in BOOLEAN
  PROVE  PagesComplete <=> PagesCompleteFor(chosen, shown, more, err, pages)
<1>1. Wanted = Rest(All(chosen), chosen.req.Offset) /\ Limit = PageLimit(chosen)
  BY DEF Wanted, Limit, Rest, All, PageLimit
<1>2. PagesTurn <=> Turned(Rest(All(chosen), chosen.req.Offset), PageLimit(chosen), shown, more, err, pages)
  BY <1>1, Zenon DEF PagesTurn, Turned
<1>3. FirstPageRight \/ (chosen.req.OrderBy # 0 /\ Len(Matching(chosen.users)) > Limit + 1)
        <=> FirstRight(chosen, shown, more)
  BY <1>1, Zenon DEF FirstPageRight, FirstRight
<1> QED
  BY <1>2, <1>3, Zenon DEF PagesComplete, PagesCompleteFor, Refused

LEMMA CompleteNext ==
  ASSUME chosen' # NoCase, more' \in BOOLEAN
  PROVE  PagesComplete' <=> PagesCompleteFor(chosen', shown', more', err', pages')
<1>1. Wanted' = Rest(All(chosen'), chosen'.req.Offset) /\ Limit' = PageLimit(chosen')
  BY DEF Wanted, Limit, Rest, All, PageLimit
<1>2. PagesTurn' <=> Turned(Rest(All(chosen'), chosen'.req.Offset), PageLimit(chosen'), shown', more', err', pages')
  BY <1>1, Zenon DEF PagesTurn, Turned
<1>3. FirstPageRight' \/ (chosen'.req.OrderBy # 0 /\ Len(Matching(chosen'.users)) > Limit' + 1)
        <=> FirstRight(chosen', shown', more')
  BY <1>1, Zenon DEF FirstPageRight, FirstRight
<1> QED
  BY <1>2, <1>3, Zenon DEF PagesComplete, PagesCompleteFor, Refused

LEMMA CaseTypes ==
  ASSUME NEW c \in Cases
  PROVE  /\ c.users \in Seq(Users) /\ c.req \in SearchRequest /\ c.server \in {"pages", "tests"}
         /\ c # NoCase
         /\ c.req.Limit \in Int /\ c.req.Offset \in Int
         /\ All(c) \in Seq(Elements(All(c)))
         /\ ~Refused(c) => c.req.Offset \in Nat /\ PageLimit(c) \in Nat
<1>1. c.users \in Seq(Users) /\ c.req \in SearchRequest /\ c.server \in {"pages", "tests"}
      /\ MaxLimit \in Nat
  BY CasesAssumption
<1>2. c # NoCase
  <2>1. NoCase.server = "none"
    BY DEF NoCase
  <2> QED
    BY <1>1, <2>1
<1>3. c.req.Limit \in Int /\ c.req.Offset \in Int
  BY <1>1 DEF SearchRequest
<1>4. All(c) \in Seq(Elements(All(c)))
  <2> DEFINE M == Matching(c.users)
             T == Elements(M)
  <2>1. M \in Seq(T)
    BY <1>1, MatchingSeq
  <2> HIDE DEF M, T
  <2>2. Ordered(M, c.req) \in Seq(Elements(Ordered(M, c.req)))
    BY <2>1, OrderedSeq
  <2> QED
    BY <2>2 DEF All, M
<1>5. ~Refused(c) => c.req.Offset \in Nat /\ PageLimit(c) \in Nat
  BY <1>1, <1>3 DEF Refused, PageLimit, Smaller
<1> QED
  BY <1>1, <1>2, <1>3, <1>4, <1>5

(* The request for the next page.                                           *)
NextReq(c, n) == [c.req EXCEPT !.Offset = @ + n]

LEMMA NextReqFields ==
  ASSUME NEW c \in Cases, NEW n \in Nat
  PROVE  /\ NextReq(c, n) \in SearchRequest
         /\ NextReq(c, n).Limit = c.req.Limit /\ NextReq(c, n).Offset = c.req.Offset + n
         /\ Sent(NextReq(c, n)).Limit = PageLimit(c) + 1
         /\ Sent(NextReq(c, n)).Offset = c.req.Offset + n
         /\ \A s : Ordered(s, Sent(NextReq(c, n))) = Ordered(s, c.req)
<1> DEFINE req == NextReq(c, n)
<1>1. c.req \in SearchRequest
  BY CaseTypes
<1>2. /\ req \in SearchRequest /\ req.Limit = c.req.Limit /\ req.Offset = c.req.Offset + n
      /\ req.OrderField = c.req.OrderField /\ req.OrderBy = c.req.OrderBy
  BY <1>1 DEF NextReq, SearchRequest
<1> HIDE DEF req
<1>3. /\ Sent(req).Limit = Smaller(req.Limit, MaxLimit) + 1
      /\ Sent(req).Offset = req.Offset
      /\ Sent(req).OrderField = req.OrderField /\ Sent(req).OrderBy = req.OrderBy
  BY <1>2, SentFields
<1>4. \A s : Ordered(s, Sent(req)) = Ordered(s, c.req)
  BY <1>2, <1>3, SameOrder
<1> QED
  BY <1>2, <1>3, <1>4 DEF PageLimit, req

LEMMA PageOrError ==
  ASSUME NEW c, NEW req, NEW p \in FindUsers(c, req)
  PROVE  FailedCall(p) \/ (p.err = "" /\ p.nextPage \in BOOLEAN)
<1>1. \A resp : \/ FailedCall(Result(req, resp))
                \/ Result(req, resp).err = "" /\ Result(req, resp).nextPage \in BOOLEAN
  <2>1. \A users, nextPage : Page(users, nextPage).err = "" /\ Page(users, nextPage).nextPage = nextPage
    BY Zenon DEF Page
  <2> TAKE resp
  <2>2. \/ FailedCall(Result(req, resp))
        \/ \E users : Result(req, resp) = Page(users, TRUE)
        \/ \E users : Result(req, resp) = Page(users, FALSE)
    BY ResultCases, Zenon
  <2> QED
    BY <2>1, <2>2, Zenon
<1>2. FailedCall(Failed("limit must be > 0")) /\ FailedCall(Failed("offset must be > 0"))
  BY ErrorFails
<1>3. \/ p = Failed("limit must be > 0") \/ p = Failed("offset must be > 0")
      \/ \E resp \in Answers(c, Sent(req)) : p = Result(req, resp)
  BY DEF FindUsers
<1> QED
  BY <1>1, <1>2, <1>3, Zenon

(* A call for the next page fails or shows the server's answer.             *)
LEMMA NextCall ==
  ASSUME NEW c \in Cases, ~Refused(c), NEW n \in Nat,
         NEW p \in FindUsers(c, NextReq(c, n))
  PROVE  \/ FailedCall(p)
         \/ /\ c.server = "tests"
            /\ SearchServer(c.users, Sent(NextReq(c, n))).error = ""
            /\ PageOf(p, SearchServer(c.users, Sent(NextReq(c, n))).users, PageLimit(c))
         \/ /\ c.server = "pages"
            /\ PageOf(p, Given(All(c), c.req.Offset + n, PageLimit(c) + 1), PageLimit(c))
<1> DEFINE req == NextReq(c, n)
           limit == PageLimit(c)
           o == c.req.Offset
<1>1. /\ req \in SearchRequest /\ req.Limit = c.req.Limit /\ req.Offset = o + n
      /\ Sent(req).Limit = limit + 1 /\ Sent(req).Offset = o + n
      /\ \A s : Ordered(s, Sent(req)) = Ordered(s, c.req)
  BY NextReqFields
<1>2. /\ c.req.Limit \in Int /\ o \in Nat /\ limit \in Nat /\ c.server \in {"pages", "tests"}
  BY CaseTypes
<1>3. c.req.Limit >= 0
  BY <1>2 DEF Refused
<1>4. p \in FindUsers(c, req)
  OBVIOUS
<1> HIDE DEF req, limit, o
<1>5. req.Limit >= 0 /\ req.Offset >= 0
  BY <1>1, <1>2, <1>3
<1>6. \/ FailedCall(p)
      \/ /\ c.server = "tests" /\ SearchServer(c.users, Sent(req)).error = ""
         /\ PageOf(p, SearchServer(c.users, Sent(req)).users, limit)
      \/ /\ c.server # "tests"
         /\ PageOf(p, PagingServer(c.users, Sent(req)).users, limit)
  BY <1>1, <1>2, <1>4, <1>5, CallOf
<1>7. PagingServer(c.users, Sent(req)).users = Given(All(c), o + n, limit + 1)
  <2>1. Ordered(Matching(c.users), Sent(req)) = All(c)
    BY <1>1 DEF All
  <2> DEFINE served == SubSeq(All(c), Sent(req).Offset + 1,
                              Smaller(Sent(req).Offset + Sent(req).Limit, Len(All(c))))
  <2>2. served = Given(All(c), o + n, limit + 1)
    BY <1>1 DEF Given
  <2>3. PagingServer(c.users, Sent(req)) = Respond("OK", "", served)
    BY <2>1, Zenon DEF PagingServer
  <2> HIDE DEF served
  <2>4. Respond("OK", "", served).users = served
    BY Zenon DEF Respond
  <2> QED
    BY <2>2, <2>3, <2>4, Zenon
<1> QED
  BY <1>2, <1>6, <1>7, Zenon DEF req, limit, o

LEMMA TurnPages ==
  ASSUME NEW c \in Cases, c.server = "pages", ~Refused(c), NEW count \in Nat,
         NEW seen \in Seq(Elements(All(c))), NEW error,
         Turned(Rest(All(c), c.req.Offset), PageLimit(c), seen, TRUE, error, count),
         NEW p \in FindUsers(c, NextReq(c, Len(seen)))
  PROVE  /\ seen \o p.users \in Seq(Elements(All(c)))
         /\ Turned(Rest(All(c), c.req.Offset), PageLimit(c), seen \o p.users, p.nextPage, p.err,
                   PagesAfter(p, count))
<1> DEFINE n == Len(seen)
           a == c.req.Offset + n
           S == Elements(All(c))
           after == PagesAfter(p, count)
<1>1. n \in Nat
  BY LenProperties
<1>2. "pages" # "tests"
  OBVIOUS
<1>3. FailedCall(p) \/ PageOf(p, Given(All(c), a, PageLimit(c) + 1), PageLimit(c))
  BY <1>1, <1>2, NextCall
<1>4. c.req.Offset \in Nat /\ PageLimit(c) \in Nat /\ All(c) \in Seq(S)
  BY CaseTypes
<1>5. a \in Nat /\ a = c.req.Offset + Len(seen)
  BY <1>1, <1>4
<1>6. seen \in Seq(S) /\ after = PagesAfter(p, count)
  OBVIOUS
<1> HIDE DEF a, S, n, after
<1>7. /\ seen \o p.users \in Seq(S)
      /\ Turned(Rest(All(c), c.req.Offset), PageLimit(c), seen \o p.users, p.nextPage, p.err, after)
  BY <1>3, <1>4, <1>5, <1>6, TurnedOnce
<1> QED
  BY <1>7 DEF S, after

LEMMA FirstPage ==
  ASSUME NEW c \in Cases, c.server = "tests", ~Refused(c), c.req.Offset = 0,
         NEW p \in FindUsers(c, NextReq(c, 0)), ~FailedCall(p)
  PROVE  FirstRight(c, p.users, p.nextPage)
<1> DEFINE req == NextReq(c, 0)
           limit == PageLimit(c)
           M == Matching(c.users)
           all == All(c)
           some == Ordered(Beginning(M, limit + 1), c.req)
           T == Elements(M)
           S == Elements(all)
<1>1. limit \in Nat /\ all \in Seq(S) /\ c.users \in Seq(Users)
  BY CaseTypes
<1>2. M \in Seq(T)
  BY <1>1, MatchingSeq
<1>3. Len(M) \in Nat
  BY <1>2, LenProperties
<1>4. /\ Sent(req).Limit = limit + 1 /\ Sent(req).Offset = 0
      /\ \A s : Ordered(s, Sent(req)) = Ordered(s, c.req)
  BY NextReqFields
<1>5. /\ SearchServer(c.users, Sent(req)).error = ""
      /\ PageOf(p, SearchServer(c.users, Sent(req)).users, limit)
  <2>1. "pages" # "tests" /\ 0 \in Nat
    OBVIOUS
  <2> QED
    BY <2>1, NextCall, Zenon
<1> HIDE DEF req
<1>6. SearchServer(c.users, Sent(req)).users = SubSeq(some, 0 + 1, Len(some))
  <2>1. Ordered(SubSeq(M, 1, Smaller(Sent(req).Limit, Len(M))), Sent(req)) = some
    BY <1>4, Zenon DEF Beginning
  <2> HIDE DEF some
  <2>2. SearchServer(c.users, Sent(req)) =
          IF ~Sent(req).TokenOk THEN Respond("Unauthorized", "no json", <<>>)
          ELSE IF Sent(req).OrderField \notin {"", "Id", "Age", "Name"}
          THEN Respond("BadRequest", "ErrorBadOrderField", <<>>)
          ELSE IF Sent(req).Offset > Len(some) THEN Respond("broken", "no json", <<>>)
          ELSE Respond("OK", "", SubSeq(some, Sent(req).Offset + 1, Len(some)))
    BY <2>1, Zenon DEF SearchServer
  <2>3. /\ Respond("Unauthorized", "no json", <<>>).error = "no json"
        /\ Respond("BadRequest", "ErrorBadOrderField", <<>>).error = "ErrorBadOrderField"
        /\ Respond("broken", "no json", <<>>).error = "no json"
    BY Zenon DEF Respond
  <2>4. "no json" # "" /\ "ErrorBadOrderField" # ""
    BY Zenon
  <2> DEFINE served == SubSeq(some, Sent(req).Offset + 1, Len(some))
  <2>5. SearchServer(c.users, Sent(req)) = Respond("OK", "", served)
    BY <1>5, <2>2, <2>3, <2>4, Zenon
  <2>6. served = SubSeq(some, 0 + 1, Len(some))
    BY <1>4
  <2> HIDE DEF served
  <2>7. Respond("OK", "", served).users = served
    BY Zenon DEF Respond
  <2> QED
    BY <2>5, <2>6, <2>7, Zenon
<1>7. CASE c.req.OrderBy # 0 /\ Len(M) > limit + 1
  BY <1>7 DEF FirstRight
<1>8. CASE ~(c.req.OrderBy # 0 /\ Len(M) > limit + 1)
  <2>1. c.req.OrderBy = 0 \/ Len(M) <= limit + 1
    BY <1>1, <1>3, <1>8
  <2>2. limit + 1 \in Nat
    BY <1>1
  <2>3. all = Ordered(M, c.req)
    BY DEF All
  <2> HIDE DEF M, limit, T, all, S
  <2>4. some = Beginning(all, limit + 1)
    BY <1>2, <2>1, <2>2, <2>3, SortedEnough
  <2> HIDE DEF some
  <2>5. SubSeq(some, 0 + 1, Len(some)) = some
    <3> DEFINE k == Smaller(limit + 1, Len(all))
    <3>1. k \in Nat /\ k <= Len(all)
      BY <1>1, <2>2, LenProperties DEF Smaller
    <3>2. some = SubSeq(all, 1, k)
      BY <2>4 DEF Beginning
    <3> HIDE DEF k
    <3>3. some \in Seq(S)
      BY <1>1, <3>1, <3>2, BeginningSeq
    <3> QED
      BY <3>3, SubSeqFull
  <2>6. PageOf(p, Beginning(all, limit + 1), limit)
    BY <1>5, <1>6, <2>4, <2>5, Zenon
  <2>7. p.users = Beginning(all, limit) /\ (p.nextPage = TRUE <=> Len(all) > limit)
    BY <1>1, <2>6, FirstOf
  <2>8. Rest(all, c.req.Offset) = all
    <3>1. Rest(all, 0) = SubSeq(all, 1, Len(all))
      BY DEF Rest
    <3> QED
      BY <1>1, <3>1, SubSeqFull
  <2> QED
    BY <2>7, <2>8, Zenon DEF FirstRight, all, limit
<1> QED
  BY <1>7, <1>8

-----------------------------------------------------------------------------
(* What else holds while the pages are turned.                              *)
SeenOf(c, seen, count) ==
  /\ count \in Nat
  /\ count = 0 => seen = <<>>
  /\ c.server = "pages" /\ ~Refused(c) => seen \in Seq(Elements(All(c)))

CallerInv ==
  /\ chosen \in Cases \cup {NoCase} /\ more \in BOOLEAN
  /\ chosen = NoCase => shown = <<>> /\ err = "" /\ more = FALSE /\ pages = 0
  /\ chosen # NoCase => SeenOf(chosen, shown, pages)

Inv == CallerInv /\ PagesComplete

LEMMA InitInv == PageInit => Inv
BY Zenon DEF PageInit, Inv, CallerInv, PagesComplete

LEMMA ChooseInv ==
  ASSUME Inv, Choose
  PROVE  Inv'
<1>1. /\ chosen = NoCase /\ chosen' \in Cases /\ more' = TRUE
      /\ shown' = <<>> /\ err' = "" /\ pages' = 0
  BY Zenon DEF Choose, Inv, CallerInv
<1>2. chosen' # NoCase /\ "pages" # "tests" /\ 0 # 1 /\ 0 \in Nat
  <2>1. chosen' \in Cases
    BY <1>1, Zenon
  <2> QED
    BY <2>1, CaseTypes
<1>3. CallerInv'
  <2>1. <<>> \in Seq(Elements(All(chosen')))
    BY EmptySeq
  <2> QED
    BY <1>1, <1>2, <2>1, Zenon DEF CallerInv, SeenOf
<1>4. PagesCompleteFor(chosen', <<>>, TRUE, "", 0)
  <2>1. ASSUME ~Refused(chosen')
        PROVE  Turned(Rest(All(chosen'), chosen'.req.Offset), PageLimit(chosen'), <<>>, TRUE, "", 0)
    <3> DEFINE c == chosen'
               S == Elements(All(c))
               N == Len(All(c))
    <3>1. c.req.Offset \in Nat /\ PageLimit(c) \in Nat /\ All(c) \in Seq(S)
      BY <1>1, <2>1, CaseTypes
    <3> HIDE DEF c, S
    <3>2. N \in Int /\ N <= Len(All(c))
      BY <3>1, LenProperties
    <3>3. Rest(All(c), c.req.Offset) \in Seq(S)
      BY <3>1, <3>2, Slice DEF Rest
    <3>4. Turned(Rest(All(c), c.req.Offset), PageLimit(c), <<>>, TRUE, "", 0)
      BY <3>1, <3>3, NothingTurned, Zenon
    <3> QED
      BY <3>4 DEF c
  <2> QED
    BY <1>2, <2>1, Zenon DEF PagesCompleteFor
<1>5. PagesComplete'
  BY <1>1, <1>2, <1>4, CompleteNext, Zenon
<1> QED
  BY <1>3, <1>5 DEF Inv

(* Whatever is asked, one call keeps what is shown right.                   *)
LEMMA TurnComplete ==
  ASSUME NEW c \in Cases, NEW seen, NEW error, NEW count, SeenOf(c, seen, count),
         PagesCompleteFor(c, seen, TRUE, error, count),
         NEW p \in FindUsers(c, NextReq(c, Len(seen))),
         NEW added, added = seen \o p.users, NEW after, after = PagesAfter(p, count)
  PROVE  /\ p.nextPage \in BOOLEAN
         /\ SeenOf(c, added, after)
         /\ PagesCompleteFor(c, added, p.nextPage, p.err, after)
<1> USE DEF SeenOf
<1>0. p.err # "" => p.nextPage = FALSE
  BY PageOrError, Zenon DEF FailedCall
<1>1. /\ FailedCall(p) => p.nextPage = FALSE /\ p.users = <<>> /\ after = count
      /\ ~FailedCall(p) => after = count + 1
      /\ p.nextPage \in BOOLEAN
  BY PageOrError, Zenon DEF FailedCall, PagesAfter
<1>2. <<>> \o <<>> = <<>> /\ Len(<<>>) = 0
  OBVIOUS
<1>3. after \in Nat /\ (after = 0 => FailedCall(p) /\ count = 0)
  BY <1>1
<1>4. after = 0 => added = <<>>
  BY <1>1, <1>2, <1>3
<1>5. CASE Refused(c)
  <2>1. seen = <<>> /\ count = 0
    BY <1>5, Zenon DEF PagesCompleteFor
  <2>2. NextReq(c, 0) \in SearchRequest /\ (NextReq(c, 0).Limit < 0 \/ NextReq(c, 0).Offset < 0)
    <3>1. /\ NextReq(c, 0) \in SearchRequest /\ NextReq(c, 0).Limit = c.req.Limit
          /\ NextReq(c, 0).Offset = c.req.Offset + 0
      BY NextReqFields
    <3> QED
      BY <1>5, <3>1, CaseTypes DEF Refused
  <2>3. FailedCall(p)
    BY <1>2, <2>1, <2>2, CallRefused
  <2>4. added = <<>> /\ after = 0 /\ p.nextPage = FALSE
    BY <1>1, <1>2, <2>1, <2>3
  <2> QED
    BY <1>0, <1>1, <1>3, <1>5, <2>4, Zenon DEF PagesCompleteFor
<1>6. CASE ~Refused(c) /\ c.server = "pages"
  <2>1. Turned(Rest(All(c), c.req.Offset), PageLimit(c), seen, TRUE, error, count)
    BY <1>6, Zenon DEF PagesCompleteFor
  <2>2. /\ added \in Seq(Elements(All(c)))
        /\ Turned(Rest(All(c), c.req.Offset), PageLimit(c), added, p.nextPage, p.err, after)
    BY <1>6, <2>1, TurnPages
  <2>3. "pages" # "tests"
    OBVIOUS
  <2>4. PagesCompleteFor(c, added, p.nextPage, p.err, after)
    BY <1>0, <1>1, <1>6, <2>2, <2>3, Zenon DEF PagesCompleteFor
  <2> QED
    BY <1>1, <1>3, <1>4, <2>2, <2>4, Zenon
<1>7. CASE ~Refused(c) /\ c.server = "tests"
  <2>1. ASSUME c.req.Offset = 0, after = 1, ~FailedCall(p)
        PROVE  FirstRight(c, added, p.nextPage)
    <3>1. seen = <<>> /\ Len(seen) = 0
      BY <1>1, <1>2, <2>1
    <3>2. p \in FindUsers(c, NextReq(c, 0))
      BY <3>1, Zenon
    <3>3. FirstRight(c, p.users, p.nextPage)
      BY <1>7, <2>1, <3>2, FirstPage
    <3>4. p.users = Beginning(Rest(All(c), c.req.Offset), PageLimit(c)) => added = p.users
      <4> DEFINE wanted == Rest(All(c), c.req.Offset)
                 S == Elements(All(c))
                 N == Len(All(c))
                 limit == PageLimit(c)
      <4>1. c.req.Offset \in Nat /\ limit \in Nat /\ All(c) \in Seq(S)
        BY <1>7, CaseTypes
      <4> HIDE DEF S, limit
      <4>2. N \in Int /\ N <= Len(All(c))
        BY <4>1, LenProperties
      <4>3. wanted \in Seq(S)
        BY <4>1, <4>2, Slice DEF Rest
      <4> HIDE DEF wanted
      <4> DEFINE k == Smaller(limit, Len(wanted))
      <4>4. k \in Nat /\ k <= Len(wanted)
        BY <4>1, <4>3, LenProperties DEF Smaller
      <4>5. Beginning(wanted, limit) = SubSeq(wanted, 1, k)
        BY DEF Beginning
      <4> HIDE DEF k
      <4>6. Beginning(wanted, limit) \in Seq(S)
        BY <4>3, <4>4, <4>5, BeginningSeq
      <4>7. p.users \in Seq(S) => added = p.users
        BY <3>1, ConcatEmptySeq
      <4> QED
        BY <4>6, <4>7 DEF wanted, limit
    <3> QED
      BY <3>3, <3>4, Zenon DEF FirstRight
  <2>2. FailedCall(p) => p.err # ""
    BY Zenon DEF FailedCall
  <2>3. "pages" # "tests"
    OBVIOUS
  <2>4. PagesCompleteFor(c, added, p.nextPage, p.err, after)
    BY <1>0, <1>1, <1>7, <2>1, <2>2, <2>3, Zenon DEF PagesCompleteFor
  <2> QED
    BY <1>1, <1>3, <1>4, <1>7, <2>3, <2>4, Zenon
<1> QED
  BY <1>5, <1>6, <1>7, CaseTypes

LEMMA TurnPageInv ==
  ASSUME Inv, TurnPage
  PROVE  Inv'
<1>1. more = TRUE /\ chosen # NoCase /\ chosen \in Cases /\ more \in BOOLEAN
  BY Zenon DEF Inv, CallerInv, TurnPage
<1>2. PICK p \in FindUsers(chosen, NextReq(chosen, Len(shown))) :
        /\ shown' = shown \o p.users /\ more' = p.nextPage /\ err' = p.err
        /\ pages' = PagesAfter(p, pages)
  BY Zenon DEF TurnPage, NextReq, PagesAfter
<1>3. chosen' = chosen
  BY Zenon DEF TurnPage
<1>4. PagesCompleteFor(chosen, shown, TRUE, err, pages) /\ SeenOf(chosen, shown, pages)
  BY <1>1, CompleteNow, Zenon DEF Inv, CallerInv
<1>5. /\ p.nextPage \in BOOLEAN
      /\ SeenOf(chosen, shown \o p.users, PagesAfter(p, pages))
      /\ PagesCompleteFor(chosen, shown \o p.users, p.nextPage, p.err, PagesAfter(p, pages))
  BY <1>1, <1>4, TurnComplete, Zenon
<1>6. more' \in BOOLEAN /\ SeenOf(chosen, shown', pages') /\ PagesCompleteFor(chosen, shown', more', err', pages')
  BY <1>2, <1>5, Zenon
<1>7. CallerInv'
  BY <1>1, <1>3, <1>6, Zenon DEF CallerInv
<1>8. PagesComplete'
  BY <1>1, <1>3, <1>6, CompleteNext, Zenon
<1> QED
  BY <1>7, <1>8, Zenon DEF Inv

LEMMA StutterInv ==
  ASSUME Inv, UNCHANGED pageVars
  PROVE  Inv'
<1>1. chosen' = chosen /\ shown' = shown /\ more' = more /\ err' = err /\ pages' = pages
  BY DEF pageVars
<1>2. CallerInv'
  BY <1>1, Zenon DEF Inv, CallerInv
<1>3. CASE chosen = NoCase
  BY <1>1, <1>2, <1>3, Zenon DEF Inv, PagesComplete
<1>4. CASE chosen # NoCase
  <2>1. more \in BOOLEAN /\ PagesComplete
    BY Zenon DEF Inv, CallerInv
  <2>2. PagesCompleteFor(chosen, shown, more, err, pages)
    BY <1>4, <2>1, CompleteNow, Zenon
  <2>3. PagesComplete'
    BY <1>1, <1>4, <2>1, <2>2, CompleteNext, Zenon
  <2> QED
    BY <1>2, <2>3, Zenon DEF Inv
<1> QED
  BY <1>3, <1>4

(* PagesComplete holds for any users, request, limit and number of pages,   *)
(* and wherever a call fails.                                               *)
THEOREM PagesCorrect == PagesSpec => []PagesComplete
<1>1. PageInit => Inv
  BY InitInv
<1>2. Inv /\ [PageNext]_pageVars => Inv'
  BY ChooseInv, TurnPageInv, StutterInv DEF PageNext
<1>3. Inv => PagesComplete
  BY DEF Inv
<1> QED
  BY <1>1, <1>2, <1>3, PTL DEF PagesSpec

-----------------------------------------------------------------------------
(* The list shows each user that matches once, in the order asked for.      *)
ShowsEach(list, users, req) ==
  \E r \in Bijection(DOMAIN list, {i \in DOMAIN users : users[i].match}) :
    /\ list = [k \in DOMAIN list |-> users[r[k]]]
    /\ \A k, l \in DOMAIN list :
         k < l => IF req.OrderBy = 0 THEN r[k] < r[l]
                  ELSE KeysInOrder(req, users[r[k]], users[r[l]])

LEMMA AllShowsEach ==
  ASSUME NEW users \in Seq(Users), NEW req
  PROVE  ShowsEach(Ordered(Matching(users), req), users, req)
<1> DEFINE places == {i \in DOMAIN users : users[i].match}
           M == Matching(users)
           list == Ordered(M, req)
<1>1. PICK m \in Nat : \E q :
        /\ q \in [1 .. m -> places]
        /\ \A i \in DOMAIN users : users[i].match => \E k \in 1 .. m : q[k] = i
        /\ \A k, l \in 1 .. m : k < l => q[k] < q[l]
        /\ M = [k \in 1 .. m |-> users[q[k]]]
  BY MatchingPicks
<1>2. PICK q :
        /\ q \in [1 .. m -> places]
        /\ \A i \in DOMAIN users : users[i].match => \E k \in 1 .. m : q[k] = i
        /\ \A k, l \in 1 .. m : k < l => q[k] < q[l]
        /\ M = [k \in 1 .. m |-> users[q[k]]]
  BY <1>1
<1>3. M \in Seq(Users) /\ DOMAIN M = 1 .. m
  <2>1. \A k \in 1 .. m : users[q[k]] \in Users
    BY <1>2, SeqElement
  <2> HIDE DEF M
  <2> QED
    BY <1>2, <2>1
<1> HIDE DEF M
<1>4. PICK p \in Bijection(1 .. m, 1 .. m) :
        /\ list = [k \in 1 .. m |-> M[p[k]]]
        /\ \A k, l \in 1 .. m :
             k < l => IF req.OrderBy = 0 THEN p[k] < p[l] ELSE KeysInOrder(req, M[p[k]], M[p[l]])
  BY <1>3, OrderedSorts
<1> HIDE DEF list
<1>5. /\ p \in [1 .. m -> 1 .. m]
      /\ \A k, l \in 1 .. m : p[k] = p[l] => k = l
      /\ \A i \in 1 .. m : \E k \in 1 .. m : p[k] = i
  BY DEF Bijection, Injection, Surjection, IsInjective
<1> DEFINE r == [k \in 1 .. m |-> q[p[k]]]
<1>6. \A k, l \in 1 .. m : q[k] = q[l] => k = l
  <2>1. \A k \in 1 .. m : q[k] \in Int
    BY <1>2, LenProperties
  <2>2. \A k, l \in 1 .. m : k # l => k < l \/ l < k
    BY <1>2
  <2> HIDE DEF places
  <2> QED
    BY <1>2, <2>1, <2>2
<1>7. r \in Bijection(1 .. m, places)
  <2>1. r \in [1 .. m -> places]
    BY <1>2, <1>5
  <2>2. \A k, l \in 1 .. m : r[k] = r[l] => k = l
    BY <1>5, <1>6
  <2>3. \A i \in places : \E k \in 1 .. m : r[k] = i
    <3> SUFFICES ASSUME NEW i \in places PROVE \E k \in 1 .. m : r[k] = i
      OBVIOUS
    <3>1. PICK j \in 1 .. m : q[j] = i
      BY <1>2
    <3>2. PICK k \in 1 .. m : p[k] = j
      BY <1>5
    <3> QED
      BY <3>1, <3>2
  <2> HIDE DEF r, places
  <2> QED
    BY <2>1, <2>2, <2>3 DEF Bijection, Injection, Surjection, IsInjective
<1>8. \A k \in 1 .. m : M[p[k]] = users[r[k]]
  BY <1>2, <1>5
<1>9. DOMAIN list = 1 .. m /\ list = [k \in 1 .. m |-> users[r[k]]]
  <2> HIDE DEF r
  <2> QED
    BY <1>4, <1>8
<1>10. ASSUME NEW k \in 1 .. m, NEW l \in 1 .. m, k < l
      PROVE  IF req.OrderBy = 0 THEN r[k] < r[l] ELSE KeysInOrder(req, users[r[k]], users[r[l]])
  <2>1. CASE req.OrderBy = 0
    BY <1>2, <1>4, <1>5, <1>10, <2>1
  <2>2. CASE req.OrderBy # 0
    <3>1. KeysInOrder(req, M[p[k]], M[p[l]])
      BY <1>4, <1>10, <2>2
    <3> HIDE DEF r
    <3> QED
      BY <1>8, <2>2, <3>1
  <2> QED
    BY <2>1, <2>2
<1> HIDE DEF r
<1>11. ShowsEach(list, users, req)
  BY <1>7, <1>9, <1>10 DEF ShowsEach
<1> QED
  BY <1>11 DEF list, M

EveryUserOnce ==
  /\ chosen # NoCase /\ chosen.server = "pages" /\ ~Refused(chosen) /\ chosen.req.Offset = 0
  /\ ~more /\ err = ""
  => ShowsEach(shown, chosen.users, chosen.req)

(* Turning the pages of a server that pages, from the first one: once no    *)
(* page follows, and if no call failed, each user that matches the query    *)
(* was shown exactly once and in the order asked for, whatever the page     *)
(* size and wherever users of equal keys fall on two pages.                 *)
THEOREM EveryUserShown == PagesSpec => []EveryUserOnce
<1>1. Inv => EveryUserOnce
  <2>1. SUFFICES ASSUME Inv, chosen # NoCase, chosen.server = "pages", ~Refused(chosen),
                      chosen.req.Offset = 0, ~more, err = ""
               PROVE  ShowsEach(shown, chosen.users, chosen.req)
    BY Zenon DEF EveryUserOnce
  <2> DEFINE all == All(chosen)
             S == Elements(all)
  <2>2. chosen \in Cases /\ more \in BOOLEAN /\ PagesComplete
    BY <2>1, Zenon DEF Inv, CallerInv
  <2>3. chosen.users \in Seq(Users) /\ all \in Seq(S)
    BY <2>2, CaseTypes
  <2>4. shown = Rest(all, chosen.req.Offset)
    BY <2>1, <2>2, CompleteNow, Zenon DEF PagesCompleteFor, Turned
  <2> HIDE DEF S, all
  <2>5. shown = all
    <3>1. chosen.req.Offset = 0
      BY <2>1, Zenon
    <3>2. shown = SubSeq(all, 1, Len(all))
      BY <2>4, <3>1 DEF Rest
    <3> QED
      BY <2>3, <3>2, SubSeqFull
  <2>6. shown = Ordered(Matching(chosen.users), chosen.req)
    BY <2>5 DEF all, All
  <2> QED
    BY <2>3, <2>6, AllShowsEach
<1>2. PageInit => Inv
  BY InitInv
<1>3. Inv /\ [PageNext]_pageVars => Inv'
  BY ChooseInv, TurnPageInv, StutterInv DEF PageNext
<1> QED
  BY <1>1, <1>2, <1>3, PTL DEF PagesSpec


-----------------------------------------------------------------------------
(* FastSearch and SlowSearch.  Both are functions by recursion on the lines *)
(* of the file: first, that these functions exist; then what one browser,   *)
(* one member and one line contribute; last, both searches side by side.    *)
(*                                                                          *)
(* A set of numbers that is not empty has a least one.                      *)
LEMMA LeastNumber ==
  ASSUME NEW S, S \subseteq Nat, S # {}
  PROVE  \E k \in S : \A i \in S : k <= i
<1> DEFINE Less == {r \in Nat \X Nat : r[1] < r[2]}
<1>1. IsWellFoundedOn(Less, Nat)
  BY NatLessThanWellFounded DEF OpToRel
<1>2. \E i \in S : \A k \in S : ~(<<k, i>> \in Less)
  <2> HIDE DEF Less
  <2> QED
    BY <1>1, WFMin
<1>3. PICK i \in S : \A k \in S : ~(<<k, i>> \in Less)
  BY <1>2
<1>4. ASSUME NEW k \in S PROVE i <= k
  <2>1. <<k, i>> \in Nat \X Nat /\ <<k, i>>[1] = k /\ <<k, i>>[2] = i
    OBVIOUS
  <2>2. ~(k < i)
    BY <1>3, <2>1
  <2> QED
    BY <2>2
<1> QED
  BY <1>3, <1>4

(* Induction over 0 .. n, for what can be said of the elements of a set.    *)
LEMMA Climb ==
  ASSUME NEW n \in Nat, NEW S, 0 \in S, \A i \in 1 .. n : i - 1 \in S => i \in S
  PROVE  \A i \in 0 .. n : i \in S
<1> DEFINE Missing == {i \in 0 .. n : i \notin S}
<1> SUFFICES ASSUME Missing # {} PROVE FALSE
  OBVIOUS
<1>1. PICK k \in Missing : \A i \in Missing : k <= i
  <2>1. Missing \subseteq Nat
    OBVIOUS
  <2> HIDE DEF Missing
  <2> QED
    BY <2>1, LeastNumber
<1>2. k \in 1 .. n /\ k - 1 \in 0 .. n
  BY <1>1
<1>3. k - 1 \in S
  BY <1>1, <1>2
<1> QED
  BY <1>1, <1>2, <1>3

(* SlowSearch, line by line.                                                *)
LEMMA SlowLinesStep ==
  ASSUME Len(file) \in Nat
  PROVE  /\ SlowLines[0] = Nothing
         /\ \A i \in 1 .. Len(file) :
              SlowLines[i] = IF SlowLines[i - 1].panic THEN SlowLines[i - 1]
                             ELSE SlowLine(SlowLines[i - 1], i - 1, file[i])
<1> DEFINE Start == Nothing
           Step(s, i) == IF s.panic THEN s ELSE SlowLine(s, i - 1, file[i])
           Is(g, n) == g = [i \in 0 .. n |-> IF i = 0 THEN Start ELSE Step(g[i - 1], i)]
           Without == {n \in Nat : ~\E g : Is(g, n)}
<1>1. SlowLines = CHOOSE g : Is(g, Len(file))
  BY Zenon DEF SlowLines
<1> HIDE DEF Start, Step
<1>2. Without = {}
  <2> SUFFICES ASSUME Without # {} PROVE FALSE
    OBVIOUS
  <2>1. PICK m \in Without : \A k \in Without : m <= k
    BY LeastNumber
  <2>2. m # 0
    <3>1. Is([i \in 0 .. 0 |-> Start], 0)
      OBVIOUS
    <3> QED
      BY <2>1, <3>1
  <2>3. m \in Nat /\ m - 1 \in Nat /\ m - 1 \notin Without
    <3>1. m \in Nat
      OBVIOUS
    <3> HIDE DEF Without
    <3> QED
      BY <2>1, <2>2, <3>1
  <2>4. PICK g : Is(g, m - 1)
    BY <2>3, Zenon
  <2> DEFINE h == [i \in 0 .. m |-> IF i < m THEN g[i] ELSE Step(g[m - 1], m)]
  <2>5. Is(h, m)
    <3> SUFFICES ASSUME NEW i \in 0 .. m
                 PROVE  h[i] = IF i = 0 THEN Start ELSE Step(h[i - 1], i)
      OBVIOUS
    <3> QED
      BY <2>2, <2>3, <2>4
  <2> QED
    BY <2>1, <2>3, <2>5
<1>3. Is(SlowLines, Len(file))
  BY <1>1, <1>2
<1>4. /\ SlowLines[0] = Start
      /\ \A i \in 1 .. Len(file) : SlowLines[i] = Step(SlowLines[i - 1], i)
  <2> DEFINE f == SlowLines
  <2> HIDE DEF f
  <2>1. Is(f, Len(file))
    BY <1>3 DEF f
  <2> QED
    BY <2>1 DEF f
<1> QED
  BY <1>4, Zenon DEF Start, Step

(* FastSearch, line by line.                                                *)
LEMMA FastLinesStep ==
  ASSUME Len(file) \in Nat
  PROVE  /\ FastLines[0] = [found |-> <<>>, seen |-> {}, done |-> FALSE, user |-> NoUser]
         /\ \A i \in 1 .. Len(file) :
              FastLines[i] = IF FastLines[i - 1].done \/ file[i].kind = "long"
                             THEN [FastLines[i - 1] EXCEPT !.done = TRUE]
                             ELSE FastLine(FastLines[i - 1], i - 1, file[i])
<1> DEFINE Start == [found |-> <<>>, seen |-> {}, done |-> FALSE, user |-> NoUser]
           Step(s, i) == IF s.done \/ file[i].kind = "long" THEN [s EXCEPT !.done = TRUE]
                ELSE FastLine(s, i - 1, file[i])
           Is(g, n) == g = [i \in 0 .. n |-> IF i = 0 THEN Start ELSE Step(g[i - 1], i)]
           Without == {n \in Nat : ~\E g : Is(g, n)}
<1>1. FastLines = CHOOSE g : Is(g, Len(file))
  BY Zenon DEF FastLines
<1> HIDE DEF Start, Step
<1>2. Without = {}
  <2> SUFFICES ASSUME Without # {} PROVE FALSE
    OBVIOUS
  <2>1. PICK m \in Without : \A k \in Without : m <= k
    BY LeastNumber
  <2>2. m # 0
    <3>1. Is([i \in 0 .. 0 |-> Start], 0)
      OBVIOUS
    <3> QED
      BY <2>1, <3>1
  <2>3. m \in Nat /\ m - 1 \in Nat /\ m - 1 \notin Without
    <3>1. m \in Nat
      OBVIOUS
    <3> HIDE DEF Without
    <3> QED
      BY <2>1, <2>2, <3>1
  <2>4. PICK g : Is(g, m - 1)
    BY <2>3, Zenon
  <2> DEFINE h == [i \in 0 .. m |-> IF i < m THEN g[i] ELSE Step(g[m - 1], m)]
  <2>5. Is(h, m)
    <3> SUFFICES ASSUME NEW i \in 0 .. m
                 PROVE  h[i] = IF i = 0 THEN Start ELSE Step(h[i - 1], i)
      OBVIOUS
    <3> QED
      BY <2>2, <2>3, <2>4
  <2> QED
    BY <2>1, <2>3, <2>5
<1>3. Is(FastLines, Len(file))
  BY <1>1, <1>2
<1>4. /\ FastLines[0] = Start
      /\ \A i \in 1 .. Len(file) : FastLines[i] = Step(FastLines[i - 1], i)
  <2> DEFINE f == FastLines
  <2> HIDE DEF f
  <2>1. Is(f, Len(file))
    BY <1>3 DEF f
  <2> QED
    BY <2>1 DEF f
<1> QED
  BY <1>4, Zenon DEF Start, Step

DecodeNext(u, member) == IF ~u.ok THEN u ELSE DecodeMember(u, member[1], member[2])

(* The decoder, member by member.                                           *)
LEMMA DecodeMembersStep ==
  ASSUME NEW user, NEW members, Len(members) \in Nat
  PROVE  /\ DecodeMembers(user, members)[0] = [user EXCEPT !.ok = TRUE]
         /\ \A i \in 1 .. Len(members) :
              DecodeMembers(user, members)[i] = DecodeNext(DecodeMembers(user, members)[i - 1], members[i])
<1> DEFINE Start == [user EXCEPT !.ok = TRUE]
           Step(s, i) == DecodeNext(s, members[i])
           Is(g, n) == g = [i \in 0 .. n |-> IF i = 0 THEN Start ELSE Step(g[i - 1], i)]
           Without == {n \in Nat : ~\E g : Is(g, n)}
<1>1. DecodeMembers(user, members) = CHOOSE g : Is(g, Len(members))
  BY Zenon DEF DecodeMembers, DecodeNext
<1> HIDE DEF Start, Step
<1>2. Without = {}
  <2> SUFFICES ASSUME Without # {} PROVE FALSE
    OBVIOUS
  <2>1. PICK m \in Without : \A k \in Without : m <= k
    BY LeastNumber
  <2>2. m # 0
    <3>1. Is([i \in 0 .. 0 |-> Start], 0)
      OBVIOUS
    <3> QED
      BY <2>1, <3>1
  <2>3. m \in Nat /\ m - 1 \in Nat /\ m - 1 \notin Without
    <3>1. m \in Nat
      OBVIOUS
    <3> HIDE DEF Without
    <3> QED
      BY <2>1, <2>2, <3>1
  <2>4. PICK g : Is(g, m - 1)
    BY <2>3, Zenon
  <2> DEFINE h == [i \in 0 .. m |-> IF i < m THEN g[i] ELSE Step(g[m - 1], m)]
  <2>5. Is(h, m)
    <3> SUFFICES ASSUME NEW i \in 0 .. m
                 PROVE  h[i] = IF i = 0 THEN Start ELSE Step(h[i - 1], i)
      OBVIOUS
    <3> QED
      BY <2>2, <2>3, <2>4
  <2> QED
    BY <2>1, <2>3, <2>5
<1>3. Is(DecodeMembers(user, members), Len(members))
  BY <1>1, <1>2
<1>4. /\ DecodeMembers(user, members)[0] = Start
      /\ \A i \in 1 .. Len(members) :
           DecodeMembers(user, members)[i] = Step(DecodeMembers(user, members)[i - 1], i)
  <2> DEFINE f == DecodeMembers(user, members)
  <2> HIDE DEF f
  <2>1. Is(f, Len(members))
    BY <1>3 DEF f
  <2> QED
    BY <2>1 DEF f
<1> QED
  BY <1>4, Zenon DEF Start, Step

(* The browsers of a user, one by one.                                      *)
LEMMA BrowseAllStep ==
  ASSUME NEW seen, NEW browsers, Len(browsers) \in Nat
  PROVE  /\ BrowseAll(seen, browsers)[0] = [seen |-> seen, isAndroid |-> FALSE, isMSIE |-> FALSE]
         /\ \A i \in 1 .. Len(browsers) :
              BrowseAll(seen, browsers)[i] = Browse(BrowseAll(seen, browsers)[i - 1], browsers[i])
<1> DEFINE Start == [seen |-> seen, isAndroid |-> FALSE, isMSIE |-> FALSE]
           Step(s, i) == Browse(s, browsers[i])
           Is(g, n) == g = [i \in 0 .. n |-> IF i = 0 THEN Start ELSE Step(g[i - 1], i)]
           Without == {n \in Nat : ~\E g : Is(g, n)}
<1>1. BrowseAll(seen, browsers) = CHOOSE g : Is(g, Len(browsers))
  BY Zenon DEF BrowseAll
<1> HIDE DEF Start, Step
<1>2. Without = {}
  <2> SUFFICES ASSUME Without # {} PROVE FALSE
    OBVIOUS
  <2>1. PICK m \in Without : \A k \in Without : m <= k
    BY LeastNumber
  <2>2. m # 0
    <3>1. Is([i \in 0 .. 0 |-> Start], 0)
      OBVIOUS
    <3> QED
      BY <2>1, <3>1
  <2>3. m \in Nat /\ m - 1 \in Nat /\ m - 1 \notin Without
    <3>1. m \in Nat
      OBVIOUS
    <3> HIDE DEF Without
    <3> QED
      BY <2>1, <2>2, <3>1
  <2>4. PICK g : Is(g, m - 1)
    BY <2>3, Zenon
  <2> DEFINE h == [i \in 0 .. m |-> IF i < m THEN g[i] ELSE Step(g[m - 1], m)]
  <2>5. Is(h, m)
    <3> SUFFICES ASSUME NEW i \in 0 .. m
                 PROVE  h[i] = IF i = 0 THEN Start ELSE Step(h[i - 1], i)
      OBVIOUS
    <3> QED
      BY <2>2, <2>3, <2>4
  <2> QED
    BY <2>1, <2>3, <2>5
<1>3. Is(BrowseAll(seen, browsers), Len(browsers))
  BY <1>1, <1>2
<1>4. /\ BrowseAll(seen, browsers)[0] = Start
      /\ \A i \in 1 .. Len(browsers) :
           BrowseAll(seen, browsers)[i] = Step(BrowseAll(seen, browsers)[i - 1], i)
  <2> DEFINE f == BrowseAll(seen, browsers)
  <2> HIDE DEF f
  <2>1. Is(f, Len(browsers))
    BY <1>3 DEF f
  <2> QED
    BY <2>1 DEF f
<1> QED
  BY <1>4, Zenon DEF Start, Step

(* What has been counted after k browsers: FastSearch notices Android in    *)
(* each of them, and MSIE at least where a browser has not both names or is *)
(* no new one.                                                              *)
Named(b) == Mentions(b, "Android") \/ Mentions(b, "MSIE")
Noticed(b, seen) == Mentions(b, "MSIE") /\ ~(Mentions(b, "Android") /\ b \notin seen)

Counted(b, seen, browsers, k) ==
  /\ \A x : x \in b.seen <=> x \in seen \/ \E j \in 1 .. k : x = browsers[j] /\ Named(browsers[j])
  /\ b.isAndroid <=> \E j \in 1 .. k : Mentions(browsers[j], "Android")
  /\ b.isMSIE => \E j \in 1 .. k : Mentions(browsers[j], "MSIE")
  /\ (\E j \in 1 .. k : Noticed(browsers[j], seen)) => b.isMSIE

LEMMA BrowseCounts ==
  ASSUME NEW b, NEW seen, NEW browsers, NEW k \in Nat, Counted(b, seen, browsers, k)
  PROVE  Counted(Browse(b, browsers[k + 1]), seen, browsers, k + 1)
<1> DEFINE new == browsers[k + 1]
           c == Browse(b, new)
<1>1. c.seen = b.seen \cup (IF Named(new) THEN {new} ELSE {})
  BY Zenon DEF Browse, Named
<1>2. c.isAndroid <=> b.isAndroid \/ Mentions(new, "Android")
  BY Zenon DEF Browse
<1>3. c.isMSIE => b.isMSIE \/ Mentions(new, "MSIE")
  BY Zenon DEF Browse
<1>4. b.isMSIE \/ Noticed(new, b.seen) => c.isMSIE
  BY Zenon DEF Browse, Noticed
<1>12. Noticed(new, seen) => Noticed(new, b.seen)
  BY Zenon DEF Counted, Noticed
<1> HIDE DEF c
<1>5. \A j \in 1 .. k + 1 : j \in 1 .. k \/ j = k + 1
  OBVIOUS
<1>6. \A j \in 1 .. k : j \in 1 .. k + 1
  OBVIOUS
<1>7. k + 1 \in 1 .. k + 1
  OBVIOUS
<1>8. \A x : x \in c.seen <=> x \in seen \/ \E j \in 1 .. k + 1 : x = browsers[j] /\ Named(browsers[j])
  BY <1>1, <1>5, <1>6, <1>7, Zenon DEF Counted
<1>9. c.isAndroid <=> \E j \in 1 .. k + 1 : Mentions(browsers[j], "Android")
  BY <1>2, <1>5, <1>6, <1>7, Zenon DEF Counted
<1>10. c.isMSIE => \E j \in 1 .. k + 1 : Mentions(browsers[j], "MSIE")
  BY <1>3, <1>6, <1>7, Zenon DEF Counted
<1>11. (\E j \in 1 .. k + 1 : Noticed(browsers[j], seen)) => c.isMSIE
  BY <1>4, <1>5, <1>12, Zenon DEF Counted
<1> QED
  BY <1>8, <1>9, <1>10, <1>11, Zenon DEF Counted, c

LEMMA AllCounted ==
  ASSUME NEW seen, NEW browsers, Len(browsers) \in Nat
  PROVE  Counted(BrowseAll(seen, browsers)[Len(browsers)], seen, browsers, Len(browsers))
<1> DEFINE n == Len(browsers)
           f == BrowseAll(seen, browsers)
           S == {k \in 0 .. n : Counted(f[k], seen, browsers, k)}
<1>1. /\ f[0] = [seen |-> seen, isAndroid |-> FALSE, isMSIE |-> FALSE]
      /\ \A i \in 1 .. n : f[i] = Browse(f[i - 1], browsers[i])
  BY BrowseAllStep, Zenon
<1>2. n \in Nat
  OBVIOUS
<1> HIDE DEF f, n
<1>3. Counted(f[0], seen, browsers, 0)
  BY <1>1 DEF Counted
<1>4. 0 \in S
  BY <1>2, <1>3
<1>5. ASSUME NEW i \in 1 .. n, i - 1 \in S
      PROVE  i \in S
  <2>1. PICK k \in Nat : k = i - 1
    BY <1>2
  <2>2. i = k + 1 /\ k \in 0 .. n /\ i \in 0 .. n
    BY <1>2, <2>1
  <2>3. Counted(f[k], seen, browsers, k)
    BY <1>5, <2>1
  <2>4. Counted(Browse(f[k], browsers[k + 1]), seen, browsers, k + 1)
    BY <2>1, <2>3, BrowseCounts
  <2>5. f[i] = Browse(f[k], browsers[k + 1])
    BY <1>1, <2>1, <2>2
  <2> QED
    BY <2>2, <2>4, <2>5
<1>6. \A i \in 0 .. n : i \in S
  <2> HIDE DEF S
  <2> QED
    BY <1>2, <1>4, <1>5, Climb
<1>7. n \in 0 .. n
  BY <1>2
<1> QED
  BY <1>6, <1>7 DEF n, f

(* A complete line has each field at one place, with a value of its type.   *)
Fields == {"browsers", "name", "email"}

HasField(line, key, i) ==
  /\ i \in DOMAIN line.members
  /\ line.members[i][1] = key
  /\ \A k \in DOMAIN line.members : line.members[k][1] = key => k = i
  /\ Member(line, key) = line.members[i][2]
  /\ Member(line, key).type = IF key = "browsers" THEN "list" ELSE "text"

LEMMA CompleteHasField ==
  ASSUME NEW line, IsSeq(line.members), Complete(line), NEW key \in Fields
  PROVE  \E i : HasField(line, key, i)
<1>1. \E i \in DOMAIN line.members :
         /\ line.members[i][1] = key
         /\ \A k \in DOMAIN line.members : line.members[k][1] = key => k = i
         /\ line.members[i][2].type = IF key = "browsers" THEN "list" ELSE "text"
  BY Zenon DEF Complete, Fields
<1>2. PICK i \in DOMAIN line.members :
         /\ line.members[i][1] = key
         /\ \A k \in DOMAIN line.members : line.members[k][1] = key => k = i
         /\ line.members[i][2].type = IF key = "browsers" THEN "list" ELSE "text"
  BY <1>1
<1> DEFINE at == {k \in DOMAIN line.members : line.members[k][1] = key}
<1>3. at = {i}
  BY <1>2
<1>4. Member(line, key) =
        IF at = {} THEN Null
        ELSE line.members[CHOOSE k \in at : \A j \in at : j <= k][2]
  BY Zenon DEF Member
<1>5. i \in Nat
  BY <1>2 DEF IsSeq
<1> HIDE DEF at
<1>6. (CHOOSE k \in at : \A j \in at : j <= k) = i
  BY <1>3, <1>5
<1>7. Member(line, key) = line.members[i][2]
  BY <1>3, <1>4, <1>6
<1> QED
  BY <1>2, <1>7, Zenon DEF HasField

(* What easyjson has taken from the first k members of a line.              *)
Parsed(v, key) == IF key = "browsers" THEN v.list ELSE v
Decoded(u, line, k) ==
  /\ u.ok = TRUE
  /\ DOMAIN u = Fields \cup {"ok"}
  /\ \A key \in Fields : \A i \in 1 .. k :
       line.members[i][1] = key => u[key] = Parsed(line.members[i][2], key)

LEMMA FirstBadNone ==
  ASSUME NEW value, IsSeq(value.list), \A i \in DOMAIN value.list : value.list[i].type = "text"
  PROVE  /\ FirstBad(value) = Len(value.list) + 1
         /\ SubSeq(value.list, 1, FirstBad(value) - 1) = value.list
<1>1. FirstBad(value) = Len(value.list) + 1
  BY Zenon DEF FirstBad
<1> DEFINE list == value.list
           S == Range(list)
<1>2. list \in Seq(S)
  BY Zenon DEF IsSeq
<1> HIDE DEF list, S
<1>3. Len(list) \in Nat /\ Len(list) + 1 - 1 = Len(list)
  BY <1>2
<1>4. SubSeq(list, 1, Len(list)) = list
  BY <1>2
<1> QED
  BY <1>1, <1>3, <1>4 DEF list

FitsField(key, value) ==
  /\ value.type = IF key = "browsers" THEN "list" ELSE "text"
  /\ key = "browsers" =>
       IsSeq(value.list) /\ \A i \in DOMAIN value.list : value.list[i].type = "text"

LEMMA MemberDecoded ==
  ASSUME NEW u, NEW key \in Fields, NEW value, DOMAIN u = Fields \cup {"ok"}, u.ok = TRUE,
         FitsField(key, value)
  PROVE  DecodeMember(u, key, value) = [u EXCEPT ![key] = Parsed(value, key), !.ok = TRUE]
<1>0. /\ value.type = IF key = "browsers" THEN "list" ELSE "text"
      /\ key = "browsers" =>
           IsSeq(value.list) /\ \A i \in DOMAIN value.list : value.list[i].type = "text"
  BY Zenon DEF FitsField
<1>1. value.type # "null"
  BY <1>0
<1>2. CASE key = "browsers"
  <2>1. DecodeMember(u, key, value) =
          [u EXCEPT !.browsers = SubSeq(value.list, 1, FirstBad(value) - 1),
                    !.ok = FirstBad(value) > Len(value.list)]
    BY <1>0, <1>1, <1>2 DEF DecodeMember, Unread
  <2>2. SubSeq(value.list, 1, FirstBad(value) - 1) = value.list
    BY <1>0, <1>2, FirstBadNone
  <2>3. (FirstBad(value) > Len(value.list)) = TRUE
    <3>1. Len(value.list) \in Nat /\ FirstBad(value) = Len(value.list) + 1
      BY <1>0, <1>2, FirstBadNone DEF IsSeq
    <3> QED
      BY <3>1
  <2>4. DecodeMember(u, key, value) = [u EXCEPT !.browsers = value.list, !.ok = TRUE]
    BY <2>1, <2>2, <2>3, Zenon
  <2> QED
    BY <1>2, <2>4 DEF Parsed
<1>3. CASE key # "browsers"
  <2>1. DecodeMember(u, key, value) = [u EXCEPT ![key] = value]
    BY <1>0, <1>1, <1>3 DEF DecodeMember, Fields, Unread
  <2>2. [u EXCEPT ![key] = value] = [u EXCEPT ![key] = value, !.ok = TRUE]
    BY DEF Fields
  <2> QED
    BY <1>3, <2>1, <2>2 DEF Parsed
<1> QED
  BY <1>2, <1>3

LineOk(line) ==
  /\ IsSeq(line.members)
  /\ \A k \in DOMAIN line.members :
       LET value == line.members[k][2] IN value.type = "list" => IsSeq(value.list)

LEMMA CompleteValue ==
  ASSUME NEW line, LineOk(line), Complete(line), NEW k \in DOMAIN line.members,
         line.members[k][1] \in Fields
  PROVE  FitsField(line.members[k][1], line.members[k][2])
<1> DEFINE key == line.members[k][1]
           value == line.members[k][2]
<1>1. IsSeq(line.members)
  BY Zenon DEF LineOk
<1>2. \E i : HasField(line, key, i)
  BY <1>1, CompleteHasField
<1>3. HasField(line, key, k)
  BY <1>2 DEF HasField
<1>4. value = Member(line, key) /\ value.type = IF key = "browsers" THEN "list" ELSE "text"
  BY <1>3 DEF HasField
<1>5. ASSUME key = "browsers"
      PROVE  IsSeq(value.list) /\ \A i \in DOMAIN value.list : value.list[i].type = "text"
  <2>1. value.type = "list"
    BY <1>4, <1>5, Zenon
  <2>2. IsSeq(value.list)
    BY <2>1, Zenon DEF LineOk
  <2>3. Texts(value) = Range(value.list)
    BY <1>4, <1>5, Zenon DEF Complete
  <2>4. \A i \in DOMAIN value.list : value.list[i] \in Texts(value)
    BY <2>3, Zenon DEF Range
  <2>5. \A i \in DOMAIN value.list : value.list[i].type = "text"
    BY <2>4 DEF Texts
  <2> QED
    BY <2>2, <2>5
<1> QED
  BY <1>4, <1>5, Zenon DEF FitsField

LEMMA DecodeOneMore ==
  ASSUME NEW line, LineOk(line), Complete(line), NEW k \in Nat, k + 1 \in DOMAIN line.members,
         NEW u, Decoded(u, line, k)
  PROVE  Decoded(DecodeMember(u, line.members[k + 1][1], line.members[k + 1][2]), line, k + 1)
<1> DEFINE key == line.members[k + 1][1]
           value == line.members[k + 1][2]
           w == DecodeMember(u, key, value)
<1>0. /\ \A j \in 1 .. k + 1 : j \in 1 .. k \/ j = k + 1
      /\ k + 1 \notin 1 .. k
      /\ \A j \in 1 .. k : j \in DOMAIN line.members
  <2>1. DOMAIN line.members = 1 .. Len(line.members) /\ Len(line.members) \in Nat
    BY LenProperties, Zenon DEF LineOk, IsSeq
  <2> QED
    BY <2>1
<1>1. CASE key \notin Fields
  <2>1. key \in Unread => value.type \in {"text", "null"}
    BY Zenon DEF Complete
  <2>2. DOMAIN u = Fields \cup {"ok"} /\ u.ok = TRUE
    BY Zenon DEF Decoded
  <2>3. \A f \in Fields : key # f
    BY <1>1
  <2> HIDE DEF key, value
  <2>4. w = u \/ w = [u EXCEPT !.ok = TRUE]
    <3>1. CASE value.type = "null" \/ key \notin Unread
      BY <1>1, <3>1 DEF DecodeMember, Fields, Unread
    <3>2. CASE value.type = "text" /\ key \in Unread
      BY <1>1, <3>2 DEF DecodeMember, Fields, Unread
    <3> QED
      BY <2>1, <3>1, <3>2
  <2> HIDE DEF w
  <2>5. DOMAIN w = Fields \cup {"ok"} /\ w.ok = TRUE /\ \A f \in Fields : w[f] = u[f]
    BY <2>2, <2>4 DEF Fields
  <2>6. ASSUME NEW f \in Fields, NEW j \in 1 .. k + 1, line.members[j][1] = f
        PROVE  w[f] = Parsed(line.members[j][2], f)
    <3>1. j # k + 1
      BY <2>3, <2>6 DEF key
    <3>2. j \in 1 .. k
      BY <1>0, <3>1
    <3>3. u[f] = Parsed(line.members[j][2], f)
      BY <2>6, <3>2, Zenon DEF Decoded
    <3> QED
      BY <2>5, <3>3
  <2> QED
    BY <2>5, <2>6, Zenon DEF Decoded, w, key, value
<1>2. CASE key \in Fields
  <2>1. FitsField(key, value)
    BY <1>2, CompleteValue, Zenon
  <2>2. DOMAIN u = Fields \cup {"ok"} /\ u.ok = TRUE
    BY Zenon DEF Decoded
  <2> HIDE DEF key, value
  <2>3. w = [u EXCEPT ![key] = Parsed(value, key), !.ok = TRUE]
    BY <1>2, <2>1, <2>2, MemberDecoded, Zenon
  <2> HIDE DEF w
  <2>4. /\ DOMAIN w = Fields \cup {"ok"} /\ w.ok = TRUE
        /\ w[key] = Parsed(value, key)
        /\ \A f \in Fields \ {key} : w[f] = u[f]
    BY <1>2, <2>2, <2>3 DEF Fields
  <2>5. PICK p : HasField(line, key, p)
    <3>1. IsSeq(line.members)
      BY Zenon DEF LineOk
    <3> QED
      BY <1>2, <3>1, CompleteHasField, Zenon
  <2>6. \A j \in 1 .. k : line.members[j][1] # key
    BY <1>0, <2>5, Zenon DEF HasField, key
  <2>7. ASSUME NEW f \in Fields, NEW j \in 1 .. k + 1, line.members[j][1] = f
        PROVE  w[f] = Parsed(line.members[j][2], f)
    <3>1. CASE j = k + 1
      BY <2>4, <2>7, <3>1, Zenon DEF key, value
    <3>2. CASE j \in 1 .. k
      <4>1. f # key
        BY <2>6, <2>7, <3>2, Zenon
      <4>2. u[f] = Parsed(line.members[j][2], f)
        BY <2>7, <3>2, Zenon DEF Decoded
      <4> QED
        BY <2>4, <2>7, <4>1, <4>2
    <3> QED
      BY <1>0, <3>1, <3>2
  <2> QED
    BY <2>4, <2>7, Zenon DEF Decoded, w, key, value
<1> QED
  BY <1>1, <1>2, Zenon

(* Whatever the record held before: after a complete line it holds the line.*)
LEMMA DecodeComplete ==
  ASSUME NEW user, DOMAIN user = Fields \cup {"ok"}, NEW line, LineOk(line), Complete(line)
  PROVE  LET u == Decode(user, line)
         IN /\ DOMAIN u = Fields \cup {"ok"}
            /\ u.browsers = Member(line, "browsers").list
            /\ u.name = Member(line, "name")
            /\ u.email = Member(line, "email")
<1> DEFINE n == Len(line.members)
           f == DecodeMembers(user, line.members)
           S == {k \in 0 .. n : Decoded(f[k], line, k)}
<1>1. DOMAIN line.members = 1 .. n /\ n \in Nat
  BY LenProperties, Zenon DEF LineOk, IsSeq
<1>2. /\ f[0] = [user EXCEPT !.ok = TRUE]
      /\ \A i \in 1 .. n : f[i] = DecodeNext(f[i - 1], line.members[i])
  <2> DEFINE ms == line.members
  <2>1. Len(ms) \in Nat
    BY <1>1
  <2> HIDE DEF ms
  <2>2. /\ DecodeMembers(user, ms)[0] = [user EXCEPT !.ok = TRUE]
        /\ \A i \in 1 .. Len(ms) :
             DecodeMembers(user, ms)[i] = DecodeNext(DecodeMembers(user, ms)[i - 1], ms[i])
    BY <2>1, DecodeMembersStep
  <2> QED
    BY <2>2 DEF ms
<1>3. Decode(user, line) = f[n]
  BY Zenon DEF Decode, Complete
<1> HIDE DEF f, n
<1>4. Decoded(f[0], line, 0)
  BY <1>2 DEF Decoded
<1>5. 0 \in S
  BY <1>1, <1>4
<1>6. ASSUME NEW i \in 1 .. n, i - 1 \in S
      PROVE  i \in S
  <2>1. PICK k \in Nat : k = i - 1
    BY <1>1
  <2>2. i = k + 1 /\ k + 1 \in 1 .. n /\ i \in 0 .. n
    BY <1>1, <2>1
  <2>3. Decoded(f[k], line, k)
    BY <1>6, <2>1
  <2>4. Decoded(DecodeMember(f[k], line.members[k + 1][1], line.members[k + 1][2]), line, k + 1)
    BY <1>1, <2>2, <2>3, DecodeOneMore
  <2>5. f[k].ok = TRUE
    BY <2>3, Zenon DEF Decoded
  <2>6. f[i] = DecodeMember(f[k], line.members[k + 1][1], line.members[k + 1][2])
    BY <1>2, <2>1, <2>2, <2>5 DEF DecodeNext
  <2> QED
    BY <2>2, <2>4, <2>6
<1>7. \A i \in 0 .. n : i \in S
  <2> HIDE DEF S
  <2> QED
    BY <1>1, <1>5, <1>6, Climb
<1>8. Decoded(f[n], line, n)
  <2>1. n \in 0 .. n
    BY <1>1
  <2> QED
    BY <1>7, <2>1
<1>9. ASSUME NEW key \in Fields
      PROVE  f[n][key] = Parsed(Member(line, key), key)
  <2>1. PICK i : HasField(line, key, i)
    <3>1. IsSeq(line.members)
      BY Zenon DEF LineOk
    <3> QED
      BY <3>1, CompleteHasField, Zenon
  <2>2. i \in 1 .. n /\ line.members[i][1] = key /\ line.members[i][2] = Member(line, key)
    BY <1>1, <2>1, Zenon DEF HasField
  <2> QED
    BY <1>8, <2>2, Zenon DEF Decoded
<1>10. "browsers" \in Fields /\ "name" \in Fields /\ "email" \in Fields
  BY DEF Fields
<1> QED
  BY <1>3, <1>8, <1>9, <1>10 DEF Parsed, Decoded

(* A line changes no more of the record than its fields.                    *)
LEMMA DecodeKeepsDomain ==
  ASSUME NEW user, NEW line, LineOk(line)
  PROVE  DOMAIN Decode(user, line) = DOMAIN user
<1> DEFINE n == Len(line.members)
           f == DecodeMembers(user, line.members)
           S == {k \in 0 .. n : DOMAIN f[k] = DOMAIN user}
<1>1. n \in Nat
  BY LenProperties, Zenon DEF LineOk, IsSeq
<1>2. /\ f[0] = [user EXCEPT !.ok = TRUE]
      /\ \A i \in 1 .. n : f[i] = DecodeNext(f[i - 1], line.members[i])
  <2> DEFINE ms == line.members
  <2>1. Len(ms) \in Nat
    BY <1>1
  <2> HIDE DEF ms
  <2>2. /\ DecodeMembers(user, ms)[0] = [user EXCEPT !.ok = TRUE]
        /\ \A i \in 1 .. Len(ms) :
             DecodeMembers(user, ms)[i] = DecodeNext(DecodeMembers(user, ms)[i - 1], ms[i])
    BY <2>1, DecodeMembersStep
  <2> QED
    BY <2>2 DEF ms
<1>3. Decode(user, line) = IF line.kind = "user" THEN f[n] ELSE user
  BY Zenon DEF Decode
<1>4. \A u, key, value : DOMAIN DecodeMember(u, key, value) = DOMAIN u
  BY DEF DecodeMember
<1> HIDE DEF f, n
<1>5. 0 \in S
  BY <1>1, <1>2
<1>6. ASSUME NEW i \in 1 .. n, i - 1 \in S
      PROVE  i \in S
  BY <1>1, <1>2, <1>4, <1>6 DEF DecodeNext
<1>7. \A i \in 0 .. n : i \in S
  <2> HIDE DEF S
  <2> QED
    BY <1>1, <1>5, <1>6, Climb
<1>8. n \in 0 .. n
  BY <1>1
<1> QED
  BY <1>3, <1>7, <1>8

(* What a line adds to the browsers seen and to the users found.            *)
Browsers(line) == Member(line, "browsers").list
Meets(line, name) == \E j \in DOMAIN Browsers(line) : Mentions(Browsers(line)[j], name)
MeetsBoth(line) == Meets(line, "Android") /\ Meets(line, "MSIE")
NoneNoticed(line, seen) == \A j \in DOMAIN Browsers(line) : ~Noticed(Browsers(line)[j], seen)
Entry(i, line) == Line(i, [name |-> Member(line, "name")], Masked(Member(line, "email")))

SeenAfter(now, before, line) ==
  \A x : x \in now <=>
    x \in before \/ \E j \in DOMAIN Browsers(line) : x = Browsers(line)[j] /\ Named(Browsers(line)[j])

SlowFound(now, before, i, line) ==
  \/ now = before /\ ~MeetsBoth(line)
  \/ now = Append(before, Entry(i, line)) /\ MeetsBoth(line)

FastFound(now, before, i, line, seen) ==
  \/ now = before /\ (~MeetsBoth(line) \/ NoneNoticed(line, seen))
  \/ now = Append(before, Entry(i, line)) /\ MeetsBoth(line)

AddsAtMost(now, before, i) == now = before \/ \E f : f[1] = i /\ now = Append(before, f)

FastState(s) ==
  /\ DOMAIN s = {"found", "seen", "done", "user"}
  /\ DOMAIN s.user = Fields \cup {"ok"}
SlowState(s) == DOMAIN s = {"found", "seen", "panic"}

LEMMA BrowsersSeq ==
  ASSUME NEW line, LineOk(line), Complete(line)
  PROVE  /\ IsSeq(Browsers(line)) /\ Member(line, "browsers").type = "list"
         /\ Member(line, "email").type = "text"
         /\ DOMAIN Browsers(line) = 1 .. Len(Browsers(line)) /\ Len(Browsers(line)) \in Nat
         /\ Texts(Member(line, "browsers")) = Range(Browsers(line))
<1>1. IsSeq(line.members)
  BY Zenon DEF LineOk
<1>2. "browsers" \in Fields /\ "email" \in Fields
  BY DEF Fields
<1>3. PICK i : HasField(line, "browsers", i)
  BY <1>1, <1>2, CompleteHasField, Zenon
<1>4. PICK k : HasField(line, "email", k)
  BY <1>1, <1>2, CompleteHasField, Zenon
<1>5. Member(line, "browsers").type = "list" /\ Member(line, "email").type = "text"
  BY <1>3, <1>4 DEF HasField
<1>6. IsSeq(Browsers(line))
  <2>1. i \in DOMAIN line.members /\ line.members[i][2] = Member(line, "browsers")
    BY <1>3, Zenon DEF HasField
  <2> QED
    BY <1>5, <2>1, Zenon DEF LineOk, Browsers
<1>7. DOMAIN Browsers(line) = 1 .. Len(Browsers(line)) /\ Len(Browsers(line)) \in Nat
  BY <1>6, LenProperties, Zenon DEF IsSeq
<1>8. Texts(Member(line, "browsers")) = Range(Browsers(line))
  BY Zenon DEF Complete, Browsers
<1> QED
  BY <1>5, <1>6, <1>7, <1>8, Zenon

LEMMA FastLineComplete ==
  ASSUME NEW s, FastState(s), NEW i, NEW line, LineOk(line), Complete(line)
  PROVE  LET t == FastLine(s, i, line)
         IN /\ SeenAfter(t.seen, s.seen, line)
            /\ FastFound(t.found, s.found, i, line, s.seen)
<1> DEFINE u == Decode(s.user, line)
           b == BrowseAll(s.seen, u.browsers)[Len(u.browsers)]
           t == FastLine(s, i, line)
           n == Len(Browsers(line))
<1>1. DOMAIN s.user = Fields \cup {"ok"}
  BY Zenon DEF FastState
<1>2. u.browsers = Browsers(line) /\ u.name = Member(line, "name") /\ u.email = Member(line, "email")
  BY <1>1, DecodeComplete, Zenon DEF Browsers
<1>3. t = [s EXCEPT !.user = u, !.seen = b.seen,
                    !.found = IF b.isAndroid /\ b.isMSIE
                              THEN Append(@, Line(i, u, Masked(u.email))) ELSE @]
  BY Zenon DEF FastLine
<1>4. Line(i, u, Masked(u.email)) = Entry(i, line)
  BY <1>2 DEF Line, Entry
<1>5. DOMAIN Browsers(line) = 1 .. n /\ n \in Nat
  BY BrowsersSeq, Zenon
<1>6. Counted(b, s.seen, Browsers(line), n)
  BY <1>2, <1>5, AllCounted, Zenon
<1> HIDE DEF u, b, t, n
<1>7. t.seen = b.seen /\ t.found = IF b.isAndroid /\ b.isMSIE
                                   THEN Append(s.found, Entry(i, line)) ELSE s.found
  BY <1>3, <1>4 DEF FastState
<1>8. SeenAfter(t.seen, s.seen, line)
  BY <1>5, <1>6, <1>7, Zenon DEF SeenAfter, Counted
<1>9. /\ b.isAndroid <=> Meets(line, "Android")
      /\ b.isMSIE => Meets(line, "MSIE")
      /\ ~NoneNoticed(line, s.seen) => b.isMSIE
  BY <1>5, <1>6, Zenon DEF Counted, Meets, NoneNoticed
<1>10. FastFound(t.found, s.found, i, line, s.seen)
  BY <1>7, <1>9, Zenon DEF FastFound, MeetsBoth
<1> QED
  BY <1>8, <1>10 DEF t

LEMMA FastLineAny ==
  ASSUME NEW s, FastState(s), NEW i, NEW line, LineOk(line)
  PROVE  LET t == FastLine(s, i, line)
         IN FastState(t) /\ t.done = s.done /\ AddsAtMost(t.found, s.found, i)
<1> DEFINE u == Decode(s.user, line)
           b == BrowseAll(s.seen, u.browsers)[Len(u.browsers)]
           t == FastLine(s, i, line)
           f == Line(i, u, Masked(u.email))
<1>1. t = [s EXCEPT !.user = u, !.seen = b.seen,
                    !.found = IF b.isAndroid /\ b.isMSIE THEN Append(@, f) ELSE @]
  BY Zenon DEF FastLine
<1>2. DOMAIN u = Fields \cup {"ok"}
  BY DecodeKeepsDomain, Zenon DEF FastState
<1>3. f[1] = i
  BY DEF Line
<1> HIDE DEF u, b, f, t
<1>4. FastState(t) /\ t.done = s.done
  BY <1>1, <1>2 DEF FastState
<1>5. t.found = s.found \/ t.found = Append(s.found, f)
  BY <1>1 DEF FastState
<1> QED
  BY <1>3, <1>4, <1>5 DEF AddsAtMost, t

LEMMA SlowLineComplete ==
  ASSUME NEW s, SlowState(s), NEW i, NEW line, LineOk(line), Complete(line)
  PROVE  LET t == SlowLine(s, i, line)
         IN /\ SlowState(t) /\ t.panic = s.panic
            /\ SeenAfter(t.seen, s.seen, line)
            /\ SlowFound(t.found, s.found, i, line)
<1> DEFINE browsers == Member(line, "browsers")
           With(name) == {b \in Texts(browsers) : Mentions(b, name)}
           seen == s.seen \cup With("Android") \cup With("MSIE")
           t == SlowLine(s, i, line)
<1>1. /\ browsers.type = "list" /\ Member(line, "email").type = "text"
      /\ Texts(browsers) = Range(Browsers(line))
  BY BrowsersSeq, Zenon
<1>2. t = IF With("Android") = {} \/ With("MSIE") = {} THEN [s EXCEPT !.seen = seen]
          ELSE [s EXCEPT !.seen = seen, !.found = Append(@, Entry(i, line))]
  <2>1. Line(i, [name |-> Member(line, "name")], Masked(Member(line, "email"))) = Entry(i, line)
    BY Zenon DEF Entry
  <2> QED
    BY <1>1, <2>1, Zenon DEF SlowLine
<1>3. \A name : With(name) # {} <=> Meets(line, name)
  BY <1>1 DEF Meets, Range
<1>4. \A x : x \in seen <=>
        x \in s.seen \/ \E j \in DOMAIN Browsers(line) :
                          x = Browsers(line)[j] /\ Named(Browsers(line)[j])
  BY <1>1 DEF Range, Named
<1> HIDE DEF browsers, With, seen, t
<1>5. SlowState(t) /\ t.panic = s.panic /\ t.seen = seen
  BY <1>2 DEF SlowState
<1>6. t.found = IF MeetsBoth(line) THEN Append(s.found, Entry(i, line)) ELSE s.found
  BY <1>2, <1>3 DEF SlowState, MeetsBoth
<1>7. SeenAfter(t.seen, s.seen, line)
  BY <1>4, <1>5, Zenon DEF SeenAfter
<1>8. SlowFound(t.found, s.found, i, line)
  BY <1>6, Zenon DEF SlowFound
<1> QED
  BY <1>5, <1>7, <1>8 DEF t

LEMMA SlowLineAny ==
  ASSUME NEW s, SlowState(s), NEW i, NEW line
  PROVE  LET t == SlowLine(s, i, line)
         IN SlowState(t) /\ AddsAtMost(t.found, s.found, i)
<1> DEFINE browsers == Member(line, "browsers")
           With(name) == {b \in Texts(browsers) : Mentions(b, name)}
           seen == s.seen \cup With("Android") \cup With("MSIE")
           f == Line(i, [name |-> Member(line, "name")], Masked(Member(line, "email")))
           t == SlowLine(s, i, line)
<1>1. \/ t = s
      \/ t = [s EXCEPT !.seen = seen]
      \/ t = [s EXCEPT !.seen = seen, !.panic = TRUE]
      \/ t = [s EXCEPT !.seen = seen, !.found = Append(@, f)]
  BY Zenon DEF SlowLine
<1>2. f[1] = i
  BY DEF Line
<1> HIDE DEF seen, f, t
<1>3. SlowState(t)
  BY <1>1 DEF SlowState
<1>4. t.found = s.found \/ t.found = Append(s.found, f)
  BY <1>1 DEF SlowState
<1> QED
  BY <1>2, <1>3, <1>4 DEF AddsAtMost, t

(* The users found in the first k lines, in the order of these.             *)
Listing(found, k) ==
  /\ IsSeq(found)
  /\ \A a \in DOMAIN found : found[a][1] \in 0 .. k - 1
  /\ InFileOrder(found)

LEMMA ListingGrows ==
  ASSUME NEW found, NEW k \in Nat, Listing(found, k), NEW f, f[1] = k
  PROVE  /\ Listing(Append(found, f), k + 1)
         /\ Range(Append(found, f)) = Range(found) \cup {f}
<1> DEFINE n == Len(found)
           g == Append(found, f)
           S == Range(found) \cup {f}
<1>1. found \in Seq(S) /\ f \in S
  <2>1. found \in Seq(Range(found))
    BY Zenon DEF Listing, IsSeq
  <2> DEFINE R == Range(found)
  <2> HIDE DEF R
  <2>2. found \in Seq(R)
    BY <2>1 DEF R
  <2>3. found \in Seq(R \cup {f})
    BY <2>2
  <2> QED
    BY <2>3 DEF R
<1> HIDE DEF S
<1>2. /\ g \in Seq(S) /\ Len(g) = n + 1 /\ n \in Nat
      /\ \A i \in 1 .. n : g[i] = found[i]
      /\ g[n + 1] = f
  BY <1>1, AppendProperties, LenProperties
<1>3. DOMAIN g = 1 .. n + 1 /\ DOMAIN found = 1 .. n
  BY <1>1, <1>2, LenProperties
<1> HIDE DEF g, n
<1>4. \A i \in 1 .. n + 1 : i \in 1 .. n \/ i = n + 1
  BY <1>2
<1>5. Range(g) = Range(found) \cup {f}
  <2>1. \A i \in 1 .. n : i \in 1 .. n + 1
    BY <1>2
  <2>2. n + 1 \in 1 .. n + 1
    BY <1>2
  <2> QED
    BY <1>2, <1>3, <1>4, <2>1, <2>2 DEF Range
<1>6. IsSeq(g)
  BY <1>2, <1>5 DEF IsSeq, S
<1>7. \A a \in DOMAIN found : found[a][1] \in 0 .. k - 1
  BY Zenon DEF Listing
<1>8. \A a \in DOMAIN g : g[a][1] \in 0 .. (k + 1) - 1
  BY <1>2, <1>3, <1>4, <1>7
<1>9. InFileOrder(g)
  <2> SUFFICES ASSUME NEW a \in DOMAIN g, NEW b \in DOMAIN g, a < b PROVE g[a][1] < g[b][1]
    BY DEF InFileOrder
  <2>1. a \in 1 .. n
    BY <1>2, <1>3
  <2>2. CASE b \in 1 .. n
    BY <1>2, <1>3, <2>1, <2>2 DEF Listing, InFileOrder
  <2>3. CASE b = n + 1
    BY <1>2, <1>3, <1>7, <2>1, <2>3
  <2> QED
    BY <1>3, <1>4, <2>2, <2>3
<1> QED
  BY <1>5, <1>6, <1>8, <1>9 DEF Listing, g

LEMMA ListingAtMost ==
  ASSUME NEW now, NEW before, NEW k \in Nat, Listing(before, k), AddsAtMost(now, before, k)
  PROVE  /\ Listing(now, k + 1)
         /\ Range(before) \subseteq Range(now)
         /\ \A f \in Range(now) \ Range(before) : f[1] = k
<1>1. CASE now = before
  BY <1>1 DEF Listing
<1>2. CASE \E f : f[1] = k /\ now = Append(before, f)
  <2>1. PICK f : f[1] = k /\ now = Append(before, f)
    BY <1>2
  <2>2. Listing(now, k + 1) /\ Range(now) = Range(before) \cup {f}
    BY <2>1, ListingGrows
  <2> QED
    BY <2>1, <2>2
<1> QED
  BY <1>1, <1>2 DEF AddsAtMost

(* Both searches after the first k lines.                                   *)
FastFacts(k) ==
  FastState(FastLines[k]) /\ FastLines[k].done = FALSE /\ Listing(FastLines[k].found, k)
SlowFacts(k) == SlowState(SlowLines[k]) /\ Listing(SlowLines[k].found, k)
SameSeen(k) == AllComplete => \A x : x \in FastLines[k].seen <=> x \in SlowLines[k].seen
SameFound(k) ==
  /\ Sure(FastLines[k].found) \subseteq Sure(SlowLines[k].found)
  /\ \A f \in Sure(SlowLines[k].found) \ Sure(FastLines[k].found) : OnlyHidden(f[1] + 1)
SeenLines(k) ==
  AllComplete => \A i \in 1 .. k : \A b \in Texts(Member(file[i], "browsers")) :
                   Named(b) => b \in FastLines[k].seen
Together(k) == FastFacts(k) /\ SlowFacts(k) /\ SameSeen(k) /\ SeenLines(k) /\ SameFound(k)

LEMMA SlowFactsStep ==
  ASSUME IsFile, NEW k \in Nat, k + 1 \in DOMAIN file, SlowFacts(k), ~SlowLines[k].panic
  PROVE  SlowLines[k + 1] = SlowLine(SlowLines[k], k, file[k + 1]) /\ SlowFacts(k + 1)
<1>1. Len(file) \in Nat /\ DOMAIN file = 1 .. Len(file)
  BY LenProperties, Zenon DEF IsFile, IsSeq
<1>2. k + 1 \in 1 .. Len(file) /\ k + 1 - 1 = k
  BY <1>1
<1>3. SlowLines[k + 1] = SlowLine(SlowLines[k], k, file[k + 1])
  <2>1. PICK j \in 1 .. Len(file) : j = k + 1 /\ j - 1 = k
    BY <1>2
  <2>2. SlowLines[j] = IF SlowLines[j - 1].panic THEN SlowLines[j - 1]
                       ELSE SlowLine(SlowLines[j - 1], j - 1, file[j])
    BY <1>1, SlowLinesStep
  <2> QED
    BY <2>1, <2>2
<1>4. SlowState(SlowLines[k + 1]) /\ AddsAtMost(SlowLines[k + 1].found, SlowLines[k].found, k)
  BY <1>3, SlowLineAny, Zenon DEF SlowFacts
<1>5. Listing(SlowLines[k + 1].found, k + 1)
  BY <1>4, ListingAtMost, Zenon DEF SlowFacts
<1> QED
  BY <1>3, <1>4, <1>5, Zenon DEF SlowFacts

LEMMA FastFactsStep ==
  ASSUME IsFile, NEW k \in Nat, k + 1 \in DOMAIN file, file[k + 1].kind = "user", FastFacts(k)
  PROVE  FastLines[k + 1] = FastLine(FastLines[k], k, file[k + 1]) /\ FastFacts(k + 1)
<1>1. Len(file) \in Nat /\ DOMAIN file = 1 .. Len(file)
  BY LenProperties, Zenon DEF IsFile, IsSeq
<1>2. k + 1 \in 1 .. Len(file) /\ k + 1 - 1 = k
  BY <1>1
<1>3. FastLines[k + 1] = FastLine(FastLines[k], k, file[k + 1])
  <2>1. PICK j \in 1 .. Len(file) : j = k + 1 /\ j - 1 = k
    BY <1>2
  <2>2. FastLines[j] = IF FastLines[j - 1].done \/ file[j].kind = "long"
                       THEN [FastLines[j - 1] EXCEPT !.done = TRUE]
                       ELSE FastLine(FastLines[j - 1], j - 1, file[j])
    BY <1>1, FastLinesStep
  <2>3. FastLines[k].done = FALSE
    BY Zenon DEF FastFacts
  <2> QED
    BY <2>1, <2>2, <2>3
<1>4. LineOk(file[k + 1])
  BY Zenon DEF IsFile, LineOk
<1>5. /\ FastState(FastLines[k + 1]) /\ FastLines[k + 1].done = FastLines[k].done
      /\ AddsAtMost(FastLines[k + 1].found, FastLines[k].found, k)
  <2>1. FastState(FastLines[k])
    BY Zenon DEF FastFacts
  <2> QED
    BY <1>3, <1>4, <2>1, FastLineAny
<1>6. Listing(FastLines[k + 1].found, k + 1)
  BY <1>5, ListingAtMost, Zenon DEF FastFacts
<1> QED
  BY <1>3, <1>5, <1>6, Zenon DEF FastFacts

LEMMA HiddenInLine ==
  ASSUME IsFile, NEW k \in Nat, k + 1 \in DOMAIN file, Complete(file[k + 1]), SeenLines(k),
         NoneNoticed(file[k + 1], FastLines[k].seen)
  PROVE  OnlyHidden(k + 1)
<1> DEFINE line == file[k + 1]
           seen == FastLines[k].seen
<1>1. LineOk(line)
  BY Zenon DEF IsFile, LineOk
<1>2. Texts(Member(line, "browsers")) = Range(Browsers(line))
  BY <1>1, BrowsersSeq, Zenon
<1>3. ASSUME NEW b \in Texts(Member(line, "browsers")), Mentions(b, "MSIE")
      PROVE  Mentions(b, "Android") /\ b \notin seen
  <2>1. PICK j \in DOMAIN Browsers(line) : b = Browsers(line)[j]
    BY <1>2, <1>3, Zenon DEF Range
  <2> QED
    BY <1>3, <2>1, Zenon DEF NoneNoticed, Noticed
<1>4. ASSUME AllComplete, NEW i \in 1 .. (k + 1) - 1, NEW b, Mentions(b, "MSIE"), b \notin seen
      PROVE  b \notin Texts(Member(file[i], "browsers"))
  <2>1. i \in 1 .. k
    OBVIOUS
  <2> QED
    BY <1>4, <2>1, Zenon DEF SeenLines, Named
<1> QED
  BY <1>3, <1>4, Zenon DEF OnlyHidden

(* Of what is added, only an entry of a complete line counts.               *)
LEMMA SureGrows ==
  ASSUME NEW k \in Nat, NEW before, Listing(before, k), NEW now, NEW e, e[1] = k,
         now = Append(before, e), Complete(file[k + 1])
  PROVE  Range(now) = Range(before) \cup {e} /\ Sure(now) = Sure(before) \cup {e}
<1>1. Range(now) = Range(before) \cup {e}
  BY ListingGrows
<1>2. Complete(file[e[1] + 1])
  OBVIOUS
<1> QED
  BY <1>1, <1>2, Zenon DEF Sure

LEMMA SureStays ==
  ASSUME NEW k \in Nat, NEW before, Listing(before, k), NEW now, AddsAtMost(now, before, k),
         ~Complete(file[k + 1])
  PROVE  Sure(now) = Sure(before)
<1>1. Range(before) \subseteq Range(now) /\ \A f \in Range(now) \ Range(before) : f[1] = k
  BY ListingAtMost
<1> QED
  BY <1>1, Zenon DEF Sure

LEMMA SameFoundStep ==
  ASSUME IsFile, NEW k \in Nat, k + 1 \in DOMAIN file, Together(k),
         FastLines[k + 1] = FastLine(FastLines[k], k, file[k + 1]),
         SlowLines[k + 1] = SlowLine(SlowLines[k], k, file[k + 1])
  PROVE  SameFound(k + 1)
<1> DEFINE line == file[k + 1]
           e == Entry(k, line)
           fast == FastLines[k].found
           slow == SlowLines[k].found
           fastNow == FastLines[k + 1].found
           slowNow == SlowLines[k + 1].found
           seen == FastLines[k].seen
<1>1. LineOk(line)
  BY Zenon DEF IsFile, LineOk
<1>2. FastState(FastLines[k]) /\ SlowState(SlowLines[k]) /\ Listing(fast, k) /\ Listing(slow, k)
  BY Zenon DEF Together, FastFacts, SlowFacts
<1>3. /\ Sure(fast) \subseteq Sure(slow)
      /\ \A f \in Sure(slow) \ Sure(fast) : OnlyHidden(f[1] + 1)
  BY Zenon DEF Together, SameFound
<1>4. CASE Complete(line)
  <2>1. FastFound(fastNow, fast, k, line, seen)
    BY <1>1, <1>2, <1>4, FastLineComplete
  <2>2. SlowFound(slowNow, slow, k, line)
    BY <1>1, <1>2, <1>4, SlowLineComplete
  <2>3. e[1] = k
    BY DEF Entry, Line
  <2>4. NoneNoticed(line, seen) => OnlyHidden(e[1] + 1)
    BY <1>4, <2>3, HiddenInLine DEF Together
  <2> HIDE DEF e, line, fast, slow, fastNow, slowNow, seen
  <2>5. \/ slowNow = slow /\ ~MeetsBoth(line)
        \/ Sure(slowNow) = Sure(slow) \cup {e} /\ MeetsBoth(line)
    BY <1>2, <1>4, <2>2, <2>3, SureGrows DEF SlowFound, e, line
  <2>6. \/ fastNow = fast /\ (~MeetsBoth(line) \/ NoneNoticed(line, seen))
        \/ Sure(fastNow) = Sure(fast) \cup {e} /\ MeetsBoth(line)
    BY <1>2, <1>4, <2>1, <2>3, SureGrows DEF FastFound, e, line
  <2> QED
    BY <1>3, <2>4, <2>5, <2>6, Zenon DEF SameFound, fast, slow, fastNow, slowNow
<1>5. CASE ~Complete(line)
  <2>1. AddsAtMost(fastNow, fast, k)
    BY <1>1, <1>2, FastLineAny
  <2>2. AddsAtMost(slowNow, slow, k)
    BY <1>2, SlowLineAny
  <2>3. Sure(fastNow) = Sure(fast) /\ Sure(slowNow) = Sure(slow)
    BY <1>2, <1>5, <2>1, <2>2, SureStays
  <2> QED
    BY <1>3, <2>3, Zenon DEF SameFound
<1> QED
  BY <1>4, <1>5

LEMMA SameSeenStep ==
  ASSUME IsFile, NEW k \in Nat, k + 1 \in DOMAIN file, Together(k),
         FastLines[k + 1] = FastLine(FastLines[k], k, file[k + 1]),
         SlowLines[k + 1] = SlowLine(SlowLines[k], k, file[k + 1])
  PROVE  SameSeen(k + 1) /\ SeenLines(k + 1)
<1> DEFINE line == file[k + 1]
<1> SUFFICES ASSUME AllComplete
             PROVE  SameSeen(k + 1) /\ SeenLines(k + 1)
  BY Zenon DEF SameSeen, SeenLines
<1>1. LineOk(line) /\ Complete(line)
  BY Zenon DEF IsFile, LineOk, AllComplete
<1>2. FastState(FastLines[k]) /\ SlowState(SlowLines[k])
  BY Zenon DEF Together, FastFacts, SlowFacts
<1>3. SeenAfter(FastLines[k + 1].seen, FastLines[k].seen, line)
  BY <1>1, <1>2, FastLineComplete
<1>4. SeenAfter(SlowLines[k + 1].seen, SlowLines[k].seen, line)
  BY <1>1, <1>2, SlowLineComplete
<1>5. \A x : x \in FastLines[k].seen <=> x \in SlowLines[k].seen
  BY Zenon DEF Together, SameSeen
<1>6. SameSeen(k + 1)
  BY <1>3, <1>4, <1>5, Zenon DEF SeenAfter, SameSeen
<1>7. ASSUME NEW i \in 1 .. k + 1, NEW b \in Texts(Member(file[i], "browsers")), Named(b)
      PROVE  b \in FastLines[k + 1].seen
  <2>1. i \in 1 .. k \/ i = k + 1
    OBVIOUS
  <2>2. CASE i \in 1 .. k
    BY <1>3, <1>7, <2>2, Zenon DEF Together, SeenLines, SeenAfter
  <2>3. CASE i = k + 1
    <3>1. PICK j \in DOMAIN Browsers(line) : b = Browsers(line)[j]
      <4>1. Texts(Member(line, "browsers")) = Range(Browsers(line))
        BY <1>1, BrowsersSeq, Zenon
      <4>2. b \in Texts(Member(line, "browsers"))
        BY <2>3
      <4> QED
        BY <4>1, <4>2, Zenon DEF Range
    <3> QED
      BY <1>3, <1>7, <3>1, Zenon DEF SeenAfter
  <2> QED
    BY <2>1, <2>2, <2>3
<1>8. SeenLines(k + 1)
  BY <1>7, Zenon DEF SeenLines
<1> QED
  BY <1>6, <1>8

LEMMA TogetherAlways ==
  ASSUME IsFile, \A i \in DOMAIN file : file[i].kind = "user",
         \A k \in 0 .. Len(file) : ~SlowLines[k].panic
  PROVE  Together(Len(file))
<1> DEFINE n == Len(file)
           S == {k \in 0 .. n : Together(k)}
<1>1. n \in Nat /\ DOMAIN file = 1 .. n
  BY LenProperties, Zenon DEF IsFile, IsSeq
<1>2. 0 \in S
  <2>1. /\ SlowLines[0] = Nothing
        /\ FastLines[0] = [found |-> <<>>, seen |-> {}, done |-> FALSE, user |-> NoUser]
    BY <1>1, SlowLinesStep, FastLinesStep
  <2> DEFINE s == SlowLines[0]
             t == FastLines[0]
  <2>2. SlowState(s) /\ s.found = <<>> /\ s.seen = {}
    BY <2>1 DEF SlowState, Nothing
  <2>3. FastState(t) /\ t.done = FALSE /\ t.found = <<>> /\ t.seen = {}
    BY <2>1 DEF FastState, NoUser, Fields
  <2>4. Listing(<<>>, 0)
    BY DEF Listing, IsSeq, InFileOrder
  <2>5. Sure(<<>>) = {}
    BY DEF Sure, Range
  <2>6. Together(0)
    BY <2>2, <2>3, <2>4, <2>5 DEF Together, FastFacts, SlowFacts, SameSeen, SeenLines, SameFound
  <2> QED
    BY <1>1, <2>6
<1>3. ASSUME NEW i \in 1 .. n, i - 1 \in S
      PROVE  i \in S
  <2>1. PICK k \in Nat : k = i - 1
    BY <1>1
  <2>2. i = k + 1 /\ k \in 0 .. n /\ i \in 0 .. n /\ k + 1 \in DOMAIN file
    BY <1>1, <2>1
  <2>3. Together(k) /\ ~SlowLines[k].panic /\ file[k + 1].kind = "user"
    BY <1>3, <2>1, <2>2
  <2>4. SlowLines[k + 1] = SlowLine(SlowLines[k], k, file[k + 1]) /\ SlowFacts(k + 1)
    BY <2>2, <2>3, SlowFactsStep, Zenon DEF Together
  <2>5. FastLines[k + 1] = FastLine(FastLines[k], k, file[k + 1]) /\ FastFacts(k + 1)
    BY <2>2, <2>3, FastFactsStep, Zenon DEF Together
  <2>6. SameFound(k + 1) /\ SameSeen(k + 1) /\ SeenLines(k + 1)
    BY <2>2, <2>3, <2>4, <2>5, SameFoundStep, SameSeenStep, Zenon
  <2>7. Together(k + 1)
    BY <2>4, <2>5, <2>6, Zenon DEF Together
  <2> QED
    BY <2>2, <2>7
<1>4. \A i \in 0 .. n : i \in S
  <2> HIDE DEF S, n
  <2> QED
    BY <1>1, <1>2, <1>3, Climb
<1>5. n \in 0 .. n
  BY <1>1
<1> QED
  BY <1>4, <1>5

(* A panic is final, and no complete line makes one.                        *)
LEMMA NoPanicBefore ==
  ASSUME IsFile, ~SlowLines[Len(file)].panic
  PROVE  \A k \in 0 .. Len(file) : ~SlowLines[k].panic
<1> DEFINE n == Len(file)
<1> SUFFICES ASSUME NEW k \in 0 .. n, SlowLines[k].panic PROVE FALSE
  OBVIOUS
<1> DEFINE S == {i \in 0 .. n : i < k \/ SlowLines[i].panic}
<1>1. n \in Nat
  BY LenProperties, Zenon DEF IsFile, IsSeq
<1>2. \A i \in 1 .. n : SlowLines[i - 1].panic => SlowLines[i] = SlowLines[i - 1]
  BY <1>1, SlowLinesStep
<1> HIDE DEF n
<1>3. 0 \in S
  BY <1>1
<1>4. ASSUME NEW i \in 1 .. n, i - 1 \in S
      PROVE  i \in S
  <2>1. i \in 0 .. n /\ i \in Nat /\ k \in Nat
    BY <1>1
  <2>2. CASE i - 1 < k
    <3>1. i < k \/ i = k
      BY <2>1, <2>2
    <3> QED
      BY <2>1, <3>1
  <2>3. CASE SlowLines[i - 1].panic
    BY <1>2, <2>1, <2>3
  <2> QED
    BY <1>4, <2>2, <2>3
<1>5. \A i \in 0 .. n : i \in S
  <2> HIDE DEF S
  <2> QED
    BY <1>1, <1>3, <1>4, Climb
<1>6. n \in 0 .. n /\ ~(n < k)
  BY <1>1
<1> QED
  BY <1>5, <1>6 DEF n

LEMMA CompleteNoPanic ==
  ASSUME IsFile, AllComplete
  PROVE  \A k \in 0 .. Len(file) : ~SlowLines[k].panic
<1> DEFINE n == Len(file)
           S == {k \in 0 .. n : SlowState(SlowLines[k]) /\ ~SlowLines[k].panic}
<1>1. n \in Nat /\ DOMAIN file = 1 .. n
  BY LenProperties, Zenon DEF IsFile, IsSeq
<1>2. /\ SlowLines[0] = Nothing
      /\ \A i \in 1 .. n :
           SlowLines[i] = IF SlowLines[i - 1].panic THEN SlowLines[i - 1]
                          ELSE SlowLine(SlowLines[i - 1], i - 1, file[i])
  BY <1>1, SlowLinesStep
<1> HIDE DEF n
<1>3. 0 \in S
  BY <1>1, <1>2 DEF SlowState, Nothing
<1>4. ASSUME NEW i \in 1 .. n, i - 1 \in S
      PROVE  i \in S
  <2>1. SlowState(SlowLines[i - 1]) /\ ~SlowLines[i - 1].panic
    BY <1>4
  <2>2. SlowLines[i] = SlowLine(SlowLines[i - 1], i - 1, file[i])
    BY <1>2, <2>1
  <2>3. LineOk(file[i]) /\ Complete(file[i])
    BY <1>1, Zenon DEF IsFile, LineOk, AllComplete
  <2>4. SlowState(SlowLines[i]) /\ SlowLines[i].panic = SlowLines[i - 1].panic
    BY <2>1, <2>2, <2>3, SlowLineComplete
  <2> QED
    BY <1>1, <2>1, <2>4
<1>5. \A i \in 0 .. n : i \in S
  <2> HIDE DEF S
  <2> QED
    BY <1>1, <1>3, <1>4, Climb
<1> QED
  BY <1>5 DEF n

(* For any file: the fast search counts the same browsers as the slow one   *)
(* where all lines are complete (no field that either decodes is missing or *)
(* of a wrong type), and elsewhere it still prints of the complete lines    *)
(* the users that the slow one prints, but for those of whose browsers with *)
(* the name MSIE each has the name Android too and is a new one             *)
(* (chapter1/hw3/fast.go).                                                  *)
THEOREM SearchesCorrect == SearchesAgree
<1> SUFFICES ASSUME IsFile PROVE Agree
  BY Zenon DEF SearchesAgree
<1> DEFINE n == Len(file)
<1>1. DOMAIN file = 1 .. n /\ n \in Nat
  BY LenProperties, Zenon DEF IsFile, IsSeq
<1>2. ASSUME AllComplete
      PROVE  ~SlowSearch.panic /\ FastSearch.seen = SlowSearch.seen
  <2>1. \A i \in DOMAIN file : file[i].kind = "user"
    BY <1>2, Zenon DEF AllComplete, Complete
  <2>2. \A k \in 0 .. n : ~SlowLines[k].panic
    BY <1>2, CompleteNoPanic
  <2>3. Together(n)
    BY <2>1, <2>2, TogetherAlways
  <2>4. SlowSearch = SlowLines[n]
    BY <2>1 DEF SlowSearch, IsUser
  <2>5. n \in 0 .. n
    BY <1>1
  <2>6. \A x : x \in FastSearch.seen <=> x \in SlowSearch.seen
    BY <1>2, <2>3, <2>4, Zenon DEF Together, SameSeen, FastSearch
  <2>7. FastSearch.seen = SlowSearch.seen
    BY <2>6
  <2> QED
    BY <2>2, <2>4, <2>5, <2>7
<1>3. ASSUME ~SlowSearch.panic, \A i \in DOMAIN file : file[i].kind = "user"
      PROVE  /\ InFileOrder(SlowSearch.found) /\ InFileOrder(FastSearch.found)
             /\ Sure(FastSearch.found) \subseteq Sure(SlowSearch.found)
             /\ \A f \in Sure(SlowSearch.found) \ Sure(FastSearch.found) :
                  OnlyHidden(f[1] + 1)
  <2>1. SlowSearch = SlowLines[n]
    BY <1>3 DEF SlowSearch, IsUser
  <2>2. \A k \in 0 .. n : ~SlowLines[k].panic
    BY <1>3, <2>1, NoPanicBefore
  <2>3. Together(n)
    BY <1>3, <2>2, TogetherAlways
  <2> QED
    BY <2>1, <2>3, Zenon DEF Together, FastFacts, SlowFacts, Listing, SameFound, FastSearch
<1> QED
  BY <1>2, <1>3, Zenon DEF Agree
=============================================================================
