----------------------- MODULE KafkaJSConsumer_proofs -----------------------
(***************************************************************************)
(* Proofs about KafkaJSConsumer, for any partitions, workers, logs, chunk  *)
(* and batch sizes, handlers and budgets: its type, that the queues stay   *)
(* counted, bounded and current, that workers and pump hand work over      *)
(* without losing it or doing it twice, and that a partition's messages    *)
(* are handled in order until something rewinds it.                        *)
(***************************************************************************)
EXTENDS KafkaJSConsumer, Integers, SequenceTheorems, FunctionTheorems,
        FiniteSetTheorems, WellFoundedInduction, TLAPS

-----------------------------------------------------------------------------
(* What Ascending and At return, for every set of numbers and sequence.    *)
Rising(seq) == \A i, j \in 1..Len(seq) : i < j => seq[i] < seq[j]

(* A finite set of numbers can be put in ascending order: a smallest set   *)
(* without such an order would be without its minimum, which comes first.  *)
InAscent(s) == \A i, j \in DOMAIN s : i < j => s[i] < s[j]

LEMMA LeastNumber ==
  ASSUME NEW S, S \subseteq Nat, S # {}
  PROVE  \E m \in S : \A n \in S : m <= n
  <1>1. PICK m \in S : \A n \in S : ~ (<<n, m>> \in OpToRel(<, Nat))
    BY WFMin, NatLessThanWellFounded
  <1>2. \A n \in S : ~ (n < m)
    BY <1>1 DEF OpToRel
  <1> QED BY <1>2

LEMMA AscentExists ==
  ASSUME NEW S, S \subseteq Nat, IsFiniteSet(S)
  PROVE  \E s \in [1..Cardinality(S) -> S] : InAscent(s)
  <1> DEFINE HasAscent(T) == \E s \in [1..Cardinality(T) -> T] : InAscent(s)
             Bad == {n \in Nat : \E T \in SUBSET Nat :
                       IsFiniteSet(T) /\ Cardinality(T) = n /\ ~HasAscent(T)}
  <1>1. SUFFICES ASSUME ~HasAscent(S) PROVE FALSE
    OBVIOUS
  <1>2. Bad # {}
    BY <1>1, FS_CardinalityType
  <1>3. PICK n \in Bad : \A m \in Bad : n <= m
    BY <1>2, LeastNumber
  <1>4. PICK T \in SUBSET Nat : IsFiniteSet(T) /\ Cardinality(T) = n /\ ~HasAscent(T)
    BY <1>3
  <1>5. n \in Nat
    BY <1>3
  <1>6. T # {}
    <2>1. ASSUME T = {} PROVE FALSE
      <3>1. Cardinality(T) = 0
        BY <2>1, FS_EmptySet
      <3>2. [i \in 1..0 |-> i] \in [1..Cardinality(T) -> T] /\ InAscent([i \in 1..0 |-> i])
        BY <3>1 DEF InAscent
      <3> QED BY <3>2, <1>4
    <2> QED BY <2>1
  <1>7. PICK m \in T : \A k \in T : m <= k
    BY <1>6, LeastNumber
  <1>8. IsFiniteSet(T \ {m}) /\ Cardinality(T \ {m}) = n - 1 /\ n - 1 \in Nat
    <2>1. IsFiniteSet(T \ {m}) /\ Cardinality(T \ {m}) = n - 1
      BY <1>4, <1>7, FS_RemoveElement
    <2> QED BY <2>1, FS_CardinalityType
  <1>9. HasAscent(T \ {m})
    <2>1. n - 1 \notin Bad
      BY <1>3, <1>5
    <2> QED BY <2>1, <1>8
  <1>10. PICK s \in [1..n-1 -> T \ {m}] : InAscent(s)
    BY <1>8, <1>9
  <1> DEFINE t == [i \in 1..n |-> IF i = 1 THEN m ELSE s[i - 1]]
  <1>11. t \in [1..n -> T]
    BY <1>5, <1>7, <1>10
  <1>12. InAscent(t)
    <2> SUFFICES ASSUME NEW i \in 1..n, NEW j \in 1..n, i < j PROVE t[i] < t[j]
      BY DEF InAscent
    <2>1. t[j] = s[j - 1] /\ j - 1 \in 1..n-1 /\ s[j - 1] \in T \ {m}
      BY <1>5, <1>10
    <2>2. CASE i = 1
      <3>1. m <= s[j - 1] /\ m # s[j - 1] /\ m \in Nat /\ s[j - 1] \in Nat
        BY <2>1, <1>7
      <3> QED BY <2>1, <2>2, <3>1
    <2>3. CASE i # 1
      <3>1. t[i] = s[i - 1] /\ i - 1 \in 1..n-1 /\ i - 1 < j - 1
        BY <2>3, <1>5
      <3> QED BY <3>1, <2>1, <1>10 DEF InAscent
    <2> QED BY <2>2, <2>3
  <1> QED BY <1>4, <1>11, <1>12

(* Ascending(S) is the members of S, each once, in ascending order.        *)
LEMMA AscendingProperties ==
  ASSUME NEW S, S \subseteq Nat, IsFiniteSet(S)
  PROVE  /\ Ascending(S) \in Seq(S) /\ Len(Ascending(S)) = Cardinality(S)
         /\ Cardinality(S) \in Nat
         /\ Rising(Ascending(S))
         /\ \A x \in S : \E i \in 1..Cardinality(S) : Ascending(S)[i] = x
  <1> DEFINE a == Ascending(S)
             n == Cardinality(S)
  <1>1. n \in Nat
    BY FS_CardinalityType
  <1>2. a \in [1..n -> S] /\ InAscent(a)
    BY AscentExists DEF Ascending, InAscent
  <1>3. a \in Seq(S) /\ Len(a) = n
    BY <1>1, <1>2, IsASeq
  <1>4. Rising(a)
    BY <1>2, <1>3 DEF InAscent, Rising
  <1>5. a \in Injection(1..n, S)
    <2>1. \A i, j \in 1..n : a[i] = a[j] => i = j
      <3> SUFFICES ASSUME NEW i \in 1..n, NEW j \in 1..n, a[i] = a[j], i # j PROVE FALSE
        OBVIOUS
      <3>1. a[i] \in Nat /\ a[j] \in Nat
        BY <1>2
      <3>2. a[i] < a[j] \/ a[j] < a[i]
        BY <1>1, <1>2 DEF InAscent
      <3> QED BY <3>1, <3>2
    <2> QED BY <1>2, <2>1 DEF Injection, IsInjective
  <1>6. Cardinality(1..n) = n
    BY <1>1, FS_Interval
  <1>7. a \in Surjection(1..n, S)
    BY <1>5, <1>6, FS_Injection
  <1> QED BY <1>1, <1>3, <1>4, <1>7 DEF Surjection

(* At(seq, I) keeps the order, and is just what seq holds at I.            *)
LEMMA AtProperties ==
  ASSUME NEW T, T \subseteq Nat, NEW seq \in Seq(T), NEW I, I \subseteq DOMAIN seq
  PROVE  /\ At(seq, I) \in Seq(T)
         /\ ToSet(At(seq, I)) = {seq[i] : i \in I}
         /\ Rising(seq) => Rising(At(seq, I))
  <1> DEFINE a == Ascending(I)
             n == Cardinality(I)
  <1>1. I \subseteq 1..Len(seq) /\ Len(seq) \in Nat /\ I \subseteq Nat
    BY LenProperties
  <1>2. IsFiniteSet(I)
    BY <1>1, FS_Interval, FS_Subset
  <1>3. /\ a \in Seq(I) /\ Len(a) = n /\ n \in Nat /\ Rising(a)
        /\ \A x \in I : \E i \in 1..n : a[i] = x
    BY <1>1, <1>2, AscendingProperties
  <1>4. \A k \in 1..n : a[k] \in I
    BY <1>3, ElementOfSeq
  <1>5. \A i \in I : seq[i] \in T
    BY <1>1, ElementOfSeq
  <1> HIDE DEF a, n
  <1>6. At(seq, I) = [k \in 1..n |-> seq[a[k]]]
    BY DEF At, a, n
  <1>7. At(seq, I) \in Seq(T) /\ Len(At(seq, I)) = n
    <2>1. At(seq, I) \in [1..n -> T]
      BY <1>4, <1>5, <1>6
    <2> QED BY <1>3, <2>1
  <1>8. ToSet(At(seq, I)) = {seq[i] : i \in I}
    <2>1. DOMAIN At(seq, I) = 1..n /\ \A k \in 1..n : At(seq, I)[k] = seq[a[k]]
      BY <1>6
    <2>2. ToSet(At(seq, I)) = {At(seq, I)[k] : k \in 1..n}
      BY <2>1 DEF ToSet
    <2> QED BY <1>3, <1>4, <2>1, <2>2
  <1>9. ASSUME Rising(seq) PROVE Rising(At(seq, I))
    <2> SUFFICES ASSUME NEW i \in 1..n, NEW j \in 1..n, i < j
                 PROVE  At(seq, I)[i] < At(seq, I)[j]
      BY <1>7 DEF Rising
    <2>1. a[i] \in 1..Len(seq) /\ a[j] \in 1..Len(seq) /\ a[i] < a[j]
      BY <1>1, <1>3, <1>4 DEF Rising
    <2> QED BY <2>1, <1>6, <1>9 DEF Rising
  <1> QED BY <1>7, <1>8, <1>9

(* At(seq, I) of any sequence: as long as I, and what seq holds at I.      *)
LEMMA AtSelects ==
  ASSUME NEW T, NEW seq \in Seq(T), NEW I, I \subseteq 1..Len(seq)
  PROVE  /\ IsFiniteSet(I) /\ Cardinality(I) \in Nat
         /\ At(seq, I) \in Seq(T) /\ Len(At(seq, I)) = Cardinality(I)
         /\ \A k \in 1..Cardinality(I) : \E i \in I : At(seq, I)[k] = seq[i]
         /\ \A i \in I : \E k \in 1..Cardinality(I) : At(seq, I)[k] = seq[i]
  <1> DEFINE a == Ascending(I)
             n == Cardinality(I)
  <1>1. IsFiniteSet(I) /\ I \subseteq Nat
    <2>1. Len(seq) \in Nat
      BY LenProperties
    <2>2. IsFiniteSet(1..Len(seq)) /\ I \in SUBSET (1..Len(seq))
      BY <2>1, FS_Interval
    <2>3. IsFiniteSet(I)
      BY <2>2, FS_Subset
    <2> QED BY <2>1, <2>3
  <1>2. /\ a \in Seq(I) /\ Len(a) = n /\ n \in Nat
        /\ \A x \in I : \E i \in 1..n : a[i] = x
    BY <1>1, AscendingProperties
  <1>3. \A k \in 1..n : a[k] \in I
    BY <1>2, ElementOfSeq
  <1>4. \A i \in I : seq[i] \in T
    BY ElementOfSeq
  <1> HIDE DEF a, n
  <1>5. At(seq, I) = [k \in 1..n |-> seq[a[k]]]
    BY DEF At, a, n
  <1>6. At(seq, I) \in Seq(T) /\ Len(At(seq, I)) = n
    <2>1. At(seq, I) \in [1..n -> T]
      BY <1>3, <1>4, <1>5
    <2> QED BY <1>2, <2>1
  <1>7. \A k \in 1..n : a[k] \in I /\ At(seq, I)[k] = seq[a[k]]
    BY <1>3, <1>5
  <1>8. \A i \in I : \E k \in 1..n : At(seq, I)[k] = seq[i]
    BY <1>2, <1>5
  <1> QED BY <1>1, <1>2, <1>6, <1>7, <1>8 DEF n

(* What is left of a sequence when the members of S are deleted.           *)
LEMMA AtFilters ==
  ASSUME NEW T, NEW seq \in Seq(T), NEW S
  PROVE  LET kept == At(seq, {i \in 1..Len(seq) : seq[i] \notin S})
         IN  ToSet(kept) = ToSet(seq) \ S
  <1> DEFINE I == {i \in 1..Len(seq) : seq[i] \notin S}
             kept == At(seq, I)
             a == Ascending(I)
             n == Cardinality(I)
  <1>1. I \subseteq 1..Len(seq) /\ Len(seq) \in Nat
    BY LenProperties
  <1>2. IsFiniteSet(I) /\ I \subseteq Nat /\ kept \in Seq(T) /\ Len(kept) = n
    BY <1>1, AtSelects
  <1>3. /\ a \in Seq(I) /\ Len(a) = n /\ n \in Nat
        /\ \A x \in I : \E i \in 1..n : a[i] = x
    BY <1>2, AscendingProperties
  <1>4. \A k \in 1..n : a[k] \in I
    BY <1>3, ElementOfSeq
  <1>5. ToSet(seq) = {seq[i] : i \in 1..Len(seq)} /\ ToSet(kept) = {kept[k] : k \in 1..n}
    BY <1>2, LenProperties DEF ToSet
  <1>6. \A i : i \in I <=> i \in 1..Len(seq) /\ seq[i] \notin S
    OBVIOUS
  <1> HIDE DEF a, n, I
  <1>7. kept = [k \in 1..n |-> seq[a[k]]]
    BY DEF At, a, n
  <1> HIDE DEF kept
  <1>8. ASSUME NEW x \in ToSet(kept) PROVE x \in ToSet(seq) \ S
    BY <1>4, <1>5, <1>6, <1>7, <1>8
  <1>9. ASSUME NEW x \in ToSet(seq) \ S PROVE x \in ToSet(kept)
    <2>1. PICK i \in 1..Len(seq) : seq[i] = x
      BY <1>5, <1>9
    <2>2. i \in I
      BY <1>6, <1>9, <2>1
    <2>3. PICK k \in 1..n : a[k] = i
      BY <1>3, <2>2
    <2>4. kept[k] = x
      BY <1>7, <2>1, <2>3
    <2> QED BY <1>5, <2>4
  <1>10. ToSet(kept) = ToSet(seq) \ S
    BY <1>8, <1>9
  <1> QED BY <1>10 DEF kept, I

(* SetToSeq(S) lists a finite set.                                         *)
LEMMA SetToSeqLists ==
  ASSUME NEW S, IsFiniteSet(S)
  PROVE  /\ SetToSeq(S) \in Seq(S)
         /\ \A x \in S : \E i \in 1..Len(SetToSeq(S)) : SetToSeq(S)[i] = x
  <1> DEFINE n == Cardinality(S)
             Lists(f) == \A a, b \in DOMAIN f : f[a] = f[b] => a = b
  <1>1. n \in Nat /\ ExistsBijection(1..n, S)
    BY FS_CardinalityType
  <1>2. \E f \in [1..n -> S] : Lists(f)
    BY <1>1 DEF ExistsBijection, Bijection, Injection, IsInjective
  <1>3. SetToSeq(S) \in [1..n -> S] /\ Lists(SetToSeq(S))
    BY <1>2 DEF SetToSeq, IsInjective
  <1>4. SetToSeq(S) \in Injection(1..n, S)
    BY <1>3 DEF Injection, IsInjective
  <1>5. SetToSeq(S) \in Surjection(1..n, S)
    <2>1. Cardinality(1..n) = n
      BY <1>1, FS_Interval
    <2> QED BY <1>4, <2>1, FS_Injection
  <1>6. SetToSeq(S) \in Seq(S) /\ Len(SetToSeq(S)) = n
    BY <1>1, <1>3
  <1> QED BY <1>5, <1>6 DEF Surjection

LEMMA RemainderIs ==
  ASSUME NEW n \in Nat \ {0}, NEW q \in Nat, NEW k \in 0..n-1
  PROVE  (n * q + k) % n = k
  <1> DEFINE x == n * q + k
             r == x % n
             m == x \div n
  <1>1. x \in Nat
    OBVIOUS
  <1>2. r \in 0..n-1 /\ m \in Int /\ x = n * m + r
    BY <1>1
  <1> HIDE DEF r, m
  <1>3. n * q + k = n * m + r
    BY <1>2
  <1>4. ~ (q < m)
    <2> SUFFICES ASSUME q < m PROVE FALSE
      OBVIOUS
    <2>1. PICK d \in Nat \ {0} : m = q + d
      <3>1. m - q \in Nat \ {0} /\ m = q + (m - q)
        BY <1>2
      <3> QED BY <3>1
    <2>2. n * m = n * q + n * d /\ n * d >= n
      BY <2>1
    <2> QED BY <1>2, <1>3, <2>2
  <1>5. ~ (m < q)
    <2> SUFFICES ASSUME m < q PROVE FALSE
      OBVIOUS
    <2>1. PICK d \in Nat \ {0} : q = m + d
      <3>1. q - m \in Nat \ {0} /\ q = m + (q - m)
        BY <1>2
      <3> QED BY <3>1
    <2>2. n * q = n * m + n * d /\ n * d >= n
      BY <1>2, <2>1
    <2> QED BY <1>2, <1>3, <2>2
  <1>6. m = q
    BY <1>2, <1>4, <1>5
  <1> QED BY <1>2, <1>3, <1>6 DEF r

(* Steps round a ring of n places from any start reach every place.        *)
LEMMA RoundTheRing ==
  ASSUME NEW n \in Nat \ {0}, NEW c \in Nat
  PROVE  /\ \A i \in Nat : (c + i) % n \in 0..n-1
         /\ \A k \in 0..n-1 : \E i \in 0..n-1 : (c + i) % n = k
  <1>1. \A i \in Nat : (c + i) % n \in 0..n-1
    OBVIOUS
  <1>2. ASSUME NEW k \in 0..n-1 PROVE \E i \in 0..n-1 : (c + i) % n = k
    <2> DEFINE r == c % n
               q == c \div n
               i == IF k >= r THEN k - r ELSE k - r + n
    <2>1. r \in 0..n-1 /\ q \in Nat /\ c = n * q + r
      OBVIOUS
    <2>2. i \in 0..n-1
      BY <2>1
    <2>3. c + i = n * q + k \/ c + i = n * (q + 1) + k
      BY <2>1
    <2>4. (n * q + k) % n = k /\ (n * (q + 1) + k) % n = k
      <3>1. q \in Nat /\ q + 1 \in Nat
        BY <2>1
      <3> HIDE DEF q
      <3> QED BY <3>1, RemainderIs
    <2>5. (c + i) % n = k
      BY <2>3, <2>4
    <2> QED BY <2>2, <2>5
  <1> QED BY <1>1, <1>2

(* n things are dealt out to the piles P, thing i to pile key[i], on top   *)
(* of what the piles hold: pile p takes more[p] places from base[p] on.    *)
Share(key, n, p) == {i \in 1..n : key[i] = p}
PlacesTaken(P, base, more) == UNION {{p} \X ((base[p] + 1)..(base[p] + more[p])) : p \in P}

(* The places taken are n again.                                           *)
LEMMA DealtOut ==
  ASSUME NEW P, NEW n \in Nat, NEW key \in [1..n -> P], NEW base \in [P -> Nat],
         NEW more \in [P -> Nat],
         \A p \in P : more[p] = Cardinality(Share(key, n, p)),
         NEW places, places = PlacesTaken(P, base, more)
  PROVE  IsFiniteSet(places) /\ Cardinality(places) = n
  <1> DEFINE Lot(p) == Share(key, n, p)
             a(p) == Ascending(Lot(p))
             g == [z \in places |-> a(z[1])[z[2] - base[z[1]]]]
  <1>0. places = UNION {{p} \X ((base[p] + 1)..(base[p] + more[p])) : p \in P}
    BY DEF PlacesTaken
  <1>1. \A p \in P : Lot(p) \subseteq Nat /\ IsFiniteSet(Lot(p))
    <2> SUFFICES ASSUME NEW p \in P PROVE Lot(p) \subseteq Nat /\ IsFiniteSet(Lot(p))
      OBVIOUS
    <2>1. IsFiniteSet(1..n) /\ Lot(p) \in SUBSET (1..n)
      BY FS_Interval DEF Share
    <2>2. IsFiniteSet(Lot(p))
      BY <2>1, FS_Subset
    <2> QED BY <2>2 DEF Share
  <1>2. \A p \in P : /\ a(p) \in Seq(Lot(p)) /\ Len(a(p)) = more[p]
                     /\ Rising(a(p))
                     /\ \A x \in Lot(p) : \E i \in 1..more[p] : a(p)[i] = x
    BY <1>1, AscendingProperties
  <1>3. \A p \in P : \A i : i \in Lot(p) <=> i \in 1..n /\ key[i] = p
    BY DEF Share
  <1> HIDE DEF Lot, a
  <1>4. \A p \in P : /\ \A i \in 1..more[p] : a(p)[i] \in Lot(p)
                     /\ \A i, j \in 1..more[p] : i < j => a(p)[i] < a(p)[j]
    BY <1>2, ElementOfSeq DEF Rising
  <1>5. \A z : z \in places <=>
          \E p \in P : \E k \in 1..more[p] : z = <<p, base[p] + k>>
    <2> SUFFICES ASSUME NEW z
                 PROVE  z \in places <=> \E p \in P : \E k \in 1..more[p] : z = <<p, base[p] + k>>
      OBVIOUS
    <2>1. ASSUME z \in places PROVE \E p \in P : \E k \in 1..more[p] : z = <<p, base[p] + k>>
      <3>1. PICK p \in P : z \in {p} \X ((base[p] + 1)..(base[p] + more[p]))
        BY <1>0, <2>1
      <3>2. PICK m \in (base[p] + 1)..(base[p] + more[p]) : z = <<p, m>>
        BY <3>1
      <3>3. m - base[p] \in 1..more[p] /\ m = base[p] + (m - base[p])
        BY <3>1
      <3> QED BY <3>2, <3>3
    <2>2. ASSUME NEW p \in P, NEW k \in 1..more[p], z = <<p, base[p] + k>> PROVE z \in places
      <3>1. base[p] + k \in (base[p] + 1)..(base[p] + more[p])
        OBVIOUS
      <3>2. z \in {p} \X ((base[p] + 1)..(base[p] + more[p]))
        BY <2>2, <3>1
      <3> QED BY <1>0, <3>2
    <2> QED BY <2>1, <2>2
  <1>6. \A p \in P : \A k \in 1..more[p] :
          <<p, base[p] + k>> \in places /\ g[<<p, base[p] + k>>] = a(p)[k]
    <2> SUFFICES ASSUME NEW p \in P, NEW k \in 1..more[p]
                 PROVE  <<p, base[p] + k>> \in places /\ g[<<p, base[p] + k>>] = a(p)[k]
      OBVIOUS
    <2>1. <<p, base[p] + k>> \in places
      BY <1>5
    <2>2. base[p] + k - base[p] = k
      OBVIOUS
    <2> QED BY <2>1, <2>2
  <1>7. g \in [places -> 1..n]
    <2> SUFFICES ASSUME NEW z \in places PROVE g[z] \in 1..n
      OBVIOUS
    <2>0. PICK p \in P : \E k \in 1..more[p] : z = <<p, base[p] + k>>
      BY <1>5
    <2>1. PICK k \in 1..more[p] : z = <<p, base[p] + k>>
      BY <2>0
    <2>2. g[z] = a(p)[k] /\ a(p)[k] \in Lot(p)
      BY <1>4, <1>6, <2>1
    <2> HIDE DEF g
    <2> QED BY <1>3, <2>2
  <1> HIDE DEF g
  <1>8. \A y, z \in places : g[y] = g[z] => y = z
    <2> SUFFICES ASSUME NEW y \in places, NEW z \in places, g[y] = g[z] PROVE y = z
      OBVIOUS
    <2>7. PICK p \in P : \E j \in 1..more[p] : y = <<p, base[p] + j>>
      BY <1>5
    <2>1. PICK j \in 1..more[p] : y = <<p, base[p] + j>>
      BY <2>7
    <2>8. PICK q \in P : \E k \in 1..more[q] : z = <<q, base[q] + k>>
      BY <1>5
    <2>2. PICK k \in 1..more[q] : z = <<q, base[q] + k>>
      BY <2>8
    <2>3. a(p)[j] = a(q)[k] /\ a(p)[j] \in Lot(p) /\ a(q)[k] \in Lot(q)
      BY <1>4, <1>6, <2>1, <2>2
    <2>4. p = q
      BY <1>3, <2>3
    <2>5. a(p)[j] \in Nat /\ a(p)[k] \in Nat /\ j \in Nat /\ k \in Nat
      BY <1>1, <2>3, <2>4
    <2>6. ~(j < k) /\ ~(k < j)
      BY <1>4, <2>3, <2>4, <2>5
    <2> QED BY <2>1, <2>2, <2>4, <2>5, <2>6
  <1>9. \A i \in 1..n : \E z \in places : g[z] = i
    <2> SUFFICES ASSUME NEW i \in 1..n PROVE \E z \in places : g[z] = i
      OBVIOUS
    <2>1. key[i] \in P /\ i \in Lot(key[i])
      BY <1>3
    <2>2. PICK k \in 1..more[key[i]] : a(key[i])[k] = i
      BY <1>2, <2>1
    <2> QED BY <1>6, <2>1, <2>2
  <1>10. g \in Bijection(places, 1..n)
    BY <1>7, <1>8, <1>9, Fun_IsBij
  <1>11. ExistsBijection(1..n, places)
    <2>1. ExistsBijection(places, 1..n)
      BY <1>10 DEF ExistsBijection
    <2> QED BY <2>1, Fun_ExistsBijSymmetric
  <1>12. IsFiniteSet(1..n) /\ Cardinality(1..n) = n
    BY FS_Interval
  <1> QED BY <1>11, <1>12, FS_Bijection

(* No entry of the queue is stale.                                         *)
Pure(s) == \A i \in 1..Len(s.queue) : s.queue[i].epoch = s.epoch

(* A worker's turn: it has claimed the state object its born names.        *)
Working(state) == state.pc \in {"busy", "release"}
Holds(state, p, s) == Working(state) /\ state.p = p /\ state.born = s.born

(* A state object is younger than the ones deleted before it, and a key    *)
(* that is not in #parts holds no messages.                                *)
Births ==
  \A p \in Partitions :
    /\ part[p].born <= part[p].epoch
    /\ ~Known(p) => part[p].born < part[p].epoch /\ part[p].queue = <<>>

(* A worker's turn is on a partition, and on no state object yet to come;  *)
(* the epoch it goes by is a past one, or that of the object it claimed.   *)
Turns ==
  \A w \in Workers : Working(worker[w]) =>
    /\ worker[w].p \in Partitions
    /\ worker[w].born <= part[worker[w].p].born
    /\ worker[w].epoch <= part[worker[w].p].epoch
    /\ worker[w].epoch = part[worker[w].p].epoch
         => Known(worker[w].p) /\ worker[w].born = part[worker[w].p].born
    /\ worker[w].pc = "busy" => worker[w].entries # <<>>

(* ClaimHeldByOneWorker, without counting.                                 *)
Claims ==
  \A p \in Partitions : Known(p) =>
    /\ \A v, w \in Workers :
         Holds(worker[v], p, part[p]) /\ Holds(worker[w], p, part[p]) => v = w
    /\ part[p].claimed <=> \E w \in Workers : Holds(worker[w], p, part[p])

(* A halt ends the run first, and a run has an epoch of its own.           *)
Halts == (halting # "no" => ~running) /\ (running => runEpoch > 0)

(* A fetch is under way only below the cap, and brings one chunk.          *)
Backpressure ==
  /\ pumpActive => queuedTotal < MaxQueued
  /\ answer # None => Len(answer.batch) <= FetchChunk

Inv ==
  /\ TypeOK
  /\ QueuedTotalExact /\ QueueBounded /\ QueueIsCurrent
  /\ Births /\ Turns /\ Claims
  /\ NoLostWakeup /\ OneFetchAtATime /\ StopMeansStopped
  /\ Halts /\ Backpressure

-----------------------------------------------------------------------------
(* Queues.                                                                 *)

LEMMA PureMeansCurrent ==
  ASSUME NEW s, Pure(s)
  PROVE  Current(s) = 1..Len(s.queue)
  BY DEF Pure, Current

(* #take() of a queue without stale entries: the first k, or all of them.  *)
LEMMA TakenFromPure ==
  ASSUME NEW s \in PartitionState, Pure(s), Current(s) # {}, NEW k \in Nat \ {0}
  PROVE  /\ Cut(s, k) \in 1..Len(s.queue) /\ Cut(s, k) = Smallest(k, Len(s.queue))
         /\ Taken(s, k) \in Seq(Entry) /\ Len(Taken(s, k)) = Cut(s, k)
         /\ Rest(s, k) \in Seq(Entry) /\ Len(Rest(s, k)) = Len(s.queue) - Cut(s, k)
         /\ \A i \in 1..Len(Rest(s, k)) : Rest(s, k)[i] = s.queue[Cut(s, k) + i]
         /\ Taken(s, k) = At(s.queue, 1..Cut(s, k))
  <1> DEFINE n == Len(s.queue)
  <1>1. s.queue \in Seq(Entry) /\ n \in Nat
    BY LenProperties DEF PartitionState
  <1>2. Current(s) = 1..n
    BY PureMeansCurrent
  <1>3. n # 0
    BY <1>1, <1>2
  <1>4. \A c \in 1..n : Current(s) \intersect 1..c = 1..c
    BY <1>1, <1>2
  <1>5. \A c \in Nat : Cardinality(1..c) = c
    BY FS_Interval
  <1>9. \A c \in 1..n : Cardinality(Current(s) \intersect 1..c) = c
    <2> SUFFICES ASSUME NEW c \in 1..n PROVE Cardinality(Current(s) \intersect 1..c) = c
      OBVIOUS
    <2>1. Current(s) \intersect 1..c = 1..c
      BY <1>4
    <2>2. c \in Nat
      BY <1>1
    <2> QED BY <2>1, <2>2, <1>5
  <1>6. Cut(s, k) \in 1..n /\ Cut(s, k) = Smallest(k, n)
    <2>1. Cardinality(Current(s)) = n
      BY <1>1, <1>2, <1>5
    <2>2. CASE n < k
      BY <1>1, <1>3, <2>1, <2>2 DEF Cut, Smallest
    <2>3. CASE ~ (n < k)
      <3>1. Cut(s, k) = CHOOSE c \in 1..n : Cardinality(Current(s) \intersect 1..c) = k
        BY <1>2, <2>1, <2>3 DEF Cut
      <3>2. k \in 1..n /\ Cardinality(Current(s) \intersect 1..k) = k
        BY <1>1, <1>9, <2>3
      <3>3. Cut(s, k) \in 1..n /\ Cardinality(Current(s) \intersect 1..Cut(s, k)) = k
        BY <3>1, <3>2
      <3>4. Cut(s, k) = k
        BY <1>1, <1>9, <3>3
      <3> QED BY <1>1, <2>3, <3>2, <3>4 DEF Smallest
    <2> QED BY <2>2, <2>3
  <1>7. /\ Taken(s, k) \in Seq(Entry) /\ Len(Taken(s, k)) = Cut(s, k)
        /\ Taken(s, k) = At(s.queue, 1..Cut(s, k))
    <2>1. Taken(s, k) = At(s.queue, 1..Cut(s, k))
      BY <1>4, <1>6 DEF Taken
    <2>2. 1..Cut(s, k) \subseteq 1..Len(s.queue) /\ Cut(s, k) \in Nat
      BY <1>1, <1>6
    <2>3. /\ At(s.queue, 1..Cut(s, k)) \in Seq(Entry)
          /\ Len(At(s.queue, 1..Cut(s, k))) = Cardinality(1..Cut(s, k))
      BY <1>1, <2>2, AtSelects
    <2> QED BY <1>5, <2>1, <2>2, <2>3
  <1>8. /\ Rest(s, k) \in Seq(Entry) /\ Len(Rest(s, k)) = n - Cut(s, k)
        /\ \A i \in 1..Len(Rest(s, k)) : Rest(s, k)[i] = s.queue[Cut(s, k) + i]
    <2> DEFINE c == Cut(s, k)
    <2>1. c \in 1..n
      BY <1>6
    <2> HIDE DEF c
    <2>2. c + 1 \in Int /\ n \in Int /\ n - (c + 1) + 1 = n - c
      BY <1>1, <2>1
    <2>3. \A i \in c + 1..n : s.queue[i] \in Entry
      BY <1>1, <2>1, ElementOfSeq
    <2>4. /\ SubSeq(s.queue, c + 1, n) \in Seq(Entry)
          /\ Len(SubSeq(s.queue, c + 1, n)) = IF c + 1 <= n THEN n - (c + 1) + 1 ELSE 0
          /\ \A i \in 1..n - (c + 1) + 1 : SubSeq(s.queue, c + 1, n)[i] = s.queue[c + 1 + i - 1]
      BY <2>2, <2>3, SubSeqProperties
    <2>5. Len(SubSeq(s.queue, c + 1, n)) = n - c
      BY <1>1, <2>1, <2>4
    <2>6. \A i \in 1..n - c : SubSeq(s.queue, c + 1, n)[i] = s.queue[c + i]
      BY <1>1, <2>1, <2>2, <2>4
    <2> QED BY <2>4, <2>5, <2>6 DEF Rest, c
  <1> QED BY <1>6, <1>7, <1>8

-----------------------------------------------------------------------------
(* Counting the entries of all queues.                                     *)

Slots(ps, S) == UNION {{p} \X (1..Len(ps[p].queue)) : p \in S}

LEMMA SlotsOfOne ==
  ASSUME NEW p, NEW n \in Nat
  PROVE  IsFiniteSet({p} \X (1..n)) /\ Cardinality({p} \X (1..n)) = n
  <1>1. IsFiniteSet({p}) /\ Cardinality({p}) = 1
    BY FS_Singleton
  <1>2. IsFiniteSet(1..n) /\ Cardinality(1..n) = n
    BY FS_Interval
  <1>3. /\ IsFiniteSet({p} \X (1..n))
        /\ Cardinality({p} \X (1..n)) = Cardinality({p}) * Cardinality(1..n)
    BY <1>1, <1>2, FS_Product
  <1> QED BY <1>1, <1>2, <1>3

LEMMA SlotsAreFinite ==
  ASSUME NEW ps \in [Partitions -> PartitionState], NEW S, S \subseteq Partitions
  PROVE  IsFiniteSet(Slots(ps, S)) /\ Cardinality(Slots(ps, S)) \in Nat
  <1> DEFINE slots == [p \in S |-> {p} \X (1..Len(ps[p].queue))]
             images == {slots[p] : p \in S}
  <1>1. IsFiniteSet(S)
    <2>1. IsFiniteSet(Partitions) /\ S \in SUBSET Partitions
      BY ConstantsAssumption
    <2> QED BY <2>1, FS_Subset
  <1>2. \A p \in S : IsFiniteSet(slots[p])
    <2> SUFFICES ASSUME NEW p \in S PROVE IsFiniteSet({p} \X (1..Len(ps[p].queue)))
      OBVIOUS
    <2>1. Len(ps[p].queue) \in Nat
      BY LenProperties DEF PartitionState
    <2> QED BY <2>1, SlotsOfOne
  <1>3. IsFiniteSet(images)
    <2>1. slots \in Surjection(S, images)
      BY DEF Surjection
    <2> HIDE DEF slots, images
    <2> QED BY <1>1, <2>1, FS_Surjection
  <1>4. \A T \in images : IsFiniteSet(T)
    BY <1>2
  <1>5. Slots(ps, S) = UNION images
    BY DEF Slots
  <1> HIDE DEF images
  <1>6. IsFiniteSet(UNION images)
    BY <1>3, <1>4, FS_UNION
  <1> QED BY <1>5, <1>6, FS_CardinalityType

(* The slots of p's queue and of the others are together all slots.        *)
LEMMA SlotsSplit ==
  ASSUME NEW ps \in [Partitions -> PartitionState], NEW p \in Partitions
  PROVE  Cardinality(Slots(ps, Partitions))
           = Cardinality(Slots(ps, Partitions \ {p})) + Len(ps[p].queue)
  <1> DEFINE mine == {p} \X (1..Len(ps[p].queue))
             others == Slots(ps, Partitions \ {p})
  <1>1. Len(ps[p].queue) \in Nat
    BY LenProperties DEF PartitionState
  <1>2. IsFiniteSet(mine) /\ Cardinality(mine) = Len(ps[p].queue)
    BY <1>1, SlotsOfOne
  <1>3. IsFiniteSet(others) /\ Cardinality(others) \in Nat
    BY SlotsAreFinite
  <1>4. Slots(ps, Partitions) = others \union mine
    BY DEF Slots
  <1>5. others \intersect mine = {}
    BY DEF Slots
  <1>6. Cardinality(others \union mine)
          = Cardinality(others) + Cardinality(mine) - Cardinality(others \intersect mine)
    BY <1>2, <1>3, FS_Union
  <1> HIDE DEF mine, others
  <1>7. Cardinality(Slots(ps, Partitions))
          = Cardinality(others) + Len(ps[p].queue) - 0
    BY <1>2, <1>4, <1>5, <1>6, FS_EmptySet
  <1> QED BY <1>1, <1>3, <1>7 DEF others

(* One queue changes, and the total by as much.                            *)
LEMMA SlotsChange ==
  ASSUME NEW ps \in [Partitions -> PartitionState], NEW qs \in [Partitions -> PartitionState],
         NEW p \in Partitions,
         \A q \in Partitions \ {p} : Len(qs[q].queue) = Len(ps[q].queue)
  PROVE  /\ Cardinality(Slots(qs, Partitions))
              = Cardinality(Slots(ps, Partitions)) - Len(ps[p].queue) + Len(qs[p].queue)
         /\ Len(ps[p].queue) <= Cardinality(Slots(ps, Partitions))
         /\ Len(ps[p].queue) \in Nat
  <1>1. Slots(ps, Partitions \ {p}) = Slots(qs, Partitions \ {p})
    BY DEF Slots
  <1>2. Cardinality(Slots(ps, Partitions \ {p})) \in Nat
    BY SlotsAreFinite
  <1>3. Len(ps[p].queue) \in Nat /\ Len(qs[p].queue) \in Nat
    BY LenProperties DEF PartitionState
  <1>4. Cardinality(Slots(ps, Partitions))
          = Cardinality(Slots(ps, Partitions \ {p})) + Len(ps[p].queue)
    BY SlotsSplit
  <1>5. Cardinality(Slots(qs, Partitions))
          = Cardinality(Slots(ps, Partitions \ {p})) + Len(qs[p].queue)
    BY <1>1, SlotsSplit
  <1> QED BY <1>2, <1>3, <1>4, <1>5

LEMMA SameSlots ==
  ASSUME NEW ps, NEW qs, \A q \in Partitions : Len(qs[q].queue) = Len(ps[q].queue)
  PROVE  Slots(qs, Partitions) = Slots(ps, Partitions)
  BY DEF Slots

(* The queues of S are dropped, and the total by what they held.           *)
LEMMA SlotsDropped ==
  ASSUME NEW ps \in [Partitions -> PartitionState], NEW qs \in [Partitions -> PartitionState],
         NEW S, S \subseteq Partitions,
         \A p \in S : qs[p].queue = <<>>,
         \A p \in Partitions \ S : Len(qs[p].queue) = Len(ps[p].queue)
  PROVE  /\ Cardinality(Slots(qs, Partitions))
              = Cardinality(Slots(ps, Partitions)) - Cardinality(Slots(ps, S))
         /\ Cardinality(Slots(qs, Partitions)) \in Nat
         /\ Cardinality(Slots(qs, Partitions)) <= Cardinality(Slots(ps, Partitions))
  <1>1. Slots(qs, Partitions) = Slots(ps, Partitions \ S)
    <2>1. \A p \in S : 1..Len(qs[p].queue) = {}
      BY EmptySeq
    <2> QED BY <2>1 DEF Slots
  <1>2. Slots(ps, Partitions) = Slots(ps, Partitions \ S) \union Slots(ps, S)
    BY DEF Slots
  <1>3. Slots(ps, Partitions \ S) \intersect Slots(ps, S) = {}
    BY DEF Slots
  <1>4. /\ IsFiniteSet(Slots(ps, Partitions \ S)) /\ Cardinality(Slots(ps, Partitions \ S)) \in Nat
        /\ IsFiniteSet(Slots(ps, S)) /\ Cardinality(Slots(ps, S)) \in Nat
    BY SlotsAreFinite
  <1> DEFINE others == Slots(ps, Partitions \ S)
             mine == Slots(ps, S)
  <1> HIDE DEF others, mine
  <1>6. Cardinality(others \union mine)
          = Cardinality(others) + Cardinality(mine) - Cardinality(others \intersect mine)
    BY <1>4, FS_Union DEF others, mine
  <1>5. Cardinality(Slots(ps, Partitions))
          = Cardinality(Slots(ps, Partitions \ S)) + Cardinality(Slots(ps, S)) - 0
    BY <1>2, <1>3, <1>6, FS_EmptySet DEF others, mine
  <1> QED BY <1>1, <1>4, <1>5
-----------------------------------------------------------------------------
(* Claiming a partition.                                                   *)

LEMMA TurnSizeType == TurnSize \in Nat \ {0}
  BY ConstantsAssumption DEF TurnSize

LEMMA IdleType ==
  ASSUME NEW pc \in {"off", "ready", "waiting"}
  PROVE  Idle(pc) \in WorkerState /\ Idle(pc).pc = pc /\ ~Working(Idle(pc))
  <1>1. <<>> \in Seq(Offsets)
    BY EmptySeq
  <1> QED BY <1>1 DEF Idle, WorkerState, Working

LEMMA SignalledType ==
  ASSUME NEW ws \in [Workers -> WorkerState]
  PROVE  /\ Signalled(ws) \in [Workers -> WorkerState]
         /\ \A w \in Workers : /\ Signalled(ws)[w].pc # "waiting"
                               /\ Working(Signalled(ws)[w]) <=> Working(ws[w])
                               /\ Working(ws[w]) => Signalled(ws)[w] = ws[w]
                               /\ ws[w].pc = "off" => Signalled(ws)[w] = ws[w]
                               /\ ws[w].pc # "off" => Signalled(ws)[w].pc # "off"
  <1>1. Idle("ready") \in WorkerState /\ Idle("ready").pc = "ready"
    BY IdleType
  <1> QED BY <1>1 DEF Signalled, Working

LEMMA ClaimIndexIs ==
  ASSUME order \in Seq(Partitions), claimCursor \in Nat, NEW ps
  PROVE  /\ ClaimIndex(ps) = 0 => \A p \in Partitions : Known(p) => ~Claimable(ps[p])
         /\ ClaimIndex(ps) # 0 => /\ ClaimIndex(ps) \in 1..Len(order)
                                  /\ Claimable(ps[order[ClaimIndex(ps)]])
         /\ ClaimIndex(ps) \in Nat
  <1> DEFINE n == Len(order)
             Place(i) == ((claimCursor + i) % n) + 1
             Hits == {i \in 0..(n - 1) : Claimable(ps[order[Place(i)]])}
  <1>1. n \in Nat
    BY LenProperties
  <1>2. ClaimIndex(ps) = IF Hits = {} THEN 0
                         ELSE Place(CHOOSE i \in Hits : \A j \in Hits : i <= j)
    BY DEF ClaimIndex
  <1>3. CASE Hits = {}
    <2>1. ASSUME NEW p \in Partitions, Known(p), Claimable(ps[p]) PROVE FALSE
      <3>1. PICK k \in 1..n : order[k] = p
        BY <2>1 DEF Known
      <3>2. n \in Nat \ {0} /\ k - 1 \in 0..n-1
        BY <1>1
      <3>3. PICK i \in 0..n-1 : (claimCursor + i) % n = k - 1
        BY <3>2, RoundTheRing
      <3>4. Place(i) = k
        BY <1>1, <3>3
      <3>5. i \in Hits
        BY <2>1, <3>1, <3>4
      <3> QED BY <1>3, <3>5
    <2> QED BY <1>2, <1>3, <2>1
  <1>4. CASE Hits # {}
    <2>1. Hits \subseteq Nat
      BY <1>1
    <2>2. \E i \in Hits : \A j \in Hits : i <= j
      BY <1>4, <2>1, LeastNumber
    <2> DEFINE i == CHOOSE i \in Hits : \A j \in Hits : i <= j
    <2>3. i \in Hits
      BY <2>2
    <2>4. ClaimIndex(ps) = Place(i)
      BY <1>2, <1>4
    <2> HIDE DEF i
    <2>5. n \in Nat \ {0} /\ i \in Nat
      BY <1>1, <2>3
    <2>6. (claimCursor + i) % n \in 0..n-1
      BY <2>5, RoundTheRing
    <2>7. Place(i) \in 1..n
      BY <2>5, <2>6
    <2>8. Claimable(ps[order[Place(i)]])
      BY <2>3
    <2> HIDE DEF Place
    <2> QED BY <1>1, <2>4, <2>7, <2>8
  <1> QED BY <1>3, <1>4

(* The handler gets the entries #take() returns, at least one.             *)
LEMMA HandlingIs ==
  ASSUME NEW p \in Partitions, NEW s \in PartitionState, Pure(s), Current(s) # {},
         NEW turn \in Nat
  PROVE  /\ Handling(p, s, turn) \in WorkerState
         /\ Handling(p, s, turn).pc = "busy" /\ Handling(p, s, turn).p = p
         /\ Handling(p, s, turn).born = s.born /\ Handling(p, s, turn).epoch = s.epoch
         /\ Handling(p, s, turn).entries # <<>>
  <1> DEFINE h == Handling(p, s, turn)
             taken == Taken(s, TurnSize)
  <1>1. taken \in Seq(Entry) /\ Len(taken) = Cut(s, TurnSize) /\ Cut(s, TurnSize) \in 1..Len(s.queue)
    BY TakenFromPure, TurnSizeType
  <1>2. Len(s.queue) \in Nat
    BY LenProperties DEF PartitionState
  <1>3. h = [pc |-> "busy", p |-> p, born |-> s.born, epoch |-> s.epoch,
             entries |-> [i \in 1..Len(taken) |-> taken[i].off], resolved |-> -1, turn |-> turn]
    BY DEF Handling
  <1>4. \A i \in 1..Len(taken) : taken[i] \in Entry
    BY <1>1, ElementOfSeq
  <1> HIDE DEF taken
  <1>5. [i \in 1..Len(taken) |-> taken[i].off] \in [1..Len(taken) -> Offsets]
    BY <1>4 DEF Entry
  <1>6. Len(taken) \in Nat \ {0}
    BY <1>1, <1>2
  <1>7. [i \in 1..Len(taken) |-> taken[i].off] \in Seq(Offsets)
    BY <1>5, <1>6
  <1>8. Len([i \in 1..Len(taken) |-> taken[i].off]) = Len(taken)
    BY <1>6
  <1>9. [i \in 1..Len(taken) |-> taken[i].off] # <<>>
    BY <1>6, <1>8, EmptySeq
  <1>10. s.born \in Nat /\ s.epoch \in Nat
    BY DEF PartitionState
  <1> QED BY <1>3, <1>7, <1>9, <1>10 DEF WorkerState

(* What the state object of a claimed partition becomes.                   *)
Claims1(s, t, c) ==
  /\ t \in PartitionState /\ Pure(t)
  /\ t.born = s.born /\ t.epoch = s.epoch /\ t.paused = s.paused
  /\ c \in 1..Len(s.queue) /\ Len(t.queue) = Len(s.queue) - c

LEMMA RestIs ==
  ASSUME NEW s \in PartitionState, Pure(s), Current(s) # {}, NEW k \in Nat \ {0}
  PROVE  Claims1(s, [s EXCEPT !.queue = Rest(s, k)], Cut(s, k))
  <1>1. /\ Cut(s, k) \in 1..Len(s.queue)
        /\ Rest(s, k) \in Seq(Entry) /\ Len(Rest(s, k)) = Len(s.queue) - Cut(s, k)
        /\ \A i \in 1..Len(Rest(s, k)) : Rest(s, k)[i] = s.queue[Cut(s, k) + i]
    BY TakenFromPure
  <1>2. Len(s.queue) \in Nat
    BY LenProperties DEF PartitionState
  <1> DEFINE t == [s EXCEPT !.queue = Rest(s, k)]
  <1>3. t \in PartitionState /\ t.queue = Rest(s, k)
    BY <1>1 DEF PartitionState
  <1>4. t.born = s.born /\ t.epoch = s.epoch /\ t.paused = s.paused
    BY DEF PartitionState
  <1>5. Pure(t)
    <2> SUFFICES ASSUME NEW i \in 1..Len(t.queue) PROVE t.queue[i].epoch = t.epoch
      BY DEF Pure
    <2>1. t.queue[i] = s.queue[Cut(s, k) + i] /\ Cut(s, k) + i \in 1..Len(s.queue)
      BY <1>1, <1>2, <1>3
    <2> QED BY <2>1, <1>4 DEF Pure
  <1> HIDE DEF t
  <1> QED BY <1>1, <1>3, <1>4, <1>5 DEF Claims1, t
(* The three ways the top of a worker's loop ends.                         *)
LoopLeaves(w, ps, ws) ==
  /\ ~running
  /\ worker' = [ws EXCEPT ![w] = Idle("off")] /\ part' = ps
  /\ claimCursor' = claimCursor /\ queuedTotal' = queuedTotal
LoopWaits(w, ps, ws) ==
  /\ running
  /\ \A p \in Partitions : Known(p) => ~Claimable(ps[p])
  /\ worker' = [ws EXCEPT ![w] = Idle("waiting")] /\ part' = ps
  /\ claimCursor' = claimCursor /\ queuedTotal' = queuedTotal
LoopClaims(w, ps, ws) ==
  /\ running
  /\ \E p \in Partitions, h \in WorkerState, t \in PartitionState, c \in Nat :
       /\ Known(p) /\ Claimable(ps[p])
       /\ h.pc = "busy" /\ h.p = p /\ h.born = ps[p].born /\ h.epoch = ps[p].epoch
       /\ h.entries # <<>>
       /\ Claims1(ps[p], t, c) /\ t.claimed
       /\ worker' = [ws EXCEPT ![w] = h] /\ part' = [ps EXCEPT ![p] = t]
       /\ claimCursor' \in Nat /\ queuedTotal' = queuedTotal - c

LEMMA LoopTopIs ==
  ASSUME order \in Seq(Partitions), claimCursor \in Nat,
         NEW ps \in [Partitions -> PartitionState], \A p \in Partitions : Pure(ps[p]),
         NEW ws, NEW w, LoopTop(w, ps, ws)
  PROVE  LoopLeaves(w, ps, ws) \/ LoopWaits(w, ps, ws) \/ LoopClaims(w, ps, ws)
  <1> DEFINE c == ClaimIndex(ps)
             p == order[c]
             s == [ps[p] EXCEPT !.claimed = TRUE]
  <1>1. CASE ~running
    BY <1>1 DEF LoopTop, LoopLeaves
  <1>2. CASE running /\ c = 0
    <2>1. \A q \in Partitions : Known(q) => ~Claimable(ps[q])
      BY <1>2, ClaimIndexIs
    <2>2. /\ worker' = [ws EXCEPT ![w] = Idle("waiting")] /\ part' = ps
          /\ UNCHANGED <<claimCursor, queuedTotal>>
      BY <1>2 DEF LoopTop
    <2> QED BY <1>2, <2>1, <2>2 DEF LoopWaits
  <1>3. CASE running /\ c # 0
    <2>1. c \in 1..Len(order) /\ Claimable(ps[p]) /\ c \in Nat
      BY <1>3, ClaimIndexIs
    <2>2. p \in Partitions /\ Known(p)
      BY <2>1, ElementOfSeq DEF Known
    <2>3. /\ worker' = [ws EXCEPT ![w] = Handling(p, s, 1)]
          /\ part' = [ps EXCEPT ![p] = [s EXCEPT !.queue = Rest(s, TurnSize)]]
          /\ claimCursor' = c % Len(order)
          /\ queuedTotal' = queuedTotal - Cut(s, TurnSize)
      BY <1>3 DEF LoopTop
    <2> HIDE DEF c, p
    <2>4. /\ s \in PartitionState /\ s.born = ps[p].born /\ s.epoch = ps[p].epoch
          /\ s.queue = ps[p].queue /\ s.paused = ps[p].paused /\ s.claimed = TRUE
      BY <2>2 DEF PartitionState
    <2>5. Pure(s) /\ Current(s) # {}
      BY <2>1, <2>2, <2>4 DEF Pure, Current, Claimable
    <2> HIDE DEF s
    <2> DEFINE h == Handling(p, s, 1)
               t == [s EXCEPT !.queue = Rest(s, TurnSize)]
               n == Cut(s, TurnSize)
    <2>6. /\ h \in WorkerState /\ h.pc = "busy" /\ h.p = p /\ h.born = s.born
          /\ h.epoch = s.epoch /\ h.entries # <<>>
      BY <2>2, <2>4, <2>5, HandlingIs
    <2>7. Claims1(s, t, n)
      BY <2>4, <2>5, TurnSizeType, RestIs
    <2>8. t.claimed
      BY <2>4 DEF PartitionState
    <2>9. claimCursor' \in Nat
      <3>1. Len(order) \in Nat \ {0}
        BY <2>1, LenProperties
      <3> QED BY <2>1, <2>3, <3>1
    <2> HIDE DEF h, t, n
    <2>10. Claims1(ps[p], t, n)
      BY <2>4, <2>7 DEF Claims1
    <2>11. n \in Nat /\ t \in PartitionState
      <3>1. Len(s.queue) \in Nat
        BY <2>4, LenProperties DEF PartitionState
      <3> QED BY <2>7, <3>1 DEF Claims1
    <2>12. /\ worker' = [ws EXCEPT ![w] = h] /\ part' = [ps EXCEPT ![p] = t]
           /\ queuedTotal' = queuedTotal - n
      BY <2>3 DEF h, t, n
    <2> QED BY <1>3, <2>1, <2>2, <2>4, <2>6, <2>8, <2>9, <2>10, <2>11, <2>12 DEF LoopClaims
  <1> QED BY <1>1, <1>2, <1>3, ClaimIndexIs
-----------------------------------------------------------------------------
(* Steps that leave every state object what it is: no claim is made or     *)
(* given up, and a queue is kept, or dropped with its epoch.               *)

Keeps(s, t) ==
  /\ t \in PartitionState
  /\ t.born = s.born /\ t.claimed = s.claimed
  /\ s.epoch <= t.epoch
  /\ t.queue = <<>> \/ (t.queue = s.queue /\ t.epoch = s.epoch)

PartsKept ==
  /\ order' = order
  /\ part' \in [Partitions -> PartitionState]
  /\ \A p \in Partitions : Keeps(part[p], part'[p])
  /\ queuedTotal' = Cardinality(Slots(part', Partitions))
  /\ queuedTotal' \in Nat /\ queuedTotal' <= queuedTotal

TurnsKept ==
  \A w \in Workers :
    /\ Working(worker'[w]) <=> Working(worker[w])
    /\ Working(worker[w]) => /\ worker'[w].p = worker[w].p /\ worker'[w].born = worker[w].born
                             /\ worker'[w].epoch = worker[w].epoch
    /\ worker'[w].pc = "busy" => worker[w].pc = "busy" /\ worker'[w].entries = worker[w].entries

LEMMA TotalIs == QueuedTotalExact <=> queuedTotal = Cardinality(Slots(part, Partitions))
  BY DEF QueuedTotalExact, Queued, Slots

LEMMA NextTotalIs ==
  QueuedTotalExact' <=> queuedTotal' = Cardinality(Slots(part', Partitions))
  BY DEF QueuedTotalExact, Queued, Slots

LEMMA KeepsItself ==
  ASSUME NEW s \in PartitionState
  PROVE  Keeps(s, s)
  BY DEF Keeps, PartitionState

LEMMA BumpedKeeps ==
  ASSUME NEW s \in PartitionState
  PROVE  /\ Keeps(s, Bumped(s)) /\ Bumped(s).queue = <<>>
         /\ Bumped(s).epoch = s.epoch + 1
         /\ Bumped(s).paused = s.paused /\ Bumped(s).storedNext = s.storedNext
         /\ s.queue = <<>> => BumpedKeepingQueue(s) = Bumped(s)
  <1> DEFINE e == s.epoch + 1
             q == <<>>
  <1>1. q \in Seq(Entry)
    BY EmptySeq
  <1>4. e \in Nat /\ s.epoch \in Nat /\ s.epoch <= e
    BY DEF PartitionState
  <1>5. /\ Bumped(s) = [s EXCEPT !.epoch = e, !.queue = q]
        /\ BumpedKeepingQueue(s) = [s EXCEPT !.epoch = e]
    BY DEF Bumped, BumpedKeepingQueue
  <1>6. e = s.epoch + 1 /\ q = <<>>
    OBVIOUS
  <1> HIDE DEF e, q
  <1>2. /\ Keeps(s, Bumped(s)) /\ Bumped(s).queue = <<>>
        /\ Bumped(s).epoch = s.epoch + 1
        /\ Bumped(s).paused = s.paused /\ Bumped(s).storedNext = s.storedNext
    <2>1. Bumped(s) \in PartitionState
      BY <1>1, <1>4, <1>5 DEF PartitionState
    <2>2. /\ Bumped(s).queue = q /\ Bumped(s).epoch = e /\ Bumped(s).born = s.born
          /\ Bumped(s).claimed = s.claimed /\ Bumped(s).paused = s.paused
          /\ Bumped(s).storedNext = s.storedNext
      BY <1>5 DEF PartitionState
    <2>3. s.epoch <= Bumped(s).epoch /\ Bumped(s).queue = <<>>
      BY <2>2, <1>4, <1>6
    <2>4. Bumped(s).epoch = s.epoch + 1
      BY <2>2, <1>6
    <2>5. Keeps(s, Bumped(s))
      <3>1. Bumped(s).born = s.born /\ s.epoch <= Bumped(s).epoch
        BY <2>2, <2>3
      <3>2. Bumped(s).claimed = s.claimed
        BY <2>2
      <3>3. Bumped(s).queue = <<>>
        BY <2>3
      <3> QED BY <2>1, <3>1, <3>2, <3>3 DEF Keeps
    <2> QED BY <2>2, <2>3, <2>4, <2>5
  <1>3. ASSUME s.queue = <<>> PROVE BumpedKeepingQueue(s) = Bumped(s)
    <2>1. BumpedKeepingQueue(s) \in PartitionState /\ Bumped(s) \in PartitionState
      BY <1>1, <1>4, <1>5 DEF PartitionState
    <2>2. /\ BumpedKeepingQueue(s).epoch = Bumped(s).epoch
          /\ BumpedKeepingQueue(s).born = Bumped(s).born
          /\ BumpedKeepingQueue(s).queue = Bumped(s).queue
          /\ BumpedKeepingQueue(s).claimed = Bumped(s).claimed
          /\ BumpedKeepingQueue(s).paused = Bumped(s).paused
          /\ BumpedKeepingQueue(s).storedNext = Bumped(s).storedNext
      BY <1>3, <1>5, <1>6 DEF PartitionState
    <2> QED BY <2>1, <2>2 DEF PartitionState
  <1> QED BY <1>2, <1>3

LEMMA StoredNextKeeps ==
  ASSUME NEW s \in PartitionState, NEW t, Keeps(s, t), NEW o \in Nat
  PROVE  /\ Keeps(s, [t EXCEPT !.storedNext = o])
         /\ [t EXCEPT !.storedNext = o].queue = t.queue
         /\ [t EXCEPT !.storedNext = o].paused = t.paused
         /\ [t EXCEPT !.storedNext = o].epoch = t.epoch
  BY DEF Keeps, PartitionState

LEMMA PausedKeeps ==
  ASSUME NEW s \in PartitionState, NEW t, Keeps(s, t), NEW b \in BOOLEAN
  PROVE  /\ Keeps(s, [t EXCEPT !.paused = b]) /\ [t EXCEPT !.paused = b].queue = t.queue
         /\ [t EXCEPT !.paused = b].paused = b
  BY DEF Keeps, PartitionState

LEMMA NothingKept ==
  ASSUME TypeOK, QueuedTotalExact, UNCHANGED <<part, order, queuedTotal>>
  PROVE  PartsKept
  BY TotalIs, KeepsItself DEF PartsKept, TypeOK

(* One state object changes; its queue is kept, or dropped and counted.    *)
LEMMA OneKept ==
  ASSUME TypeOK, QueuedTotalExact, UNCHANGED order, NEW p \in Partitions, NEW t,
         Keeps(part[p], t), part' = [part EXCEPT ![p] = t],
         \/ t.queue = <<>> /\ queuedTotal' = TotalWithout(p)
         \/ t.queue = part[p].queue /\ queuedTotal' = queuedTotal
  PROVE  PartsKept
  <1>1. /\ part \in [Partitions -> PartitionState] /\ part' \in [Partitions -> PartitionState]
        /\ part'[p] = t
    BY DEF TypeOK, Keeps
  <1>2. \A q \in Partitions : Keeps(part[q], part'[q])
    BY <1>1, KeepsItself
  <1>3. /\ Cardinality(Slots(part', Partitions))
             = queuedTotal - Len(part[p].queue) + Len(part'[p].queue)
        /\ Len(part[p].queue) <= queuedTotal /\ Len(part[p].queue) \in Nat
    <2>1. \A q \in Partitions \ {p} : Len(part'[q].queue) = Len(part[q].queue)
      OBVIOUS
    <2>2. queuedTotal = Cardinality(Slots(part, Partitions))
      BY TotalIs
    <2> HIDE DEF TypeOK
    <2>3. /\ Cardinality(Slots(part', Partitions))
               = Cardinality(Slots(part, Partitions)) - Len(part[p].queue) + Len(part'[p].queue)
          /\ Len(part[p].queue) <= Cardinality(Slots(part, Partitions))
          /\ Len(part[p].queue) \in Nat
      BY <1>1, <2>1, SlotsChange
    <2> QED BY <2>2, <2>3
  <1>4. queuedTotal \in Nat
    BY DEF TypeOK
  <1>5. CASE t.queue = <<>> /\ queuedTotal' = TotalWithout(p)
    <2>1. Len(part'[p].queue) = 0
      BY <1>1, <1>5, EmptySeq
    <2>2. queuedTotal' = queuedTotal - Len(part[p].queue)
      BY <1>5 DEF TotalWithout
    <2> QED BY <1>1, <1>2, <1>3, <1>4, <2>1, <2>2 DEF PartsKept
  <1>6. CASE t.queue = part[p].queue /\ queuedTotal' = queuedTotal
    BY <1>1, <1>2, <1>3, <1>4, <1>6 DEF PartsKept
  <1> QED BY <1>5, <1>6

LEMMA RewindKeeps ==
  ASSUME TypeOK, QueuedTotalExact, UNCHANGED order, NEW p \in Partitions, NEW o \in Nat,
         RewindTo(p, o)
  PROVE  /\ PartsKept
         /\ seeks' \in [Partitions -> SUBSET [off : Nat, epoch : Nat, attempt : Nat]]
         /\ part' = [part EXCEPT ![p] = Bumped(part[p])]
  <1>1. part[p] \in PartitionState /\ part[p].epoch \in Nat
    BY DEF TypeOK, PartitionState
  <1>2. part' = [part EXCEPT ![p] = Bumped(part[p])]
    BY DEF RewindTo
  <1>3. PartsKept
    <2>1. queuedTotal' = TotalWithout(p)
      BY DEF RewindTo
    <2> QED BY <1>1, <1>2, <2>1, BumpedKeeps, OneKept
  <1>4. SeekJob(o, part[p].epoch + 1, 0) \in [off : Nat, epoch : Nat, attempt : Nat]
    BY <1>1 DEF SeekJob
  <1> QED BY <1>2, <1>3, <1>4 DEF RewindTo, SeekQueued, TypeOK

LEMMA StoreKeeps ==
  ASSUME TypeOK, QueuedTotalExact, UNCHANGED <<order, queuedTotal>>, NEW p \in Partitions,
         NEW o \in Nat, Store(p, o, part[p])
  PROVE  /\ PartsKept
         /\ stored' \in [Partitions -> Nat \union {-1}]
         /\ \E t : /\ part' = [part EXCEPT ![p] = t] /\ Keeps(part[p], t)
                   /\ t.queue = part[p].queue /\ t.paused = part[p].paused /\ t.epoch = part[p].epoch
  <1>1. part[p] \in PartitionState /\ Keeps(part[p], part[p])
    BY KeepsItself DEF TypeOK
  <1>2. stored' \in [Partitions -> Nat \union {-1}]
    BY DEF Store, TypeOK
  <1>3. PICK t : /\ part' = [part EXCEPT ![p] = t] /\ Keeps(part[p], t)
                 /\ t.queue = part[p].queue /\ t.paused = part[p].paused /\ t.epoch = part[p].epoch
    <2>1. CASE p \in assigned
      <3>1. part' = [part EXCEPT ![p] = [part[p] EXCEPT !.storedNext = o]]
        BY <2>1 DEF Store
      <3> DEFINE t == [part[p] EXCEPT !.storedNext = o]
      <3>2. /\ Keeps(part[p], t) /\ t.queue = part[p].queue /\ t.paused = part[p].paused
            /\ t.epoch = part[p].epoch
        BY <1>1, StoredNextKeeps
      <3>3. part' = [part EXCEPT ![p] = t]
        BY <3>1
      <3> HIDE DEF t
      <3> QED BY <3>2, <3>3
    <2>2. CASE p \notin assigned
      BY <1>1, <2>2 DEF Store
    <2> QED BY <2>1, <2>2
  <1> QED BY <1>2, <1>3, OneKept
-----------------------------------------------------------------------------
(* The steps that are such, one by one: their types and what they keep.    *)

NobodyOversleeps ==
  \/ \A w \in Workers : worker'[w].pc # "waiting"
  \/ /\ \A w \in Workers : worker'[w].pc = "waiting" => worker[w].pc = "waiting"
     /\ \A p \in Partitions : Claimable(part'[p]) => Claimable(part[p])

RunKept ==
  /\ UNCHANGED <<running, halting, runEpoch>>
  /\ \A w \in Workers : worker[w].pc = "off" => worker'[w].pc = "off"

KeptStep == PartsKept /\ TurnsKept /\ NobodyOversleeps

LEMMA SameWorkers ==
  ASSUME worker' = worker
  PROVE  /\ TurnsKept
         /\ \A w \in Workers : worker'[w].pc = "waiting" => worker[w].pc = "waiting"
         /\ \A w \in Workers : worker[w].pc = "off" => worker'[w].pc = "off"
  BY DEF TurnsKept, Working

LEMMA WokenWorkers ==
  ASSUME TypeOK, worker' = Signalled(worker)
  PROVE  /\ TurnsKept /\ NobodyOversleeps /\ worker' \in [Workers -> WorkerState]
         /\ \A w \in Workers : worker[w].pc = "off" => worker'[w].pc = "off"
  <1>1. worker \in [Workers -> WorkerState]
    BY DEF TypeOK
  <1>2. \A w \in Workers : worker'[w].pc = "busy" => Working(worker'[w])
    BY DEF Working
  <1> QED BY <1>1, <1>2, SignalledType DEF TurnsKept, NobodyOversleeps

LEMMA ReleasingIs ==
  ASSUME TypeOK, NEW w \in Workers, worker[w].pc = "busy", worker' = Releasing(w)
  PROVE  /\ TurnsKept /\ worker' \in [Workers -> WorkerState]
         /\ \A v \in Workers : worker'[v].pc = "waiting" => worker[v].pc = "waiting"
         /\ \A v \in Workers : worker[v].pc = "off" => worker'[v].pc = "off"
  <1>1. worker \in [Workers -> WorkerState] /\ <<>> \in Seq(Offsets)
    BY EmptySeq DEF TypeOK
  <1>2. /\ worker' \in [Workers -> WorkerState]
        /\ \A v \in Workers \ {w} : worker'[v] = worker[v]
        /\ worker'[w].pc = "release" /\ worker'[w].p = worker[w].p
        /\ worker'[w].born = worker[w].born /\ worker'[w].epoch = worker[w].epoch
    BY <1>1, ZenonT(60) DEF Releasing, WorkerState
  <1>3. TurnsKept
    <2> SUFFICES ASSUME NEW v \in Workers
                 PROVE  /\ Working(worker'[v]) <=> Working(worker[v])
                        /\ Working(worker[v]) => /\ worker'[v].p = worker[v].p
                                                 /\ worker'[v].born = worker[v].born
                                                 /\ worker'[v].epoch = worker[v].epoch
                        /\ worker'[v].pc = "busy" => worker[v].pc = "busy" /\ worker'[v].entries = worker[v].entries
      BY DEF TurnsKept
    <2>1. CASE v = w
      BY <1>2, <2>1 DEF Working
    <2>2. CASE v # w
      BY <1>2, <2>2 DEF Working
    <2> QED BY <2>1, <2>2
  <1> QED BY <1>2, <1>3

LEMMA EntriesAre ==
  ASSUME TypeOK, Turns, NEW w \in Workers, worker[w].pc = "busy"
  PROVE  /\ worker[w].p \in Partitions
         /\ FirstEntry(w) \in Offsets /\ LastEntry(w) \in Offsets
         /\ ToSet(worker[w].entries) \subseteq Offsets
         /\ BatchRest(w) \in Nat
         /\ \A o \in Offsets : o \in Nat /\ StoredOffset(o) \in Nat
  <1>1. worker[w].entries \in Seq(Offsets) /\ worker[w].resolved \in Nat \union {-1}
    BY DEF TypeOK, WorkerState
  <1>2. worker[w].p \in Partitions /\ worker[w].entries # <<>>
    BY DEF Turns, Working
  <1>3. Len(worker[w].entries) \in Nat \ {0}
    BY <1>1, <1>2, EmptySeq
  <1>4. FirstEntry(w) \in Offsets /\ LastEntry(w) \in Offsets
    BY <1>1, <1>3, ElementOfSeq DEF FirstEntry, LastEntry
  <1>5. ToSet(worker[w].entries) \subseteq Offsets
    <2>1. DOMAIN worker[w].entries = 1..Len(worker[w].entries)
      BY <1>1, LenProperties
    <2> QED BY <1>1, <2>1, ElementOfSeq DEF ToSet
  <1>6. \A o \in Offsets : o \in Nat /\ StoredOffset(o) \in Nat
    BY ConstantsAssumption DEF Offsets, StoredOffset
  <1> QED BY <1>1, <1>2, <1>4, <1>5, <1>6 DEF BatchRest

LEMMA NotClaimable ==
  ASSUME NEW s, s.queue = <<>>
  PROVE  ~Claimable(s) /\ Current(s) = {}
  BY EmptySeq DEF Claimable, Current

LEMMA NoMoreClaimable ==
  ASSUME NEW s \in PartitionState, NEW t, Keeps(s, t),
         t.queue = <<>> \/ t.paused = s.paused \/ t.paused = TRUE
  PROVE  Claimable(t) => Claimable(s)
  <1>1. CASE t.queue = <<>>
    BY <1>1, NotClaimable
  <1>2. CASE t.queue # <<>>
    BY <1>2 DEF Keeps, Claimable, Current, PartitionState
  <1> QED BY <1>1, <1>2

LEMMA SpentType ==
  ASSUME TypeOK, NEW event \in Events, Spend(event)
  PROVE  left' \in [Events -> Nat]
  BY DEF TypeOK, Spend

LEMMA OneCalmer ==
  ASSUME TypeOK, NEW p \in Partitions, NEW t, Keeps(part[p], t), part' = [part EXCEPT ![p] = t],
         t.queue = <<>> \/ t.paused = part[p].paused \/ t.paused = TRUE,
         \A w \in Workers : worker'[w].pc = "waiting" => worker[w].pc = "waiting"
  PROVE  NobodyOversleeps
  <1>1. part \in [Partitions -> PartitionState]
    BY DEF TypeOK
  <1>2. Claimable(t) => Claimable(part[p])
    BY <1>1, NoMoreClaimable
  <1>3. \A q \in Partitions : Claimable(part'[q]) => Claimable(part[q])
    BY <1>1, <1>2
  <1> QED BY <1>3 DEF NobodyOversleeps

LEMMA RewindCalms ==
  ASSUME TypeOK, NEW p \in Partitions, part' = [part EXCEPT ![p] = Bumped(part[p])],
         \A w \in Workers : worker'[w].pc = "waiting" => worker[w].pc = "waiting"
  PROVE  NobodyOversleeps
  <1>1. part[p] \in PartitionState
    BY DEF TypeOK
  <1> QED BY <1>1, BumpedKeeps, OneCalmer

LEMMA MessageThrowStep ==
  ASSUME Inv, NEW w \in Workers, MessageThrow(w)
  PROVE  TypeOK' /\ KeptStep /\ RunKept /\ UNCHANGED fetchVars
  <1>0. TypeOK /\ QueuedTotalExact /\ Turns
    BY DEF Inv
  <1>1. /\ worker[w].pc = "busy" /\ Spend("fail") /\ worker' = Releasing(w)
        /\ UNCHANGED <<runVars, order, claimCursor, pendingSeeks, fetchVars, rebalance,
                       rdVars, done, excused>>
    BY DEF MessageThrow
  <1>2. worker[w].p \in Partitions /\ FirstEntry(w) \in Nat
    BY <1>0, <1>1, EntriesAre
  <1>3. /\ TurnsKept /\ worker' \in [Workers -> WorkerState]
        /\ \A v \in Workers : worker'[v].pc = "waiting" => worker[v].pc = "waiting"
        /\ \A v \in Workers : worker[v].pc = "off" => worker'[v].pc = "off"
    BY <1>0, <1>1, ReleasingIs
  <1>4. /\ PartsKept /\ NobodyOversleeps
        /\ seeks' \in [Partitions -> SUBSET [off : Nat, epoch : Nat, attempt : Nat]]
    <2>1. CASE Live(w)
      <3>1. RewindTo(worker[w].p, FirstEntry(w)) /\ UNCHANGED order
        BY <1>1, <2>1 DEF MessageThrow
      <3> QED BY <1>0, <1>2, <1>3, <3>1, RewindKeeps, RewindCalms
    <2>2. CASE ~Live(w)
      <3>1. UNCHANGED <<part, order, queuedTotal, seeks>>
        BY <1>1, <2>2 DEF MessageThrow
      <3> QED BY <1>0, <1>3, <3>1, NothingKept DEF NobodyOversleeps, TypeOK
    <2> QED BY <2>1, <2>2
  <1>5. left' \in [Events -> Nat]
    BY <1>0, <1>1, SpentType DEF Events
  <1>6. TypeOK'
    BY <1>0, <1>1, <1>3, <1>4, <1>5 DEF TypeOK, PartsKept, runVars, fetchVars, rdVars
  <1> QED BY <1>1, <1>3, <1>4, <1>6 DEF KeptStep, RunKept, runVars
LEMMA BatchThrowStep ==
  ASSUME Inv, NEW w \in Workers, BatchThrow(w)
  PROVE  TypeOK' /\ KeptStep /\ RunKept /\ UNCHANGED fetchVars
  <1>0. TypeOK /\ QueuedTotalExact /\ Turns
    BY DEF Inv
  <1>1. /\ worker[w].pc = "busy" /\ Spend("fail") /\ worker' = Releasing(w)
        /\ UNCHANGED <<runVars, order, claimCursor, pendingSeeks, fetchVars, rebalance,
                       rdVars, done, excused>>
    BY DEF BatchThrow
  <1>2. worker[w].p \in Partitions /\ BatchRest(w) \in Nat
    BY <1>0, <1>1, EntriesAre
  <1>3. /\ TurnsKept /\ worker' \in [Workers -> WorkerState]
        /\ \A v \in Workers : worker'[v].pc = "waiting" => worker[v].pc = "waiting"
        /\ \A v \in Workers : worker[v].pc = "off" => worker'[v].pc = "off"
    BY <1>0, <1>1, ReleasingIs
  <1>4. /\ PartsKept /\ NobodyOversleeps
        /\ seeks' \in [Partitions -> SUBSET [off : Nat, epoch : Nat, attempt : Nat]]
    <2>1. CASE Live(w) /\ worker[w].resolved <= LastEntry(w)
      <3>1. RewindTo(worker[w].p, BatchRest(w)) /\ UNCHANGED order
        BY <1>1, <2>1 DEF BatchThrow
      <3> QED BY <1>0, <1>2, <1>3, <3>1, RewindKeeps, RewindCalms
    <2>2. CASE ~ (Live(w) /\ worker[w].resolved <= LastEntry(w))
      <3>1. UNCHANGED <<part, order, queuedTotal, seeks>>
        BY <1>1, <2>2 DEF BatchThrow
      <3> QED BY <1>0, <1>3, <3>1, NothingKept DEF NobodyOversleeps, TypeOK
    <2> QED BY <2>1, <2>2
  <1>5. left' \in [Events -> Nat]
    BY <1>0, <1>1, SpentType DEF Events
  <1>6. TypeOK'
    BY <1>0, <1>1, <1>3, <1>4, <1>5 DEF TypeOK, PartsKept, runVars, fetchVars, rdVars
  <1> QED BY <1>1, <1>3, <1>4, <1>6 DEF KeptStep, RunKept, runVars

LEMMA BatchOkStep ==
  ASSUME Inv, NEW w \in Workers, BatchOk(w)
  PROVE  TypeOK' /\ KeptStep /\ RunKept /\ UNCHANGED fetchVars
  <1> DEFINE p == worker[w].p
             unresolved == worker[w].resolved <= LastEntry(w)
  <1>0. TypeOK /\ QueuedTotalExact /\ Turns
    BY DEF Inv
  <1>1. /\ worker[w].pc = "busy" /\ worker' = Releasing(w)
        /\ UNCHANGED <<runVars, order, claimCursor, pendingSeeks, fetchVars, rebalance,
                       assigned, rdPaused, pos, seeking, committed, excused>>
    BY DEF BatchOk
  <1>2. /\ p \in Partitions /\ BatchRest(w) \in Nat /\ LastEntry(w) \in Offsets
        /\ StoredOffset(LastEntry(w)) \in Nat
        /\ ToSet(worker[w].entries) \subseteq Offsets
    BY <1>0, <1>1, EntriesAre
  <1>3. /\ TurnsKept /\ worker' \in [Workers -> WorkerState]
        /\ \A v \in Workers : worker'[v].pc = "waiting" => worker[v].pc = "waiting"
        /\ \A v \in Workers : worker[v].pc = "off" => worker'[v].pc = "off"
    BY <1>0, <1>1, ReleasingIs
  <1>4. /\ PartsKept /\ NobodyOversleeps
        /\ seeks' \in [Partitions -> SUBSET [off : Nat, epoch : Nat, attempt : Nat]]
        /\ stored' \in [Partitions -> Nat \union {-1}]
    <2>1. CASE Live(w) /\ unresolved /\ AutoResolve
      <3>1. /\ Store(p, StoredOffset(LastEntry(w)), part[p])
            /\ UNCHANGED <<order, queuedTotal, seeks>>
        BY <1>1, <2>1 DEF BatchOk
      <3>2. /\ PartsKept /\ stored' \in [Partitions -> Nat \union {-1}]
            /\ \E t : /\ part' = [part EXCEPT ![p] = t] /\ Keeps(part[p], t)
                      /\ t.queue = part[p].queue /\ t.paused = part[p].paused
        BY <1>0, <1>2, <3>1, StoreKeeps
      <3>3. NobodyOversleeps
        BY <1>0, <1>2, <1>3, <3>2, OneCalmer
      <3> QED BY <1>0, <3>1, <3>2, <3>3 DEF TypeOK
    <2>2. CASE Live(w) /\ unresolved /\ ~AutoResolve
      <3>1. RewindTo(p, BatchRest(w)) /\ UNCHANGED <<order, stored>>
        BY <1>1, <2>2 DEF BatchOk
      <3> QED BY <1>0, <1>2, <1>3, <3>1, RewindKeeps, RewindCalms DEF TypeOK
    <2>3. CASE ~ (Live(w) /\ unresolved)
      <3>1. UNCHANGED <<part, order, queuedTotal, seeks, stored>>
        BY <1>1, <2>3 DEF BatchOk
      <3> QED BY <1>0, <1>3, <3>1, NothingKept DEF NobodyOversleeps, TypeOK
    <2> QED BY <2>1, <2>2, <2>3
  <1>5. left' \in [Events -> Nat]
    <2>1. Spend("fail") \/ UNCHANGED left
      BY DEF BatchOk
    <2> QED BY <1>0, <2>1, SpentType DEF Events, TypeOK
  <1>6. done' \in [Partitions -> SUBSET Offsets]
    <2>1. done' = [done EXCEPT ![p] = @ \union ToSet(worker[w].entries)] \/ done' = done
      BY DEF BatchOk
    <2>2. done \in [Partitions -> SUBSET Offsets]
      BY <1>0 DEF TypeOK
    <2>3. CASE done' = [done EXCEPT ![p] = @ \union ToSet(worker[w].entries)]
      BY <1>2, <2>2, <2>3
    <2> QED BY <2>1, <2>2, <2>3
  <1> HIDE DEF p, unresolved
  <1>7. TypeOK'
    BY <1>0, <1>1, <1>3, <1>4, <1>5, <1>6 DEF TypeOK, PartsKept, runVars, fetchVars
  <1> QED BY <1>1, <1>3, <1>4, <1>7 DEF KeptStep, RunKept, runVars

LEMMA ResolveOffsetStep ==
  ASSUME Inv, NEW w \in Workers, ResolveOffset(w)
  PROVE  TypeOK' /\ KeptStep /\ RunKept /\ UNCHANGED fetchVars
  <1> DEFINE p == worker[w].p
  <1>0. TypeOK /\ QueuedTotalExact /\ Turns /\ worker \in [Workers -> WorkerState]
    BY DEF Inv, TypeOK
  <1>1. /\ worker[w].pc = "busy"
        /\ UNCHANGED <<runVars, order, claimCursor, queuedTotal, pendingSeeks, fetchVars,
              seeks, rebalance, assigned, rdPaused, pos, seeking, committed, left, excused>>
    BY DEF ResolveOffset
  <1>2. PICK o \in ToSet(worker[w].entries) :
          /\ worker' = [worker EXCEPT ![w].resolved = StoredOffset(o)]
          /\ done' = [done EXCEPT ![p] = @ \union {x \in ToSet(worker[w].entries) : x <= o}]
          /\ IF Live(w) THEN Store(p, StoredOffset(o), part[p]) ELSE UNCHANGED <<part, stored>>
    BY DEF ResolveOffset
  <1>3. /\ p \in Partitions /\ ToSet(worker[w].entries) \subseteq Offsets
        /\ StoredOffset(o) \in Nat
    BY <1>0, <1>1, <1>2, EntriesAre
  <1>4. /\ worker' \in [Workers -> WorkerState]
        /\ \A v \in Workers : /\ worker'[v].pc = worker[v].pc /\ worker'[v].p = worker[v].p
                              /\ worker'[v].born = worker[v].born
                              /\ worker'[v].epoch = worker[v].epoch
                              /\ worker'[v].entries = worker[v].entries
    <2>1. [worker[w] EXCEPT !.resolved = StoredOffset(o)] \in WorkerState
      BY <1>0, <1>3 DEF WorkerState
    <2>2. worker' = [worker EXCEPT ![w] = [worker[w] EXCEPT !.resolved = StoredOffset(o)]]
      BY <1>2
    <2>3. worker' \in [Workers -> WorkerState]
      BY <1>0, <2>1, <2>2
    <2>4. /\ worker'[w].pc = worker[w].pc /\ worker'[w].p = worker[w].p
          /\ worker'[w].born = worker[w].born /\ worker'[w].epoch = worker[w].epoch
          /\ worker'[w].entries = worker[w].entries
      BY <1>0, <2>2 DEF WorkerState
    <2>5. \A v \in Workers \ {w} : worker'[v] = worker[v]
      BY <1>0, <2>2
    <2> QED BY <2>3, <2>4, <2>5
  <1>5. TurnsKept /\ (\A v \in Workers : worker'[v].pc = "waiting" => worker[v].pc = "waiting")
    BY <1>4 DEF TurnsKept, Working
  <1>6. PartsKept /\ NobodyOversleeps /\ stored' \in [Partitions -> Nat \union {-1}]
    <2>1. CASE Live(w)
      <3>1. Store(p, StoredOffset(o), part[p]) /\ UNCHANGED <<order, queuedTotal>>
        BY <1>1, <1>2, <2>1
      <3>2. /\ PartsKept /\ stored' \in [Partitions -> Nat \union {-1}]
            /\ \E t : /\ part' = [part EXCEPT ![p] = t] /\ Keeps(part[p], t)
                      /\ t.queue = part[p].queue /\ t.paused = part[p].paused
        BY <1>0, <1>3, <3>1, StoreKeeps
      <3>3. NobodyOversleeps
        BY <1>0, <1>3, <1>5, <3>2, OneCalmer
      <3> QED BY <3>2, <3>3
    <2>2. CASE ~Live(w)
      <3>1. UNCHANGED <<part, order, queuedTotal, stored>>
        BY <1>1, <1>2, <2>2
      <3> QED BY <1>0, <1>5, <3>1, NothingKept DEF NobodyOversleeps, TypeOK
    <2> QED BY <2>1, <2>2
  <1>7. done' \in [Partitions -> SUBSET Offsets]
    <2> DEFINE resolved == {x \in ToSet(worker[w].entries) : x <= o}
    <2>1. resolved \subseteq Offsets /\ done \in [Partitions -> SUBSET Offsets]
      BY <1>0, <1>3 DEF TypeOK
    <2>2. done' = [done EXCEPT ![p] = @ \union resolved]
      BY <1>2
    <2> HIDE DEF resolved
    <2> QED BY <2>1, <2>2
  <1> HIDE DEF p
  <1>8. TypeOK'
    BY <1>0, <1>1, <1>4, <1>6, <1>7 DEF TypeOK, PartsKept, runVars, fetchVars
  <1> QED BY <1>1, <1>4, <1>5, <1>6, <1>8 DEF KeptStep, RunKept, runVars

LEMMA SeekStep ==
  ASSUME Inv, NEW p \in Partitions, Seek(p)
  PROVE  TypeOK' /\ KeptStep /\ RunKept /\ UNCHANGED fetchVars
  <1>0. TypeOK /\ QueuedTotalExact
    BY DEF Inv
  <1>1. PICK o \in 0..LogEnd :
          /\ Spend("seek")
          /\ excused' = [excused EXCEPT ![p] = @ \union Upto(o)]
          /\ \/ /\ part' = [part EXCEPT ![p] = [Bumped(part[p]) EXCEPT !.storedNext = o]]
                /\ queuedTotal' = TotalWithout(p)
                /\ SeekQueued(p, o)
                /\ committed' = (IF AutoCommit THEN [committed EXCEPT ![p] = o] ELSE committed)
                /\ UNCHANGED pendingSeeks
             \/ /\ pendingSeeks' = [pendingSeeks EXCEPT ![p] = o]
                /\ UNCHANGED <<part, queuedTotal, seeks, committed>>
          /\ UNCHANGED <<runVars, order, claimCursor, fetchVars, worker, rebalance,
                         assigned, rdPaused, pos, seeking, stored, done>>
    BY DEF Seek
  <1>2. o \in Nat /\ Upto(o) \subseteq Offsets
    BY ConstantsAssumption DEF Upto, Offsets
  <1>3. part[p] \in PartitionState /\ part[p].epoch \in Nat
    BY <1>0 DEF TypeOK, PartitionState
  <1>4. /\ TurnsKept
        /\ \A w \in Workers : worker'[w].pc = "waiting" => worker[w].pc = "waiting"
        /\ \A w \in Workers : worker[w].pc = "off" => worker'[w].pc = "off"
    BY <1>1, SameWorkers
  <1>5. /\ PartsKept /\ NobodyOversleeps
        /\ seeks' \in [Partitions -> SUBSET [off : Nat, epoch : Nat, attempt : Nat]]
        /\ committed' \in [Partitions -> Nat \union {-1}]
        /\ pendingSeeks' \in [Partitions -> Nat \union {-1}]
    <2>1. CASE /\ part' = [part EXCEPT ![p] = [Bumped(part[p]) EXCEPT !.storedNext = o]]
               /\ queuedTotal' = TotalWithout(p)
               /\ SeekQueued(p, o)
               /\ committed' = (IF AutoCommit THEN [committed EXCEPT ![p] = o] ELSE committed)
               /\ UNCHANGED pendingSeeks
      <3> DEFINE t == [Bumped(part[p]) EXCEPT !.storedNext = o]
      <3>1. Keeps(part[p], t) /\ t.queue = <<>>
        BY <1>2, <1>3, BumpedKeeps, StoredNextKeeps
      <3> HIDE DEF t
      <3>2. part' = [part EXCEPT ![p] = t]
        BY <2>1 DEF t
      <3>3. PartsKept
        BY <1>0, <1>1, <2>1, <3>1, <3>2, OneKept
      <3>4. NobodyOversleeps
        BY <1>0, <1>4, <3>1, <3>2, OneCalmer
      <3>5. SeekJob(o, part[p].epoch + 1, 0) \in [off : Nat, epoch : Nat, attempt : Nat]
        BY <1>2, <1>3 DEF SeekJob
      <3>6. seeks' \in [Partitions -> SUBSET [off : Nat, epoch : Nat, attempt : Nat]]
        BY <1>0, <2>1, <3>5 DEF SeekQueued, TypeOK
      <3>7. /\ committed' \in [Partitions -> Nat \union {-1}]
            /\ pendingSeeks' \in [Partitions -> Nat \union {-1}]
        BY <1>0, <1>2, <2>1 DEF TypeOK
      <3> QED BY <3>3, <3>4, <3>6, <3>7
    <2>2. CASE /\ pendingSeeks' = [pendingSeeks EXCEPT ![p] = o]
               /\ UNCHANGED <<part, queuedTotal, seeks, committed>>
      <3>1. PartsKept
        BY <1>0, <1>1, <2>2, NothingKept
      <3>2. NobodyOversleeps
        BY <1>4, <2>2 DEF NobodyOversleeps
      <3>3. pendingSeeks' \in [Partitions -> Nat \union {-1}]
        BY <1>0, <1>2, <2>2 DEF TypeOK
      <3> QED BY <1>0, <2>2, <3>1, <3>2, <3>3 DEF TypeOK
    <2> QED BY <1>1, <2>1, <2>2
  <1>6. left' \in [Events -> Nat]
    BY <1>0, <1>1, SpentType DEF Events
  <1>7. excused' \in [Partitions -> SUBSET Offsets]
    BY <1>0, <1>1, <1>2 DEF TypeOK
  <1>8. TypeOK'
    BY <1>0, <1>1, <1>5, <1>6, <1>7 DEF TypeOK, PartsKept, runVars, fetchVars
  <1> QED BY <1>1, <1>4, <1>5, <1>8 DEF KeptStep, RunKept, runVars
LEMMA QueuedOffset ==
  ASSUME NEW s \in PartitionState, Current(s) # {}
  PROVE  s.queue[Min(Current(s))].off \in Nat
  <1>0. s.queue \in Seq(Entry)
    BY DEF PartitionState
  <1>1. Len(s.queue) \in Nat
    BY <1>0, LenProperties
  <1>2. Current(s) \subseteq Nat
    BY <1>1 DEF Current
  <1>3. \E m \in Current(s) : \A n \in Current(s) : m <= n
    BY <1>2, LeastNumber
  <1>4. Min(Current(s)) \in Current(s)
    BY <1>3 DEF Min
  <1>5. s.queue[Min(Current(s))] \in Entry
    BY <1>0, <1>4, ElementOfSeq DEF Current
  <1> QED BY <1>5, ConstantsAssumption DEF Entry, Offsets

LEMMA NextUnprocessedIs ==
  ASSUME NEW s \in PartitionState, Pure(s)
  PROVE  /\ NextUnprocessedOffset(s) >= 0 => NextUnprocessedOffset(s) \in Nat
         /\ NextUnprocessedOffset(s) < 0 => s.queue = <<>>
  <1>0. s.storedNext \in Nat \union {-1} /\ s.queue \in Seq(Entry)
    BY DEF PartitionState
  <1>1. CASE s.storedNext >= 0
    BY <1>0, <1>1 DEF NextUnprocessedOffset
  <1>2. CASE ~ (s.storedNext >= 0) /\ Current(s) = {}
    <2>1. NextUnprocessedOffset(s) = -1
      BY <1>2 DEF NextUnprocessedOffset
    <2>2. s.queue = <<>>
      <3>1. Len(s.queue) \in Nat /\ Current(s) = 1..Len(s.queue)
        BY <1>0, LenProperties, PureMeansCurrent
      <3>2. Len(s.queue) = 0
        BY <1>2, <3>1
      <3> QED BY <1>0, <3>2, EmptySeq
    <2> QED BY <2>1, <2>2
  <1>3. CASE ~ (s.storedNext >= 0) /\ Current(s) # {}
    <2>1. NextUnprocessedOffset(s) = s.queue[Min(Current(s))].off
      BY <1>3 DEF NextUnprocessedOffset
    <2>2. s.queue[Min(Current(s))].off \in Nat
      BY <1>3, QueuedOffset
    <2> QED BY <2>1, <2>2
  <1> QED BY <1>1, <1>2, <1>3

LEMMA PauseStep ==
  ASSUME Inv, NEW p \in Partitions, Pause(p)
  PROVE  TypeOK' /\ KeptStep /\ RunKept /\ UNCHANGED fetchVars
  <1> DEFINE s == part[p]
             next == NextUnprocessedOffset(s)
  <1>0. TypeOK /\ QueuedTotalExact
    BY DEF Inv
  <1>1. /\ Spend("pause")
        /\ rdPaused' = [rdPaused EXCEPT ![p] = TRUE]
        /\ UNCHANGED <<runVars, order, claimCursor, pendingSeeks, fetchVars, worker,
                    rebalance, assigned, pos, seeking, stored, committed, done, excused>>
    BY DEF Pause
  <1>2. s \in PartitionState /\ Pure(s) /\ s.epoch \in Nat
    BY DEF Inv, TypeOK, QueueIsCurrent, Pure, PartitionState
  <1>3. (next >= 0 => next \in Nat) /\ (next < 0 => s.queue = <<>>)
    BY <1>2, NextUnprocessedIs
  <1>4. \/ ~Known(p) /\ UNCHANGED <<part, queuedTotal, seeks>>
        \/ /\ next >= 0
           /\ part' = [part EXCEPT ![p] = [Bumped(s) EXCEPT !.paused = TRUE]]
           /\ queuedTotal' = TotalWithout(p)
           /\ SeekQueued(p, next)
        \/ /\ next < 0
           /\ part' = [part EXCEPT ![p] = [BumpedKeepingQueue(s) EXCEPT !.paused = TRUE]]
           /\ UNCHANGED <<queuedTotal, seeks>>
    <2>1. CASE ~Known(p)
      BY <2>1 DEF Pause
    <2>2. CASE Known(p) /\ next >= 0
      BY <2>2 DEF Pause
    <2>3. CASE Known(p) /\ next < 0
      BY <2>3 DEF Pause
    <2>4. next \in Int
      <3>1. s.storedNext \in Int
        BY <1>2 DEF PartitionState
      <3>2. CASE Current(s) = {}
        BY <3>1, <3>2 DEF NextUnprocessedOffset
      <3>3. CASE Current(s) # {}
        BY <3>1, <3>3, <1>2, QueuedOffset DEF NextUnprocessedOffset
      <3> QED BY <3>2, <3>3
    <2> QED BY <2>1, <2>2, <2>3, <2>4
  <1>5. /\ TurnsKept
        /\ \A w \in Workers : worker'[w].pc = "waiting" => worker[w].pc = "waiting"
        /\ \A w \in Workers : worker[w].pc = "off" => worker'[w].pc = "off"
    BY <1>1, SameWorkers
  <1> DEFINE t == [Bumped(s) EXCEPT !.paused = TRUE]
  <1>6. Keeps(s, t) /\ t.queue = <<>>
    BY <1>2, BumpedKeeps, PausedKeeps
  <1> HIDE DEF t, next
  <1>7. /\ PartsKept /\ NobodyOversleeps
        /\ seeks' \in [Partitions -> SUBSET [off : Nat, epoch : Nat, attempt : Nat]]
    <2>1. CASE UNCHANGED <<part, queuedTotal, seeks>>
      BY <1>0, <1>1, <1>5, <2>1, NothingKept DEF NobodyOversleeps, TypeOK
    <2>2. CASE /\ next >= 0
               /\ part' = [part EXCEPT ![p] = [Bumped(s) EXCEPT !.paused = TRUE]]
               /\ queuedTotal' = TotalWithout(p)
               /\ SeekQueued(p, next)
      <3>1. part' = [part EXCEPT ![p] = t]
        BY <2>2 DEF t
      <3>2. PartsKept /\ NobodyOversleeps
        BY <1>0, <1>1, <1>5, <1>6, <2>2, <3>1, OneKept, OneCalmer
      <3>3. SeekJob(next, part[p].epoch + 1, 0) \in [off : Nat, epoch : Nat, attempt : Nat]
        BY <1>2, <1>3, <2>2 DEF SeekJob
      <3>4. seeks' \in [Partitions -> SUBSET [off : Nat, epoch : Nat, attempt : Nat]]
        BY <1>0, <2>2, <3>3 DEF SeekQueued, TypeOK
      <3> QED BY <3>2, <3>4
    <2>3. CASE /\ next < 0
               /\ part' = [part EXCEPT ![p] = [BumpedKeepingQueue(s) EXCEPT !.paused = TRUE]]
               /\ UNCHANGED <<queuedTotal, seeks>>
      <3>1. part' = [part EXCEPT ![p] = t]
        <4>1. BumpedKeepingQueue(s) = Bumped(s)
          BY <1>2, <1>3, <2>3, BumpedKeeps
        <4> QED BY <2>3, <4>1 DEF t
      <3>2. t.queue = part[p].queue
        BY <1>3, <1>6, <2>3
      <3>3. PartsKept /\ NobodyOversleeps
        BY <1>0, <1>1, <1>5, <1>6, <2>3, <3>1, <3>2, OneKept, OneCalmer
      <3> QED BY <1>0, <2>3, <3>3 DEF TypeOK
    <2> QED BY <1>4, <2>1, <2>2, <2>3
  <1>8. left' \in [Events -> Nat]
    BY <1>0, <1>1, SpentType DEF Events
  <1>9. rdPaused' \in [Partitions -> BOOLEAN]
    BY <1>0, <1>1 DEF TypeOK
  <1>10. TypeOK'
    BY <1>0, <1>1, <1>7, <1>8, <1>9 DEF TypeOK, PartsKept, runVars, fetchVars
  <1> QED BY <1>1, <1>5, <1>7, <1>10 DEF KeptStep, RunKept, runVars

LEMMA ResumeStep ==
  ASSUME Inv, NEW p \in Partitions, Resume(p)
  PROVE  TypeOK' /\ KeptStep /\ RunKept /\ UNCHANGED fetchVars
  <1>0. TypeOK /\ QueuedTotalExact /\ part[p] \in PartitionState
    BY DEF Inv, TypeOK
  <1>1. /\ rdPaused' = [rdPaused EXCEPT ![p] = FALSE]
        /\ part' = IF Known(p) THEN [part EXCEPT ![p].paused = FALSE] ELSE part
        /\ worker' = Signalled(worker)
        /\ UNCHANGED <<runVars, order, claimCursor, queuedTotal, pendingSeeks, fetchVars,
                 seeks, rebalance, assigned, pos, seeking, stored, committed, history>>
    BY DEF Resume
  <1>2. /\ TurnsKept /\ NobodyOversleeps /\ worker' \in [Workers -> WorkerState]
        /\ \A w \in Workers : worker[w].pc = "off" => worker'[w].pc = "off"
    BY <1>0, <1>1, WokenWorkers
  <1>3. PartsKept
    <2>1. CASE Known(p)
      <3> DEFINE t == [part[p] EXCEPT !.paused = FALSE]
      <3>1. Keeps(part[p], t) /\ t.queue = part[p].queue
        BY <1>0, KeepsItself, PausedKeeps
      <3> HIDE DEF t
      <3>2. part' = [part EXCEPT ![p] = t]
        BY <1>1, <2>1 DEF t
      <3> QED BY <1>0, <1>1, <3>1, <3>2, OneKept
    <2>2. CASE ~Known(p)
      BY <1>0, <1>1, <2>2, NothingKept
    <2> QED BY <2>1, <2>2
  <1>4. rdPaused' \in [Partitions -> BOOLEAN]
    BY <1>0, <1>1 DEF TypeOK
  <1>5. TypeOK'
    BY <1>0, <1>1, <1>2, <1>3, <1>4 DEF TypeOK, PartsKept, runVars, fetchVars, history
  <1> QED BY <1>1, <1>2, <1>3, <1>5 DEF KeptStep, RunKept, runVars

LEMMA StoreOffsetsStep ==
  ASSUME Inv, NEW p \in Partitions, StoreOffsets(p)
  PROVE  TypeOK' /\ KeptStep /\ RunKept /\ UNCHANGED fetchVars
  <1>0. TypeOK /\ QueuedTotalExact /\ part[p] \in PartitionState
    BY DEF Inv, TypeOK
  <1>1. PICK o \in 0..LogEnd :
          /\ Spend("store")
          /\ stored' = [stored EXCEPT ![p] = o]
          /\ part' = IF Known(p) THEN [part EXCEPT ![p].storedNext = o] ELSE part
          /\ excused' = [excused EXCEPT ![p] = @ \union Upto(o)]
          /\ UNCHANGED <<runVars, order, claimCursor, queuedTotal, pendingSeeks, fetchVars,
                   worker, seeks, rebalance, assigned, rdPaused, pos, seeking, committed, done>>
    BY DEF StoreOffsets
  <1>2. o \in Nat /\ Upto(o) \subseteq Offsets
    BY ConstantsAssumption DEF Upto, Offsets
  <1>3. /\ TurnsKept
        /\ \A w \in Workers : worker'[w].pc = "waiting" => worker[w].pc = "waiting"
        /\ \A w \in Workers : worker[w].pc = "off" => worker'[w].pc = "off"
    BY <1>1, SameWorkers
  <1>4. PartsKept /\ NobodyOversleeps
    <2>1. CASE Known(p)
      <3> DEFINE t == [part[p] EXCEPT !.storedNext = o]
      <3>1. Keeps(part[p], t) /\ t.queue = part[p].queue /\ t.paused = part[p].paused
        BY <1>0, <1>2, KeepsItself, StoredNextKeeps
      <3> HIDE DEF t
      <3>2. part' = [part EXCEPT ![p] = t]
        BY <1>1, <2>1 DEF t
      <3> QED BY <1>0, <1>1, <1>3, <3>1, <3>2, OneKept, OneCalmer
    <2>2. CASE ~Known(p)
      BY <1>0, <1>1, <1>3, <2>2, NothingKept DEF NobodyOversleeps
    <2> QED BY <2>1, <2>2
  <1>5. left' \in [Events -> Nat]
    BY <1>0, <1>1, SpentType DEF Events
  <1>6. excused' \in [Partitions -> SUBSET Offsets] /\ stored' \in [Partitions -> Nat \union {-1}]
    BY <1>0, <1>1, <1>2 DEF TypeOK
  <1>7. TypeOK'
    BY <1>0, <1>1, <1>4, <1>5, <1>6 DEF TypeOK, PartsKept, runVars, fetchVars
  <1> QED BY <1>1, <1>3, <1>4, <1>7 DEF KeptStep, RunKept, runVars

(* The steps that leave the partitions and the workers alone.              *)
LEMMA AloneKeeps ==
  ASSUME TypeOK, QueuedTotalExact, UNCHANGED <<runVars, partVars, worker>>
  PROVE  KeptStep /\ RunKept
  <1>1. UNCHANGED <<part, order, queuedTotal, worker, running, halting, runEpoch>>
    BY DEF partVars, runVars
  <1>2. PartsKept
    BY <1>1, NothingKept
  <1> QED BY <1>1, <1>2, SameWorkers DEF KeptStep, RunKept, NobodyOversleeps

LEMMA RunSeekStep ==
  ASSUME Inv, NEW p \in Partitions, RunSeek(p)
  PROVE  TypeOK' /\ KeptStep /\ RunKept /\ UNCHANGED fetchVars
  <1>0. TypeOK /\ QueuedTotalExact
    BY DEF Inv
  <1>1. PICK j \in seeks[p] :
          /\ \/ pos' = [pos EXCEPT ![p] = j.off] /\ seeking' = seeking \union {p}
             \/ UNCHANGED <<pos, seeking>>
          /\ \E more \in {{}, {SeekJob(j.off, j.epoch, j.attempt + 1)}} :
               seeks' = [seeks EXCEPT ![p] = (seeks[p] \ {j}) \union more]
          /\ UNCHANGED <<runVars, partVars, fetchVars, worker, rebalance, assigned,
                         rdPaused, stored, committed, history>>
    BY DEF RunSeek
  <1>2. j \in [off : Nat, epoch : Nat, attempt : Nat]
    BY <1>0 DEF TypeOK
  <1>3. SeekJob(j.off, j.epoch, j.attempt + 1) \in [off : Nat, epoch : Nat, attempt : Nat]
    BY <1>2 DEF SeekJob
  <1>4. seeks' \in [Partitions -> SUBSET [off : Nat, epoch : Nat, attempt : Nat]]
    BY <1>0, <1>1, <1>3 DEF TypeOK
  <1>5. pos' \in [Partitions -> Nat] /\ seeking' \in SUBSET Partitions
    BY <1>0, <1>1, <1>2 DEF TypeOK
  <1>6. TypeOK'
    BY <1>0, <1>1, <1>4, <1>5 DEF TypeOK, runVars, partVars, fetchVars, history
  <1>7. KeptStep /\ RunKept
    BY <1>0, <1>1, AloneKeeps
  <1> QED BY <1>1, <1>6, <1>7

LEMMA SeekCompletedStep ==
  ASSUME Inv, NEW p \in Partitions, SeekCompleted(p)
  PROVE  TypeOK' /\ KeptStep /\ RunKept /\ UNCHANGED fetchVars
  <1>1. TypeOK /\ QueuedTotalExact
    BY DEF Inv
  <1>2. KeptStep /\ RunKept
    BY <1>1, AloneKeeps DEF SeekCompleted
  <1>3. TypeOK'
    BY <1>1 DEF TypeOK, SeekCompleted, runVars, partVars, fetchVars, history
  <1> QED BY <1>2, <1>3 DEF SeekCompleted

LEMMA CommitOffsetsStep ==
  ASSUME Inv, NEW p \in Partitions, CommitOffsets(p)
  PROVE  TypeOK' /\ KeptStep /\ RunKept /\ UNCHANGED fetchVars
  <1>1. TypeOK /\ QueuedTotalExact
    BY DEF Inv
  <1>2. KeptStep /\ RunKept
    BY <1>1, AloneKeeps DEF CommitOffsets
  <1>3. left' \in [Events -> Nat]
    BY <1>1, SpentType DEF CommitOffsets, Events
  <1>4. TypeOK'
    BY <1>1, <1>3 DEF TypeOK, CommitOffsets, runVars, partVars, fetchVars
  <1> QED BY <1>2, <1>4 DEF CommitOffsets

LEMMA AssignEventStep ==
  ASSUME Inv, AssignEvent
  PROVE  TypeOK' /\ KeptStep /\ RunKept /\ UNCHANGED fetchVars
  <1>1. TypeOK /\ QueuedTotalExact
    BY DEF Inv
  <1>2. PICK S \in SUBSET (Partitions \ assigned) \ {{}} :
          /\ Spend("rebalance")
          /\ rebalance' = [assign |-> TRUE, parts |-> S]
          /\ UNCHANGED <<runVars, partVars, fetchVars, worker, seeks, rdVars, done, excused>>
    BY DEF AssignEvent
  <1>3. KeptStep /\ RunKept
    BY <1>1, <1>2, AloneKeeps
  <1>4. left' \in [Events -> Nat]
    BY <1>1, <1>2, SpentType DEF Events
  <1>5. TypeOK'
    BY <1>1, <1>2, <1>4 DEF TypeOK, runVars, partVars, fetchVars, rdVars
  <1> QED BY <1>2, <1>3, <1>5
-----------------------------------------------------------------------------
(* What such steps leave true.                                             *)

LEMMA KeptTable ==
  ASSUME Inv, PartsKept, TurnsKept
  PROVE  QueuedTotalExact' /\ QueueIsCurrent' /\ Births' /\ Turns' /\ Claims'
  <1>1. QueuedTotalExact'
    BY NextTotalIs DEF PartsKept
  <1>2. /\ part \in [Partitions -> PartitionState]
        /\ \A p \in Partitions : /\ part[p].born \in Nat /\ part[p].epoch \in Nat
                                 /\ part'[p].born \in Nat /\ part'[p].epoch \in Nat
    BY DEF Inv, TypeOK, PartsKept, PartitionState
  <1>3. \A p \in Partitions : Known(p)' <=> Known(p)
    BY DEF PartsKept, Known
  <1>4. \A p \in Partitions : Keeps(part[p], part'[p])
    BY DEF PartsKept
  <1>5. QueueIsCurrent'
    <2> SUFFICES ASSUME NEW p \in Partitions, NEW i \in 1..Len(part'[p].queue)
                 PROVE  part'[p].queue[i].epoch = part'[p].epoch
      BY DEF QueueIsCurrent
    <2>1. part'[p].queue # <<>>
      BY EmptySeq
    <2>2. part'[p].queue = part[p].queue /\ part'[p].epoch = part[p].epoch
      BY <1>4, <2>1 DEF Keeps
    <2> QED BY <2>2 DEF Inv, QueueIsCurrent
  <1>6. Births'
    <2> SUFFICES ASSUME NEW p \in Partitions
                 PROVE  /\ part'[p].born <= part'[p].epoch
                        /\ ~Known(p)' => part'[p].born < part'[p].epoch /\ part'[p].queue = <<>>
      BY DEF Births
    <2>1. /\ part'[p].born = part[p].born /\ part[p].epoch <= part'[p].epoch
          /\ part'[p].queue = <<>> \/ part'[p].queue = part[p].queue
      BY <1>4 DEF Keeps
    <2>2. /\ part[p].born <= part[p].epoch
          /\ ~Known(p) => part[p].born < part[p].epoch /\ part[p].queue = <<>>
      BY DEF Inv, Births
    <2> QED BY <1>2, <1>3, <2>1, <2>2
  <1>7. Turns'
    <2> SUFFICES ASSUME NEW w \in Workers, Working(worker'[w])
                 PROVE  /\ worker'[w].p \in Partitions
                        /\ worker'[w].born <= part'[worker'[w].p].born
                        /\ worker'[w].epoch <= part'[worker'[w].p].epoch
                        /\ worker'[w].epoch = part'[worker'[w].p].epoch
                             => /\ Known(worker[w].p)'
                                /\ worker'[w].born = part'[worker'[w].p].born
                        /\ worker'[w].pc = "busy" => worker'[w].entries # <<>>
      BY DEF Turns
    <2>1. /\ Working(worker[w])
          /\ worker'[w].p = worker[w].p /\ worker'[w].born = worker[w].born
          /\ worker'[w].epoch = worker[w].epoch
          /\ worker'[w].pc = "busy" => worker[w].pc = "busy" /\ worker'[w].entries = worker[w].entries
      BY DEF TurnsKept
    <2>2. /\ worker[w].p \in Partitions
          /\ worker[w].born <= part[worker[w].p].born
          /\ worker[w].epoch <= part[worker[w].p].epoch
          /\ worker[w].epoch = part[worker[w].p].epoch
               => Known(worker[w].p) /\ worker[w].born = part[worker[w].p].born
          /\ worker[w].pc = "busy" => worker[w].entries # <<>>
      BY <2>1 DEF Inv, Turns
    <2>3. worker[w].epoch \in Nat
      BY DEF Inv, TypeOK, WorkerState
    <2>4. Known(worker[w].p)' <=> Known(worker[w].p)
      BY <2>1 DEF PartsKept, Known
    <2>5. /\ part'[worker[w].p].born = part[worker[w].p].born
          /\ part[worker[w].p].epoch <= part'[worker[w].p].epoch
      BY <1>4, <2>2 DEF Keeps
    <2> QED BY <1>2, <2>1, <2>2, <2>3, <2>4, <2>5
  <1>8. Claims'
    <2> SUFFICES ASSUME NEW p \in Partitions, Known(p)
                 PROVE  /\ \A v, w \in Workers : Holds(worker'[v], p, part'[p])
                             /\ Holds(worker'[w], p, part'[p]) => v = w
                        /\ part'[p].claimed <=> \E w \in Workers : Holds(worker'[w], p, part'[p])
      BY <1>3 DEF Claims
    <2>1. \A w \in Workers : Holds(worker'[w], p, part'[p]) <=> Holds(worker[w], p, part[p])
      BY <1>4 DEF TurnsKept, Holds, Keeps
    <2>2. part'[p].claimed = part[p].claimed
      BY <1>4 DEF Keeps
    <2> QED BY <2>1, <2>2 DEF Inv, Claims
  <1> QED BY <1>1, <1>5, <1>6, <1>7, <1>8

LEMMA KeptWakeup ==
  ASSUME Inv, PartsKept, NobodyOversleeps, UNCHANGED running
  PROVE  NoLostWakeup'
  <1>1. CASE \A w \in Workers : worker'[w].pc # "waiting"
    BY <1>1 DEF NoLostWakeup
  <1>2. CASE /\ \A w \in Workers : worker'[w].pc = "waiting" => worker[w].pc = "waiting"
             /\ \A p \in Partitions : Claimable(part'[p]) => Claimable(part[p])
    <2>1. \A p \in Partitions : Known(p)' <=> Known(p)
      BY DEF PartsKept, Known
    <2> QED BY <1>2, <2>1 DEF Inv, NoLostWakeup
  <1> QED BY <1>1, <1>2 DEF NobodyOversleeps

LEMMA KeptRun ==
  ASSUME Inv, PartsKept, RunKept
  PROVE  StopMeansStopped' /\ Halts'
  <1>1. \A p \in Partitions : part[p].queue = <<>> => part'[p].queue = <<>>
    BY DEF PartsKept, Keeps
  <1> QED BY <1>1 DEF Inv, StopMeansStopped, Halts, RunKept

LEMMA KeptFetch ==
  ASSUME Inv, queuedTotal' \in Nat, queuedTotal' <= queuedTotal,
         UNCHANGED <<pumpActive, request, answer>>
  PROVE  QueueBounded' /\ OneFetchAtATime' /\ Backpressure'
  <1>1. /\ queuedTotal \in Nat /\ MaxQueued \in Nat /\ FetchChunk \in Nat
        /\ queuedTotal < MaxQueued + FetchChunk
        /\ pumpActive => queuedTotal < MaxQueued
    BY ConstantsAssumption DEF Inv, TypeOK, QueueBounded, Backpressure
  <1>2. QueueBounded'
    BY <1>1 DEF QueueBounded
  <1>3. OneFetchAtATime'
    BY DEF Inv, OneFetchAtATime
  <1>4. Backpressure'
    BY <1>1 DEF Inv, Backpressure
  <1> QED BY <1>2, <1>3, <1>4

LEMMA KeptInv ==
  ASSUME Inv, TypeOK', KeptStep, RunKept, UNCHANGED fetchVars
  PROVE  Inv'
  <1>1. QueuedTotalExact' /\ QueueIsCurrent' /\ Births' /\ Turns' /\ Claims'
    BY KeptTable DEF KeptStep
  <1>2. NoLostWakeup'
    BY KeptWakeup DEF KeptStep, RunKept
  <1>3. StopMeansStopped' /\ Halts'
    BY KeptRun DEF KeptStep
  <1>4. QueueBounded' /\ OneFetchAtATime' /\ Backpressure'
    BY KeptFetch DEF KeptStep, PartsKept, fetchVars
  <1> QED BY <1>1, <1>2, <1>3, <1>4 DEF Inv

-----------------------------------------------------------------------------
(* The callback layer.                                                     *)

LEMMA AnswersAreSome ==
  ASSUME NEW a \in [run : Nat, batch : Seq(Message)]
  PROVE  a # None
  <1>1. Message \subseteq Partitions \X Nat
    BY ConstantsAssumption DEF Message, Offsets
  <1>2. a.batch \in Seq(Partitions \X Nat)
    BY <1>1, SeqMonotonic
  <1>3. a \in [run : Nat, batch : Seq(Partitions \X Nat)]
    BY <1>2
  <1> QED BY <1>3, ConstantsAssumption

LEMMA RequestTimeoutInv ==
  ASSUME Inv, RequestTimeout
  PROVE  Inv'
  <1>1. TypeOK /\ QueuedTotalExact
    BY DEF Inv
  <1>2. KeptStep /\ RunKept
    BY <1>1, AloneKeeps DEF RequestTimeout
  <1>3. /\ answer' = [run |-> request, batch |-> <<>>] /\ request' = 0 /\ request # 0
        /\ UNCHANGED <<pumpActive, queuedTotal>>
    BY DEF RequestTimeout, partVars
  <1>4. answer' \in [run : Nat, batch : Seq(Message)] /\ Len(answer'.batch) = 0
    <2>1. <<>> \in Seq(Message) /\ Len(<<>>) = 0
      BY EmptySeq
    <2> QED BY <1>1, <1>3, <2>1 DEF TypeOK
  <1>5. answer' # None
    BY <1>3, <1>4, AnswersAreSome
  <1>6. TypeOK'
    BY <1>1, <1>3, <1>4 DEF TypeOK, RequestTimeout, runVars, partVars, fetchVars, rdVars, history
  <1> QED
    <2>1. QueuedTotalExact' /\ QueueIsCurrent' /\ Births' /\ Turns' /\ Claims' /\ NoLostWakeup'
      BY <1>2, KeptTable, KeptWakeup DEF KeptStep, RunKept
    <2>2. StopMeansStopped' /\ Halts'
      BY <1>2, KeptRun DEF KeptStep
    <2>3. QueueBounded' /\ OneFetchAtATime'
      BY <1>3, <1>5 DEF Inv, QueueBounded, OneFetchAtATime
    <2>4. Backpressure'
      BY <1>3, <1>4, ConstantsAssumption DEF Inv, Backpressure
    <2> QED BY <1>6, <2>1, <2>2, <2>3, <2>4 DEF Inv
(* The chunk taken from the front of a buffer.                             *)
LEMMA ChunkIs ==
  ASSUME NEW held \in Seq(Message)
  PROVE  LET size == Smallest(FetchChunk, Len(held))
         IN  /\ SubSeq(held, 1, size) \in Seq(Message)
             /\ Len(SubSeq(held, 1, size)) <= FetchChunk
             /\ SubSeq(held, size + 1, Len(held)) \in Seq(Message)
  <1> DEFINE size == Smallest(FetchChunk, Len(held))
             n == Len(held)
  <1>1. n \in Nat /\ FetchChunk \in Nat
    BY LenProperties, ConstantsAssumption
  <1>2. size \in Nat /\ size <= FetchChunk /\ size <= n
    BY <1>1 DEF Smallest
  <1> HIDE DEF size
  <1>3. \A i \in 1..n : held[i] \in Message
    BY ElementOfSeq
  <1> HIDE DEF n
  <1>4. /\ SubSeq(held, 1, size) \in Seq(Message)
        /\ Len(SubSeq(held, 1, size)) = IF 1 <= size THEN size - 1 + 1 ELSE 0
    <2>1. 1 \in Int /\ size \in Int /\ \A i \in 1..size : held[i] \in Message
      BY <1>1, <1>2, <1>3
    <2> QED BY <2>1, SubSeqProperties
  <1>5. SubSeq(held, size + 1, n) \in Seq(Message)
    <2>1. size + 1 \in Int /\ n \in Int /\ \A i \in size + 1..n : held[i] \in Message
      BY <1>1, <1>2, <1>3
    <2> QED BY <2>1, SubSeqProperties
  <1>6. Len(SubSeq(held, 1, size)) <= FetchChunk
    BY <1>1, <1>2, <1>4
  <1> QED BY <1>4, <1>5, <1>6 DEF size, n

LEMMA PulledIs ==
  ASSUME TypeOK, NEW p \in Partitions, NEW n \in Nat, n > 0 => pos[p] + n <= LogEnd
  PROVE  /\ [i \in 1..n |-> <<p, pos[p] + i - 1>>] \in Seq(Message)
         /\ buffer \o [i \in 1..n |-> <<p, pos[p] + i - 1>>] \in Seq(Message)
  <1> DEFINE pulled == [i \in 1..n |-> <<p, pos[p] + i - 1>>]
  <1>1. pos[p] \in Nat /\ LogEnd \in Nat /\ buffer \in Seq(Message)
    BY ConstantsAssumption DEF TypeOK
  <1>2. \A i \in 1..n : <<p, pos[p] + i - 1>> \in Message
    BY <1>1 DEF Message, Offsets
  <1>3. pulled \in [1..n -> Message]
    BY <1>2
  <1>4. pulled \in Seq(Message)
    BY <1>3
  <1> HIDE DEF pulled
  <1>5. buffer \o pulled \in Seq(Message)
    BY <1>1, <1>4, ConcatProperties
  <1> QED BY <1>4, <1>5 DEF pulled

LEMMA PollTickInv ==
  ASSUME Inv, PollTick
  PROVE  Inv'
  <1>0. TypeOK /\ QueuedTotalExact /\ OneFetchAtATime /\ Backpressure /\ QueueBounded
    BY DEF Inv
  <1> DEFINE room == MaxBuffered - Len(buffer)
             want == IF room <= 0 THEN 1 ELSE Smallest(FetchChunk, room)
             held(p, n) == buffer \o [i \in 1..n |-> <<p, pos[p] + i - 1>>]
             size(p, n) == Smallest(FetchChunk, Len(held(p, n)))
  <1>1. PICK p \in Partitions, n \in 0..want :
          /\ n > 0 => pos[p] + n <= LogEnd
          /\ pos' = [pos EXCEPT ![p] = @ + n]
          /\ \/ /\ request # 0
                /\ answer' = [run |-> request, batch |-> SubSeq(held(p, n), 1, size(p, n))]
                /\ buffer' = SubSeq(held(p, n), size(p, n) + 1, Len(held(p, n)))
                /\ request' = 0
             \/ buffer' = held(p, n) /\ UNCHANGED <<answer, request>>
          /\ UNCHANGED <<runVars, partVars, pumpActive, worker, seeks, rebalance,
                         assigned, rdPaused, seeking, stored, committed, history>>
    BY ZenonT(60) DEF PollTick
  <1>2. n \in Nat
    <2>1. want \in Nat
      <3>1. Len(buffer) \in Nat /\ MaxBuffered \in Nat /\ FetchChunk \in Nat
        BY <1>0, LenProperties, ConstantsAssumption DEF TypeOK
      <3> QED BY <3>1 DEF Smallest
    <2> HIDE DEF want
    <2> QED BY <2>1
  <1>3. KeptStep /\ RunKept
    BY <1>0, <1>1, AloneKeeps
  <1>4. held(p, n) \in Seq(Message)
    BY <1>0, <1>1, <1>2, PulledIs
  <1> HIDE DEF held, want, room
  <1>5. /\ SubSeq(held(p, n), 1, size(p, n)) \in Seq(Message)
        /\ Len(SubSeq(held(p, n), 1, size(p, n))) <= FetchChunk
        /\ SubSeq(held(p, n), size(p, n) + 1, Len(held(p, n))) \in Seq(Message)
    BY <1>4, ChunkIs
  <1> HIDE DEF size
  <1>6. pos' \in [Partitions -> Nat] /\ UNCHANGED queuedTotal
    BY <1>0, <1>1, <1>2 DEF TypeOK, partVars
  <1>7. /\ buffer' \in Seq(Message) /\ request' \in Nat
        /\ answer' \in {None} \union [run : Nat, batch : Seq(Message)]
        /\ OneFetchAtATime' /\ Backpressure'
    <2>1. CASE /\ request # 0
               /\ answer' = [run |-> request, batch |-> SubSeq(held(p, n), 1, size(p, n))]
               /\ buffer' = SubSeq(held(p, n), size(p, n) + 1, Len(held(p, n)))
               /\ request' = 0
      <3>1. answer' \in [run : Nat, batch : Seq(Message)] /\ Len(answer'.batch) <= FetchChunk
        BY <1>0, <1>5, <2>1 DEF TypeOK
      <3>2. answer' # None
        BY <3>1, AnswersAreSome
      <3>3. OneFetchAtATime'
        BY <1>0, <1>1, <2>1, <3>2 DEF OneFetchAtATime
      <3>4. Backpressure'
        BY <1>0, <1>1, <1>6, <3>1 DEF Backpressure
      <3> QED BY <1>5, <2>1, <3>1, <3>3, <3>4
    <2>2. CASE buffer' = held(p, n) /\ UNCHANGED <<answer, request>>
      BY <1>0, <1>1, <1>4, <1>6, <2>2 DEF TypeOK, OneFetchAtATime, Backpressure
    <2> QED BY <1>1, <2>1, <2>2
  <1>8. TypeOK'
    BY <1>0, <1>1, <1>6, <1>7 DEF TypeOK, runVars, partVars, history
  <1> QED
    <2>1. QueuedTotalExact' /\ QueueIsCurrent' /\ Births' /\ Turns' /\ Claims' /\ NoLostWakeup'
      BY <1>3, KeptTable, KeptWakeup DEF KeptStep, RunKept
    <2>2. StopMeansStopped' /\ Halts'
      BY <1>3, KeptRun DEF KeptStep
    <2>3. QueueBounded'
      BY <1>0, <1>6 DEF QueueBounded
    <2> QED BY <1>7, <1>8, <2>1, <2>2, <2>3 DEF Inv

-----------------------------------------------------------------------------
(* run(), stop() and disconnect().                                         *)

LEMMA PumpIs ==
  ASSUME Inv, NEW on \in BOOLEAN, NEW run \in Nat, on => run > 0, NEW active \in BOOLEAN,
         \/ answer' = answer /\ (active <=> pumpActive)
         \/ answer # None /\ answer' = None /\ ~active,
         queuedTotal' \in Nat, queuedTotal' <= queuedTotal \/ ~active,
         Pump(on, run, active, queuedTotal')
  PROVE  /\ OneFetchAtATime' /\ Backpressure'
         /\ pumpActive' \in BOOLEAN /\ request' \in Nat
  <1>1. /\ pumpActive \in BOOLEAN /\ request \in Nat /\ queuedTotal \in Nat
        /\ MaxQueued \in Nat
        /\ pumpActive <=> (request # 0 \/ answer # None)
        /\ request = 0 \/ answer = None
        /\ pumpActive => queuedTotal < MaxQueued
        /\ answer # None => Len(answer.batch) <= FetchChunk
    BY ConstantsAssumption DEF Inv, TypeOK, OneFetchAtATime, Backpressure
  <1>2. CASE on /\ ~active /\ queuedTotal' < MaxQueued
    <2>1. pumpActive' = TRUE /\ request' = run
      BY <1>2 DEF Pump
    <2>2. answer' = None
      BY <1>1, <1>2
    <2> QED BY <1>1, <1>2, <2>1, <2>2 DEF OneFetchAtATime, Backpressure
  <1>3. CASE ~ (on /\ ~active /\ queuedTotal' < MaxQueued)
    <2>1. pumpActive' = active /\ request' = request
      BY <1>3 DEF Pump
    <2>2. OneFetchAtATime'
      BY <1>1, <2>1 DEF OneFetchAtATime
    <2>3. Backpressure'
      BY <1>1, <2>1 DEF Backpressure
    <2> QED BY <1>1, <2>1, <2>2, <2>3
  <1> QED BY <1>2, <1>3

LEMMA RunInv ==
  ASSUME Inv, Run
  PROVE  Inv'
  <1>0. TypeOK /\ QueuedTotalExact /\ QueueBounded /\ StopMeansStopped
    BY DEF Inv
  <1>1. /\ ~running /\ halting = "no" /\ handler' \in Handlers /\ running' = TRUE
        /\ runEpoch' = runEpoch + 1
        /\ Pump(TRUE, runEpoch + 1, pumpActive, queuedTotal)
        /\ worker' = [w \in Workers |-> Idle("ready")]
        /\ UNCHANGED <<connected, halting, part, order, claimCursor, queuedTotal, pendingSeeks,
                       answer, buffer, seeks, rebalance, rdVars, history>>
    BY DEF Run, partVars
  <1>2. \A w \in Workers : worker[w].pc = "off"
    BY <1>0, <1>1 DEF StopMeansStopped
  <1>3. /\ worker' \in [Workers -> WorkerState]
        /\ \A w \in Workers : worker'[w].pc = "ready" /\ ~Working(worker'[w])
    BY <1>1, IdleType DEF Working
  <1>4. TurnsKept /\ NobodyOversleeps
    BY <1>2, <1>3 DEF TurnsKept, NobodyOversleeps, Working
  <1>5. PartsKept
    BY <1>0, <1>1, NothingKept
  <1>6. /\ OneFetchAtATime' /\ Backpressure'
        /\ pumpActive' \in BOOLEAN /\ request' \in Nat
    <2>1. /\ runEpoch + 1 \in Nat /\ runEpoch + 1 > 0 /\ pumpActive \in BOOLEAN /\ TRUE \in BOOLEAN
          /\ queuedTotal' \in Nat /\ queuedTotal' <= queuedTotal
          /\ answer' = answer
      BY <1>0, <1>1 DEF TypeOK
    <2>2. Pump(TRUE, runEpoch + 1, pumpActive, queuedTotal')
      BY <1>1
    <2> QED BY <2>1, <2>2, PumpIs
  <1>7. TypeOK'
    <2>1. handler' \in HandlerKinds /\ runEpoch' \in Nat
      BY <1>0, <1>1, ConstantsAssumption DEF TypeOK
    <2> QED BY <1>0, <1>1, <1>3, <1>6, <2>1 DEF TypeOK, rdVars, history
  <1>8. QueuedTotalExact' /\ QueueIsCurrent' /\ Births' /\ Turns' /\ Claims'
    BY <1>4, <1>5, KeptTable
  <1>9. NoLostWakeup'
    BY <1>3 DEF NoLostWakeup
  <1>10. StopMeansStopped' /\ Halts' /\ QueueBounded'
    <2>1. runEpoch' > 0
      BY <1>0, <1>1 DEF TypeOK
    <2> QED BY <1>0, <1>1, <2>1 DEF StopMeansStopped, Halts, QueueBounded
  <1> QED BY <1>6, <1>7, <1>8, <1>9, <1>10 DEF Inv

LEMMA HaltInv ==
  ASSUME Inv, NEW kind \in {"stop", "disconnect"}, Halt(kind)
  PROVE  Inv'
  <1>0. TypeOK /\ QueuedTotalExact
    BY DEF Inv
  <1>1. /\ running' = FALSE /\ runEpoch' = runEpoch + 1 /\ halting' = kind
        /\ worker' = Signalled(worker) /\ Spend("stop")
        /\ UNCHANGED <<connected, handler, part, order, claimCursor, queuedTotal, pendingSeeks,
                       fetchVars, seeks, rebalance, rdVars, done, excused>>
    BY DEF Halt, partVars
  <1>2. TurnsKept /\ worker' \in [Workers -> WorkerState]
    BY <1>0, <1>1, WokenWorkers
  <1>3. PartsKept
    BY <1>0, <1>1, NothingKept
  <1>4. left' \in [Events -> Nat]
    BY <1>0, <1>1, SpentType DEF Events
  <1>5. TypeOK'
    <2>1. runEpoch' \in Nat
      <3>1. runEpoch \in Nat
        BY <1>0 DEF TypeOK
      <3> QED BY <1>1, <3>1
    <2>2. running' \in BOOLEAN
      BY <1>1
    <2>3. halting' \in {"no", "stop", "disconnect"}
      BY <1>1
    <2> QED BY <1>0, <1>1, <1>2, <1>4, <2>1, <2>2, <2>3 DEF TypeOK, fetchVars, rdVars
  <1>6. QueuedTotalExact' /\ QueueIsCurrent' /\ Births' /\ Turns' /\ Claims'
    BY <1>2, <1>3, KeptTable
  <1>7. NoLostWakeup' /\ StopMeansStopped' /\ Halts'
    BY <1>1 DEF NoLostWakeup, StopMeansStopped, Halts
  <1>8. QueueBounded' /\ OneFetchAtATime' /\ Backpressure'
    BY <1>1, <1>3, KeptFetch DEF PartsKept, fetchVars
  <1> QED BY <1>5, <1>6, <1>7, <1>8 DEF Inv
(* Every worker has left: all queues are dropped, and a disconnect() sees  *)
(* to the waiting request.                                                 *)
LEMMA HaltDoneInv ==
  ASSUME Inv, HaltDone
  PROVE  Inv'
  <1>0. /\ TypeOK /\ QueuedTotalExact /\ OneFetchAtATime /\ Backpressure /\ Births /\ Halts
        /\ \A w \in Workers : worker[w].pc = "off"
    BY DEF Inv, HaltDone, WorkersLeft
  <1>1. /\ part' = [p \in Partitions |-> IF Known(p) THEN Bumped(part[p]) ELSE part[p]]
        /\ queuedTotal' = 0 /\ halting' = "no"
        /\ UNCHANGED <<running, runEpoch, handler, order, claimCursor, pendingSeeks, pumpActive,
                 worker, seeks, rebalance, assigned, rdPaused, pos, seeking, stored, history>>
    BY DEF HaltDone
  <1>2. \A p \in Partitions : Keeps(part[p], part'[p]) /\ part'[p].queue = <<>>
    <2> SUFFICES ASSUME NEW p \in Partitions
                 PROVE  Keeps(part[p], part'[p]) /\ part'[p].queue = <<>>
      OBVIOUS
    <2>1. part[p] \in PartitionState
      BY <1>0 DEF TypeOK
    <2>2. CASE Known(p)
      BY <1>1, <2>1, <2>2, BumpedKeeps
    <2>3. CASE ~Known(p)
      <3>1. part'[p] = part[p]
        BY <1>1, <2>3
      <3> QED BY <1>0, <2>1, <2>3, <3>1, KeepsItself DEF Births
    <2> QED BY <2>2, <2>3
  <1>3. part' \in [Partitions -> PartitionState]
    <2>1. DOMAIN part' = Partitions /\ part' = [p \in Partitions |-> part'[p]]
      BY <1>1
    <2> QED BY <1>2, <2>1 DEF Keeps
  <1>4. PartsKept
    <2>1. Slots(part', Partitions) = {}
      BY <1>2, EmptySeq DEF Slots
    <2>2. Cardinality({}) = 0
      BY FS_EmptySet
    <2>3. queuedTotal' = Cardinality(Slots(part', Partitions))
      BY <1>1, <2>1, <2>2
    <2> QED BY <1>0, <1>1, <1>2, <1>3, <2>3 DEF PartsKept, TypeOK
  <1>5. /\ QueuedTotalExact' /\ QueueIsCurrent' /\ Births' /\ Turns' /\ Claims'
    BY <1>1, <1>4, SameWorkers, KeptTable
  <1>6. NoLostWakeup' /\ StopMeansStopped' /\ Halts'
    BY <1>0, <1>1, <1>2 DEF NoLostWakeup, StopMeansStopped, Halts
  <1>7. QueueBounded' /\ (pumpActive' => queuedTotal' < MaxQueued)
    BY <1>1, ConstantsAssumption DEF QueueBounded
  <1>8. /\ connected' \in BOOLEAN /\ committed' \in [Partitions -> Nat \union {-1}]
        /\ answer' \in {None} \union [run : Nat, batch : Seq(Message)]
        /\ request' \in Nat /\ buffer' \in Seq(Message)
        /\ OneFetchAtATime' /\ (answer' # None => Len(answer'.batch) <= FetchChunk)
    <2>1. CASE halting = "disconnect"
      <3> DEFINE batch == SubSeq(buffer, 1, Smallest(FetchChunk, Len(buffer)))
      <3>1. /\ connected' = FALSE /\ request' = 0 /\ buffer' = <<>>
            /\ committed' = [p \in Partitions |->
                 IF AutoCommit /\ p \in assigned /\ stored[p] >= 0 THEN stored[p] ELSE committed[p]]
            /\ answer' = IF request = 0 THEN answer ELSE [run |-> request, batch |-> batch]
        BY <1>1, <2>1 DEF HaltDone
      <3>2. batch \in Seq(Message) /\ Len(batch) <= FetchChunk
        BY <1>0, ChunkIs DEF TypeOK
      <3> HIDE DEF batch
      <3>3. committed' \in [Partitions -> Nat \union {-1}]
        BY <1>0, <3>1 DEF TypeOK
      <3>4. buffer' \in Seq(Message)
        BY <3>1, EmptySeq
      <3>5. CASE request = 0
        BY <1>0, <1>1, <3>1, <3>3, <3>4, <3>5 DEF TypeOK, OneFetchAtATime, Backpressure
      <3>6. CASE request # 0
        <4>1. answer' \in [run : Nat, batch : Seq(Message)] /\ Len(answer'.batch) <= FetchChunk
          BY <1>0, <3>1, <3>2, <3>6 DEF TypeOK
        <4>2. answer' # None
          BY <4>1, AnswersAreSome
        <4>3. OneFetchAtATime'
          BY <1>0, <1>1, <3>1, <3>6, <4>2 DEF OneFetchAtATime
        <4> QED BY <3>1, <3>3, <3>4, <4>1, <4>3
      <3> QED BY <3>5, <3>6
    <2>2. CASE halting # "disconnect"
      <3>1. UNCHANGED <<connected, committed, answer, request, buffer>>
        BY <2>2 DEF HaltDone
      <3> QED BY <1>0, <1>1, <3>1 DEF TypeOK, OneFetchAtATime, Backpressure
    <2> QED BY <2>1, <2>2
  <1>9. TypeOK'
    BY <1>0, <1>1, <1>3, <1>8 DEF TypeOK, history
  <1> QED BY <1>5, <1>6, <1>7, <1>8, <1>9 DEF Inv, Backpressure
-----------------------------------------------------------------------------
(* Steps that take from a queue, or claim a partition or give it up.       *)

SameQueues(ps) ==
  /\ ps \in [Partitions -> PartitionState]
  /\ \A q \in Partitions : /\ ps[q].born = part[q].born /\ ps[q].epoch = part[q].epoch
                           /\ ps[q].queue = part[q].queue /\ ps[q].paused = part[q].paused

QueuesShorter ==
  /\ order' = order
  /\ part' \in [Partitions -> PartitionState]
  /\ \A q \in Partitions :
       /\ part'[q].born = part[q].born /\ part'[q].epoch = part[q].epoch
       /\ Pure(part'[q])
       /\ part[q].queue = <<>> => part'[q].queue = <<>>
  /\ queuedTotal' = Cardinality(Slots(part', Partitions))
  /\ queuedTotal' \in Nat /\ queuedTotal' <= queuedTotal

LEMMA SameQueuesShorter ==
  ASSUME TypeOK, QueuedTotalExact, QueueIsCurrent, UNCHANGED <<order, queuedTotal>>,
         SameQueues(part')
  PROVE  QueuesShorter
  <1>1. Slots(part', Partitions) = Slots(part, Partitions)
    BY SameSlots DEF SameQueues
  <1>2. \A q \in Partitions : Pure(part'[q])
    BY DEF SameQueues, QueueIsCurrent, Pure
  <1> QED BY <1>1, <1>2, TotalIs DEF SameQueues, QueuesShorter, TypeOK

LEMMA TakenShorter ==
  ASSUME TypeOK, QueuedTotalExact, QueueIsCurrent, UNCHANGED order,
         NEW ps, SameQueues(ps), NEW p \in Partitions, NEW t, NEW c \in Nat,
         Claims1(ps[p], t, c), part' = [ps EXCEPT ![p] = t], queuedTotal' = queuedTotal - c
  PROVE  QueuesShorter
  <1>1. /\ part \in [Partitions -> PartitionState] /\ ps \in [Partitions -> PartitionState]
        /\ part' \in [Partitions -> PartitionState] /\ part'[p] = t
        /\ \A q \in Partitions \ {p} : part'[q] = ps[q]
    BY DEF TypeOK, SameQueues, Claims1
  <1>2. \A q \in Partitions : /\ part'[q].born = part[q].born
                              /\ part'[q].epoch = part[q].epoch
                              /\ Pure(part'[q])
    <2> SUFFICES ASSUME NEW q \in Partitions
                 PROVE  /\ part'[q].born = part[q].born /\ part'[q].epoch = part[q].epoch
                        /\ Pure(part'[q])
      OBVIOUS
    <2>1. CASE q = p
      BY <1>1, <2>1 DEF Claims1, SameQueues
    <2>2. CASE q # p
      BY <1>1, <2>2 DEF SameQueues, QueueIsCurrent, Pure
    <2> QED BY <2>1, <2>2
  <1>3. /\ Len(part[p].queue) \in Nat /\ c \in 1..Len(part[p].queue)
        /\ Len(part'[p].queue) = Len(part[p].queue) - c
    <2>1. Len(part[p].queue) \in Nat
      BY <1>1, LenProperties DEF PartitionState
    <2> QED BY <1>1, <2>1 DEF Claims1, SameQueues
  <1>4. \A q \in Partitions : part[q].queue = <<>> => part'[q].queue = <<>>
    <2>1. part[p].queue # <<>>
      BY <1>3, EmptySeq
    <2> QED BY <1>1, <2>1 DEF SameQueues
  <1>5. /\ Cardinality(Slots(part', Partitions)) = queuedTotal - c
        /\ queuedTotal - c \in Nat /\ queuedTotal - c <= queuedTotal
    <2>1. \A q \in Partitions \ {p} : Len(part'[q].queue) = Len(part[q].queue)
      BY <1>1 DEF SameQueues
    <2>2. queuedTotal = Cardinality(Slots(part, Partitions)) /\ queuedTotal \in Nat
      BY TotalIs DEF TypeOK
    <2>3. /\ Cardinality(Slots(part', Partitions))
               = Cardinality(Slots(part, Partitions)) - Len(part[p].queue) + Len(part'[p].queue)
          /\ Len(part[p].queue) <= Cardinality(Slots(part, Partitions))
      BY <1>1, <2>1, SlotsChange
    <2> QED BY <1>3, <2>2, <2>3
  <1> QED BY <1>1, <1>2, <1>4, <1>5 DEF QueuesShorter

LEMMA ShorterTable ==
  ASSUME Inv, QueuesShorter
  PROVE  QueuedTotalExact' /\ QueueIsCurrent' /\ Births'
  <1>1. QueuedTotalExact'
    BY NextTotalIs DEF QueuesShorter
  <1>2. QueueIsCurrent'
    BY DEF QueuesShorter, QueueIsCurrent, Pure
  <1>3. \A p \in Partitions : Known(p)' <=> Known(p)
    BY DEF QueuesShorter, Known
  <1>4. Births'
    BY <1>3 DEF Inv, Births, QueuesShorter
  <1> QED BY <1>1, <1>2, <1>4

(* eachMessage goes on to the next message of its turn.                    *)
LEMMA MessageOkMoreInv ==
  ASSUME Inv, NEW w \in Workers, MessageOk(w), Live(w),
         running /\ worker[w].turn < MaxBatch /\ Current(part[worker[w].p]) # {}
  PROVE  Inv'
  <1> DEFINE p == worker[w].p
             s == part[p]
             h == Handling(p, s, worker[w].turn + 1)
             o == StoredOffset(FirstEntry(w))
             rest == [s EXCEPT !.queue = Rest(s, 1)]
             c == Cut(s, 1)
  <1>0. TypeOK /\ QueuedTotalExact /\ QueueIsCurrent /\ Births /\ Turns /\ Claims
    BY DEF Inv
  <1>1. /\ worker[w].pc = "busy" /\ ~EachBatch
        /\ done' = [done EXCEPT ![p] = @ \union {FirstEntry(w)}]
        /\ worker' = [worker EXCEPT ![w] = h]
        /\ Store(p, o, rest)
        /\ queuedTotal' = queuedTotal - c
        /\ UNCHANGED <<runVars, order, claimCursor, pendingSeeks, fetchVars, seeks,
                    rebalance, assigned, rdPaused, pos, seeking, committed, left, excused>>
    BY DEF MessageOk
  <1>2. /\ p \in Partitions /\ FirstEntry(w) \in Offsets /\ o \in Nat
        /\ s \in PartitionState /\ Pure(s) /\ Current(s) # {}
        /\ worker \in [Workers -> WorkerState] /\ worker[w].turn + 1 \in Nat
        /\ part \in [Partitions -> PartitionState]
    <2>1. p \in Partitions /\ FirstEntry(w) \in Offsets /\ o \in Nat
      BY <1>0, <1>1, EntriesAre
    <2>2. worker \in [Workers -> WorkerState] /\ part \in [Partitions -> PartitionState]
      BY <1>0 DEF TypeOK
    <2> QED BY <1>0, <2>1, <2>2 DEF QueueIsCurrent, Pure, WorkerState
  <1>3. /\ h \in WorkerState /\ h.pc = "busy" /\ h.p = p /\ h.born = s.born
        /\ h.epoch = s.epoch /\ h.entries # <<>>
    BY <1>2, HandlingIs
  <1>4. s.epoch = worker[w].epoch /\ s.born = worker[w].born
    <2>1. s.epoch = worker[w].epoch
      BY DEF Live
    <2> QED BY <1>0, <1>1, <2>1 DEF Turns, Working
  <1>5. Claims1(s, rest, c) /\ rest.claimed = s.claimed
    <2>1. Claims1(s, rest, c)
      BY <1>2, RestIs
    <2> QED BY <1>2, <2>1 DEF PartitionState
  <1>6. PICK t : /\ part' = [part EXCEPT ![p] = t] /\ Claims1(s, t, c) /\ t.claimed = s.claimed
                 /\ stored' \in [Partitions -> Nat \union {-1}]
    <2>1. CASE p \in assigned
      <3> DEFINE u == [rest EXCEPT !.storedNext = o]
      <3>1. /\ stored' = [stored EXCEPT ![p] = o] /\ part' = [part EXCEPT ![p] = u]
        BY <1>1, <2>1 DEF Store
      <3>2. rest \in PartitionState
        BY <1>5 DEF Claims1
      <3> HIDE DEF rest
      <3>3. /\ u \in PartitionState /\ u.born = rest.born /\ u.epoch = rest.epoch
            /\ u.paused = rest.paused /\ u.queue = rest.queue /\ u.claimed = rest.claimed
        BY <1>2, <3>2 DEF PartitionState
      <3> HIDE DEF u
      <3>4. Claims1(s, u, c) /\ u.claimed = s.claimed
        BY <1>5, <3>3 DEF Claims1, Pure
      <3>5. stored' \in [Partitions -> Nat \union {-1}]
        BY <1>0, <1>2, <3>1 DEF TypeOK
      <3> QED BY <3>1, <3>4, <3>5
    <2>2. CASE p \notin assigned
      BY <1>0, <1>1, <1>5, <2>2 DEF Store, TypeOK
    <2> QED BY <2>1, <2>2
  <1> HIDE DEF h, o, rest
  <1>7. c \in Nat
    <2>1. Len(s.queue) \in Nat
      BY <1>2, LenProperties DEF PartitionState
    <2> QED BY <1>5, <2>1 DEF Claims1
  <1>8. QueuesShorter
    <2>1. SameQueues(part)
      BY <1>2 DEF SameQueues
    <2> HIDE DEF c
    <2> QED BY <1>0, <1>1, <1>2, <1>6, <1>7, <2>1, TakenShorter
  <1> HIDE DEF c
  <1>9. /\ worker' \in [Workers -> WorkerState] /\ worker'[w] = h
        /\ \A v \in Workers \ {w} : worker'[v] = worker[v]
    BY <1>1, <1>2, <1>3
  <1>10. \A q \in Partitions : (Known(q)' <=> Known(q)) /\ part'[q].claimed = part[q].claimed
    BY <1>1, <1>2, <1>6 DEF Known
  <1>11. \A v \in Workers : /\ Working(worker'[v]) <=> Working(worker[v])
                            /\ Working(worker[v]) => /\ worker'[v].p = worker[v].p
                                                     /\ worker'[v].born = worker[v].born
                                                     /\ worker'[v].epoch = worker[v].epoch
                            /\ worker'[v].pc = worker[v].pc
                            /\ worker'[v].entries # <<>> \/ worker'[v].entries = worker[v].entries
    <2> SUFFICES ASSUME NEW v \in Workers
                 PROVE  /\ Working(worker'[v]) <=> Working(worker[v])
                        /\ Working(worker[v]) => /\ worker'[v].p = worker[v].p
                                                 /\ worker'[v].born = worker[v].born
                                                 /\ worker'[v].epoch = worker[v].epoch
                        /\ worker'[v].pc = worker[v].pc
                        /\ worker'[v].entries # <<>> \/ worker'[v].entries = worker[v].entries
      OBVIOUS
    <2>1. CASE v = w
      BY <1>1, <1>3, <1>4, <1>9, <2>1 DEF Working
    <2>2. CASE v # w
      BY <1>9, <2>2
    <2> QED BY <2>1, <2>2
  <1>12. \A q \in Partitions : part'[q].born = part[q].born /\ part'[q].epoch = part[q].epoch
    BY <1>8 DEF QueuesShorter
  <1>13. Turns'
    <2> SUFFICES ASSUME NEW v \in Workers, Working(worker'[v])
                 PROVE  /\ worker'[v].p \in Partitions
                        /\ worker'[v].born <= part'[worker'[v].p].born
                        /\ worker'[v].epoch <= part'[worker'[v].p].epoch
                        /\ worker'[v].epoch = part'[worker'[v].p].epoch
                             => /\ Known(worker[v].p)'
                                /\ worker'[v].born = part'[worker'[v].p].born
                        /\ worker'[v].pc = "busy" => worker'[v].entries # <<>>
      BY DEF Turns
    <2>1. Known(worker[v].p)' <=> Known(worker[v].p)
      BY <1>1, <1>11 DEF Known
    <2> QED BY <1>0, <1>11, <1>12, <2>1 DEF Turns
  <1>14. Claims'
    <2>1. \A v \in Workers, q \in Partitions :
            Holds(worker'[v], q, part'[q]) <=> Holds(worker[v], q, part[q])
      BY <1>11, <1>12 DEF Holds
    <2> QED BY <1>0, <1>10, <2>1 DEF Claims
  <1>15. NoLostWakeup' /\ StopMeansStopped' /\ Halts'
    <2>1. ~Claimable(part'[p]) \/ Claimable(part[p])
      BY <1>2, <1>6 DEF Claimable, Claims1
    <2>2. \A q \in Partitions : Claimable(part'[q]) => Claimable(part[q])
      BY <1>2, <1>6, <2>1
    <2>3. NoLostWakeup'
      BY <1>1, <1>10, <1>11, <2>2 DEF Inv, NoLostWakeup, runVars
    <2>4. StopMeansStopped' /\ Halts'
      BY <1>1 DEF Inv, StopMeansStopped, Halts, runVars
    <2> QED BY <2>3, <2>4
  <1>16. QueuedTotalExact' /\ QueueIsCurrent' /\ Births'
    BY <1>8, ShorterTable
  <1>17. QueueBounded' /\ OneFetchAtATime' /\ Backpressure'
    BY <1>1, <1>8, KeptFetch DEF QueuesShorter, fetchVars
  <1>18. TypeOK'
    <2>1. done' \in [Partitions -> SUBSET Offsets]
      BY <1>0, <1>1, <1>2 DEF TypeOK
    <2> HIDE DEF p, s
    <2> QED BY <1>0, <1>1, <1>6, <1>8, <1>9, <2>1 DEF TypeOK, QueuesShorter, runVars, fetchVars
  <1> QED BY <1>13, <1>14, <1>15, <1>16, <1>17, <1>18 DEF Inv
LEMMA MessageOkInv ==
  ASSUME Inv, NEW w \in Workers, MessageOk(w)
  PROVE  Inv'
  <1> DEFINE p == worker[w].p
             s == part[p]
             o == StoredOffset(FirstEntry(w))
             more == running /\ worker[w].turn < MaxBatch /\ Current(s) # {}
  <1>1. CASE Live(w) /\ more
    BY <1>1, MessageOkMoreInv
  <1>2. CASE ~(Live(w) /\ more)
    <2>0. TypeOK /\ QueuedTotalExact /\ Turns
      BY DEF Inv
    <2>1. /\ worker[w].pc = "busy" /\ worker' = Releasing(w)
          /\ done' = [done EXCEPT ![p] = @ \union {FirstEntry(w)}]
          /\ \/ UNCHANGED <<part, stored, queuedTotal>>
             \/ Store(p, o, s) /\ UNCHANGED queuedTotal
          /\ UNCHANGED <<runVars, order, claimCursor, pendingSeeks, fetchVars, seeks,
                    rebalance, assigned, rdPaused, pos, seeking, committed, left, excused>>
      BY <1>2 DEF MessageOk
    <2>2. p \in Partitions /\ FirstEntry(w) \in Offsets /\ o \in Nat
      BY <2>0, <2>1, EntriesAre
    <2>3. /\ TurnsKept /\ worker' \in [Workers -> WorkerState]
          /\ \A v \in Workers : worker'[v].pc = "waiting" => worker[v].pc = "waiting"
          /\ \A v \in Workers : worker[v].pc = "off" => worker'[v].pc = "off"
      BY <2>0, <2>1, ReleasingIs
    <2>4. PartsKept /\ NobodyOversleeps /\ stored' \in [Partitions -> Nat \union {-1}]
      <3>1. CASE Store(p, o, s) /\ UNCHANGED queuedTotal
        <4>1. /\ PartsKept /\ stored' \in [Partitions -> Nat \union {-1}]
              /\ \E t : /\ part' = [part EXCEPT ![p] = t] /\ Keeps(part[p], t)
                        /\ t.queue = part[p].queue /\ t.paused = part[p].paused
          BY <2>0, <2>1, <2>2, <3>1, StoreKeeps
        <4>2. NobodyOversleeps
          BY <2>0, <2>2, <2>3, <4>1, OneCalmer
        <4> QED BY <4>1, <4>2
      <3>2. CASE UNCHANGED <<part, stored, queuedTotal>>
        BY <2>0, <2>1, <2>3, <3>2, NothingKept DEF NobodyOversleeps, TypeOK
      <3> QED BY <2>1, <3>1, <3>2
    <2>5. done' \in [Partitions -> SUBSET Offsets]
      BY <2>0, <2>1, <2>2 DEF TypeOK
    <2> HIDE DEF p, s, o
    <2>6. TypeOK'
      BY <2>0, <2>1, <2>3, <2>4, <2>5 DEF TypeOK, PartsKept, runVars, fetchVars
    <2>7. KeptStep /\ RunKept /\ UNCHANGED fetchVars
      BY <2>1, <2>3, <2>4 DEF KeptStep, RunKept, runVars
    <2> QED BY <2>6, <2>7, KeptInv
  <1> QED BY <1>1, <1>2

(* A worker reaches the top of its loop: ps and ws are the state objects   *)
(* and the workers it finds there, its own claim given up.                 *)
LEMMA LoopInv ==
  ASSUME Inv, NEW w \in Workers, worker[w].pc # "off",
         NEW ps, SameQueues(ps),
         \A q \in Partitions : Known(q) =>
           (ps[q].claimed <=> \E v \in Workers \ {w} : Holds(worker[v], q, part[q])),
         NEW ws \in [Workers -> WorkerState],
         \A v \in Workers \ {w} : /\ Working(ws[v]) <=> Working(worker[v])
                                  /\ Working(worker[v]) => ws[v] = worker[v],
         \/ ws = worker /\ ps = part
         \/ \A v \in Workers : ws[v].pc # "waiting",
         LoopTop(w, ps, ws), UNCHANGED <<runVars, order>>
  PROVE  /\ QueuesShorter /\ worker' \in [Workers -> WorkerState] /\ claimCursor' \in Nat
         /\ Turns' /\ Claims' /\ NoLostWakeup' /\ StopMeansStopped' /\ Halts'
  <1>0. /\ TypeOK /\ QueuedTotalExact /\ QueueIsCurrent /\ Births /\ Turns /\ Claims
        /\ NoLostWakeup /\ StopMeansStopped
    BY DEF Inv
  <1>1. \A q \in Partitions : Pure(ps[q])
    BY <1>0 DEF SameQueues, QueueIsCurrent, Pure
  <1>2. ps \in [Partitions -> PartitionState]
    BY DEF SameQueues
  <1>3. LoopLeaves(w, ps, ws) \/ LoopWaits(w, ps, ws) \/ LoopClaims(w, ps, ws)
    BY <1>0, <1>1, <1>2, LoopTopIs DEF TypeOK
  <1>4. \A q \in Partitions : Known(q)' <=> Known(q)
    BY DEF Known
  <1>5. StopMeansStopped' /\ Halts'
    BY <1>0 DEF Inv, StopMeansStopped, Halts, runVars
  (* A worker that is not w works as before. *)
  <1>6. \A v \in Workers \ {w}, q \in Partitions :
          \A s : Holds(ws[v], q, s) <=> Holds(worker[v], q, s)
    BY DEF Holds
  <1>7. ASSUME NEW idle \in WorkerState, ~Working(idle), worker' = [ws EXCEPT ![w] = idle],
               part' = ps, claimCursor' = claimCursor, queuedTotal' = queuedTotal
        PROVE  /\ QueuesShorter /\ worker' \in [Workers -> WorkerState] /\ claimCursor' \in Nat
               /\ Turns' /\ Claims'
    <2>1. QueuesShorter
      BY <1>0, <1>7, SameQueuesShorter
    <2>2. /\ worker' \in [Workers -> WorkerState] /\ worker'[w] = idle
          /\ \A v \in Workers \ {w} : worker'[v] = ws[v]
      BY <1>7
    <2>3. \A q \in Partitions : part'[q].born = part[q].born /\ part'[q].epoch = part[q].epoch
      BY <2>1 DEF QueuesShorter
    <2>4. Turns'
      <3> SUFFICES ASSUME NEW v \in Workers, Working(worker'[v])
                   PROVE  /\ worker'[v].p \in Partitions
                          /\ worker'[v].born <= part'[worker'[v].p].born
                          /\ worker'[v].epoch <= part'[worker'[v].p].epoch
                          /\ worker'[v].epoch = part'[worker'[v].p].epoch
                               => /\ Known(worker[v].p)'
                                  /\ worker'[v].born = part'[worker'[v].p].born
                          /\ worker'[v].pc = "busy" => worker'[v].entries # <<>>
        <4>1. \A v \in Workers : Working(worker'[v]) => worker'[v].p = worker[v].p
          BY <1>7, <2>2
        <4> QED BY <4>1 DEF Turns
      <3>1. v # w /\ worker'[v] = worker[v] /\ Working(worker[v])
        BY <1>7, <2>2
      <3>2. Known(worker[v].p)' <=> Known(worker[v].p)
        BY <3>1 DEF Known
      <3> QED BY <1>0, <2>3, <3>1, <3>2 DEF Turns
    <2>5. Claims'
      <3> SUFFICES ASSUME NEW q \in Partitions, Known(q)
                   PROVE  /\ \A u, v \in Workers : Holds(worker'[u], q, part'[q])
                               /\ Holds(worker'[v], q, part'[q]) => u = v
                          /\ part'[q].claimed <=> \E v \in Workers : Holds(worker'[v], q, part'[q])
        BY <1>4 DEF Claims
      <3>1. ~Holds(worker'[w], q, part'[q])
        BY <1>7, <2>2 DEF Holds
      <3>2. \A v \in Workers \ {w} : Holds(worker'[v], q, part'[q]) <=> Holds(worker[v], q, part[q])
        BY <1>6, <2>2, <2>3 DEF Holds
      <3> QED BY <1>0, <1>7, <3>1, <3>2 DEF Claims
    <2> QED BY <1>0, <1>7, <2>1, <2>2, <2>4, <2>5 DEF TypeOK
  <1>8. CASE LoopLeaves(w, ps, ws)
    <2>1. Idle("off") \in WorkerState /\ ~Working(Idle("off"))
      BY IdleType
    <2>2. /\ QueuesShorter /\ worker' \in [Workers -> WorkerState] /\ claimCursor' \in Nat
          /\ Turns' /\ Claims'
      BY <1>7, <1>8, <2>1 DEF LoopLeaves
    <2>3. NoLostWakeup'
      BY <1>8 DEF LoopLeaves, NoLostWakeup, runVars
    <2> QED BY <1>5, <2>2, <2>3
  <1>9. CASE LoopWaits(w, ps, ws)
    <2>1. Idle("waiting") \in WorkerState /\ ~Working(Idle("waiting"))
      BY IdleType
    <2>2. /\ QueuesShorter /\ worker' \in [Workers -> WorkerState] /\ claimCursor' \in Nat
          /\ Turns' /\ Claims'
      BY <1>7, <1>9, <2>1 DEF LoopWaits
    <2>3. NoLostWakeup'
      BY <1>4, <1>9 DEF LoopWaits, NoLostWakeup
    <2> QED BY <1>5, <2>2, <2>3
  <1>10. CASE LoopClaims(w, ps, ws)
    <2>1. PICK p \in Partitions, h \in WorkerState, t \in PartitionState, c \in Nat :
            /\ Known(p) /\ Claimable(ps[p])
            /\ h.pc = "busy" /\ h.p = p /\ h.born = ps[p].born /\ h.epoch = ps[p].epoch
            /\ h.entries # <<>>
            /\ Claims1(ps[p], t, c) /\ t.claimed
            /\ worker' = [ws EXCEPT ![w] = h] /\ part' = [ps EXCEPT ![p] = t]
            /\ claimCursor' \in Nat /\ queuedTotal' = queuedTotal - c
      BY <1>10 DEF LoopClaims
    <2>2. QueuesShorter
      BY <1>0, <2>1, TakenShorter
    <2>3. /\ worker' \in [Workers -> WorkerState] /\ worker'[w] = h
          /\ \A v \in Workers \ {w} : worker'[v] = ws[v]
      BY <2>1
    <2>4. \A q \in Partitions : part'[q].born = part[q].born /\ part'[q].epoch = part[q].epoch
      BY <2>2 DEF QueuesShorter
    <2>5. h.born = part[p].born /\ h.epoch = part[p].epoch
      BY <2>1 DEF SameQueues
    <2>6. Turns'
      <3> SUFFICES ASSUME NEW v \in Workers, NEW q, q = worker'[v].p, Working(worker'[v])
                   PROVE  /\ q \in Partitions
                          /\ worker'[v].born <= part'[q].born
                          /\ worker'[v].epoch <= part'[q].epoch
                          /\ worker'[v].epoch = part'[q].epoch
                               => /\ \E i \in 1..Len(order) : order[i] = q
                                  /\ worker'[v].born = part'[q].born
                          /\ worker'[v].pc = "busy" => worker'[v].entries # <<>>
        BY DEF Turns, Known
      <3>1. CASE v = w
        <4>1. q = p /\ worker'[v] = h
          BY <2>1, <2>3, <3>1
        <4>2. part[p].born \in Nat /\ part[p].epoch \in Nat
          BY <1>0 DEF TypeOK, PartitionState
        <4> QED BY <2>1, <2>4, <2>5, <4>1, <4>2 DEF Known
      <3>2. CASE v # w
        <4>1. worker'[v] = worker[v] /\ Working(worker[v])
          BY <2>3, <3>2
        <4> QED BY <1>0, <2>4, <4>1 DEF Turns, Known
      <3> QED BY <3>1, <3>2
    <2>7. Claims'
      <3> SUFFICES ASSUME NEW q \in Partitions, Known(q)
                   PROVE  /\ \A u, v \in Workers : Holds(worker'[u], q, part'[q])
                               /\ Holds(worker'[v], q, part'[q]) => u = v
                          /\ part'[q].claimed <=> \E v \in Workers : Holds(worker'[v], q, part'[q])
        BY <1>4 DEF Claims
      <3>1. \A v \in Workers \ {w} : Holds(worker'[v], q, part'[q]) <=> Holds(worker[v], q, part[q])
        BY <1>6, <2>3, <2>4 DEF Holds
      <3>2. CASE q = p
        <4>1. \A v \in Workers \ {w} : ~Holds(worker[v], q, part[q])
          BY <2>1, <3>2 DEF Claimable
        <4>2. Holds(worker'[w], q, part'[q])
          BY <2>1, <2>3, <2>4, <2>5, <3>2 DEF Holds, Working
        <4>3. part'[q].claimed
          BY <1>2, <2>1, <3>2
        <4> QED BY <3>1, <4>1, <4>2, <4>3
      <3>3. CASE q # p
        <4>1. ~Holds(worker'[w], q, part'[q])
          BY <2>1, <2>3, <3>3 DEF Holds
        <4>2. part'[q].claimed = ps[q].claimed
          BY <1>2, <2>1, <3>3
        <4> QED BY <1>0, <3>1, <4>1, <4>2 DEF Claims
      <3> QED BY <3>2, <3>3
    <2>8. NoLostWakeup'
      <3>1. \A v \in Workers : worker'[v].pc # "waiting"
        <4>1. CASE \A v \in Workers : ws[v].pc # "waiting"
          BY <2>1, <2>3, <4>1
        <4>2. CASE ws = worker /\ ps = part
          <5>1. \A v \in Workers : worker[v].pc # "waiting"
            BY <1>0, <1>10, <2>1, <4>2 DEF NoLostWakeup, LoopClaims
          <5> QED BY <2>1, <2>3, <4>2, <5>1
        <4> QED BY <4>1, <4>2
      <3> QED BY <3>1 DEF NoLostWakeup
    <2> QED BY <1>5, <2>1, <2>2, <2>3, <2>6, <2>7, <2>8
  <1> QED BY <1>3, <1>8, <1>9, <1>10
LEMMA WakeupInv ==
  ASSUME Inv, NEW w \in Workers, Wakeup(w)
  PROVE  Inv'
  <1>0. /\ TypeOK /\ Claims /\ worker \in [Workers -> WorkerState]
        /\ part \in [Partitions -> PartitionState]
    BY DEF Inv, TypeOK
  <1>1. /\ worker[w].pc = "ready" /\ LoopTop(w, part, worker)
        /\ UNCHANGED <<runVars, order, pendingSeeks, fetchVars, seeks, rebalance, rdVars, history>>
    BY DEF Wakeup
  <1>2. ~Working(worker[w]) /\ worker[w].pc # "off"
    BY <1>1 DEF Working
  <1>3. SameQueues(part)
    BY <1>0 DEF SameQueues
  <1>4. \A q \in Partitions : Known(q) =>
          (part[q].claimed <=> \E v \in Workers \ {w} : Holds(worker[v], q, part[q]))
    BY <1>0, <1>2 DEF Claims, Holds
  <1>5. /\ QueuesShorter /\ worker' \in [Workers -> WorkerState] /\ claimCursor' \in Nat
        /\ Turns' /\ Claims' /\ NoLostWakeup' /\ StopMeansStopped' /\ Halts'
    BY <1>0, <1>1, <1>2, <1>3, <1>4, LoopInv
  <1>6. QueuedTotalExact' /\ QueueIsCurrent' /\ Births'
    BY <1>5, ShorterTable
  <1>7. QueueBounded' /\ OneFetchAtATime' /\ Backpressure'
    BY <1>1, <1>5, KeptFetch DEF QueuesShorter, fetchVars
  <1>8. TypeOK'
    BY <1>0, <1>1, <1>5 DEF TypeOK, QueuesShorter, runVars, fetchVars, rdVars, history
  <1> QED BY <1>5, <1>6, <1>7, <1>8 DEF Inv

(* Worker w has given up its claim, and no other worker has.               *)
LEMMA UnclaimedIs ==
  ASSUME TypeOK, Claims, NEW w \in Workers, worker[w].pc = "release",
         NEW ps, ps = Unclaimed(w)
  PROVE  /\ SameQueues(ps)
         /\ \A q \in Partitions : Known(q) =>
              (ps[q].claimed <=> \E v \in Workers \ {w} : Holds(worker[v], q, part[q]))
  <1>0. part \in [Partitions -> PartitionState]
    BY DEF TypeOK
  <1>2. Working(worker[w])
    BY DEF Working
  <1>3. /\ SameQueues(ps)
        /\ \A q \in Partitions :
             ps[q].claimed = (part[q].claimed /\ ~Holds(worker[w], q, part[q]))
    <2>1. ASSUME NEW q \in Partitions
          PROVE  /\ ps[q] \in PartitionState
                 /\ ps[q].born = part[q].born /\ ps[q].epoch = part[q].epoch
                 /\ ps[q].queue = part[q].queue /\ ps[q].paused = part[q].paused
                 /\ ps[q].claimed = (part[q].claimed /\ ~Holds(worker[w], q, part[q]))
      <3>1. part[q] \in PartitionState /\ part[q].claimed \in BOOLEAN
        BY <1>0 DEF PartitionState
      <3>2. CASE q = worker[w].p /\ part[q].born = worker[w].born
        <4>1. ps[q] = [part[q] EXCEPT !.claimed = FALSE]
          BY <3>2 DEF Unclaimed
        <4>2. Holds(worker[w], q, part[q])
          BY <1>2, <3>2 DEF Holds
        <4>3. /\ ps[q] \in PartitionState /\ ps[q].born = part[q].born
              /\ ps[q].epoch = part[q].epoch /\ ps[q].queue = part[q].queue
              /\ ps[q].paused = part[q].paused /\ ps[q].claimed = FALSE
          BY <3>1, <4>1 DEF PartitionState
        <4> QED BY <4>2, <4>3
      <3>3. CASE ~ (q = worker[w].p /\ part[q].born = worker[w].born)
        <4>1. ps[q] = part[q]
          BY <3>3 DEF Unclaimed
        <4>2. ~Holds(worker[w], q, part[q])
          BY <3>3 DEF Holds
        <4> QED BY <3>1, <4>1, <4>2
      <3> QED BY <3>2, <3>3
    <2>2. ps = [q \in Partitions |-> ps[q]]
      BY DEF Unclaimed
    <2>3. ps \in [Partitions -> PartitionState]
      BY <2>1, <2>2
    <2> QED BY <2>1, <2>3 DEF SameQueues
  <1>4. \A q \in Partitions : Known(q) =>
          (ps[q].claimed <=> \E v \in Workers \ {w} : Holds(worker[v], q, part[q]))
    <2> SUFFICES ASSUME NEW q \in Partitions, Known(q)
                 PROVE  ps[q].claimed <=> \E v \in Workers \ {w} : Holds(worker[v], q, part[q])
      OBVIOUS
    <2>1. /\ \A u, v \in Workers :
               Holds(worker[u], q, part[q]) /\ Holds(worker[v], q, part[q]) => u = v
          /\ part[q].claimed <=> \E v \in Workers : Holds(worker[v], q, part[q])
      BY DEF Claims
    <2>2. ps[q].claimed <=> part[q].claimed /\ ~Holds(worker[w], q, part[q])
      BY <1>3
    <2> QED BY <2>1, <2>2
  <1> QED BY <1>3, <1>4

LEMMA ReleaseInv ==
  ASSUME Inv, NEW w \in Workers, Release(w)
  PROVE  Inv'
  <1> DEFINE ps == Unclaimed(w)
  <1>0. /\ TypeOK /\ Claims /\ Turns /\ worker \in [Workers -> WorkerState]
        /\ part \in [Partitions -> PartitionState]
    BY DEF Inv, TypeOK
  <1>1. /\ worker[w].pc = "release" /\ MaybeResumePump
        /\ LoopTop(w, ps, Signalled(worker))
        /\ UNCHANGED <<runVars, order, pendingSeeks, answer, buffer, seeks, rebalance,
                       rdVars, history>>
    BY DEF Release
  <1>2. Working(worker[w]) /\ worker[w].pc # "off"
    BY <1>1 DEF Working
  <1>3. /\ SameQueues(ps)
        /\ \A q \in Partitions : Known(q) =>
             (ps[q].claimed <=> \E v \in Workers \ {w} : Holds(worker[v], q, part[q]))
    BY <1>0, <1>1, UnclaimedIs
  <1> HIDE DEF ps
  <1> DEFINE ws == Signalled(worker)
  <1>5. /\ ws \in [Workers -> WorkerState]
        /\ \A v \in Workers : ws[v].pc # "waiting"
        /\ \A v \in Workers : /\ Working(ws[v]) <=> Working(worker[v])
                              /\ Working(worker[v]) => ws[v] = worker[v]
    BY <1>0, SignalledType
  <1>6. LoopTop(w, ps, ws) /\ UNCHANGED <<runVars, order>>
    BY <1>1
  <1> HIDE DEF ws
  <1>7. /\ QueuesShorter /\ worker' \in [Workers -> WorkerState] /\ claimCursor' \in Nat
        /\ Turns' /\ Claims' /\ NoLostWakeup' /\ StopMeansStopped' /\ Halts'
    BY <1>2, <1>3, <1>5, <1>6, LoopInv
  <1>8. QueuedTotalExact' /\ QueueIsCurrent' /\ Births'
    BY <1>7, ShorterTable
  <1>9. /\ QueueBounded' /\ OneFetchAtATime' /\ Backpressure'
        /\ pumpActive' \in BOOLEAN /\ request' \in Nat
    <2>1. /\ pumpActive \in BOOLEAN /\ request \in Nat /\ runEpoch \in Nat
          /\ queuedTotal \in Nat /\ queuedTotal' \in Nat /\ queuedTotal' <= queuedTotal
          /\ MaxQueued \in Nat /\ FetchChunk \in Nat /\ queuedTotal < MaxQueued + FetchChunk
          /\ pumpActive => queuedTotal < MaxQueued
          /\ pumpActive <=> (request # 0 \/ answer # None)
          /\ request = 0 \/ answer = None
          /\ answer # None => Len(answer.batch) <= FetchChunk
          /\ running => runEpoch > 0
      BY <1>0, <1>7, ConstantsAssumption
         DEF Inv, TypeOK, QueuesShorter, QueueBounded, OneFetchAtATime, Backpressure, Halts
    <2>2. \/ /\ running /\ ~pumpActive /\ queuedTotal < MaxQueued
             /\ pumpActive' = TRUE /\ request' = runEpoch
          \/ pumpActive' = pumpActive /\ request' = request
      BY <1>1 DEF MaybeResumePump, Pump
    <2>3. answer' = answer
      BY <1>1
    <2>4. QueueBounded'
      BY <2>1 DEF QueueBounded
    <2>5. CASE /\ running /\ ~pumpActive /\ queuedTotal < MaxQueued
               /\ pumpActive' = TRUE /\ request' = runEpoch
      <3>1. answer' = None /\ request' # 0 /\ queuedTotal' < MaxQueued
        BY <2>1, <2>3, <2>5
      <3>2. OneFetchAtATime' /\ Backpressure'
        BY <2>5, <3>1 DEF OneFetchAtATime, Backpressure
      <3> QED BY <2>1, <2>4, <2>5, <3>2
    <2>6. CASE pumpActive' = pumpActive /\ request' = request
      <3>1. OneFetchAtATime'
        BY <2>1, <2>3, <2>6 DEF OneFetchAtATime
      <3>2. Backpressure'
        BY <2>1, <2>3, <2>6 DEF Backpressure
      <3> QED BY <2>1, <2>4, <2>6, <3>1, <3>2
    <2> QED BY <2>2, <2>5, <2>6
  <1>10. TypeOK'
    BY <1>0, <1>1, <1>7, <1>9 DEF TypeOK, QueuesShorter, runVars, rdVars, history
  <1> QED BY <1>7, <1>8, <1>9, <1>10 DEF Inv
-----------------------------------------------------------------------------
(* Rebalances.                                                             *)

LEMMA KnownIs ==
  ASSUME order \in Seq(Partitions), NEW p
  PROVE  Known(p) <=> p \in ToSet(order)
  <1>1. DOMAIN order = 1..Len(order)
    BY LenProperties
  <1> QED BY <1>1 DEF Known, ToSet

LEMMA NextKnownIs ==
  ASSUME order' \in Seq(Partitions), NEW p
  PROVE  Known(p)' <=> p \in ToSet(order')
  <1>1. DOMAIN order' = 1..Len(order')
    BY LenProperties
  <1> QED BY <1>1 DEF Known, ToSet

LEMMA ForgetKnows ==
  ASSUME TypeOK, NEW S, ForgetPartitions(S)
  PROVE  /\ order' \in Seq(Partitions)
         /\ \A p \in Partitions : Known(p)' <=> Known(p) /\ p \notin S
  <1>1. /\ order \in Seq(Partitions)
        /\ order' = At(order, {i \in 1..Len(order) : order[i] \notin S})
    BY DEF TypeOK, ForgetPartitions
  <1>2. order' \in Seq(Partitions)
    <2>1. {i \in 1..Len(order) : order[i] \notin S} \subseteq 1..Len(order)
      OBVIOUS
    <2> QED BY <1>1, <2>1, AtSelects
  <1>3. ToSet(order') = ToSet(order) \ S
    BY <1>1, AtFilters, Zenon
  <1> QED BY <1>1, <1>2, <1>3, KnownIs, NextKnownIs

LEMMA ForgetTable ==
  ASSUME Inv, NEW S, S \subseteq Partitions, ForgetPartitions(S), worker' = worker,
         UNCHANGED <<running, runEpoch, halting>>
  PROVE  /\ part' \in [Partitions -> PartitionState] /\ order' \in Seq(Partitions)
         /\ queuedTotal' \in Nat /\ queuedTotal' <= queuedTotal
         /\ QueuedTotalExact' /\ QueueIsCurrent' /\ Births' /\ Turns' /\ Claims'
         /\ NoLostWakeup' /\ StopMeansStopped' /\ Halts'
  <1> DEFINE T == {p \in S : Known(p)}
  <1>0. /\ TypeOK /\ QueuedTotalExact /\ QueueIsCurrent /\ Births /\ Turns /\ Claims
        /\ NoLostWakeup /\ StopMeansStopped
    BY DEF Inv
  <1>1. /\ part' = [p \in Partitions |-> IF p \in S /\ Known(p) THEN Bumped(part[p]) ELSE part[p]]
        /\ queuedTotal' = queuedTotal - Cardinality(Queued(T))
    BY DEF ForgetPartitions, Forgotten
  <1>2. /\ order' \in Seq(Partitions)
        /\ \A p \in Partitions : Known(p)' <=> Known(p) /\ p \notin S
    BY <1>0, ForgetKnows
  <1>3. \A p \in Partitions :
          /\ part[p] \in PartitionState /\ part'[p] \in PartitionState
          /\ part[p].born \in Nat /\ part[p].epoch \in Nat
          /\ part'[p].born = part[p].born
          /\ p \in T => part'[p].epoch = part[p].epoch + 1 /\ part'[p].queue = <<>>
          /\ p \notin T => part'[p] = part[p]
    <2> SUFFICES ASSUME NEW p \in Partitions
                 PROVE  /\ part[p] \in PartitionState /\ part'[p] \in PartitionState
                        /\ part[p].born \in Nat /\ part[p].epoch \in Nat
                        /\ part'[p].born = part[p].born
                        /\ p \in T => part'[p].epoch = part[p].epoch + 1 /\ part'[p].queue = <<>>
                        /\ p \notin T => part'[p] = part[p]
      OBVIOUS
    <2>1. part[p] \in PartitionState
      BY <1>0 DEF TypeOK
    <2>2. part[p].born \in Nat /\ part[p].epoch \in Nat
      BY <2>1 DEF PartitionState
    <2>3. CASE p \in T
      <3>1. part'[p] = Bumped(part[p])
        BY <1>1, <2>3
      <3>2. /\ Keeps(part[p], Bumped(part[p])) /\ Bumped(part[p]).queue = <<>>
            /\ Bumped(part[p]).epoch = part[p].epoch + 1
        BY <2>1, BumpedKeeps
      <3> QED BY <2>1, <2>2, <2>3, <3>1, <3>2 DEF Keeps
    <2>4. CASE p \notin T
      <3>1. part'[p] = part[p]
        BY <1>1, <2>4
      <3> QED BY <2>1, <2>2, <2>4, <3>1
    <2> QED BY <2>3, <2>4
  <1>4. part' \in [Partitions -> PartitionState]
    BY <1>1, <1>3
  <1>5. QueuedTotalExact' /\ queuedTotal' \in Nat /\ queuedTotal' <= queuedTotal
    <2>1. part \in [Partitions -> PartitionState] /\ queuedTotal = Cardinality(Slots(part, Partitions))
      BY <1>0, TotalIs DEF TypeOK
    <2>2. /\ T \subseteq Partitions
          /\ \A p \in T : part'[p].queue = <<>>
          /\ \A p \in Partitions \ T : Len(part'[p].queue) = Len(part[p].queue)
      BY <1>3
    <2> HIDE DEF T
    <2>3. /\ Cardinality(Slots(part', Partitions))
               = Cardinality(Slots(part, Partitions)) - Cardinality(Slots(part, T))
          /\ Cardinality(Slots(part', Partitions)) \in Nat
          /\ Cardinality(Slots(part', Partitions)) <= Cardinality(Slots(part, Partitions))
      BY <1>4, <2>1, <2>2, SlotsDropped
    <2>4. Queued(T) = Slots(part, T)
      BY DEF Queued, Slots
    <2> QED BY <1>1, <2>1, <2>3, <2>4, NextTotalIs
  <1>6. QueueIsCurrent'
    <2> SUFFICES ASSUME NEW p \in Partitions, NEW i \in 1..Len(part'[p].queue)
                 PROVE  part'[p].queue[i].epoch = part'[p].epoch
      BY DEF QueueIsCurrent
    <2>1. p \notin T
      BY <1>3, EmptySeq
    <2> QED BY <1>0, <1>3, <2>1 DEF QueueIsCurrent
  <1>7. Births'
    <2> SUFFICES ASSUME NEW p \in Partitions
                 PROVE  /\ part'[p].born <= part'[p].epoch
                        /\ ~Known(p)' => part'[p].born < part'[p].epoch /\ part'[p].queue = <<>>
      BY DEF Births
    <2>1. /\ part[p].born <= part[p].epoch
          /\ ~Known(p) => part[p].born < part[p].epoch /\ part[p].queue = <<>>
      BY <1>0 DEF Births
    <2>2. CASE p \in T
      BY <1>3, <2>1, <2>2
    <2>3. CASE p \notin T
      BY <1>2, <1>3, <2>1, <2>3
    <2> QED BY <2>2, <2>3
  <1>8. Turns'
    <2> SUFFICES ASSUME NEW w \in Workers, NEW p, p = worker[w].p, Working(worker[w])
                 PROVE  /\ p \in Partitions
                        /\ worker[w].born <= part'[p].born
                        /\ worker[w].epoch <= part'[p].epoch
                        /\ worker[w].epoch = part'[p].epoch
                             => /\ \E i \in 1..Len(order') : order'[i] = p
                                /\ worker[w].born = part'[p].born
                        /\ worker[w].pc = "busy" => worker[w].entries # <<>>
      BY DEF Turns, Known
    <2>1. /\ p \in Partitions /\ worker[w].born <= part[p].born
          /\ worker[w].epoch <= part[p].epoch
          /\ worker[w].epoch = part[p].epoch => Known(p) /\ worker[w].born = part[p].born
          /\ worker[w].pc = "busy" => worker[w].entries # <<>>
      BY <1>0 DEF Turns
    <2>2. worker[w].epoch \in Nat
      BY <1>0 DEF TypeOK, WorkerState
    <2>3. Known(p)' <=> \E i \in 1..Len(order') : order'[i] = p
      BY DEF Known
    <2>4. CASE p \in T
      BY <1>3, <2>1, <2>2, <2>4
    <2>5. CASE p \notin T
      BY <1>2, <1>3, <2>1, <2>3, <2>5
    <2> QED BY <2>4, <2>5
  <1>9. Claims'
    <2> SUFFICES ASSUME NEW p \in Partitions, Known(p)'
                 PROVE  /\ \A v, w \in Workers : Holds(worker'[v], p, part'[p])
                             /\ Holds(worker'[w], p, part'[p]) => v = w
                        /\ part'[p].claimed <=> \E w \in Workers : Holds(worker'[w], p, part'[p])
      BY DEF Claims
    <2>1. Known(p) /\ part'[p] = part[p]
      BY <1>2, <1>3
    <2> QED BY <1>0, <2>1 DEF Claims
  <1>10. NoLostWakeup'
    <2>1. \A p \in Partitions : Known(p)' => Known(p) /\ part'[p] = part[p]
      BY <1>2, <1>3
    <2> QED BY <1>0, <2>1 DEF NoLostWakeup
  <1>11. StopMeansStopped' /\ Halts'
    <2>1. \A p \in Partitions : part[p].queue = <<>> => part'[p].queue = <<>>
      BY <1>3
    <2> QED BY <1>0, <2>1 DEF Inv, StopMeansStopped, Halts
  <1> QED BY <1>2, <1>4, <1>5, <1>6, <1>7, <1>8, <1>9, <1>10, <1>11

LEMMA RevokeEventInv ==
  ASSUME Inv, RevokeEvent
  PROVE  Inv'
  <1>0. TypeOK
    BY DEF Inv
  <1>1. PICK S \in SUBSET assigned \ {{}} :
          /\ Spend("rebalance") /\ ForgetPartitions(S)
          /\ rebalance' = [assign |-> FALSE, parts |-> S]
          /\ UNCHANGED <<runVars, claimCursor, pendingSeeks, fetchVars, worker, seeks,
                         rdVars, done, excused>>
    BY DEF RevokeEvent
  <1>2. S \subseteq Partitions
    BY <1>0 DEF TypeOK
  <1>3. /\ part' \in [Partitions -> PartitionState] /\ order' \in Seq(Partitions)
        /\ queuedTotal' \in Nat /\ queuedTotal' <= queuedTotal
        /\ QueuedTotalExact' /\ QueueIsCurrent' /\ Births' /\ Turns' /\ Claims'
        /\ NoLostWakeup' /\ StopMeansStopped' /\ Halts'
    BY <1>1, <1>2, ForgetTable DEF runVars
  <1>4. QueueBounded' /\ OneFetchAtATime' /\ Backpressure'
    BY <1>1, <1>3, KeptFetch DEF fetchVars
  <1>5. left' \in [Events -> Nat]
    BY <1>0, <1>1, SpentType DEF Events
  <1>6. rebalance' \in [assign : BOOLEAN, parts : SUBSET Partitions]
    BY <1>1, <1>2
  <1>7. TypeOK'
    BY <1>0, <1>1, <1>3, <1>5, <1>6 DEF TypeOK, runVars, fetchVars, rdVars
  <1> QED BY <1>3, <1>4, <1>7 DEF Inv
(* A new state object for a key that has none, or the one it has.          *)
LEMMA EnsuredIs ==
  ASSUME TypeOK, NEW p \in Partitions
  PROVE  /\ Ensured(p) \in PartitionState
         /\ Known(p) => Ensured(p) = part[p]
         /\ ~Known(p) => /\ Ensured(p).born = part[p].epoch
                         /\ Ensured(p).claimed = FALSE /\ Ensured(p).queue = <<>>
         /\ Ensured(p).epoch = part[p].epoch
  <1>1. part[p] \in PartitionState /\ part[p].epoch \in Nat
    BY DEF TypeOK, PartitionState
  <1>2. <<>> \in Seq(Entry)
    BY EmptySeq
  <1>3. /\ FreshPart(part[p]).born = part[p].epoch /\ FreshPart(part[p]).epoch = part[p].epoch
        /\ FreshPart(part[p]).claimed = FALSE /\ FreshPart(part[p]).queue = <<>>
    BY DEF FreshPart
  <1>4. FreshPart(part[p]) \in PartitionState
    BY <1>1, <1>2 DEF FreshPart, PartitionState
  <1> QED BY <1>1, <1>3, <1>4 DEF Ensured

LEMMA NewKeys ==
  ASSUME order \in Seq(Partitions), NEW N, N \subseteq Partitions,
         order' = order \o SetToSeq(N)
  PROVE  /\ order' \in Seq(Partitions)
         /\ \A p \in Partitions : Known(p)' <=> Known(p) \/ p \in N
  <1> DEFINE l == SetToSeq(N)
             m == Len(order)
             n == Len(l)
  <1>1. IsFiniteSet(N)
    <2>1. IsFiniteSet(Partitions) /\ N \in SUBSET Partitions
      BY ConstantsAssumption
    <2> QED BY <2>1, FS_Subset
  <1>2. l \in Seq(N) /\ \A x \in N : \E i \in 1..n : l[i] = x
    BY <1>1, SetToSeqLists
  <1>3. l \in Seq(Partitions)
    BY <1>2, SeqMonotonic
  <1>4. m \in Nat /\ n \in Nat
    BY <1>3, LenProperties
  <1>5. \A i \in 1..n : l[i] \in N
    BY <1>2, ElementOfSeq
  <1> HIDE DEF l
  <1>6. order' = order \o l
    BY DEF l
  <1>7. /\ order' \in Seq(Partitions) /\ Len(order') = m + n
        /\ \A i \in 1..m : order'[i] = order[i]
        /\ \A i \in 1..n : order'[m + i] = l[i]
    BY <1>3, <1>4, <1>6, ConcatProperties
  <1> HIDE DEF m, n
  <1>8. ASSUME NEW p \in Partitions PROVE Known(p)' <=> Known(p) \/ p \in N
    <2>1. Known(p)' <=> \E i \in 1..m + n : order'[i] = p
      BY <1>7 DEF Known
    <2>2. Known(p) <=> \E i \in 1..m : order[i] = p
      BY DEF Known, m
    <2>3. ASSUME Known(p)', ~Known(p) PROVE p \in N
      <3>1. PICK i \in 1..m + n : order'[i] = p
        BY <2>1, <2>3
      <3>2. i \notin 1..m
        BY <1>7, <2>2, <2>3, <3>1
      <3>3. i - m \in 1..n /\ i = m + (i - m)
        BY <1>4, <3>1, <3>2
      <3>4. l[i - m] = p
        BY <1>7, <3>1, <3>3
      <3> QED BY <1>5, <3>3, <3>4
    <2>4. ASSUME Known(p) PROVE Known(p)'
      <3>1. PICK i \in 1..m : order[i] = p
        BY <2>2, <2>4
      <3>2. i \in 1..m + n /\ order'[i] = p
        BY <1>4, <1>7, <3>1
      <3> QED BY <2>1, <3>2
    <2>5. ASSUME p \in N PROVE Known(p)'
      <3>1. PICK i \in 1..n : l[i] = p
        BY <1>2, <2>5 DEF n
      <3>2. m + i \in 1..m + n /\ order'[m + i] = p
        BY <1>4, <1>7, <3>1
      <3> QED BY <2>1, <3>2
    <2> QED BY <2>3, <2>4, <2>5
  <1> QED BY <1>7, <1>8

(* State objects are made for the keys N: nobody has claimed one of them.  *)
LEMMA CreatedTable ==
  ASSUME Inv, NEW N, N \subseteq Partitions, \A p \in N : ~Known(p),
         order' = order \o SetToSeq(N),
         part' \in [Partitions -> PartitionState],
         \A p \in N : /\ part'[p].born = part[p].epoch /\ part'[p].epoch = part[p].epoch
                      /\ part'[p].claimed = FALSE,
         \A p \in Partitions \ N :
           /\ part'[p].born = part[p].born /\ part'[p].epoch = part[p].epoch
           /\ part'[p].claimed = part[p].claimed
           /\ ~Known(p) => part'[p].queue = part[p].queue,
         TurnsKept
  PROVE  /\ order' \in Seq(Partitions) /\ Births' /\ Turns' /\ Claims'
         /\ \A p \in Partitions : Known(p)' <=> Known(p) \/ p \in N
  <1>0. TypeOK /\ Births /\ Turns /\ Claims
    BY DEF Inv
  <1>1. /\ order' \in Seq(Partitions)
        /\ \A p \in Partitions : Known(p)' <=> Known(p) \/ p \in N
    BY <1>0, NewKeys DEF TypeOK
  <1>2. \A p \in Partitions :
          /\ part[p].born \in Nat /\ part[p].epoch \in Nat
          /\ part[p].born <= part[p].epoch
          /\ ~Known(p) => part[p].born < part[p].epoch /\ part[p].queue = <<>>
    BY <1>0 DEF TypeOK, PartitionState, Births
  <1>3. Births'
    <2> SUFFICES ASSUME NEW p \in Partitions
                 PROVE  /\ part'[p].born <= part'[p].epoch
                        /\ ~Known(p)' => part'[p].born < part'[p].epoch /\ part'[p].queue = <<>>
      BY DEF Births
    <2>1. CASE p \in N
      <3>1. part'[p].born = part[p].epoch /\ part'[p].epoch = part[p].epoch
        BY <2>1
      <3>2. Known(p)'
        BY <1>1, <2>1
      <3> QED BY <1>2, <3>1, <3>2
    <2>2. CASE p \notin N
      <3>1. /\ part'[p].born = part[p].born /\ part'[p].epoch = part[p].epoch
            /\ ~Known(p) => part'[p].queue = part[p].queue
        BY <2>2
      <3>2. ~Known(p)' => ~Known(p)
        BY <1>1
      <3> QED BY <1>2, <3>1, <3>2
    <2> QED BY <2>1, <2>2
  <1>4. \A w \in Workers : Working(worker'[w]) =>
          /\ Working(worker[w])
          /\ worker'[w].p = worker[w].p /\ worker'[w].born = worker[w].born
          /\ worker'[w].epoch = worker[w].epoch
          /\ worker'[w].pc = "busy" => worker'[w].entries # <<>>
    BY <1>0 DEF TurnsKept, Turns
  <1>5. ASSUME NEW w \in Workers, NEW p, p = worker[w].p, Working(worker[w])
        PROVE  /\ p \in Partitions
               /\ worker[w].born <= part[p].born /\ worker[w].epoch <= part[p].epoch
               /\ worker[w].epoch = part[p].epoch
                    => Known(p) /\ worker[w].born = part[p].born
               /\ worker[w].epoch \in Nat /\ worker[w].born \in Nat
    BY <1>0, <1>5 DEF Turns, TypeOK, WorkerState
  <1>6. Turns'
    <2> SUFFICES ASSUME NEW w \in Workers, NEW p, p = worker'[w].p, Working(worker'[w])
                 PROVE  /\ p \in Partitions
                        /\ worker'[w].born <= part'[p].born
                        /\ worker'[w].epoch <= part'[p].epoch
                        /\ worker'[w].epoch = part'[p].epoch
                             => /\ \E i \in 1..Len(order') : order'[i] = p
                                /\ worker'[w].born = part'[p].born
                        /\ worker'[w].pc = "busy" => worker'[w].entries # <<>>
      BY DEF Turns, Known
    <2>1. /\ p = worker[w].p /\ Working(worker[w])
          /\ worker'[w].born = worker[w].born /\ worker'[w].epoch = worker[w].epoch
          /\ worker'[w].pc = "busy" => worker'[w].entries # <<>>
      BY <1>4
    <2>2. /\ p \in Partitions
          /\ worker[w].born <= part[p].born /\ worker[w].epoch <= part[p].epoch
          /\ worker[w].epoch = part[p].epoch => Known(p) /\ worker[w].born = part[p].born
          /\ worker[w].epoch \in Nat /\ worker[w].born \in Nat
      BY <1>5, <2>1
    <2>3. Known(p)' <=> \E i \in 1..Len(order') : order'[i] = p
      BY DEF Known
    <2>4. CASE p \in N
      BY <1>2, <2>1, <2>2, <2>4
    <2>5. CASE p \notin N
      BY <1>1, <2>1, <2>2, <2>3, <2>5
    <2> QED BY <2>4, <2>5
  <1>7. Claims'
    <2> SUFFICES ASSUME NEW p \in Partitions, Known(p)'
                 PROVE  /\ \A v, w \in Workers : Holds(worker'[v], p, part'[p])
                             /\ Holds(worker'[w], p, part'[p]) => v = w
                        /\ part'[p].claimed <=> \E w \in Workers : Holds(worker'[w], p, part'[p])
      BY DEF Claims
    <2>1. CASE p \in N
      <3>1. \A w \in Workers : ~Holds(worker'[w], p, part'[p])
        <4> SUFFICES ASSUME NEW w \in Workers, Holds(worker'[w], p, part'[p]) PROVE FALSE
          OBVIOUS
        <4>1. Working(worker[w]) /\ p = worker[w].p /\ worker[w].born = part[p].epoch
          BY <1>4, <2>1 DEF Holds
        <4>2. worker[w].born <= part[p].born /\ part[p].born < part[p].epoch
          BY <1>2, <1>5, <2>1, <4>1
        <4> QED BY <1>2, <4>1, <4>2
      <3> QED BY <2>1, <3>1
    <2>2. CASE p \notin N
      <3>1. Known(p)
        BY <1>1, <2>2
      <3>2. \A w \in Workers : Holds(worker'[w], p, part'[p]) <=> Holds(worker[w], p, part[p])
        BY <2>2 DEF TurnsKept, Holds
      <3> QED BY <1>0, <2>2, <3>1, <3>2 DEF Claims
    <2> QED BY <2>1, <2>2
  <1> QED BY <1>1, <1>3, <1>6, <1>7
LEMMA AssignFnInv ==
  ASSUME Inv, NEW S, S \subseteq Partitions, AssignFn(S), rebalance' = None,
         UNCHANGED <<runVars, claimCursor, fetchVars, seeks, history>>
  PROVE  Inv'
  <1> DEFINE N == {p \in S : ~Known(p)}
             sought == {p \in S : pendingSeeks[p] >= 0}
  <1>0. /\ TypeOK /\ QueuedTotalExact /\ QueueIsCurrent /\ Births /\ StopMeansStopped
        /\ part \in [Partitions -> PartitionState]
        /\ pendingSeeks \in [Partitions -> Nat \union {-1}]
        /\ committed \in [Partitions -> Nat \union {-1}]
    BY DEF Inv, TypeOK
  <1>1. /\ assigned' = assigned \union S
        /\ stored' = [p \in Partitions |-> IF p \in S THEN -1 ELSE stored[p]]
        /\ rdPaused' = [p \in Partitions |-> p \notin S /\ rdPaused[p]]
        /\ order' = order \o SetToSeq(N)
        /\ pendingSeeks' = [p \in Partitions |-> IF p \in S THEN -1 ELSE pendingSeeks[p]]
        /\ worker' = Signalled(worker)
        /\ UNCHANGED <<queuedTotal, committed, seeking>>
    BY DEF AssignFn
  <1>2. part' = [p \in Partitions |->
                   CASE p \in sought -> [Ensured(p) EXCEPT !.storedNext = pendingSeeks[p]]
                     [] p \in S \ sought -> Ensured(p)
                     [] OTHER -> part[p]]
    BY DEF AssignFn
  <1>3. pos' \in [Partitions -> Nat]
    <2> DEFINE start(p) == CASE p \in sought -> pendingSeeks[p]
                             [] p \notin sought /\ committed[p] >= 0 -> committed[p]
                             [] OTHER -> 0
    <2>1. pos' = [p \in Partitions |-> IF p \in S THEN start(p) ELSE pos[p]]
      BY DEF AssignFn
    <2>2. ASSUME NEW p \in Partitions PROVE start(p) \in Nat
      <3>1. pendingSeeks[p] \in Nat \union {-1} /\ committed[p] \in Nat \union {-1}
        BY <1>0
      <3>2. CASE p \in sought
        BY <3>1, <3>2
      <3>3. CASE p \notin sought /\ committed[p] >= 0
        BY <3>1, <3>3
      <3>4. CASE p \notin sought /\ ~(committed[p] >= 0)
        BY <3>4
      <3> QED BY <3>2, <3>3, <3>4
    <2> HIDE DEF start
    <2> QED BY <1>0, <2>1, <2>2 DEF TypeOK
  <1>4. \A p \in Partitions :
          /\ part'[p] \in PartitionState
          /\ part'[p].epoch = part[p].epoch /\ part'[p].queue = part[p].queue
          /\ p \in N => part'[p].born = part[p].epoch /\ part'[p].claimed = FALSE
          /\ p \notin N => part'[p].born = part[p].born /\ part'[p].claimed = part[p].claimed
    <2> SUFFICES ASSUME NEW p \in Partitions
                 PROVE  /\ part'[p] \in PartitionState
                        /\ part'[p].epoch = part[p].epoch /\ part'[p].queue = part[p].queue
                        /\ p \in N => part'[p].born = part[p].epoch /\ part'[p].claimed = FALSE
                        /\ p \notin N => /\ part'[p].born = part[p].born
                                         /\ part'[p].claimed = part[p].claimed
      OBVIOUS
    <2> DEFINE e == Ensured(p)
    <2>1. /\ e \in PartitionState /\ e.epoch = part[p].epoch
          /\ Known(p) => e = part[p]
          /\ ~Known(p) => e.born = part[p].epoch /\ e.claimed = FALSE /\ e.queue = <<>>
          /\ ~Known(p) => part[p].queue = <<>>
      BY <1>0, EnsuredIs DEF Births
    <2>2. e.queue = part[p].queue
      BY <2>1
    <2>3. CASE p \in S
      <3>1. part'[p] = e \/ \E o \in Nat : part'[p] = [e EXCEPT !.storedNext = o]
        <4>1. CASE p \in sought
          <5>1. part'[p] = [e EXCEPT !.storedNext = pendingSeeks[p]]
            BY <1>2, <4>1
          <5>2. pendingSeeks[p] \in Nat
            BY <1>0, <4>1
          <5> QED BY <5>1, <5>2
        <4>2. CASE p \notin sought
          BY <1>2, <2>3, <4>2
        <4> QED BY <4>1, <4>2
      <3> HIDE DEF e
      <3>2. /\ part'[p] \in PartitionState /\ part'[p].epoch = e.epoch /\ part'[p].queue = e.queue
            /\ part'[p].born = e.born /\ part'[p].claimed = e.claimed
        BY <2>1, <3>1 DEF PartitionState
      <3> QED BY <2>1, <2>2, <2>3, <3>2
    <2>4. CASE p \notin S
      <3>1. part'[p] = part[p]
        BY <1>2, <2>4
      <3> QED BY <1>0, <2>4, <3>1
    <2> QED BY <2>3, <2>4
  <1>5. part' \in [Partitions -> PartitionState]
    BY <1>2, <1>4
  <1>6. /\ TurnsKept /\ worker' \in [Workers -> WorkerState]
        /\ \A w \in Workers : worker'[w].pc # "waiting"
        /\ \A w \in Workers : worker[w].pc = "off" => worker'[w].pc = "off"
    BY <1>0, <1>1, WokenWorkers, SignalledType DEF TypeOK
  <1>7. N \subseteq Partitions /\ (\A p \in N : ~Known(p))
    OBVIOUS
  <1> HIDE DEF N, sought
  <1>8. order' \in Seq(Partitions) /\ Births' /\ Turns' /\ Claims'
    <2>1. \A p \in N : p \in Partitions
      BY <1>7
    <2> QED BY <1>1, <1>4, <1>5, <1>6, <1>7, <2>1, CreatedTable
  <1>9. QueuedTotalExact'
    <2>1. Slots(part', Partitions) = Slots(part, Partitions)
      BY <1>4, SameSlots
    <2> QED BY <1>0, <1>1, <2>1, TotalIs, NextTotalIs
  <1>10. QueueIsCurrent'
    BY <1>0, <1>4 DEF QueueIsCurrent
  <1>11. NoLostWakeup' /\ StopMeansStopped' /\ Halts'
    BY <1>0, <1>4, <1>6 DEF Inv, NoLostWakeup, StopMeansStopped, Halts, runVars
  <1>12. QueueBounded' /\ OneFetchAtATime' /\ Backpressure'
    BY <1>0, <1>1, KeptFetch DEF TypeOK, fetchVars
  <1>13. TypeOK'
    <2>1. stored' \in [Partitions -> Nat \union {-1}] /\ rdPaused' \in [Partitions -> BOOLEAN]
      BY <1>0, <1>1 DEF TypeOK
    <2>2. pendingSeeks' \in [Partitions -> Nat \union {-1}]
      BY <1>0, <1>1
    <2>3. assigned' \in SUBSET Partitions
      BY <1>0, <1>1 DEF TypeOK
    <2> QED BY <1>0, <1>1, <1>3, <1>5, <1>6, <1>8, <2>1, <2>2, <2>3
            DEF TypeOK, runVars, fetchVars, history
  <1> QED BY <1>8, <1>9, <1>10, <1>11, <1>12, <1>13 DEF Inv

LEMMA RebalanceDoneInv ==
  ASSUME Inv, RebalanceDone
  PROVE  Inv'
  <1>0. TypeOK
    BY DEF Inv
  <1>1. /\ rebalance # None /\ rebalance' = None
        /\ UNCHANGED <<runVars, claimCursor, fetchVars, seeks, history>>
    BY DEF RebalanceDone
  <1>2. rebalance.parts \subseteq Partitions
    BY <1>0, <1>1 DEF TypeOK
  <1>3. CASE rebalance.assign
    BY <1>1, <1>2, <1>3, AssignFnInv DEF RebalanceDone
  <1>4. CASE ~rebalance.assign
    <2> DEFINE S == rebalance.parts
    <2>1. UnassignFn(S)
      BY <1>4 DEF RebalanceDone
    <2> HIDE DEF S
    <2>2. /\ ForgetPartitions(S)
          /\ assigned' = assigned \ S
          /\ committed' = [p \in Partitions |->
                     IF p \in S /\ AutoCommit /\ stored[p] >= 0 THEN stored[p] ELSE committed[p]]
          /\ stored' = [p \in Partitions |-> IF p \in S THEN -1 ELSE stored[p]]
          /\ seeking' = seeking \ S
          /\ UNCHANGED <<pos, rdPaused, pendingSeeks, worker>>
      BY <2>1 DEF UnassignFn
    <2>3. /\ part' \in [Partitions -> PartitionState] /\ order' \in Seq(Partitions)
          /\ queuedTotal' \in Nat /\ queuedTotal' <= queuedTotal
          /\ QueuedTotalExact' /\ QueueIsCurrent' /\ Births' /\ Turns' /\ Claims'
          /\ NoLostWakeup' /\ StopMeansStopped' /\ Halts'
      BY <1>1, <1>2, <2>2, ForgetTable DEF runVars, S
    <2>4. QueueBounded' /\ OneFetchAtATime' /\ Backpressure'
      BY <1>1, <2>3, KeptFetch DEF fetchVars
    <2>5. TypeOK'
      <3>1. /\ stored' \in [Partitions -> Nat \union {-1}]
            /\ committed' \in [Partitions -> Nat \union {-1}]
            /\ assigned' \in SUBSET Partitions /\ seeking' \in SUBSET Partitions
        BY <1>0, <2>2 DEF TypeOK
      <3> QED BY <1>0, <1>1, <2>2, <2>3, <3>1 DEF TypeOK, runVars, fetchVars, history
    <2> QED BY <2>3, <2>4, <2>5 DEF Inv
  <1> QED BY <1>3, <1>4
-----------------------------------------------------------------------------
(* A batch arrives.                                                        *)

LEMMA OffsetsOfIs ==
  ASSUME NEW batch \in Seq(Message), NEW p
  PROVE  /\ OffsetsOf(p, batch) \in Seq(Message)
         /\ Len(OffsetsOf(p, batch)) = Cardinality({i \in 1..Len(batch) : batch[i][1] = p})
         /\ Len(OffsetsOf(p, batch)) \in Nat
  <1>1. {i \in 1..Len(batch) : batch[i][1] = p} \subseteq 1..Len(batch)
    OBVIOUS
  <1>2. OffsetsOf(p, batch) = At(batch, {i \in 1..Len(batch) : batch[i][1] = p})
    BY DEF OffsetsOf
  <1> QED BY <1>1, <1>2, AtSelects

LEMMA RoutedIs ==
  ASSUME TypeOK, QueueIsCurrent, Births, NEW batch \in Seq(Message), NEW p \in Partitions
  PROVE  LET t == Routed(p, batch)
         IN  /\ t \in PartitionState /\ t.epoch = part[p].epoch /\ Pure(t)
             /\ Len(t.queue) = Len(part[p].queue) + Len(OffsetsOf(p, batch))
             /\ OffsetsOf(p, batch) = <<>> => t = part[p]
             /\ p \in Arriving(batch) => t.born = part[p].epoch /\ t.claimed = FALSE
             /\ p \notin Arriving(batch) => /\ t.born = part[p].born /\ t.claimed = part[p].claimed
                                            /\ ~Known(p) => t = part[p]
  <1> DEFINE msgs == OffsetsOf(p, batch)
             s == Ensured(p)
             n == Len(msgs)
             entries == [i \in 1..n |-> [off |-> msgs[i][2], epoch |-> s.epoch]]
             t == Routed(p, batch)
  <1>1. msgs \in Seq(Message) /\ n \in Nat
    BY OffsetsOfIs
  <1>2. /\ s \in PartitionState /\ s.epoch = part[p].epoch
        /\ Known(p) => s = part[p]
        /\ ~Known(p) => s.born = part[p].epoch /\ s.claimed = FALSE /\ s.queue = <<>>
        /\ ~Known(p) => part[p].queue = <<>>
    BY EnsuredIs DEF Births
  <1>3. part[p] \in PartitionState /\ Pure(part[p])
    BY DEF TypeOK, QueueIsCurrent, Pure
  <1>4. p \in Arriving(batch) <=> msgs # <<>> /\ ~Known(p)
    BY DEF Arriving
  <1>5. CASE msgs = <<>>
    <2>1. t = part[p]
      BY <1>5 DEF Routed
    <2>2. n = 0
      BY <1>5, EmptySeq
    <2>3. Len(part[p].queue) \in Nat
      BY <1>3, LenProperties DEF PartitionState
    <2> HIDE DEF t, n, msgs
    <2>4. Len(t.queue) = Len(part[p].queue) + n
      BY <2>1, <2>2, <2>3
    <2> QED BY <1>3, <1>4, <1>5, <2>1, <2>4 DEF t, n, msgs
  <1>6. CASE msgs # <<>>
    <2>1. t = [s EXCEPT !.queue = s.queue \o entries]
      BY <1>6 DEF Routed
    <2>2. \A i \in 1..n : msgs[i] \in Message
      BY <1>1, ElementOfSeq
    <2> HIDE DEF s, msgs, n
    <2>3. s.epoch \in Nat /\ s.queue \in Seq(Entry) /\ Len(s.queue) \in Nat
      <3>1. s.queue \in Seq(Entry)
        BY <1>2 DEF PartitionState
      <3> QED BY <1>2, <3>1, LenProperties DEF PartitionState
    <2>4. \A i \in 1..n : msgs[i][2] \in Offsets
      BY <2>2 DEF Message
    <2>5. entries \in [1..n -> Entry]
      BY <2>3, <2>4 DEF Entry
    <2>6. entries \in Seq(Entry) /\ Len(entries) = n /\ \A i \in 1..n : entries[i].epoch = s.epoch
      BY <1>1, <2>5
    <2> HIDE DEF entries
    <2>7. /\ s.queue \o entries \in Seq(Entry)
          /\ Len(s.queue \o entries) = Len(s.queue) + n
          /\ \A i \in 1..Len(s.queue) : (s.queue \o entries)[i] = s.queue[i]
          /\ \A i \in 1..n : (s.queue \o entries)[Len(s.queue) + i] = entries[i]
      <3> DEFINE u == s.queue
      <3>1. u \in Seq(Entry) /\ entries \in Seq(Entry) /\ Len(entries) = n
        BY <2>3, <2>6
      <3> HIDE DEF u
      <3>2. u \o entries \in Seq(Entry) /\ Len(u \o entries) = Len(u) + Len(entries)
        BY <3>1, ConcatProperties
      <3>3. \A i \in 1..Len(u) : (u \o entries)[i] = u[i]
        BY <3>1, ConcatProperties
      <3>4. \A i \in 1..Len(entries) : (u \o entries)[Len(u) + i] = entries[i]
        BY <3>1, ConcatProperties
      <3> QED BY <3>1, <3>2, <3>3, <3>4 DEF u
    <2> DEFINE q == s.queue \o entries
    <2>8. Len(s.queue) = Len(part[p].queue) /\ \A i \in 1..Len(s.queue) : s.queue[i].epoch = s.epoch
      <3>1. s.queue = part[p].queue
        BY <1>2
      <3> QED BY <1>2, <1>3, <3>1 DEF Pure
    <2>9. \A i \in 1..Len(q) : q[i].epoch = s.epoch
      <3> SUFFICES ASSUME NEW i \in 1..Len(q) PROVE q[i].epoch = s.epoch
        OBVIOUS
      <3>1. CASE i <= Len(s.queue)
        BY <2>3, <2>7, <2>8, <3>1
      <3>2. CASE i > Len(s.queue)
        <4>1. i - Len(s.queue) \in 1..n /\ i = Len(s.queue) + (i - Len(s.queue))
          BY <1>1, <2>3, <2>7, <3>2
        <4>2. q[i] = entries[i - Len(s.queue)]
          BY <2>7, <4>1
        <4> QED BY <2>6, <4>1, <4>2
      <3> QED BY <2>3, <2>7, <3>1, <3>2
    <2>10. q \in Seq(Entry) /\ Len(q) = Len(part[p].queue) + n
      BY <2>7, <2>8
    <2>11. t = [s EXCEPT !.queue = q]
      BY <2>1
    <2> HIDE DEF q, t
    <2>12. /\ t \in PartitionState /\ t.queue = q /\ t.epoch = s.epoch
           /\ t.born = s.born /\ t.claimed = s.claimed
      BY <1>2, <2>10, <2>11 DEF PartitionState
    <2>13. Pure(t)
      BY <2>9, <2>12 DEF Pure
    <2>14. Len(t.queue) = Len(part[p].queue) + n
      BY <2>10, <2>12
    <2>15. p \in Arriving(batch) => t.born = part[p].epoch /\ t.claimed = FALSE
      BY <1>2, <1>4, <2>12
    <2>16. p \notin Arriving(batch) => Known(p) /\ t.born = part[p].born /\ t.claimed = part[p].claimed
      BY <1>2, <1>4, <1>6, <2>12
    <2>17. t.epoch = part[p].epoch
      BY <1>2, <2>12
    <2> QED BY <1>6, <2>12, <2>13, <2>14, <2>15, <2>16, <2>17 DEF t, n, msgs
  <1> QED BY <1>5, <1>6

(* Every message of the batch takes a place in the queue of its partition. *)
LEMMA RoutedTotal ==
  ASSUME TypeOK, QueuedTotalExact, QueueIsCurrent, Births, NEW batch \in Seq(Message),
         part' = [p \in Partitions |-> Routed(p, batch)]
  PROVE  Cardinality(Slots(part', Partitions)) = queuedTotal + Len(batch)
  <1> DEFINE base == [p \in Partitions |-> Len(part[p].queue)]
             more == [p \in Partitions |-> Len(OffsetsOf(p, batch))]
             key == [i \in 1..Len(batch) |-> batch[i][1]]
             places == UNION {{p} \X ((base[p] + 1)..(base[p] + more[p])) : p \in Partitions}
             old == Slots(part, Partitions)
  <1>1. Len(batch) \in Nat /\ part \in [Partitions -> PartitionState]
    BY LenProperties DEF TypeOK
  <1>2. key \in [1..Len(batch) -> Partitions]
    <2>1. \A i \in 1..Len(batch) : batch[i] \in Message
      BY ElementOfSeq
    <2> QED BY <2>1 DEF Message
  <1>3. base \in [Partitions -> Nat]
    <2>1. \A p \in Partitions : Len(part[p].queue) \in Nat
      BY <1>1, LenProperties DEF PartitionState
    <2> QED BY <2>1
  <1>4. /\ more \in [Partitions -> Nat]
        /\ \A p \in Partitions : more[p] = Cardinality({i \in 1..Len(batch) : key[i] = p})
    <2> SUFFICES ASSUME NEW p \in Partitions
                 PROVE  /\ more[p] \in Nat
                        /\ more[p] = Cardinality({i \in 1..Len(batch) : key[i] = p})
      OBVIOUS
    <2>1. {i \in 1..Len(batch) : key[i] = p} = {i \in 1..Len(batch) : batch[i][1] = p}
      OBVIOUS
    <2>2. /\ Len(OffsetsOf(p, batch)) = Cardinality({i \in 1..Len(batch) : batch[i][1] = p})
          /\ Len(OffsetsOf(p, batch)) \in Nat
      BY OffsetsOfIs
    <2>3. more[p] = Len(OffsetsOf(p, batch))
      OBVIOUS
    <2> QED BY <2>1, <2>2, <2>3
  <1>5. \A p \in Partitions : Len(part'[p].queue) = base[p] + more[p]
    <2> SUFFICES ASSUME NEW p \in Partitions PROVE Len(part'[p].queue) = base[p] + more[p]
      OBVIOUS
    <2>1. Len(Routed(p, batch).queue) = Len(part[p].queue) + Len(OffsetsOf(p, batch))
      BY RoutedIs
    <2> QED BY <2>1
  <1>6. old = UNION {{p} \X (1..base[p]) : p \in Partitions}
    BY DEF Slots
  <1> HIDE DEF base, more, key
  <1>7. IsFiniteSet(places) /\ Cardinality(places) = Len(batch)
    <2> DEFINE n == Len(batch)
    <2>1. n \in Nat /\ key \in [1..n -> Partitions]
      BY <1>1, <1>2
    <2>2. \A p \in Partitions : more[p] = Cardinality(Share(key, n, p))
      BY <1>4 DEF Share
    <2>3. places = PlacesTaken(Partitions, base, more)
      BY DEF PlacesTaken
    <2>4. base \in [Partitions -> Nat] /\ more \in [Partitions -> Nat]
      BY <1>3, <1>4
    <2> HIDE DEF n, places
    <2>5. IsFiniteSet(places) /\ Cardinality(places) = n
      BY ONLY <2>1, <2>2, <2>3, <2>4, DealtOut, SMTT(30)
    <2> QED BY <2>5 DEF n
  <1>8. IsFiniteSet(old) /\ Cardinality(old) = queuedTotal /\ queuedTotal \in Nat
    BY <1>1, SlotsAreFinite, TotalIs DEF TypeOK
  <1>9. Slots(part', Partitions) = old \union places
    <2>1. \A p \in Partitions : 1..Len(part'[p].queue) = 1..base[p] \union ((base[p] + 1)..(base[p] + more[p]))
      BY <1>3, <1>4, <1>5
    <2>2. Slots(part', Partitions)
            = UNION {{p} \X (1..base[p] \union ((base[p] + 1)..(base[p] + more[p]))) : p \in Partitions}
      BY <2>1 DEF Slots
    <2>3. \A p \in Partitions :
            {p} \X (1..base[p] \union ((base[p] + 1)..(base[p] + more[p])))
              = ({p} \X (1..base[p])) \union ({p} \X ((base[p] + 1)..(base[p] + more[p])))
      OBVIOUS
    <2> HIDE DEF old
    <2> QED BY <1>6, <2>2, <2>3
  <1>10. old \intersect places = {}
    <2> SUFFICES ASSUME NEW z \in old, z \in places PROVE FALSE
      OBVIOUS
    <2>1. PICK p \in Partitions : z \in {p} \X (1..base[p])
      BY <1>6
    <2>2. PICK q \in Partitions : z \in {q} \X ((base[q] + 1)..(base[q] + more[q]))
      OBVIOUS
    <2>3. p = q /\ z[2] \in 1..base[p] /\ z[2] \in (base[p] + 1)..(base[p] + more[p])
      BY <2>1, <2>2
    <2> QED BY <1>3, <1>4, <2>3
  <1> HIDE DEF old, places
  <1>11. Cardinality(old \union places)
           = Cardinality(old) + Cardinality(places) - Cardinality(old \intersect places)
    BY <1>7, <1>8, FS_Union
  <1>12. Cardinality(old \intersect places) = 0
    BY <1>10, FS_EmptySet
  <1>13. Cardinality(Slots(part', Partitions)) = Cardinality(old \union places)
    BY <1>9, Zenon
  <1>14. Cardinality(old) = queuedTotal /\ Cardinality(places) = Len(batch)
    BY <1>7, <1>8
  <1> HIDE DEF Slots
  <1> QED BY <1>1, <1>8, <1>11, <1>12, <1>13, <1>14
(* What an answer that brings nothing leaves alone.                        *)
LEMMA NothingRouted ==
  ASSUME TypeOK, Births, NEW p \in Partitions
  PROVE  OffsetsOf(p, <<>>) = <<>> /\ Routed(p, <<>>) = part[p]
  <1>1. <<>> \in Seq(Message) /\ Len(<<>>) = 0
    BY EmptySeq
  <1> DEFINE b == <<>>
             S == {i \in 1..Len(b) : b[i][1] = p}
  <1>2. S = {}
    BY <1>1
  <1> HIDE DEF b
  <1>3. OffsetsOf(p, b) \in Seq(Message) /\ Len(OffsetsOf(p, b)) = Cardinality(S)
    BY <1>1, OffsetsOfIs DEF b
  <1>4. Cardinality(S) = 0
    BY <1>2, FS_EmptySet
  <1>5. OffsetsOf(p, b) = <<>>
    BY <1>3, <1>4, EmptySeq
  <1>6. Routed(p, b) = part[p]
    BY <1>5 DEF Routed
  <1> QED BY <1>5, <1>6 DEF b

LEMMA PumpCallbackInv ==
  ASSUME Inv, PumpCallback
  PROVE  Inv'
  <1>0. /\ TypeOK /\ QueuedTotalExact /\ QueueIsCurrent /\ QueueBounded /\ Births
        /\ NoLostWakeup /\ OneFetchAtATime /\ StopMeansStopped /\ Halts /\ Backpressure
        /\ part \in [Partitions -> PartitionState] /\ queuedTotal \in Nat
    BY DEF Inv, TypeOK
  <1>1. /\ answer # None /\ answer' = None
        /\ UNCHANGED <<runVars, claimCursor, pendingSeeks, buffer, seeks, rebalance,
                       rdVars, history>>
    BY DEF PumpCallback
  <1>2. answer.batch \in Seq(Message) /\ answer.run \in Nat
    BY <1>0, <1>1 DEF TypeOK
  <1>3. CASE ~(running /\ answer.run = runEpoch)
    <2>1. /\ pumpActive' = FALSE
          /\ UNCHANGED <<part, order, queuedTotal, worker, request>>
      BY <1>3 DEF PumpCallback
    <2>2. KeptStep /\ RunKept
      <3>1. UNCHANGED <<runVars, partVars, worker>>
        BY <1>1, <2>1 DEF partVars
      <3> QED BY <1>0, <3>1, AloneKeeps
    <2>3. QueuedTotalExact' /\ QueueIsCurrent' /\ Births' /\ Turns' /\ Claims' /\ NoLostWakeup'
      BY <2>2, KeptTable, KeptWakeup DEF KeptStep, RunKept
    <2>4. StopMeansStopped' /\ Halts'
      BY <2>2, KeptRun DEF KeptStep
    <2>5. request = 0
      BY <1>0, <1>1 DEF OneFetchAtATime
    <2>6. QueueBounded' /\ OneFetchAtATime' /\ Backpressure'
      BY <1>0, <1>1, <2>1, <2>5 DEF QueueBounded, OneFetchAtATime, Backpressure
    <2>7. TypeOK'
      BY <1>0, <1>1, <2>1 DEF TypeOK, runVars, rdVars, history
    <2> QED BY <2>3, <2>4, <2>6, <2>7 DEF Inv
  <1>4. CASE running /\ answer.run = runEpoch
    <2> DEFINE batch == answer.batch
               N == Arriving(batch)
    <2>1. /\ part' = [p \in Partitions |-> Routed(p, batch)]
          /\ order' = order \o SetToSeq(N)
          /\ queuedTotal' = TotalAfter(batch)
          /\ worker' = IF batch = <<>> THEN worker ELSE Signalled(worker)
          /\ Pump(running, runEpoch, FALSE, queuedTotal')
      BY <1>4 DEF PumpCallback
    <2>2. /\ batch \in Seq(Message) /\ Len(batch) \in Nat /\ Len(batch) <= FetchChunk
          /\ queuedTotal < MaxQueued
      <3>1. batch \in Seq(Message) /\ Len(batch) \in Nat
        BY <1>2, LenProperties
      <3>2. Len(batch) <= FetchChunk /\ pumpActive
        BY <1>0, <1>1 DEF Backpressure, OneFetchAtATime
      <3> QED BY <1>0, <3>1, <3>2 DEF Backpressure
    <2>3. N \subseteq Partitions /\ \A p \in N : ~Known(p)
      BY DEF Arriving
    <2> HIDE DEF batch, N
    <2>4. \A p \in Partitions :
            /\ part'[p] \in PartitionState /\ part'[p].epoch = part[p].epoch /\ Pure(part'[p])
            /\ p \in N => part'[p].born = part[p].epoch /\ part'[p].claimed = FALSE
            /\ p \notin N => /\ part'[p].born = part[p].born /\ part'[p].claimed = part[p].claimed
                             /\ ~Known(p) => part'[p] = part[p]
      <3> SUFFICES ASSUME NEW p \in Partitions
                   PROVE  /\ part'[p] \in PartitionState /\ part'[p].epoch = part[p].epoch
                          /\ Pure(part'[p])
                          /\ p \in N => part'[p].born = part[p].epoch /\ part'[p].claimed = FALSE
                          /\ p \notin N => /\ part'[p].born = part[p].born
                                           /\ part'[p].claimed = part[p].claimed
                                           /\ ~Known(p) => part'[p] = part[p]
        OBVIOUS
      <3>1. part'[p] = Routed(p, batch)
        BY <2>1
      <3> QED BY <1>0, <2>2, <3>1, RoutedIs DEF N
    <2>5. part' \in [Partitions -> PartitionState]
      BY <2>1, <2>4
    <2>6. /\ TurnsKept /\ worker' \in [Workers -> WorkerState]
          /\ batch = <<>> => worker' = worker
          /\ batch # <<>> => \A w \in Workers : worker'[w].pc # "waiting"
      <3>1. CASE batch = <<>>
        BY <1>0, <2>1, <3>1, SameWorkers DEF TypeOK
      <3>2. CASE batch # <<>>
        <4>1. worker' = Signalled(worker)
          BY <2>1, <3>2
        <4> QED BY <1>0, <3>2, <4>1, WokenWorkers, SignalledType DEF TypeOK
      <3> QED BY <3>1, <3>2
    <2>7. /\ order' \in Seq(Partitions) /\ Births' /\ Turns' /\ Claims'
          /\ \A p \in Partitions : Known(p)' <=> Known(p) \/ p \in N
      <3>1. \A p \in N : p \in Partitions
        BY <2>3
      <3>2. \A p \in N : /\ part'[p].born = part[p].epoch /\ part'[p].epoch = part[p].epoch
                         /\ part'[p].claimed = FALSE
        BY <2>4, <3>1
      <3>3. \A p \in Partitions \ N :
              /\ part'[p].born = part[p].born /\ part'[p].epoch = part[p].epoch
              /\ part'[p].claimed = part[p].claimed
              /\ ~Known(p) => part'[p].queue = part[p].queue
        BY <2>4
      <3> QED BY <2>1, <2>3, <2>5, <2>6, <3>2, <3>3, CreatedTable
    <2>8. queuedTotal' = queuedTotal + Len(batch) /\ queuedTotal' \in Nat
      BY <1>0, <2>1, <2>2 DEF TotalAfter
    <2>9. QueuedTotalExact'
      <3>1. Cardinality(Slots(part', Partitions)) = queuedTotal + Len(batch)
        BY <1>0, <2>1, <2>2, RoutedTotal
      <3> QED BY <2>8, <3>1, NextTotalIs
    <2>10. QueueIsCurrent'
      BY <2>4 DEF QueueIsCurrent, Pure
    <2>11. QueueBounded'
      BY <1>0, <2>2, <2>8, ConstantsAssumption DEF QueueBounded
    <2>12. NoLostWakeup'
      <3>1. CASE batch # <<>>
        BY <2>6, <3>1 DEF NoLostWakeup
      <3>2. CASE batch = <<>>
        <4>1. \A p \in Partitions : OffsetsOf(p, batch) = <<>> /\ Routed(p, batch) = part[p]
          BY <1>0, <3>2, NothingRouted
        <4>2. (\A p \in Partitions : part'[p] = part[p]) /\ N = {}
          BY <2>1, <4>1 DEF N, Arriving
        <4> QED BY <1>0, <1>4, <2>6, <2>7, <3>2, <4>2 DEF NoLostWakeup
      <3> QED BY <3>1, <3>2
    <2>13. /\ OneFetchAtATime' /\ Backpressure'
           /\ pumpActive' \in BOOLEAN /\ request' \in Nat
      <3>1. /\ running \in BOOLEAN /\ runEpoch \in Nat /\ (running => runEpoch > 0)
            /\ FALSE \in BOOLEAN
        BY <1>0 DEF TypeOK, Halts
      <3> QED BY <1>1, <2>1, <2>8, <3>1, PumpIs
    <2>14. StopMeansStopped' /\ Halts'
      BY <1>0, <1>1, <1>4 DEF StopMeansStopped, Halts, runVars
    <2>15. TypeOK'
      BY <1>0, <1>1, <2>5, <2>6, <2>7, <2>8, <2>13 DEF TypeOK, runVars, rdVars, history
    <2> QED BY <2>7, <2>9, <2>10, <2>11, <2>12, <2>13, <2>14, <2>15 DEF Inv
  <1> QED BY <1>3, <1>4
-----------------------------------------------------------------------------
(* The inductive invariant.                                                *)

LEMMA InitInv == Init => Inv
  <1> SUFFICES ASSUME Init PROVE Inv
    OBVIOUS
  <1> DEFINE fresh == FreshPart([epoch |-> 0])
  <1>1. /\ connected = TRUE /\ running = FALSE /\ runEpoch = 0 /\ halting = "no"
        /\ handler \in Handlers /\ order = SetToSeq(Partitions)
        /\ part = [p \in Partitions |-> fresh]
        /\ claimCursor = 0 /\ queuedTotal = 0
        /\ pendingSeeks = [p \in Partitions |-> -1]
        /\ pumpActive = FALSE /\ request = 0 /\ answer = None /\ buffer = <<>>
        /\ worker = [w \in Workers |-> Idle("off")]
        /\ seeks = [p \in Partitions |-> {}]
        /\ rebalance = None /\ assigned = Partitions
        /\ rdPaused = [p \in Partitions |-> FALSE]
        /\ pos = [p \in Partitions |-> 0] /\ seeking = {}
        /\ stored = [p \in Partitions |-> -1] /\ committed = [p \in Partitions |-> -1]
        /\ left \in Budgets
        /\ done = [p \in Partitions |-> {}] /\ excused = [p \in Partitions |-> {}]
    BY DEF Init
  <1>2. /\ fresh \in PartitionState /\ fresh.queue = <<>> /\ fresh.born = 0 /\ fresh.epoch = 0
        /\ fresh.claimed = FALSE
    BY EmptySeq DEF FreshPart, PartitionState
  <1>3. order \in Seq(Partitions) /\ \A p \in Partitions : Known(p)
    <2> DEFINE l == SetToSeq(Partitions)
    <2>1. IsFiniteSet(Partitions)
      BY ConstantsAssumption
    <2>2. l \in Seq(Partitions) /\ \A x \in Partitions : \E i \in 1..Len(l) : l[i] = x
      BY <2>1, SetToSeqLists
    <2> HIDE DEF l
    <2>3. order = l
      BY <1>1 DEF l
    <2> QED BY <2>2, <2>3 DEF Known
  <1> HIDE DEF fresh
  <1>4. \A w \in Workers : worker[w].pc = "off" /\ worker[w] \in WorkerState
    BY <1>1, IdleType
  <1>5. TypeOK
    <2>1. handler \in HandlerKinds /\ left \in [Events -> Nat]
      BY <1>1, ConstantsAssumption
    <2>2. worker \in [Workers -> WorkerState]
      BY <1>1, <1>4
    <2>3. buffer \in Seq(Message)
      BY <1>1, EmptySeq
    <2>4. /\ part \in [Partitions -> PartitionState]
          /\ pendingSeeks \in [Partitions -> Nat \union {-1}]
          /\ stored \in [Partitions -> Nat \union {-1}]
          /\ committed \in [Partitions -> Nat \union {-1}]
          /\ pos \in [Partitions -> Nat] /\ rdPaused \in [Partitions -> BOOLEAN]
      BY <1>1, <1>2
    <2>5. /\ seeks \in [Partitions -> SUBSET [off : Nat, epoch : Nat, attempt : Nat]]
          /\ done \in [Partitions -> SUBSET Offsets] /\ excused \in [Partitions -> SUBSET Offsets]
      BY <1>1
    <2> QED BY <1>1, <1>3, <2>1, <2>2, <2>3, <2>4, <2>5 DEF TypeOK
  <1>6. \A p \in Partitions : part[p] = fresh
    BY <1>1
  <1>7. QueuedTotalExact
    <2>1. \A p \in Partitions : 1..Len(part[p].queue) = {}
      BY <1>2, <1>6
    <2>2. Slots(part, Partitions) = {}
      BY <2>1 DEF Slots
    <2>3. Cardinality(Slots(part, Partitions)) = 0
      BY <2>2, FS_EmptySet
    <2> QED BY <1>1, <2>3, TotalIs
  <1>8. QueueBounded
    BY <1>1, ConstantsAssumption DEF QueueBounded
  <1>9. QueueIsCurrent
    BY <1>2, <1>6 DEF QueueIsCurrent
  <1>10. Births /\ Turns /\ Claims
    BY <1>2, <1>3, <1>4, <1>6 DEF Births, Turns, Claims, Holds, Working
  <1>11. NoLostWakeup /\ OneFetchAtATime /\ StopMeansStopped
    BY <1>1, <1>2, <1>4, <1>6 DEF NoLostWakeup, OneFetchAtATime, StopMeansStopped
  <1>12. Halts /\ Backpressure
    BY <1>1 DEF Halts, Backpressure
  <1> QED BY <1>5, <1>7, <1>8, <1>9, <1>10, <1>11, <1>12 DEF Inv

LEMMA StutterInv ==
  ASSUME Inv, UNCHANGED vars
  PROVE  Inv'
  <1>1. TypeOK /\ QueuedTotalExact
    BY DEF Inv
  <1>2. UNCHANGED <<runVars, partVars, fetchVars, worker>>
    BY DEF vars
  <1>3. KeptStep /\ RunKept
    BY <1>1, <1>2, AloneKeeps
  <1>4. TypeOK'
    BY <1>1 DEF TypeOK, vars, runVars, partVars, fetchVars, rdVars, history
  <1> QED BY <1>2, <1>3, <1>4, KeptInv

LEMMA NextInv == Inv /\ [Next]_vars => Inv'
  <1> SUFFICES ASSUME Inv, [Next]_vars PROVE Inv'
    OBVIOUS
  <1>1. CASE PumpCallback \/ PollTick \/ RequestTimeout
    BY <1>1, PumpCallbackInv, PollTickInv, RequestTimeoutInv
  <1>2. ASSUME NEW w \in Workers,
               Wakeup(w) \/ Release(w) \/ HandlerSettles(w) \/ ResolveOffset(w)
        PROVE  Inv'
    <2>1. CASE Wakeup(w)
      BY <2>1, WakeupInv
    <2>2. CASE Release(w)
      BY <2>2, ReleaseInv
    <2>3. CASE MessageOk(w)
      BY <2>3, MessageOkInv
    <2>4. CASE MessageThrow(w) \/ BatchOk(w) \/ BatchThrow(w) \/ ResolveOffset(w)
      BY <2>4, MessageThrowStep, BatchOkStep, BatchThrowStep, ResolveOffsetStep, KeptInv
    <2> QED BY <1>2, <2>1, <2>2, <2>3, <2>4 DEF HandlerSettles
  <1>3. ASSUME NEW p \in Partitions,
               \/ RunSeek(p) \/ SeekCompleted(p) \/ Seek(p) \/ Pause(p) \/ Resume(p)
               \/ StoreOffsets(p) \/ CommitOffsets(p)
        PROVE  Inv'
    <2>1. TypeOK' /\ KeptStep /\ RunKept /\ UNCHANGED fetchVars
      BY <1>3, RunSeekStep, SeekCompletedStep, SeekStep, PauseStep, ResumeStep, StoreOffsetsStep,
         CommitOffsetsStep
    <2> QED BY <2>1, KeptInv
  <1>4. CASE RevokeEvent \/ RebalanceDone
    BY <1>4, RevokeEventInv, RebalanceDoneInv
  <1>5. CASE AssignEvent
    BY <1>5, AssignEventStep, KeptInv
  <1>6. CASE Run \/ HaltDone
    BY <1>6, RunInv, HaltDoneInv
  <1>7. CASE Stop \/ Disconnect
    BY <1>7, HaltInv DEF Stop, Disconnect
  <1>8. CASE UNCHANGED vars
    BY <1>8, StutterInv
  <1> QED BY <1>1, <1>2, <1>3, <1>4, <1>5, <1>6, <1>7, <1>8 DEF Next

LEMMA Invariance == Spec => []Inv
  <1>1. Init => Inv
    BY InitInv
  <1>2. Inv /\ [Next]_vars => Inv'
    BY NextInv
  <1> QED BY <1>1, <1>2, PTL DEF Spec

-----------------------------------------------------------------------------
(* The variables keep their types: (consumer.ts:120-330, the fields of     *)
(* KafkaJSConsumer and PartitionState).                                    *)
THEOREM TypeCorrect == Spec => []TypeOK
  <1>1. Inv => TypeOK
    BY DEF Inv
  <1> QED BY <1>1, Invariance, PTL

(* #queuedTotal counts the queued messages exactly, never exceeds the cap  *)
(* by a chunk, and no queue holds a message from before a rewind, halt or  *)
(* revocation (#route, #take, #rewind, #forgetPartitions, #haltRun).       *)
THEOREM QueuesStayConsistent == Spec => []QueueConsistent
  <1>1. Inv => QueueConsistent
    BY DEF Inv, QueueConsistent
  <1> QED BY <1>1, Invariance, PTL

LEMMA ClaimsAreHeldOnce ==
  ASSUME TypeOK, Claims
  PROVE  ClaimHeldByOneWorker
  <1> SUFFICES ASSUME NEW p \in Partitions, Known(p)
               PROVE  Cardinality(Holders(p)) = IF part[p].claimed THEN 1 ELSE 0
    BY DEF ClaimHeldByOneWorker
  <1>1. \A w : w \in Holders(p) <=> w \in Workers /\ Holds(worker[w], p, part[p])
    BY DEF Holders, Holds, Working
  <1>2. CASE part[p].claimed
    <2>1. PICK w \in Workers : Holds(worker[w], p, part[p])
      BY <1>2 DEF Claims
    <2>2. Holders(p) = {w}
      BY <1>1, <2>1 DEF Claims
    <2> QED BY <1>2, <2>2, FS_Singleton
  <1>3. CASE ~part[p].claimed
    <2>1. Holders(p) = {}
      BY <1>1, <1>3 DEF Claims
    <2> QED BY <1>3, <2>1, FS_EmptySet
  <1> QED BY <1>2, <1>3

(* A partition is claimed exactly while one worker works on it, no worker  *)
(* sleeps beside a claimable partition, one fetch is in flight at a time,  *)
(* and stop() leaves nothing at work (#worker, #signal, #claimNext, #pump, *)
(* #haltRun).                                                              *)
THEOREM WorkersStayConsistent == Spec => []WorkersConsistent
  <1>1. Inv => WorkersConsistent
    BY ClaimsAreHeldOnce DEF Inv, WorkersConsistent
  <1> QED BY <1>1, Invariance, PTL


-----------------------------------------------------------------------------
(* Order. Until p is disturbed, its offsets below the fetch position are   *)
(* processed (P), in a handler's hands (E), queued (Q), in the answer of   *)
(* the last fetch (A), or buffered (B), each behind the one before it.     *)

Handled(p) ==
  {x \in Offsets : \E w \in Workers :
     Busy(w, p) /\ \E i \in 1..Len(worker[w].entries) : worker[w].entries[i] = x}
QueueOffsets(queue) == {x \in Offsets : \E i \in 1..Len(queue) : queue[i].off = x}
Waiting(p) == QueueOffsets(part[p].queue)
OffsetsIn(batch, p) == {x \in Offsets : \E i \in 1..Len(batch) : batch[i] = <<p, x>>}
Answered == IF answer = None THEN <<>> ELSE answer.batch

Before(S, T) == \A x \in S, y \in T : x < y
InLine(E, Q, A, B, top) ==
  /\ Before(E, Q \union A \union B) /\ Before(Q, A \union B) /\ Before(A, B)
  /\ E \union Q \union A \union B \subseteq Upto(top)
NoGap(P, E, Q) == \A x \in E \union Q : Upto(x) \subseteq P \union E \union Q
NoneLost(P, E, Q, A, B, top) == Upto(top) \subseteq P \union E \union Q \union A \union B

RisesFor(batch, p) ==
  \A i, j \in 1..Len(batch) : \A x, y \in Offsets :
    i < j /\ batch[i] = <<p, x>> /\ batch[j] = <<p, y>> => x < y
QueueRises(queue) == \A i, j \in 1..Len(queue) : i < j => queue[i].off < queue[j].off

(* What a handler holds rises, and what it has resolved is done.           *)
InHand(w, p) ==
  Busy(w, p) =>
    /\ Rising(worker[w].entries)
    /\ ~EachBatch => Len(worker[w].entries) = 1
    /\ \A i \in 1..Len(worker[w].entries) :
         worker[w].entries[i] < worker[w].resolved => worker[w].entries[i] \in done[p]

(* Nothing that would disturb p is under way.                              *)
Calm(p) ==
  /\ Known(p) /\ p \in assigned /\ seeks[p] = {}
  /\ rebalance # None => p \notin rebalance.parts
  /\ runEpoch <= 1 \/ (~running /\ halting # "no")

Straight(p) ==
  /\ \A w \in Workers : InHand(w, p)
  /\ QueueRises(part[p].queue) /\ RisesFor(Answered, p) /\ RisesFor(buffer, p)
  /\ InLine(Handled(p), Waiting(p), OffsetsIn(Answered, p), OffsetsIn(buffer, p), pos[p])
  /\ NoGap(Processed(p), Handled(p), Waiting(p))
  /\ runEpoch <= 1 => NoneLost(Processed(p), Handled(p), Waiting(p), OffsetsIn(Answered, p),
                               OffsetsIn(buffer, p), pos[p])
  /\ StoresProcessed(p)

(* The runs are numbered, and a fetch belongs to one of them.              *)
RunsCounted ==
  /\ runEpoch = 1 => running
  /\ request <= runEpoch
  /\ answer # None => answer.run \in 1..runEpoch

OrderInv ==
  /\ RunsCounted
  /\ \A p \in Partitions : Undisturbed(p) => Calm(p) /\ Straight(p)

-----------------------------------------------------------------------------
(* The sets move on.                                                       *)

(* A turn begins or ends, or offsets are processed.                        *)
LEMMA LineAdvances ==
  ASSUME NEW P, NEW E, NEW Q, NEW A, NEW B, NEW top, NEW P2, NEW E2, NEW Q2,
         InLine(E, Q, A, B, top), NoGap(P, E, Q),
         P \subseteq P2, E \subseteq P2 \union E2 \union Q2, Q \subseteq E2 \union Q2,
         E2 \union Q2 \subseteq E \union Q, Before(E2, Q2)
  PROVE  /\ InLine(E2, Q2, A, B, top) /\ NoGap(P2, E2, Q2)
         /\ NoneLost(P, E, Q, A, B, top) => NoneLost(P2, E2, Q2, A, B, top)
  <1>1. InLine(E2, Q2, A, B, top)
    BY DEF InLine, Before
  <1>2. NoGap(P2, E2, Q2)
    BY DEF NoGap
  <1>3. NoneLost(P, E, Q, A, B, top) => NoneLost(P2, E2, Q2, A, B, top)
    BY DEF NoneLost
  <1> QED BY <1>1, <1>2, <1>3

(* An answer joins the queue.                                              *)
LEMMA LineRouted ==
  ASSUME NEW P, NEW E, NEW Q, NEW A, NEW B, NEW top \in Nat,
         E \subseteq Nat, Q \subseteq Nat, A \subseteq Nat, B \subseteq Nat,
         InLine(E, Q, A, B, top), NoneLost(P, E, Q, A, B, top)
  PROVE  /\ InLine(E, Q \union A, {}, B, top) /\ NoGap(P, E, Q \union A)
         /\ NoneLost(P, E, Q \union A, {}, B, top)
  <1>1. InLine(E, Q \union A, {}, B, top)
    BY DEF InLine, Before
  <1>2. ASSUME NEW x \in E \union (Q \union A), NEW y \in Upto(x)
        PROVE  y \in P \union E \union (Q \union A)
    <2>1. x \in Nat /\ y \in Nat /\ y < x /\ x < top
      BY <1>2 DEF InLine, Upto
    <2>2. y \in P \union E \union Q \union A \union B
      BY <2>1 DEF NoneLost, Upto
    <2>3. y \notin B
      BY <1>2, <2>1 DEF InLine, Before
    <2> QED BY <2>2, <2>3
  <1>3. NoneLost(P, E, Q \union A, {}, B, top)
    BY DEF NoneLost
  <1> QED BY <1>1, <1>2, <1>3 DEF NoGap

(* Messages are fetched, and some of those buffered are handed over.       *)
LEMMA LineFetched ==
  ASSUME NEW P, NEW E, NEW Q, NEW A, NEW B, NEW top \in Nat, NEW A2, NEW B2, NEW n \in Nat,
         E \subseteq Nat, Q \subseteq Nat, A \subseteq Nat, B \subseteq Nat,
         InLine(E, Q, A, B, top),
         A2 \union B2 = A \union B \union (top .. (top + n - 1)), Before(A2, B2)
  PROVE  /\ InLine(E, Q, A2, B2, top + n)
         /\ NoneLost(P, E, Q, A, B, top) => NoneLost(P, E, Q, A2, B2, top + n)
  <1>1. \A x \in E \union Q, y \in top .. (top + n - 1) : x < y
    BY DEF InLine, Upto
  <1>2. Before(E, Q \union A2 \union B2) /\ Before(Q, A2 \union B2)
    BY <1>1 DEF InLine, Before
  <1>3. E \union Q \union A2 \union B2 \subseteq Upto(top + n)
    <2>1. Upto(top) \subseteq Upto(top + n)
      BY DEF Upto
    <2>2. top .. (top + n - 1) \subseteq Upto(top + n)
      BY DEF Upto
    <2> QED BY <2>1, <2>2 DEF InLine
  <1>4. NoneLost(P, E, Q, A, B, top) => NoneLost(P, E, Q, A2, B2, top + n)
    <2> SUFFICES ASSUME NoneLost(P, E, Q, A, B, top), NEW x \in Upto(top + n),
                        x \notin P, x \notin E, x \notin Q
                 PROVE  x \in A2 \union B2
      BY DEF NoneLost
    <2>1. CASE x < top
      BY <2>1 DEF NoneLost, Upto
    <2>2. CASE ~(x < top)
      BY <2>2 DEF Upto
    <2> QED BY <2>1, <2>2
  <1> QED BY <1>2, <1>3, <1>4 DEF InLine

-----------------------------------------------------------------------------
(* Who works on an undisturbed partition.                                  *)

LEMMA OffsetsAreNat == Offsets \subseteq Nat
  BY ConstantsAssumption DEF Offsets

LEMMA LineTypes ==
  ASSUME NEW p, NEW batch
  PROVE  /\ Handled(p) \subseteq Nat /\ Waiting(p) \subseteq Nat
         /\ OffsetsIn(batch, p) \subseteq Nat
  BY OffsetsAreNat DEF Handled, Waiting, QueueOffsets, OffsetsIn

LEMMA BusyHolds ==
  ASSUME TypeOK, Births, Turns, NEW p \in Partitions, Undisturbed(p),
         NEW w \in Workers, Busy(w, p)
  PROVE  /\ Holds(worker[w], p, part[p]) /\ Live(w)
         /\ worker[w].entries \in Seq(Offsets) /\ Len(worker[w].entries) \in Nat \ {0}
         /\ \A i \in 1..Len(worker[w].entries) : worker[w].entries[i] \in Offsets
  <1>1. /\ worker[w] \in WorkerState /\ part[p] \in PartitionState
        /\ worker[w].pc = "busy" /\ worker[w].p = p
    BY DEF TypeOK, Busy
  <1>2. part[p].epoch = 0 /\ part[p].born <= part[p].epoch /\ part[p].born \in Nat
    BY <1>1 DEF Births, Undisturbed, PartitionState
  <1>3. /\ worker[w].born <= part[p].born /\ worker[w].epoch <= part[p].epoch
        /\ worker[w].born \in Nat /\ worker[w].epoch \in Nat /\ worker[w].entries # <<>>
    BY <1>1 DEF Turns, Working, WorkerState
  <1>4. worker[w].born = part[p].born /\ worker[w].epoch = part[p].epoch
    BY <1>2, <1>3
  <1>5. worker[w].entries \in Seq(Offsets)
    BY <1>1 DEF WorkerState
  <1>6. Len(worker[w].entries) \in Nat \ {0}
    BY <1>3, <1>5, EmptySeq
  <1>7. \A i \in 1..Len(worker[w].entries) : worker[w].entries[i] \in Offsets
    BY <1>5, ElementOfSeq
  <1> QED BY <1>1, <1>4, <1>5, <1>6, <1>7 DEF Holds, Live, Working

LEMMA OneHandler ==
  ASSUME Inv, NEW p \in Partitions, Undisturbed(p), Known(p)
  PROVE  Alone(p)
  <1>1. TypeOK /\ Births /\ Turns /\ Claims
    BY DEF Inv
  <1>2. \A v, w \in Workers :
          Holds(worker[v], p, part[p]) /\ Holds(worker[w], p, part[p]) => v = w
    BY <1>1 DEF Claims
  <1>3. \A w \in Workers : Busy(w, p) => Holds(worker[w], p, part[p])
    BY <1>1, BusyHolds
  <1> QED BY <1>2, <1>3 DEF Alone

(* The offsets in hand are the one handler's.                              *)
LEMMA HandledIs ==
  ASSUME TypeOK, NEW p \in Partitions, Alone(p), NEW w \in Workers, Busy(w, p)
  PROVE  \A x : x \in Handled(p) <=> \E i \in 1..Len(worker[w].entries) : worker[w].entries[i] = x
  <1>1. worker[w].entries \in Seq(Offsets)
    BY DEF TypeOK, WorkerState
  <1>2. \A i \in 1..Len(worker[w].entries) : worker[w].entries[i] \in Offsets
    BY <1>1, ElementOfSeq
  <1>3. \A v \in Workers : Busy(v, p) => v = w
    BY DEF Alone
  <1> QED BY <1>2, <1>3 DEF Handled

LEMMA NobodyHandles ==
  ASSUME NEW p, \A w \in Workers : ~Busy(w, p)
  PROVE  Handled(p) = {}
  BY DEF Handled

-----------------------------------------------------------------------------
(* Steps that fetch nothing.                                               *)

LEMMA StraightOn ==
  ASSUME NEW p \in Partitions, Straight(p), NEW E2, NEW Q2, NEW P2, NEW A2,
         E2 = Handled(p)', Q2 = Waiting(p)', P2 = Processed(p)', A2 = OffsetsIn(Answered, p)',
         A2 = OffsetsIn(Answered, p), RisesFor(Answered, p)',
         buffer' = buffer, pos'[p] = pos[p], runEpoch' <= 1 => runEpoch <= 1,
         \A w \in Workers : InHand(w, p)', QueueRises(part[p].queue)', StoresProcessed(p)',
         Processed(p) \subseteq P2, Handled(p) \subseteq P2 \union E2 \union Q2,
         Waiting(p) \subseteq E2 \union Q2, E2 \union Q2 \subseteq Handled(p) \union Waiting(p),
         Before(E2, Q2)
  PROVE  Straight(p)'
  <1> DEFINE P == Processed(p)
             E == Handled(p)
             Q == Waiting(p)
             A == OffsetsIn(Answered, p)
             B == OffsetsIn(buffer, p)
             top == pos[p]
  <1>1. /\ InLine(E, Q, A, B, top) /\ NoGap(P, E, Q)
        /\ runEpoch <= 1 => NoneLost(P, E, Q, A, B, top)
    BY DEF Straight
  <1>2. B' = B /\ RisesFor(buffer, p)'
    BY DEF OffsetsIn, RisesFor, Straight
  <1> HIDE DEF P, E, Q, A, B, top
  <1>3. /\ InLine(E2, Q2, A, B, top) /\ NoGap(P2, E2, Q2)
        /\ NoneLost(P, E, Q, A, B, top) => NoneLost(P2, E2, Q2, A, B, top)
    <2>1. /\ P \subseteq P2 /\ E \subseteq P2 \union E2 \union Q2 /\ Q \subseteq E2 \union Q2
          /\ E2 \union Q2 \subseteq E \union Q
      BY DEF P, E, Q
    <2> QED BY ONLY <1>1, <2>1, Before(E2, Q2), LineAdvances
  <1>4. /\ InLine(Handled(p), Waiting(p), OffsetsIn(Answered, p), OffsetsIn(buffer, p), pos[p])'
        /\ NoGap(Processed(p), Handled(p), Waiting(p))'
        /\ (runEpoch <= 1)' => NoneLost(Processed(p), Handled(p), Waiting(p), OffsetsIn(Answered, p),
                                        OffsetsIn(buffer, p), pos[p])'
    BY <1>1, <1>2, <1>3 DEF A, B, top, InLine, NoGap, NoneLost, Before
  <1> QED BY <1>2, <1>4 DEF Straight

(* Neither the turn on p nor its queue changes.                            *)
SameTurn(p) ==
  /\ \A w \in Workers : /\ Busy(w, p)' <=> Busy(w, p)
                        /\ Busy(w, p) => worker'[w] = worker[w]
  /\ part'[p].queue = part[p].queue

LEMMA SameTurnIs ==
  ASSUME NEW p, SameTurn(p)
  PROVE  Handled(p)' = Handled(p) /\ Waiting(p)' = Waiting(p)
  BY DEF SameTurn, Handled, Waiting, QueueOffsets

LEMMA Untouched ==
  ASSUME NEW p \in Partitions, Straight(p), SameTurn(p),
         OffsetsIn(Answered, p)' = OffsetsIn(Answered, p), RisesFor(Answered, p)',
         buffer' = buffer, pos'[p] = pos[p], runEpoch' <= 1 => runEpoch <= 1,
         (\A w \in Workers : ~Busy(w, p)) \/ (EachBatch' <=> EachBatch),
         done'[p] = done[p], excused[p] \subseteq excused'[p], StoresProcessed(p)'
  PROVE  Straight(p)'
  <1>1. Handled(p)' = Handled(p) /\ Waiting(p)' = Waiting(p)
    BY SameTurnIs
  <1>2. \A w \in Workers : InHand(w, p)'
    <2> SUFFICES ASSUME NEW w \in Workers, Busy(w, p)' PROVE InHand(w, p)'
      BY DEF InHand
    <2>1. worker'[w] = worker[w] /\ Busy(w, p) /\ (EachBatch' <=> EachBatch)
      BY DEF SameTurn
    <2> QED BY <2>1 DEF InHand, Straight, Rising
  <1>3. QueueRises(part[p].queue)'
    BY DEF SameTurn, QueueRises, Straight
  <1>4. Processed(p) \subseteq Processed(p)'
    BY DEF Processed
  <1>5. Before(Handled(p)', Waiting(p)')
    BY <1>1 DEF Straight, InLine, Before
  <1> QED BY <1>1, <1>2, <1>3, <1>4, <1>5, StraightOn
LEMMA Quiet ==
  ASSUME NEW p \in Partitions, Calm(p), Straight(p), SameTurn(p),
         Answered' = Answered, buffer' = buffer, pos'[p] = pos[p],
         UNCHANGED <<runEpoch, running, halting, handler>>,
         done'[p] = done[p], excused[p] \subseteq excused'[p], StoresProcessed(p)',
         Known(p)', p \in assigned', seeks'[p] = {}, rebalance' # None => p \notin rebalance'.parts
  PROVE  Calm(p)' /\ Straight(p)'
  <1>1. Calm(p)'
    BY DEF Calm
  <1>2. OffsetsIn(Answered, p)' = OffsetsIn(Answered, p) /\ RisesFor(Answered, p)'
    BY DEF OffsetsIn, RisesFor, Straight
  <1>3. EachBatch' <=> EachBatch
    BY DEF EachBatch
  <1> QED BY <1>1, <1>2, <1>3, Untouched

LEMMA SameStores ==
  ASSUME NEW p \in Partitions, Straight(p), stored'[p] = stored[p], Processed(p) \subseteq Processed(p)'
  PROVE  StoresProcessed(p)'
  BY DEF Straight, StoresProcessed

LEMMA SameProcessed ==
  ASSUME NEW p, done'[p] = done[p], excused[p] \subseteq excused'[p]
  PROVE  Processed(p) \subseteq Processed(p)'
  BY DEF Processed

LEMMA SameWorkersTurn ==
  ASSUME NEW p, worker' = worker, part'[p].queue = part[p].queue
  PROVE  SameTurn(p)
  BY DEF SameTurn, Busy

LEMMA WokenTurn ==
  ASSUME TypeOK, NEW p, worker' = Signalled(worker), part'[p].queue = part[p].queue
  PROVE  SameTurn(p)
  <1>1. worker \in [Workers -> WorkerState]
    BY DEF TypeOK
  <1>2. \A w \in Workers : /\ Working(worker'[w]) <=> Working(worker[w])
                           /\ Working(worker[w]) => worker'[w] = worker[w]
    BY <1>1, SignalledType
  <1> QED BY <1>2 DEF SameTurn, Busy, Working

(* What is done to another partition is nothing to p.                      *)
LEMMA Elsewhere ==
  ASSUME NEW p \in Partitions, Calm(p), Straight(p), worker' = worker,
         UNCHANGED <<runVars, order, answer, buffer, rebalance, assigned>>,
         part'[p].queue = part[p].queue, pos'[p] = pos[p], stored'[p] = stored[p],
         done'[p] = done[p], excused[p] \subseteq excused'[p], seeks'[p] = {}
  PROVE  Calm(p)' /\ Straight(p)'
  <1>1. SameTurn(p) /\ Answered' = Answered /\ Known(p)' /\ p \in assigned'
    BY SameWorkersTurn DEF Answered, Known, Calm
  <1>2. StoresProcessed(p)'
    BY SameProcessed, SameStores
  <1>3. rebalance' # None => p \notin rebalance'.parts
    BY DEF Calm
  <1> QED BY <1>1, <1>2, <1>3, Quiet DEF runVars

LEMMA RequestTimeoutOrder ==
  ASSUME Inv, OrderInv, NEW p \in Partitions, Undisturbed(p)', RequestTimeout
  PROVE  Calm(p)' /\ Straight(p)'
  <1>1. /\ request # 0 /\ answer' = [run |-> request, batch |-> <<>>]
        /\ UNCHANGED <<runVars, partVars, buffer, worker, seeks, rebalance, rdVars, history>>
    BY DEF RequestTimeout
  <1>2. part' = part
    BY <1>1 DEF partVars
  <1>3. Calm(p) /\ Straight(p)
    BY <1>2 DEF OrderInv, Undisturbed
  <1>4. Answered' = Answered
    <2>1. answer = None
      BY <1>1 DEF Inv, OneFetchAtATime
    <2>2. request \in Nat /\ <<>> \in Seq(Message)
      BY EmptySeq DEF Inv, TypeOK
    <2>3. answer' # None
      BY <1>1, <2>2, AnswersAreSome
    <2> QED BY <1>1, <2>1, <2>3 DEF Answered
  <1>5. SameTurn(p) /\ Known(p)' /\ p \in assigned'
    BY <1>1, <1>2, <1>3, SameWorkersTurn DEF Calm, Known, partVars, rdVars
  <1>6. StoresProcessed(p)'
    BY <1>1, <1>3, SameProcessed, SameStores DEF rdVars, history
  <1> QED BY <1>1, <1>3, <1>4, <1>5, <1>6, Quiet DEF Calm, runVars, rdVars, history
(* A step that begins a new epoch of p disturbs it.                        *)
LEMMA BumpDisturbs ==
  ASSUME TypeOK, NEW p \in Partitions, part'[p].epoch = part[p].epoch + 1
  PROVE  ~Undisturbed(p)'
  <1>1. part[p].epoch \in Nat
    BY DEF TypeOK, PartitionState
  <1> QED BY <1>1 DEF Undisturbed

LEMMA RunSeekOrder ==
  ASSUME Inv, OrderInv, NEW p \in Partitions, Undisturbed(p)', NEW q \in Partitions, RunSeek(q)
  PROVE  Calm(p)' /\ Straight(p)'
  <1>1. PICK j \in seeks[q] :
          /\ \/ pos' = [pos EXCEPT ![q] = j.off]
             \/ pos' = pos
          /\ \E after : seeks' = [seeks EXCEPT ![q] = after]
          /\ UNCHANGED <<runVars, partVars, fetchVars, worker, rebalance, assigned,
                         rdPaused, stored, committed, history>>
    BY DEF RunSeek
  <1>2. part' = part
    BY <1>1 DEF partVars
  <1>3. Calm(p) /\ Straight(p)
    BY <1>2 DEF OrderInv, Undisturbed
  <1>4. p # q
    BY <1>1, <1>3 DEF Calm
  <1>5. /\ pos \in [Partitions -> Nat]
        /\ seeks \in [Partitions -> SUBSET [off : Nat, epoch : Nat, attempt : Nat]]
    BY DEF Inv, TypeOK
  <1>6. pos'[p] = pos[p] /\ seeks'[p] = {}
    BY <1>1, <1>3, <1>4, <1>5 DEF Calm
  <1> QED BY <1>1, <1>2, <1>3, <1>6, Elsewhere DEF partVars, fetchVars, history

LEMMA SeekCompletedOrder ==
  ASSUME Inv, OrderInv, NEW p \in Partitions, Undisturbed(p)', NEW q \in Partitions,
         SeekCompleted(q)
  PROVE  Calm(p)' /\ Straight(p)'
  <1>1. UNCHANGED <<runVars, partVars, fetchVars, worker, seeks, rebalance, assigned,
                    rdPaused, pos, stored, committed, history>>
    BY DEF SeekCompleted
  <1>2. part' = part
    BY <1>1 DEF partVars
  <1>3. Calm(p) /\ Straight(p)
    BY <1>2 DEF OrderInv, Undisturbed
  <1> QED BY <1>1, <1>2, <1>3, Elsewhere DEF partVars, fetchVars, history, Calm

LEMMA SeekOrder ==
  ASSUME Inv, OrderInv, NEW p \in Partitions, Undisturbed(p)', NEW q \in Partitions, Seek(q)
  PROVE  Calm(p)' /\ Straight(p)'
  <1>0. /\ TypeOK /\ part \in [Partitions -> PartitionState]
        /\ seeks \in [Partitions -> SUBSET [off : Nat, epoch : Nat, attempt : Nat]]
        /\ excused \in [Partitions -> SUBSET Offsets]
    BY DEF Inv, TypeOK
  <1>1. PICK o \in 0..LogEnd :
          /\ excused' = [excused EXCEPT ![q] = @ \union Upto(o)]
          /\ IF Known(q)
             THEN /\ part' = [part EXCEPT ![q] = [Bumped(@) EXCEPT !.storedNext = o]]
                  /\ SeekQueued(q, o)
             ELSE UNCHANGED <<part, seeks>>
          /\ UNCHANGED <<runVars, order, fetchVars, worker, rebalance,
                         assigned, rdPaused, pos, seeking, stored, done>>
    BY DEF Seek
  <1>2. CASE Known(q) /\ p = q
    <2>1. part'[p] = [Bumped(part[p]) EXCEPT !.storedNext = o]
      BY <1>0, <1>1, <1>2
    <2>2. part'[p].epoch = part[p].epoch + 1
      BY <1>0, <2>1 DEF Bumped, PartitionState
    <2> QED BY <1>0, <2>2, BumpDisturbs
  <1>3. CASE ~(Known(q) /\ p = q)
    <2>1. part'[p] = part[p] /\ seeks'[p] = seeks[p]
      BY <1>0, <1>1, <1>3 DEF SeekQueued
    <2>2. Calm(p) /\ Straight(p)
      BY <2>1 DEF OrderInv, Undisturbed
    <2>3. excused[p] \subseteq excused'[p]
      BY <1>0, <1>1
    <2> QED BY <1>1, <2>1, <2>2, <2>3, Elsewhere DEF fetchVars, Calm
  <1> QED BY <1>2, <1>3

LEMMA PauseOrder ==
  ASSUME Inv, OrderInv, NEW p \in Partitions, Undisturbed(p)', NEW q \in Partitions, Pause(q)
  PROVE  Calm(p)' /\ Straight(p)'
  <1> DEFINE next == NextUnprocessedOffset(part[q])
  <1>0. /\ TypeOK /\ part \in [Partitions -> PartitionState]
        /\ seeks \in [Partitions -> SUBSET [off : Nat, epoch : Nat, attempt : Nat]]
        /\ next \in Int
    <2>1. part[q] \in PartitionState /\ part[q].storedNext \in Nat \union {-1}
      BY DEF Inv, TypeOK, PartitionState
    <2>2. Current(part[q]) # {} => part[q].queue[Min(Current(part[q]))].off \in Nat
      BY <2>1, QueuedOffset
    <2>3. next \in Int
      BY <2>1, <2>2 DEF NextUnprocessedOffset
    <2> QED BY <2>3 DEF Inv, TypeOK
  <1>1. /\ CASE ~Known(q) -> UNCHANGED <<part, queuedTotal, seeks>>
          [] Known(q) /\ next >= 0 ->
               /\ part' = [part EXCEPT ![q] = [Bumped(@) EXCEPT !.paused = TRUE]]
               /\ queuedTotal' = TotalWithout(q)
               /\ SeekQueued(q, next)
          [] Known(q) /\ next < 0 ->
               /\ part' = [part EXCEPT ![q] =
                             [BumpedKeepingQueue(@) EXCEPT !.paused = TRUE]]
               /\ UNCHANGED <<queuedTotal, seeks>>
        /\ UNCHANGED <<runVars, order, fetchVars, worker, rebalance, assigned, pos, stored,
                       done, excused>>
    BY DEF Pause
  <1> HIDE DEF next
  <1>2. CASE ~Known(q)
    <2>1. part' = part /\ seeks' = seeks
      BY <1>1, <1>2
    <2>2. Calm(p) /\ Straight(p)
      BY <2>1 DEF OrderInv, Undisturbed
    <2> QED BY <1>1, <2>1, <2>2, Elsewhere DEF fetchVars, Calm
  <1>3. CASE Known(q)
    <2>1. \/ /\ part' = [part EXCEPT ![q] = [Bumped(@) EXCEPT !.paused = TRUE]]
             /\ SeekQueued(q, next)
          \/ /\ part' = [part EXCEPT ![q] = [BumpedKeepingQueue(@) EXCEPT !.paused = TRUE]]
             /\ seeks' = seeks
      <3>1. CASE next >= 0
        BY <1>1, <1>3, <3>1
      <3>2. CASE next < 0
        BY <1>1, <1>3, <3>2
      <3> QED BY <1>0, <3>1, <3>2
    <2>2. CASE p = q
      <3>1. \/ part'[p] = [Bumped(part[p]) EXCEPT !.paused = TRUE]
            \/ part'[p] = [BumpedKeepingQueue(part[p]) EXCEPT !.paused = TRUE]
        BY <1>0, <2>1, <2>2
      <3>2. part'[p].epoch = part[p].epoch + 1
        BY <1>0, <3>1 DEF Bumped, BumpedKeepingQueue, PartitionState
      <3> QED BY <1>0, <3>2, BumpDisturbs
    <2>3. CASE p # q
      <3>1. part'[p] = part[p] /\ seeks'[p] = seeks[p]
        BY <1>0, <2>1, <2>3 DEF SeekQueued
      <3>2. Calm(p) /\ Straight(p)
        BY <3>1 DEF OrderInv, Undisturbed
      <3> QED BY <1>1, <3>1, <3>2, Elsewhere DEF fetchVars, Calm
    <2> QED BY <2>2, <2>3
  <1> QED BY <1>2, <1>3

LEMMA ResumeOrder ==
  ASSUME Inv, OrderInv, NEW p \in Partitions, Undisturbed(p)', NEW q \in Partitions, Resume(q)
  PROVE  Calm(p)' /\ Straight(p)'
  <1>0. TypeOK /\ part \in [Partitions -> PartitionState]
    BY DEF Inv, TypeOK
  <1>1. /\ part' = IF Known(q) THEN [part EXCEPT ![q].paused = FALSE] ELSE part
        /\ worker' = Signalled(worker)
        /\ UNCHANGED <<runVars, order, fetchVars, seeks, rebalance, assigned, pos, stored, history>>
    BY DEF Resume
  <1>2. part'[p].queue = part[p].queue /\ part'[p].epoch = part[p].epoch
    BY <1>0, <1>1 DEF PartitionState
  <1>3. Calm(p) /\ Straight(p)
    BY <1>2 DEF OrderInv, Undisturbed
  <1>4. /\ SameTurn(p) /\ Answered' = Answered /\ Known(p)' /\ p \in assigned'
    BY <1>0, <1>1, <1>2, <1>3, WokenTurn DEF Answered, Known, Calm, fetchVars
  <1>5. StoresProcessed(p)'
    BY <1>1, <1>3, SameProcessed, SameStores DEF history
  <1> QED BY <1>1, <1>3, <1>4, <1>5, Quiet DEF Calm, runVars, fetchVars, history

LEMMA StoreOffsetsOrder ==
  ASSUME Inv, OrderInv, NEW p \in Partitions, Undisturbed(p)', NEW q \in Partitions,
         StoreOffsets(q)
  PROVE  Calm(p)' /\ Straight(p)'
  <1>0. /\ TypeOK /\ part \in [Partitions -> PartitionState]
        /\ excused \in [Partitions -> SUBSET Offsets]
        /\ stored \in [Partitions -> Nat \union {-1}]
    BY DEF Inv, TypeOK
  <1>1. PICK o \in 0..LogEnd :
          /\ stored' = [stored EXCEPT ![q] = o]
          /\ part' = IF Known(q) THEN [part EXCEPT ![q].storedNext = o] ELSE part
          /\ excused' = [excused EXCEPT ![q] = @ \union Upto(o)]
          /\ UNCHANGED <<runVars, order, fetchVars, worker, seeks, rebalance, assigned, pos, done>>
    BY DEF StoreOffsets
  <1>2. part'[p].queue = part[p].queue /\ part'[p].epoch = part[p].epoch
    BY <1>0, <1>1 DEF PartitionState
  <1>3. Calm(p) /\ Straight(p)
    BY <1>2 DEF OrderInv, Undisturbed
  <1>4. /\ SameTurn(p) /\ Answered' = Answered /\ Known(p)' /\ p \in assigned'
    BY <1>1, <1>2, <1>3, SameWorkersTurn DEF Answered, Known, Calm, fetchVars
  <1>5. excused[p] \subseteq excused'[p]
    BY <1>0, <1>1
  <1>6. StoresProcessed(p)'
    <2>1. CASE p = q
      BY <1>0, <1>1, <2>1 DEF StoresProcessed, Processed
    <2>2. CASE p # q
      BY <1>0, <1>1, <1>3, <1>5, <2>2, SameProcessed, SameStores
    <2> QED BY <2>1, <2>2
  <1> QED BY <1>1, <1>3, <1>4, <1>5, <1>6, Quiet DEF Calm, runVars, fetchVars

LEMMA CommitOffsetsOrder ==
  ASSUME Inv, OrderInv, NEW p \in Partitions, Undisturbed(p)', NEW q \in Partitions,
         CommitOffsets(q)
  PROVE  Calm(p)' /\ Straight(p)'
  <1>1. UNCHANGED <<runVars, partVars, fetchVars, worker, seeks, rebalance, assigned,
                    rdPaused, pos, stored, done, excused>>
    BY DEF CommitOffsets
  <1>2. part' = part
    BY <1>1 DEF partVars
  <1>3. Calm(p) /\ Straight(p)
    BY <1>2 DEF OrderInv, Undisturbed
  <1> QED BY <1>1, <1>2, <1>3, Elsewhere DEF partVars, fetchVars, history, Calm

-----------------------------------------------------------------------------
(* Rebalances and halts.                                                   *)

LEMMA AssignEventOrder ==
  ASSUME Inv, OrderInv, NEW p \in Partitions, Undisturbed(p)', AssignEvent
  PROVE  Calm(p)' /\ Straight(p)'
  <1>1. PICK S \in SUBSET (Partitions \ assigned) \ {{}} :
          /\ rebalance' = [assign |-> TRUE, parts |-> S]
          /\ UNCHANGED <<runVars, partVars, fetchVars, worker, seeks, rdVars, done, excused>>
    BY DEF AssignEvent
  <1>2. part' = part
    BY <1>1 DEF partVars
  <1>3. Calm(p) /\ Straight(p)
    BY <1>2 DEF OrderInv, Undisturbed
  <1>4. /\ SameTurn(p) /\ Answered' = Answered /\ Known(p)' /\ p \in assigned'
        /\ p \notin rebalance'.parts
    BY <1>1, <1>2, <1>3, SameWorkersTurn DEF Answered, Known, Calm, partVars, fetchVars, rdVars
  <1>5. StoresProcessed(p)'
    BY <1>1, <1>3, SameProcessed, SameStores DEF rdVars
  <1> QED BY <1>1, <1>3, <1>4, <1>5, Quiet DEF Calm, runVars, fetchVars, rdVars

LEMMA ForgottenIs ==
  ASSUME TypeOK, NEW S, ForgetPartitions(S), NEW p \in Partitions, Undisturbed(p)', Known(p)
  PROVE  p \notin S /\ part'[p] = part[p] /\ Known(p)'
  <1>1. part' = Forgotten(S)
    BY DEF ForgetPartitions
  <1>2. CASE p \in S
    <2>1. part'[p] = Bumped(part[p])
      BY <1>1, <1>2 DEF Forgotten
    <2>2. part'[p].epoch = part[p].epoch + 1
      BY <2>1 DEF Bumped, TypeOK, PartitionState
    <2> QED BY <2>2, BumpDisturbs
  <1>3. CASE p \notin S
    <2>1. part'[p] = part[p]
      BY <1>1, <1>3 DEF Forgotten
    <2> QED BY <1>3, <2>1, ForgetKnows
  <1> QED BY <1>2, <1>3

(* A partition whose state object is not the first has been disturbed.     *)
LEMMA FirstOnesAreKnown ==
  ASSUME Births, TypeOK, NEW p \in Partitions, Undisturbed(p)
  PROVE  Known(p)
  <1>1. part[p].born \in Nat
    BY DEF TypeOK, PartitionState
  <1> QED BY <1>1 DEF Births, Undisturbed

LEMMA ForgetUndisturbs ==
  ASSUME TypeOK, Births, NEW S, ForgetPartitions(S), NEW p \in Partitions, Undisturbed(p)'
  PROVE  Undisturbed(p) /\ p \notin S /\ part'[p] = part[p] /\ Known(p)'
  <1>1. part' = Forgotten(S)
    BY DEF ForgetPartitions
  <1>2. CASE Known(p)
    BY <1>2, ForgottenIs DEF Undisturbed
  <1>3. CASE ~Known(p)
    <2>1. part'[p] = part[p]
      BY <1>1, <1>3 DEF Forgotten
    <2> QED BY <1>3, <2>1, FirstOnesAreKnown DEF Undisturbed
  <1> QED BY <1>2, <1>3

LEMMA RevokeEventOrder ==
  ASSUME Inv, OrderInv, NEW p \in Partitions, Undisturbed(p)', RevokeEvent
  PROVE  Calm(p)' /\ Straight(p)'
  <1>1. PICK S \in SUBSET assigned \ {{}} :
          /\ ForgetPartitions(S)
          /\ rebalance' = [assign |-> FALSE, parts |-> S]
          /\ UNCHANGED <<runVars, claimCursor, pendingSeeks, fetchVars, worker, seeks,
                         rdVars, done, excused>>
    BY DEF RevokeEvent
  <1>2. Undisturbed(p) /\ p \notin S /\ part'[p] = part[p] /\ Known(p)'
    BY <1>1, ForgetUndisturbs DEF Inv
  <1>3. Calm(p) /\ Straight(p)
    BY <1>2 DEF OrderInv
  <1>4. /\ SameTurn(p) /\ Answered' = Answered /\ p \in assigned'
        /\ p \notin rebalance'.parts
    BY <1>1, <1>2, <1>3, SameWorkersTurn DEF Answered, Calm, fetchVars, rdVars
  <1>5. StoresProcessed(p)'
    BY <1>1, <1>3, SameProcessed, SameStores DEF rdVars
  <1> QED BY <1>1, <1>2, <1>3, <1>4, <1>5, Quiet DEF Calm, runVars, fetchVars, rdVars

LEMMA RebalanceDoneOrder ==
  ASSUME Inv, OrderInv, NEW p \in Partitions, Undisturbed(p)', RebalanceDone
  PROVE  Calm(p)' /\ Straight(p)'
  <1> DEFINE S == rebalance.parts
  <1>0. /\ TypeOK /\ Births /\ order \in Seq(Partitions) /\ pos \in [Partitions -> Nat]
        /\ stored \in [Partitions -> Nat \union {-1}]
    BY DEF Inv, TypeOK
  <1>1. /\ rebalance # None /\ rebalance' = None
        /\ UNCHANGED <<runVars, claimCursor, fetchVars, seeks, history>>
        /\ AssignFn(S) \/ UnassignFn(S)
    BY DEF RebalanceDone
  <1>2. S \subseteq Partitions
    BY <1>0, <1>1 DEF TypeOK
  <1>3. /\ Undisturbed(p) /\ (p \notin S => part'[p] = part[p] /\ Known(p)')
        /\ p \notin S => pos'[p] = pos[p] /\ stored'[p] = stored[p]
        /\ SameTurn(p) \/ p \in S
        /\ assigned \ S \subseteq assigned'
    <2>1. CASE AssignFn(S)
      <3>0. Undisturbed(p)
        <4>1. part'[p].epoch = part[p].epoch
          <5>1. /\ Ensured(p) \in PartitionState /\ Ensured(p).epoch = part[p].epoch
            BY <1>0, EnsuredIs
          <5>2. \/ part'[p] = [Ensured(p) EXCEPT !.storedNext = pendingSeeks[p]]
                \/ part'[p] = Ensured(p)
                \/ part'[p] = part[p]
            BY <2>1 DEF AssignFn
          <5> QED BY <5>1, <5>2 DEF PartitionState
        <4> QED BY <4>1 DEF Undisturbed
      <3>1. /\ p \notin S => part'[p] = part[p] /\ pos'[p] = pos[p] /\ stored'[p] = stored[p]
            /\ order' = order \o SetToSeq({q \in S : ~Known(q)})
            /\ worker' = Signalled(worker) /\ assigned' = assigned \union S
        BY <2>1 DEF AssignFn
      <3>2. Known(p) => Known(p)'
        BY <1>0, <1>2, <3>1, NewKeys
      <3>3. Known(p)
        BY <1>0, <3>0, FirstOnesAreKnown
      <3>4. p \notin S => SameTurn(p)
        BY <1>0, <3>1, WokenTurn
      <3> QED BY <3>0, <3>1, <3>2, <3>3, <3>4
    <2>2. CASE UnassignFn(S)
      <3>1. /\ ForgetPartitions(S) /\ assigned' = assigned \ S
            /\ stored' = [q \in Partitions |-> IF q \in S THEN -1 ELSE stored[q]]
            /\ UNCHANGED <<pos, worker>>
        BY <2>2 DEF UnassignFn
      <3>2. Undisturbed(p) /\ p \notin S /\ part'[p] = part[p] /\ Known(p)'
        BY <1>0, <3>1, ForgetUndisturbs
      <3>3. SameTurn(p)
        BY <3>1, <3>2, SameWorkersTurn
      <3> QED BY <3>1, <3>2, <3>3
    <2> QED BY <1>1, <2>1, <2>2
  <1>4. Calm(p) /\ Straight(p)
    BY <1>3 DEF OrderInv
  <1>5. p \notin S
    BY <1>1, <1>4 DEF Calm
  <1> HIDE DEF S
  <1>6. Answered' = Answered /\ p \in assigned'
    BY <1>1, <1>3, <1>4, <1>5 DEF Answered, Calm, fetchVars
  <1>7. StoresProcessed(p)'
    BY <1>1, <1>3, <1>4, <1>5, SameProcessed, SameStores DEF history
  <1> QED BY <1>1, <1>3, <1>4, <1>5, <1>6, <1>7, Quiet DEF Calm, runVars, fetchVars, history

LEMMA HaltOrder ==
  ASSUME Inv, OrderInv, NEW p \in Partitions, Undisturbed(p)', NEW kind \in {"stop", "disconnect"},
         Halt(kind)
  PROVE  Calm(p)' /\ Straight(p)'
  <1>1. /\ running /\ running' = FALSE /\ runEpoch' = runEpoch + 1 /\ halting' = kind
        /\ worker' = Signalled(worker)
        /\ UNCHANGED <<connected, handler, partVars, fetchVars, seeks, rebalance, rdVars,
                       done, excused>>
    BY DEF Halt
  <1>2. part' = part /\ TypeOK /\ runEpoch \in Nat \ {0}
    BY <1>1 DEF partVars, Inv, TypeOK, Halts
  <1>3. Calm(p) /\ Straight(p)
    BY <1>2 DEF OrderInv, Undisturbed
  <1>4. /\ SameTurn(p) /\ OffsetsIn(Answered, p)' = OffsetsIn(Answered, p)
        /\ RisesFor(Answered, p)'
    BY <1>1, <1>2, <1>3, WokenTurn DEF Answered, OffsetsIn, RisesFor, Straight, fetchVars
  <1>5. StoresProcessed(p)'
    BY <1>1, <1>3, SameProcessed, SameStores DEF rdVars
  <1>6. Calm(p)'
    BY <1>1, <1>2, <1>3 DEF Calm, Known, partVars, rdVars
  <1>7. ~(runEpoch' <= 1)
    BY <1>1, <1>2
  <1>8. (EachBatch' <=> EachBatch) /\ buffer' = buffer /\ pos' = pos /\ done' = done
        /\ excused' = excused
    BY <1>1 DEF EachBatch, fetchVars, rdVars
  <1> QED BY <1>3, <1>4, <1>5, <1>6, <1>7, <1>8, Untouched

LEMMA RunOrder ==
  ASSUME Inv, OrderInv, NEW p \in Partitions, Undisturbed(p)', Run
  PROVE  Calm(p)' /\ Straight(p)'
  <1>1. /\ ~running /\ halting = "no" /\ running' = TRUE /\ runEpoch' = runEpoch + 1
        /\ worker' = [w \in Workers |-> Idle("ready")]
        /\ UNCHANGED <<connected, halting, partVars, answer, buffer, seeks, rebalance,
                       rdVars, history>>
    BY DEF Run
  <1>2. part' = part /\ TypeOK /\ runEpoch \in Nat
    BY <1>1 DEF partVars, Inv, TypeOK
  <1>3. Calm(p) /\ Straight(p)
    BY <1>2 DEF OrderInv, Undisturbed
  <1>4. runEpoch = 0
    BY <1>1, <1>2, <1>3 DEF Calm, OrderInv, RunsCounted
  <1>5. \A w \in Workers : ~Busy(w, p) /\ ~Busy(w, p)'
    <2>1. \A w \in Workers : worker[w].pc = "off"
      BY <1>1 DEF Inv, StopMeansStopped
    <2>2. \A w \in Workers : worker'[w].pc = "ready"
      BY <1>1 DEF Idle
    <2> QED BY <2>1, <2>2 DEF Busy
  <1>6. /\ SameTurn(p) /\ OffsetsIn(Answered, p)' = OffsetsIn(Answered, p)
        /\ RisesFor(Answered, p)'
    BY <1>1, <1>2, <1>3, <1>5 DEF SameTurn, Answered, OffsetsIn, RisesFor, Straight
  <1>7. StoresProcessed(p)'
    BY <1>1, <1>3, SameProcessed, SameStores DEF rdVars, history
  <1>8. Calm(p)'
    BY <1>1, <1>2, <1>3, <1>4 DEF Calm, Known, partVars, rdVars
  <1>9. runEpoch <= 1 /\ buffer' = buffer /\ pos' = pos /\ done' = done /\ excused' = excused
    BY <1>1, <1>4 DEF rdVars, history
  <1> QED BY <1>3, <1>5, <1>6, <1>7, <1>8, <1>9, Untouched

LEMMA HaltDoneOrder ==
  ASSUME Inv, OrderInv, NEW p \in Partitions, Undisturbed(p)', HaltDone
  PROVE  FALSE
  <1>0. TypeOK /\ Births
    BY DEF Inv
  <1>1. part'[p] = IF Known(p) THEN Bumped(part[p]) ELSE part[p]
    BY DEF HaltDone
  <1>2. CASE Known(p)
    <2>1. part'[p].epoch = part[p].epoch + 1
      BY <1>0, <1>1, <1>2 DEF Bumped, TypeOK, PartitionState
    <2> QED BY <1>0, <2>1, BumpDisturbs
  <1>3. CASE ~Known(p)
    BY <1>0, <1>1, <1>3, FirstOnesAreKnown DEF Undisturbed
  <1> QED BY <1>2, <1>3

-----------------------------------------------------------------------------
(* Fetching.                                                               *)

(* h is a followed by b.                                                   *)
Joined(h, a, b) ==
  /\ Len(a) \in Nat /\ Len(b) \in Nat /\ Len(h) = Len(a) + Len(b)
  /\ \A i \in 1..Len(a) : h[i] = a[i]
  /\ \A i \in 1..Len(b) : h[Len(a) + i] = b[i]

LEMMA JoinedPlaces ==
  ASSUME NEW h, NEW a, NEW b, Joined(h, a, b), NEW i \in 1..Len(h)
  PROVE  \/ i \in 1..Len(a) /\ h[i] = a[i]
         \/ i - Len(a) \in 1..Len(b) /\ h[i] = b[i - Len(a)]
  <1>1. CASE i <= Len(a)
    BY <1>1 DEF Joined
  <1>2. CASE ~(i <= Len(a))
    <2>1. i - Len(a) \in 1..Len(b) /\ i = Len(a) + (i - Len(a))
      BY <1>2 DEF Joined
    <2> QED BY <2>1 DEF Joined
  <1> QED BY <1>1, <1>2

LEMMA JoinedOffsets ==
  ASSUME NEW h, NEW a, NEW b, Joined(h, a, b), NEW p
  PROVE  /\ OffsetsIn(h, p) = OffsetsIn(a, p) \union OffsetsIn(b, p)
         /\ RisesFor(h, p) <=> /\ RisesFor(a, p) /\ RisesFor(b, p)
                               /\ Before(OffsetsIn(a, p), OffsetsIn(b, p))
  <1>1. \A i \in 1..Len(a) : i \in 1..Len(h) /\ h[i] = a[i]
    BY DEF Joined
  <1>2. \A i \in 1..Len(b) : Len(a) + i \in 1..Len(h) /\ h[Len(a) + i] = b[i]
    BY DEF Joined
  <1>3. OffsetsIn(h, p) = OffsetsIn(a, p) \union OffsetsIn(b, p)
    <2>1. \A i \in 1..Len(h) : \/ i \in 1..Len(a) /\ h[i] = a[i]
                               \/ i - Len(a) \in 1..Len(b) /\ h[i] = b[i - Len(a)]
      BY JoinedPlaces
    <2> QED BY <1>1, <1>2, <2>1 DEF OffsetsIn
  <1>4. ASSUME RisesFor(h, p)
        PROVE  RisesFor(a, p) /\ RisesFor(b, p) /\ Before(OffsetsIn(a, p), OffsetsIn(b, p))
    <2>1. RisesFor(a, p)
      BY <1>1, <1>4 DEF RisesFor
    <2>2. RisesFor(b, p)
      <3> SUFFICES ASSUME NEW i \in 1..Len(b), NEW j \in 1..Len(b), NEW x \in Offsets,
                          NEW y \in Offsets, i < j, b[i] = <<p, x>>, b[j] = <<p, y>>
                   PROVE  x < y
        BY DEF RisesFor
      <3>1. Len(a) + i < Len(a) + j
        BY DEF Joined
      <3> QED BY <1>2, <1>4, <3>1 DEF RisesFor
    <2>3. Before(OffsetsIn(a, p), OffsetsIn(b, p))
      <3> SUFFICES ASSUME NEW x \in OffsetsIn(a, p), NEW y \in OffsetsIn(b, p) PROVE x < y
        BY DEF Before
      <3>1. PICK i \in 1..Len(a) : a[i] = <<p, x>>
        BY DEF OffsetsIn
      <3>2. PICK j \in 1..Len(b) : b[j] = <<p, y>>
        BY DEF OffsetsIn
      <3>3. i < Len(a) + j
        BY DEF Joined
      <3>4. x \in Offsets /\ y \in Offsets
        BY DEF OffsetsIn
      <3> QED BY <1>1, <1>2, <1>4, <3>1, <3>2, <3>3, <3>4 DEF RisesFor
    <2> QED BY <2>1, <2>2, <2>3
  <1>5. ASSUME RisesFor(a, p), RisesFor(b, p), Before(OffsetsIn(a, p), OffsetsIn(b, p))
        PROVE  RisesFor(h, p)
    <2> SUFFICES ASSUME NEW i \in 1..Len(h), NEW j \in 1..Len(h), NEW x \in Offsets,
                        NEW y \in Offsets, i < j, h[i] = <<p, x>>, h[j] = <<p, y>>
                 PROVE  x < y
      BY DEF RisesFor
    <2>1. CASE j \in 1..Len(a)
      <3>1. i \in 1..Len(a)
        BY <2>1 DEF Joined
      <3> QED BY <1>1, <1>5, <2>1, <3>1 DEF RisesFor
    <2>2. CASE i \in 1..Len(a) /\ j \notin 1..Len(a)
      <3>1. j - Len(a) \in 1..Len(b) /\ h[j] = b[j - Len(a)]
        BY <2>2, JoinedPlaces
      <3>2. x \in OffsetsIn(a, p) /\ y \in OffsetsIn(b, p)
        BY <1>1, <2>2, <3>1 DEF OffsetsIn
      <3> QED BY <1>5, <3>2 DEF Before
    <2>3. CASE i \notin 1..Len(a) /\ j \notin 1..Len(a)
      <3>1. /\ j - Len(a) \in 1..Len(b) /\ h[j] = b[j - Len(a)]
            /\ i - Len(a) \in 1..Len(b) /\ h[i] = b[i - Len(a)]
        BY <2>3, JoinedPlaces
      <3>2. i - Len(a) < j - Len(a)
        BY DEF Joined
      <3> QED BY <1>5, <3>1, <3>2 DEF RisesFor
    <2> QED BY <2>1, <2>2, <2>3
  <1> QED BY <1>3, <1>4, <1>5

LEMMA ConcatJoined ==
  ASSUME NEW T, NEW a \in Seq(T), NEW b \in Seq(T)
  PROVE  Joined(a \o b, a, b)
  <1>1. Len(a \o b) = Len(a) + Len(b) /\ Len(a) \in Nat /\ Len(b) \in Nat
    BY ConcatProperties, LenProperties
  <1>2. \A i \in 1..Len(a) : (a \o b)[i] = a[i]
    BY ConcatProperties
  <1>3. \A i \in 1..Len(b) : (a \o b)[Len(a) + i] = b[i]
    BY ConcatProperties
  <1> QED BY <1>1, <1>2, <1>3 DEF Joined

LEMMA ChunkJoined ==
  ASSUME NEW T, NEW held \in Seq(T), NEW size \in 0..Len(held)
  PROVE  Joined(held, SubSeq(held, 1, size), SubSeq(held, size + 1, Len(held)))
  <1> DEFINE n == Len(held)
  <1>1. n \in Nat /\ size \in Nat /\ size <= n
    BY LenProperties
  <1>2. \A i \in 1..n : held[i] \in T
    BY ElementOfSeq
  <1> HIDE DEF n
  <1>3. /\ Len(SubSeq(held, 1, size)) = size
        /\ \A i \in 1..size : SubSeq(held, 1, size)[i] = held[i]
    <2>1. 1 \in Int /\ size \in Int /\ \A i \in 1..size : held[i] \in T
      BY <1>1, <1>2
    <2>2. /\ Len(SubSeq(held, 1, size)) = IF 1 <= size THEN size - 1 + 1 ELSE 0
          /\ \A i \in 1..size - 1 + 1 : SubSeq(held, 1, size)[i] = held[1 + i - 1]
      BY <2>1, SubSeqProperties
    <2> QED BY <1>1, <2>2
  <1>4. /\ Len(SubSeq(held, size + 1, n)) = n - size
        /\ \A i \in 1..n - size : SubSeq(held, size + 1, n)[i] = held[size + i]
    <2>1. size + 1 \in Int /\ n \in Int /\ \A i \in size + 1..n : held[i] \in T
      BY <1>1, <1>2
    <2>2. /\ Len(SubSeq(held, size + 1, n)) = IF size + 1 <= n THEN n - (size + 1) + 1 ELSE 0
          /\ \A i \in 1..n - (size + 1) + 1 : SubSeq(held, size + 1, n)[i] = held[size + 1 + i - 1]
      BY <2>1, SubSeqProperties
    <2>3. n - (size + 1) + 1 = n - size /\ \A i \in 1..n - size : size + 1 + i - 1 = size + i
      BY <1>1
    <2> QED BY <1>1, <2>2, <2>3
  <1> DEFINE a == SubSeq(held, 1, size)
             b == SubSeq(held, size + 1, n)
  <1>5. /\ Len(a) = size /\ Len(b) = n - size /\ Len(held) = n
        /\ (\A i \in 1..size : a[i] = held[i])
        /\ (\A i \in 1..n - size : b[i] = held[size + i])
    BY <1>3, <1>4 DEF n
  <1> HIDE DEF a, b
  <1>6. Joined(held, a, b)
    BY <1>1, <1>5 DEF Joined
  <1> QED BY <1>6 DEF a, b, n

(* What one call of the poll tick brings of a partition.                   *)
Pulled(batch, q, top, n) == Len(batch) = n /\ \A i \in 1..n : batch[i] = <<q, top + i - 1>>

LEMMA PulledRises ==
  ASSUME NEW p, NEW q, NEW batch, NEW top \in Nat, NEW n \in Nat, Pulled(batch, q, top, n)
  PROVE  RisesFor(batch, p)
  <1> SUFFICES ASSUME NEW i \in 1..n, NEW j \in 1..n, NEW x, NEW y, i < j,
                      batch[i] = <<p, x>>, batch[j] = <<p, y>>
               PROVE  x < y
    BY DEF RisesFor, Pulled
  <1>1. x = top + i - 1 /\ y = top + j - 1
    BY DEF Pulled
  <1> QED BY <1>1

LEMMA PulledOffsets ==
  ASSUME NEW p, NEW batch, NEW top \in Nat, NEW n \in Nat, Pulled(batch, p, top, n),
         n > 0 => top + n <= LogEnd
  PROVE  OffsetsIn(batch, p) = top .. (top + n - 1)
  <1>1. ASSUME NEW x \in top .. (top + n - 1) PROVE x \in OffsetsIn(batch, p)
    <2>1. x - top + 1 \in 1..n /\ top + (x - top + 1) - 1 = x
      BY <1>1
    <2>2. batch[x - top + 1] = <<p, x>>
      BY <2>1 DEF Pulled
    <2>3. x \in Offsets
      BY <1>1, ConstantsAssumption DEF Offsets
    <2> QED BY <2>1, <2>2, <2>3 DEF OffsetsIn, Pulled
  <1>2. ASSUME NEW x \in OffsetsIn(batch, p) PROVE x \in top .. (top + n - 1)
    <2>1. PICK i \in 1..n : batch[i] = <<p, x>>
      BY <1>2 DEF OffsetsIn, Pulled
    <2>2. x = top + i - 1
      BY <2>1 DEF Pulled
    <2> QED BY <2>2
  <1> QED BY <1>1, <1>2

LEMMA PulledElsewhere ==
  ASSUME NEW p, NEW q, p # q, NEW batch, NEW top, NEW n, Pulled(batch, q, top, n)
  PROVE  OffsetsIn(batch, p) = {}
  BY DEF OffsetsIn, Pulled

LEMMA PollTickOrder ==
  ASSUME Inv, OrderInv, NEW p \in Partitions, Undisturbed(p)', PollTick
  PROVE  Calm(p)' /\ Straight(p)'
  <1>0. /\ TypeOK /\ buffer \in Seq(Message) /\ pos \in [Partitions -> Nat]
        /\ FetchChunk \in Nat /\ MaxBuffered \in Nat /\ Len(buffer) \in Nat
    <2>1. buffer \in Seq(Message)
      BY DEF Inv, TypeOK
    <2> QED BY <2>1, LenProperties, ConstantsAssumption DEF Inv, TypeOK
  <1> DEFINE room == MaxBuffered - Len(buffer)
             want == IF room <= 0 THEN 1 ELSE Smallest(FetchChunk, room)
             pulled(q, n) == [i \in 1..n |-> <<q, pos[q] + i - 1>>]
             held(q, n) == buffer \o pulled(q, n)
             size(q, n) == Smallest(FetchChunk, Len(held(q, n)))
  <1>1. PICK q \in Partitions, n \in 0..want :
          /\ n > 0 => pos[q] + n <= LogEnd
          /\ pos' = [pos EXCEPT ![q] = @ + n]
          /\ \/ /\ request # 0
                /\ answer' = [run |-> request, batch |-> SubSeq(held(q, n), 1, size(q, n))]
                /\ buffer' = SubSeq(held(q, n), size(q, n) + 1, Len(held(q, n)))
             \/ buffer' = held(q, n) /\ answer' = answer
          /\ UNCHANGED <<runVars, partVars, pumpActive, worker, seeks, rebalance,
                         assigned, rdPaused, seeking, stored, committed, history>>
    BY ZenonT(60) DEF PollTick
  <1>2. n \in Nat
    <2>1. want \in Nat
      BY <1>0 DEF Smallest
    <2> HIDE DEF want
    <2> QED BY <2>1
  <1> HIDE DEF want, room
  <1>3. part' = part
    BY <1>1 DEF partVars
  <1>4. Calm(p) /\ Straight(p)
    BY <1>3 DEF OrderInv, Undisturbed
  <1> DEFINE h == held(q, n)
             l == pulled(q, n)
             E == Handled(p)
             Q == Waiting(p)
             P == Processed(p)
             A == OffsetsIn(Answered, p)
             B == OffsetsIn(buffer, p)
             top == pos[p]
             m == IF p = q THEN n ELSE 0
             A2 == OffsetsIn(Answered', p)
             B2 == OffsetsIn(buffer', p)
  <1>5. /\ top \in Nat /\ m \in Nat /\ pos'[p] = top + m
        /\ E \subseteq Nat /\ Q \subseteq Nat /\ A \subseteq Nat /\ B \subseteq Nat
    BY <1>0, <1>1, <1>2, LineTypes
  <1>6. /\ InLine(E, Q, A, B, top) /\ NoGap(P, E, Q) /\ RisesFor(Answered, p) /\ RisesFor(buffer, p)
        /\ runEpoch <= 1 => NoneLost(P, E, Q, A, B, top)
    BY <1>4 DEF Straight
  <1>7. /\ OffsetsIn(h, p) = B \union (top .. (top + m - 1)) /\ RisesFor(h, p)
        /\ h \in Seq(Message)
    <2>1. l \in Seq(Message) /\ h \in Seq(Message)
      BY <1>0, <1>1, <1>2, PulledIs
    <2>2. pos[q] \in Nat /\ (n > 0 => pos[q] + n <= LogEnd) /\ Pulled(l, q, pos[q], n)
      BY <1>0, <1>1, <1>2 DEF Pulled
    <2>3. h = buffer \o l
      OBVIOUS
    <2>4. OffsetsIn(l, p) = top .. (top + m - 1)
      <3>1. CASE p = q
        <4>1. top = pos[q] /\ m = n
          BY <3>1
        <4> HIDE DEF l, top, m
        <4>2. Pulled(l, p, top, n) /\ top \in Nat /\ (n > 0 => top + n <= LogEnd)
          BY <2>2, <3>1, <4>1
        <4>3. OffsetsIn(l, p) = top .. (top + n - 1)
          BY <1>2, <4>2, PulledOffsets
        <4> QED BY <4>1, <4>3
      <3>2. CASE p # q
        <4>1. m = 0 /\ top .. (top + 0 - 1) = {}
          BY <1>5, <3>2
        <4> HIDE DEF l, top, m
        <4> QED BY <2>2, <3>2, <4>1, PulledElsewhere
      <3> QED BY <3>1, <3>2
    <2> HIDE DEF h, l, m
    <2>9. Len(l) = n /\ RisesFor(l, p)
      BY <1>2, <2>2, PulledRises DEF Pulled
    <2>5. Joined(h, buffer, l)
      BY <1>0, <2>1, <2>3, ConcatJoined
    <2>6. Before(B, OffsetsIn(l, p))
      BY <1>5, <1>6, <2>4 DEF InLine, Before, Upto
    <2>7. OffsetsIn(h, p) = B \union OffsetsIn(l, p)
      BY <2>5, JoinedOffsets
    <2>8. RisesFor(h, p)
      BY <1>6, <2>5, <2>6, <2>9, JoinedOffsets
    <2> QED BY <2>1, <2>4, <2>7, <2>8
  <1>8. /\ A2 \union B2 = A \union B \union (top .. (top + m - 1)) /\ Before(A2, B2)
        /\ RisesFor(Answered', p) /\ RisesFor(buffer', p)
    <2>1. CASE /\ request # 0
               /\ answer' = [run |-> request, batch |-> SubSeq(h, 1, size(q, n))]
               /\ buffer' = SubSeq(h, size(q, n) + 1, Len(h))
      <3> DEFINE s == size(q, n)
      <3>1. s \in 0..Len(h) /\ SubSeq(h, 1, s) \in Seq(Message)
        <4>1. Len(h) \in Nat
          BY <1>7, LenProperties
        <4>2. s = Smallest(FetchChunk, Len(h)) /\ s \in 0..Len(h)
          BY <1>0, <4>1 DEF Smallest
        <4> QED BY <1>7, <4>2, ChunkIs
      <3> HIDE DEF s, h
      <3>2. Joined(h, SubSeq(h, 1, s), SubSeq(h, s + 1, Len(h)))
        BY <1>7, <3>1, ChunkJoined
      <3>3. /\ A = {} /\ Answered' = SubSeq(h, 1, s) /\ buffer' = SubSeq(h, s + 1, Len(h))
        <4>1. answer = None
          BY <2>1 DEF Inv, OneFetchAtATime
        <4>2. A = {}
          BY <4>1, EmptySeq DEF OffsetsIn, Answered
        <4>3. answer' = [run |-> request, batch |-> SubSeq(h, 1, s)]
          BY <2>1 DEF s, h
        <4>4. answer' # None
          BY <1>0, <3>1, <4>3, AnswersAreSome DEF TypeOK
        <4>5. buffer' = SubSeq(h, s + 1, Len(h))
          BY <2>1 DEF s, h
        <4> QED BY <4>2, <4>3, <4>4, <4>5 DEF Answered
      <3> HIDE DEF A, B, top, m
      <3>4. /\ A2 \union B2 = OffsetsIn(h, p) /\ Before(A2, B2)
            /\ RisesFor(Answered', p) /\ RisesFor(buffer', p)
        BY <1>7, <3>2, <3>3, JoinedOffsets
      <3> QED BY <1>7, <3>3, <3>4
    <2>2. CASE buffer' = h /\ answer' = answer
      <3>1. Answered' = Answered /\ A2 = A /\ B2 = B \union (top .. (top + m - 1))
        BY <1>7, <2>2 DEF Answered
      <3>2. Before(A, B \union (top .. (top + m - 1)))
        BY <1>5, <1>6 DEF InLine, Before, Upto
      <3> QED BY <1>6, <1>7, <2>2, <3>1, <3>2
    <2> QED BY <1>1, <2>1, <2>2
  <1> HIDE DEF E, Q, P, A, B, top, m, A2, B2, h, l, held, pulled, size
  <1>9. InLine(E, Q, A2, B2, top + m)
    BY <1>5, <1>6, <1>8, LineFetched
  <1>10. NoneLost(P, E, Q, A, B, top) => NoneLost(P, E, Q, A2, B2, top + m)
    BY <1>5, <1>6, <1>8, LineFetched
  <1>11. SameTurn(p) /\ Handled(p)' = E /\ Waiting(p)' = Q /\ Processed(p)' = P
    <2>1. SameTurn(p)
      BY <1>1, <1>3, SameWorkersTurn
    <2> QED BY <1>1, <2>1, SameTurnIs DEF E, Q, P, Processed, history
  <1>12. OffsetsIn(Answered, p)' = A2 /\ OffsetsIn(buffer, p)' = B2
    BY DEF A2, B2, OffsetsIn
  <1>13. RisesFor(Answered, p)' /\ RisesFor(buffer, p)'
    BY <1>8 DEF RisesFor
  <1>14. (\A w \in Workers : InHand(w, p)') /\ QueueRises(part[p].queue)' /\ StoresProcessed(p)'
    BY <1>1, <1>3, <1>4 DEF Straight, InHand, Busy, EachBatch, QueueRises, StoresProcessed,
       Processed, runVars, history
  <1>15. Calm(p)'
    BY <1>1, <1>4 DEF Calm, Known, runVars, partVars
  <1>16. /\ InLine(Handled(p), Waiting(p), OffsetsIn(Answered, p), OffsetsIn(buffer, p), pos[p])'
         /\ NoGap(Processed(p), Handled(p), Waiting(p))'
    BY <1>5, <1>6, <1>9, <1>11, <1>12 DEF InLine, NoGap, Before
  <1>17. (runEpoch <= 1)' => NoneLost(Processed(p), Handled(p), Waiting(p), OffsetsIn(Answered, p),
                                      OffsetsIn(buffer, p), pos[p])'
    BY <1>1, <1>5, <1>6, <1>10, <1>11, <1>12 DEF NoneLost, runVars
  <1> QED BY <1>13, <1>14, <1>15, <1>16, <1>17 DEF Straight

-----------------------------------------------------------------------------
(* Queueing.                                                               *)

(* Elements selected from a sequence: at which places, in which order.     *)
PlacesOf(a, out, seq, I) ==
  /\ Len(out) \in Nat /\ a \in [1..Len(out) -> I]
  /\ \A k \in 1..Len(out) : out[k] = seq[a[k]]
  /\ \A i \in I : \E k \in 1..Len(out) : a[k] = i
  /\ \A k, l \in 1..Len(out) : k < l => a[k] < a[l]

LEMMA AtPlaces ==
  ASSUME NEW T, NEW seq \in Seq(T), NEW I, I \subseteq 1..Len(seq)
  PROVE  \E a : PlacesOf(a, At(seq, I), seq, I)
  <1> DEFINE a == Ascending(I)
             n == Cardinality(I)
  <1>1. IsFiniteSet(I) /\ I \subseteq Nat
    <2>1. Len(seq) \in Nat
      BY LenProperties
    <2>2. IsFiniteSet(I)
      BY AtSelects
    <2> QED BY <2>1, <2>2
  <1>2. /\ a \in Seq(I) /\ Len(a) = n /\ n \in Nat /\ Rising(a)
        /\ \A i \in I : \E k \in 1..n : a[k] = i
    BY <1>1, AscendingProperties
  <1>3. a \in [1..n -> I]
    BY <1>2
  <1>4. At(seq, I) = [k \in 1..n |-> seq[a[k]]]
    BY DEF At
  <1> HIDE DEF a
  <1>5. \A k, l \in 1..n : k < l => a[k] < a[l]
    BY <1>2 DEF Rising
  <1>6. Len(At(seq, I)) = n /\ \A k \in 1..n : At(seq, I)[k] = seq[a[k]]
    BY <1>2, <1>4
  <1> QED BY <1>2, <1>3, <1>5, <1>6 DEF PlacesOf

(* The messages of p in a batch, in the batch's order.                     *)
LEMMA OffsetsOfOrder ==
  ASSUME NEW batch \in Seq(Message), NEW p, RisesFor(batch, p),
         NEW msgs, msgs = OffsetsOf(p, batch)
  PROVE  /\ \A k \in 1..Len(msgs) : msgs[k][2] \in OffsetsIn(batch, p)
         /\ \A x \in OffsetsIn(batch, p) : \E k \in 1..Len(msgs) : msgs[k][2] = x
         /\ \A k, l \in 1..Len(msgs) : k < l => msgs[k][2] < msgs[l][2]
  <1> DEFINE I == {i \in 1..Len(batch) : batch[i][1] = p}
             n == Len(msgs)
  <1>1. I \subseteq 1..Len(batch)
    OBVIOUS
  <1>2. \A i \in I : batch[i] = <<p, batch[i][2]>> /\ batch[i][2] \in Offsets
    BY ElementOfSeq DEF Message
  <1>3. \A i \in 1..Len(batch) : \A x : batch[i] = <<p, x>> => i \in I
    OBVIOUS
  <1> HIDE DEF I
  <1>4. msgs = At(batch, I)
    BY DEF OffsetsOf, I
  <1>5. PICK a : PlacesOf(a, At(batch, I), batch, I)
    BY ONLY <1>1, batch \in Seq(Message), AtPlaces
  <1>6. /\ a \in [1..n -> I] /\ n \in Nat /\ \A k \in 1..n : msgs[k] = batch[a[k]]
        /\ \A i \in I : \E k \in 1..n : a[k] = i
        /\ \A k, l \in 1..n : k < l => a[k] < a[l]
    BY <1>4, <1>5 DEF PlacesOf
  <1> HIDE DEF n
  <1>7. \A k \in 1..n : msgs[k][2] \in OffsetsIn(batch, p)
    <2> SUFFICES ASSUME NEW k \in 1..n PROVE msgs[k][2] \in OffsetsIn(batch, p)
      OBVIOUS
    <2>1. a[k] \in I /\ msgs[k] = batch[a[k]]
      BY <1>6
    <2>2. /\ batch[a[k]] = <<p, batch[a[k]][2]>> /\ batch[a[k]][2] \in Offsets
          /\ a[k] \in 1..Len(batch)
      BY <1>1, <1>2, <2>1
    <2> QED BY <2>1, <2>2 DEF OffsetsIn
  <1>8. \A x \in OffsetsIn(batch, p) : \E k \in 1..n : msgs[k][2] = x
    <2> SUFFICES ASSUME NEW x \in OffsetsIn(batch, p) PROVE \E k \in 1..n : msgs[k][2] = x
      OBVIOUS
    <2>1. PICK i \in 1..Len(batch) : batch[i] = <<p, x>>
      BY DEF OffsetsIn
    <2>2. i \in I
      BY <1>3, <2>1
    <2>3. PICK k \in 1..n : a[k] = i
      BY <1>6, <2>2
    <2>4. msgs[k] = <<p, x>>
      BY <1>6, <2>1, <2>3
    <2>5. msgs[k][2] = x
      BY <2>4
    <2> QED BY <2>5
  <1>9. ASSUME NEW k \in 1..n, NEW l \in 1..n, k < l PROVE msgs[k][2] < msgs[l][2]
    <2>1. a[k] \in I /\ a[l] \in I /\ a[k] < a[l]
      BY <1>6, <1>9
    <2> DEFINE i == a[k]
               j == a[l]
    <2> HIDE DEF i, j
    <2>2. i \in I /\ j \in I /\ i < j /\ msgs[k] = batch[i] /\ msgs[l] = batch[j]
      BY <1>6, <2>1 DEF i, j
    <2>3. /\ i \in 1..Len(batch) /\ j \in 1..Len(batch)
          /\ batch[i] = <<p, batch[i][2]>> /\ batch[i][2] \in Offsets
          /\ batch[j] = <<p, batch[j][2]>> /\ batch[j][2] \in Offsets
      BY <1>1, <1>2, <2>2
    <2>4. batch[i][2] < batch[j][2]
      BY ONLY <2>2, <2>3, RisesFor(batch, p) DEF RisesFor
    <2> QED BY <2>2, <2>4
  <1> QED BY <1>7, <1>8, <1>9 DEF n

(* The entries of a queue that is made of two, or parted in two.           *)
LEMMA JoinedQueue ==
  ASSUME NEW h, NEW a \in Seq(Entry), NEW b \in Seq(Entry), Joined(h, a, b)
  PROVE  /\ QueueOffsets(h) = QueueOffsets(a) \union QueueOffsets(b)
         /\ QueueRises(a) /\ QueueRises(b) /\ Before(QueueOffsets(a), QueueOffsets(b))
              => QueueRises(h)
  <1>1. \A i \in 1..Len(a) : i \in 1..Len(h) /\ h[i] = a[i] /\ a[i].off \in Offsets
    <2>1. \A i \in 1..Len(a) : a[i] \in Entry
      BY ElementOfSeq
    <2> QED BY <2>1 DEF Joined, Entry
  <1>2. \A i \in 1..Len(b) : /\ Len(a) + i \in 1..Len(h) /\ h[Len(a) + i] = b[i]
                             /\ b[i].off \in Offsets
    <2>1. \A i \in 1..Len(b) : b[i] \in Entry
      BY ElementOfSeq
    <2>2. \A i \in 1..Len(b) : Len(a) + i \in 1..Len(h) /\ h[Len(a) + i] = b[i]
      BY DEF Joined
    <2> QED BY <2>1, <2>2 DEF Entry
  <1>3. QueueOffsets(h) = QueueOffsets(a) \union QueueOffsets(b)
    <2>1. \A i \in 1..Len(h) : \/ i \in 1..Len(a) /\ h[i] = a[i]
                               \/ i - Len(a) \in 1..Len(b) /\ h[i] = b[i - Len(a)]
      BY JoinedPlaces
    <2> QED BY <1>1, <1>2, <2>1 DEF QueueOffsets
  <1>4. ASSUME QueueRises(a), QueueRises(b), Before(QueueOffsets(a), QueueOffsets(b)),
               NEW i \in 1..Len(h), NEW j \in 1..Len(h), i < j
        PROVE  h[i].off < h[j].off
    <2>1. CASE j \in 1..Len(a)
      <3>1. i \in 1..Len(a)
        BY <1>4, <2>1 DEF Joined
      <3> QED BY <1>1, <1>4, <2>1, <3>1 DEF QueueRises
    <2>2. CASE i \in 1..Len(a) /\ j \notin 1..Len(a)
      <3>1. j - Len(a) \in 1..Len(b) /\ h[j] = b[j - Len(a)]
        BY <2>2, JoinedPlaces
      <3>2. a[i].off \in QueueOffsets(a) /\ b[j - Len(a)].off \in QueueOffsets(b)
        BY <1>1, <1>2, <2>2, <3>1 DEF QueueOffsets
      <3> QED BY <1>1, <1>4, <2>2, <3>1, <3>2 DEF Before
    <2>3. CASE i \notin 1..Len(a) /\ j \notin 1..Len(a)
      <3>1. /\ j - Len(a) \in 1..Len(b) /\ h[j] = b[j - Len(a)]
            /\ i - Len(a) \in 1..Len(b) /\ h[i] = b[i - Len(a)]
        BY ONLY <1>4, Joined(h, a, b), <2>3, JoinedPlaces
      <3>2. i - Len(a) < j - Len(a)
        BY <1>4 DEF Joined
      <3> QED BY <1>4, <3>1, <3>2 DEF QueueRises
    <2>4. i \in 1..Len(a) \/ i \notin 1..Len(a)
      OBVIOUS
    <2>5. j \in 1..Len(a) => i \in 1..Len(a)
      BY <1>4 DEF Joined
    <2> QED BY <2>1, <2>2, <2>3, <2>4, <2>5
  <1> QED BY <1>3, <1>4 DEF QueueRises

(* A batch joins the queue of p.                                           *)
LEMMA RoutedOrder ==
  ASSUME TypeOK, NEW batch \in Seq(Message), NEW p \in Partitions, Known(p),
         QueueRises(part[p].queue), RisesFor(batch, p),
         Before(Waiting(p), OffsetsIn(batch, p)), NEW t, t = Routed(p, batch)
  PROVE  /\ QueueOffsets(t.queue) = Waiting(p) \union OffsetsIn(batch, p)
         /\ QueueRises(t.queue)
  <1> DEFINE msgs == OffsetsOf(p, batch)
             s == part[p]
             n == Len(msgs)
             entries == [i \in 1..n |-> [off |-> msgs[i][2], epoch |-> s.epoch]]
  <1>1. msgs \in Seq(Message) /\ n \in Nat
    BY OffsetsOfIs
  <1>2. /\ \A k \in 1..n : msgs[k][2] \in OffsetsIn(batch, p)
        /\ \A x \in OffsetsIn(batch, p) : \E k \in 1..n : msgs[k][2] = x
        /\ \A k, l \in 1..n : k < l => msgs[k][2] < msgs[l][2]
    BY OffsetsOfOrder
  <1>3. s \in PartitionState /\ s.queue \in Seq(Entry) /\ s.epoch \in Nat
    BY DEF TypeOK, PartitionState
  <1>4. CASE msgs = <<>>
    <2>1. n = 0 /\ t = part[p]
      BY <1>4, EmptySeq DEF Routed
    <2> HIDE DEF n, msgs
    <2>2. OffsetsIn(batch, p) = {}
      BY <1>2, <2>1
    <2> QED BY <2>1, <2>2 DEF Waiting
  <1>5. CASE msgs # <<>>
    <2>1. t = [s EXCEPT !.queue = s.queue \o entries]
      BY <1>5 DEF Routed, Ensured
    <2> HIDE DEF msgs, n
    <2>2. \A i \in 1..n : msgs[i][2] \in Offsets
      BY <1>2 DEF OffsetsIn
    <2>3. entries \in [1..n -> Entry]
      BY <1>3, <2>2 DEF Entry
    <2>4. entries \in Seq(Entry) /\ Len(entries) = n /\ \A i \in 1..n : entries[i].off = msgs[i][2]
      <3>1. entries \in Seq(Entry) /\ Len(entries) = n
        BY <1>1, <2>3
      <3>2. \A i \in 1..n : entries[i] = [off |-> msgs[i][2], epoch |-> s.epoch]
        OBVIOUS
      <3> HIDE DEF entries
      <3> QED BY <3>1, <3>2
    <2> HIDE DEF entries
    <2>5. Joined(s.queue \o entries, s.queue, entries)
      BY <1>3, <2>4, ConcatJoined
    <2>6. QueueOffsets(entries) = OffsetsIn(batch, p)
      <3>1. OffsetsIn(batch, p) \subseteq Offsets
        BY DEF OffsetsIn
      <3> QED BY <1>2, <2>4, <3>1 DEF QueueOffsets
    <2>7. QueueRises(entries)
      BY <1>2, <2>4 DEF QueueRises
    <2>8. t.queue = s.queue \o entries
      BY <1>3, <2>1 DEF PartitionState
    <2>9. /\ QueueOffsets(t.queue) = QueueOffsets(s.queue) \union QueueOffsets(entries)
          /\ QueueRises(s.queue) /\ QueueRises(entries)
               /\ Before(QueueOffsets(s.queue), QueueOffsets(entries)) => QueueRises(t.queue)
      BY <1>3, <2>4, <2>5, <2>8, JoinedQueue
    <2> QED BY <2>6, <2>7, <2>9 DEF Waiting
  <1> QED BY <1>4, <1>5
(* A signal leaves the handlers at work.                                   *)
LEMMA SameHandlers ==
  ASSUME TypeOK, worker' = worker \/ worker' = Signalled(worker), NEW p
  PROVE  /\ \A w \in Workers : /\ Busy(w, p)' <=> Busy(w, p)
                               /\ Busy(w, p) => worker'[w] = worker[w]
         /\ Handled(p)' = Handled(p)
  <1>1. worker \in [Workers -> WorkerState]
    BY DEF TypeOK
  <1>2. \A w \in Workers : /\ Working(worker'[w]) <=> Working(worker[w])
                           /\ Working(worker[w]) => worker'[w] = worker[w]
    BY <1>1, SignalledType
  <1>3. \A w \in Workers : /\ Busy(w, p)' <=> Busy(w, p)
                           /\ Busy(w, p) => worker'[w] = worker[w]
    BY <1>2 DEF Busy, Working
  <1> QED BY <1>3 DEF Handled

LEMMA SameHands ==
  ASSUME NEW p, \A w \in Workers : InHand(w, p), EachBatch' <=> EachBatch, done'[p] = done[p],
         \A w \in Workers : /\ Busy(w, p)' <=> Busy(w, p)
                            /\ Busy(w, p) => worker'[w] = worker[w]
  PROVE  \A w \in Workers : InHand(w, p)'
  <1> SUFFICES ASSUME NEW w \in Workers, Busy(w, p)' PROVE InHand(w, p)'
    BY DEF InHand
  <1>1. worker'[w] = worker[w] /\ Busy(w, p)
    OBVIOUS
  <1> QED BY <1>1 DEF InHand, Rising

LEMMA NoAnswer ==
  ASSUME NEW p, answer' = None
  PROVE  OffsetsIn(Answered, p)' = {} /\ RisesFor(Answered, p)'
  <1>1. Answered' = <<>>
    BY DEF Answered
  <1>2. Len(Answered') = 0
    BY <1>1, EmptySeq
  <1> QED BY <1>2 DEF OffsetsIn, RisesFor

LEMMA PumpCallbackOrder ==
  ASSUME Inv, OrderInv, NEW p \in Partitions, Undisturbed(p)', PumpCallback
  PROVE  Calm(p)' /\ Straight(p)'
  <1>0. TypeOK /\ Births /\ QueueIsCurrent /\ RunsCounted /\ part \in [Partitions -> PartitionState]
    BY DEF Inv, OrderInv, TypeOK
  <1>1. /\ answer # None /\ answer' = None
        /\ UNCHANGED <<runVars, buffer, seeks, rebalance, rdVars, history>>
        /\ \/ /\ running /\ answer.run = runEpoch
              /\ part' = [q \in Partitions |-> Routed(q, answer.batch)]
              /\ order' = order \o SetToSeq(Arriving(answer.batch))
              /\ worker' = worker \/ worker' = Signalled(worker)
           \/ /\ ~(running /\ answer.run = runEpoch)
              /\ UNCHANGED <<part, order, worker>>
    BY DEF PumpCallback
  <1>2. answer.batch \in Seq(Message) /\ answer.run \in Nat
    BY <1>0, <1>1 DEF TypeOK
  <1>3. part'[p].epoch = part[p].epoch
    BY <1>0, <1>1, <1>2, RoutedIs
  <1>4. Calm(p) /\ Straight(p) /\ Known(p)
    BY <1>3 DEF OrderInv, Undisturbed, Calm
  <1> DEFINE P == Processed(p)
             E == Handled(p)
             Q == Waiting(p)
             A == OffsetsIn(Answered, p)
             B == OffsetsIn(buffer, p)
             top == pos[p]
             Q2 == Waiting(p)'
  <1>5. /\ top \in Nat /\ E \subseteq Nat /\ Q \subseteq Nat /\ A \subseteq Nat /\ B \subseteq Nat
        /\ InLine(E, Q, A, B, top) /\ NoGap(P, E, Q) /\ RisesFor(Answered, p)
        /\ QueueRises(part[p].queue)
        /\ runEpoch <= 1 => NoneLost(P, E, Q, A, B, top)
    BY <1>0, <1>4, LineTypes DEF Straight, TypeOK
  <1>6. Answered = answer.batch
    BY <1>1 DEF Answered
  <1>7. /\ Known(p)' /\ QueueRises(part[p].queue)'
        /\ InLine(E, Q2, {}, B, top) /\ NoGap(P, E, Q2)
        /\ runEpoch <= 1 => NoneLost(P, E, Q2, {}, B, top)
    <2>1. CASE /\ running /\ answer.run = runEpoch
               /\ part' = [q \in Partitions |-> Routed(q, answer.batch)]
               /\ order' = order \o SetToSeq(Arriving(answer.batch))
      <3>1. runEpoch <= 1
        BY <1>4, <2>1 DEF Calm
      <3>2. Before(Waiting(p), OffsetsIn(answer.batch, p)) /\ RisesFor(answer.batch, p)
        BY <1>5, <1>6 DEF InLine, Before
      <3>3. part'[p] = Routed(p, answer.batch)
        BY <2>1
      <3>4. /\ QueueOffsets(part'[p].queue) = Waiting(p) \union OffsetsIn(answer.batch, p)
            /\ QueueRises(part'[p].queue)
        BY ONLY <1>0, <1>2, <1>4, <1>5, <3>2, <3>3, RoutedOrder, p \in Partitions
      <3>5. Q2 = Q \union A
        BY <1>6, <3>4 DEF Waiting
      <3>6. Known(p)'
        <4>1. Arriving(answer.batch) \subseteq Partitions /\ order \in Seq(Partitions)
          BY <1>0 DEF Arriving, TypeOK
        <4> QED BY <1>4, <2>1, <4>1, NewKeys
      <3> HIDE DEF P, E, Q, A, B, top, Q2
      <3>7. /\ InLine(E, Q \union A, {}, B, top) /\ NoGap(P, E, Q \union A)
            /\ NoneLost(P, E, Q \union A, {}, B, top)
        BY <1>5, <3>1, LineRouted
      <3>8. QueueRises(part[p].queue)'
        BY <3>4 DEF QueueRises
      <3> QED BY <3>5, <3>6, <3>7, <3>8
    <2>2. CASE ~(running /\ answer.run = runEpoch) /\ UNCHANGED <<part, order, worker>>
      <3>1. ~(runEpoch <= 1)
        BY <1>0, <1>1, <1>2, <2>2 DEF RunsCounted, TypeOK
      <3>2. Q2 = Q /\ Known(p)' /\ QueueRises(part[p].queue)'
        BY <1>4, <1>5, <2>2 DEF Waiting, Known, QueueRises
      <3>3. InLine(E, Q, {}, B, top)
        BY <1>5 DEF InLine, Before
      <3> QED BY <1>5, <3>1, <3>2, <3>3
    <2> QED BY <1>1, <2>1, <2>2
  <1>8. /\ Handled(p)' = E
        /\ \A w \in Workers : /\ Busy(w, p)' <=> Busy(w, p)
                              /\ Busy(w, p) => worker'[w] = worker[w]
    BY <1>0, <1>1, SameHandlers
  <1>9. /\ (\A w \in Workers : InHand(w, p)') /\ StoresProcessed(p)' /\ Processed(p)' = P
        /\ RisesFor(buffer, p)' /\ OffsetsIn(buffer, p)' = B /\ pos'[p] = top
    <2>1. \A w \in Workers : InHand(w, p)'
      BY <1>1, <1>4, <1>8, SameHands DEF Straight, EachBatch, runVars, history
    <2>2. StoresProcessed(p)' /\ Processed(p)' = P /\ pos' = pos
      BY <1>1, <1>4 DEF Straight, StoresProcessed, Processed, rdVars, history
    <2>3. RisesFor(buffer, p)' /\ OffsetsIn(buffer, p)' = B
      BY <1>1, <1>4 DEF Straight, RisesFor, OffsetsIn
    <2> QED BY <2>1, <2>2, <2>3
  <1>10. OffsetsIn(Answered, p)' = {} /\ RisesFor(Answered, p)'
    BY <1>1, NoAnswer
  <1>11. Calm(p)'
    BY <1>1, <1>4, <1>7 DEF Calm, runVars, rdVars
  <1>12. runEpoch' = runEpoch
    BY <1>1 DEF runVars
  <1> HIDE DEF P, E, Q, A, B, top
  <1>13. /\ InLine(Handled(p), Waiting(p), OffsetsIn(Answered, p), OffsetsIn(buffer, p), pos[p])'
         /\ NoGap(Processed(p), Handled(p), Waiting(p))'
    BY <1>7, <1>8, <1>9, <1>10 DEF InLine, NoGap, Before
  <1>14. (runEpoch <= 1)' => NoneLost(Processed(p), Handled(p), Waiting(p), OffsetsIn(Answered, p),
                                      OffsetsIn(buffer, p), pos[p])'
    BY <1>7, <1>8, <1>9, <1>10, <1>12 DEF NoneLost
  <1> QED BY <1>7, <1>9, <1>10, <1>11, <1>13, <1>14 DEF Straight

-----------------------------------------------------------------------------
(* Turns.                                                                  *)

OffsetSet(entries) == {x \in Offsets : \E i \in 1..Len(entries) : entries[i] = x}

(* The first k entries of the queue go to a handler.                       *)
LEMMA TakenOrder ==
  ASSUME NEW s \in PartitionState, Pure(s), Current(s) # {}, NEW k \in Nat \ {0},
         QueueRises(s.queue), NEW u, u = Taken(s, k), NEW r, r = Rest(s, k)
  PROVE  /\ u \in Seq(Entry) /\ Len(u) \in Nat \ {0} /\ (k = 1 => Len(u) = 1)
         /\ QueueOffsets(s.queue) = QueueOffsets(u) \union QueueOffsets(r)
         /\ Before(QueueOffsets(u), QueueOffsets(r)) /\ QueueRises(u) /\ QueueRises(r)
  <1> DEFINE c == Cut(s, k)
             n == Len(s.queue)
             q == s.queue
  <1>1. /\ c \in 1..n /\ c = Smallest(k, n) /\ u \in Seq(Entry) /\ Len(u) = c
        /\ r \in Seq(Entry) /\ Len(r) = n - c /\ \A i \in 1..n - c : r[i] = q[c + i]
        /\ u = At(q, 1..c)
    BY TakenFromPure
  <1>2. q \in Seq(Entry) /\ n \in Nat /\ \A i \in 1..n : q[i].off \in Offsets
    <2>1. q \in Seq(Entry) /\ n \in Nat
      BY LenProperties DEF PartitionState
    <2>2. \A i \in 1..n : q[i] \in Entry
      BY <2>1, ElementOfSeq
    <2> QED BY <2>1, <2>2 DEF Entry
  <1>3. 1..c \subseteq 1..n
    BY <1>1, <1>2
  <1> HIDE DEF c, q
  <1>4. PICK a : PlacesOf(a, At(q, 1..c), q, 1..c)
    <2>1. 1..c \subseteq 1..Len(q)
      BY <1>3 DEF q
    <2> QED BY ONLY <1>2, <2>1, AtPlaces
  <1>5. /\ a \in [1..c -> 1..c] /\ \A i \in 1..c : u[i] = q[a[i]]
        /\ \A i \in 1..c : \E j \in 1..c : a[j] = i
        /\ \A i, j \in 1..c : i < j => a[i] < a[j]
    BY <1>1, <1>4 DEF PlacesOf
  <1> HIDE DEF n
  <1>6. \A i \in 1..c : u[i].off \in QueueOffsets(u)
    <2> SUFFICES ASSUME NEW i \in 1..c PROVE u[i].off \in QueueOffsets(u)
      OBVIOUS
    <2>1. a[i] \in 1..n
      BY <1>3, <1>5
    <2>2. u[i].off \in Offsets
      BY <1>2, <1>5, <2>1
    <2> QED BY <1>1, <2>2 DEF QueueOffsets
  <1>7. QueueOffsets(u) = {x \in Offsets : \E i \in 1..c : q[i].off = x}
    <2>1. ASSUME NEW x \in QueueOffsets(u) PROVE x \in Offsets /\ \E i \in 1..c : q[i].off = x
      <3>1. PICK i \in 1..c : u[i].off = x
        BY <1>1, <2>1 DEF QueueOffsets
      <3>2. a[i] \in 1..c /\ q[a[i]].off = x
        BY <1>5, <3>1
      <3> QED BY <2>1, <3>2 DEF QueueOffsets
    <2>2. ASSUME NEW x \in Offsets, NEW i \in 1..c, q[i].off = x PROVE x \in QueueOffsets(u)
      <3>1. PICK j \in 1..c : a[j] = i
        BY <1>5
      <3>2. u[j].off = x
        BY <1>5, <2>2, <3>1
      <3> QED BY <1>6, <3>2
    <2> QED BY <2>1, <2>2
  <1>8. QueueOffsets(r) = {x \in Offsets : \E i \in c + 1..n : q[i].off = x}
    <2>1. ASSUME NEW x \in QueueOffsets(r) PROVE x \in Offsets /\ \E i \in c + 1..n : q[i].off = x
      <3>1. PICK i \in 1..n - c : r[i].off = x
        BY <1>1, <2>1 DEF QueueOffsets
      <3>2. c + i \in c + 1..n /\ q[c + i].off = x
        BY <1>1, <1>2, <3>1
      <3> QED BY <2>1, <3>2 DEF QueueOffsets
    <2>2. ASSUME NEW x \in Offsets, NEW i \in c + 1..n, q[i].off = x PROVE x \in QueueOffsets(r)
      <3>1. i - c \in 1..n - c /\ c + (i - c) = i
        BY <1>1, <1>2
      <3>2. r[i - c].off = x
        BY <1>1, <2>2, <3>1
      <3> QED BY <1>1, <3>1, <3>2 DEF QueueOffsets
    <2> QED BY <2>1, <2>2
  <1>9. QueueOffsets(q) = QueueOffsets(u) \union QueueOffsets(r)
    <2>1. 1..n = 1..c \union (c + 1..n)
      BY <1>1, <1>2
    <2>2. QueueOffsets(q) = {x \in Offsets : \E i \in 1..n : q[i].off = x}
      BY DEF QueueOffsets, n, q
    <2> QED BY <1>7, <1>8, <2>1, <2>2
  <1>10. \A i, j \in 1..n : i < j => q[i].off < q[j].off
    BY DEF QueueRises, n, q
  <1>11. Before(QueueOffsets(u), QueueOffsets(r))
    <2> SUFFICES ASSUME NEW i \in 1..c, NEW j \in c + 1..n PROVE q[i].off < q[j].off
      BY <1>7, <1>8 DEF Before
    <2> QED BY <1>1, <1>2, <1>10
  <1>12. QueueRises(u)
    <2> SUFFICES ASSUME NEW i \in 1..c, NEW j \in 1..c, i < j PROVE u[i].off < u[j].off
      BY <1>1 DEF QueueRises
    <2>1. a[i] \in 1..n /\ a[j] \in 1..n /\ a[i] < a[j]
      BY <1>3, <1>5
    <2> QED BY <1>5, <1>10, <2>1
  <1>13. QueueRises(r)
    <2> SUFFICES ASSUME NEW i \in 1..n - c, NEW j \in 1..n - c, i < j PROVE r[i].off < r[j].off
      BY <1>1 DEF QueueRises
    <2>1. c + i \in 1..n /\ c + j \in 1..n /\ c + i < c + j
      BY <1>1, <1>2
    <2> QED BY <1>1, <1>10, <2>1
  <1>14. Len(u) \in Nat \ {0} /\ (k = 1 => Len(u) = 1)
    BY <1>1, <1>2 DEF Smallest
  <1> QED BY <1>1, <1>9, <1>11, <1>12, <1>13, <1>14 DEF q
(* A handler gets h of the queue, and leaves r of it.                      *)
Parted(queue, h, r, p) ==
  /\ h.pc = "busy" /\ h.p = p /\ h.resolved = -1 /\ Rising(h.entries)
  /\ ~EachBatch => Len(h.entries) = 1
  /\ \A i \in 1..Len(h.entries) : h.entries[i] \in Nat
  /\ QueueOffsets(queue) = OffsetSet(h.entries) \union QueueOffsets(r)
  /\ Before(OffsetSet(h.entries), QueueOffsets(r)) /\ QueueRises(r)

LEMMA HandlingOrder ==
  ASSUME NEW p, NEW s \in PartitionState, Pure(s), Current(s) # {}, QueueRises(s.queue), NEW turn
  PROVE  Parted(s.queue, Handling(p, s, turn), Rest(s, TurnSize), p)
  <1> DEFINE u == Taken(s, TurnSize)
             h == Handling(p, s, turn)
             r == Rest(s, TurnSize)
  <1>1. /\ u \in Seq(Entry) /\ Len(u) \in Nat \ {0} /\ (TurnSize = 1 => Len(u) = 1)
        /\ QueueOffsets(s.queue) = QueueOffsets(u) \union QueueOffsets(r)
        /\ Before(QueueOffsets(u), QueueOffsets(r)) /\ QueueRises(u) /\ QueueRises(r)
    BY TurnSizeType, TakenOrder
  <1>2. h = [pc |-> "busy", p |-> p, born |-> s.born, epoch |-> s.epoch,
             entries |-> [i \in 1..Len(u) |-> u[i].off], resolved |-> -1, turn |-> turn]
    BY DEF Handling
  <1> HIDE DEF u, h, r
  <1>3. \A i \in 1..Len(u) : u[i] \in Entry
    BY <1>1, ElementOfSeq
  <1>4. \A i \in 1..Len(u) : u[i].off \in Offsets /\ u[i].off \in Nat
    BY <1>3, OffsetsAreNat DEF Entry
  <1>5. h.entries = [i \in 1..Len(u) |-> u[i].off]
    BY <1>2
  <1>6. Len(h.entries) = Len(u)
    BY <1>1, <1>5
  <1>7. \A i \in 1..Len(u) : h.entries[i] = u[i].off
    BY <1>5
  <1>8. OffsetSet(h.entries) = QueueOffsets(u)
    BY <1>6, <1>7 DEF OffsetSet, QueueOffsets
  <1>9. Rising(h.entries)
    BY <1>1, <1>6, <1>7 DEF Rising, QueueRises
  <1>10. ~EachBatch => Len(h.entries) = 1
    BY <1>1, <1>6 DEF TurnSize
  <1>11. h.pc = "busy" /\ h.p = p /\ h.resolved = -1
    BY <1>2
  <1>12. Parted(s.queue, h, r, p)
    BY <1>1, <1>4, <1>6, <1>7, <1>8, <1>9, <1>10, <1>11 DEF Parted
  <1> QED BY <1>12 DEF h, r

LEMMA HandledNext ==
  ASSUME NEW p, NEW w \in Workers, Busy(w, p)', \A v \in Workers \ {w} : ~Busy(v, p)'
  PROVE  Handled(p)' = OffsetSet(worker'[w].entries)
  BY DEF Handled, OffsetSet

LEMMA HandledNow ==
  ASSUME NEW p, NEW w \in Workers, Busy(w, p), \A v \in Workers \ {w} : ~Busy(v, p)
  PROVE  Handled(p) = OffsetSet(worker[w].entries)
  BY DEF Handled, OffsetSet

(* What a step of a worker leaves as it is.                                *)
TurnStep(p) ==
  /\ UNCHANGED <<runVars, order, answer, buffer, rebalance, assigned, pos, excused>>
  /\ seeks'[p] = seeks[p] /\ done[p] \subseteq done'[p]

(* The turn on another partition changes.                                  *)
LEMMA OthersTurn ==
  ASSUME NEW p \in Partitions, Calm(p), Straight(p), TurnStep(p), done'[p] = done[p],
         stored'[p] = stored[p], part'[p].queue = part[p].queue,
         \A v \in Workers : /\ Busy(v, p)' <=> Busy(v, p)
                            /\ Busy(v, p) => worker'[v] = worker[v]
  PROVE  Calm(p)' /\ Straight(p)'
  <1>1. SameTurn(p) /\ Answered' = Answered /\ Known(p)' /\ p \in assigned'
    BY DEF SameTurn, TurnStep, Answered, Known, Calm
  <1>2. StoresProcessed(p)'
    BY SameProcessed, SameStores DEF TurnStep
  <1> QED BY <1>1, <1>2, Quiet DEF TurnStep, Calm, runVars

LEMMA TurnStepCalm ==
  ASSUME NEW p \in Partitions, Calm(p), Straight(p), TurnStep(p)
  PROVE  /\ Calm(p)' /\ OffsetsIn(Answered, p)' = OffsetsIn(Answered, p) /\ RisesFor(Answered, p)'
         /\ Processed(p) \subseteq Processed(p)' /\ done[p] \subseteq Processed(p)'
         /\ (EachBatch' <=> EachBatch) /\ runEpoch' = runEpoch
         /\ buffer' = buffer /\ pos'[p] = pos[p] /\ done'[p] \subseteq Processed(p)'
  <1>1. Calm(p)'
    BY DEF TurnStep, Calm, Known, runVars
  <1>2. OffsetsIn(Answered, p)' = OffsetsIn(Answered, p) /\ RisesFor(Answered, p)'
    BY DEF TurnStep, Straight, Answered, OffsetsIn, RisesFor
  <1>3. /\ Processed(p) \subseteq Processed(p)' /\ done[p] \subseteq Processed(p)'
        /\ done'[p] \subseteq Processed(p)'
    BY DEF TurnStep, Processed
  <1> QED BY <1>1, <1>2, <1>3 DEF TurnStep, EachBatch, runVars

(* A turn on p begins, or goes on with the next entries.                   *)
LEMMA TurnBegins ==
  ASSUME NEW p \in Partitions, Calm(p), Straight(p), TurnStep(p), StoresProcessed(p)',
         NEW s \in PartitionState, Pure(s), Current(s) # {}, s.queue = part[p].queue,
         NEW turn, NEW w \in Workers, worker'[w] = Handling(p, s, turn),
         part'[p].queue = Rest(s, TurnSize), \A v \in Workers \ {w} : ~Busy(v, p)',
         Handled(p) \subseteq done'[p]
  PROVE  Calm(p)' /\ Straight(p)'
  <1> DEFINE h == worker'[w]
             r == part'[p].queue
  <1>0. QueueRises(s.queue)
    BY DEF Straight
  <1>1. Parted(s.queue, h, r, p)
    BY <1>0, HandlingOrder
  <1>2. Busy(w, p)'
    BY <1>1 DEF Busy, Parted
  <1>3. Handled(p)' = OffsetSet(h.entries) /\ Waiting(p)' = QueueOffsets(r)
    BY <1>2, HandledNext DEF Waiting
  <1>4. /\ Calm(p)' /\ OffsetsIn(Answered, p)' = OffsetsIn(Answered, p) /\ RisesFor(Answered, p)'
        /\ Processed(p) \subseteq Processed(p)' /\ done'[p] \subseteq Processed(p)'
        /\ (EachBatch' <=> EachBatch) /\ runEpoch' = runEpoch
        /\ buffer' = buffer /\ pos'[p] = pos[p]
    BY TurnStepCalm
  <1>5. \A v \in Workers : InHand(v, p)'
    <2>1. InHand(w, p)'
      <3>1. Rising(worker[w].entries)'
        BY <1>1 DEF Rising, Parted
      <3>2. ~EachBatch' => Len(worker'[w].entries) = 1
        BY <1>1, <1>4 DEF Parted
      <3>3. \A i \in 1..Len(h.entries) : ~(h.entries[i] < h.resolved)
        BY <1>1 DEF Parted
      <3> QED BY <3>1, <3>2, <3>3 DEF InHand
    <2>2. \A v \in Workers \ {w} : InHand(v, p)'
      BY DEF InHand
    <2> QED BY <2>1, <2>2
  <1>6. Waiting(p) = Handled(p)' \union Waiting(p)'
    BY <1>1, <1>3 DEF Waiting, Parted
  <1>7. QueueRises(part[p].queue)' /\ Before(Handled(p)', Waiting(p)')
    BY <1>1, <1>3 DEF QueueRises, Parted
  <1>8. Handled(p) \subseteq Processed(p)' \union Handled(p)' \union Waiting(p)'
    BY <1>4
  <1> HIDE DEF h, r
  <1> QED BY <1>4, <1>5, <1>6, <1>7, <1>8, StraightOn

(* The turn on p ends, all its offsets processed.                          *)
LEMMA TurnEnds ==
  ASSUME NEW p \in Partitions, Calm(p), Straight(p), TurnStep(p), StoresProcessed(p)',
         part'[p].queue = part[p].queue, \A v \in Workers : ~Busy(v, p)',
         Handled(p) \subseteq done'[p]
  PROVE  Calm(p)' /\ Straight(p)'
  <1>1. Handled(p)' = {} /\ Waiting(p)' = Waiting(p)
    BY DEF Handled, Waiting
  <1>2. /\ Calm(p)' /\ OffsetsIn(Answered, p)' = OffsetsIn(Answered, p) /\ RisesFor(Answered, p)'
        /\ Processed(p) \subseteq Processed(p)' /\ done'[p] \subseteq Processed(p)'
        /\ runEpoch' = runEpoch /\ buffer' = buffer /\ pos'[p] = pos[p]
    BY TurnStepCalm
  <1>3. \A v \in Workers : InHand(v, p)'
    BY DEF InHand
  <1>4. QueueRises(part[p].queue)' /\ Before(Handled(p)', Waiting(p)')
    BY <1>1 DEF Straight, QueueRises, Before
  <1> QED BY <1>1, <1>2, <1>3, <1>4, StraightOn

-----------------------------------------------------------------------------
(* A handler settles.                                                      *)

(* Worker w is busy on another partition than p, or on p and no other is.  *)
LEMMA OnlyHandler ==
  ASSUME Inv, NEW p \in Partitions, Undisturbed(p), Known(p), NEW w \in Workers, Busy(w, p),
         \A v \in Workers \ {w} : worker'[v] = worker[v]
  PROVE  /\ \A v \in Workers \ {w} : ~Busy(v, p) /\ ~Busy(v, p)'
         /\ Handled(p) = OffsetSet(worker[w].entries) /\ Live(w)
         /\ worker[w].entries \in Seq(Offsets) /\ Len(worker[w].entries) \in Nat \ {0}
         /\ \A i \in 1..Len(worker[w].entries) : worker[w].entries[i] \in Offsets
  <1>1. TypeOK /\ Births /\ Turns
    BY DEF Inv
  <1>2. Alone(p)
    BY OneHandler
  <1>3. \A v \in Workers \ {w} : ~Busy(v, p) /\ ~Busy(v, p)'
    BY <1>2 DEF Alone, Busy
  <1>4. Handled(p) = OffsetSet(worker[w].entries)
    BY <1>3, HandledNow
  <1> QED BY <1>1, <1>3, <1>4, BusyHolds

LEMMA ReleasedTurn ==
  ASSUME TypeOK, NEW w \in Workers, worker' = Releasing(w)
  PROVE  /\ \A v \in Workers \ {w} : worker'[v] = worker[v]
         /\ worker'[w].pc = "release" /\ worker'[w].p = worker[w].p
         /\ \A p : ~Busy(w, p)'
  <1>1. worker \in [Workers -> WorkerState]
    BY DEF TypeOK
  <1>2. /\ \A v \in Workers \ {w} : worker'[v] = worker[v]
        /\ worker'[w].pc = "release" /\ worker'[w].p = worker[w].p
    BY <1>1 DEF Releasing, WorkerState
  <1> QED BY <1>2 DEF Busy

(* What a worker does on its own partition is nothing to p.                *)
LEMMA NotMine ==
  ASSUME NEW p \in Partitions, Calm(p), Straight(p), TurnStep(p), NEW w \in Workers,
         worker[w].p # p, worker'[w].p # p, \A v \in Workers \ {w} : worker'[v] = worker[v],
         part'[p] = part[p], stored'[p] = stored[p], done'[p] = done[p]
  PROVE  Calm(p)' /\ Straight(p)'
  <1>1. \A v \in Workers : /\ Busy(v, p)' <=> Busy(v, p)
                           /\ Busy(v, p) => worker'[v] = worker[v]
    <2>1. ~Busy(w, p) /\ ~Busy(w, p)'
      BY DEF Busy
    <2>2. \A v \in Workers \ {w} : Busy(v, p)' <=> Busy(v, p)
      BY DEF Busy
    <2> QED BY <2>1, <2>2
  <1> QED BY <1>1, OthersTurn

(* The entries of a turn rise from the first to the last.                  *)
LEMMA TurnRises ==
  ASSUME NEW w \in Workers, worker[w].entries \in Seq(Offsets),
         Len(worker[w].entries) \in Nat \ {0}, Rising(worker[w].entries),
         \A i \in 1..Len(worker[w].entries) : worker[w].entries[i] \in Offsets
  PROVE  /\ FirstEntry(w) \in OffsetSet(worker[w].entries)
         /\ LastEntry(w) \in OffsetSet(worker[w].entries)
         /\ FirstEntry(w) \in Nat /\ LastEntry(w) \in Nat
         /\ \A x \in OffsetSet(worker[w].entries) :
              x \in Nat /\ FirstEntry(w) <= x /\ x <= LastEntry(w)
  <1> DEFINE e == worker[w].entries
             n == Len(e)
  <1> HIDE DEF n
  <1>1. n \in Nat \ {0} /\ \A i \in 1..n : e[i] \in Offsets /\ e[i] \in Nat
    BY OffsetsAreNat DEF n
  <1>2. \A i \in 1..n : e[1] <= e[i] /\ e[i] <= e[n]
    <2> SUFFICES ASSUME NEW i \in 1..n PROVE e[1] <= e[i] /\ e[i] <= e[n]
      OBVIOUS
    <2>1. i = 1 \/ e[1] < e[i]
      BY <1>1 DEF Rising, n
    <2>2. i = n \/ e[i] < e[n]
      BY <1>1 DEF Rising, n
    <2> QED BY <1>1, <2>1, <2>2
  <1>3. FirstEntry(w) = e[1] /\ LastEntry(w) = e[n]
    BY DEF FirstEntry, LastEntry, n
  <1>4. OffsetSet(e) = {x \in Offsets : \E i \in 1..n : e[i] = x}
    BY DEF OffsetSet, n
  <1>5. e[1] \in OffsetSet(e) /\ e[n] \in OffsetSet(e)
    BY <1>1, <1>4
  <1>6. \A x \in OffsetSet(e) : x \in Nat /\ e[1] <= x /\ x <= e[n]
    BY <1>1, <1>2, <1>4
  <1> HIDE DEF e
  <1> QED BY <1>1, <1>3, <1>5, <1>6 DEF e

(* An offset of the turn is stored: those before it are processed.         *)
LEMMA StoredNextTo ==
  ASSUME NEW p \in Partitions, Straight(p), NEW o \in Handled(p), o \in Nat,
         stored'[p] = StoredOffset(o), Processed(p) \subseteq Processed(p)',
         \A x \in Handled(p) : x <= o => x \in Processed(p)'
  PROVE  StoresProcessed(p)'
  <1> SUFFICES ASSUME NEW x \in Upto(o + 1) PROVE x \in Processed(p)'
    BY DEF StoresProcessed, StoredOffset
  <1>1. x \in Nat /\ x <= o
    BY DEF Upto
  <1>2. x \in Processed(p) \union Handled(p) \union Waiting(p)
    <2>1. CASE x = o
      BY <2>1
    <2>2. CASE x # o
      <3>1. x \in Upto(o)
        BY <1>1, <2>2 DEF Upto
      <3> QED BY <3>1 DEF Straight, NoGap
    <2> QED BY <2>1, <2>2
  <1>3. x \notin Waiting(p)
    <2>1. ASSUME x \in Waiting(p) PROVE FALSE
      <3>1. o < x
        BY <2>1 DEF Straight, InLine, Before
      <3> QED BY <1>1, <3>1
    <2> QED BY <2>1
  <1> QED BY <1>1, <1>2, <1>3

LEMMA MessageThrowOrder ==
  ASSUME Inv, OrderInv, NEW p \in Partitions, Undisturbed(p)', NEW w \in Workers, MessageThrow(w)
  PROVE  Calm(p)' /\ Straight(p)'
  <1> DEFINE q == worker[w].p
  <1>0. TypeOK /\ Turns /\ part \in [Partitions -> PartitionState]
    BY DEF Inv, TypeOK
  <1>1. /\ worker[w].pc = "busy" /\ worker' = Releasing(w)
        /\ Live(w) => RewindTo(q, FirstEntry(w))
        /\ ~Live(w) => UNCHANGED <<part, seeks>>
        /\ UNCHANGED <<runVars, order, fetchVars, rebalance, rdVars, done, excused>>
    BY DEF MessageThrow
  <1>2. q \in Partitions
    BY <1>0, <1>1, EntriesAre
  <1> HIDE DEF q
  <1>3. CASE p = q /\ Live(w)
    <2>1. part'[p] = Bumped(part[p])
      BY <1>0, <1>1, <1>3 DEF RewindTo
    <2>2. part'[p].epoch = part[p].epoch + 1
      BY <1>0, <2>1, BumpedKeeps
    <2> QED BY <1>0, <2>2, BumpDisturbs
  <1>4. CASE ~(p = q /\ Live(w))
    <2>1. part'[p] = part[p]
      BY <1>0, <1>1, <1>2, <1>4 DEF RewindTo
    <2>2. Calm(p) /\ Straight(p) /\ Undisturbed(p)
      BY <2>1 DEF OrderInv, Undisturbed
    <2>3. p # q
      <3>1. p = q => Busy(w, p)
        BY <1>1 DEF Busy, q
      <3> QED BY <1>0, <1>4, <2>2, <3>1, BusyHolds DEF Inv
    <2>4. seeks'[p] = seeks[p]
      BY <1>0, <1>1, <2>3 DEF RewindTo, SeekQueued, TypeOK
    <2>5. /\ \A v \in Workers \ {w} : worker'[v] = worker[v]
          /\ worker[w].p # p /\ worker'[w].p # p
      BY <1>0, <1>1, <2>3, ReleasedTurn DEF q
    <2>6. TurnStep(p) /\ done'[p] = done[p] /\ stored'[p] = stored[p]
      BY <1>1, <2>4 DEF TurnStep, fetchVars, rdVars
    <2> QED BY <2>1, <2>2, <2>5, <2>6, NotMine
  <1> QED BY <1>3, <1>4
LEMMA BatchThrowOrder ==
  ASSUME Inv, OrderInv, NEW p \in Partitions, Undisturbed(p)', NEW w \in Workers, BatchThrow(w)
  PROVE  Calm(p)' /\ Straight(p)'
  <1> DEFINE q == worker[w].p
             rewind == Live(w) /\ worker[w].resolved <= LastEntry(w)
  <1>0. TypeOK /\ Turns /\ part \in [Partitions -> PartitionState]
    BY DEF Inv, TypeOK
  <1>1. /\ worker[w].pc = "busy" /\ worker' = Releasing(w)
        /\ rewind => RewindTo(q, BatchRest(w))
        /\ ~rewind => UNCHANGED <<part, seeks>>
        /\ UNCHANGED <<runVars, order, fetchVars, rebalance, rdVars, done, excused>>
    BY DEF BatchThrow
  <1>2. q \in Partitions
    BY <1>0, <1>1, EntriesAre
  <1>3. CASE p = q /\ rewind
    <2> HIDE DEF q
    <2>1. part'[p] = Bumped(part[p])
      BY <1>0, <1>1, <1>3 DEF RewindTo
    <2>2. part'[p].epoch = part[p].epoch + 1
      BY <1>0, <2>1, BumpedKeeps
    <2> QED BY <1>0, <2>2, BumpDisturbs
  <1>4. CASE ~(p = q /\ rewind)
    <2> HIDE DEF rewind, q
    <2>1. part'[p] = part[p]
      BY <1>0, <1>1, <1>2, <1>4 DEF RewindTo
    <2>2. Calm(p) /\ Straight(p) /\ Undisturbed(p)
      BY <2>1 DEF OrderInv, Undisturbed
    <2>3. seeks'[p] = seeks[p]
      BY <1>0, <1>1, <1>4 DEF RewindTo, SeekQueued, TypeOK
    <2>4. /\ \A v \in Workers \ {w} : worker'[v] = worker[v]
          /\ worker'[w].p = worker[w].p /\ ~Busy(w, p)'
      BY <1>0, <1>1, ReleasedTurn
    <2>5. TurnStep(p) /\ done'[p] = done[p] /\ stored'[p] = stored[p]
      BY <1>1, <2>3 DEF TurnStep, fetchVars, rdVars
    <2>6. CASE p # q
      BY <2>1, <2>2, <2>4, <2>5, <2>6, NotMine DEF q
    <2>7. CASE p = q
      <3>1. Busy(w, p) /\ Known(p)
        BY <1>1, <2>2, <2>7 DEF Busy, q, Calm
      <3>2. /\ \A v \in Workers \ {w} : ~Busy(v, p) /\ ~Busy(v, p)'
            /\ Handled(p) = OffsetSet(worker[w].entries) /\ Live(w)
            /\ worker[w].entries \in Seq(Offsets) /\ Len(worker[w].entries) \in Nat \ {0}
            /\ \A i \in 1..Len(worker[w].entries) : worker[w].entries[i] \in Offsets
        BY <2>2, <2>4, <3>1, OnlyHandler
      <3>3. ~(worker[w].resolved <= LastEntry(w))
        BY <1>4, <2>7, <3>2 DEF rewind
      <3>4. InHand(w, p)
        BY <2>2 DEF Straight
      <3>5. Rising(worker[w].entries)
        BY <3>1, <3>4 DEF InHand
      <3>6. /\ LastEntry(w) \in Nat
            /\ \A x \in OffsetSet(worker[w].entries) : x \in Nat /\ x <= LastEntry(w)
        BY <3>2, <3>5, TurnRises
      <3>7. worker[w].resolved \in Int
        BY <1>0 DEF TypeOK, WorkerState
      <3>8. \A x \in OffsetSet(worker[w].entries) : x < worker[w].resolved
        BY <3>3, <3>6, <3>7
      <3>9. Handled(p) \subseteq done'[p]
        BY <2>5, <3>1, <3>2, <3>4, <3>8 DEF InHand, OffsetSet
      <3>10. StoresProcessed(p)'
        BY <1>1, <2>2, SameProcessed, SameStores DEF rdVars
      <3> QED BY <2>1, <2>2, <2>4, <2>5, <3>2, <3>9, <3>10, TurnEnds
    <2> QED BY <2>6, <2>7
  <1> QED BY <1>3, <1>4

LEMMA BatchOkOrder ==
  ASSUME Inv, OrderInv, NEW p \in Partitions, Undisturbed(p)', NEW w \in Workers, BatchOk(w)
  PROVE  Calm(p)' /\ Straight(p)'
  <1> DEFINE q == worker[w].p
             unresolved == worker[w].resolved <= LastEntry(w)
             kept == Live(w) /\ unresolved /\ AutoResolve
             rewind == Live(w) /\ unresolved /\ ~AutoResolve
             all == OffsetSet(worker[w].entries)
  <1>0. /\ TypeOK /\ Turns /\ part \in [Partitions -> PartitionState]
        /\ done \in [Partitions -> SUBSET Offsets] /\ stored \in [Partitions -> Nat \union {-1}]
    BY DEF Inv, TypeOK
  <1>1. /\ worker[w].pc = "busy" /\ worker' = Releasing(w)
        /\ done' = IF AutoResolve
                   THEN [done EXCEPT ![q] = @ \union ToSet(worker[w].entries)]
                   ELSE done
        /\ kept => Store(q, StoredOffset(LastEntry(w)), part[q]) /\ seeks' = seeks
        /\ rewind => RewindTo(q, BatchRest(w)) /\ UNCHANGED stored
        /\ ~kept /\ ~rewind => UNCHANGED <<part, seeks, stored>>
        /\ UNCHANGED <<runVars, order, fetchVars, rebalance, assigned, pos, excused>>
    BY DEF BatchOk
  <1>2. /\ q \in Partitions
    BY <1>0, <1>1, EntriesAre
  <1>3. CASE p = q /\ rewind
    <2> HIDE DEF q
    <2>1. part'[p] = Bumped(part[p])
      BY <1>0, <1>1, <1>3 DEF RewindTo
    <2>2. part'[p].epoch = part[p].epoch + 1
      BY <1>0, <2>1, BumpedKeeps
    <2> QED BY <1>0, <2>2, BumpDisturbs
  <1>4. CASE ~(p = q /\ rewind)
    <2> HIDE DEF q, kept, rewind
    <2>1. /\ part'[p].queue = part[p].queue /\ part'[p].epoch = part[p].epoch
          /\ p # q => part'[p] = part[p]
      <3>1. CASE kept
        BY <1>0, <1>1, <1>2, <1>4, <3>1 DEF Store, PartitionState
      <3>2. CASE rewind
        BY <1>0, <1>1, <1>2, <1>4, <3>2 DEF RewindTo
      <3>3. CASE ~kept /\ ~rewind
        BY <1>1, <3>3
      <3> QED BY <3>1, <3>2, <3>3
    <2>2. Calm(p) /\ Straight(p) /\ Undisturbed(p)
      BY <2>1 DEF OrderInv, Undisturbed
    <2>3. seeks'[p] = seeks[p]
      BY <1>0, <1>1, <1>4 DEF RewindTo, SeekQueued, TypeOK
    <2>4. /\ \A v \in Workers \ {w} : worker'[v] = worker[v]
          /\ worker'[w].p = worker[w].p /\ ~Busy(w, p)'
      BY <1>0, <1>1, ReleasedTurn
    <2>5. /\ TurnStep(p)
          /\ p # q => done'[p] = done[p] /\ stored'[p] = stored[p]
      <3>1. done[p] \subseteq done'[p] /\ (p # q => done'[p] = done[p])
        BY <1>0, <1>1, <1>2
      <3>2. p # q => stored'[p] = stored[p]
        <4>1. CASE kept
          BY <1>0, <1>1, <4>1 DEF Store
        <4>2. CASE ~kept
          BY <1>1, <4>2
        <4> QED BY <4>1, <4>2
      <3> QED BY <1>1, <2>3, <3>1, <3>2 DEF TurnStep, fetchVars
    <2>6. CASE p # q
      BY <2>1, <2>2, <2>4, <2>5, <2>6, NotMine DEF q
    <2>7. CASE p = q
      <3>1. Busy(w, p) /\ Known(p) /\ p \in assigned
        BY <1>1, <2>2, <2>7 DEF Busy, q, Calm
      <3>2. /\ \A v \in Workers \ {w} : ~Busy(v, p) /\ ~Busy(v, p)'
            /\ Handled(p) = all /\ Live(w)
            /\ worker[w].entries \in Seq(Offsets) /\ Len(worker[w].entries) \in Nat \ {0}
            /\ \A i \in 1..Len(worker[w].entries) : worker[w].entries[i] \in Offsets
        BY <2>2, <2>4, <3>1, OnlyHandler
      <3>4. InHand(w, p)
        BY <2>2 DEF Straight
      <3>5. Rising(worker[w].entries)
        BY <3>1, <3>4 DEF InHand
      <3>6. /\ LastEntry(w) \in Nat /\ LastEntry(w) \in all
            /\ \A x \in all : x \in Nat /\ x <= LastEntry(w)
        BY <3>2, <3>5, TurnRises
      <3>7. all \subseteq ToSet(worker[w].entries)
        <4>1. DOMAIN worker[w].entries = 1..Len(worker[w].entries)
          BY <3>2, LenProperties
        <4> QED BY <4>1 DEF ToSet, OffsetSet
      <3>8. Processed(p) \subseteq Processed(p)' /\ done'[p] \subseteq Processed(p)'
        BY <2>2, <2>5, TurnStepCalm
      <3>9. CASE kept
        <4>1. AutoResolve
          BY <3>9 DEF kept
        <4>2. Handled(p) \subseteq done'[p]
          BY <1>0, <1>1, <2>7, <3>2, <3>7, <4>1
        <4>3. stored'[p] = StoredOffset(LastEntry(w))
          BY <1>0, <1>1, <2>7, <3>1, <3>9 DEF Store
        <4>4. StoresProcessed(p)'
          BY <2>2, <3>2, <3>6, <3>8, <4>2, <4>3, StoredNextTo
        <4> QED BY <2>1, <2>2, <2>4, <2>5, <3>2, <4>2, <4>4, TurnEnds
      <3>10. CASE ~kept
        <4>1. ~unresolved /\ UNCHANGED stored
          BY <1>1, <1>4, <2>7, <3>2, <3>10 DEF kept, rewind
        <4>2. worker[w].resolved \in Int
          BY <1>0 DEF TypeOK, WorkerState
        <4>3. \A x \in all : x < worker[w].resolved
          BY <3>6, <4>1, <4>2
        <4>4. Handled(p) \subseteq done'[p]
          BY <2>5, <3>1, <3>2, <3>4, <4>3 DEF InHand, OffsetSet, TurnStep
        <4>5. StoresProcessed(p)'
          BY <2>2, <3>8, <4>1, SameStores
        <4> QED BY <2>1, <2>2, <2>4, <2>5, <3>2, <4>4, <4>5, TurnEnds
      <3> QED BY <3>9, <3>10
    <2> QED BY <2>6, <2>7
  <1> QED BY <1>3, <1>4
LEMMA ResolveOffsetOrder ==
  ASSUME Inv, OrderInv, NEW p \in Partitions, Undisturbed(p)', NEW w \in Workers, ResolveOffset(w)
  PROVE  Calm(p)' /\ Straight(p)'
  <1> DEFINE q == worker[w].p
             entries == worker[w].entries
             all == OffsetSet(entries)
  <1>0. /\ TypeOK /\ Turns /\ part \in [Partitions -> PartitionState]
        /\ worker \in [Workers -> WorkerState]
        /\ done \in [Partitions -> SUBSET Offsets] /\ stored \in [Partitions -> Nat \union {-1}]
    BY DEF Inv, TypeOK
  <1>1. PICK o \in ToSet(entries) :
          /\ worker[w].pc = "busy" /\ EachBatch
          /\ worker' = [worker EXCEPT ![w].resolved = StoredOffset(o)]
          /\ done' = [done EXCEPT ![q] = @ \union {x \in ToSet(entries) : x <= o}]
          /\ IF Live(w) THEN Store(q, StoredOffset(o), part[q]) ELSE UNCHANGED <<part, stored>>
          /\ UNCHANGED <<runVars, order, fetchVars, seeks, rebalance, assigned, pos, excused>>
    BY DEF ResolveOffset
  <1>2. q \in Partitions
    BY <1>0, <1>1, EntriesAre
  <1>3. /\ part'[p].queue = part[p].queue /\ part'[p].epoch = part[p].epoch
        /\ p # q => part'[p] = part[p] /\ stored'[p] = stored[p]
    <2> HIDE DEF q
    <2>1. CASE Live(w)
      BY <1>0, <1>1, <1>2, <2>1 DEF Store, PartitionState
    <2>2. CASE ~Live(w)
      BY <1>1, <2>2
    <2> QED BY <2>1, <2>2
  <1>4. Calm(p) /\ Straight(p) /\ Undisturbed(p)
    BY <1>3 DEF OrderInv, Undisturbed
  <1>5. /\ \A v \in Workers \ {w} : worker'[v] = worker[v]
        /\ worker'[w].p = q /\ worker'[w].pc = "busy" /\ worker'[w].entries = entries
        /\ worker'[w].resolved = StoredOffset(o)
    BY <1>0, <1>1 DEF WorkerState
  <1>6. TurnStep(p) /\ (p # q => done'[p] = done[p])
    <2> HIDE DEF q
    <2>1. done[p] \subseteq done'[p] /\ (p # q => done'[p] = done[p])
      BY <1>0, <1>1, <1>2
    <2> QED BY <1>1, <2>1 DEF TurnStep, fetchVars
  <1>7. CASE p # q
    BY <1>3, <1>4, <1>5, <1>6, <1>7, NotMine
  <1>8. CASE p = q
    <2>1. Busy(w, p) /\ Known(p) /\ p \in assigned /\ Busy(w, p)'
      BY <1>1, <1>4, <1>5, <1>8 DEF Busy, Calm
    <2>2. /\ \A v \in Workers \ {w} : ~Busy(v, p) /\ ~Busy(v, p)'
          /\ Handled(p) = all /\ Live(w)
          /\ entries \in Seq(Offsets) /\ Len(entries) \in Nat \ {0}
          /\ \A i \in 1..Len(entries) : entries[i] \in Offsets
      BY <1>4, <1>5, <2>1, OnlyHandler
    <2>3. InHand(w, p) /\ Rising(entries)
      BY <1>4, <2>1 DEF Straight, InHand
    <2>4. ToSet(entries) = all /\ all \subseteq Nat
      <3>1. DOMAIN entries = 1..Len(entries)
        BY <2>2, LenProperties
      <3> QED BY <2>2, <3>1, OffsetsAreNat DEF ToSet, OffsetSet
    <2>5. o \in Handled(p) /\ o \in Nat
      BY <1>1, <2>2, <2>4
    <2>6. stored'[p] = StoredOffset(o)
      BY <1>0, <1>1, <1>8, <2>1, <2>2 DEF Store
    <2>7. done'[p] = done[p] \union {x \in all : x <= o}
      BY <1>0, <1>1, <1>8, <2>4
    <2>8. /\ Processed(p) \subseteq Processed(p)' /\ done'[p] \subseteq Processed(p)'
          /\ OffsetsIn(Answered, p)' = OffsetsIn(Answered, p) /\ RisesFor(Answered, p)'
          /\ runEpoch' = runEpoch /\ buffer' = buffer /\ pos'[p] = pos[p] /\ Calm(p)'
          /\ (EachBatch' <=> EachBatch)
      BY <1>4, <1>6, TurnStepCalm
    <2> HIDE DEF all, entries, q
    <2>9. \A x \in Handled(p) : x <= o => x \in Processed(p)'
      BY <2>2, <2>7, <2>8
    <2>10. StoresProcessed(p)'
      BY <1>4, <2>5, <2>6, <2>8, <2>9, StoredNextTo
    <2>11. Handled(p)' = Handled(p) /\ Waiting(p)' = Waiting(p)
      <3>1. Handled(p)' = all
        BY <1>5, <2>1, <2>2, HandledNext DEF all
      <3> QED BY <1>3, <2>2, <3>1 DEF Waiting
    <2>12. \A v \in Workers : InHand(v, p)'
      <3>1. \A v \in Workers \ {w} : InHand(v, p)'
        BY <2>2 DEF InHand
      <3>2. InHand(w, p)'
        <4>1. Rising(worker[w].entries)'
          BY <1>5, <2>3 DEF Rising
        <4>2. EachBatch'
          BY <1>1, <2>8
        <4>3. ASSUME NEW i \in 1..Len(worker'[w].entries),
                     worker'[w].entries[i] < worker'[w].resolved
              PROVE  worker'[w].entries[i] \in done'[p]
          <5>1. worker'[w].entries[i] = entries[i] /\ i \in 1..Len(entries)
            BY <1>5
          <5>2. entries[i] \in all /\ entries[i] \in Nat
            BY <2>2, <2>4, <5>1 DEF all, OffsetSet
          <5>3. entries[i] <= o
            BY <1>5, <2>5, <4>3, <5>1, <5>2 DEF StoredOffset
          <5> QED BY <2>7, <5>1, <5>2, <5>3
        <4> QED BY <4>1, <4>2, <4>3 DEF InHand
      <3> QED BY <3>1, <3>2
    <2>13. QueueRises(part[p].queue)' /\ Before(Handled(p)', Waiting(p)')
      BY <1>3, <1>4, <2>11 DEF Straight, QueueRises, InLine, Before
    <2> QED BY <1>4, <2>8, <2>10, <2>11, <2>12, <2>13, StraightOn
  <1> QED BY <1>7, <1>8

LEMMA MessageOkOrder ==
  ASSUME Inv, OrderInv, NEW p \in Partitions, Undisturbed(p)', NEW w \in Workers, MessageOk(w)
  PROVE  Calm(p)' /\ Straight(p)'
  <1> DEFINE q == worker[w].p
             s == part[q]
             o == FirstEntry(w)
             h == Handling(q, s, worker[w].turn + 1)
             r == Rest(s, 1)
             g == [s EXCEPT !.queue = r]
  <1>0. /\ TypeOK /\ Turns /\ QueueIsCurrent /\ part \in [Partitions -> PartitionState]
        /\ worker \in [Workers -> WorkerState]
        /\ done \in [Partitions -> SUBSET Offsets] /\ stored \in [Partitions -> Nat \union {-1}]
    BY DEF Inv, TypeOK
  <1>1. /\ worker[w].pc = "busy" /\ ~EachBatch
        /\ done' = [done EXCEPT ![q] = @ \union {o}]
        /\ \/ ~Live(w) /\ worker' = Releasing(w) /\ UNCHANGED <<part, stored>>
           \/ /\ worker' = [worker EXCEPT ![w] = h] /\ Current(s) # {}
              /\ Store(q, StoredOffset(o), g)
           \/ worker' = Releasing(w) /\ Store(q, StoredOffset(o), s)
        /\ UNCHANGED <<runVars, order, fetchVars, seeks, rebalance, assigned, pos, excused>>
    BY DEF MessageOk
  <1>2. q \in Partitions /\ s \in PartitionState /\ Pure(s)
    <2>1. q \in Partitions
      BY <1>0, <1>1, EntriesAre
    <2> QED BY <1>0, <2>1 DEF QueueIsCurrent, Pure
  <1>9. g.queue = r /\ g.epoch = s.epoch /\ DOMAIN g = DOMAIN s
    BY <1>2 DEF PartitionState
  <1>10. Store(q, StoredOffset(o), g) =>
           /\ part' = [part EXCEPT ![q] = g]
              \/ part' = [part EXCEPT ![q] = [g EXCEPT !.storedNext = StoredOffset(o)]]
           /\ stored' = stored \/ stored' = [stored EXCEPT ![q] = StoredOffset(o)]
    BY DEF Store
  <1>11. /\ [g EXCEPT !.storedNext = StoredOffset(o)].queue = r
         /\ [g EXCEPT !.storedNext = StoredOffset(o)].epoch = s.epoch
    BY <1>2, <1>9 DEF PartitionState
  <1>3. /\ part'[p].epoch = part[p].epoch
        /\ p # q => part'[p] = part[p] /\ stored'[p] = stored[p]
    <2> HIDE DEF q, h, r, o, g
    <2>1. CASE UNCHANGED <<part, stored>>
      BY <2>1
    <2>2. CASE Store(q, StoredOffset(o), g)
      BY <1>0, <1>2, <1>9, <1>10, <1>11, <2>2
    <2>3. CASE Store(q, StoredOffset(o), s)
      BY <1>0, <1>2, <2>3 DEF Store, PartitionState
    <2> QED BY <1>1, <2>1, <2>2, <2>3
  <1>4. Calm(p) /\ Straight(p) /\ Undisturbed(p)
    BY <1>3 DEF OrderInv, Undisturbed
  <1>5. \A v \in Workers \ {w} : worker'[v] = worker[v]
    BY <1>0, <1>1, ReleasedTurn
  <1>6. TurnStep(p) /\ (p # q => done'[p] = done[p])
    <2> HIDE DEF q, o
    <2>1. done[p] \subseteq done'[p] /\ (p # q => done'[p] = done[p])
      BY <1>0, <1>1, <1>2
    <2> QED BY <1>1, <2>1 DEF TurnStep, fetchVars
  <1>7. CASE p # q
    <2>1. worker'[w].p = q
      <3>1. CASE worker' = Releasing(w)
        BY <1>0, <3>1, ReleasedTurn
      <3>2. CASE worker' = [worker EXCEPT ![w] = h]
        BY <1>0, <3>2 DEF Handling
      <3> QED BY <1>1, <3>1, <3>2
    <2> QED BY <1>3, <1>4, <1>5, <1>6, <1>7, <2>1, NotMine
  <1>8. CASE p = q
    <2>1. Busy(w, p) /\ Known(p) /\ p \in assigned
      BY <1>1, <1>4, <1>8 DEF Busy, Calm
    <2>2. /\ \A v \in Workers \ {w} : ~Busy(v, p) /\ ~Busy(v, p)'
          /\ Handled(p) = OffsetSet(worker[w].entries) /\ Live(w)
          /\ worker[w].entries \in Seq(Offsets) /\ Len(worker[w].entries) \in Nat \ {0}
          /\ \A i \in 1..Len(worker[w].entries) : worker[w].entries[i] \in Offsets
      BY <1>4, <1>5, <2>1, OnlyHandler
    <2>3. Len(worker[w].entries) = 1
      BY <1>1, <1>4, <2>1 DEF Straight, InHand
    <2>4. Handled(p) = {o} /\ o \in Offsets /\ o \in Nat
      BY <2>2, <2>3, OffsetsAreNat DEF OffsetSet, FirstEntry
    <2>5. stored'[p] = StoredOffset(o)
      BY <1>0, <1>1, <1>8, <2>1, <2>2 DEF Store
    <2>6. Handled(p) \subseteq done'[p]
      BY <1>0, <1>1, <1>8, <2>4
    <2>7. Processed(p) \subseteq Processed(p)' /\ done'[p] \subseteq Processed(p)'
      BY <1>4, <1>6, TurnStepCalm
    <2>8. StoresProcessed(p)'
      BY <1>4, <2>4, <2>5, <2>6, <2>7, StoredNextTo
    <2>9. CASE /\ worker' = [worker EXCEPT ![w] = h] /\ Current(s) # {}
               /\ Store(q, StoredOffset(o), g)
      <3>1. part'[p].queue = r
        <4> HIDE DEF g, r, o
        <4> QED BY <1>0, <1>2, <1>8, <1>9, <1>10, <1>11, <2>9
      <3>2. TurnSize = 1
        BY <1>1 DEF TurnSize
      <3>3. worker'[w] = h /\ s = part[p] /\ h = Handling(p, s, worker[w].turn + 1)
        BY <1>0, <1>8, <2>9
      <3>4. part'[p].queue = Rest(s, TurnSize)
        BY <3>1, <3>2
      <3> HIDE DEF q, s, h, r, o
      <3> QED BY <1>2, <1>4, <1>6, <2>2, <2>6, <2>8, <2>9, <3>3, <3>4, TurnBegins
    <2>10. CASE worker' = Releasing(w) /\ Store(q, StoredOffset(o), s)
      <3>1. part'[p].queue = part[p].queue
        BY <1>0, <1>2, <1>8, <2>1, <2>10, ZenonT(60) DEF Store, PartitionState
      <3>2. \A v \in Workers : ~Busy(v, p)'
        BY <1>0, <2>2, <2>10, ReleasedTurn
      <3> QED BY <1>4, <1>6, <2>6, <2>8, <3>1, <3>2, TurnEnds
    <2> QED BY <1>1, <2>2, <2>9, <2>10
  <1> QED BY <1>7, <1>8

-----------------------------------------------------------------------------
(* A worker goes round its loop.                                           *)

(* It claims partition q, found in state s, and enters its handler.        *)
Enters(w, ps, ws, q, s) ==
  /\ Claimable(ps[q]) /\ s = [ps[q] EXCEPT !.claimed = TRUE]
  /\ worker' = [ws EXCEPT ![w] = Handling(q, s, 1)]
  /\ part' = [ps EXCEPT ![q] = [s EXCEPT !.queue = Rest(s, TurnSize)]]

LEMMA LoopTopEnters ==
  ASSUME order \in Seq(Partitions), claimCursor \in Nat, NEW ps, NEW ws, NEW w,
         LoopTop(w, ps, ws)
  PROVE  \/ part' = ps /\ \E pc \in {"off", "waiting"} : worker' = [ws EXCEPT ![w] = Idle(pc)]
         \/ \E q \in Partitions : \E s : Enters(w, ps, ws, q, s)
  <1> DEFINE c == ClaimIndex(ps)
             q == order[c]
             s == [ps[q] EXCEPT !.claimed = TRUE]
  <1>1. CASE ~running \/ c = 0
    BY <1>1 DEF LoopTop
  <1>2. CASE running /\ c # 0
    <2>1. c \in 1..Len(order) /\ Claimable(ps[q])
      BY <1>2, ClaimIndexIs
    <2>2. q \in Partitions
      BY <2>1, ElementOfSeq
    <2>3. /\ worker' = [ws EXCEPT ![w] = Handling(q, s, 1)]
          /\ part' = [ps EXCEPT ![q] = [s EXCEPT !.queue = Rest(s, TurnSize)]]
      BY <1>2 DEF LoopTop
    <2>4. Enters(w, ps, ws, q, s)
      BY <2>1, <2>3 DEF Enters
    <2> QED BY <2>2, <2>4
  <1> QED BY <1>1, <1>2

LEMMA LoopOrder ==
  ASSUME Inv, OrderInv, NEW p \in Partitions, Undisturbed(p)', NEW w \in Workers,
         worker[w].pc # "busy", NEW ps, SameQueues(ps), NEW ws \in [Workers -> WorkerState],
         \A v \in Workers : /\ ws[v].pc = "busy" <=> worker[v].pc = "busy"
                            /\ worker[v].pc = "busy" => ws[v] = worker[v],
         Known(p) => (ps[p].claimed <=> \E v \in Workers \ {w} : Holds(worker[v], p, part[p])),
         LoopTop(w, ps, ws), TurnStep(p), done' = done, stored' = stored
  PROVE  Calm(p)' /\ Straight(p)'
  <1>0. /\ TypeOK /\ Births /\ Turns /\ QueueIsCurrent
        /\ part \in [Partitions -> PartitionState] /\ ps \in [Partitions -> PartitionState]
        /\ order \in Seq(Partitions) /\ claimCursor \in Nat
    BY DEF Inv, TypeOK, SameQueues
  <1>1. CASE part' = ps /\ \E pc \in {"off", "waiting"} : worker' = [ws EXCEPT ![w] = Idle(pc)]
    <2>1. part'[p].queue = part[p].queue /\ part'[p].epoch = part[p].epoch
      BY <1>1 DEF SameQueues
    <2>2. Calm(p) /\ Straight(p)
      BY <2>1 DEF OrderInv, Undisturbed
    <2>3. \A v \in Workers : /\ Busy(v, p)' <=> Busy(v, p)
                             /\ Busy(v, p) => worker'[v] = worker[v]
      <3>1. /\ worker'[w].pc # "busy"
            /\ \A v \in Workers \ {w} : worker'[v] = ws[v]
        BY <1>1 DEF Idle
      <3>2. ~Busy(w, p) /\ ~Busy(w, p)'
        BY <3>1 DEF Busy
      <3>3. \A v \in Workers \ {w} : /\ Busy(v, p)' <=> Busy(v, p)
                                     /\ Busy(v, p) => worker'[v] = worker[v]
        BY <3>1 DEF Busy
      <3> QED BY <3>2, <3>3
    <2> QED BY <2>1, <2>2, <2>3, OthersTurn
  <1>2. CASE \E q \in Partitions : \E s : Enters(w, ps, ws, q, s)
    <2>1. PICK q \in Partitions : \E s : Enters(w, ps, ws, q, s)
      BY <1>2
    <2>2. PICK s : Enters(w, ps, ws, q, s)
      BY <2>1
    <2> DEFINE h == Handling(q, s, 1)
               r == Rest(s, TurnSize)
               t == [s EXCEPT !.queue = r]
    <2>3. /\ s \in PartitionState /\ s.queue = ps[q].queue /\ s.epoch = ps[q].epoch
          /\ s.queue = part[q].queue /\ s.epoch = part[q].epoch
          /\ Claimable(ps[q]) /\ worker' = [ws EXCEPT ![w] = h] /\ part' = [ps EXCEPT ![q] = t]
      <3>1. /\ s = [ps[q] EXCEPT !.claimed = TRUE] /\ ps[q] \in PartitionState
            /\ Claimable(ps[q]) /\ worker' = [ws EXCEPT ![w] = h] /\ part' = [ps EXCEPT ![q] = t]
        BY <1>0, <2>2 DEF Enters
      <3> HIDE DEF t, h
      <3>2. /\ s \in PartitionState /\ s.queue = ps[q].queue /\ s.epoch = ps[q].epoch
        BY <3>1 DEF PartitionState
      <3> QED BY <3>1, <3>2 DEF SameQueues
    <2>4. t.queue = r /\ t.epoch = part[q].epoch
      BY <2>3 DEF PartitionState
    <2>5. /\ worker'[w] = h /\ \A v \in Workers \ {w} : worker'[v] = ws[v]
          /\ h.pc = "busy" /\ h.p = q
      BY <2>3 DEF Handling
    <2> HIDE DEF t
    <2>6. part'[p].epoch = part[p].epoch
      BY <1>0, <2>3, <2>4 DEF SameQueues
    <2>7. Calm(p) /\ Straight(p) /\ Undisturbed(p) /\ Known(p)
      BY <2>6 DEF OrderInv, Undisturbed, Calm
    <2>8. \A v \in Workers \ {w} : Busy(v, p)' <=> Busy(v, p)
      BY <2>5 DEF Busy
    <2>9. CASE p # q
      <3>1. part'[p].queue = part[p].queue
        BY <1>0, <2>3, <2>9 DEF SameQueues
      <3>2. ~Busy(w, p) /\ ~Busy(w, p)'
        BY <2>5, <2>9 DEF Busy
      <3>3. \A v \in Workers \ {w} : Busy(v, p) => worker'[v] = worker[v]
        BY <2>5 DEF Busy
      <3> QED BY <2>7, <2>8, <3>1, <3>2, <3>3, OthersTurn
    <2>10. CASE p = q
      <3>1. ~ps[p].claimed /\ Current(ps[p]) # {}
        BY <2>3, <2>10 DEF Claimable
      <3>2. \A v \in Workers : ~Busy(v, p)
        <4>1. \A v \in Workers \ {w} : ~Holds(worker[v], p, part[p])
          BY <2>7, <3>1
        <4>2. \A v \in Workers : Busy(v, p) => Holds(worker[v], p, part[p])
          BY <1>0, <2>7, BusyHolds
        <4> QED BY <4>1, <4>2 DEF Busy
      <3>3. Handled(p) = {}
        BY <3>2, NobodyHandles
      <3>4. Pure(s) /\ Current(s) # {} /\ s.queue = part[p].queue
        <4>1. s.queue = ps[p].queue /\ s.epoch = ps[p].epoch
          BY <2>3, <2>10
        <4>2. Current(s) = Current(ps[p])
          BY <4>1 DEF Current
        <4>3. s.queue = part[p].queue /\ s.epoch = part[p].epoch
          BY <2>3, <2>10
        <4>4. Pure(s)
          BY <1>0, <4>3 DEF Pure, QueueIsCurrent
        <4> QED BY <3>1, <4>2, <4>3, <4>4
      <3>5. part'[p].queue = r
        BY <1>0, <2>3, <2>4, <2>10
      <3>6. StoresProcessed(p)'
        BY <2>7, SameProcessed, SameStores DEF TurnStep
      <3>7. worker'[w] = Handling(p, s, 1) /\ part'[p].queue = Rest(s, TurnSize)
        BY <2>5, <2>10, <3>5
      <3>8. (\A v \in Workers \ {w} : ~Busy(v, p)') /\ Handled(p) \subseteq done'[p]
        BY <2>8, <3>2, <3>3
      <3> HIDE DEF h, r
      <3> QED BY <2>3, <2>7, <3>4, <3>6, <3>7, <3>8, TurnBegins
    <2> QED BY <2>9, <2>10
  <1> QED BY <1>0, <1>1, <1>2, LoopTopEnters

LEMMA WakeupOrder ==
  ASSUME Inv, OrderInv, NEW p \in Partitions, Undisturbed(p)', NEW w \in Workers, Wakeup(w)
  PROVE  Calm(p)' /\ Straight(p)'
  <1>0. /\ TypeOK /\ Claims /\ worker \in [Workers -> WorkerState]
        /\ part \in [Partitions -> PartitionState]
    BY DEF Inv, TypeOK
  <1>1. /\ worker[w].pc = "ready" /\ LoopTop(w, part, worker)
        /\ UNCHANGED <<runVars, order, pendingSeeks, fetchVars, seeks, rebalance, rdVars, history>>
    BY DEF Wakeup
  <1>2. ~Working(worker[w]) /\ worker[w].pc # "busy"
    BY <1>1 DEF Working
  <1>3. SameQueues(part)
    BY <1>0 DEF SameQueues
  <1>4. Known(p) => (part[p].claimed <=> \E v \in Workers \ {w} : Holds(worker[v], p, part[p]))
    BY <1>0, <1>2 DEF Claims, Holds
  <1>5. TurnStep(p) /\ done' = done /\ stored' = stored
    BY <1>1 DEF TurnStep, fetchVars, rdVars, history
  <1> QED BY <1>0, <1>1, <1>2, <1>3, <1>4, <1>5, LoopOrder

LEMMA ReleaseOrder ==
  ASSUME Inv, OrderInv, NEW p \in Partitions, Undisturbed(p)', NEW w \in Workers, Release(w)
  PROVE  Calm(p)' /\ Straight(p)'
  <1> DEFINE ps == Unclaimed(w)
             ws == Signalled(worker)
  <1>0. TypeOK /\ Claims /\ worker \in [Workers -> WorkerState]
    BY DEF Inv, TypeOK
  <1>1. /\ worker[w].pc = "release" /\ LoopTop(w, ps, ws)
        /\ UNCHANGED <<runVars, order, pendingSeeks, answer, buffer, seeks, rebalance,
                       rdVars, history>>
    BY DEF Release
  <1>2. /\ SameQueues(ps)
        /\ Known(p) => (ps[p].claimed <=> \E v \in Workers \ {w} : Holds(worker[v], p, part[p]))
    BY <1>0, <1>1, UnclaimedIs
  <1>3. /\ ws \in [Workers -> WorkerState]
        /\ \A v \in Workers : /\ ws[v].pc = "busy" <=> worker[v].pc = "busy"
                              /\ worker[v].pc = "busy" => ws[v] = worker[v]
    <2>1. ws \in [Workers -> WorkerState]
      BY <1>0, SignalledType
    <2> QED BY <1>0, <2>1 DEF Signalled, Idle
  <1>4. TurnStep(p) /\ done' = done /\ stored' = stored
    BY <1>1 DEF TurnStep, rdVars, history
  <1>5. worker[w].pc # "busy"
    BY <1>1
  <1> HIDE DEF ps, ws
  <1> QED BY <1>1, <1>2, <1>3, <1>4, <1>5, LoopOrder

-----------------------------------------------------------------------------
(* The order is kept by every step.                                        *)

LEMMA RunsGoOn ==
  ASSUME TypeOK, RunsCounted, UNCHANGED <<running, runEpoch>>,
         request' = request \/ request' = runEpoch \/ request' = 0,
         \/ answer' = answer \/ answer' = None
         \/ request # 0 /\ \E batch : answer' = [run |-> request, batch |-> batch]
  PROVE  RunsCounted'
  <1>1. runEpoch \in Nat /\ request \in Nat
    BY DEF TypeOK
  <1>2. answer' # None => answer'.run \in 1..runEpoch
    <2>1. CASE answer' = answer \/ answer' = None
      BY <2>1 DEF RunsCounted
    <2>2. CASE request # 0 /\ \E batch : answer' = [run |-> request, batch |-> batch]
      BY <1>1, <2>2 DEF RunsCounted
    <2> QED BY <2>1, <2>2
  <1> QED BY <1>1, <1>2 DEF RunsCounted

LEMMA RunsStayCounted ==
  ASSUME Inv, RunsCounted, [Next]_vars
  PROVE  RunsCounted'
  <1>0. TypeOK /\ Halts
    BY DEF Inv
  <1>1. CASE PumpCallback
    <2>1. /\ answer' = None /\ UNCHANGED <<running, runEpoch>>
          /\ request' = request \/ request' = runEpoch
      BY <1>1 DEF PumpCallback, Pump, runVars
    <2> QED BY <1>0, <2>1, RunsGoOn
  <1>2. CASE PollTick
    <2>1. /\ UNCHANGED <<running, runEpoch>>
          /\ \/ request' = request /\ answer' = answer
             \/ /\ request' = 0 /\ request # 0
                /\ \E batch : answer' = [run |-> request, batch |-> batch]
      BY <1>2 DEF PollTick, runVars
    <2> QED BY <1>0, <2>1, RunsGoOn
  <1>3. CASE RequestTimeout
    <2>1. /\ UNCHANGED <<running, runEpoch>> /\ request' = 0 /\ request # 0
          /\ answer' = [run |-> request, batch |-> <<>>]
      BY <1>3 DEF RequestTimeout, runVars
    <2> QED BY <1>0, <2>1, RunsGoOn
  <1>4. ASSUME NEW w \in Workers, Release(w)
        PROVE  RunsCounted'
    <2>1. /\ UNCHANGED <<running, runEpoch, answer>>
          /\ request' = request \/ request' = runEpoch
      BY <1>4 DEF Release, MaybeResumePump, Pump, runVars
    <2> QED BY <1>0, <2>1, RunsGoOn
  <1>5. ASSUME NEW w \in Workers, Wakeup(w) \/ HandlerSettles(w) \/ ResolveOffset(w)
        PROVE  RunsCounted'
    <2>1. UNCHANGED <<running, runEpoch, request, answer>>
      BY <1>5 DEF Wakeup, HandlerSettles, MessageOk, MessageThrow, BatchOk, BatchThrow,
         ResolveOffset, runVars, fetchVars
    <2> QED BY <1>0, <2>1, RunsGoOn
  <1>6. ASSUME NEW p \in Partitions,
               \/ RunSeek(p) \/ SeekCompleted(p) \/ Seek(p) \/ Pause(p) \/ Resume(p)
               \/ StoreOffsets(p) \/ CommitOffsets(p)
        PROVE  RunsCounted'
    <2>1. UNCHANGED <<running, runEpoch, request, answer>>
      BY <1>6 DEF RunSeek, SeekCompleted, Seek, Pause, Resume, StoreOffsets, CommitOffsets,
         runVars, fetchVars
    <2> QED BY <1>0, <2>1, RunsGoOn
  <1>7. CASE RevokeEvent \/ AssignEvent \/ RebalanceDone \/ UNCHANGED vars
    <2>1. UNCHANGED <<running, runEpoch, request, answer>>
      BY <1>7 DEF RevokeEvent, AssignEvent, RebalanceDone, vars, runVars, fetchVars
    <2> QED BY <1>0, <2>1, RunsGoOn
  <1>8. CASE Run
    <2>1. /\ running' = TRUE /\ runEpoch' = runEpoch + 1 /\ answer' = answer
          /\ request' = request \/ request' = runEpoch + 1
      BY <1>8 DEF Run, Pump
    <2> QED BY <1>0, <2>1 DEF RunsCounted, TypeOK
  <1>9. CASE Stop \/ Disconnect
    <2>1. running /\ runEpoch' = runEpoch + 1 /\ UNCHANGED <<request, answer>>
      BY <1>9 DEF Stop, Disconnect, Halt, fetchVars
    <2> QED BY <1>0, <2>1 DEF RunsCounted, TypeOK, Halts
  <1>10. CASE HaltDone
    <2>1. /\ UNCHANGED <<running, runEpoch>>
          /\ request' = request \/ request' = 0
          /\ \/ answer' = answer
             \/ request # 0 /\ \E batch : answer' = [run |-> request, batch |-> batch]
      BY <1>10 DEF HaltDone
    <2> QED BY <1>0, <2>1, RunsGoOn
  <1> QED BY <1>1, <1>2, <1>3, <1>4, <1>5, <1>6, <1>7, <1>8, <1>9, <1>10 DEF Next

LEMMA StutterOrder ==
  ASSUME Inv, OrderInv, NEW p \in Partitions, Undisturbed(p)', UNCHANGED vars
  PROVE  Calm(p)' /\ Straight(p)'
  <1>1. /\ UNCHANGED <<runVars, order, part, answer, buffer, worker, seeks, rebalance, assigned,
                       pos, stored, done, excused>>
    BY DEF vars, partVars, fetchVars, rdVars, history
  <1>2. Calm(p) /\ Straight(p)
    BY <1>1 DEF OrderInv, Undisturbed
  <1> QED BY <1>1, <1>2, Elsewhere DEF Calm

LEMMA InitOrder == Init => OrderInv
  <1> SUFFICES ASSUME Init PROVE OrderInv
    OBVIOUS
  <1>1. RunsCounted
    BY DEF Init, RunsCounted
  <1>2. ASSUME NEW p \in Partitions PROVE Calm(p) /\ Straight(p)
    <2>1. /\ running = FALSE /\ runEpoch = 0 /\ order = SetToSeq(Partitions)
          /\ part[p].queue = <<>> /\ request = 0 /\ answer = None /\ buffer = <<>>
          /\ worker = [w \in Workers |-> Idle("off")] /\ seeks[p] = {} /\ rebalance = None
          /\ p \in assigned /\ pos[p] = 0 /\ stored[p] = -1
      BY DEF Init, FreshPart
    <2>2. Known(p)
      <3> DEFINE l == SetToSeq(Partitions)
      <3>1. IsFiniteSet(Partitions)
        BY ConstantsAssumption
      <3>2. \A x \in Partitions : \E i \in 1..Len(l) : l[i] = x
        BY <3>1, SetToSeqLists
      <3> HIDE DEF l
      <3>3. order = l
        BY <2>1 DEF l
      <3> QED BY <3>2, <3>3 DEF Known
    <2>3. Calm(p)
      BY <2>1, <2>2 DEF Calm
    <2>4. \A w \in Workers : ~Busy(w, p)
      BY <2>1 DEF Busy, Idle
    <2>5. (\A w \in Workers : InHand(w, p)) /\ Handled(p) = {}
      BY <2>4, NobodyHandles DEF InHand
    <2>6. /\ Len(buffer) = 0 /\ Len(Answered) = 0 /\ Len(part[p].queue) = 0
      BY <2>1, EmptySeq DEF Answered
    <2>7. /\ QueueRises(part[p].queue) /\ RisesFor(Answered, p) /\ RisesFor(buffer, p)
          /\ Waiting(p) = {} /\ OffsetsIn(Answered, p) = {} /\ OffsetsIn(buffer, p) = {}
      BY <2>6 DEF QueueRises, RisesFor, Waiting, QueueOffsets, OffsetsIn
    <2>8. Upto(pos[p]) = {} /\ Upto(stored[p]) = {}
      BY <2>1 DEF Upto
    <2> QED BY <2>3, <2>5, <2>7, <2>8 DEF Straight, InLine, Before, NoGap, NoneLost,
         StoresProcessed
  <1> QED BY <1>1, <1>2 DEF OrderInv

LEMMA NextOrder ==
  ASSUME Inv, OrderInv, [Next]_vars
  PROVE  OrderInv'
  <1> SUFFICES ASSUME NEW p \in Partitions, Undisturbed(p)'
               PROVE  Calm(p)' /\ Straight(p)'
    BY RunsStayCounted DEF OrderInv
  <1>1. CASE PumpCallback \/ PollTick \/ RequestTimeout
    BY <1>1, PumpCallbackOrder, PollTickOrder, RequestTimeoutOrder
  <1>2. ASSUME NEW w \in Workers,
               Wakeup(w) \/ Release(w) \/ HandlerSettles(w) \/ ResolveOffset(w)
        PROVE  Calm(p)' /\ Straight(p)'
    <2>1. CASE Wakeup(w) \/ Release(w) \/ ResolveOffset(w)
      BY <2>1, WakeupOrder, ReleaseOrder, ResolveOffsetOrder
    <2>2. CASE HandlerSettles(w)
      BY <2>2, MessageOkOrder, MessageThrowOrder, BatchOkOrder, BatchThrowOrder
         DEF HandlerSettles
    <2> QED BY <1>2, <2>1, <2>2
  <1>3. ASSUME NEW q \in Partitions,
               \/ RunSeek(q) \/ SeekCompleted(q) \/ Seek(q) \/ Pause(q) \/ Resume(q)
               \/ StoreOffsets(q) \/ CommitOffsets(q)
        PROVE  Calm(p)' /\ Straight(p)'
    BY <1>3, RunSeekOrder, SeekCompletedOrder, SeekOrder, PauseOrder, ResumeOrder,
       StoreOffsetsOrder, CommitOffsetsOrder
  <1>4. CASE RevokeEvent \/ AssignEvent \/ RebalanceDone
    BY <1>4, RevokeEventOrder, AssignEventOrder, RebalanceDoneOrder
  <1>5. CASE Run \/ HaltDone
    BY <1>5, RunOrder, HaltDoneOrder
  <1>6. CASE Stop \/ Disconnect
    BY <1>6, HaltOrder DEF Stop, Disconnect
  <1>7. CASE UNCHANGED vars
    BY <1>7, StutterOrder
  <1> QED BY <1>1, <1>2, <1>3, <1>4, <1>5, <1>6, <1>7 DEF Next

LEMMA OrderIs ==
  ASSUME Inv, OrderInv
  PROVE  ProcessedInOrder
  <1> SUFFICES ASSUME NEW p \in Partitions, Undisturbed(p)
               PROVE  /\ StoresProcessed(p) /\ Alone(p)
                      /\ \A w \in Workers : InOrder(w, p)
    BY DEF ProcessedInOrder
  <1>1. Calm(p) /\ Straight(p) /\ Known(p)
    BY DEF OrderInv, Calm
  <1>2. Alone(p)
    BY <1>1, OneHandler
  <1>3. ASSUME NEW w \in Workers, Busy(w, p)
        PROVE  Upto(FirstEntry(w)) \subseteq Processed(p)
    <2>1. /\ worker[w].entries \in Seq(Offsets) /\ Len(worker[w].entries) \in Nat \ {0}
          /\ \A i \in 1..Len(worker[w].entries) : worker[w].entries[i] \in Offsets
      BY <1>3, BusyHolds DEF Inv
    <2>2. Handled(p) = OffsetSet(worker[w].entries)
      BY <1>2, <1>3, HandledNow DEF Alone
    <2>3. Rising(worker[w].entries)
      BY <1>1, <1>3 DEF Straight, InHand
    <2>4. /\ FirstEntry(w) \in Handled(p) /\ FirstEntry(w) \in Nat
          /\ \A x \in Handled(p) : x \in Nat /\ FirstEntry(w) <= x
      BY <2>1, <2>2, <2>3, TurnRises
    <2>5. ASSUME NEW x \in Upto(FirstEntry(w)) PROVE x \in Processed(p)
      <3>1. x \in Nat /\ x < FirstEntry(w)
        BY <2>4 DEF Upto
      <3>2. x \in Processed(p) \union Handled(p) \union Waiting(p)
        BY <1>1, <2>4 DEF Straight, NoGap
      <3>3. x \notin Handled(p)
        BY <2>4, <3>1
      <3>4. x \in Waiting(p) => FirstEntry(w) < x
        BY <1>1, <2>4 DEF Straight, InLine, Before
      <3> QED BY <2>4, <3>1, <3>2, <3>3, <3>4
    <2> QED BY <2>5
  <1> QED BY <1>1, <1>2, <1>3 DEF Straight, InOrder

LEMMA OrderInvariance == Spec => [](Inv /\ OrderInv)
  <1>1. Init => Inv /\ OrderInv
    BY InitInv, InitOrder
  <1>2. Inv /\ OrderInv /\ [Next]_vars => Inv' /\ OrderInv'
    BY NextInv, NextOrder
  <1> QED BY <1>1, <1>2, PTL DEF Spec

(* Until a partition is first rewound, revoked or halted its messages are  *)
(* handled in the order of their offsets, by one handler at a time, and no *)
(* offset is stored past one that is not processed (consumer.ts:18-22,     *)
(* 29-40; #claimNext, #processMessages, #processBatch, #store).            *)
THEOREM ProcessedInOrderAlways == Spec => []ProcessedInOrder
  <1>1. Inv /\ OrderInv => ProcessedInOrder
    BY OrderIs
  <1> QED BY <1>1, OrderInvariance, PTL
=============================================================================
