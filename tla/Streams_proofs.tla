---------------------------- MODULE Streams_proofs ----------------------------
(* The streams hand over what the consumer found in order, release their     *)
(* clients, and drop no report, for any messages, sizes and trouble.         *)
EXTENDS Streams, Integers, SequenceTheorems, FunctionTheorems,
        FiniteSetTheorems, WellFoundedInduction, TLAPS

-----------------------------------------------------------------------------
(* What Ascending and At return, for every set of numbers and sequence.    *)
Rising(seq) == \A i, j \in 1..Len(seq) : i < j => seq[i] < seq[j]

(* A finite set of numbers can be put in ascending order: a smallest set   *)
(* without such an order would be without its minimum, which comes first.  *)
InAscent(s) == \A i, j \in DOMAIN s : i < j => s[i] < s[j]

LEMMA LeastNumber ==
  ASSUME NEW S, S \subseteq Nat, S # {}
  PROVE  \E m \in S : \A n \in S : m <= n
  <1>1. PICK m \in S : \A n \in S : ~ (<<n, m>> \in OpToRel(<, Nat))
    BY WFMin, NatLessThanWellFounded
  <1>2. \A n \in S : ~ (n < m)
    BY <1>1 DEF OpToRel
  <1> QED BY <1>2

LEMMA AscentExists ==
  ASSUME NEW S, S \subseteq Nat, IsFiniteSet(S)
  PROVE  \E s \in [1..Cardinality(S) -> S] : InAscent(s)
  <1> DEFINE HasAscent(T) == \E s \in [1..Cardinality(T) -> T] : InAscent(s)
             Bad == {n \in Nat : \E T \in SUBSET Nat :
                       IsFiniteSet(T) /\ Cardinality(T) = n /\ ~HasAscent(T)}
  <1>1. SUFFICES ASSUME ~HasAscent(S) PROVE FALSE
    OBVIOUS
  <1>2. Bad # {}
    BY <1>1, FS_CardinalityType
  <1>3. PICK n \in Bad : \A m \in Bad : n <= m
    BY <1>2, LeastNumber
  <1>4. PICK T \in SUBSET Nat : IsFiniteSet(T) /\ Cardinality(T) = n /\ ~HasAscent(T)
    BY <1>3
  <1>5. n \in Nat
    BY <1>3
  <1>6. T # {}
    <2>1. ASSUME T = {} PROVE FALSE
      <3>1. Cardinality(T) = 0
        BY <2>1, FS_EmptySet
      <3>2. [i \in 1..0 |-> i] \in [1..Cardinality(T) -> T] /\ InAscent([i \in 1..0 |-> i])
        BY <3>1 DEF InAscent
      <3> QED BY <3>2, <1>4
    <2> QED BY <2>1
  <1>7. PICK m \in T : \A k \in T : m <= k
    BY <1>6, LeastNumber
  <1>8. IsFiniteSet(T \ {m}) /\ Cardinality(T \ {m}) = n - 1 /\ n - 1 \in Nat
    <2>1. IsFiniteSet(T \ {m}) /\ Cardinality(T \ {m}) = n - 1
      BY <1>4, <1>7, FS_RemoveElement
    <2> QED BY <2>1, FS_CardinalityType
  <1>9. HasAscent(T \ {m})
    <2>1. n - 1 \notin Bad
      BY <1>3, <1>5
    <2> QED BY <2>1, <1>8
  <1>10. PICK s \in [1..n-1 -> T \ {m}] : InAscent(s)
    BY <1>8, <1>9
  <1> DEFINE t == [i \in 1..n |-> IF i = 1 THEN m ELSE s[i - 1]]
  <1>11. t \in [1..n -> T]
    BY <1>5, <1>7, <1>10
  <1>12. InAscent(t)
    <2> SUFFICES ASSUME NEW i \in 1..n, NEW j \in 1..n, i < j PROVE t[i] < t[j]
      BY DEF InAscent
    <2>1. t[j] = s[j - 1] /\ j - 1 \in 1..n-1 /\ s[j - 1] \in T \ {m}
      BY <1>5, <1>10
    <2>2. CASE i = 1
      <3>1. m <= s[j - 1] /\ m # s[j - 1] /\ m \in Nat /\ s[j - 1] \in Nat
        BY <2>1, <1>7
      <3> QED BY <2>1, <2>2, <3>1
    <2>3. CASE i # 1
      <3>1. t[i] = s[i - 1] /\ i - 1 \in 1..n-1 /\ i - 1 < j - 1
        BY <2>3, <1>5
      <3> QED BY <3>1, <2>1, <1>10 DEF InAscent
    <2> QED BY <2>2, <2>3
  <1> QED BY <1>4, <1>11, <1>12

(* Ascending(S) is the members of S, each once, in ascending order.        *)
LEMMA AscendingProperties ==
  ASSUME NEW S, S \subseteq Nat, IsFiniteSet(S)
  PROVE  /\ Ascending(S) \in Seq(S) /\ Len(Ascending(S)) = Cardinality(S)
         /\ Cardinality(S) \in Nat
         /\ Rising(Ascending(S))
         /\ \A x \in S : \E i \in 1..Cardinality(S) : Ascending(S)[i] = x
  <1> DEFINE a == Ascending(S)
             n == Cardinality(S)
  <1>1. n \in Nat
    BY FS_CardinalityType
  <1>2. a \in [1..n -> S] /\ InAscent(a)
    BY AscentExists DEF Ascending, InAscent
  <1>3. a \in Seq(S) /\ Len(a) = n
    BY <1>1, <1>2, IsASeq
  <1>4. Rising(a)
    BY <1>2, <1>3 DEF InAscent, Rising
  <1>5. a \in Injection(1..n, S)
    <2>1. \A i, j \in 1..n : a[i] = a[j] => i = j
      <3> SUFFICES ASSUME NEW i \in 1..n, NEW j \in 1..n, a[i] = a[j], i # j PROVE FALSE
        OBVIOUS
      <3>1. a[i] \in Nat /\ a[j] \in Nat
        BY <1>2
      <3>2. a[i] < a[j] \/ a[j] < a[i]
        BY <1>1, <1>2 DEF InAscent
      <3> QED BY <3>1, <3>2
    <2> QED BY <1>2, <2>1 DEF Injection, IsInjective
  <1>6. Cardinality(1..n) = n
    BY <1>1, FS_Interval
  <1>7. a \in Surjection(1..n, S)
    BY <1>5, <1>6, FS_Injection
  <1> QED BY <1>1, <1>3, <1>4, <1>7 DEF Surjection

(* At(seq, I) keeps the order, and is just what seq holds at I.            *)
LEMMA AtProperties ==
  ASSUME NEW T, T \subseteq Nat, NEW seq \in Seq(T), NEW I, I \subseteq DOMAIN seq
  PROVE  /\ At(seq, I) \in Seq(T)
         /\ ToSet(At(seq, I)) = {seq[i] : i \in I}
         /\ Rising(seq) => Rising(At(seq, I))
  <1> DEFINE a == Ascending(I)
             n == Cardinality(I)
  <1>1. I \subseteq 1..Len(seq) /\ Len(seq) \in Nat /\ I \subseteq Nat
    BY LenProperties
  <1>2. IsFiniteSet(I)
    BY <1>1, FS_Interval, FS_Subset
  <1>3. /\ a \in Seq(I) /\ Len(a) = n /\ n \in Nat /\ Rising(a)
        /\ \A x \in I : \E i \in 1..n : a[i] = x
    BY <1>1, <1>2, AscendingProperties
  <1>4. \A k \in 1..n : a[k] \in I
    BY <1>3, ElementOfSeq
  <1>5. \A i \in I : seq[i] \in T
    BY <1>1, ElementOfSeq
  <1> HIDE DEF a, n
  <1>6. At(seq, I) = [k \in 1..n |-> seq[a[k]]]
    BY DEF At, a, n
  <1>7. At(seq, I) \in Seq(T) /\ Len(At(seq, I)) = n
    <2>1. At(seq, I) \in [1..n -> T]
      BY <1>4, <1>5, <1>6
    <2> QED BY <1>3, <2>1
  <1>8. ToSet(At(seq, I)) = {seq[i] : i \in I}
    <2>1. DOMAIN At(seq, I) = 1..n /\ \A k \in 1..n : At(seq, I)[k] = seq[a[k]]
      BY <1>6
    <2>2. ToSet(At(seq, I)) = {At(seq, I)[k] : k \in 1..n}
      BY <2>1 DEF ToSet
    <2> QED BY <1>3, <1>4, <2>1, <2>2
  <1>9. ASSUME Rising(seq) PROVE Rising(At(seq, I))
    <2> SUFFICES ASSUME NEW i \in 1..n, NEW j \in 1..n, i < j
                 PROVE  At(seq, I)[i] < At(seq, I)[j]
      BY <1>7 DEF Rising
    <2>1. a[i] \in 1..Len(seq) /\ a[j] \in 1..Len(seq) /\ a[i] < a[j]
      BY <1>1, <1>3, <1>4 DEF Rising
    <2> QED BY <2>1, <1>6, <1>9 DEF Rising
  <1> QED BY <1>7, <1>8, <1>9

-----------------------------------------------------------------------------
(* The inductive invariant.                                                  *)

Types ==
    /\ consumer \in {"away", "connecting", "connected", "leaving"}
    /\ producer \in {"away", "connecting", "connected", "leaving"}
    /\ readable \in {"open", "destroying", "closed"}
    /\ writable \in {"open", "flushing", "disconnecting", "closed"}
    /\ subscribed \in BOOLEAN /\ asked \in BOOLEAN /\ deferred \in BOOLEAN
    /\ reading \in BOOLEAN /\ retrying \in BOOLEAN /\ ended \in BOOLEAN
    /\ autoClose \in BOOLEAN /\ closeRequested \in BOOLEAN /\ ending \in BOOLEAN
    /\ failed \in BOOLEAN /\ cut \in BOOLEAN
    /\ fetched \in Nat /\ trouble \in Nat
    /\ fetch \in Seq(Nat) /\ chunks \in Seq(Nat) /\ written \in Seq(Nat)
    /\ staged \in Seq(Nat) /\ handed \in Seq(Nat)
    /\ write \in [at : {"idle", "ready", "backoff", "done", "error"}, chunks : Seq(Nat)]
    /\ pendingError \in {"none", "full", "other"}
    /\ IsFiniteSet(outq)

(* The ConsumerStream and its client come and go together, and what the      *)
(* stream waits for is one thing, asked for, with nothing left to push.      *)
ReadSide ==
    /\ readable = "open" <=> consumer \in {"connecting", "connected"}
    /\ readable = "destroying" <=> consumer = "leaving"
    /\ readable = "closed" <=> consumer = "away"
    /\ consumer = "connecting" => ~ subscribed
    /\ subscribed => ~ deferred
    /\ reading \/ retrying => subscribed
    /\ readable = "open" =>
         /\ ~ (reading /\ retrying)
         /\ reading \/ retrying \/ deferred => asked /\ fetch = <<>>

(* The ProducerStream and its client.                                        *)
WriteSide ==
    /\ writable = "flushing" => producer = "connected"
    /\ writable = "disconnecting" <=> producer = "leaving"
    /\ writable = "open" => producer \in {"connecting", "connected"} /\ ~ closeRequested
    /\ writable = "closed" /\ (autoClose \/ closeRequested) => producer = "away"
    /\ write.at \in {"idle", "done", "error"} => write.chunks = <<>>

(* The producer keeps nothing before it is connected, and after a flush that *)
(* ended in time.                                                            *)
Kept ==
    /\ Ledger <= MaxPending
    /\ producer = "connecting" => staged = <<>> /\ outq = {}
    /\ producer = "leaving" /\ ~ cut => staged = <<>> /\ outq = {}
    /\ dropped # {} => cut

(* seq holds values above lo and up to hi, in order; and all of them but     *)
(* those of P.                                                               *)
Piece(seq, lo, hi) == Rising(seq) /\ ToSet(seq) \subseteq lo + 1 .. hi
Whole(P, seq, lo, hi) == lo + 1 .. hi \subseteq P \cup ToSet(seq)

(* A write that failed, or a stream that closes, writes nothing any more.    *)
Blocked == failed \/ write.at = "error" \/ writable # "open"

(* Marks between the stations divide what was fetched: what is beyond a mark *)
(* is at the stations behind it.                                             *)
Divided(a, b, c, d, e) ==
    /\ Piece(handed, 0, a) /\ Whole(Passed, handed, 0, a)
    /\ Piece(staged, a, b) /\ Whole(Passed, staged, a, b)
    /\ Piece(write.chunks, b, c) /\ Whole(Passed, write.chunks, b, c)
    /\ Piece(written, c, d) /\ Piece(chunks, d, e) /\ Piece(fetch, e, fetched)
    /\ ~ Blocked => Whole(Passed, written, c, d)
    /\ ~ Blocked /\ readable = "open" =>
         Whole(Passed, chunks, d, e) /\ Whole(Passed, fetch, e, fetched)
InLine == \E a \in 0 .. fetched : \E b \in a .. fetched : \E c \in b .. fetched :
            \E d \in c .. fetched : \E e \in d .. fetched : Divided(a, b, c, d, e)

StreamsInv == Types /\ ReadSide /\ WriteSide /\ Kept /\ InLine

-----------------------------------------------------------------------------
(* Pieces.                                                                   *)

LEMMA EmptyPiece ==
  ASSUME NEW P, NEW lo \in Nat, NEW hi \in Nat
  PROVE  /\ Piece(<<>>, lo, hi)
         /\ Whole(P, <<>>, lo, lo)
  <1>1. Len(<<>>) = 0 /\ ToSet(<<>>) = {}
    BY DEF ToSet
  <1>2. lo + 1 .. lo = {}
    OBVIOUS
  <1> QED BY <1>1, <1>2 DEF Piece, Whole, Rising

(* Marks may be moved apart, not together.                                   *)
LEMMA WiderPiece ==
  ASSUME NEW seq, NEW lo \in Nat, NEW hi \in Nat, NEW low \in 0 .. lo, NEW high \in Nat,
         hi <= high, Piece(seq, lo, hi)
  PROVE  Piece(seq, low, high)
  BY DEF Piece

LEMMA ValuesOf ==
  ASSUME NEW seq \in Seq(Nat)
  PROVE  ToSet(seq) = {seq[i] : i \in 1 .. Len(seq)} /\ Len(seq) \in Nat
         /\ \A i \in 1 .. Len(seq) : seq[i] \in Nat
  BY LenProperties, ElementOfSeq DEF ToSet

LEMMA JoinPieces ==
  ASSUME NEW P, NEW s \in Seq(Nat), NEW t \in Seq(Nat), NEW lo \in Nat, NEW hi \in Nat,
         NEW mid \in lo .. hi, Piece(s, lo, mid), Piece(t, mid, hi)
  PROVE  /\ Piece(s \o t, lo, hi)
         /\ Whole(P, s, lo, mid) /\ Whole(P, t, mid, hi) => Whole(P, s \o t, lo, hi)
  <1> DEFINE j == s \o t
             m == Len(s)
             n == Len(t)
  <1>1. m \in Nat /\ n \in Nat
    BY LenProperties
  <1>2. j \in Seq(Nat) /\ Len(j) = m + n
    BY ConcatProperties
  <1>a. /\ \A i \in 1 .. m : i \in 1 .. m + n /\ j[i] = s[i]
        /\ \A i \in m + 1 .. m + n : i - m \in 1 .. n /\ j[i] = t[i - m]
    BY <1>1, ConcatProperties
  <1>3. \A i \in 1 .. m : s[i] \in lo + 1 .. mid
    BY ValuesOf DEF Piece
  <1>4. \A i \in 1 .. n : t[i] \in mid + 1 .. hi
    BY ValuesOf DEF Piece
  <1>5. (\A i, k \in 1 .. m : i < k => s[i] < s[k]) /\ (\A i, k \in 1 .. n : i < k => t[i] < t[k])
    BY DEF Piece, Rising
  <1> HIDE DEF j, m, n
  <1>6. Rising(j)
    <2> SUFFICES ASSUME NEW i \in 1 .. m + n, NEW k \in 1 .. m + n, i < k PROVE j[i] < j[k]
      BY <1>2 DEF Rising
    <2>1. CASE k <= m
      <3>1. i \in 1 .. m /\ k \in 1 .. m
        BY <1>1, <2>1
      <3> QED BY ONLY <1>a, <1>5, <3>1, i < k
    <2>2. CASE i > m
      <3>1. i \in m + 1 .. m + n /\ k \in m + 1 .. m + n /\ i - m < k - m
        BY <1>1, <2>2
      <3>2. i - m \in 1 .. n /\ k - m \in 1 .. n /\ j[i] = t[i - m] /\ j[k] = t[k - m]
        BY ONLY <1>a, <3>1
      <3> QED BY ONLY <1>5, <3>1, <3>2
    <2>3. CASE i <= m /\ k > m
      <3>1. k \in m + 1 .. m + n /\ i \in 1 .. m
        BY <1>1, <2>3
      <3>2. j[i] = s[i] /\ j[k] = t[k - m] /\ k - m \in 1 .. n
        BY ONLY <1>a, <3>1
      <3> QED BY ONLY <1>3, <1>4, <3>1, <3>2, mid \in Nat
    <2> QED BY <1>1, <2>1, <2>2, <2>3
  <1>7. ToSet(j) = ToSet(s) \cup ToSet(t)
    <2>1. ToSet(j) = {j[i] : i \in 1 .. m + n}
      BY <1>2, ValuesOf
    <2>2. ToSet(s) = {s[i] : i \in 1 .. m} /\ ToSet(t) = {t[i] : i \in 1 .. n}
      BY ValuesOf DEF m, n
    <2>3. \A i \in 1 .. m : s[i] \in ToSet(j)
      BY <1>a, <2>1
    <2>4. ASSUME NEW i \in 1 .. n PROVE t[i] \in ToSet(j)
      <3>1. m + i \in m + 1 .. m + n /\ m + i \in 1 .. m + n /\ (m + i) - m = i
        BY <1>1
      <3>2. j[m + i] = t[i]
        BY ONLY <1>a, <3>1
      <3> QED BY <2>1, <3>1, <3>2
    <2>5. ASSUME NEW i \in 1 .. m + n PROVE j[i] \in ToSet(s) \cup ToSet(t)
      <3>1. i \in 1 .. m \/ i \in m + 1 .. m + n
        BY <1>1
      <3> QED BY <1>a, <2>2, <3>1
    <2> QED BY <2>1, <2>2, <2>3, <2>4, <2>5
  <1>8. ToSet(s) \subseteq lo + 1 .. mid /\ ToSet(t) \subseteq mid + 1 .. hi
    BY DEF Piece
  <1>9. Piece(j, lo, hi)
    <2>1. ToSet(j) \subseteq lo + 1 .. hi
      BY <1>7, <1>8
    <2> QED BY <1>6, <2>1 DEF Piece
  <1>10. ASSUME Whole(P, s, lo, mid), Whole(P, t, mid, hi) PROVE Whole(P, j, lo, hi)
    <2>1. lo + 1 .. hi \subseteq (lo + 1 .. mid) \cup (mid + 1 .. hi)
      OBVIOUS
    <2> QED BY <1>7, <1>10, <2>1 DEF Whole
  <1> QED BY <1>9, <1>10 DEF j

(* A piece cut after its first k members.                                    *)
LEMMA CutPiece ==
  ASSUME NEW P, NEW s \in Seq(Nat), NEW lo \in Nat, NEW hi \in Nat, lo <= hi,
         Piece(s, lo, hi), NEW k \in 0 .. Len(s)
  PROVE  \E m \in lo .. hi :
           /\ Piece(SubSeq(s, 1, k), lo, m) /\ Piece(SubSeq(s, k + 1, Len(s)), m, hi)
           /\ Whole(P, s, lo, hi) =>
                Whole(P, SubSeq(s, 1, k), lo, m) /\ Whole(P, SubSeq(s, k + 1, Len(s)), m, hi)
           /\ k = Len(s) => m = hi
  <1> DEFINE n == Len(s)
             f == SubSeq(s, 1, k)
             g == SubSeq(s, k + 1, Len(s))
             m == IF k = n THEN hi ELSE IF k = 0 THEN lo ELSE s[k]
  <1>1. n \in Nat /\ k \in 0 .. n
    BY LenProperties
  <1>2. /\ f \in Seq(Nat) /\ Len(f) = k /\ \A i \in 1 .. k : f[i] = s[i]
    BY <1>1, SubSeqProperties
  <1>3. g \in Seq(Nat) /\ Len(g) = n - k /\ \A i \in 1 .. n - k : g[i] = s[k + i]
    BY <1>1, SubSeqProperties
  <1>4. \A i \in 1 .. n : s[i] \in lo + 1 .. hi
    BY ValuesOf DEF Piece
  <1>5. \A i, h \in 1 .. n : i < h => s[i] < s[h]
    BY DEF Piece, Rising
  <1>6. /\ ToSet(s) = {s[i] : i \in 1 .. n}
        /\ ToSet(f) = {f[i] : i \in 1 .. k} /\ ToSet(g) = {g[i] : i \in 1 .. n - k}
    BY <1>2, <1>3, ValuesOf
  <1>7. Whole(P, s, lo, hi) <=> lo + 1 .. hi \subseteq P \cup ToSet(s)
    BY DEF Whole
  <1> HIDE DEF f, g, n
  <1>8. m \in lo .. hi
    BY <1>1, <1>4
  <1>9. \A i \in 1 .. k : s[i] \in lo + 1 .. m
    <2> SUFFICES ASSUME NEW i \in 1 .. k PROVE s[i] \in lo + 1 .. m
      OBVIOUS
    <2>1. CASE k = n
      BY <1>1, <1>4, <2>1
    <2>2. CASE k # n
      <3>1. m = s[k] /\ k \in 1 .. n /\ i \in 1 .. n
        BY <1>1, <2>2
      <3>2. s[i] <= s[k]
        BY <1>1, <1>4, <1>5, <3>1
      <3> QED BY <1>4, <3>1, <3>2
    <2> QED BY <2>1, <2>2
  <1>10. \A i \in k + 1 .. n : s[i] \in m + 1 .. hi
    <2> SUFFICES ASSUME NEW i \in k + 1 .. n PROVE s[i] \in m + 1 .. hi
      OBVIOUS
    <2>1. i \in 1 .. n /\ k # n
      BY <1>1
    <2>2. CASE k = 0
      BY <1>4, <2>1, <2>2
    <2>3. CASE k # 0
      <3>1. m = s[k] /\ k \in 1 .. n /\ k < i
        BY <1>1, <2>1, <2>3
      <3>2. s[k] < s[i] /\ s[k] \in Nat
        BY <1>4, <1>5, <2>1, <3>1
      <3> QED BY <1>4, <2>1, <3>1, <3>2
    <2> QED BY <2>2, <2>3
  <1>11. Piece(f, lo, m)
    <2>1. Rising(f)
      <3> SUFFICES ASSUME NEW i \in 1 .. k, NEW h \in 1 .. k, i < h PROVE f[i] < f[h]
        BY <1>2 DEF Rising
      <3>1. i \in 1 .. n /\ h \in 1 .. n
        BY <1>1
      <3>2. f[i] = s[i] /\ f[h] = s[h]
        BY <1>2
      <3> QED BY ONLY <1>5, <3>1, <3>2, i < h
    <2>2. \A i \in 1 .. k : f[i] \in lo + 1 .. m
      BY ONLY <1>2, <1>9
    <2>3. ToSet(f) \subseteq lo + 1 .. m
      BY ONLY <1>6, <2>2
    <2> QED BY <2>1, <2>3 DEF Piece
  <1>12. Piece(g, m, hi)
    <2>1. Rising(g)
      <3> SUFFICES ASSUME NEW i \in 1 .. n - k, NEW h \in 1 .. n - k, i < h PROVE g[i] < g[h]
        BY <1>3 DEF Rising
      <3>1. k + i \in 1 .. n /\ k + h \in 1 .. n /\ k + i < k + h
        BY <1>1
      <3> QED BY <1>3, <1>5, <3>1
    <2>2. \A i \in 1 .. n - k : g[i] \in m + 1 .. hi
      <3>1. \A i \in 1 .. n - k : k + i \in k + 1 .. n
        BY <1>1
      <3> QED BY <1>3, <1>10, <3>1
    <2> QED BY <1>6, <2>1, <2>2 DEF Piece
  <1>13. ASSUME lo + 1 .. hi \subseteq P \cup ToSet(s)
         PROVE  Whole(P, f, lo, m) /\ Whole(P, g, m, hi)
    <2>1. \A i \in 1 .. k : s[i] \in ToSet(f)
      BY <1>2, <1>6
    <2>2. \A i \in k + 1 .. n : s[i] \in ToSet(g)
      <3> SUFFICES ASSUME NEW i \in k + 1 .. n PROVE s[i] \in ToSet(g)
        OBVIOUS
      <3>1. i - k \in 1 .. n - k /\ k + (i - k) = i
        BY <1>1
      <3>2. g[i - k] = s[i]
        BY <1>3, <3>1
      <3> QED BY <1>6, <3>1, <3>2
    <2>3. \A i \in 1 .. n : i \in 1 .. k \/ i \in k + 1 .. n
      BY <1>1
    <2>4. ASSUME NEW x \in lo + 1 .. m, x \notin P PROVE x \in ToSet(f)
      <3>1. x \in lo + 1 .. hi
        BY <1>8
      <3>2. PICK i \in 1 .. n : x = s[i]
        BY <1>6, <1>13, <2>4, <3>1
      <3>3. i \notin k + 1 .. n
        <4>1. i \in k + 1 .. n => x > m
          BY <1>8, <1>10, <3>2
        <4> QED BY <4>1, <1>8, <2>4
      <3> QED BY <2>1, <2>3, <3>2, <3>3
    <2>5. ASSUME NEW x \in m + 1 .. hi, x \notin P PROVE x \in ToSet(g)
      <3>1. x \in lo + 1 .. hi
        BY <1>8
      <3>2. PICK i \in 1 .. n : x = s[i]
        BY <1>6, <1>13, <2>5, <3>1
      <3>3. i \notin 1 .. k
        <4>1. i \in 1 .. k => x <= m
          BY <1>8, <1>9, <3>2
        <4> QED BY <4>1, <1>8, <2>5
      <3> QED BY <2>2, <2>3, <3>2, <3>3
    <2> QED BY <2>4, <2>5 DEF Whole
  <1>14. k = n => m = hi
    OBVIOUS
  <1> QED BY <1>7, <1>8, <1>11, <1>12, <1>13, <1>14 DEF f, g, n

(* One member goes from the head of a piece to the end of the one before.    *)
LEMMA PassHead ==
  ASSUME NEW P, NEW s \in Seq(Nat), NEW t \in Seq(Nat), NEW lo \in Nat, NEW hi \in Nat,
         NEW mid \in lo .. hi, Piece(s, lo, mid), Piece(t, mid, hi), t # <<>>
  PROVE  \E m \in mid .. hi :
           /\ Piece(Append(s, Head(t)), lo, m) /\ Piece(Tail(t), m, hi)
           /\ Whole(P, t, mid, hi) =>
                /\ Whole(P, s, lo, mid) => Whole(P, Append(s, Head(t)), lo, m)
                /\ Whole(P, Tail(t), m, hi)
  <1>1. Len(t) \in Nat /\ 1 \in 0 .. Len(t)
    BY LenProperties, EmptySeq
  <1>a. Head(t) \in Nat /\ Head(t) = t[1]
    BY <1>1, HeadTailProperties, ElementOfSeq
  <1>b. SubSeq(t, 1, 1) = <<Head(t)>>
    <2> DEFINE f == SubSeq(t, 1, 1)
    <2>1. \A i \in 1 .. 1 : t[i] \in Nat
      BY <1>a
    <2>2. f \in Seq(Nat) /\ Len(f) = 1 /\ f[1] = t[1]
      BY <2>1, SubSeqProperties
    <2> HIDE DEF f
    <2>3. f = <<f[1]>>
      BY <2>2
    <2> QED BY <1>a, <2>2, <2>3 DEF f
  <1>c. SubSeq(t, 1 + 1, Len(t)) = Tail(t)
    <2>1. 1 + 1 = 2
      OBVIOUS
    <2> QED BY <2>1, TailIsSubSeq
  <1>2. SubSeq(t, 1, 1) = <<Head(t)>> /\ SubSeq(t, 1 + 1, Len(t)) = Tail(t) /\ Head(t) \in Nat
    BY <1>a, <1>b, <1>c
  <1>3. PICK m \in mid .. hi :
          /\ Piece(SubSeq(t, 1, 1), mid, m) /\ Piece(SubSeq(t, 1 + 1, Len(t)), m, hi)
          /\ Whole(P, t, mid, hi) =>
               Whole(P, SubSeq(t, 1, 1), mid, m) /\ Whole(P, SubSeq(t, 1 + 1, Len(t)), m, hi)
    BY ONLY <1>1, CutPiece, t \in Seq(Nat), mid \in Nat, hi \in Nat, mid <= hi, Piece(t, mid, hi)
  <1>4. <<Head(t)>> \in Seq(Nat) /\ s \o <<Head(t)>> = Append(s, Head(t))
    BY <1>2
  <1>5. mid \in lo .. m /\ m \in Nat
    OBVIOUS
  <1>6. /\ Piece(s \o <<Head(t)>>, lo, m)
        /\ Whole(P, s, lo, mid) /\ Whole(P, <<Head(t)>>, mid, m)
             => Whole(P, s \o <<Head(t)>>, lo, m)
    BY <1>2, <1>3, <1>4, <1>5, JoinPieces
  <1>7. Whole(P, t, mid, hi) =>
          Whole(P, <<Head(t)>>, mid, m) /\ Whole(P, Tail(t), m, hi)
    BY <1>2, <1>3
  <1>8. Piece(Append(s, Head(t)), lo, m) /\ Piece(Tail(t), m, hi)
    BY <1>2, <1>3, <1>4, <1>6
  <1>9. Whole(P, s, lo, mid) /\ Whole(P, t, mid, hi) => Whole(P, Append(s, Head(t)), lo, m)
    BY <1>4, <1>6, <1>7
  <1> QED BY <1>7, <1>8, <1>9

(* What a filter leaves out must be passed over.                             *)
LEMMA FilterPiece ==
  ASSUME NEW P, NEW Q, NEW s \in Seq(Nat), NEW lo \in Nat, NEW hi \in Nat, Piece(s, lo, hi),
         Whole(P, s, lo, hi), P \subseteq Q, NEW I, I \subseteq DOMAIN s,
         \A i \in DOMAIN s : i \in I \/ s[i] \in Q
  PROVE  /\ At(s, I) \in Seq(Nat) /\ Piece(At(s, I), lo, hi)
         /\ Whole(Q, At(s, I), lo, hi)
  <1>1. DOMAIN s = 1 .. Len(s) /\ ToSet(s) = {s[i] : i \in 1 .. Len(s)}
    BY ValuesOf, LenProperties
  <1>2. At(s, I) \in Seq(Nat) /\ ToSet(At(s, I)) = {s[i] : i \in I} /\ Rising(At(s, I))
    BY AtProperties DEF Piece
  <1>3. ToSet(At(s, I)) \subseteq ToSet(s) /\ ToSet(s) \subseteq Q \cup ToSet(At(s, I))
    BY <1>1, <1>2
  <1> QED BY <1>2, <1>3 DEF Piece, Whole

-----------------------------------------------------------------------------
(* Types and the ledger.                                                     *)

LEMMA LedgerType ==
  ASSUME Types
  PROVE  Len(staged) \in Nat /\ Cardinality(outq) \in Nat /\ Ledger \in Nat
         /\ MaxPending \in Nat /\ FetchSize \in Nat /\ Messages \in Nat
  <1>1. Len(staged) \in Nat
    BY LenProperties DEF Types
  <1>2. Cardinality(outq) \in Nat
    BY FS_CardinalityType DEF Types
  <1> QED BY <1>1, <1>2, BoundsAssumption DEF Ledger

(* What becomes of a list that #produceAll() is given: its first k members   *)
(* are staged, and the others are kept for another try, unless one failed.   *)
Outcome(list) == \E k \in 0 .. Len(list) :
    /\ staged' = staged \o SubSeq(list, 1, k)
    /\ Ledger + k <= MaxPending
    /\ \/ write' = [at |-> "error", chunks |-> <<>>]
       \/ write' = [at |-> "backoff", chunks |-> SubSeq(list, k + 1, Len(list))]
       \/ k = Len(list) /\ write' = [at |-> "done", chunks |-> <<>>]
    /\ pendingError' \in {"none", "full", "other"}
    /\ trouble' \in Nat

LEMMA ProduceAllOutcome ==
  ASSUME Types, Ledger <= MaxPending, NEW list \in Seq(Nat), ProduceAll(list)
  PROVE  Outcome(list)
  <1>1. Ledger \in Nat /\ MaxPending \in Nat /\ Len(list) \in Nat
    BY LedgerType, LenProperties
  <1>2. /\ Produces(list) \in 0 .. Len(list)
        /\ Ledger + Produces(list) <= MaxPending
    BY <1>1 DEF Produces, Smallest
  <1>3. CASE pendingError # "none"
    <2>1. staged' = staged /\ pendingError' = "none" /\ trouble' = trouble
      BY <1>3 DEF ProduceAll
    <2>2. write' = [at |-> "backoff", chunks |-> list] \/ write' = [at |-> "error", chunks |-> <<>>]
      BY <1>3 DEF ProduceAll
    <2>3. SubSeq(list, 1, 0) = <<>> /\ SubSeq(list, 0 + 1, Len(list)) = list
      <3>1. 0 + 1 = 1
        OBVIOUS
      <3> QED BY <3>1, SubSeqFull, SubSeqEmpty
    <2>4. staged \o SubSeq(list, 1, 0) = staged
      BY <2>3, ConcatEmptySeq DEF Types
    <2>5. Ledger + 0 <= MaxPending /\ 0 \in 0 .. Len(list)
      BY <1>1
    <2>6. trouble \in Nat
      BY DEF Types
    <2> QED BY <2>1, <2>2, <2>3, <2>4, <2>5, <2>6 DEF Outcome
  <1>4. CASE pendingError = "none"
    <2>1. \/ /\ staged' = staged \o SubSeq(list, 1, Produces(list))
             /\ write' = IF Produces(list) = Len(list) THEN [at |-> "done", chunks |-> <<>>]
                         ELSE [at |-> "backoff", chunks |-> Rest(list, Produces(list))]
             /\ UNCHANGED <<pendingError, trouble>>
          \/ \E k \in 0 .. Produces(list) :
                /\ k < Len(list) /\ Trouble
                /\ staged' = staged \o SubSeq(list, 1, k)
                /\ write' = [at |-> "error", chunks |-> <<>>]
                /\ UNCHANGED pendingError
      BY <1>4 DEF ProduceAll
    <2>2. pendingError \in {"none", "full", "other"} /\ trouble \in Nat
      BY DEF Types
    <2>3. CASE /\ staged' = staged \o SubSeq(list, 1, Produces(list))
               /\ write' = IF Produces(list) = Len(list) THEN [at |-> "done", chunks |-> <<>>]
                           ELSE [at |-> "backoff", chunks |-> Rest(list, Produces(list))]
               /\ UNCHANGED <<pendingError, trouble>>
      BY <1>2, <2>2, <2>3 DEF Outcome, Rest
    <2>4. CASE \E k \in 0 .. Produces(list) :
                  /\ k < Len(list) /\ Trouble
                  /\ staged' = staged \o SubSeq(list, 1, k)
                  /\ write' = [at |-> "error", chunks |-> <<>>]
                  /\ UNCHANGED pendingError
      <3>1. PICK k \in 0 .. Produces(list) :
                  /\ k < Len(list) /\ Trouble
                  /\ staged' = staged \o SubSeq(list, 1, k)
                  /\ write' = [at |-> "error", chunks |-> <<>>]
                  /\ UNCHANGED pendingError
        BY <2>4
      <3>2. k \in 0 .. Len(list) /\ Ledger + k <= MaxPending
        BY <1>1, <1>2
      <3>3. trouble' \in Nat
        BY <2>2, <3>1 DEF Trouble
      <3> QED BY <2>2, <3>1, <3>2, <3>3 DEF Outcome
    <2> QED BY <2>1, <2>3, <2>4
  <1> QED BY <1>3, <1>4

LEMMA OutcomeTypes ==
  ASSUME Types, NEW list \in Seq(Nat), Outcome(list)
  PROVE  /\ staged' \in Seq(Nat)
         /\ write' \in [at : {"idle", "ready", "backoff", "done", "error"}, chunks : Seq(Nat)]
         /\ write'.at \in {"backoff", "done", "error"}
         /\ write'.at # "backoff" => write'.chunks = <<>>
         /\ pendingError' \in {"none", "full", "other"} /\ trouble' \in Nat
         /\ outq' = outq => Ledger' <= MaxPending
  <1>1. PICK k \in 0 .. Len(list) :
          /\ staged' = staged \o SubSeq(list, 1, k)
          /\ Ledger + k <= MaxPending
          /\ \/ write' = [at |-> "error", chunks |-> <<>>]
             \/ write' = [at |-> "backoff", chunks |-> SubSeq(list, k + 1, Len(list))]
             \/ k = Len(list) /\ write' = [at |-> "done", chunks |-> <<>>]
          /\ pendingError' \in {"none", "full", "other"}
          /\ trouble' \in Nat
    BY DEF Outcome
  <1>2. Len(list) \in Nat /\ \A i \in 1 .. Len(list) : list[i] \in Nat
    BY LenProperties, ElementOfSeq
  <1>3. SubSeq(list, 1, k) \in Seq(Nat) /\ Len(SubSeq(list, 1, k)) = k
    BY <1>2, SubSeqProperties
  <1>4. SubSeq(list, k + 1, Len(list)) \in Seq(Nat)
    BY <1>2, SubSeqProperties
  <1>5. staged' \in Seq(Nat) /\ Len(staged') = Len(staged) + k
    BY <1>1, <1>3, ConcatProperties DEF Types
  <1>6. <<>> \in Seq(Nat)
    OBVIOUS
  <1>7. write' \in [at : {"idle", "ready", "backoff", "done", "error"}, chunks : Seq(Nat)]
    <2> DEFINE rest == SubSeq(list, k + 1, Len(list))
    <2>1. \/ write' = [at |-> "error", chunks |-> <<>>]
          \/ write' = [at |-> "backoff", chunks |-> rest]
          \/ write' = [at |-> "done", chunks |-> <<>>]
      BY <1>1
    <2>2. rest \in Seq(Nat)
      BY <1>4
    <2> HIDE DEF rest
    <2>3. \A q \in Seq(Nat) : \A at \in {"backoff", "done", "error"} :
            [at |-> at, chunks |-> q]
              \in [at : {"idle", "ready", "backoff", "done", "error"}, chunks : Seq(Nat)]
      OBVIOUS
    <2> QED BY ONLY <2>1, <2>2, <2>3, <1>6
  <1>8. /\ write'.at \in {"backoff", "done", "error"}
        /\ write'.at # "backoff" => write'.chunks = <<>>
    BY <1>1
  <1>9. outq' = outq => Ledger' <= MaxPending
    BY <1>1, <1>2, <1>5, LedgerType DEF Ledger
  <1> QED BY <1>1, <1>5, <1>7, <1>8, <1>9

LEMMA ReadableDestroyed ==
  ASSUME Types, DestroyReadable
  PROVE  /\ readable' \in {"open", "destroying", "closed"}
         /\ consumer' \in {"away", "connecting", "connected", "leaving"}
         /\ retrying' = FALSE /\ fetch' = <<>> /\ fetch' \in Seq(Nat)
         /\ readable' # "open"
  <1>1. <<>> \in Seq(Nat)
    OBVIOUS
  <1> QED BY <1>1 DEF Types, DestroyReadable

LEMMA PushTypes ==
  ASSUME Types, NEW chunk \in Nat, Push(chunk)
  PROVE  /\ readable' \in {"open", "destroying", "closed"}
         /\ consumer' \in {"away", "connecting", "connected", "leaving"}
         /\ retrying' \in BOOLEAN /\ asked' \in BOOLEAN /\ chunks' \in Seq(Nat)
         /\ ended => fetch' = <<>>
  <1>1. CASE ended
    <2>1. DestroyReadable /\ asked' = asked /\ chunks' = <<>>
      BY <1>1 DEF Push
    <2> QED BY <1>1, <2>1, ReadableDestroyed DEF Types
  <1>2. CASE ~ ended
    <2>1. /\ chunks' = Append(chunks, chunk) /\ asked' = FALSE
          /\ readable' = readable /\ consumer' = consumer /\ retrying' = retrying
      BY <1>2 DEF Push
    <2>2. Append(chunks, chunk) \in Seq(Nat)
      BY AppendProperties DEF Types
    <2> QED BY <1>2, <2>1, <2>2 DEF Types
  <1> QED BY <1>1, <1>2

LEMMA TeardownTypes ==
  ASSUME Types, Teardown
  PROVE  /\ producer' \in {"away", "connecting", "connected", "leaving"}
         /\ writable' \in {"open", "flushing", "disconnecting", "closed"}
         /\ writable' # "open"
  BY DEF Types, Teardown, TeardownAtOnce

LEMMA DestroyTypes ==
  ASSUME Types, NEW requested \in BOOLEAN, Destroy(requested)
  PROVE  /\ producer' \in {"away", "connecting", "connected", "leaving"}
         /\ writable' \in {"open", "flushing", "disconnecting", "closed"}
         /\ writable' # "open"
  BY TeardownTypes DEF Types, Destroy

LEMMA AnsweredTypes ==
  ASSUME Types, NEW ok \in BOOLEAN, Answered(ok)
  PROVE  /\ producer' \in {"away", "connecting", "connected", "leaving"}
         /\ writable' \in {"open", "flushing", "disconnecting", "closed"}
         /\ failed' \in BOOLEAN
         /\ write' = Idle
         /\ write' \in [at : {"idle", "ready", "backoff", "done", "error"}, chunks : Seq(Nat)]
         /\ writable # "open" => writable' # "open"
         /\ failed => failed'
         /\ ~ ok => failed'
  <1>1. write' = Idle /\ failed' = (failed \/ ~ ok)
    BY DEF Answered
  <1>2. \/ writable' = writable /\ producer' = producer
        \/ Destroy(FALSE)
    BY DEF Answered
  <1>3. Idle \in [at : {"idle", "ready", "backoff", "done", "error"}, chunks : Seq(Nat)]
    BY DEF Idle
  <1>4. failed' \in BOOLEAN /\ (failed => failed') /\ (~ ok => failed')
    BY <1>1 DEF Types
  <1>5. /\ producer' \in {"away", "connecting", "connected", "leaving"}
        /\ writable' \in {"open", "flushing", "disconnecting", "closed"}
        /\ writable # "open" => writable' # "open"
    BY <1>2, DestroyTypes DEF Types
  <1> QED BY <1>1, <1>3, <1>4, <1>5

LEMMA ValuesFound ==
  ASSUME NEW from \in Nat, NEW n \in Nat
  PROVE  /\ Values(from, n) \in Seq(Nat)
         /\ Piece(Values(from, n), from, from + n)
         /\ Whole(Passed, Values(from, n), from, from + n)
  <1> DEFINE S == (from + 1 .. from + n) \ Tombstones
  <1>1. S \subseteq Nat /\ IsFiniteSet(S)
    <2>1. IsFiniteSet(from + 1 .. from + n)
      BY FS_Interval
    <2> QED BY <2>1, FS_Subset
  <1>2. /\ Ascending(S) \in Seq(S) /\ Len(Ascending(S)) = Cardinality(S)
        /\ Rising(Ascending(S))
        /\ \A x \in S : \E i \in 1 .. Cardinality(S) : Ascending(S)[i] = x
    BY <1>1, AscendingProperties
  <1>3. Ascending(S) \in Seq(Nat)
    BY <1>1, <1>2
  <1>4. \A i \in 1 .. Len(Ascending(S)) : Ascending(S)[i] \in S
    BY <1>2, ElementOfSeq
  <1>5. ToSet(Ascending(S)) = {Ascending(S)[i] : i \in 1 .. Len(Ascending(S))}
    BY <1>3, ValuesOf
  <1>6. ToSet(Ascending(S)) = S
    BY <1>2, <1>4, <1>5
  <1>7. S \subseteq from + 1 .. from + n /\ from + 1 .. from + n \subseteq Tombstones \cup S
    OBVIOUS
  <1>8. Values(from, n) = Ascending(S)
    BY DEF Values
  <1>9. Tombstones \subseteq Passed
    BY DEF Passed
  <1> HIDE DEF S
  <1> QED BY <1>2, <1>3, <1>6, <1>7, <1>8, <1>9 DEF Piece, Whole

LEMMA HandOverTypes ==
  ASSUME Types, NEW refuses, HandOver(refuses),
         \A c \in DOMAIN refuses : refuses[c] \in {"full", "other"}
  PROVE  /\ staged' = <<>> /\ staged' \in Seq(Nat) /\ handed' \in Seq(Nat)
         /\ pendingError' \in {"none", "full", "other"}
         /\ IsFiniteSet(outq') /\ Ledger' <= Ledger
         /\ outq' = outq \cup (ToSet(staged) \ DOMAIN refuses)
  <1>1. staged \in Seq(Nat) /\ handed \in Seq(Nat) /\ IsFiniteSet(outq)
    BY DEF Types
  <1>2. staged' = <<>>
    BY DEF HandOver
  <1>3. outq' = outq \cup (ToSet(staged) \ DOMAIN refuses)
    BY DEF HandOver
  <1>4. handed' \in Seq(Nat)
    <2> DEFINE I == {i \in DOMAIN staged : staged[i] \notin DOMAIN refuses}
    <2>1. handed' = handed \o At(staged, I)
      BY DEF HandOver
    <2>2. I \subseteq DOMAIN staged
      OBVIOUS
    <2> HIDE DEF I
    <2>3. At(staged, I) \in Seq(Nat)
      BY <1>1, <2>2, AtProperties
    <2> QED BY <1>1, <2>1, <2>3, ConcatProperties
  <1>5. pendingError' \in {"none", "full", "other"}
    <2>1. pendingError' = IF pendingError = "none" /\ DOMAIN refuses # {}
                          THEN refuses[CHOOSE c \in DOMAIN refuses : TRUE] ELSE pendingError
      BY DEF HandOver
    <2>2. DOMAIN refuses # {} => (CHOOSE c \in DOMAIN refuses : TRUE) \in DOMAIN refuses
      OBVIOUS
    <2> QED BY <2>1, <2>2 DEF Types
  <1>6. /\ IsFiniteSet(ToSet(staged)) /\ Cardinality(ToSet(staged)) <= Len(staged)
        /\ Len(staged) \in Nat
    <2>1. Len(staged) \in Nat /\ DOMAIN staged = 1 .. Len(staged)
      BY <1>1, LenProperties
    <2>2. IsFiniteSet(1 .. Len(staged)) /\ Cardinality(1 .. Len(staged)) = Len(staged)
      <3>1. \A n \in Nat : IsFiniteSet(1 .. n) /\ Cardinality(1 .. n) = n
        BY FS_Interval
      <3> QED BY <2>1, <3>1
    <2>3. staged \in Surjection(1 .. Len(staged), ToSet(staged))
      <3>1. ToSet(staged) = {staged[i] : i \in 1 .. Len(staged)}
        BY <1>1, ValuesOf
      <3>2. staged \in [1 .. Len(staged) -> ToSet(staged)]
        BY <1>1, <2>1, <3>1
      <3> QED BY <3>1, <3>2 DEF Surjection
    <2> QED BY <2>1, <2>2, <2>3, FS_Surjection
  <1>7. /\ IsFiniteSet(ToSet(staged) \ DOMAIN refuses)
        /\ Cardinality(ToSet(staged) \ DOMAIN refuses) <= Cardinality(ToSet(staged))
    BY <1>6, FS_Subset
  <1>8. /\ IsFiniteSet(outq')
        /\ Cardinality(outq') <= Cardinality(outq) + Cardinality(ToSet(staged) \ DOMAIN refuses)
    <2>1. /\ IsFiniteSet(outq')
          /\ Cardinality(outq') = Cardinality(outq) + Cardinality(ToSet(staged) \ DOMAIN refuses)
                                    - Cardinality(outq \cap (ToSet(staged) \ DOMAIN refuses))
      BY <1>1, <1>3, <1>7, FS_Union
    <2>2. IsFiniteSet(outq \cap (ToSet(staged) \ DOMAIN refuses))
      BY <1>1, FS_Intersection
    <2> QED BY <1>1, <1>7, <2>1, <2>2, FS_CardinalityType
  <1>9. Ledger' <= Ledger
    <2>1. Len(staged') = 0
      BY <1>2
    <2> DEFINE D == ToSet(staged) \ DOMAIN refuses
    <2>2. /\ Cardinality(outq') \in Nat /\ Cardinality(outq) \in Nat
          /\ Cardinality(D) \in Nat /\ Cardinality(ToSet(staged)) \in Nat
      BY <1>1, <1>6, <1>7, <1>8, FS_CardinalityType
    <2> HIDE DEF D
    <2>3. Cardinality(outq') <= Cardinality(outq) + Cardinality(D)
          /\ Cardinality(D) <= Cardinality(ToSet(staged))
      BY <1>7, <1>8 DEF D
    <2> QED BY <1>6, <2>1, <2>2, <2>3 DEF Ledger
  <1>10. <<>> \in Seq(Nat)
    OBVIOUS
  <1> QED BY <1>2, <1>3, <1>4, <1>5, <1>8, <1>9, <1>10

LEMMA WriteGoesOnCases ==
  ASSUME WriteGoesOn
  PROVE  /\ UNCHANGED <<source, autoClose, closeRequested, pipe, outq, history>>
         /\ \/ /\ \E ok \in BOOLEAN : Answered(ok) /\ (ok <=> write.at = "done")
               /\ write.at \in {"done", "error", "backoff"}
               /\ UNCHANGED <<staged, pendingError, trouble>>
            \/ /\ write.at = "backoff" /\ writable = "open" /\ producer = "connected"
               /\ ProduceAll(write.chunks) /\ UNCHANGED <<failed, writable, producer>>
  <1>1. CASE write.at = "done"
    BY <1>1 DEF WriteGoesOn
  <1>2. CASE write.at = "error"
    BY <1>2 DEF WriteGoesOn
  <1>3. CASE write.at = "backoff"
    BY <1>3 DEF WriteGoesOn
  <1>4. write.at \in {"done", "error", "backoff"}
    BY DEF WriteGoesOn
  <1> QED BY <1>1, <1>2, <1>3, <1>4

LEMMA HandsOverCases ==
  ASSUME HandsOver
  PROVE  /\ staged # <<>>
         /\ \E refuses : /\ HandOver(refuses)
                         /\ DOMAIN refuses \subseteq ToSet(staged)
                         /\ \A c \in DOMAIN refuses : refuses[c] \in {"full", "other"}
         /\ UNCHANGED trouble \/ Trouble
         /\ UNCHANGED <<source, sink, pipe, cut, dropped, misused>>
  <1>1. CASE HandOver(<<>>) /\ UNCHANGED trouble
    <2>1. DOMAIN <<>> = {}
      OBVIOUS
    <2> QED BY <1>1, <2>1 DEF HandsOver
  <1>2. CASE \E c \in ToSet(staged) : \E refuses \in Refusals({c}) : HandOver(refuses) /\ Trouble
    <2> PICK c \in ToSet(staged) : \E refuses \in Refusals({c}) : HandOver(refuses) /\ Trouble
      BY <1>2
    <2>1. PICK refuses \in Refusals({c}) : HandOver(refuses) /\ Trouble
      OBVIOUS
    <2>2. DOMAIN refuses = {c} /\ refuses[c] \in {"full", "other"}
      BY <2>1 DEF Refusals
    <2> QED BY <2>1, <2>2 DEF HandsOver
  <1> QED BY <1>1, <1>2 DEF HandsOver

LEMMA TroubleType ==
  ASSUME Types, UNCHANGED trouble \/ Trouble
  PROVE  trouble' \in Nat
  BY DEF Types, Trouble

LEMMA TypesStep ==
  ASSUME Types, ReadSide, Kept, [Next]_vars
  PROVE  Types'
  <1> USE DEF source, sink, pipe, kafka, history
  <1>1. CASE ConsumerConnects
    <2>1. trouble' \in Nat
      BY <1>1, TroubleType DEF ConsumerConnects
    <2>2. /\ readable' \in {"open", "destroying", "closed"}
          /\ consumer' \in {"away", "connecting", "connected", "leaving"}
          /\ retrying' \in BOOLEAN /\ fetch' \in Seq(Nat)
          /\ subscribed' \in BOOLEAN /\ deferred' \in BOOLEAN /\ reading' \in BOOLEAN
      <3>1. <<>> \in Seq(Nat)
        OBVIOUS
      <3>2. CASE DestroyReadable /\ UNCHANGED <<subscribed, deferred, reading>>
        BY <3>2, ReadableDestroyed DEF Types
      <3>3. CASE ~ DestroyReadable
        BY <1>1, <3>1, <3>3 DEF Types, ConsumerConnects
      <3>4. CASE DestroyReadable /\ ~ UNCHANGED <<subscribed, deferred, reading>>
        <4>1. readable = "open" /\ Held
          BY <1>1 DEF ConsumerConnects, ReadSide, Held
        <4>2. readable' = "destroying"
          BY <3>4, <4>1 DEF DestroyReadable
        <4> QED BY <1>1, <3>4, <4>1, <4>2 DEF ConsumerConnects
      <3> QED BY <3>2, <3>3, <3>4
    <2> QED BY <1>1, <2>1, <2>2 DEF ConsumerConnects, Types
  <1>2. CASE ConsumeAnswers
    <2>1. PICK n \in 0 .. Smallest(FetchSize, Messages - fetched) :
            /\ IF n = 0 /\ fetched < Messages THEN Trouble ELSE UNCHANGED trouble
            /\ fetched' = fetched + n
            /\ IF Values(fetched, n) = <<>>
               THEN /\ ReadsAgain
                    /\ UNCHANGED <<fetch, chunks, asked, misused, readable, consumer>>
               ELSE /\ Push(Head(Values(fetched, n)))
                    /\ ~ ended => fetch' = Tail(Values(fetched, n))
      BY <1>2 DEF ConsumeAnswers
    <2>2. n \in Nat /\ fetched \in Nat
      BY DEF Types
    <2>3. fetched' \in Nat /\ trouble' \in Nat
      BY <2>1, <2>2, TroubleType
    <2>4. Values(fetched, n) \in Seq(Nat)
      BY <2>2, ValuesFound
    <2>5. /\ readable' \in {"open", "destroying", "closed"}
          /\ consumer' \in {"away", "connecting", "connected", "leaving"}
          /\ retrying' \in BOOLEAN /\ asked' \in BOOLEAN /\ chunks' \in Seq(Nat)
          /\ fetch' \in Seq(Nat)
      <3>1. CASE Values(fetched, n) = <<>>
        BY <2>1, <3>1 DEF ReadsAgain, Types
      <3>2. CASE Values(fetched, n) # <<>>
        <4>1. Head(Values(fetched, n)) \in Nat /\ Tail(Values(fetched, n)) \in Seq(Nat)
          BY <2>4, <3>2, HeadTailProperties
        <4>2. Push(Head(Values(fetched, n))) /\ (~ ended => fetch' = Tail(Values(fetched, n)))
          BY <2>1, <3>2
        <4>3. <<>> \in Seq(Nat)
          OBVIOUS
        <4> QED BY <4>1, <4>2, <4>3, PushTypes
      <3> QED BY <3>1, <3>2
    <2>6. reading' = FALSE /\ UNCHANGED <<subscribed, deferred, ended, written, ending, sink, kafka,
                                          handed, refused, cut, dropped>>
      BY <1>2 DEF ConsumeAnswers
    <2>7. reading' \in BOOLEAN
      BY <2>6
    <2>8. <<subscribed, deferred, ended, written, ending, handed, cut>>'
            = <<subscribed, deferred, ended, written, ending, handed, cut>>
      BY <2>6
    <2>9. /\ <<producer, writable, autoClose, closeRequested, write, failed>>'
               = <<producer, writable, autoClose, closeRequested, write, failed>>
          /\ <<staged, outq, pendingError>>' = <<staged, outq, pendingError>>
      BY <2>6
    <2> QED BY ONLY Types, <2>3, <2>5, <2>7, <2>8, <2>9 DEF Types
  <1>3. CASE Retry
    <2>1. reading' \in BOOLEAN /\ retrying' \in BOOLEAN
      BY <1>3 DEF Retry
    <2> QED BY <1>3, <2>1 DEF Retry, Types
  <1>4. CASE ConsumerLeaves
    <2>1. reading' \in BOOLEAN
      BY <1>4 DEF ConsumerLeaves
    <2> QED BY <1>4, <2>1 DEF ConsumerLeaves, Types
  <1>5. CASE NodeReads
    <2>1. Read
      BY <1>5 DEF NodeReads
    <2>2. CASE fetch # <<>>
      <3>1. /\ Push(Head(fetch)) /\ (~ ended => fetch' = Tail(fetch))
            /\ UNCHANGED <<deferred, reading>>
        BY <2>1, <2>2 DEF Read
      <3>2. Head(fetch) \in Nat /\ Tail(fetch) \in Seq(Nat)
        BY <2>2, HeadTailProperties DEF Types
      <3>3. <<>> \in Seq(Nat)
        OBVIOUS
      <3>4. /\ readable' \in {"open", "destroying", "closed"}
            /\ consumer' \in {"away", "connecting", "connected", "leaving"}
            /\ retrying' \in BOOLEAN /\ asked' \in BOOLEAN /\ chunks' \in Seq(Nat)
            /\ fetch' \in Seq(Nat)
        BY <3>1, <3>2, <3>3, PushTypes
      <3> QED BY <1>5, <3>1, <3>4 DEF NodeReads, Types
    <2>3. CASE fetch = <<>>
      <3>1. /\ asked' = TRUE /\ deferred' \in BOOLEAN /\ reading' \in BOOLEAN
            /\ UNCHANGED <<chunks, readable, consumer, retrying, misused, fetch>>
        BY <2>1, <2>3 DEF Read, Types
      <3> QED BY <1>5, <3>1 DEF NodeReads, Types
    <2> QED BY <2>2, <2>3
  <1>6. CASE Pipe
    <2>1. Head(chunks) \in Nat /\ Tail(chunks) \in Seq(Nat)
      BY <1>6, HeadTailProperties DEF Pipe, Types
    <2>2. Append(written, Head(chunks)) \in Seq(Nat)
      BY <2>1, AppendProperties DEF Types
    <2> QED BY <1>6, <2>1, <2>2 DEF Pipe, Types
  <1>7. CASE EndOfReadable
    <2>1. DestroyReadable
      BY <1>7 DEF EndOfReadable
    <2>2. ending' \in BOOLEAN
      BY <1>7 DEF EndOfReadable
    <2>3. retrying' \in BOOLEAN
      BY <2>1, ReadableDestroyed
    <2>4. /\ readable' \in {"open", "destroying", "closed"}
          /\ consumer' \in {"away", "connecting", "connected", "leaving"}
          /\ fetch' \in Seq(Nat)
      BY <2>1, ReadableDestroyed
    <2> QED BY <1>7, <2>2, <2>3, <2>4 DEF EndOfReadable, Types
  <1>8. CASE WriteNext
    <2>1. written \in Seq(Nat) /\ written' = <<>> /\ <<>> \in Seq(Nat)
      BY <1>8 DEF WriteNext, Types
    <2>2. CASE producer = "connected"
      <3>1. ProduceAll(written)
        BY <1>8, <2>2 DEF WriteNext
      <3>2. Outcome(written)
        BY <2>1, <3>1, ProduceAllOutcome DEF Kept
      <3>3. /\ staged' \in Seq(Nat)
            /\ write' \in [at : {"idle", "ready", "backoff", "done", "error"}, chunks : Seq(Nat)]
            /\ pendingError' \in {"none", "full", "other"} /\ trouble' \in Nat
        BY <2>1, <3>2, OutcomeTypes
      <3> QED BY <1>8, <2>1, <3>3 DEF WriteNext, Types
    <2>3. CASE producer # "connected"
      <3>1. write' = [at |-> "ready", chunks |-> written]
        BY <1>8, <2>3 DEF WriteNext
      <3>2. write' \in [at : {"idle", "ready", "backoff", "done", "error"}, chunks : Seq(Nat)]
        BY <2>1, <3>1
      <3> QED BY <1>8, <2>1, <2>3, <3>2 DEF WriteNext, Types
    <2> QED BY <2>2, <2>3
  <1>9. CASE ProducerConnects
    <2>1. UNCHANGED <<source, autoClose, closeRequested, pipe, outq, history>>
      BY <1>9 DEF ProducerConnects
    <2>2. CASE producer' = "connected" /\ write.at = "ready" /\ writable = "open"
      <3>1. ProduceAll(write.chunks) /\ UNCHANGED <<writable, failed>>
        BY <1>9, <2>2 DEF ProducerConnects
      <3>2. write.chunks \in Seq(Nat)
        BY DEF Types
      <3>3. Outcome(write.chunks)
        BY <3>1, <3>2, ProduceAllOutcome DEF Kept
      <3>4. /\ staged' \in Seq(Nat)
            /\ write' \in [at : {"idle", "ready", "backoff", "done", "error"}, chunks : Seq(Nat)]
            /\ pendingError' \in {"none", "full", "other"} /\ trouble' \in Nat
        BY <3>2, <3>3, OutcomeTypes
      <3> QED BY <2>1, <2>2, <3>1, <3>4 DEF Types
    <2>3. CASE producer' = "connected" /\ ~ (write.at = "ready" /\ writable = "open")
      <3>1. /\ write' = write \/ write' = Idle
            /\ UNCHANGED <<writable, failed, staged, pendingError, trouble>>
        BY <1>9, <2>3 DEF ProducerConnects
      <3>2. write' \in [at : {"idle", "ready", "backoff", "done", "error"}, chunks : Seq(Nat)]
        <4>1. /\ Idle \in [at : {"idle", "ready", "backoff", "done", "error"}, chunks : Seq(Nat)]
              /\ write \in [at : {"idle", "ready", "backoff", "done", "error"}, chunks : Seq(Nat)]
          BY DEF Types, Idle
        <4> QED BY <3>1, <4>1
      <3> QED BY <2>1, <2>3, <3>1, <3>2 DEF Types
    <2>4. CASE producer' # "connected"
      <3>1. /\ Trouble /\ producer' = "away" /\ writable' = "closed" /\ failed' = TRUE
            /\ UNCHANGED <<write, staged, pendingError>>
        BY <1>9, <2>4 DEF ProducerConnects
      <3>2. trouble' \in Nat
        BY <3>1, TroubleType
      <3> QED BY <2>1, <3>1, <3>2 DEF Types
    <2> QED BY <2>2, <2>3, <2>4
  <1>10. CASE WriteGoesOn
    <2>1. UNCHANGED <<source, autoClose, closeRequested, pipe, outq, history>>
      BY <1>10, WriteGoesOnCases
    <2>2. CASE /\ \E ok \in BOOLEAN : Answered(ok) /\ (ok <=> write.at = "done")
               /\ UNCHANGED <<staged, pendingError, trouble>>
      <3>1. PICK ok \in BOOLEAN : Answered(ok)
        BY <2>2
      <3>2. /\ producer' \in {"away", "connecting", "connected", "leaving"}
            /\ writable' \in {"open", "flushing", "disconnecting", "closed"}
            /\ failed' \in BOOLEAN
            /\ write' \in [at : {"idle", "ready", "backoff", "done", "error"}, chunks : Seq(Nat)]
        BY <3>1, AnsweredTypes
      <3> QED BY <2>1, <2>2, <3>2 DEF Types
    <2>3. CASE ProduceAll(write.chunks) /\ UNCHANGED <<failed, writable, producer>>
      <3>1. write.chunks \in Seq(Nat)
        BY DEF Types
      <3>2. Outcome(write.chunks)
        BY <2>3, <3>1, ProduceAllOutcome DEF Kept
      <3>3. /\ staged' \in Seq(Nat)
            /\ write' \in [at : {"idle", "ready", "backoff", "done", "error"}, chunks : Seq(Nat)]
            /\ pendingError' \in {"none", "full", "other"} /\ trouble' \in Nat
        BY <3>1, <3>2, OutcomeTypes
      <3> QED BY <2>1, <2>3, <3>3 DEF Types
    <2> QED BY <1>10, <2>2, <2>3, WriteGoesOnCases
  <1>11. CASE Finish
    <2>1. Destroy(FALSE)
      BY <1>11 DEF Finish
    <2>2. /\ producer' \in {"away", "connecting", "connected", "leaving"}
          /\ writable' \in {"open", "flushing", "disconnecting", "closed"}
      BY <2>1, DestroyTypes
    <2> QED BY <1>11, <2>2 DEF Finish, Types
  <1>12. CASE HandsOver
    <2>1. PICK refuses : /\ HandOver(refuses)
                         /\ \A c \in DOMAIN refuses : refuses[c] \in {"full", "other"}
      BY <1>12, HandsOverCases
    <2>2. /\ staged' \in Seq(Nat) /\ handed' \in Seq(Nat)
          /\ pendingError' \in {"none", "full", "other"} /\ IsFiniteSet(outq')
      BY <2>1, HandOverTypes
    <2>3. trouble' \in Nat /\ UNCHANGED <<source, sink, pipe, cut, dropped, misused>>
      BY <1>12, HandsOverCases, TroubleType
    <2> QED BY <2>2, <2>3 DEF Types
  <1>13. CASE Deliver
    <2>1. IsFiniteSet(outq')
      BY <1>13, FS_RemoveElement DEF Deliver, Types
    <2> QED BY <1>13, <2>1 DEF Deliver, Types
  <1>14. CASE FlushEnds
    <2>1. trouble' \in Nat
      BY <1>14, TroubleType DEF FlushEnds
    <2>2. cut' \in BOOLEAN
      BY <1>14 DEF FlushEnds, Types
    <2> QED BY <1>14, <2>1, <2>2 DEF FlushEnds, Types
  <1>15. CASE ProducerLeaves
    <2>1. IsFiniteSet({})
      BY FS_EmptySet
    <2> QED BY <1>15, <2>1 DEF ProducerLeaves, Types
  <1>16. CASE Unsubscribe
    BY <1>16 DEF Unsubscribe, Types
  <1>17. CASE CloseReadable
    <2>1. DestroyReadable /\ chunks' = <<>> /\ <<>> \in Seq(Nat)
      BY <1>17 DEF CloseReadable
    <2>2. /\ readable' \in {"open", "destroying", "closed"}
          /\ consumer' \in {"away", "connecting", "connected", "leaving"}
          /\ retrying' \in BOOLEAN /\ fetch' \in Seq(Nat) /\ chunks' \in Seq(Nat)
      BY <2>1, ReadableDestroyed
    <2> QED BY <1>17, <2>2 DEF CloseReadable, Types
  <1>18. CASE DestroyWritable
    <2>1. Destroy(FALSE)
      BY <1>18 DEF DestroyWritable
    <2>2. /\ producer' \in {"away", "connecting", "connected", "leaving"}
          /\ writable' \in {"open", "flushing", "disconnecting", "closed"}
      BY <2>1, DestroyTypes
    <2> QED BY <1>18, <2>2 DEF DestroyWritable, Types
  <1>19. CASE CloseWritable
    <2>1. /\ producer' \in {"away", "connecting", "connected", "leaving"}
          /\ writable' \in {"open", "flushing", "disconnecting", "closed"}
      BY <1>19, DestroyTypes, TeardownTypes DEF CloseWritable, Types
    <2> QED BY <1>19, <2>1 DEF CloseWritable, Types
  <1>20. CASE UNCHANGED vars
    BY <1>20 DEF vars, Types
  <1> QED BY <1>1, <1>2, <1>3, <1>4, <1>5, <1>6, <1>7, <1>8, <1>9, <1>10, <1>11, <1>12, <1>13,
             <1>14, <1>15, <1>16, <1>17, <1>18, <1>19, <1>20
          DEF Next, ConsumerSide, Node, ProducerSide, Kafka, Application

-----------------------------------------------------------------------------
(* The two sides.                                                            *)

LEMMA ReadableLeaves ==
  ASSUME Types, ReadSide, readable = "open", DestroyReadable,
         UNCHANGED <<subscribed, deferred>>, reading' => reading
  PROVE  ReadSide'
  <1>1. readable' = "destroying" /\ consumer' = "leaving" /\ retrying' = FALSE
    BY DEF ReadSide, DestroyReadable, Held
  <1>2. /\ subscribed' = subscribed /\ deferred' = deferred
        /\ subscribed => ~ deferred
        /\ reading => subscribed
    BY DEF ReadSide
  <1> QED BY <1>1, <1>2 DEF ReadSide

LEMMA ReadSideStep ==
  ASSUME Types, ReadSide, [Next]_vars
  PROVE  ReadSide'
  <1> USE DEF source
  <1>1. CASE ConsumerConnects
    <2>1. consumer = "connecting" /\ readable = "open" /\ ~ subscribed /\ ~ reading /\ ~ retrying
          /\ asked' = asked
      BY <1>1 DEF ConsumerConnects, ReadSide
    <2>2. CASE /\ consumer' = "connected" /\ subscribed' = TRUE /\ deferred' = FALSE
               /\ reading' = deferred
               /\ UNCHANGED <<readable, retrying, fetch, trouble>>
      BY <2>1, <2>2 DEF ReadSide, Types
    <2>3. CASE /\ \/ /\ consumer' = "away" /\ readable' = "closed"
                     /\ retrying' = FALSE /\ fetch' = <<>>
                  \/ DestroyReadable
               /\ UNCHANGED <<subscribed, deferred, reading>>
      <3>1. CASE consumer' = "away" /\ readable' = "closed" /\ retrying' = FALSE /\ fetch' = <<>>
        BY <2>1, <2>3, <3>1 DEF ReadSide
      <3>2. CASE DestroyReadable
        BY <2>1, <2>3, <3>2, ReadableLeaves
      <3> QED BY <2>3, <3>1, <3>2
    <2> QED BY <1>1, <2>2, <2>3 DEF ConsumerConnects
  <1>2. CASE ConsumeAnswers
    <2>1. /\ reading /\ consumer = "connected" /\ reading' = FALSE
          /\ UNCHANGED <<subscribed, deferred>>
      BY <1>2 DEF ConsumeAnswers
    <2>2. /\ readable = "open" /\ subscribed /\ ~ deferred /\ ~ retrying /\ asked /\ fetch = <<>>
      BY <2>1 DEF ReadSide
    <2>3. \/ retrying' = TRUE /\ UNCHANGED <<fetch, asked, readable, consumer>>
          \/ \E chunk : Push(chunk)
      BY <1>2 DEF ConsumeAnswers, ReadsAgain
    <2>4. CASE retrying' = TRUE /\ UNCHANGED <<fetch, asked, readable, consumer>>
      BY <2>1, <2>2, <2>4 DEF ReadSide
    <2>5. ASSUME NEW chunk, Push(chunk) PROVE ReadSide'
      <3>1. CASE ended
        <4>1. DestroyReadable
          BY <2>5, <3>1 DEF Push
        <4> QED BY <2>1, <2>2, <4>1, ReadableLeaves
      <3>2. CASE ~ ended
        <4>1. asked' = FALSE /\ UNCHANGED <<readable, consumer, retrying>>
          BY <2>5, <3>2 DEF Push
        <4> QED BY <2>1, <2>2, <4>1 DEF ReadSide
      <3> QED BY <3>1, <3>2
    <2> QED BY <2>3, <2>4, <2>5
  <1>3. CASE Retry
    <2>1. /\ retrying /\ reading' = TRUE /\ retrying' = FALSE
          /\ UNCHANGED <<consumer, readable, subscribed, asked, deferred, fetch>>
      BY <1>3 DEF Retry
    <2> QED BY <2>1 DEF ReadSide
  <1>4. CASE ConsumerLeaves
    <2>1. /\ consumer = "leaving" /\ consumer' = "away" /\ reading' = FALSE /\ readable' = "closed"
          /\ UNCHANGED <<subscribed, asked, deferred, retrying, fetch>>
      BY <1>4 DEF ConsumerLeaves
    <2> QED BY <2>1 DEF ReadSide
  <1>5. CASE NodeReads
    <2>1. /\ readable = "open" /\ ~ asked /\ ~ ended /\ Read /\ UNCHANGED subscribed
      BY <1>5 DEF NodeReads
    <2>2. ~ reading /\ ~ retrying /\ ~ deferred
      BY <2>1 DEF ReadSide
    <2>3. CASE fetch # <<>>
      <3>1. /\ asked' = FALSE /\ UNCHANGED <<readable, consumer, retrying, deferred, reading>>
        BY <2>1, <2>3 DEF Read, Push
      <3> QED BY <2>1, <2>2, <3>1 DEF ReadSide
    <2>4. CASE fetch = <<>>
      <3>1. /\ asked' = TRUE
            /\ deferred' = (deferred \/ ~ subscribed)
            /\ reading' = (reading \/ subscribed)
            /\ UNCHANGED <<readable, consumer, retrying, fetch>>
        BY <2>1, <2>4 DEF Read
      <3> QED BY <2>1, <2>2, <2>4, <3>1 DEF ReadSide
    <2> QED BY <2>3, <2>4
  <1>6. CASE EndOfReadable
    BY <1>6, ReadableLeaves DEF EndOfReadable
  <1>7. CASE CloseReadable
    BY <1>7, ReadableLeaves DEF CloseReadable
  <1>8. CASE UNCHANGED source
    BY <1>8 DEF ReadSide
  <1>9. \/ ConsumerConnects \/ ConsumeAnswers \/ Retry \/ ConsumerLeaves \/ NodeReads
        \/ EndOfReadable \/ CloseReadable \/ UNCHANGED source
    <2>1. CASE Pipe \/ WriteNext \/ ProducerConnects \/ WriteGoesOn \/ Finish
      BY <2>1, WriteGoesOnCases DEF Pipe, WriteNext, ProducerConnects, Finish
    <2>2. CASE HandsOver \/ Deliver \/ FlushEnds \/ ProducerLeaves
      BY <2>2 DEF HandsOver, Deliver, FlushEnds, ProducerLeaves
    <2>3. CASE Unsubscribe \/ DestroyWritable \/ CloseWritable
      BY <2>3 DEF Unsubscribe, DestroyWritable, CloseWritable
    <2> QED BY <2>1, <2>2, <2>3
            DEF Next, ConsumerSide, Node, ProducerSide, Kafka, Application, vars
  <1> QED BY <1>1, <1>2, <1>3, <1>4, <1>5, <1>6, <1>7, <1>8, <1>9

(* Whatever closes the ProducerStream.                                       *)
LEMMA WriteSideCloses ==
  ASSUME Types, WriteSide, writable \in {"open", "closed"},
         UNCHANGED autoClose,
         \/ Destroy(closeRequested') \/ Teardown
         \/ Destroy(FALSE) /\ writable = "open" /\ UNCHANGED closeRequested,
         UNCHANGED write \/ write' = Idle
  PROVE  WriteSide'
  <1>1. /\ producer \in {"away", "connecting", "connected"}
        /\ writable = "open" => producer \in {"connecting", "connected"} /\ ~ closeRequested
    BY DEF WriteSide, Types
  <1>2. write'.at \in {"idle", "done", "error"} => write'.chunks = <<>>
    BY DEF WriteSide, Idle
  <1>3. CASE Teardown
    <2>1. CASE producer = "connected"
      <3>1. writable' = "flushing" /\ producer' = producer
        BY <1>3, <2>1 DEF Teardown
      <3> QED BY <1>2, <2>1, <3>1 DEF WriteSide
    <2>2. CASE producer # "connected"
      <3>1. /\ writable' = IF producer = "away" THEN "closed" ELSE "disconnecting"
            /\ producer' = IF producer = "away" THEN "away" ELSE "leaving"
        BY <1>3, <2>2 DEF Teardown, TeardownAtOnce
      <3> QED BY <1>2, <3>1 DEF WriteSide
    <2> QED BY <2>1, <2>2
  <1>4. CASE ~ Teardown
    <2>1. /\ writable' = "closed" /\ producer' = producer /\ ~ autoClose /\ ~ closeRequested'
      BY <1>1, <1>4 DEF Destroy
    <2> QED BY <1>1, <1>2, <2>1 DEF WriteSide
  <1> QED BY <1>3, <1>4

LEMMA WriteSideKept ==
  ASSUME Types, WriteSide, UNCHANGED <<writable, autoClose, closeRequested>>,
         UNCHANGED producer \/ (producer = "connecting" /\ producer' = "connected"),
         write'.at \in {"idle", "done", "error"} => write'.chunks = <<>>
  PROVE  WriteSide'
  BY DEF WriteSide, Types

LEMMA WriteSideStep ==
  ASSUME Types, WriteSide, Kept, [Next]_vars
  PROVE  WriteSide'
  <1> USE DEF sink
  <1>1. CASE WriteNext
    <2>1. UNCHANGED <<producer, writable, autoClose, closeRequested>>
      BY <1>1 DEF WriteNext
    <2>2. CASE producer = "connected"
      <3>1. ProduceAll(written) /\ written \in Seq(Nat)
        BY <1>1, <2>2 DEF WriteNext, Types
      <3>2. Outcome(written)
        BY <3>1, ProduceAllOutcome DEF Kept
      <3>3. write'.at # "backoff" => write'.chunks = <<>>
        BY <3>1, <3>2, OutcomeTypes
      <3> QED BY <2>1, <3>3, WriteSideKept
    <2>3. CASE producer # "connected"
      <3>1. write' = [at |-> "ready", chunks |-> written]
        BY <1>1, <2>3 DEF WriteNext
      <3> QED BY <2>1, <3>1, WriteSideKept
    <2> QED BY <2>2, <2>3
  <1>2. CASE ProducerConnects
    <2>1. producer = "connecting" /\ UNCHANGED <<autoClose, closeRequested>>
      BY <1>2 DEF ProducerConnects
    <2>2. CASE producer' = "connected" /\ write.at = "ready" /\ writable = "open"
      <3>1. ProduceAll(write.chunks) /\ write.chunks \in Seq(Nat) /\ UNCHANGED writable
        BY <1>2, <2>2 DEF ProducerConnects, Types
      <3>2. Outcome(write.chunks)
        BY <3>1, ProduceAllOutcome DEF Kept
      <3>3. write'.at # "backoff" => write'.chunks = <<>>
        BY <3>1, <3>2, OutcomeTypes
      <3> QED BY <2>1, <2>2, <3>1, <3>3, WriteSideKept
    <2>3. CASE producer' = "connected" /\ ~ (write.at = "ready" /\ writable = "open")
      <3>1. (write' = write \/ write' = Idle) /\ UNCHANGED writable
        BY <1>2, <2>3 DEF ProducerConnects
      <3>2. write'.at \in {"idle", "done", "error"} => write'.chunks = <<>>
        BY <3>1 DEF WriteSide, Idle
      <3> QED BY <2>1, <2>3, <3>1, <3>2, WriteSideKept
    <2>4. CASE producer' # "connected"
      <3>1. producer' = "away" /\ writable' = "closed" /\ UNCHANGED write
        BY <1>2, <2>4 DEF ProducerConnects
      <3> QED BY <3>1 DEF WriteSide
    <2> QED BY <2>2, <2>3, <2>4
  <1>3. CASE WriteGoesOn
    <2>1. UNCHANGED <<autoClose, closeRequested>>
      BY <1>3, WriteGoesOnCases
    <2>2. CASE \E ok \in BOOLEAN : Answered(ok)
      <3>1. PICK ok \in BOOLEAN : Answered(ok)
        BY <2>2
      <3>2. /\ write' = Idle
            /\ UNCHANGED <<writable, producer>> \/ (Destroy(FALSE) /\ writable = "open")
        BY <3>1 DEF Answered
      <3>3. CASE UNCHANGED <<writable, producer>>
        <4>1. write'.chunks = <<>>
          BY <3>2 DEF Idle
        <4> QED BY <2>1, <3>3, <4>1, WriteSideKept
      <3>4. CASE Destroy(FALSE) /\ writable = "open"
        BY <2>1, <3>2, <3>4, WriteSideCloses
      <3> QED BY <3>2, <3>3, <3>4
    <2>3. CASE ProduceAll(write.chunks) /\ UNCHANGED <<failed, writable, producer>>
      <3>1. write.chunks \in Seq(Nat)
        BY DEF Types
      <3>2. Outcome(write.chunks)
        BY <2>3, <3>1, ProduceAllOutcome DEF Kept
      <3>3. write'.at # "backoff" => write'.chunks = <<>>
        BY <3>1, <3>2, OutcomeTypes
      <3> QED BY <2>1, <2>3, <3>3, WriteSideKept
    <2> QED BY <1>3, <2>2, <2>3, WriteGoesOnCases
  <1>4. CASE Finish
    BY <1>4, WriteSideCloses DEF Finish
  <1>5. CASE FlushEnds
    BY <1>5 DEF FlushEnds, WriteSide
  <1>6. CASE ProducerLeaves
    BY <1>6 DEF ProducerLeaves, WriteSide
  <1>7. CASE DestroyWritable
    BY <1>7, WriteSideCloses DEF DestroyWritable
  <1>8. CASE CloseWritable
    <2>1. closeRequested' = TRUE /\ UNCHANGED <<autoClose, write>>
      BY <1>8 DEF CloseWritable
    <2>2. CASE writable = "open" /\ Destroy(TRUE)
      BY <2>1, <2>2, WriteSideCloses
    <2>3. CASE writable = "closed" /\ Teardown
      BY <2>1, <2>3, WriteSideCloses
    <2>4. CASE writable \in {"flushing", "disconnecting"} /\ UNCHANGED <<writable, producer>>
      BY <2>1, <2>4 DEF WriteSide
    <2> QED BY <1>8, <2>2, <2>3, <2>4 DEF CloseWritable
  <1>9. CASE UNCHANGED sink
    BY <1>9 DEF WriteSide
  <1>10. \/ WriteNext \/ ProducerConnects \/ WriteGoesOn \/ Finish \/ FlushEnds \/ ProducerLeaves
         \/ DestroyWritable \/ CloseWritable \/ UNCHANGED sink
    <2>1. CASE ConsumerSide
      BY <2>1 DEF ConsumerSide, ConsumerConnects, ConsumeAnswers, Retry, ConsumerLeaves
    <2>2. CASE Node
      BY <2>2 DEF Node, NodeReads, Pipe, EndOfReadable
    <2>3. CASE HandsOver \/ Deliver
      BY <2>3 DEF HandsOver, Deliver
    <2>4. CASE Unsubscribe \/ CloseReadable
      BY <2>4 DEF Unsubscribe, CloseReadable
    <2> QED BY <2>1, <2>2, <2>3, <2>4 DEF Next, ProducerSide, Kafka, Application, vars
  <1> QED BY <1>1, <1>2, <1>3, <1>4, <1>5, <1>6, <1>7, <1>8, <1>9, <1>10

LEMMA DestroyKeeps ==
  ASSUME Types, NEW requested, Destroy(requested) \/ Teardown
  PROVE  \/ producer' = producer
         \/ producer = "connecting" /\ producer' = "leaving"
  BY DEF Types, Destroy, Teardown, TeardownAtOnce

LEMMA KeptKeeps ==
  ASSUME Types, Kept, UNCHANGED <<staged, outq, cut, dropped>>,
         \/ producer' = producer
         \/ producer' \in {"connected", "away"}
         \/ producer = "connecting" /\ producer' = "leaving"
  PROVE  Kept'
  BY DEF Kept, Ledger

LEMMA KeptStep ==
  ASSUME Types, WriteSide, Kept, [Next]_vars
  PROVE  Kept'
  <1> USE DEF sink, kafka, history
  <1>1. ASSUME NEW list \in Seq(Nat), ProduceAll(list), producer' = "connected",
               UNCHANGED <<outq, cut, dropped>>
        PROVE  Kept'
    <2>1. Outcome(list)
      BY <1>1, ProduceAllOutcome DEF Kept
    <2>2. Ledger' <= MaxPending
      BY <1>1, <2>1, OutcomeTypes
    <2> QED BY <1>1, <2>2 DEF Kept
  <1>2. CASE WriteNext
    <2>1. UNCHANGED <<outq, cut, dropped, producer>>
      BY <1>2 DEF WriteNext
    <2>2. CASE producer = "connected"
      <3>1. ProduceAll(written) /\ written \in Seq(Nat)
        BY <1>2, <2>2 DEF WriteNext, Types
      <3> QED BY <1>1, <2>1, <2>2, <3>1
    <2>3. CASE producer # "connected"
      <3>1. UNCHANGED staged
        BY <1>2, <2>3 DEF WriteNext
      <3> QED BY <2>1, <3>1, KeptKeeps
    <2> QED BY <2>2, <2>3
  <1>3. CASE ProducerConnects
    <2>1. UNCHANGED <<outq, cut, dropped>>
      BY <1>3 DEF ProducerConnects
    <2>2. CASE producer' = "connected" /\ write.at = "ready" /\ writable = "open"
      <3>1. ProduceAll(write.chunks) /\ write.chunks \in Seq(Nat)
        BY <1>3, <2>2 DEF ProducerConnects, Types
      <3> QED BY <1>1, <2>1, <2>2, <3>1
    <2>3. CASE ~ (producer' = "connected" /\ write.at = "ready" /\ writable = "open")
      <3>1. producer' \in {"connected", "away"} /\ UNCHANGED staged
        BY <1>3, <2>3 DEF ProducerConnects
      <3> QED BY <2>1, <3>1, KeptKeeps
    <2> QED BY <2>2, <2>3
  <1>4. CASE WriteGoesOn
    <2>1. UNCHANGED <<outq, cut, dropped>>
      BY <1>4, WriteGoesOnCases
    <2>2. CASE (\E ok \in BOOLEAN : Answered(ok)) /\ UNCHANGED staged
      <3>1. UNCHANGED producer \/ Destroy(FALSE)
        BY <2>2 DEF Answered
      <3> QED BY <2>1, <2>2, <3>1, DestroyKeeps, KeptKeeps
    <2>3. CASE producer = "connected" /\ ProduceAll(write.chunks) /\ UNCHANGED producer
      <3>1. write.chunks \in Seq(Nat)
        BY DEF Types
      <3> QED BY <1>1, <2>1, <2>3, <3>1
    <2> QED BY <1>4, <2>2, <2>3, WriteGoesOnCases
  <1>5. CASE Finish
    BY <1>5, DestroyKeeps, KeptKeeps DEF Finish
  <1>6. CASE HandsOver
    <2>1. PICK refuses : /\ HandOver(refuses)
                         /\ \A c \in DOMAIN refuses : refuses[c] \in {"full", "other"}
      BY <1>6, HandsOverCases
    <2>2. staged # <<>> /\ UNCHANGED <<producer, cut, dropped>>
      BY <1>6, HandsOverCases
    <2>3. Ledger' <= Ledger /\ staged' = <<>> /\ staged' \in Seq(Nat) /\ IsFiniteSet(outq')
      BY <2>1, HandOverTypes
    <2>4. Ledger' \in Nat
      <3>1. Len(staged') \in Nat
        BY <2>3, LenProperties
      <3>2. Cardinality(outq') \in Nat
        BY <2>3, FS_CardinalityType
      <3> QED BY <3>1, <3>2 DEF Ledger
    <2>5. Ledger' <= MaxPending
      BY <2>3, <2>4, LedgerType DEF Kept
    <2> QED BY <2>2, <2>5 DEF Kept
  <1>7. CASE Deliver
    <2>1. UNCHANGED <<staged, producer, cut, dropped>>
      BY <1>7 DEF Deliver
    <2>2. PICK c \in outq : outq' = outq \ {c}
      BY <1>7 DEF Deliver
    <2>3. Cardinality(outq') = Cardinality(outq) - 1
      BY <2>2, FS_RemoveElement DEF Types
    <2>4. Ledger' <= MaxPending
      BY <2>1, <2>3, LedgerType DEF Kept, Ledger
    <2> QED BY <2>1, <2>2, <2>4 DEF Kept
  <1>8. CASE FlushEnds
    <2>1. producer' = "leaving" /\ UNCHANGED <<staged, outq, dropped>>
      BY <1>8 DEF FlushEnds
    <2>2. CASE Ledger = 0 /\ UNCHANGED cut
      <3>1. Len(staged) = 0 /\ Cardinality(outq) = 0
        BY <2>2, LedgerType DEF Ledger
      <3>2. staged = <<>>
        BY <3>1, EmptySeq DEF Types
      <3>3. outq = {}
        BY <3>1, FS_EmptySet DEF Types
      <3> QED BY <2>1, <2>2, <3>2, <3>3 DEF Kept, Ledger
    <2>3. CASE cut' = TRUE
      BY <2>1, <2>3 DEF Kept, Ledger
    <2> QED BY <1>8, <2>2, <2>3 DEF FlushEnds
  <1>9. CASE ProducerLeaves
    <2>1. /\ producer = "leaving" /\ producer' = "away"
          /\ outq' = {} /\ dropped' = dropped \cup outq
          /\ UNCHANGED <<staged, cut>>
      BY <1>9 DEF ProducerLeaves
    <2>2. Cardinality(outq') = 0
      BY <2>1, FS_EmptySet
    <2>3. Ledger' <= MaxPending
      BY <2>1, <2>2, LedgerType DEF Kept, Ledger
    <2> QED BY <2>1, <2>3 DEF Kept
  <1>10. CASE DestroyWritable
    BY <1>10, DestroyKeeps, KeptKeeps DEF DestroyWritable
  <1>11. CASE CloseWritable
    <2>1. UNCHANGED producer \/ (\E requested : Destroy(requested)) \/ Teardown
      BY <1>11 DEF CloseWritable
    <2> QED BY <1>11, <2>1, DestroyKeeps, KeptKeeps DEF CloseWritable
  <1>12. CASE UNCHANGED <<producer, staged, outq, cut, dropped>>
    BY <1>12, KeptKeeps
  <1>13. \/ WriteNext \/ ProducerConnects \/ WriteGoesOn \/ Finish \/ HandsOver \/ Deliver
         \/ FlushEnds \/ ProducerLeaves \/ DestroyWritable \/ CloseWritable
         \/ UNCHANGED <<producer, staged, outq, cut, dropped>>
    <2>1. CASE ConsumerSide
      BY <2>1 DEF ConsumerSide, ConsumerConnects, ConsumeAnswers, Retry, ConsumerLeaves
    <2>2. CASE Node
      BY <2>2 DEF Node, NodeReads, Pipe, EndOfReadable
    <2>3. CASE Unsubscribe \/ CloseReadable
      BY <2>3 DEF Unsubscribe, CloseReadable
    <2> QED BY <2>1, <2>2, <2>3 DEF Next, ProducerSide, Kafka, Application, vars
  <1> QED BY <1>2, <1>3, <1>4, <1>5, <1>6, <1>7, <1>8, <1>9, <1>10, <1>11, <1>12, <1>13

-----------------------------------------------------------------------------
(* The line from the consumer to librdkafka.                                 *)

LEMMA MorePassed ==
  ASSUME NEW P, NEW Q, P \subseteq Q, NEW seq, NEW lo, NEW hi, Whole(P, seq, lo, hi)
  PROVE  Whole(Q, seq, lo, hi)
  BY DEF Whole

LEMMA Lined ==
  ASSUME NEW a \in Nat, NEW b \in Nat, NEW c \in Nat, NEW d \in Nat, NEW e \in Nat,
         fetched' \in Nat, a <= b, b <= c, c <= d, d <= e, e <= fetched', Divided(a, b, c, d, e)'
  PROVE  InLine'
  <1>1. a \in 0 .. fetched' /\ b \in a .. fetched' /\ c \in b .. fetched'
        /\ d \in c .. fetched' /\ e \in d .. fetched'
    OBVIOUS
  <1> QED BY <1>1 DEF InLine

LEMMA Marked ==
  ASSUME Types, InLine
  PROVE  \E a, b, c, d, e \in Nat :
           a <= b /\ b <= c /\ c <= d /\ d <= e /\ e <= fetched /\ Divided(a, b, c, d, e)
  <1>1. PICK a \in 0 .. fetched : \E b \in a .. fetched : \E c \in b .. fetched :
               \E d \in c .. fetched : \E e \in d .. fetched : Divided(a, b, c, d, e)
    BY DEF InLine
  <1>2. PICK b \in a .. fetched : \E c \in b .. fetched : \E d \in c .. fetched :
               \E e \in d .. fetched : Divided(a, b, c, d, e)
    BY <1>1
  <1>3. PICK c \in b .. fetched : \E d \in c .. fetched :
               \E e \in d .. fetched : Divided(a, b, c, d, e)
    BY <1>2
  <1>4. PICK d \in c .. fetched : \E e \in d .. fetched : Divided(a, b, c, d, e)
    BY <1>3
  <1>5. PICK e \in d .. fetched : Divided(a, b, c, d, e)
    BY <1>4
  <1>6. /\ a \in Nat /\ b \in Nat /\ c \in Nat /\ d \in Nat /\ e \in Nat
        /\ a <= b /\ b <= c /\ c <= d /\ d <= e /\ e <= fetched
    BY DEF Types
  <1> QED BY <1>5, <1>6

(* Nothing moves; a stream that closes, or a write that failed, drops what   *)
(* it has.                                                                   *)
LEMMA NothingMoves ==
  ASSUME Types, InLine, UNCHANGED <<handed, staged, refused, written, fetched>>,
         \/ write'.chunks = write.chunks
         \/ write'.chunks = <<>> /\ Blocked',
         \/ chunks' = chunks /\ fetch' = fetch
         \/ chunks' \in {chunks, <<>>} /\ fetch' \in {fetch, <<>>} /\ readable' # "open",
         readable' = "open" => readable = "open",
         Blocked => Blocked'
  PROVE  InLine'
  <1> PICK a, b, c, d, e \in Nat :
         a <= b /\ b <= c /\ c <= d /\ d <= e /\ e <= fetched /\ Divided(a, b, c, d, e)
    BY Marked
  <1>1. Passed' = Passed /\ fetched \in Nat /\ fetched' = fetched
    BY DEF Passed, Types
  <1>2. Piece(chunks', d, e) /\ Piece(fetch', e, fetched)
    BY <1>1, EmptyPiece DEF Divided
  <1>3. /\ Piece(handed', 0, a) /\ Whole(Passed', handed', 0, a)
        /\ Piece(staged', a, b) /\ Whole(Passed', staged', a, b)
    BY <1>1 DEF Divided
  <1>4. ~ Blocked' /\ readable' = "open" =>
          Whole(Passed', chunks', d, e) /\ Whole(Passed', fetch', e, fetched')
    BY <1>1 DEF Divided
  <1>5. CASE write'.chunks = write.chunks
    <2>1. /\ Piece(write'.chunks, b, c) /\ Whole(Passed', write'.chunks, b, c)
          /\ Piece(written', c, d)
          /\ ~ Blocked' => Whole(Passed', written', c, d)
      BY <1>1, <1>5 DEF Divided
    <2>2. Divided(a, b, c, d, e)'
      BY <1>1, <1>2, <1>3, <1>4, <2>1 DEF Divided
    <2> QED BY <1>1, <2>2, Lined
  <1>6. CASE write'.chunks = <<>> /\ Blocked'
    <2>1. Piece(write'.chunks, b, b) /\ Whole(Passed', write'.chunks, b, b)
      BY <1>6, EmptyPiece
    <2>2. Piece(written', b, d)
      <3>1. Piece(written, c, d) /\ b \in 0 .. c
        BY DEF Divided
      <3>2. Piece(written, b, d)
        BY <3>1, WiderPiece
      <3> QED BY <3>2
    <2>3. Divided(a, b, b, d, e)'
      BY <1>1, <1>2, <1>3, <1>4, <1>6, <2>1, <2>2 DEF Divided
    <2>4. b <= b /\ b <= d
      OBVIOUS
    <2> QED BY <1>1, <2>3, <2>4, Lined
  <1> QED BY <1>5, <1>6

LEMMA OutcomePieces ==
  ASSUME Types, NEW list \in Seq(Nat), Outcome(list), NEW P, NEW a \in Nat, NEW b \in Nat,
         NEW d \in Nat, a <= b, b <= d, Piece(staged, a, b), Whole(P, staged, a, b),
         Piece(list, b, d), Whole(P, list, b, d)
  PROVE  \E m \in Nat, c \in Nat :
           /\ b <= m /\ m <= c /\ c <= d
           /\ Piece(staged', a, m) /\ Whole(P, staged', a, m)
           /\ Piece(write'.chunks, m, c) /\ Whole(P, write'.chunks, m, c)
           /\ write'.at # "error" => c = d
  <1>1. PICK k \in 0 .. Len(list) :
          /\ staged' = staged \o SubSeq(list, 1, k)
          /\ \/ write' = [at |-> "error", chunks |-> <<>>]
             \/ write' = [at |-> "backoff", chunks |-> SubSeq(list, k + 1, Len(list))]
             \/ k = Len(list) /\ write' = [at |-> "done", chunks |-> <<>>]
    BY DEF Outcome
  <1> DEFINE f == SubSeq(list, 1, k)
             g == SubSeq(list, k + 1, Len(list))
  <1>2. PICK m \in b .. d :
          /\ Piece(f, b, m) /\ Piece(g, m, d)
          /\ Whole(P, list, b, d) => Whole(P, f, b, m) /\ Whole(P, g, m, d)
          /\ k = Len(list) => m = d
    BY CutPiece
  <1>3. f \in Seq(Nat)
    <2>1. Len(list) \in Nat /\ \A i \in 1 .. Len(list) : list[i] \in Nat
      BY LenProperties, ElementOfSeq
    <2> QED BY <2>1, SubSeqProperties
  <1>4. staged \in Seq(Nat) /\ m \in Nat /\ b \in a .. m /\ b <= m /\ m <= d
    BY DEF Types
  <1>5. Piece(staged', a, m) /\ Whole(P, staged', a, m)
    <2> HIDE DEF f, g
    <2>1. staged' = staged \o f
      BY <1>1 DEF f
    <2>2. Piece(staged \o f, a, m) /\ Whole(P, staged \o f, a, m)
      BY <1>2, <1>3, <1>4, JoinPieces
    <2> QED BY <2>1, <2>2
  <1>6. Piece(g, m, d) /\ Whole(P, g, m, d)
    BY <1>2
  <1>7. CASE write' = [at |-> "error", chunks |-> <<>>]
    <2>1. write'.chunks = <<>> /\ write'.at = "error"
      BY <1>7
    <2>2. Piece(write'.chunks, m, m) /\ Whole(P, write'.chunks, m, m)
      BY <1>4, <2>1, EmptyPiece
    <2>3. m <= m
      BY <1>4
    <2> QED BY <1>4, <1>5, <2>1, <2>2, <2>3
  <1>8. CASE write' = [at |-> "backoff", chunks |-> g]
    <2>1. write'.chunks = g
      BY <1>8
    <2>2. d <= d
      OBVIOUS
    <2> QED BY <1>4, <1>5, <1>6, <2>1, <2>2
  <1>9. CASE k = Len(list) /\ write' = [at |-> "done", chunks |-> <<>>]
    <2>1. write'.chunks = <<>> /\ m = d
      BY <1>2, <1>9
    <2>2. Piece(write'.chunks, d, d) /\ Whole(P, write'.chunks, d, d)
      BY <2>1, EmptyPiece
    <2>3. d <= d
      OBVIOUS
    <2> QED BY <1>4, <1>5, <2>1, <2>2, <2>3
  <1> QED BY <1>1, <1>7, <1>8, <1>9

(* _write() takes all that waits, when the write before has ended.           *)
LEMMA WriteNextMoves ==
  ASSUME Types, WriteSide, Kept, InLine, WriteNext
  PROVE  InLine'
  <1> PICK a, b, c, d, e \in Nat :
         a <= b /\ b <= c /\ c <= d /\ d <= e /\ e <= fetched /\ Divided(a, b, c, d, e)
    BY Marked
  <1>1. /\ written' = <<>> /\ UNCHANGED <<handed, refused, chunks, fetch, fetched, readable>>
        /\ UNCHANGED <<writable, failed>>
        /\ writable = "open" /\ ~ failed /\ write = Idle /\ written \in Seq(Nat)
      BY DEF WriteNext, Types, source, history
  <1>2. Passed' = Passed /\ fetched \in Nat /\ write.chunks = <<>> /\ ~ Blocked
    BY <1>1 DEF Passed, Types, Idle, Blocked
  <1>3. Piece(written, b, d) /\ Whole(Passed, written, b, d)
    <2>1. /\ Piece(<<>>, b, c) /\ Whole(Passed, <<>>, b, c)
          /\ Piece(written, c, d) /\ Whole(Passed, written, c, d)
      BY <1>2 DEF Divided
    <2>2. <<>> \in Seq(Nat) /\ <<>> \o written = written /\ c \in b .. d
      BY <1>1, ConcatEmptySeq
    <2>3. Piece(<<>> \o written, b, d) /\ Whole(Passed, <<>> \o written, b, d)
      BY <1>1, <2>1, <2>2, JoinPieces
    <2> QED BY <2>2, <2>3
  <1>4. Piece(handed, 0, a) /\ Whole(Passed, handed, 0, a)
    BY DEF Divided
  <1>5. Piece(staged, a, b) /\ Whole(Passed, staged, a, b)
    BY DEF Divided
  <1>6. /\ Piece(chunks, d, e) /\ Piece(fetch, e, fetched)
        /\ readable = "open" => Whole(Passed, chunks, d, e) /\ Whole(Passed, fetch, e, fetched)
    BY <1>2 DEF Divided
  <1>7. CASE producer = "connected"
    <2>1. ProduceAll(written)
      BY <1>7 DEF WriteNext
    <2>2. Outcome(written)
      BY <1>1, <2>1, ProduceAllOutcome DEF Kept
    <2>3. b <= d
      OBVIOUS
    <2>4. PICK m \in Nat, h \in Nat :
           /\ b <= m /\ m <= h /\ h <= d
           /\ Piece(staged', a, m) /\ Whole(Passed, staged', a, m)
           /\ Piece(write'.chunks, m, h) /\ Whole(Passed, write'.chunks, m, h)
           /\ write'.at # "error" => h = d
      BY ONLY Types, <1>1, <1>3, <1>5, <2>2, <2>3, a \in Nat, b \in Nat, d \in Nat, a <= b,
              OutcomePieces
    <2>5. Piece(written', h, d) /\ (~ Blocked' => Whole(Passed', written', h, d))
      <3>1. Piece(<<>>, h, d) /\ Whole(Passed', <<>>, d, d)
        BY EmptyPiece
      <3>2. ~ Blocked' => h = d
        BY <2>4 DEF Blocked
      <3> QED BY <1>1, <3>1, <3>2
    <2>6. Divided(a, m, h, d, e)'
      BY <1>1, <1>2, <1>4, <1>6, <2>4, <2>5 DEF Divided
    <2>7. a <= m
      BY <2>4
    <2> QED BY <1>1, <1>2, <2>4, <2>6, <2>7, Lined
  <1>8. CASE producer # "connected"
    <2>1. write' = [at |-> "ready", chunks |-> written] /\ UNCHANGED staged
      BY <1>8 DEF WriteNext
    <2>2. Piece(written', d, d) /\ Whole(Passed', written', d, d)
      BY <1>1, EmptyPiece
    <2>3. write'.chunks = written
      BY <2>1
    <2>4. Divided(a, b, d, d, e)'
      BY <1>1, <1>2, <1>3, <1>4, <1>5, <1>6, <2>1, <2>2, <2>3 DEF Divided
    <2>5. b <= d /\ d <= d
      OBVIOUS
    <2> QED BY <1>1, <1>2, <2>4, <2>5, Lined
  <1> QED BY <1>7, <1>8

(* #produceAll() goes on with what a write has left.                         *)
LEMMA ProduceMoves ==
  ASSUME Types, WriteSide, Kept, InLine, ProduceAll(write.chunks), write.at # "error",
         UNCHANGED <<handed, refused, written, chunks, fetch, fetched, readable, writable, failed>>
  PROVE  InLine'
  <1> PICK a, b, c, d, e \in Nat :
         a <= b /\ b <= c /\ c <= d /\ d <= e /\ e <= fetched /\ Divided(a, b, c, d, e)
    BY Marked
  <1>1. Passed' = Passed /\ fetched \in Nat /\ write.chunks \in Seq(Nat) /\ fetched' = fetched
    BY DEF Passed, Types
  <1>2. Outcome(write.chunks)
    BY <1>1, ProduceAllOutcome DEF Kept
  <1>3. /\ Piece(staged, a, b) /\ Whole(Passed, staged, a, b)
        /\ Piece(write.chunks, b, c) /\ Whole(Passed, write.chunks, b, c)
    BY DEF Divided
  <1>4. PICK m \in Nat, h \in Nat :
         /\ b <= m /\ m <= h /\ h <= c
         /\ Piece(staged', a, m) /\ Whole(Passed, staged', a, m)
         /\ Piece(write'.chunks, m, h) /\ Whole(Passed, write'.chunks, m, h)
         /\ write'.at # "error" => h = c
    <2> DEFINE list == write.chunks
    <2>1. list \in Seq(Nat) /\ Outcome(list) /\ Piece(list, b, c) /\ Whole(Passed, list, b, c)
      BY <1>1, <1>2, <1>3
    <2> HIDE DEF list
    <2> QED BY ONLY Types, <1>3, <2>1, a \in Nat, b \in Nat, c \in Nat, a <= b, b <= c,
                    OutcomePieces
  <1>5. ~ Blocked' => ~ Blocked /\ h = c
    BY <1>4 DEF Blocked
  <1>6. Piece(written, c, d) /\ (~ Blocked => Whole(Passed, written, c, d))
    BY DEF Divided
  <1>7. Piece(written', h, d) /\ (~ Blocked' => Whole(Passed', written', h, d))
    <2>1. h \in 0 .. c /\ d <= d
      BY <1>4
    <2>2. Piece(written, h, d)
      BY <1>6, <2>1, WiderPiece
    <2> QED BY <1>1, <1>5, <1>6, <2>2
  <1>8. Piece(handed, 0, a) /\ Whole(Passed, handed, 0, a)
    BY DEF Divided
  <1>9. /\ Piece(chunks, d, e) /\ Piece(fetch, e, fetched)
        /\ ~ Blocked /\ readable = "open" =>
             Whole(Passed, chunks, d, e) /\ Whole(Passed, fetch, e, fetched)
    BY DEF Divided
  <1>10. Divided(a, m, h, d, e)'
    BY <1>1, <1>4, <1>5, <1>7, <1>8, <1>9 DEF Divided
  <1>11. a <= m /\ h <= d
    BY <1>4
  <1> QED BY <1>1, <1>4, <1>10, <1>11, Lined

(* flushStaging().                                                           *)
LEMMA HandOverMoves ==
  ASSUME Types, InLine, HandsOver
  PROVE  InLine'
  <1> PICK a, b, c, d, e \in Nat :
         a <= b /\ b <= c /\ c <= d /\ d <= e /\ e <= fetched /\ Divided(a, b, c, d, e)
    BY Marked
  <1>1. PICK refuses : HandOver(refuses)
    BY HandsOverCases
  <1>2. UNCHANGED <<write, written, chunks, fetch, fetched, readable, writable, failed>>
    BY HandsOverCases DEF source, sink, pipe
  <1>3. staged \in Seq(Nat) /\ handed \in Seq(Nat) /\ fetched \in Nat
    BY DEF Types
  <1> DEFINE I == {i \in DOMAIN staged : staged[i] \notin DOMAIN refuses}
             taken == At(staged, I)
  <1>4. staged' = <<>> /\ handed' = handed \o taken
    BY <1>1 DEF HandOver
  <1>5. Passed \subseteq Passed' /\ DOMAIN refuses \subseteq Passed'
    <2>1. refused' = refused \cup {[chunk |-> n, code |-> refuses[n]] : n \in DOMAIN refuses}
      BY <1>1 DEF HandOver
    <2>2. ASSUME NEW n \in DOMAIN refuses PROVE \E r \in refused' : r.chunk = n
      <3>1. [chunk |-> n, code |-> refuses[n]] \in refused'
        BY <2>1
      <3> QED BY <3>1
    <2> QED BY <2>1, <2>2 DEF Passed
  <1>6. /\ Piece(handed, 0, a) /\ Whole(Passed, handed, 0, a)
        /\ Piece(staged, a, b) /\ Whole(Passed, staged, a, b)
    BY DEF Divided
  <1>7. I \subseteq DOMAIN staged /\ (\A i \in DOMAIN staged : i \in I \/ staged[i] \in Passed')
    BY <1>5
  <1> HIDE DEF I
  <1>8. taken \in Seq(Nat) /\ Piece(taken, a, b) /\ Whole(Passed', taken, a, b)
    BY <1>3, <1>5, <1>6, <1>7, FilterPiece
  <1> HIDE DEF taken
  <1>9. Piece(handed', 0, b) /\ Whole(Passed', handed', 0, b)
    <2>1. Whole(Passed', handed, 0, a)
      BY <1>5, <1>6, MorePassed
    <2>2. a \in 0 .. b /\ 0 \in Nat
      OBVIOUS
    <2>3. Piece(handed \o taken, 0, b) /\ Whole(Passed', handed \o taken, 0, b)
      BY <1>3, <1>6, <1>8, <2>1, <2>2, JoinPieces
    <2> QED BY <1>4, <2>3
  <1>10. Piece(staged', b, b) /\ Whole(Passed', staged', b, b)
    BY <1>4, EmptyPiece
  <1>11. Blocked' = Blocked
    BY <1>2 DEF Blocked
  <1>12. /\ Piece(write.chunks, b, c) /\ Whole(Passed', write.chunks, b, c)
         /\ Piece(written, c, d) /\ Piece(chunks, d, e) /\ Piece(fetch, e, fetched)
         /\ ~ Blocked => Whole(Passed', written, c, d)
         /\ ~ Blocked /\ readable = "open" =>
              Whole(Passed', chunks, d, e) /\ Whole(Passed', fetch, e, fetched)
    BY <1>5, MorePassed DEF Divided
  <1>13. Divided(b, b, c, d, e)'
    BY <1>2, <1>9, <1>10, <1>11, <1>12 DEF Divided
  <1>14. b <= b
    OBVIOUS
  <1> QED BY <1>2, <1>3, <1>13, <1>14, Lined

(* The first of what there is to push goes to node:stream.                   *)
Pushes(q, e, hi) ==
    /\ q \in Seq(Nat) /\ q # <<>>
    /\ Piece(q, e, hi) /\ (~ Blocked /\ readable = "open" => Whole(Passed, q, e, hi))
    /\ fetched' = hi
    /\ Push(Head(q)) /\ (~ ended => fetch' = Tail(q))
    /\ UNCHANGED <<handed, staged, write, written, refused, writable, failed>>

LEMMA PushMoves ==
  ASSUME Types, NEW a \in Nat, NEW b \in Nat, NEW c \in Nat, NEW d \in Nat, NEW e \in Nat,
         a <= b, b <= c, c <= d, d <= e, Divided(a, b, c, d, e),
         NEW hi \in Nat, e <= hi, NEW q, Pushes(q, e, hi)
  PROVE  InLine'
  <1>a. /\ q \in Seq(Nat) /\ q # <<>> /\ fetched' = hi
        /\ Piece(q, e, hi) /\ (~ Blocked /\ readable = "open" => Whole(Passed, q, e, hi))
        /\ Push(Head(q)) /\ (~ ended => fetch' = Tail(q))
    BY DEF Pushes
  <1>b. UNCHANGED <<handed, staged, write, written, refused, writable, failed>>
    BY DEF Pushes
  <1>1. Passed' = Passed /\ Blocked' = Blocked
    BY <1>b DEF Passed, Blocked
  <1>2. /\ Piece(handed', 0, a) /\ Whole(Passed', handed', 0, a)
        /\ Piece(staged', a, b) /\ Whole(Passed', staged', a, b)
        /\ Piece(write'.chunks, b, c) /\ Whole(Passed', write'.chunks, b, c)
        /\ Piece(written', c, d)
        /\ ~ Blocked' => Whole(Passed', written', c, d)
    BY <1>1, <1>b DEF Divided
  <1>3. chunks \in Seq(Nat) /\ Piece(chunks, d, e)
    BY DEF Types, Divided
  <1>4. CASE ended
    <2>1. chunks' = <<>> /\ fetch' = <<>> /\ readable' # "open"
      BY <1>4, <1>a, ReadableDestroyed DEF Push
    <2>2. Piece(chunks', d, e) /\ Piece(fetch', e, fetched')
      BY <1>a, <2>1, EmptyPiece
    <2>3. Divided(a, b, c, d, e)'
      BY <1>2, <2>1, <2>2 DEF Divided
    <2> QED BY <1>a, <2>3, Lined
  <1>5. CASE ~ ended
    <2>1. chunks' = Append(chunks, Head(q)) /\ fetch' = Tail(q) /\ readable' = readable
      BY <1>5, <1>a DEF Push
    <2>2. e \in d .. hi
      OBVIOUS
    <2>3. PICK m \in e .. hi :
           /\ Piece(Append(chunks, Head(q)), d, m) /\ Piece(Tail(q), m, hi)
           /\ Whole(Passed, q, e, hi) =>
                /\ Whole(Passed, chunks, d, e) => Whole(Passed, Append(chunks, Head(q)), d, m)
                /\ Whole(Passed, Tail(q), m, hi)
      BY ONLY <1>3, <1>a, <2>2, d \in Nat, hi \in Nat, PassHead
    <2>4. Piece(chunks', d, m) /\ Piece(fetch', m, fetched')
      BY <1>a, <2>1, <2>3
    <2>5. ~ Blocked' /\ readable' = "open" =>
            Whole(Passed', chunks', d, m) /\ Whole(Passed', fetch', m, fetched')
      <3>1. ~ Blocked /\ readable = "open" => Whole(Passed, chunks, d, e)
        BY DEF Divided
      <3> QED BY <1>1, <1>a, <2>1, <2>3, <3>1
    <2>6. Divided(a, b, c, d, m)'
      BY <1>2, <2>4, <2>5 DEF Divided
    <2>7. m \in Nat /\ d <= m /\ m <= fetched'
      BY <1>a
    <2> QED BY <1>a, <2>6, <2>7, Lined
  <1> QED BY <1>4, <1>5

LEMMA NodeReadsMoves ==
  ASSUME Types, InLine, NodeReads
  PROVE  InLine'
  <1>1. UNCHANGED <<handed, staged, write, written, refused, writable, failed, fetched>> /\ Read
    BY DEF NodeReads, sink, kafka
  <1>2. CASE fetch # <<>>
    <2> PICK a, b, c, d, e \in Nat :
           a <= b /\ b <= c /\ c <= d /\ d <= e /\ e <= fetched /\ Divided(a, b, c, d, e)
      BY Marked
    <2>1. Push(Head(fetch)) /\ (~ ended => fetch' = Tail(fetch))
      BY <1>1, <1>2 DEF Read
    <2>2. fetch \in Seq(Nat) /\ fetched \in Nat /\ fetched' = fetched
      BY <1>1 DEF Types
    <2>3. /\ Piece(fetch, e, fetched)
          /\ ~ Blocked /\ readable = "open" => Whole(Passed, fetch, e, fetched)
      BY DEF Divided
    <2>4. Pushes(fetch, e, fetched)
      BY <1>1, <1>2, <2>1, <2>2, <2>3 DEF Pushes
    <2> QED BY ONLY Types, <2>2, <2>4, PushMoves, a \in Nat, b \in Nat, c \in Nat, d \in Nat,
                    e \in Nat, a <= b, b <= c, c <= d, d <= e, e <= fetched, Divided(a, b, c, d, e)
  <1>3. CASE fetch = <<>>
    <2>1. UNCHANGED <<chunks, fetch, readable>>
      BY <1>1, <1>3 DEF Read
    <2> QED BY <1>1, <2>1, NothingMoves DEF Blocked
  <1> QED BY <1>2, <1>3

LEMMA ConsumeAnswersMoves ==
  ASSUME Types, ReadSide, InLine, ConsumeAnswers
  PROVE  InLine'
  <1> PICK a, b, c, d, e \in Nat :
         a <= b /\ b <= c /\ c <= d /\ d <= e /\ e <= fetched /\ Divided(a, b, c, d, e)
    BY Marked
  <1>1. UNCHANGED <<handed, staged, write, written, refused, writable, failed>>
    BY DEF ConsumeAnswers, sink, kafka
  <1>2. PICK n \in 0 .. Smallest(FetchSize, Messages - fetched) :
          /\ fetched' = fetched + n
          /\ IF Values(fetched, n) = <<>>
             THEN /\ ReadsAgain
                  /\ UNCHANGED <<fetch, chunks, asked, misused, readable, consumer>>
             ELSE /\ Push(Head(Values(fetched, n)))
                  /\ ~ ended => fetch' = Tail(Values(fetched, n))
    BY DEF ConsumeAnswers
  <1> DEFINE hi == fetched + n
             q == Values(fetched, n)
  <1>3. fetched \in Nat /\ n \in Nat /\ hi \in Nat /\ e <= hi /\ e \in 0 .. fetched
        /\ fetched \in e .. hi
    BY DEF Types
  <1>4. /\ q \in Seq(Nat)
        /\ Piece(q, fetched, hi) /\ Whole(Passed, q, fetched, hi)
    BY <1>3, ValuesFound
  <1>5. fetch = <<>> /\ <<>> \in Seq(Nat) /\ <<>> \o q = q
    <2>1. reading /\ consumer = "connected"
      BY DEF ConsumeAnswers
    <2> QED BY <1>4, <2>1, ConcatEmptySeq DEF ReadSide
  <1>6. /\ Piece(<<>>, e, fetched)
        /\ ~ Blocked /\ readable = "open" => Whole(Passed, <<>>, e, fetched)
    BY <1>5 DEF Divided
  <1>7. fetched' = hi
    BY <1>2
  <1>8. IF q = <<>> THEN UNCHANGED <<fetch, chunks, readable>>
        ELSE Push(Head(q)) /\ (~ ended => fetch' = Tail(q))
    BY <1>2
  <1> HIDE DEF hi, q
  <1>9. Piece(q, e, hi) /\ (~ Blocked /\ readable = "open" => Whole(Passed, q, e, hi))
    <2>1. Piece(<<>> \o q, e, hi)
          /\ (Whole(Passed, <<>>, e, fetched) /\ Whole(Passed, q, fetched, hi)
                => Whole(Passed, <<>> \o q, e, hi))
      BY <1>3, <1>4, <1>5, <1>6, JoinPieces
    <2> QED BY <1>4, <1>5, <1>6, <2>1
  <1>10. CASE q # <<>>
    <2>1. Push(Head(q)) /\ (~ ended => fetch' = Tail(q))
      BY <1>8, <1>10
    <2>2. q \in Seq(Nat) /\ hi \in Nat /\ e <= hi
      BY <1>3, <1>4
    <2>3. Pushes(q, e, hi)
      BY <1>1, <1>7, <1>9, <1>10, <2>1, <2>2 DEF Pushes
    <2> QED BY ONLY Types, <2>2, <2>3, PushMoves, a \in Nat, b \in Nat, c \in Nat, d \in Nat,
                    e \in Nat, a <= b, b <= c, c <= d, d <= e, Divided(a, b, c, d, e)
  <1>11. CASE q = <<>>
    <2>1. UNCHANGED <<fetch, chunks, readable>> /\ fetch' = q
      BY <1>5, <1>8, <1>11
    <2>2. Passed' = Passed /\ Blocked' = Blocked
      BY <1>1 DEF Passed, Blocked
    <2>3. Divided(a, b, c, d, e)'
      BY <1>1, <1>7, <1>9, <2>1, <2>2 DEF Divided
    <2> QED BY <1>3, <1>7, <2>3, Lined
  <1> QED BY <1>10, <1>11

(* pipe().                                                                   *)
LEMMA PipeMoves ==
  ASSUME Types, InLine, Pipe
  PROVE  InLine'
  <1> PICK a, b, c, d, e \in Nat :
         a <= b /\ b <= c /\ c <= d /\ d <= e /\ e <= fetched /\ Divided(a, b, c, d, e)
    BY Marked
  <1>1. UNCHANGED <<handed, staged, write, refused, writable, failed, fetch, fetched, readable>>
    BY DEF Pipe, source, sink, kafka, history
  <1>2. /\ chunks # <<>> /\ written' = Append(written, Head(chunks)) /\ chunks' = Tail(chunks)
        /\ readable = "open"
    BY DEF Pipe
  <1>3. Passed' = Passed /\ Blocked' = Blocked /\ fetched \in Nat /\ fetched' = fetched
    BY <1>1 DEF Passed, Blocked, Types
  <1>4. chunks \in Seq(Nat) /\ written \in Seq(Nat) /\ d \in c .. e
    BY DEF Types
  <1>5. /\ Piece(written, c, d) /\ Piece(chunks, d, e)
        /\ ~ Blocked => Whole(Passed, written, c, d) /\ Whole(Passed, chunks, d, e)
    BY <1>2 DEF Divided
  <1>6. PICK m \in d .. e :
         /\ Piece(Append(written, Head(chunks)), c, m) /\ Piece(Tail(chunks), m, e)
         /\ Whole(Passed, chunks, d, e) =>
              /\ Whole(Passed, written, c, d) => Whole(Passed, Append(written, Head(chunks)), c, m)
              /\ Whole(Passed, Tail(chunks), m, e)
    BY ONLY <1>2, <1>4, <1>5, c \in Nat, e \in Nat, PassHead
  <1>7. /\ Piece(written', c, m) /\ Piece(chunks', m, e)
        /\ ~ Blocked' => Whole(Passed', written', c, m) /\ Whole(Passed', chunks', m, e)
    BY <1>2, <1>3, <1>5, <1>6
  <1>8. /\ Piece(handed', 0, a) /\ Whole(Passed', handed', 0, a)
        /\ Piece(staged', a, b) /\ Whole(Passed', staged', a, b)
        /\ Piece(write'.chunks, b, c) /\ Whole(Passed', write'.chunks, b, c)
        /\ Piece(fetch', e, fetched')
        /\ ~ Blocked' /\ readable' = "open" => Whole(Passed', fetch', e, fetched')
    BY <1>1, <1>3 DEF Divided
  <1>9. Divided(a, b, c, m, e)'
    BY <1>7, <1>8 DEF Divided
  <1>10. m \in Nat /\ c <= m /\ m <= e
    OBVIOUS
  <1> QED BY <1>3, <1>9, <1>10, Lined

LEMMA InLineStep ==
  ASSUME StreamsInv, [Next]_vars
  PROVE  InLine'
  <1> USE DEF StreamsInv
  <1>1. CASE ConsumerConnects
    <2>1. UNCHANGED <<handed, staged, refused, write, written, writable, failed, chunks, fetched>>
      BY <1>1 DEF ConsumerConnects, sink, kafka, history, pipe
    <2>2. readable = "open"
      BY <1>1 DEF ConsumerConnects, ReadSide
    <2>3. \/ fetch' = fetch /\ readable' = readable
          \/ fetch' = <<>> /\ readable' # "open"
      BY <1>1, ReadableDestroyed DEF ConsumerConnects
    <2> QED BY <2>1, <2>2, <2>3, NothingMoves DEF Blocked
  <1>2. CASE ConsumeAnswers
    BY <1>2, ConsumeAnswersMoves
  <1>3. CASE Retry
    BY <1>3, NothingMoves DEF Retry, Blocked, source, sink, pipe, kafka, history
  <1>4. CASE ConsumerLeaves
    BY <1>4, NothingMoves DEF ConsumerLeaves, Blocked, source, sink, pipe, kafka, history
  <1>5. CASE NodeReads
    BY <1>5, NodeReadsMoves
  <1>6. CASE Pipe
    BY <1>6, PipeMoves
  <1>7. CASE EndOfReadable
    <2>1. UNCHANGED <<handed, staged, refused, write, written, writable, failed, chunks, fetched>>
      BY <1>7 DEF EndOfReadable, sink, kafka, history
    <2>2. readable' # "open" /\ fetch' = <<>>
      BY <1>7, ReadableDestroyed DEF EndOfReadable
    <2> QED BY <2>1, <2>2, NothingMoves DEF Blocked
  <1>8. CASE WriteNext
    BY <1>8, WriteNextMoves
  <1>9. CASE ProducerConnects
    <2>1. UNCHANGED <<handed, refused, written, chunks, fetch, fetched, readable>>
      BY <1>9 DEF ProducerConnects, source, pipe, history
    <2>2. CASE producer' = "connected" /\ write.at = "ready" /\ writable = "open"
      <3>1. ProduceAll(write.chunks) /\ UNCHANGED <<writable, failed>>
        BY <1>9, <2>2 DEF ProducerConnects
      <3> QED BY <2>1, <2>2, <3>1, ProduceMoves
    <2>3. CASE producer' = "connected" /\ write.at = "ready" /\ writable # "open"
      <3>1. write' = Idle /\ UNCHANGED <<writable, failed, staged>>
        BY <1>9, <2>3 DEF ProducerConnects
      <3>2. write'.chunks = <<>> /\ Blocked'
        BY <2>3, <3>1 DEF Idle, Blocked
      <3> QED BY <2>1, <3>1, <3>2, NothingMoves
    <2>4. CASE producer' = "connected" /\ write.at # "ready"
      <3>1. UNCHANGED <<write, writable, failed, staged>>
        BY <1>9, <2>4 DEF ProducerConnects
      <3> QED BY <2>1, <3>1, NothingMoves DEF Blocked
    <2>5. CASE producer' # "connected"
      <3>1. writable' = "closed" /\ UNCHANGED <<write, staged>>
        BY <1>9, <2>5 DEF ProducerConnects
      <3> QED BY <2>1, <3>1, NothingMoves DEF Blocked
    <2> QED BY <2>2, <2>3, <2>4, <2>5
  <1>10. CASE WriteGoesOn
    <2>1. UNCHANGED <<handed, refused, written, chunks, fetch, fetched, readable>>
      BY <1>10, WriteGoesOnCases DEF source, pipe, history
    <2>2. CASE /\ \E ok \in BOOLEAN : Answered(ok) /\ (ok <=> write.at = "done")
               /\ write.at \in {"done", "error", "backoff"} /\ UNCHANGED staged
      <3>1. PICK ok \in BOOLEAN : Answered(ok) /\ (ok <=> write.at = "done")
        BY <2>2
      <3>2. /\ write' = Idle /\ write'.chunks = <<>>
            /\ writable # "open" => writable' # "open"
            /\ failed => failed'
            /\ ~ ok => failed'
        BY <3>1, AnsweredTypes DEF Idle
      <3>3. Blocked => Blocked'
        BY <3>1, <3>2 DEF Blocked
      <3>4. write.chunks = <<>> \/ Blocked'
        BY <3>1, <3>2 DEF WriteSide, Blocked
      <3> QED BY <2>1, <2>2, <3>2, <3>3, <3>4, NothingMoves
    <2>3. CASE /\ write.at = "backoff" /\ ProduceAll(write.chunks)
               /\ UNCHANGED <<failed, writable, producer>>
      BY <2>1, <2>3, ProduceMoves
    <2> QED BY <1>10, <2>2, <2>3, WriteGoesOnCases
  <1>11. CASE Finish
    <2>1. writable' # "open"
      BY <1>11, DestroyTypes DEF Finish
    <2> QED BY <1>11, <2>1, NothingMoves DEF Finish, Blocked, source, pipe, kafka, history
  <1>12. CASE HandsOver
    BY <1>12, HandOverMoves
  <1>13. CASE Deliver
    BY <1>13, NothingMoves DEF Deliver, Blocked, source, sink, pipe, history
  <1>14. CASE FlushEnds
    BY <1>14, NothingMoves DEF FlushEnds, Blocked, source, pipe, kafka
  <1>15. CASE ProducerLeaves
    BY <1>15, NothingMoves DEF ProducerLeaves, Blocked, source, pipe
  <1>16. CASE Unsubscribe
    BY <1>16, NothingMoves DEF Unsubscribe, Blocked, source, sink, kafka, history
  <1>17. CASE CloseReadable
    <2>1. UNCHANGED <<handed, staged, refused, write, written, writable, failed, fetched>>
      BY <1>17 DEF CloseReadable, sink, kafka, history
    <2>2. readable' # "open" /\ fetch' = <<>> /\ chunks' = <<>>
      BY <1>17, ReadableDestroyed DEF CloseReadable
    <2> QED BY <2>1, <2>2, NothingMoves DEF Blocked
  <1>18. CASE DestroyWritable
    <2>1. writable' # "open"
      BY <1>18, DestroyTypes DEF DestroyWritable
    <2> QED BY <1>18, <2>1, NothingMoves DEF DestroyWritable, Blocked, source, pipe, kafka, history
  <1>19. CASE CloseWritable
    <2>1. writable' # "open"
      BY <1>19, DestroyTypes, TeardownTypes DEF CloseWritable
    <2> QED BY <1>19, <2>1, NothingMoves DEF CloseWritable, Blocked, source, pipe, kafka, history
  <1>20. CASE UNCHANGED vars
    BY <1>20, NothingMoves DEF vars, Blocked, source, sink, pipe, kafka, history
  <1> QED BY <1>1, <1>2, <1>3, <1>4, <1>5, <1>6, <1>7, <1>8, <1>9, <1>10, <1>11, <1>12, <1>13,
             <1>14, <1>15, <1>16, <1>17, <1>18, <1>19, <1>20
          DEF Next, ConsumerSide, Node, ProducerSide, Kafka, Application

-----------------------------------------------------------------------------
(* The theorems.                                                             *)

LEMMA InvHolds == Spec => []StreamsInv
  <1>1. Init => StreamsInv
    <2> SUFFICES ASSUME Init PROVE StreamsInv
      OBVIOUS
    <2>1. <<>> \in Seq(Nat) /\ IsFiniteSet({}) /\ Cardinality({}) = 0 /\ Len(<<>>) = 0
      BY FS_EmptySet
    <2>2. /\ write = Idle
          /\ write \in [at : {"idle", "ready", "backoff", "done", "error"}, chunks : Seq(Nat)]
      BY <2>1 DEF Init, Idle
    <2>3. Types
      BY <2>1, <2>2 DEF Init, Types
    <2>4. ReadSide
      BY DEF Init, ReadSide
    <2>5. WriteSide
      BY <2>2 DEF Init, WriteSide, Idle
    <2>6. Kept
      BY <2>1, BoundsAssumption DEF Init, Kept, Ledger
    <2>7. InLine
      <3>1. Piece(<<>>, 0, 0) /\ Whole(Passed, <<>>, 0, 0)
        BY EmptyPiece
      <3>2. Divided(0, 0, 0, 0, 0)
        BY <2>2, <3>1 DEF Init, Divided, Idle
      <3>3. fetched = 0 /\ 0 \in 0 .. 0
        BY DEF Init
      <3> QED BY <3>2, <3>3 DEF InLine
    <2> QED BY <2>3, <2>4, <2>5, <2>6, <2>7 DEF StreamsInv
  <1>2. StreamsInv /\ [Next]_vars => StreamsInv'
    BY TypesStep, ReadSideStep, WriteSideStep, KeptStep, InLineStep DEF StreamsInv
  <1> QED BY <1>1, <1>2, PTL DEF Spec

(* The ledger stays within js.producer.max.pending, and the ConsumerStream   *)
(* waits for one thing at a time, asked for.                                 *)
THEOREM TypeCorrect == Spec => []TypeOK
  <1>1. StreamsInv => TypeOK
    <2> SUFFICES ASSUME StreamsInv PROVE TypeOK
      OBVIOUS
    <2>1. write.at \in {"idle", "ready", "backoff", "done", "error"}
      BY DEF StreamsInv, Types
    <2> QED BY <2>1 DEF StreamsInv, Types, ReadSide, Kept, TypeOK
  <1> QED BY <1>1, InvHolds, PTL

(* librdkafka takes what the consumer found in order, and passes over only   *)
(* tombstones and what it refused.  (_read(), #produceAll().)                *)
THEOREM HandedInOrderAlways == Spec => []HandedInOrder
  <1>1. StreamsInv => HandedInOrder
    <2> SUFFICES ASSUME StreamsInv, NEW i \in DOMAIN handed
                 PROVE  LET last == IF i = 1 THEN 0 ELSE handed[i - 1]
                        IN  last < handed[i] /\ (last + 1) .. (handed[i] - 1) \subseteq Passed
      BY DEF HandedInOrder
    <2> PICK a, b, c, d, e \in Nat :
           a <= b /\ b <= c /\ c <= d /\ d <= e /\ e <= fetched /\ Divided(a, b, c, d, e)
      BY Marked DEF StreamsInv
    <2>1. handed \in Seq(Nat) /\ Piece(handed, 0, a) /\ Whole(Passed, handed, 0, a)
      BY DEF StreamsInv, Types, Divided
    <2>2. DOMAIN handed = 1 .. Len(handed) /\ Len(handed) \in Nat
      BY <2>1, LenProperties
    <2>3. /\ \A j, k \in 1 .. Len(handed) : j < k => handed[j] < handed[k]
          /\ \A j \in 1 .. Len(handed) : handed[j] \in 1 .. a
          /\ \A n \in 1 .. a : n \in Passed \/ (\E j \in 1 .. Len(handed) : n = handed[j])
      <3>1. ToSet(handed) = {handed[j] : j \in 1 .. Len(handed)} /\ 0 + 1 = 1
        BY <2>1, ValuesOf
      <3> QED BY <2>1, <3>1 DEF Piece, Whole, Rising
    <2> DEFINE last == IF i = 1 THEN 0 ELSE handed[i - 1]
    <2>4. last \in Nat /\ last < handed[i] /\ handed[i] \in 1 .. a
          /\ \A j \in 1 .. Len(handed) : j < i => handed[j] <= last
      <3>1. CASE i = 1
        BY <2>2, <2>3, <3>1
      <3>2. CASE i # 1
        <4>1. i - 1 \in 1 .. Len(handed) /\ i - 1 < i /\ last = handed[i - 1]
          BY <2>2, <3>2
        <4>2. ASSUME NEW j \in 1 .. Len(handed), j < i PROVE handed[j] <= handed[i - 1]
          <5>1. j = i - 1 \/ j < i - 1
            BY <2>2, <4>2
          <5> QED BY <2>3, <4>1, <5>1
        <4> QED BY <2>2, <2>3, <4>1, <4>2
      <3> QED BY <3>1, <3>2
    <2> HIDE DEF last
    <2>5. ASSUME NEW n \in (last + 1) .. (handed[i] - 1) PROVE n \in Passed
      <3>1. n \in 1 .. a /\ last < n /\ n < handed[i]
        BY <2>4
      <3>2. ASSUME NEW j \in 1 .. Len(handed), n = handed[j] PROVE FALSE
        <4>1. CASE j < i
          BY <2>4, <3>1, <3>2, <4>1
        <4>2. CASE j = i
          BY <2>4, <3>1, <3>2, <4>2
        <4>3. CASE j > i
          <5>1. handed[i] < handed[j]
            BY <2>2, <2>3, <4>3
          <5> QED BY <2>4, <3>1, <3>2, <5>1
        <4> QED BY <2>2, <4>1, <4>2, <4>3
      <3> QED BY <2>3, <3>1, <3>2
    <2> QED BY <2>4, <2>5 DEF last
  <1> QED BY <1>1, InvHolds, PTL

(* A closed stream has let go of its client, and a report is dropped only    *)
(* when the flush before the disconnect timed out.  (_destroy(),             *)
(* #teardown(), close(), disconnect().)                                      *)
THEOREM EndsCleanAlways == Spec => []EndsClean
  <1>1. StreamsInv => Released
    BY DEF StreamsInv, ReadSide, WriteSide, Released
  <1>2. StreamsInv => NothingDropped
    BY DEF StreamsInv, Kept, NothingDropped
  <1>3. StreamsInv => EndsClean
    BY <1>1, <1>2 DEF EndsClean
  <1> QED BY <1>3, InvHolds, PTL
=============================================================================
