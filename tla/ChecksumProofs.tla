--------------------------- MODULE ChecksumProofs ---------------------------
(***************************************************************************)
(* What the two loops of checksum16 compute, and what checksum_peso makes  *)
(* of it, for every width of the words and every packet: the lemmas that   *)
(* the theorems about the wire and about the stack rest on.                *)
(*                                                                         *)
(* The loops are shown by induction: a set of natural numbers that is not  *)
(* empty has a least element (NatMin), so that a property that passes from *)
(* n - 1 to n has no first exception.                                      *)
(***************************************************************************)
EXTENDS Checksum, SequenceTheorems, WellFoundedInduction, TLAPS

M == Base - 1

LEMMA MType == Base \in Nat /\ M \in Nat /\ M > 1 /\ Base = M + 1
BY BaseAssumption DEF M
-----------------------------------------------------------------------------
(***************************************************************************)
(* Induction, and arithmetic modulo M.                                     *)
(***************************************************************************)
LEMMA NatMin ==
    ASSUME NEW T \in SUBSET Nat, T # {}
    PROVE  \E n \in T : \A m \in T : n <= m
<1> DEFINE R == OpToRel(<,Nat)
<1>1. IsWellFoundedOn(R, Nat)
  BY NatLessThanWellFounded
<1>2. PICK n \in T : \A m \in T : ~ (<<m, n>> \in R)
  <2> HIDE DEF R
  <2> QED
    BY <1>1, WFMin
<1>3. \A m \in T : m < n => <<m, n>> \in R
  BY DEF OpToRel
<1> HIDE DEF R
<1>4. \A m \in T : ~ (m < n)
  BY <1>2, <1>3
<1> QED
  BY <1>4

LEMMA DivMod ==
    ASSUME NEW m \in Nat, m > 1, NEW a \in Nat
    PROVE  /\ a % m \in 0 .. m - 1 /\ a \div m \in Nat
           /\ a = m * (a \div m) + (a % m)
OBVIOUS

LEMMA ModUnique ==
    ASSUME NEW m \in Nat, m > 1, NEW q \in Nat, NEW r \in 0 .. m - 1
    PROVE  (m * q + r) % m = r
OBVIOUS

LEMMA ModMult ==
    ASSUME NEW m \in Nat, m > 1, NEW a \in Nat, NEW q \in Nat
    PROVE  (a + m * q) % m = a % m
<1> DEFINE d == a \div m
           r == a % m
<1>1. r \in 0 .. m - 1 /\ d \in Nat /\ a = m * d + r
  BY DivMod
<1> HIDE DEF d, r
<1>2. a + m * q = m * (d + q) + r /\ d + q \in Nat
  BY <1>1
<1>3. (m * (d + q) + r) % m = r
  BY <1>1, <1>2, ModUnique
<1> QED
  BY <1>2, <1>3 DEF r

\* Equal in the arithmetic of the checksums.
Same(a, b) == \E k \in Int : a - b = k * M

LEMMA SameSum ==
    ASSUME NEW a \in Int, NEW b \in Int, NEW c \in Int, NEW d \in Int,
           Same(a, b), Same(c, d)
    PROVE  Same(a + c, b + d) /\ Same(a - c, b - d)
<1>1. PICK j \in Int : a - b = j * M
  BY DEF Same
<1>2. PICK k \in Int : c - d = k * M
  BY DEF Same
<1>3. (a + c) - (b + d) = (j + k) * M /\ (a - c) - (b - d) = (j - k) * M
      /\ j + k \in Int /\ j - k \in Int
  BY <1>1, <1>2, MType
<1> QED
  BY <1>3 DEF Same

LEMMA SameSelf == ASSUME NEW a \in Int PROVE Same(a, a) /\ Same(M, 0)
<1>1. a - a = 0 * M /\ M - 0 = 1 * M
  BY MType
<1> QED
  BY <1>1 DEF Same

LEMMA SameStep ==
    ASSUME NEW a \in Int, NEW b \in Int, NEW c \in Int, NEW d \in Int,
           Same(a, b + c), Same(b, d)
    PROVE  Same(a, d + c)
<1>1. PICK j \in Int : a - (b + c) = j * M
  BY DEF Same
<1>2. PICK k \in Int : b - d = k * M
  BY DEF Same
<1>3. a - (d + c) = (j + k) * M /\ j + k \in Int
  BY <1>1, <1>2, MType
<1> QED
  BY <1>3 DEF Same

LEMMA SameNot ==
    ASSUME NEW a \in Int, NEW b \in Int, Same(a, b)
    PROVE  Same((M - a) + b, 0)
<1>1. PICK j \in Int : a - b = j * M
  BY DEF Same
<1>2. ((M - a) + b) - 0 = (1 - j) * M /\ 1 - j \in Int
  BY <1>1, MType
<1> QED
  BY <1>2 DEF Same

LEMMA SameDiff ==
    ASSUME NEW a \in Int, NEW b \in Int, NEW c \in Int,
           Same(a + c, 0), Same(b + c, 0)
    PROVE  Same(a, b)
<1>1. PICK j \in Int : (a + c) - 0 = j * M
  BY DEF Same
<1>2. PICK k \in Int : (b + c) - 0 = k * M
  BY DEF Same
<1>3. a - b = (j - k) * M /\ j - k \in Int
  BY <1>1, <1>2, MType
<1> QED
  BY <1>3 DEF Same

\* Two words that are the same are equal, or the two zeroes.
LEMMA SameWords ==
    ASSUME NEW v \in Word, NEW w \in Word, Same(v, w)
    PROVE  v = w \/ (v = 0 /\ w = M) \/ (v = M /\ w = 0)
<1>1. PICK k \in Int : v - w = k * M
  BY DEF Same
<1>2. v \in 0 .. M /\ w \in 0 .. M
  BY MType DEF Word
<1>3. k \in {-1, 0, 1}
  <2>1. -M <= k * M /\ k * M <= M
    BY <1>1, <1>2, MType
  <2>2. ASSUME k >= 2 PROVE FALSE
    <3>1. (k - 2) * M >= 0 /\ k * M = (k - 2) * M + M + M
      BY <2>2, MType
    <3> QED
      BY <3>1, <2>1, MType
  <2>3. ASSUME k <= -2 PROVE FALSE
    <3>1. (-2 - k) * M >= 0 /\ k * M = - ((-2 - k) * M) - M - M
      BY <2>3, MType
    <3> QED
      BY <3>1, <2>1, MType
  <2> QED
    BY <2>2, <2>3
<1>4. CASE k = 0
  <2>1. v = w
    BY <1>1, <1>2, <1>4, MType
  <2> QED
    BY <2>1
<1>5. CASE k = 1
  <2>1. v = M /\ w = 0
    BY <1>1, <1>2, <1>5, MType
  <2> QED
    BY <2>1
<1>6. CASE k = -1
  <2>1. v = 0 /\ w = M
    BY <1>1, <1>2, <1>6, MType
  <2> QED
    BY <2>1
<1> QED
  BY <1>3, <1>4, <1>5, <1>6

LEMMA SameMod == ASSUME NEW a \in Nat PROVE (a % M = 0) <=> Same(a, 0)
<1>1. a % M \in 0 .. M - 1 /\ a \div M \in Nat /\ a = M * (a \div M) + (a % M)
  BY DivMod, MType
<1>2. ASSUME a % M = 0 PROVE Same(a, 0)
  <2> DEFINE q == a \div M
  <2>1. q \in Int /\ a - 0 = q * M
    BY <1>1, <1>2, MType
  <2> QED
    BY <2>1 DEF Same
<1>3. ASSUME Same(a, 0) PROVE a % M = 0
  <2>1. PICK k \in Int : a - 0 = k * M
    BY <1>3 DEF Same
  <2>2. k >= 0
    <3>1. ASSUME k <= -1 PROVE FALSE
      <4>1. (-1 - k) * M >= 0 /\ k * M = - ((-1 - k) * M) - M
        BY <3>1, MType
      <4> QED
        BY <4>1, <2>1, MType
    <3> QED
      BY <3>1
  <2>3. a = M * k + 0 /\ k \in Nat /\ 0 \in 0 .. M - 1
    BY <2>1, <2>2, MType
  <2>4. (M * k + 0) % M = 0
    BY <2>3, ModUnique, MType
  <2> QED
    BY <2>3, <2>4
<1> QED
  BY <1>2, <1>3
-----------------------------------------------------------------------------
(***************************************************************************)
(* The loop that adds the carries.                                         *)
(***************************************************************************)
\* What the loop comes to: a word that is the same as the sum, and zero only
\* if the sum is.
Folded == [sum \in Nat |-> IF sum = 0 THEN 0 ELSE 1 + ((sum - 1) % M)]

\* One round replaces Base * h + r by h + r, which is smaller and the same.
LEMMA Round ==
    ASSUME NEW sum \in Nat, sum >= Base
    PROVE  LET next == (sum \div Base) + (sum % Base)
           IN  /\ next \in Nat /\ 0 < next /\ next < sum
               /\ \E q \in Nat : sum = next + M * q
<1> DEFINE h == sum \div Base
           r == sum % Base
<1>0. Base \in Nat /\ Base > 1
  BY MType
<1>1. h \in Nat /\ r \in 0 .. Base - 1 /\ sum = Base * h + r
  BY <1>0, DivMod
<1> HIDE DEF h, r
<1>2. h # 0
  BY <1>1, MType
<1>3. sum = (h + r) + M * h
  BY <1>1, MType
<1>4. M * h >= 1
  <2>1. M * h = h + (M - 1) * h /\ (M - 1) * h >= 0
    BY <1>1, MType
  <2> QED
    BY <2>1, <1>1, <1>2, MType
<1>5. h + r \in Nat /\ 0 < h + r /\ h + r < sum
  BY <1>1, <1>2, <1>3, <1>4, MType
<1> QED
  BY <1>1, <1>3, <1>5 DEF h, r

LEMMA FoldedRound ==
    Folded = [sum \in Nat |->
                IF sum < Base THEN sum ELSE Folded[(sum \div Base) + (sum % Base)]]
<1> SUFFICES ASSUME NEW sum \in Nat
             PROVE  Folded[sum] = IF sum < Base THEN sum
                                  ELSE Folded[(sum \div Base) + (sum % Base)]
  BY DEF Folded
<1>1. CASE sum = 0
  BY <1>1, MType DEF Folded
<1>2. CASE sum > 0 /\ sum < Base
  <2>1. sum - 1 \in 0 .. M - 1 /\ sum - 1 = M * 0 + (sum - 1)
    BY <1>2, MType
  <2>2. (M * 0 + (sum - 1)) % M = sum - 1
    BY <2>1, ModUnique, MType
  <2> QED
    BY <1>2, <2>1, <2>2, MType DEF Folded
<1>3. CASE sum >= Base
  <2> DEFINE next == (sum \div Base) + (sum % Base)
  <2>1. next \in Nat /\ 0 < next /\ next < sum
    BY <1>3, Round
  <2>2. PICK q \in Nat : sum = next + M * q
    BY <1>3, Round
  <2> HIDE DEF next
  <2>3. sum - 1 = (next - 1) + M * q /\ next - 1 \in Nat
    BY <2>1, <2>2, MType
  <2>4. ((next - 1) + M * q) % M = (next - 1) % M
    BY <2>3, ModMult, MType
  <2>5. Folded[sum] = Folded[next]
    BY <2>1, <2>3, <2>4, <1>3, MType DEF Folded
  <2> QED
    BY <2>5, <1>3, MType DEF next
<1> QED
  BY <1>1, <1>2, <1>3, MType

LEMMA AddCarryRound ==
    AddCarry = [sum \in Nat |->
                  IF sum < Base THEN sum ELSE AddCarry[(sum \div Base) + (sum % Base)]]
<1>1. \E f : f = [sum \in Nat |->
                   IF sum < Base THEN sum ELSE f[(sum \div Base) + (sum % Base)]]
  BY FoldedRound
<1> QED
  BY <1>1 DEF AddCarry

\* The loop ends, whatever the sum is, and Folded is its result.
LEMMA AddCarryIsFolded == ASSUME NEW sum \in Nat PROVE AddCarry[sum] = Folded[sum]
<1> DEFINE T == {n \in Nat : AddCarry[n] # Folded[n]}
<1>1. ASSUME T # {} PROVE FALSE
  <2>1. PICK n \in T : \A m \in T : n <= m
    BY <1>1, NatMin
  <2> DEFINE next == (n \div Base) + (n % Base)
  <2>2. AddCarry[n] = (IF n < Base THEN n ELSE AddCarry[next])
    BY AddCarryRound
  <2>3. Folded[n] = (IF n < Base THEN n ELSE Folded[next])
    BY FoldedRound
  <2>4. n >= Base
    BY <2>1, <2>2, <2>3, MType
  <2>5. next \in Nat /\ next < n
    BY <2>4, Round
  <2> HIDE DEF next
  <2>6. next \notin T
    BY <2>1, <2>5
  <2> QED
    BY <2>1, <2>2, <2>3, <2>5, <2>6
<1> QED
  BY <1>1

LEMMA CarriedIs ==
    ASSUME NEW sum \in Nat
    PROVE  /\ Carried(sum) \in Word /\ Same(Carried(sum), sum)
           /\ Carried(sum) = 0 <=> sum = 0
<1>1. Carried(sum) = IF sum = 0 THEN 0 ELSE 1 + ((sum - 1) % M)
  BY AddCarryIsFolded DEF Carried, Folded
<1>2. CASE sum = 0
  BY <1>1, <1>2, SameSelf, MType DEF Word
<1>3. CASE sum > 0
  <2> DEFINE r == (sum - 1) % M
             q == (sum - 1) \div M
  <2>0. M \in Nat /\ M > 1 /\ sum - 1 \in Nat
    BY <1>3, MType
  <2>1. r \in 0 .. M - 1 /\ q \in Nat /\ sum - 1 = M * q + r
    BY <2>0, DivMod
  <2>2. Carried(sum) = 1 + r
    BY <1>1, <1>3
  <2> HIDE DEF r, q
  <2>3. Carried(sum) - sum = (0 - q) * M /\ 0 - q \in Int
    BY <2>1, <2>2, MType
  <2>4. Carried(sum) \in 1 .. M
    BY <2>1, <2>2, MType
  <2> QED
    BY <2>3, <2>4, <1>3, MType DEF Word, Same
<1> QED
  BY <1>2, <1>3
-----------------------------------------------------------------------------
(***************************************************************************)
(* The loop that adds the words.                                           *)
(***************************************************************************)
LEMMA SumsRound ==
    ASSUME NEW buf \in Seq(Word)
    PROVE  Sums(buf) = [n \in 0 .. Len(buf) |->
                          IF n = 0 THEN 0 ELSE Sums(buf)[n - 1] + buf[n]]
<1> DEFINE Is(f, k) == f = [n \in 0 .. k |-> IF n = 0 THEN 0 ELSE f[n - 1] + buf[n]]
           T == {k \in Nat : ~ \E f : Is(f, k)}
<1>1. ASSUME T # {} PROVE FALSE
  <2>1. PICK k \in T : \A m \in T : k <= m
    BY <1>1, NatMin
  <2>2. CASE k = 0
    <3>1. Is([n \in 0 .. 0 |-> 0], 0)
      OBVIOUS
    <3> QED
      BY <2>1, <2>2, <3>1
  <2>3. CASE k > 0
    <3>1. k - 1 \in Nat /\ k - 1 \notin T
      <4> HIDE DEF Is
      <4>1. k \in Nat
        OBVIOUS
      <4> HIDE DEF T
      <4> QED
        BY <2>1, <2>3, <4>1
    <3>2. PICK f : Is(f, k - 1)
      BY <3>1
    <3> DEFINE g == [n \in 0 .. k |-> IF n = k THEN f[k - 1] + buf[k] ELSE f[n]]
    <3>3. Is(g, k)
      <4>1. \A n \in 0 .. k : g[n] = IF n = 0 THEN 0 ELSE g[n - 1] + buf[n]
        <5> SUFFICES ASSUME NEW n \in 0 .. k
                     PROVE  g[n] = IF n = 0 THEN 0 ELSE g[n - 1] + buf[n]
          OBVIOUS
        <5>1. CASE n = k
          BY <5>1, <2>3
        <5>2. CASE n < k
          <6>1. n \in 0 .. k - 1
            BY <5>2
          <6>2. f[n] = IF n = 0 THEN 0 ELSE f[n - 1] + buf[n]
            BY <6>1, <3>2
          <6>3. n # 0 => n - 1 \in 0 .. k /\ n - 1 # k
            BY <5>2
          <6> QED
            BY <6>2, <6>3, <5>2
        <5> QED
          BY <5>1, <5>2
      <4> QED
        BY <4>1
    <3> HIDE DEF g, Is
    <3> QED
      BY <2>1, <3>3
  <2> QED
    BY <2>1, <2>2, <2>3
<1>2. Len(buf) \in Nat
  BY LenProperties
<1>3. \E f : Is(f, Len(buf))
  BY <1>1, <1>2
<1> QED
  BY <1>3 DEF Sums

LEMMA SumsType ==
    ASSUME NEW a \in Seq(Word), NEW k \in 0 .. Len(a) PROVE Sums(a)[k] \in Nat
<1> DEFINE T == {n \in Nat : n <= Len(a) /\ Sums(a)[n] \notin Nat}
<1>0. Len(a) \in Nat
  BY LenProperties
<1>1. ASSUME T # {} PROVE FALSE
  <2>1. PICK n \in T : \A m \in T : n <= m
    BY <1>1, NatMin
  <2>2. Sums(a)[n] = (IF n = 0 THEN 0 ELSE Sums(a)[n - 1] + a[n])
    BY <1>0, <2>1, SumsRound
  <2>3. n > 0
    BY <2>1, <2>2
  <2>4. n - 1 \in Nat /\ n - 1 <= Len(a) /\ n - 1 \notin T /\ n \in 1 .. Len(a)
    BY <1>0, <2>1, <2>3
  <2>5. a[n] \in Nat
    BY <2>4, ElementOfSeq, MType DEF Word
  <2> QED
    BY <2>1, <2>2, <2>3, <2>4, <2>5
<1> QED
  BY <1>0, <1>1

\* Two packets that are equal but for the word at d.
LEMMA SumsDiffer ==
    ASSUME NEW a \in Seq(Word), NEW b \in Seq(Word), NEW k \in Nat,
           k <= Len(a), k <= Len(b), NEW d \in Nat,
           \A i \in 1 .. k : i # d => a[i] = b[i]
    PROVE  Sums(b)[k] = Sums(a)[k] + (IF d \in 1 .. k THEN b[d] - a[d] ELSE 0)
<1> DEFINE Gap(n) == IF d \in 1 .. n THEN b[d] - a[d] ELSE 0
           T == {n \in Nat : n <= k /\ Sums(b)[n] # Sums(a)[n] + Gap(n)}
<1>0. Len(a) \in Nat /\ Len(b) \in Nat
  BY LenProperties
<1>2. ASSUME NEW n \in Nat, n <= k PROVE Gap(n) \in Int
  <2>1. CASE d \in 1 .. n
    <3>1. d \in 1 .. Len(a) /\ d \in 1 .. Len(b)
      BY <1>0, <1>2, <2>1
    <3>2. a[d] \in Word /\ b[d] \in Word
      BY <3>1, ElementOfSeq
    <3> QED
      BY <2>1, <3>2, MType DEF Word
  <2> QED
    BY <2>1
<1>1. ASSUME T # {} PROVE FALSE
  <2>1. PICK n \in T : \A m \in T : n <= m
    BY <1>1, NatMin
  <2>2. Sums(a)[n] = (IF n = 0 THEN 0 ELSE Sums(a)[n - 1] + a[n])
    BY <1>0, <2>1, SumsRound
  <2>3. Sums(b)[n] = (IF n = 0 THEN 0 ELSE Sums(b)[n - 1] + b[n])
    BY <1>0, <2>1, SumsRound
  <2>4. CASE n = 0
    BY <2>1, <2>2, <2>3, <2>4
  <2>5. CASE n > 0
    <3>1. n - 1 \in Nat /\ n - 1 <= k /\ n - 1 \notin T
      BY <2>1, <2>5
    <3>2. Sums(a)[n - 1] \in Nat /\ Sums(b)[n - 1] = Sums(a)[n - 1] + Gap(n - 1)
      BY <3>1, <1>0, SumsType
    <3>3. n \in 1 .. Len(a) /\ n \in 1 .. Len(b) /\ n \in 1 .. k
      BY <1>0, <2>1, <2>5
    <3>4. a[n] \in Word /\ b[n] \in Word
      BY <3>3, ElementOfSeq
    <3>5. a[n] \in Nat /\ b[n] \in Nat
      BY <3>4, MType DEF Word
    <3>6. Gap(n) = Gap(n - 1) + (b[n] - a[n])
      <4>1. CASE d = n
        BY <4>1, <3>5, <2>5
      <4>2. CASE d # n
        <5>1. a[n] = b[n]
          BY <4>2, <3>3
        <5>2. d \in 1 .. n <=> d \in 1 .. n - 1
          BY <4>2, <3>3
        <5>3. Gap(n) = Gap(n - 1) /\ b[n] - a[n] = 0
          BY <5>1, <5>2, <3>5
        <5>4. Gap(n - 1) \in Int
          BY <1>2, <3>1
        <5> QED
          BY <5>3, <5>4
      <4> QED
        BY <4>1, <4>2
    <3>7. Gap(n - 1) \in Int
      BY <1>2, <3>1
    <3> HIDE DEF Gap
    <3>8. Sums(a)[n] = Sums(a)[n - 1] + a[n] /\ Sums(b)[n] = Sums(b)[n - 1] + b[n]
      BY <2>2, <2>3, <2>5
    <3>9. Sums(b)[n] = Sums(a)[n] + Gap(n)
      BY <3>2, <3>5, <3>6, <3>7, <3>8, SMTT(30)
    <3> QED
      BY <2>1, <3>9
  <2> QED
    BY <2>1, <2>4, <2>5
<1> QED
  BY <1>1

LEMMA TotalType == ASSUME NEW buf \in Seq(Word) PROVE Total(buf) \in Nat
<1>1. Len(buf) \in 0 .. Len(buf)
  BY LenProperties
<1> QED
  BY <1>1, SumsType DEF Total

\* A packet with one word changed.
LEMMA TotalChanged ==
    ASSUME NEW buf \in Seq(Word), NEW i \in 1 .. Len(buf), NEW w \in Word
    PROVE  LET changed == [buf EXCEPT ![i] = w]
           IN  /\ changed \in Seq(Word) /\ Len(changed) = Len(buf)
               /\ \A j \in 1 .. Len(buf) : changed[j] = IF j = i THEN w ELSE buf[j]
               /\ Total(changed) = Total(buf) + (w - buf[i])
<1> DEFINE changed == [buf EXCEPT ![i] = w]
<1>1. changed \in Seq(Word) /\ Len(changed) = Len(buf)
      /\ \A j \in 1 .. Len(buf) : changed[j] = IF j = i THEN w ELSE buf[j]
  BY ExceptSeq
<1>2. Len(buf) \in Nat /\ i \in Nat
  BY LenProperties
<1> HIDE DEF changed
<1>3. \A j \in 1 .. Len(buf) : j # i => buf[j] = changed[j]
  BY <1>1
<1>4. Sums(changed)[Len(buf)] = Sums(buf)[Len(buf)] + (changed[i] - buf[i])
  BY <1>1, <1>2, <1>3, SumsDiffer
<1>5. changed[i] = w
  BY <1>1
<1>6. Total(changed) = Total(buf) + (w - buf[i])
  BY <1>1, <1>4, <1>5 DEF Total
<1> QED
  BY <1>1, <1>6 DEF changed

LEMMA TotalAtLeast ==
    ASSUME NEW buf \in Seq(Word), NEW i \in 1 .. Len(buf)
    PROVE  Total(buf) >= buf[i] /\ buf[i] \in Nat
<1> DEFINE changed == [buf EXCEPT ![i] = 0]
<1>1. 0 \in Word /\ buf[i] \in Word
  BY ElementOfSeq, MType DEF Word
<1>2. changed \in Seq(Word) /\ Total(changed) = Total(buf) + (0 - buf[i])
  BY <1>1, TotalChanged
<1> HIDE DEF changed
<1>3. Total(changed) \in Nat /\ Total(buf) \in Nat /\ buf[i] \in Nat
  BY <1>1, <1>2, TotalType, MType DEF Word
<1> QED
  BY <1>2, <1>3

\* The first k words alone; a sum does not look behind them.
LEMMA SumsPrefix ==
    ASSUME NEW a \in Seq(Word), NEW b \in Seq(Word), NEW k \in Nat,
           k <= Len(a), k <= Len(b), \A i \in 1 .. k : a[i] = b[i]
    PROVE  Sums(b)[k] = Sums(a)[k]
<1>0. Sums(a)[k] \in Nat
  BY SumsType, LenProperties
<1>1. \A i \in 1 .. k : i # 0 => a[i] = b[i]
  OBVIOUS
<1>2. 0 \notin 1 .. k
  OBVIOUS
<1>3. Sums(b)[k] = Sums(a)[k] + (IF 0 \in 1 .. k THEN b[0] - a[0] ELSE 0)
  BY <1>1, SumsDiffer
<1> QED
  BY <1>0, <1>2, <1>3

LEMMA TotalPrefix ==
    ASSUME NEW buf \in Seq(Word), NEW k \in 0 .. Len(buf)
    PROVE  SubSeq(buf, 1, k) \in Seq(Word) /\ Total(SubSeq(buf, 1, k)) = Sums(buf)[k]
<1> DEFINE s == SubSeq(buf, 1, k)
<1>1. Len(buf) \in Nat
  BY LenProperties
<1>2. s \in Seq(Word) /\ Len(s) = k /\ \A i \in 1 .. k : s[i] = buf[i]
  BY <1>1, SubSeqProperties
<1> HIDE DEF s
<1>3. Sums(s)[k] = Sums(buf)[k]
  BY <1>1, <1>2, SumsPrefix
<1> QED
  BY <1>2, <1>3 DEF Total, s

LEMMA TotalOne == ASSUME NEW w \in Word PROVE <<w>> \in Seq(Word) /\ Total(<<w>>) = w
<1> DEFINE s == <<w>>
<1>1. s \in Seq(Word) /\ Len(s) = 1 /\ s[1] = w
  OBVIOUS
<1> HIDE DEF s
<1>2. Sums(s)[0] = 0
  BY <1>1, SumsRound
<1>3. Sums(s)[1] = Sums(s)[1 - 1] + s[1]
  BY <1>1, SumsRound
<1>4. Total(s) = w
  BY <1>1, <1>2, <1>3, MType DEF Total, Word
<1> QED
  BY <1>1, <1>4 DEF s

\* Zeroes behind a packet change no sum.
LEMMA TotalPadded ==
    ASSUME NEW buf \in Seq(Word), NEW n \in Nat
    PROVE  LET padded == buf \o [i \in 1 .. n |-> 0]
           IN  /\ padded \in Seq(Word) /\ Len(padded) = Len(buf) + n
               /\ \A i \in 1 .. Len(buf) : padded[i] = buf[i]
               /\ Total(padded) = Total(buf)
<1> DEFINE zeroes == [i \in 1 .. n |-> 0]
           p == buf \o zeroes
           L == Len(buf)
           T == {k \in Nat : k <= n /\ Sums(p)[L + k] # Sums(buf)[L]}
<1>1. zeroes \in Seq(Word) /\ Len(zeroes) = n /\ L \in Nat
  <2>1. 0 \in Word
    BY MType DEF Word
  <2>2. zeroes \in [1 .. n -> Word]
    BY <2>1
  <2> QED
    BY <2>2, LenProperties DEF Seq
<1>2. /\ p \in Seq(Word) /\ Len(p) = L + n
      /\ \A i \in 1 .. L : p[i] = buf[i]
      /\ \A i \in L + 1 .. L + n : p[i] = 0
  <2>1. p \in Seq(Word) /\ Len(p) = L + n
        /\ \A i \in 1 .. L + n : p[i] = IF i <= L THEN buf[i] ELSE zeroes[i - L]
    BY <1>1, ConcatProperties
  <2>2. \A i \in L + 1 .. L + n : zeroes[i - L] = 0
    BY <1>1
  <2> HIDE DEF p, zeroes
  <2> QED
    BY <2>1, <2>2, <1>1
<1> HIDE DEF p, zeroes
<1> HIDE DEF L
<1>3. Sums(p)[L] = Sums(buf)[L] /\ Sums(buf)[L] \in Nat
  <2>1. L <= Len(buf) /\ L <= Len(p) /\ L \in 0 .. Len(buf)
    BY <1>1, <1>2 DEF L
  <2>2. \A i \in 1 .. L : buf[i] = p[i]
    BY <1>2
  <2> QED
    BY <1>1, <1>2, <2>1, <2>2, SumsPrefix, SumsType
<1>4. ASSUME T # {} PROVE FALSE
  <2>1. PICK k \in T : \A m \in T : k <= m
    BY <1>4, NatMin
  <2>2. k # 0
    BY <2>1, <1>3, <1>1
  <2>3. k - 1 \in Nat /\ k - 1 <= n /\ k - 1 \notin T
    BY <2>1, <2>2
  <2>4. Sums(p)[L + (k - 1)] = Sums(buf)[L]
    BY <2>3
  <2>5. L + k \in 0 .. Len(p) /\ L + k # 0 /\ (L + k) - 1 = L + (k - 1)
        /\ L + k \in L + 1 .. L + n
    BY <2>1, <2>2, <1>1, <1>2
  <2>6. Sums(p)[L + k] = Sums(p)[(L + k) - 1] + p[L + k]
    BY <2>5, <1>2, SumsRound
  <2>7. p[L + k] = 0
    BY <2>5, <1>2
  <2>8. Sums(p)[L + k] = Sums(buf)[L]
    BY <2>4, <2>5, <2>6, <2>7, <1>3
  <2> QED
    BY <2>1, <2>8
<1>5. Sums(p)[L + n] = Sums(buf)[L]
  BY <1>4
<1> QED
  BY <1>2, <1>5 DEF Total, p, zeroes, L
-----------------------------------------------------------------------------
(***************************************************************************)
(* The checksums that this host computes.                                  *)
(***************************************************************************)
LEMMA Sum16 ==
    ASSUME NEW buf \in Seq(Word), NEW pre_sum \in Word
    PROVE  LET plain == checksum16(buf, pre_sum, FALSE)
           IN  /\ plain \in Word /\ Same(plain, pre_sum + Total(buf))
               /\ plain = 0 <=> pre_sum + Total(buf) = 0
               /\ checksum16(buf, pre_sum, TRUE) = M - plain
<1>1. Total(buf) \in Nat /\ pre_sum \in Nat
  BY TotalType, MType DEF Word
<1>2. pre_sum + Total(buf) \in Nat
  BY <1>1
<1>3. checksum16(buf, pre_sum, FALSE) = Carried(pre_sum + Total(buf))
  BY DEF checksum16
<1>4. checksum16(buf, pre_sum, TRUE) = M - Carried(pre_sum + Total(buf))
  BY DEF checksum16, M
<1> QED
  BY <1>2, <1>3, <1>4, CarriedIs

\* What checksum_peso returns is never the zero that stands for "none" after
\* the complement: with the sum it makes a multiple of M, and it is below M.
LEMMA PesoIs ==
    ASSUME NEW src \in Seq(Word), NEW dst \in Seq(Word), NEW protocol \in Word,
           protocol # 0, NEW buf \in Seq(Word), NEW len \in 0 .. Len(buf), len \in Word
    PROVE  LET sum == checksum_peso(src, dst, protocol, buf, len)
           IN  /\ sum \in 0 .. M - 1
               /\ Same(sum + (Total(src) + Total(dst) + len + protocol + Sums(buf)[len]), 0)
<1> DEFINE kinds == <<protocol>>
           sizes == <<len>>
           from  == checksum16(src, 0, FALSE)
           hosts == checksum16(dst, from, FALSE)
           proto == checksum16(kinds, hosts, FALSE)
           size  == checksum16(sizes, proto, FALSE)
           data  == SubSeq(buf, 1, len)
           all   == checksum16(data, size, FALSE)
           sum   == checksum_peso(src, dst, protocol, buf, len)
           S     == Total(src)
           D     == Total(dst)
           B     == Sums(buf)[len]
<1>1. S \in Nat /\ D \in Nat /\ B \in Nat /\ protocol \in Nat /\ len \in Nat /\ 0 \in Word
  BY TotalType, SumsType, MType DEF Word
<1>2. /\ kinds \in Seq(Word) /\ Total(kinds) = protocol
      /\ sizes \in Seq(Word) /\ Total(sizes) = len
      /\ data \in Seq(Word) /\ Total(data) = B
  BY TotalOne, TotalPrefix
<1> HIDE DEF kinds, sizes, data, B
<1>3. from \in Word /\ Same(from, 0 + S)
  BY <1>1, Sum16
<1> HIDE DEF from
<1>4. hosts \in Word /\ Same(hosts, from + D)
  BY <1>3, Sum16
<1> HIDE DEF hosts
<1>5. proto \in Word /\ Same(proto, hosts + protocol) /\ (proto = 0 <=> hosts + protocol = 0)
  BY <1>2, <1>4, Sum16
<1> HIDE DEF proto
<1>6. size \in Word /\ Same(size, proto + len) /\ (size = 0 <=> proto + len = 0)
  BY <1>2, <1>5, Sum16
<1> HIDE DEF size
<1>7. /\ all \in Word /\ Same(all, size + B) /\ (all = 0 <=> size + B = 0)
      /\ checksum16(data, size, TRUE) = M - all
  BY <1>2, <1>6, Sum16
<1>8. sum = M - all
  BY <1>7 DEF checksum_peso, from, hosts, proto, size, kinds, sizes, data
<1> HIDE DEF all, sum, S, D
<1>9. from \in Nat /\ hosts \in Nat /\ proto \in Nat /\ size \in Nat /\ all \in Nat
  BY <1>3, <1>4, <1>5, <1>6, <1>7, MType DEF Word
<1>10. all # 0
  BY <1>1, <1>5, <1>6, <1>7, <1>9
<1>11. sum \in 0 .. M - 1
  BY <1>7, <1>8, <1>10, MType DEF Word
<1> DEFINE c1 == S + D
           c2 == c1 + protocol
           c3 == c2 + len
           c4 == c3 + B
<1>12. c1 \in Int /\ c2 \in Int /\ c3 \in Int /\ c4 = S + D + len + protocol + B /\ c4 \in Int
  BY <1>1
<1>13. Same(hosts, c1)
  BY <1>1, <1>3, <1>4, <1>9, SameStep
<1> HIDE DEF c1
<1>14. Same(proto, c2)
  BY <1>1, <1>5, <1>9, <1>12, <1>13, SameStep
<1> HIDE DEF c2
<1>15. Same(size, c3)
  BY <1>1, <1>6, <1>9, <1>12, <1>14, SameStep
<1> HIDE DEF c3
<1>16. Same(all, c4)
  BY <1>1, <1>7, <1>9, <1>12, <1>15, SameStep
<1> HIDE DEF c4
<1>17. Same((M - all) + c4, 0)
  BY <1>9, <1>12, <1>16, SameNot
<1>18. Same(sum + (S + D + len + protocol + B), 0)
  BY <1>8, <1>12, <1>17
<1> QED
  BY <1>11, <1>18 DEF S, D, B, sum
=============================================================================
