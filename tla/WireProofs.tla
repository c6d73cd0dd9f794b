----------------------------- MODULE WireProofs -----------------------------
(***************************************************************************)
(* Theorems about Wire, for every width of the words and every size of the *)
(* packets: this host and its peer agree about every packet that arrives   *)
(* as it was sent, but for the unreachable message, and a change of one    *)
(* word is noticed.  What the sums are is shown in ChecksumProofs.         *)
(***************************************************************************)
EXTENDS Wire, ChecksumProofs

-----------------------------------------------------------------------------
(***************************************************************************)
(* The invariant: what was sent is consistent, the packet under way is it, *)
(* or it with zeroes behind it, or it with one word changed, and the       *)
(* verdict is that of the receiver about this packet.                      *)
(***************************************************************************)
Zeroes(n) == [i \in 1 .. n |-> 0]

Accepts == IF sender = "us" THEN PeerAccepts ELSE WeAccept

\* The sender sends consistent packets, but for datagrams without checksum and
\* for the unreachable message, which is one only if its sum is zero.
\* The header of IP begins with a word that is not zero, here the second.
SentOk ==
    /\ Len(sent) \in 2 .. MaxWords + 2
    /\ kind = "udp" => sent[2] = Len(sent)
    /\ \/ Consistent(kind, sent)
       \/ sender = "peer" /\ kind = "udp" /\ sent[1] = 0
       \/ kind = "unreachable" /\ sent[1] \notin {0, M}
    /\ sender = "peer" => kind \in {"ip", "udp", "tcp"}
    /\ sender = "peer" /\ kind = "ip" => sent[1] # M /\ sent[2] # 0

PacketOk ==
    \/ changes = 0 /\ packet = sent
    \/ /\ changes = 0 /\ sender = "peer" /\ kind \in {"udp", "tcp"}
       /\ \E n \in 1 .. MaxPad : packet = sent \o Zeroes(n)
    \/ /\ changes = 1
       /\ \E i \in 1 .. Len(sent), w \in Word :
            w # sent[i] /\ packet = [sent EXCEPT ![i] = w]
    \/ changes > 1

VerdictOk == /\ verdict = "accepted" => Accepts
             /\ verdict = "dropped" => ~ Accepts

WireInv == TypeOK /\ (sent # <<>> => SentOk /\ PacketOk /\ VerdictOk)

LEMMA Addresses ==
    /\ Here \in Seq(Word) /\ There \in Seq(Word)
    /\ Tcp \in Word /\ Tcp # 0 /\ Udp \in Word /\ Udp # 0
    /\ Total(Here) \in Nat /\ Total(There) \in Nat /\ Tcp \in Nat /\ Udp \in Nat
BY WireAssumption, TotalType, MType DEF Word

LEMMA Bounds ==
    /\ MaxWords \in Nat /\ MaxChanges \in Nat /\ MaxPad \in Nat
    /\ MaxWords + MaxPad + 2 <= M /\ M \in Nat
BY WireAssumption, MType
-----------------------------------------------------------------------------
(***************************************************************************)
(* The tests of the two receivers.                                         *)
(***************************************************************************)
LEMMA PseudoType ==
    ASSUME NEW k \in Kind, NEW len \in Nat
    PROVE  /\ Pseudo(k, len) \in Nat
           /\ \A n \in Nat : k \in {"udp", "tcp"} => Pseudo(k, len + n) = Pseudo(k, len) + n
<1> DEFINE h == Total(Here) + Total(There)
           p == IF k = "udp" THEN Udp ELSE Tcp
<1>1. h \in Nat /\ p \in Nat
  BY Addresses
<1>2. \A l \in Nat : Pseudo(k, l) = IF k \notin {"udp", "tcp"} THEN 0 ELSE h + l + p
  BY DEF Pseudo
<1> HIDE DEF h, p
<1>3. Pseudo(k, len) \in Nat
  BY <1>1, <1>2
<1>4. ASSUME NEW n \in Nat, k \in {"udp", "tcp"} PROVE Pseudo(k, len + n) = Pseudo(k, len) + n
  <2>1. k \in {"udp", "tcp"} /\ len + n \in Nat
    BY <1>4
  <2> QED
    BY <1>1, <1>2, <2>1
<1> QED
  BY <1>3, <1>4

LEMMA ConsistentIs ==
    ASSUME NEW k \in Kind, NEW words \in Seq(Word)
    PROVE  Consistent(k, words) <=> Same(Pseudo(k, Len(words)) + Total(words), 0)
<1>1. Len(words) \in Nat /\ Total(words) \in Nat
  BY LenProperties, TotalType
<1>2. Pseudo(k, Len(words)) + Total(words) \in Nat
  BY <1>1, PseudoType, SMTT(30)
<1> QED
  BY <1>2, SameMod DEF Consistent, M

\* A changed word: what stays consistent has changed one zero for the other.
LEMMA ConsistentChange ==
    ASSUME NEW k \in Kind, NEW words \in Seq(Word), NEW i \in 1 .. Len(words),
           NEW w \in Word, Consistent(k, words),
           Consistent(k, [words EXCEPT ![i] = w])
    PROVE  \/ w = words[i]
           \/ (w = 0 /\ words[i] = M) \/ (w = M /\ words[i] = 0)
<1> DEFINE changed == [words EXCEPT ![i] = w]
           P == Pseudo(k, Len(words))
<1>1. /\ changed \in Seq(Word) /\ Len(changed) = Len(words)
      /\ Total(changed) = Total(words) + (w - words[i])
  BY TotalChanged
<1>2. words[i] \in Word /\ Len(words) \in Nat
  BY ElementOfSeq, LenProperties
<1>3. /\ words[i] \in Int /\ w \in Int /\ Total(words) \in Int
      /\ Total(changed) \in Int /\ P \in Int
  BY <1>1, <1>2, TotalType, PseudoType, MType, SMTT(30) DEF Word
<1>4. Same(P + Total(changed), 0)
  BY <1>1, ConsistentIs
<1>5. Same(P + Total(words), 0)
  BY ConsistentIs
<1> HIDE DEF changed, P
<1> DEFINE c == Total(changed)
           t == Total(words)
           x == words[i]
           rest == t - x + P
<1>6. /\ c = t + (w - x) /\ w \in Int /\ x \in Int /\ t \in Int /\ P \in Int
      /\ Same(P + c, 0) /\ Same(P + t, 0)
  BY <1>1, <1>3, <1>4, <1>5
<1> HIDE DEF c, t, x
<1>7. P + c = w + rest /\ P + t = x + rest /\ rest \in Int
  BY <1>6
<1> HIDE DEF rest
<1>8. Same(w, x)
  BY <1>6, <1>7, SameDiff
<1> QED
  BY <1>2, <1>8, SameWords DEF x

\* Writing the checksum into a packet, or taking it out.
LEMMA SealedIs ==
    ASSUME NEW words \in Seq(Word), Len(words) >= 1, NEW sum \in Word
    PROVE  /\ Sealed(words, sum) \in Seq(Word)
           /\ Len(Sealed(words, sum)) = Len(words)
           /\ Sealed(words, sum)[1] = sum
           /\ \A j \in 2 .. Len(words) : Sealed(words, sum)[j] = words[j]
           /\ Total(Sealed(words, sum)) = Total(words) + (sum - words[1])
<1>1. Len(words) \in Nat
  BY LenProperties
<1>2. 1 \in 1 .. Len(words) /\ \A j \in 2 .. Len(words) : j \in 1 .. Len(words) /\ j # 1
  BY <1>1
<1> QED
  BY <1>2, TotalChanged DEF Sealed

\* A packet without its checksum, and the sum of its first len words.
LEMMA Unsealed ==
    ASSUME NEW words \in Seq(Word), NEW len \in 1 .. Len(words)
    PROVE  /\ Sealed(words, 0) \in Seq(Word) /\ Len(Sealed(words, 0)) = Len(words)
           /\ Sums(Sealed(words, 0))[len] = Sums(words)[len] - words[1]
           /\ words[1] \in Word
<1> DEFINE blank == Sealed(words, 0)
<1>1. Len(words) \in Nat /\ 0 \in Word
  BY LenProperties, MType DEF Word
<1>2. 1 \in 1 .. Len(words) /\ len \in Nat /\ len <= Len(words) /\ 1 \in 1 .. len /\ 1 \in Nat
  BY <1>1
<1>3. /\ blank \in Seq(Word) /\ Len(blank) = Len(words) /\ blank[1] = 0
      /\ \A j \in 1 .. len : j # 1 => words[j] = blank[j]
  BY <1>1, <1>2, SealedIs
<1>4. words[1] \in Word
  BY <1>2, ElementOfSeq
<1> HIDE DEF blank
<1>5. Sums(blank)[len] = Sums(words)[len] + (blank[1] - words[1])
  BY <1>2, <1>3, SumsDiffer
<1>6. Sums(words)[len] \in Nat
  BY <1>2, SumsType
<1>7. Sums(blank)[len] = Sums(words)[len] - words[1]
  BY <1>3, <1>4, <1>5, <1>6, MType DEF Word
<1> QED
  BY <1>3, <1>4, <1>7 DEF blank

\* xip_in, of a header with a word that is not zero.
LEMMA HeaderTest ==
    ASSUME NEW words \in Seq(Word), Len(words) >= 1
    PROVE  /\ words[1] = checksum16(Sealed(words, 0), 0, TRUE) => Consistent("ip", words)
           /\ /\ Consistent("ip", words) /\ words[1] # M
              /\ \E j \in 2 .. Len(words) : words[j] # 0
              => words[1] = checksum16(Sealed(words, 0), 0, TRUE)
<1> DEFINE blank == Sealed(words, 0)
           plain == checksum16(blank, 0, FALSE)
           t == Total(blank)
           v == words[1]
<1>1. Len(words) \in Nat /\ 0 \in Word /\ "ip" \in Kind
  BY LenProperties, MType DEF Word, Kind
<1>2. /\ blank \in Seq(Word) /\ Len(blank) = Len(words) /\ v \in Word
      /\ t = Total(words) - v
      /\ \A j \in 2 .. Len(words) : blank[j] = words[j]
  <2>1. Len(words) \in 1 .. Len(words)
    BY <1>1
  <2>2. blank \in Seq(Word) /\ Len(blank) = Len(words) /\ v \in Word
        /\ Sums(blank)[Len(words)] = Sums(words)[Len(words)] - v
    BY <2>1, Unsealed
  <2>3. \A j \in 2 .. Len(words) : blank[j] = words[j]
    BY <1>1, SealedIs
  <2> QED
    BY <2>2, <2>3 DEF Total
<1>3. t \in Nat /\ Total(words) \in Nat /\ v \in 0 .. M
  BY <1>2, TotalType, MType DEF Word
<1> HIDE DEF blank
<1>4. /\ plain \in Word /\ Same(plain, 0 + t) /\ (plain = 0 <=> 0 + t = 0)
      /\ checksum16(blank, 0, TRUE) = M - plain
  BY <1>1, <1>2, Sum16
<1> HIDE DEF plain
<1>5. plain \in 0 .. M
  BY <1>4, MType DEF Word
<1>6. Consistent("ip", words) <=> Same(v + t, 0)
  <2>1. Pseudo("ip", Len(words)) + Total(words) = v + t
    BY <1>2, <1>3 DEF Pseudo
  <2> QED
    BY <1>1, <2>1, ConsistentIs
<1> HIDE DEF t, v
<1>7. Same((M - plain) + t, 0)
  BY <1>3, <1>4, <1>5, SameNot
<1>8. ASSUME v = M - plain PROVE Consistent("ip", words)
  BY <1>6, <1>7, <1>8
<1>9. ASSUME Consistent("ip", words), v # M, NEW j \in 2 .. Len(words), words[j] # 0
      PROVE  v = M - plain
  <2>1. t # 0
    <3>1. j \in 1 .. Len(blank) /\ blank[j] # 0
      BY <1>1, <1>2, <1>9
    <3>2. Total(blank) >= blank[j] /\ blank[j] \in Nat
      BY <3>1, <1>2, TotalAtLeast
    <3> QED
      BY <3>1, <3>2 DEF t
  <2>2. plain # 0
    BY <1>3, <1>4, <2>1
  <2>3. M - plain \in Word /\ M - plain # M /\ v \in Word
    BY <1>2, <1>5, <2>2, MType DEF Word
  <2>4. Same(v + t, 0)
    BY <1>6, <1>9
  <2>5. Same(v, M - plain)
    <3>1. v \in Int /\ M - plain \in Int /\ t \in Int
      BY <1>3, <1>5, MType
    <3> QED
      BY <3>1, <2>4, <1>7, SameDiff
  <2>6. v = M - plain \/ M - plain = M \/ v = M
    BY <2>3, <2>5, SameWords
  <2> QED
    BY <2>3, <2>6, <1>9
<1> QED
  BY <1>2, <1>4, <1>8, <1>9 DEF blank, v, plain

Protocol(k) == IF k = "udp" THEN Udp ELSE Tcp

\* xudp_in and xtcp_in, of a packet with a checksum, whose length is len.
LEMMA DatagramTest ==
    ASSUME NEW k \in {"udp", "tcp"}, NEW words \in Seq(Word), NEW len \in 1 .. Len(words),
           len \in Word, words[1] # 0
    PROVE  words[1] = NonZero(checksum_peso(There, Here, Protocol(k), Sealed(words, 0), len))
             <=> Same(Pseudo(k, len) + Sums(words)[len], 0)
<1> DEFINE blank == Sealed(words, 0)
           sum == checksum_peso(There, Here, Protocol(k), blank, len)
           h == Total(There) + Total(Here) + len + Protocol(k)
           B == Sums(blank)[len]
           v == words[1]
           e == NonZero(sum)
<1>1. Protocol(k) \in Word /\ Protocol(k) # 0 /\ Protocol(k) \in Nat /\ k \in Kind
  BY Addresses DEF Protocol, Kind
<1>2. /\ blank \in Seq(Word) /\ Len(blank) = Len(words)
      /\ B = Sums(words)[len] - v /\ v \in Word
  BY Unsealed
<1>3. Len(words) \in Nat /\ len \in Nat /\ len \in 0 .. Len(words)
  BY LenProperties
<1>4. Sums(words)[len] \in Nat /\ B \in Nat
  BY <1>2, <1>3, SumsType
<1>5. h = Pseudo(k, len) /\ h \in Nat
  BY <1>1, <1>3, Addresses DEF Pseudo, Protocol
<1> HIDE DEF blank
<1>6. sum \in 0 .. M - 1 /\ Same(sum + (h + B), 0)
  BY <1>1, <1>2, <1>3, Addresses, PesoIs
<1> HIDE DEF sum, h, B, v
<1>7. e \in 1 .. M /\ Same(e + (h + B), 0)
  <2>1. CASE sum = 0
    <3>1. e = M
      BY <2>1 DEF NonZero, M
    <3>2. Same(M + (0 + (h + B)), 0 + 0)
      <4>1. 0 + (h + B) \in Int /\ M \in Int /\ 0 \in Int /\ Same(M, 0)
        BY <1>4, <1>5, MType, SameSelf
      <4> QED
        BY <4>1, <1>6, <2>1, SameSum
    <3>3. 0 + (h + B) = h + B
      BY <1>4, <1>5
    <3> QED
      BY <3>1, <3>2, <3>3, MType
  <2>2. CASE sum # 0
    BY <2>2, <1>6, MType DEF NonZero
  <2> QED
    BY <2>1, <2>2
<1>8. v \in 1 .. M
  BY <1>2, MType DEF Word, v
<1>9. Pseudo(k, len) + Sums(words)[len] = v + (h + B)
  BY <1>2, <1>4, <1>5, <1>8
<1> HIDE DEF e
<1>10. ASSUME Same(v + (h + B), 0) PROVE v = e
  <2>1. h + B \in Int /\ v \in Int /\ e \in Int
    BY <1>4, <1>5, <1>7, <1>8
  <2>2. Same(v, e)
    BY <2>1, <1>7, <1>10, SameDiff
  <2>3. v \in Word /\ e \in Word
    BY <1>7, <1>8, MType DEF Word
  <2> QED
    BY <2>2, <2>3, <1>7, <1>8, MType, SameWords
<1>11. v = e <=> Same(v + (h + B), 0)
  BY <1>7, <1>10
<1> QED
  BY <1>9, <1>11 DEF blank, sum, e, v
-----------------------------------------------------------------------------
(***************************************************************************)
(* The steps.                                                              *)
(***************************************************************************)
\* A packet before its checksum is written.
LEMMA BlankIs ==
    ASSUME NEW k \in Kind, NEW data \in Data(k)
    PROVE  /\ Blank(k, data) \in Seq(Word) /\ Len(Blank(k, data)) \in 2 .. MaxWords + 2
           /\ Blank(k, data)[1] = 0
           /\ k = "udp" => Blank(k, data)[2] = Len(Blank(k, data))
           /\ k = "ip" => Blank(k, data)[2] # 0
<1>1. PICK n \in 1 .. MaxWords : data \in [1 .. n -> Word]
  BY DEF Data
<1>2. n \in Nat /\ n >= 1 /\ n <= MaxWords /\ MaxWords \in Nat
  BY Bounds
<1>3. data \in Seq(Word) /\ Len(data) = n
  BY <1>1, <1>2 DEF Seq
<1>4. k = "ip" => data[1] # 0
  BY DEF Data
<1>5. 0 \in Word /\ 2 + n \in Word
  BY <1>2, Bounds, MType DEF Word
<1>6. CASE k = "udp"
  <2> DEFINE head == <<0, 2 + Len(data)>>
  <2>1. head \in Seq(Word) /\ Len(head) = 2 /\ head[1] = 0 /\ head[2] = 2 + n
    BY <1>3, <1>5
  <2> HIDE DEF head
  <2> DEFINE blank == head \o data
  <2>2. blank \in Seq(Word) /\ Len(blank) = 2 + n
        /\ \A i \in 1 .. 2 + n : blank[i] = IF i <= 2 THEN head[i] ELSE data[i - 2]
    <3>1. /\ blank \in Seq(Word) /\ Len(blank) = Len(head) + Len(data)
          /\ \A i \in 1 .. Len(head) + Len(data) :
               blank[i] = IF i <= Len(head) THEN head[i] ELSE data[i - Len(head)]
      BY <1>3, <2>1, ConcatProperties
    <3> HIDE DEF blank
    <3> QED
      BY <1>3, <2>1, <3>1
  <2>3. Blank(k, data) = blank
    BY <1>6 DEF Blank, head
  <2> HIDE DEF blank
  <2>4. blank[1] = 0 /\ blank[2] = 2 + n /\ Len(blank) \in 2 .. MaxWords + 2
    BY <1>2, <2>1, <2>2
  <2> QED
    BY <1>6, <2>2, <2>3, <2>4
<1>7. CASE k # "udp"
  <2> DEFINE head == <<0>>
  <2>1. head \in Seq(Word) /\ Len(head) = 1 /\ head[1] = 0
    BY <1>5
  <2> HIDE DEF head
  <2>2. head \o data \in Seq(Word) /\ Len(head \o data) = 1 + n
        /\ (head \o data)[1] = 0 /\ (head \o data)[2] = data[1]
    BY <1>2, <1>3, <2>1, ConcatProperties, SMTT(30)
  <2>3. Blank(k, data) = head \o data
    BY <1>7 DEF Blank, head
  <2> QED
    BY <1>2, <1>4, <1>7, <2>2, <2>3
<1> QED
  BY <1>6, <1>7

\* What this host sends is consistent for every receiver; of the unreachable
\* message that is so if its sum is one of the two zeroes.
LEMMA OurSumGood ==
    ASSUME NEW k \in Kind, NEW words \in Seq(Word), Len(words) \in 1 .. M, words[1] = 0
    PROVE  /\ OurSum(k, words) \in Word
           /\ \/ Consistent(k, Sealed(words, OurSum(k, words)))
              \/ k = "unreachable" /\ OurSum(k, words) \notin {0, M}
<1> DEFINE len == Len(words)
           P   == Pseudo(k, len)
           t   == Total(words)
           sum == OurSum(k, words)
<1>1. len \in Nat /\ len \in 0 .. len /\ len \in Word /\ len >= 1 /\ t \in Nat /\ P \in Nat
      /\ 0 \in Word
  BY LenProperties, TotalType, PseudoType, MType DEF Word
<1>2. /\ sum \in Word
      /\ \/ Same(sum + (P + t), 0)
         \/ k = "unreachable" /\ sum \notin {0, M}
  <2>1. CASE k \in {"ip", "echo reply"}
    <3> DEFINE plain == checksum16(words, 0, FALSE)
    <3>1. plain \in Word /\ Same(plain, 0 + t) /\ sum = M - plain
      BY <1>1, <2>1, Sum16 DEF OurSum
    <3> HIDE DEF plain
    <3>2. plain \in 0 .. M
      BY <3>1, MType DEF Word
    <3>3. sum \in Word
      BY <3>1, <3>2, MType DEF Word
    <3>4. P + t = 0 + t /\ 0 + t \in Int /\ plain \in Int
      <4>1. P = 0
        BY <2>1 DEF Pseudo
      <4> HIDE DEF P, t
      <4> QED
        BY <1>1, <3>2, <4>1
    <3>5. Same((M - plain) + (0 + t), 0)
      BY <3>1, <3>4, SameNot
    <3> QED
      BY <3>1, <3>3, <3>4, <3>5
  <2>2. CASE k \in {"udp", "tcp"}
    <3> DEFINE peso == checksum_peso(Here, There, Protocol(k), words, len)
               h    == Total(Here) + Total(There) + len + Protocol(k)
    <3>1. Protocol(k) \in Word /\ Protocol(k) # 0
      BY Addresses DEF Protocol
    <3>2. peso \in 0 .. M - 1 /\ Same(peso + (h + t), 0)
      BY <1>1, <3>1, Addresses, PesoIs DEF Total
    <3>3. h = P
      BY <2>2 DEF Pseudo, Protocol
    <3>4. sum = IF k = "tcp" THEN NonZero(peso) ELSE peso
      BY <2>2 DEF OurSum, Protocol
    <3> HIDE DEF peso, h
    <3>5. CASE sum = peso
      BY <3>2, <3>3, <3>5, MType DEF Word
    <3>6. CASE peso = 0 /\ sum = M
      <4>1. P + t \in Int /\ 0 + (P + t) = P + t /\ M \in Int /\ 0 \in Int
        BY <1>1, MType
      <4>2. Same(M + (0 + (P + t)), 0 + 0)
        <5>1. 0 + (P + t) \in Int /\ Same(M, 0) /\ Same(0 + (P + t), 0)
          BY <4>1, <3>2, <3>3, <3>6, SameSelf
        <5> QED
          BY <5>1, <4>1, SameSum
      <4> QED
        BY <3>6, <4>1, <4>2, MType DEF Word
    <3> QED
      BY <3>4, <3>5, <3>6 DEF NonZero, M
  <2>3. CASE k = "unreachable" /\ sum \in {0, M}
    <3>1. sum \in Word /\ Same(sum, 0 + t)
      BY <1>1, <2>3, Sum16 DEF OurSum
    <3> HIDE DEF sum
    <3>2. PICK i \in Int : sum - (0 + t) = i * M
      BY <3>1 DEF Same
    <3>3. PICK j \in Int : sum - 0 = j * M
      <4>1. Same(0, 0) /\ Same(M, 0)
        BY SameSelf
      <4>2. Same(sum, 0)
        BY <2>3, <4>1
      <4> QED
        BY <4>2 DEF Same
    <3>4. P + t = t /\ t \in Int /\ sum \in Int
      BY <1>1, <2>3, MType DEF Pseudo
    <3> HIDE DEF P, t
    <3>5. (sum + (P + t)) - 0 = (j + j - i) * M /\ j + j - i \in Int
      BY <3>2, <3>3, <3>4, MType
    <3> QED
      BY <3>1, <3>5 DEF Same
  <2>4. CASE k = "unreachable" /\ sum \notin {0, M}
    <3>1. sum \in Word
      BY <1>1, <2>4, Sum16 DEF OurSum
    <3> QED
      BY <2>4, <3>1
  <2> QED
    BY <2>1, <2>2, <2>3, <2>4 DEF Kind
<1> HIDE DEF sum
<1>3. /\ Sealed(words, sum) \in Seq(Word) /\ Len(Sealed(words, sum)) = len
      /\ Total(Sealed(words, sum)) = t + (sum - 0)
  BY <1>1, <1>2, SealedIs
<1>4. sum \in Nat
  BY <1>2, MType DEF Word
<1> HIDE DEF len, P, t
<1>5. P + (t + (sum - 0)) = sum + (P + t)
  BY <1>1, <1>4
<1>6. Consistent(k, Sealed(words, sum)) <=> Same(P + (t + (sum - 0)), 0)
  BY <1>3, ConsistentIs DEF P
<1> QED
  BY <1>2, <1>5, <1>6 DEF sum

\* A packet begins its way as it was sent.
LEMMA SendInv ==
    ASSUME NEW who \in {"us", "peer"}, NEW k \in Kind, NEW words \in Seq(Word),
           NEW sum \in Word, Len(words) \in 2 .. MaxWords + 2,
           k = "udp" => words[2] = Len(words),
           who = "peer" /\ k = "ip" => sum # M /\ words[2] # 0,
           who = "peer" => k \in {"ip", "udp", "tcp"},
           \/ Consistent(k, Sealed(words, sum))
           \/ who = "peer" /\ k = "udp" /\ sum = 0
           \/ k = "unreachable" /\ sum \notin {0, M},
           Send(who, k, words, sum)
    PROVE  WireInv'
<1> DEFINE s == Sealed(words, sum)
<1>1. Len(words) \in Nat /\ Len(words) >= 1 /\ 2 \in 2 .. Len(words)
  BY LenProperties
<1>2. s \in Seq(Word) /\ Len(s) = Len(words) /\ s[1] = sum /\ s[2] = words[2]
  BY <1>1, SealedIs
<1>3. /\ sender' = who /\ kind' = k /\ sent' = s /\ packet' = s
      /\ changes' = 0 /\ verdict' = "travelling"
  BY DEF Send
<1> HIDE DEF s
<1>4. TypeOK'
  BY <1>2, <1>3, Bounds DEF TypeOK
<1>5. \/ Consistent(k, s)
      \/ who = "peer" /\ k = "udp" /\ sum = 0
      \/ k = "unreachable" /\ sum \notin {0, M}
  BY DEF s
<1>6. SentOk'
  BY <1>2, <1>3, <1>5 DEF SentOk
<1>7. PacketOk' /\ VerdictOk'
  BY <1>3 DEF PacketOk, VerdictOk
<1> QED
  BY <1>4, <1>6, <1>7 DEF WireInv

LEMMA WeSendInv == WireInv /\ WeSend => WireInv'
<1> SUFFICES ASSUME WireInv, NEW k \in Kind, NEW data \in Data(k),
                    Send("us", k, Blank(k, data), OurSum(k, Blank(k, data)))
             PROVE  WireInv'
  BY DEF WeSend
<1> DEFINE words == Blank(k, data)
           sum   == OurSum(k, words)
<1>1. /\ words \in Seq(Word) /\ Len(words) \in 2 .. MaxWords + 2 /\ words[1] = 0
      /\ k = "udp" => words[2] = Len(words)
  BY BlankIs
<1> HIDE DEF words
<1>2. Len(words) \in 1 .. M
  BY <1>1, Bounds, LenProperties
<1>3. /\ sum \in Word
      /\ \/ Consistent(k, Sealed(words, sum))
         \/ k = "unreachable" /\ sum \notin {0, M}
  BY <1>1, <1>2, OurSumGood
<1>4. Send("us", k, words, sum)
  BY DEF words
<1> HIDE DEF sum
<1> QED
  BY <1>1, <1>3, <1>4, SendInv

LEMMA PeerSendsInv == WireInv /\ PeerSends => WireInv'
<1> SUFFICES ASSUME WireInv, NEW k \in {"ip", "udp", "tcp"}, NEW data \in Data(k),
                    NEW sum \in PeerSums(k, Blank(k, data)),
                    Send("peer", k, Blank(k, data), sum)
             PROVE  WireInv'
  BY DEF PeerSends
<1> DEFINE words == Blank(k, data)
<1>0. k \in Kind
  BY DEF Kind
<1>1. /\ words \in Seq(Word) /\ Len(words) \in 2 .. MaxWords + 2 /\ words[1] = 0
      /\ k = "udp" => words[2] = Len(words)
      /\ k = "ip" => words[2] # 0
  BY <1>0, BlankIs
<1>2. sum \in PeerSums(k, words) /\ Send("peer", k, words, sum)
  OBVIOUS
<1> HIDE DEF words
<1>3. 0 \in Word
  BY MType DEF Word
<1>4. /\ sum \in Word /\ (k = "ip" => sum # M)
      /\ Consistent(k, Sealed(words, sum)) \/ (k = "udp" /\ sum = 0)
  BY <1>2, <1>3 DEF PeerSums, M, Kind
<1> QED
  BY <1>0, <1>1, <1>2, <1>4, SendInv

LEMMA DamageInv == WireInv /\ Damage => WireInv'
<1> SUFFICES ASSUME WireInv, Damage PROVE WireInv'
  OBVIOUS
<1>1. PICK i \in DOMAIN packet, w \in Word :
        w # packet[i] /\ packet' = [packet EXCEPT ![i] = w]
  BY DEF Damage
<1>2. /\ verdict = "travelling" /\ changes < MaxChanges /\ ~ Padded /\ changes' = changes + 1
      /\ UNCHANGED <<sender, kind, sent, verdict>>
  BY DEF Damage
<1>3. packet \in Seq(Word) /\ changes \in 0 .. MaxChanges /\ MaxChanges \in Nat
  BY Bounds DEF WireInv, TypeOK
<1>4. i \in 1 .. Len(packet)
  BY <1>3, LenProperties
<1>5. packet' \in Seq(Word)
  BY <1>1, <1>3, <1>4, ExceptSeq
<1>6. TypeOK'
  BY <1>2, <1>3, <1>5 DEF WireInv, TypeOK
<1>7. ASSUME sent # <<>> PROVE SentOk' /\ PacketOk' /\ VerdictOk'
  <2>1. SentOk'
    BY <1>2, <1>7 DEF WireInv, SentOk
  <2>2. VerdictOk'
    BY <1>2 DEF VerdictOk
  <2>3. CASE changes = 0 /\ packet = sent
    <3>1. changes' = 1 /\ sent' = sent /\ i \in 1 .. Len(sent)
      BY <1>2, <1>4, <2>3
    <3>2. w # sent[i] /\ packet' = [sent EXCEPT ![i] = w]
      BY <1>1, <2>3
    <3>3. \E j \in 1 .. Len(sent), v \in Word : v # sent[j] /\ packet' = [sent EXCEPT ![j] = v]
      BY <3>1, <3>2
    <3>4. PacketOk'
      BY <3>1, <3>3 DEF PacketOk
    <3> QED
      BY <2>1, <2>2, <3>4
  <2>4. CASE changes >= 1
    <3>1. changes' > 1
      BY <1>2, <1>3, <2>4
    <3> QED
      BY <2>1, <2>2, <3>1 DEF PacketOk
  <2>5. ASSUME NEW n \in 1 .. MaxPad, packet = sent \o Zeroes(n) PROVE FALSE
    <3>1. sent \in Seq(Word) /\ n \in Nat
      BY Bounds DEF WireInv, TypeOK
    <3>2. Len(packet) = Len(sent) + n /\ Len(sent) \in Nat
      BY <2>5, <3>1, TotalPadded, LenProperties DEF Zeroes
    <3> QED
      BY <1>2, <3>2 DEF Padded
  <2>6. PacketOk
    BY <1>7 DEF WireInv
  <2>7. (changes = 0 /\ packet = sent) \/ changes >= 1
    BY <1>3, <2>5, <2>6 DEF PacketOk
  <2> QED
    BY <2>3, <2>4, <2>7
<1> QED
  BY <1>2, <1>6, <1>7 DEF WireInv

LEMMA PadInv == WireInv /\ Pad => WireInv'
<1> SUFFICES ASSUME WireInv, Pad PROVE WireInv'
  OBVIOUS
<1>1. PICK n \in 1 .. MaxPad : packet' = packet \o Zeroes(n)
  BY DEF Pad, Zeroes
<1>2. /\ verdict = "travelling" /\ ~ Padded /\ changes = 0
      /\ sender = "peer" /\ kind \in {"udp", "tcp"}
      /\ UNCHANGED <<sender, kind, sent, changes, verdict>>
  BY DEF Pad
<1>3. packet \in Seq(Word) /\ sent \in Seq(Word) /\ n \in Nat
  BY Bounds DEF WireInv, TypeOK
<1>4. packet' \in Seq(Word)
  BY <1>1, <1>3, TotalPadded DEF Zeroes
<1>5. TypeOK'
  BY <1>2, <1>4 DEF WireInv, TypeOK
<1>6. ASSUME sent # <<>> PROVE SentOk' /\ PacketOk' /\ VerdictOk'
  <2>1. SentOk'
    BY <1>2, <1>6 DEF WireInv, SentOk
  <2>2. VerdictOk'
    BY <1>2 DEF VerdictOk
  <2>3. ASSUME NEW m \in 1 .. MaxPad, packet = sent \o Zeroes(m) PROVE FALSE
    <3>1. m \in Nat
      BY Bounds
    <3>2. Len(packet) = Len(sent) + m /\ Len(sent) \in Nat
      BY <1>3, <2>3, <3>1, TotalPadded, LenProperties DEF Zeroes
    <3> QED
      BY <1>2, <3>2 DEF Padded
  <2>4. packet = sent
    <3>1. PacketOk
      BY <1>6 DEF WireInv
    <3> QED
      BY <1>2, <2>3, <3>1 DEF PacketOk
  <2>5. PacketOk'
    BY <1>1, <1>2, <2>4 DEF PacketOk
  <2> QED
    BY <2>1, <2>2, <2>5
<1> QED
  BY <1>2, <1>5, <1>6 DEF WireInv

LEMMA ArriveInv == WireInv /\ Arrive => WireInv'
<1> SUFFICES ASSUME WireInv, Arrive PROVE WireInv'
  OBVIOUS
<1>1. /\ verdict' = (IF Accepts THEN "accepted" ELSE "dropped")
      /\ UNCHANGED <<sender, kind, sent, packet, changes>>
  BY DEF Arrive, Accepts
<1>2. TypeOK'
  BY <1>1 DEF WireInv, TypeOK
<1>3. Accepts' <=> Accepts
  BY <1>1 DEF Accepts, PeerAccepts, WeAccept
<1>4. VerdictOk'
  BY <1>1, <1>3 DEF VerdictOk
<1>5. sent # <<>> => SentOk' /\ PacketOk'
  BY <1>1 DEF WireInv, SentOk, PacketOk
<1> QED
  BY <1>1, <1>2, <1>4, <1>5 DEF WireInv

LEMMA WireInvInit == WireInit => WireInv
BY Bounds, EmptySeq DEF WireInit, WireInv, TypeOK, Kind

LEMMA WireInvNext == WireInv /\ [WireNext]_wireVars => WireInv'
<1> SUFFICES ASSUME WireInv, [WireNext]_wireVars PROVE WireInv'
  OBVIOUS
<1>1. CASE Done
  BY <1>1, EmptySeq, Bounds DEF Done, WireInv, TypeOK
<1>2. CASE UNCHANGED wireVars
  <2>1. UNCHANGED <<sender, kind, sent, packet, changes, verdict>>
    BY <1>2 DEF wireVars
  <2>2. Accepts' <=> Accepts
    BY <2>1 DEF Accepts, PeerAccepts, WeAccept
  <2> QED
    BY <2>1, <2>2 DEF WireInv, TypeOK, SentOk, PacketOk, VerdictOk
<1> QED
  BY <1>1, <1>2, WeSendInv, PeerSendsInv, DamageInv, PadInv, ArriveInv DEF WireNext

LEMMA WireInvariant == WireSpec => []WireInv
BY WireInvInit, WireInvNext, PTL DEF WireSpec
-----------------------------------------------------------------------------
(***************************************************************************)
(* The theorems.                                                           *)
(***************************************************************************)
\* Only words go out, and nothing else is kept: the loops of checksum16 end
\* with a sum that fits into 16 bits (checksum16, checksum_peso).
THEOREM TypeCorrect == WireSpec => []TypeOK
BY WireInvariant, PTL DEF WireInv

\* A packet whose words the link has not changed.
LEMMA Unchanged ==
    ASSUME WireInv, sent # <<>>, changes = 0
    PROVE  /\ sent \in Seq(Word) /\ packet \in Seq(Word)
           /\ Len(sent) \in 2 .. Len(packet) /\ Len(packet) \in Word
           /\ \A i \in 1 .. Len(sent) : packet[i] = sent[i]
           /\ ~ Padded => packet = sent
           /\ Padded => /\ sender = "peer" /\ kind \in {"udp", "tcp"}
                        /\ Total(packet) = Total(sent)
                        /\ \E n \in 1 .. MaxPad : Len(packet) = Len(sent) + n
<1>1. /\ sent \in Seq(Word) /\ packet \in Seq(Word) /\ Len(sent) \in Nat
      /\ Len(sent) \in 2 .. MaxWords + 2
  BY LenProperties DEF WireInv, TypeOK, SentOk
<1>2. CASE packet = sent
  <2>1. Len(sent) \in Word
    BY <1>1, Bounds, MType DEF Word
  <2> QED
    BY <1>1, <1>2, <2>1 DEF Padded
<1>3. ASSUME sender = "peer", kind \in {"udp", "tcp"}, NEW n \in 1 .. MaxPad,
             packet = sent \o Zeroes(n)
      PROVE  /\ Len(sent) \in 2 .. Len(packet) /\ Len(packet) \in Word
             /\ \A i \in 1 .. Len(sent) : packet[i] = sent[i]
             /\ Padded /\ Total(packet) = Total(sent) /\ Len(packet) = Len(sent) + n
  <2>1. n \in Nat
    BY Bounds
  <2>2. /\ Len(packet) = Len(sent) + n /\ Total(packet) = Total(sent)
        /\ \A i \in 1 .. Len(sent) : packet[i] = sent[i]
    BY <1>1, <1>3, <2>1, TotalPadded DEF Zeroes
  <2>3. Len(packet) \in Word
    BY <1>1, <2>2, Bounds, MType DEF Word
  <2> QED
    BY <1>1, <2>1, <2>2, <2>3, Bounds DEF Padded
<1>4. \/ packet = sent
      \/ /\ sender = "peer" /\ kind \in {"udp", "tcp"}
         /\ \E n \in 1 .. MaxPad : packet = sent \o Zeroes(n)
  BY DEF WireInv, PacketOk
<1>5. ASSUME sender = "peer", kind \in {"udp", "tcp"},
             \E n \in 1 .. MaxPad : packet = sent \o Zeroes(n)
      PROVE  /\ Len(sent) \in 2 .. Len(packet) /\ Len(packet) \in Word
             /\ \A i \in 1 .. Len(sent) : packet[i] = sent[i]
             /\ Padded /\ Total(packet) = Total(sent)
             /\ \E n \in 1 .. MaxPad : Len(packet) = Len(sent) + n
  <2>1. PICK n \in 1 .. MaxPad : packet = sent \o Zeroes(n)
    BY <1>5
  <2> QED
    BY <1>3, <1>5, <2>1
<1>6. CASE sender = "peer" /\ kind \in {"udp", "tcp"}
           /\ \E n \in 1 .. MaxPad : packet = sent \o Zeroes(n)
  BY <1>1, <1>5, <1>6
<1> QED
  BY <1>2, <1>4, <1>6

\* The tests of xudp_in and xtcp_in, and what they mean.
LEMMA DatagramAccepted ==
    ASSUME NEW words \in Seq(Word), NEW len \in 1 .. Len(words), len \in Word,
           words = packet, words[1] # 0, kind \in {"udp", "tcp"},
           IF kind = "udp" THEN words[2] = len ELSE Len(words) = len
    PROVE  WeAccept <=> Same(Pseudo(kind, len) + Sums(words)[len], 0)
<1>1. len \in Nat /\ len <= Len(words) /\ Len(words) \in Nat
  BY LenProperties
<1>2. CASE kind = "udp"
  <2>1. Protocol(kind) = Udp
    BY <1>2 DEF Protocol
  <2>2. WeAccept <=> words[1] = NonZero(checksum_peso(There, Here, Udp, Sealed(words, 0), len))
    BY <1>1, <1>2 DEF WeAccept
  <2> QED
    BY <2>1, <2>2, DatagramTest
<1>3. CASE kind = "tcp"
  <2>1. Protocol(kind) = Tcp
    BY <1>3 DEF Protocol
  <2>2. Len(Sealed(words, 0)) = Len(words)
    BY <1>1, Unsealed
  <2>3. WeAccept <=> words[1] = NonZero(checksum_peso(There, Here, Tcp, Sealed(words, 0), len))
    BY <1>3, <2>2 DEF WeAccept
  <2> QED
    BY <2>1, <2>3, DatagramTest
<1> QED
  BY <1>2, <1>3

\* What arrives as it was sent, and a datagram also with zeroes behind it, is
\* never dropped: the two hosts agree about every checksum, for every width
\* of the words, every address and every content (the computations of
\* xip_out, reply_icmp_request, xudp_out, tcp_send; the tests of xip_in,
\* xudp_in, xtcp_in).  The exception is a message of xicmp_dest_unreach, but
\* for those whose sum is zero, which are accepted too.
LEMMA IntactOk == WireInv => IntactAccepted
<1> SUFFICES ASSUME WireInv, sent # <<>>, changes = 0, Padded => kind = "udp",
                    ~ (kind = "unreachable" /\ sent[1] \notin {0, M})
             PROVE  verdict # "dropped"
  BY DEF IntactAccepted, M
<1>1. SentOk /\ VerdictOk /\ kind \in Kind /\ sender \in {"us", "peer"}
  BY DEF WireInv, TypeOK
<1>2. /\ sent \in Seq(Word) /\ packet \in Seq(Word)
      /\ Len(sent) \in 2 .. Len(packet) /\ Len(packet) \in Word
      /\ \A i \in 1 .. Len(sent) : packet[i] = sent[i]
      /\ ~ Padded => packet = sent
      /\ Padded => sender = "peer"
      /\ Len(sent) \in Nat /\ Len(packet) \in Nat
  BY Unchanged, LenProperties
<1> SUFFICES Accepts
  BY <1>1 DEF VerdictOk
<1>3. CASE sender = "us"
  <2>1. packet = sent /\ Consistent(kind, sent)
    BY <1>1, <1>2, <1>3 DEF SentOk
  <2> QED
    BY <1>3, <2>1 DEF Accepts, PeerAccepts
<1>4. CASE sender = "peer" /\ kind = "ip"
  <2>1. packet = sent /\ Consistent("ip", sent) /\ sent[1] # M /\ sent[2] # 0
    BY <1>1, <1>2, <1>4 DEF SentOk
  <2>2. 2 \in 2 .. Len(sent) /\ Len(sent) >= 1
    BY <1>2
  <2>3. sent[1] = checksum16(Sealed(sent, 0), 0, TRUE)
    BY <1>2, <2>1, <2>2, HeaderTest
  <2> QED
    BY <1>4, <2>1, <2>3 DEF Accepts, WeAccept
<1>5. CASE sender = "peer" /\ kind \in {"udp", "tcp"}
  <2> DEFINE len == Len(sent)
  <2>1. len \in Nat /\ len \in 1 .. Len(packet) /\ len \in Word /\ len \in 0 .. len
    BY <1>2, MType DEF Word
  <2>2. IF kind = "udp" THEN packet[2] = len ELSE Len(packet) = len
    <3>1. CASE kind = "udp"
      <4>1. packet[2] = sent[2] /\ sent[2] = len
        BY <1>1, <1>2, <3>1 DEF SentOk
      <4> QED
        BY <3>1, <4>1
    <3>2. CASE kind = "tcp"
      BY <1>2, <3>2
    <3> QED
      BY <1>5, <3>1, <3>2
  <2>3. CASE packet[1] = 0
    <3>1. packet[2] <= Len(packet) \/ kind = "tcp"
      BY <1>2, <1>5, <2>1, <2>2
    <3> QED
      BY <1>5, <2>3, <3>1 DEF Accepts, WeAccept
  <2>4. CASE packet[1] # 0
    <3>1. packet[1] = sent[1]
      BY <1>2
    <3>2. Consistent(kind, sent)
      BY <1>1, <2>4, <3>1 DEF SentOk
    <3>3. Sums(packet)[len] = Sums(sent)[len]
      BY <1>2, <2>1, SumsPrefix
    <3>4. Same(Pseudo(kind, len) + Sums(packet)[len], 0)
      BY <1>1, <1>2, <3>2, <3>3, ConsistentIs DEF Total
    <3>5. WeAccept
      BY <1>2, <1>5, <2>1, <2>2, <2>4, <3>4, DatagramAccepted
    <3> QED
      BY <1>5, <3>5 DEF Accepts
  <2> QED
    BY <2>3, <2>4
<1>6. sender = "us" \/ kind \in {"ip", "udp", "tcp"}
  BY <1>1 DEF SentOk
<1> QED
  BY <1>1, <1>3, <1>4, <1>5, <1>6

THEOREM IntactNeverDropped == WireSpec => []IntactAccepted
BY WireInvariant, IntactOk, PTL

\* Zeroes that the link adds to a segment change its length, and with it the
\* sum.
LEMMA PaddingNoticed ==
    ASSUME WireInv, sent # <<>>, changes = 0, verdict = "accepted", ~ Unchecked, Padded
    PROVE  kind = "udp"
<1> SUFFICES ASSUME kind = "tcp" PROVE FALSE
  BY Unchanged
<1>1. /\ SentOk /\ kind \in Kind /\ Accepts /\ sender = "peer"
      /\ sent \in Seq(Word) /\ packet \in Seq(Word)
      /\ Len(sent) \in 2 .. Len(packet) /\ Len(packet) \in Word
      /\ Total(packet) = Total(sent)
      /\ Len(sent) \in Nat /\ Len(packet) \in Nat
  BY Unchanged, LenProperties DEF WireInv, TypeOK, VerdictOk
<1>2. PICK n \in 1 .. MaxPad : Len(packet) = Len(sent) + n
  BY Unchanged
<1>3. packet[1] # 0
  BY <1>1 DEF Unchecked
<1>4. Len(packet) \in 1 .. Len(packet)
  BY <1>1
<1>5. WeAccept
  BY <1>1 DEF Accepts
<1>6. Same(Pseudo(kind, Len(packet)) + Total(packet), 0)
  BY <1>1, <1>3, <1>4, <1>5, DatagramAccepted DEF Total
<1>7. Same(Pseudo(kind, Len(sent)) + Total(sent), 0)
  <2>1. Consistent(kind, sent)
    BY <1>1 DEF SentOk
  <2> QED
    BY <2>1, <1>1, ConsistentIs
<1> DEFINE P == Pseudo(kind, Len(sent))
           t == Total(sent)
           rest == P + t
<1>8. n \in Nat /\ Pseudo(kind, Len(packet)) = P + n /\ P \in Nat /\ t \in Nat
  <2>1. n \in Nat
    BY Bounds
  <2> QED
    BY <1>1, <1>2, <2>1, PseudoType, TotalType
<1> HIDE DEF P, t
<1>9. Same((P + n) + t, 0) /\ Same(P + t, 0)
  BY <1>1, <1>6, <1>7, <1>8 DEF t, P
<1>10. (P + n) + t = n + rest /\ P + t = 0 + rest /\ rest \in Int /\ n \in Int /\ 0 \in Int
  BY <1>8
<1> HIDE DEF rest
<1>11. Same(n, 0)
  BY <1>9, <1>10, SameDiff
<1>12. n \in Word /\ 0 \in Word /\ n # 0 /\ n # M
  BY <1>8, Bounds, MType DEF Word
<1> QED
  BY <1>11, <1>12, SameWords, MType

\* A changed word is noticed, but for a zero that became the other zero.
LEMMA ChangeNoticed ==
    ASSUME WireInv, sent # <<>>, verdict = "accepted", ~ Unchecked,
           NEW i \in 2 .. Len(sent), NEW w \in Word, packet = [sent EXCEPT ![i] = w],
           kind # "unreachable", ~ (kind = "udp" /\ i = 2 /\ sender = "peer")
    PROVE  \/ w = sent[i]
           \/ (w = 0 /\ sent[i] = M) \/ (w = M /\ sent[i] = 0)
<1>1. /\ SentOk /\ kind \in Kind /\ Accepts /\ sender \in {"us", "peer"}
      /\ sent \in Seq(Word) /\ packet \in Seq(Word) /\ Len(sent) \in Nat
      /\ Len(sent) \in 2 .. MaxWords + 2
  BY LenProperties DEF WireInv, TypeOK, VerdictOk, SentOk
<1>2. i \in 1 .. Len(sent) /\ 1 \in 1 .. Len(sent) /\ 2 \in 1 .. Len(sent) /\ i # 1
  BY <1>1
<1>3. /\ Len(packet) = Len(sent) /\ packet[1] = sent[1]
      /\ i # 2 => packet[2] = sent[2]
  BY <1>1, <1>2, TotalChanged
<1>4. Consistent(kind, packet)
  <2>1. CASE sender = "us"
    BY <1>1, <2>1 DEF Accepts, PeerAccepts, Unchecked
  <2>2. CASE sender = "peer" /\ kind = "ip"
    <3>1. packet[1] = checksum16(Sealed(packet, 0), 0, TRUE)
      BY <1>1, <2>2 DEF Accepts, WeAccept
    <3>2. Len(packet) >= 1
      BY <1>1, <1>3
    <3> QED
      BY <1>1, <2>2, <3>1, <3>2, HeaderTest
  <2>3. CASE sender = "peer" /\ kind \in {"udp", "tcp"}
    <3> DEFINE len == Len(packet)
    <3>1. len \in 1 .. Len(packet) /\ len \in Word
      BY <1>1, <1>3, Bounds, MType DEF Word
    <3>2. IF kind = "udp" THEN packet[2] = len ELSE Len(packet) = len
      BY <1>1, <1>3, <2>3 DEF SentOk
    <3>3. packet[1] # 0 /\ WeAccept
      BY <1>1, <2>3 DEF Accepts, Unchecked
    <3>4. Same(Pseudo(kind, len) + Total(packet), 0)
      BY <1>1, <2>3, <3>1, <3>2, <3>3, DatagramAccepted DEF Total
    <3> QED
      BY <1>1, <3>4, ConsistentIs
  <2> QED
    BY <1>1, <2>1, <2>2, <2>3 DEF Kind, SentOk
<1>5. Consistent(kind, sent)
  <2>1. CASE sender = "peer" /\ kind = "udp" /\ sent[1] = 0
    BY <1>3, <2>1 DEF Unchecked
  <2> QED
    BY <1>1, <2>1 DEF SentOk
<1> QED
  BY <1>1, <1>2, <1>4, <1>5, ConsistentChange

\* If the link changes no more than one word of a packet, what is accepted is
\* what was sent, but for the exceptions that NothingForeign names: the sums
\* notice every other change of one word, wherever it is and whatever the
\* size of the packet.  (Two changes can make up for each other.)
LEMMA ForeignOk == MaxChanges <= 1 /\ WireInv => NothingForeign
<1> SUFFICES ASSUME MaxChanges <= 1, WireInv, verdict = "accepted", sent # <<>>, ~ Unchecked,
                    kind # "unreachable"
             PROVE  /\ Padded => kind = "udp"
                    /\ \A i \in Changed : \/ {packet[i], sent[i]} = {0, Base - 1}
                                          \/ kind = "udp" /\ i = 2 /\ sender = "peer"
  BY DEF NothingForeign
<1>1. /\ sent \in Seq(Word) /\ packet \in Seq(Word) /\ PacketOk
      /\ changes \in 0 .. MaxChanges
      /\ Len(sent) \in Nat /\ DOMAIN sent = 1 .. Len(sent)
  BY LenProperties DEF WireInv, TypeOK
<1>2. CASE changes = 0
  <2>1. \A i \in DOMAIN sent : packet[i] = sent[i]
    BY <1>1, <1>2, Unchanged
  <2>2. Padded => kind = "udp"
    BY <1>2, PaddingNoticed
  <2> QED
    BY <2>1, <2>2 DEF Changed
<1>3. CASE changes = 1
  <2>1. PICK i \in 1 .. Len(sent), w \in Word : packet = [sent EXCEPT ![i] = w]
    BY <1>1, <1>3 DEF PacketOk
  <2>2. /\ Len(packet) = Len(sent)
        /\ \A j \in 1 .. Len(sent) : packet[j] = IF j = i THEN w ELSE sent[j]
    BY <1>1, <2>1, TotalChanged
  <2>3. ~ Padded
    BY <1>1, <2>2 DEF Padded
  <2>4. ASSUME NEW j \in Changed, ~ (kind = "udp" /\ j = 2 /\ sender = "peer")
        PROVE  {packet[j], sent[j]} = {0, Base - 1}
    <3>1. j \in DOMAIN sent /\ j # 1 /\ packet[j] # sent[j]
      BY DEF Changed
    <3>2. j = i /\ packet[j] = w /\ j \in 2 .. Len(sent) /\ w # sent[j]
      BY <1>1, <2>2, <3>1
    <3>3. (w = 0 /\ sent[i] = M) \/ (w = M /\ sent[i] = 0)
      BY <2>1, <2>4, <3>2, ChangeNoticed
    <3> QED
      BY <3>2, <3>3 DEF M
  <2> QED
    BY <2>3, <2>4
<1>4. changes = 0 \/ changes = 1
  BY <1>1, Bounds
<1> QED
  BY <1>2, <1>3, <1>4

THEOREM OneChangeNoticed == MaxChanges <= 1 => (WireSpec => []NothingForeign)
<1> SUFFICES ASSUME MaxChanges <= 1 PROVE WireSpec => []NothingForeign
  OBVIOUS
<1>1. WireInv => NothingForeign
  BY ForeignOk
<1> QED
  BY <1>1, WireInvariant, PTL
=============================================================================
