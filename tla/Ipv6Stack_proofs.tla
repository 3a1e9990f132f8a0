--------------------------- MODULE Ipv6Stack_proofs ---------------------------
(***************************************************************************)
(* What holds of the checksums, of the neighbor cache and of the answers   *)
(* for any number of entries, any stations and addresses on the link, any  *)
(* width of the counters and any length of a packet that fits its header.  *)
(*                                                                         *)
(* First the checksum: the sum over a block is a fold over the set of its  *)
(* words, which SumTheorems turns into a running sum.  A packet fits when  *)
(* that sum is a multiple of 2^16 - 1 and not 0.  The receiver reads the   *)
(* words the other way round, which multiplies the sum by 256 and leaves   *)
(* it a multiple; a change of one byte by less than 256, or by less than   *)
(* 256 times 256, does not.  Then every packet the model receives and      *)
(* sends is shown to be completed by prepareTransmit(), and then comes the *)
(* invariant of the cache and of what is sent.                             *)
(***************************************************************************)
EXTENDS Ipv6Stack, SumTheorems, SequenceTheorems, TLAPS

-----------------------------------------------------------------------------
(* The two sums over a block of bytes: of the words the generator adds up, *)
(* and of the bytes as the receiver weighs them.                           *)

WordCount(bytes) == (Len(bytes) + 1) \div 2

WordAt(bytes, k) ==
    bytes[2 * k - 1] + (IF 2 * k <= Len(bytes) THEN 256 * bytes[2 * k] ELSE 0)

Words(bytes) == [k \in 1 .. WordCount(bytes) |-> WordAt(bytes, k)]

ValueAt(bytes, i) == IF i % 2 = 1 THEN 256 * bytes[i] ELSE bytes[i]

Values(bytes) == [i \in 1 .. Len(bytes) |-> ValueAt(bytes, i)]

WordsFold(bytes, fold) ==
    fold = [set \in SUBSET (1 .. WordCount(bytes)) |->
                IF set = {} THEN 0
                ELSE WordAt(bytes, Chosen(set)) + fold[set \ {Chosen(set)}]]

ValuesFold(bytes, fold) ==
    fold = [set \in SUBSET DOMAIN bytes |->
                IF set = {} THEN 0
                ELSE ValueAt(bytes, Chosen(set)) + fold[set \ {Chosen(set)}]]

(* A word lies in the block, with its high byte or without.                *)
LEMMA BytesType ==
    ASSUME NEW bytes \in Seq(Byte)
    PROVE  /\ Len(bytes) \in Nat /\ DOMAIN bytes = 1 .. Len(bytes)
           /\ \A i \in 1 .. Len(bytes) :
                bytes[i] \in Int /\ 0 <= bytes[i] /\ bytes[i] <= 255
           /\ WordCount(bytes) \in Nat
           /\ 2 * WordCount(bytes) <= Len(bytes) + 1
           /\ Len(bytes) <= 2 * WordCount(bytes)
           /\ \A k \in 1 .. WordCount(bytes) :
                /\ 2 * k - 1 \in 1 .. Len(bytes)
                /\ 2 * k <= Len(bytes) => 2 * k \in 1 .. Len(bytes)
  <1>1. Len(bytes) \in Nat /\ DOMAIN bytes = 1 .. Len(bytes)
    BY LenProperties
  <1>2. \A i \in 1 .. Len(bytes) : bytes[i] \in Byte
    BY ElementOfSeq
  <1>3. \A b \in Byte : b \in Int /\ 0 <= b /\ b <= 255
    BY DEF Byte
  <1>4. WordCount(bytes) \in Nat /\ 2 * WordCount(bytes) <= Len(bytes) + 1
        /\ Len(bytes) <= 2 * WordCount(bytes)
    BY <1>1 DEF WordCount
  <1>5. ASSUME NEW k \in 1 .. WordCount(bytes)
        PROVE  /\ 2 * k - 1 \in 1 .. Len(bytes)
               /\ 2 * k <= Len(bytes) => 2 * k \in 1 .. Len(bytes)
    BY <1>1, <1>4
  <1> QED
    BY <1>1, <1>2, <1>3, <1>4, <1>5

LEMMA WordBounds ==
    ASSUME NEW bytes \in Seq(Byte), NEW k \in 1 .. WordCount(bytes)
    PROVE  /\ Words(bytes)[k] = WordAt(bytes, k)
           /\ WordAt(bytes, k) \in Int
           /\ 0 <= WordAt(bytes, k) /\ WordAt(bytes, k) <= 65535
  <1>1. Words(bytes)[k] = WordAt(bytes, k)
    BY DEF Words
  <1>2. bytes[2 * k - 1] \in Int /\ 0 <= bytes[2 * k - 1] /\ bytes[2 * k - 1] <= 255
    BY BytesType
  <1>3. 2 * k <= Len(bytes) =>
            bytes[2 * k] \in Int /\ 0 <= bytes[2 * k] /\ bytes[2 * k] <= 255
    BY BytesType
  <1> QED
    BY <1>1, <1>2, <1>3 DEF WordAt

LEMMA ValueType ==
    ASSUME NEW bytes \in Seq(Byte), NEW i \in 1 .. Len(bytes)
    PROVE  Values(bytes)[i] = ValueAt(bytes, i) /\ ValueAt(bytes, i) \in Int
  <1>1. Values(bytes)[i] = ValueAt(bytes, i)
    BY DEF Values
  <1>2. bytes[i] \in Int
    BY BytesType
  <1> QED
    BY <1>1, <1>2 DEF ValueAt

(* IpChecksumGenerator::input() adds up the words one after the other.     *)
LEMMA SumOfWordsIsTotal ==
    ASSUME NEW bytes \in Seq(Byte)
    PROVE  SumOfWords(bytes) = Total(Words(bytes), WordCount(bytes))
  <1> DEFINE n == WordCount(bytes)
             fold == CHOOSE f : WordsFold(bytes, f)
  <1>1. SumOfWords(bytes) = fold[1 .. n]
    BY DEF SumOfWords, MapThenSumSet, MapThenFoldSet, WordsFold, WordAt, WordCount, Chosen
  <1>2. n \in Nat /\ \A k \in 1 .. n : Words(bytes)[k] = WordAt(bytes, k)
                                     /\ Words(bytes)[k] \in Int
    BY BytesType, WordBounds
  <1>3. \A f : WordsFold(bytes, f) <=> FoldsTerms(Words(bytes), n, f)
    <2>1. \A set \in SUBSET (1 .. n) : set # {} => Chosen(set) \in 1 .. n
      BY DEF Chosen
    <2>2. \A set \in SUBSET (1 .. n) : set # {} =>
              Words(bytes)[Chosen(set)] = WordAt(bytes, Chosen(set))
      BY <1>2, <2>1
    <2> QED
      BY <2>2 DEF WordsFold, FoldsTerms
  <1>4. \E f : FoldsTerms(Words(bytes), n, f)
    BY <1>2, FoldExists
  <1>5. FoldsTerms(Words(bytes), n, fold)
    BY <1>3, <1>4
  <1> HIDE DEF fold, n
  <1>6. fold[1 .. n] = Total(Words(bytes), n)
    BY <1>2, <1>5, FoldIsTotal
  <1> QED
    BY <1>1, <1>6 DEF n

LEMMA ValuesFoldIsTotal ==
    ASSUME NEW bytes \in Seq(Byte), NEW fold, ValuesFold(bytes, fold)
    PROVE  fold[DOMAIN bytes] = Total(Values(bytes), Len(bytes))
  <1> DEFINE n == Len(bytes)
  <1>1. n \in Nat /\ DOMAIN bytes = 1 .. n
    BY BytesType
  <1>2. \A i \in 1 .. n : Values(bytes)[i] = ValueAt(bytes, i) /\ Values(bytes)[i] \in Int
    BY ValueType
  <1>3. FoldsTerms(Values(bytes), n, fold)
    <2>1. \A set \in SUBSET (1 .. n) : set # {} => Chosen(set) \in 1 .. n
      BY DEF Chosen
    <2>2. \A set \in SUBSET (1 .. n) : set # {} =>
              Values(bytes)[Chosen(set)] = ValueAt(bytes, Chosen(set))
      BY <1>2, <2>1
    <2> QED
      BY <1>1, <2>2 DEF ValuesFold, FoldsTerms
  <1> HIDE DEF n
  <1>4. fold[1 .. n] = Total(Values(bytes), n)
    BY <1>1, <1>2, <1>3, FoldIsTotal
  <1> QED
    BY <1>1, <1>4 DEF n

LEMMA ValuesFoldExists ==
    ASSUME NEW bytes \in Seq(Byte)
    PROVE  \E fold : ValuesFold(bytes, fold)
  <1> DEFINE n == Len(bytes)
  <1>1. n \in Nat /\ DOMAIN bytes = 1 .. n
    BY BytesType
  <1>2. \A i \in 1 .. n : Values(bytes)[i] = ValueAt(bytes, i) /\ Values(bytes)[i] \in Int
    BY ValueType
  <1>3. \A fold : FoldsTerms(Values(bytes), n, fold) => ValuesFold(bytes, fold)
    <2>1. \A set \in SUBSET (1 .. n) : set # {} => Chosen(set) \in 1 .. n
      BY DEF Chosen
    <2>2. \A set \in SUBSET (1 .. n) : set # {} =>
              Values(bytes)[Chosen(set)] = ValueAt(bytes, Chosen(set))
      BY <1>2, <2>1
    <2> QED
      BY <1>1, <2>2 DEF ValuesFold, FoldsTerms
  <1>4. \E fold : FoldsTerms(Values(bytes), n, fold)
    BY <1>1, <1>2, FoldExists
  <1> QED
    BY <1>3, <1>4

(* Two bytes per word, of at most 16 bits.                                 *)
LEMMA SumOfWordsBounds ==
    ASSUME NEW bytes \in Seq(Byte)
    PROVE  /\ SumOfWords(bytes) \in Int
           /\ 0 <= SumOfWords(bytes)
           /\ SumOfWords(bytes) <= 65535 * WordCount(bytes)
  <1>1. \A k \in 1 .. WordCount(bytes) : /\ Words(bytes)[k] \in Int
                                        /\ 0 <= Words(bytes)[k]
                                        /\ Words(bytes)[k] <= 65535
    BY WordBounds
  <1>2. WordCount(bytes) \in Nat
    BY BytesType
  <1>3. /\ Total(Words(bytes), WordCount(bytes)) \in Int
        /\ 0 <= Total(Words(bytes), WordCount(bytes))
        /\ Total(Words(bytes), WordCount(bytes)) <= 65535 * WordCount(bytes)
    BY <1>1, <1>2, TotalBounds
  <1> QED
    BY <1>3, SumOfWordsIsTotal

(* What one byte contributes: a change of it is the change of the sum, in  *)
(* the low or in the high byte of a word.                                  *)
LEMMA SumAfterByte ==
    ASSUME NEW bytes \in Seq(Byte), NEW j \in 1 .. Len(bytes), NEW b \in Byte
    PROVE  /\ [bytes EXCEPT ![j] = b] \in Seq(Byte)
           /\ Len([bytes EXCEPT ![j] = b]) = Len(bytes)
           /\ SumOfWords([bytes EXCEPT ![j] = b])
                = SumOfWords(bytes) + (IF j % 2 = 1 THEN b - bytes[j]
                                       ELSE 256 * b - 256 * bytes[j])
  <1> DEFINE other == [bytes EXCEPT ![j] = b]
             n == WordCount(bytes)
             at == (j + 1) \div 2
  <1>1. other \in Seq(Byte) /\ Len(other) = Len(bytes)
    BY ExceptSeq
  <1>2. other[j] = b /\ \A i \in 1 .. Len(bytes) : i # j => other[i] = bytes[i]
    BY BytesType
  <1>3. WordCount(other) = n
    BY <1>1 DEF WordCount
  <1>4. b \in Int /\ bytes[j] \in Int /\ j \in Nat /\ Len(bytes) \in Nat
    BY BytesType DEF Byte
  <1>5. at \in 1 .. n /\ at \in Nat
    BY <1>4 DEF WordCount
  <1> HIDE DEF other
  <1>6. \A k \in 1 .. n : k # at => WordAt(other, k) = WordAt(bytes, k)
    <2> SUFFICES ASSUME NEW k \in 1 .. n, k # at
                 PROVE  WordAt(other, k) = WordAt(bytes, k)
      OBVIOUS
    <2>1. 2 * k - 1 # j /\ 2 * k # j
      BY <1>4
    <2>2. 2 * k - 1 \in 1 .. Len(bytes) /\ (2 * k <= Len(bytes) => 2 * k \in 1 .. Len(bytes))
      BY BytesType
    <2> QED
      BY <1>1, <1>2, <2>1, <2>2 DEF WordAt
  <1>7. WordAt(other, at) = WordAt(bytes, at)
          + (IF j % 2 = 1 THEN b - bytes[j] ELSE 256 * b - 256 * bytes[j])
    <2>1. 2 * at - 1 \in 1 .. Len(bytes) /\ (2 * at <= Len(bytes) => 2 * at \in 1 .. Len(bytes))
      BY <1>5, BytesType
    <2>2. CASE j % 2 = 1
      <3>1. 2 * at - 1 = j /\ 2 * at # j
        BY <1>4, <2>2
      <3> HIDE DEF at
      <3>2. other[2 * at - 1] = b /\ bytes[2 * at - 1] = bytes[j]
            /\ (2 * at <= Len(bytes) => other[2 * at] = bytes[2 * at] /\ bytes[2 * at] \in Int)
        BY <1>2, <2>1, <3>1, BytesType
      <3> QED
        BY <1>1, <1>4, <2>2, <3>2 DEF WordAt
    <2>3. CASE j % 2 # 1
      <3>1. 2 * at - 1 # j /\ 2 * at = j
        BY <1>4, <2>3
      <3> HIDE DEF at
      <3>2. other[2 * at] = b /\ bytes[2 * at] = bytes[j] /\ 2 * at <= Len(bytes)
            /\ other[2 * at - 1] = bytes[2 * at - 1] /\ bytes[2 * at - 1] \in Int
        BY <1>2, <2>1, <3>1, BytesType
      <3> QED
        BY <1>1, <1>4, <2>3, <3>2 DEF WordAt
    <2> QED
      BY <2>2, <2>3
  <1> HIDE DEF at, n
  <1>8. n \in Nat /\ \A k \in 1 .. n : Words(bytes)[k] = WordAt(bytes, k)
                                     /\ Words(bytes)[k] \in Int
    BY BytesType, WordBounds DEF n
  <1>9. \A k \in 1 .. n : Words(other)[k] = WordAt(other, k) /\ Words(other)[k] \in Int
    BY <1>1, <1>3, WordBounds
  <1>10. \A k \in 1 .. n : k # at => Words(other)[k] = Words(bytes)[k]
    BY <1>6, <1>8, <1>9
  <1>11. Total(Words(other), n) = Total(Words(bytes), n)
                                    + (Words(other)[at] - Words(bytes)[at])
    <2>1. Total(Words(other), n) = Total(Words(bytes), n)
            + (IF at \in 1 .. n THEN Words(other)[at] - Words(bytes)[at] ELSE 0)
      <3>1. /\ \A k \in 1 .. n : Words(bytes)[k] \in Int
            /\ \A k \in 1 .. n : Words(other)[k] \in Int
        BY <1>8, <1>9
      <3> QED
        BY <1>5, <1>8, <1>10, <3>1, TotalsDiffer, Zenon
    <2> QED
      BY <1>5, <2>1
  <1>12. SumOfWords(other) = Total(Words(other), n) /\ SumOfWords(bytes) = Total(Words(bytes), n)
    BY <1>1, <1>3, SumOfWordsIsTotal DEF n
  <1>13. SumOfWords(bytes) \in Int /\ WordAt(bytes, at) \in Int
    BY <1>5, <1>8, SumOfWordsBounds
  <1>14. SumOfWords(other) = SumOfWords(bytes) + (IF j % 2 = 1 THEN b - bytes[j]
                                       ELSE 256 * b - 256 * bytes[j])
    <2> DEFINE d == IF j % 2 = 1 THEN b - bytes[j] ELSE 256 * b - 256 * bytes[j]
    <2>1. d \in Int
      BY <1>4
    <2>2. WordAt(other, at) = WordAt(bytes, at) + d
      BY <1>7
    <2> HIDE DEF d
    <2>3. SumOfWords(other) = SumOfWords(bytes) + d
      BY <1>5, <1>8, <1>9, <1>11, <1>12, <1>13, <2>1, <2>2
    <2> QED
      BY <2>3 DEF d
  <1> QED
    BY <1>1, <1>14 DEF other

-----------------------------------------------------------------------------
(* Weighing the bytes the other way round multiplies the sum by 256, modulo*)
(* 2^16 - 1.                                                               *)

EndOfWord(bytes, k) == IF 2 * k <= Len(bytes) THEN 2 * k ELSE Len(bytes)

(* The same remainder by 2^16 - 1.                                         *)
ApartBy(a, b, e) == a = b - 65535 * e

Congruent(a, b) == \E e \in Int : ApartBy(a, b, e)

LEMMA CongruentBy ==
    ASSUME NEW a, NEW b, NEW e \in Int, ApartBy(a, b, e)
    PROVE  Congruent(a, b)
  BY DEF Congruent

SwappedAt(bytes, k) ==
    Congruent(Total(Values(bytes), EndOfWord(bytes, k)), 256 * Total(Words(bytes), k))

LEMMA SwappedSum ==
    ASSUME NEW bytes \in Seq(Byte)
    PROVE  Congruent(Total(Values(bytes), Len(bytes)), 256 * SumOfWords(bytes))
  <1> DEFINE n == WordCount(bytes)
             good == { k \in Nat : SwappedAt(bytes, k) }
             V(i) == Total(Values(bytes), i)
             W(k) == Total(Words(bytes), k)
  <1>1. n \in Nat /\ Len(bytes) \in Nat /\ 2 * n <= Len(bytes) + 1 /\ Len(bytes) <= 2 * n
    BY BytesType
  <1>2. /\ W(0) = 0
        /\ \A k \in 0 .. n : W(k) \in Int
        /\ \A k \in 1 .. n : W(k) = W(k - 1) + WordAt(bytes, k)
    <2>1. \A k \in 1 .. n : Words(bytes)[k] \in Int /\ Words(bytes)[k] = WordAt(bytes, k)
      BY WordBounds
    <2>2. \A k \in 1 .. n : Words(bytes)[k] \in Int
      BY <2>1
    <2>3. /\ W(0) = 0
          /\ \A k \in 0 .. n : W(k) \in Int
          /\ \A k \in 1 .. n : W(k) = W(k - 1) + Words(bytes)[k]
      BY <1>1, <2>2, TotalSteps
    <2> QED
      BY <2>1, <2>3
  <1>3. /\ V(0) = 0
        /\ \A i \in 0 .. Len(bytes) : V(i) \in Int
        /\ \A i \in 1 .. Len(bytes) : V(i) = V(i - 1) + ValueAt(bytes, i)
    <2>1. \A i \in 1 .. Len(bytes) :
            Values(bytes)[i] \in Int /\ Values(bytes)[i] = ValueAt(bytes, i)
      BY ValueType
    <2>2. \A i \in 1 .. Len(bytes) : Values(bytes)[i] \in Int
      BY <2>1
    <2>3. /\ V(0) = 0
          /\ \A i \in 0 .. Len(bytes) : V(i) \in Int
          /\ \A i \in 1 .. Len(bytes) : V(i) = V(i - 1) + Values(bytes)[i]
      BY <1>1, <2>2, TotalSteps
    <2> QED
      BY <2>1, <2>3
  <1> HIDE DEF V, W
  <1>4. \A k \in Nat : SwappedAt(bytes, k) <=> Congruent(V(EndOfWord(bytes, k)), 256 * W(k))
    BY DEF SwappedAt, V, W
  <1>5. 0 \in good
    <2>1. Congruent(0, 0)
      <3>1. ApartBy(0, 0, 0)
        BY DEF ApartBy
      <3> QED
        BY <3>1, CongruentBy
    <2>2. EndOfWord(bytes, 0) = 0
      BY <1>1 DEF EndOfWord
    <2>3. V(0) = 0 /\ 256 * W(0) = 0
      BY <1>2, <1>3
    <2>4. SwappedAt(bytes, 0)
      BY <1>4, <2>1, <2>2, <2>3
    <2> QED
      BY <2>4
  <1>6. \A k \in 1 .. n : k - 1 \in good => k \in good
    <2> SUFFICES ASSUME NEW k \in 1 .. n, SwappedAt(bytes, k - 1)
                 PROVE  SwappedAt(bytes, k)
      OBVIOUS
    <2>1. 2 * k - 1 \in 1 .. Len(bytes) /\ 2 * (k - 1) <= Len(bytes)
          /\ 2 * (k - 1) \in 0 .. Len(bytes)
      BY <1>1
    <2>2. PICK e \in Int : ApartBy(V(2 * (k - 1)), 256 * W(k - 1), e)
      <3>1. k - 1 \in Nat /\ EndOfWord(bytes, k - 1) = 2 * (k - 1)
        BY <2>1 DEF EndOfWord
      <3> QED
        BY <1>4, <2>1, <3>1 DEF Congruent
    <2>3. V(2 * k - 1) = V(2 * (k - 1)) + 256 * bytes[2 * k - 1]
      <3>1. (2 * k - 1) - 1 = 2 * (k - 1) /\ (2 * k - 1) % 2 = 1
        OBVIOUS
      <3>2. ValueAt(bytes, 2 * k - 1) = 256 * bytes[2 * k - 1]
        BY <3>1 DEF ValueAt
      <3> QED
        BY <1>3, <2>1, <3>1, <3>2
    <2> DEFINE v == V(2 * (k - 1))
               w == W(k - 1)
               low == bytes[2 * k - 1]
    <2>4. low \in Int /\ w \in Int /\ v \in Int
      <3>1. k - 1 \in 0 .. n
        BY <1>1
      <3>2. W(k - 1) \in Int
        BY <1>2, <3>1
      <3>3. V(2 * (k - 1)) \in Int
        BY <1>3, <2>1
      <3>4. low \in Int
        BY <2>1, BytesType
      <3> QED
        BY <3>2, <3>3, <3>4
    <2>5. W(k) = w + WordAt(bytes, k)
      BY <1>2
    <2>a. V(2 * k - 1) = v + 256 * low /\ ApartBy(v, 256 * w, e)
      BY <2>2, <2>3
    <2> DEFINE high == bytes[2 * k]
    <2> HIDE DEF v, w
    <2>6. CASE 2 * k <= Len(bytes)
      <3>1. bytes[2 * k] \in Int /\ 2 * k \in 1 .. Len(bytes)
        BY <2>6, BytesType
      <3>2. V(2 * k) = V(2 * k - 1) + bytes[2 * k]
        <4>1. (2 * k) % 2 = 0
          OBVIOUS
        <4>2. ValueAt(bytes, 2 * k) = bytes[2 * k]
          BY <4>1 DEF ValueAt
        <4> QED
          BY <1>3, <3>1, <4>2
      <3>3. WordAt(bytes, k) = bytes[2 * k - 1] + 256 * bytes[2 * k]
        BY <2>6 DEF WordAt
      <3>4. high \in Int /\ e \in Int
        BY <3>1
      <3>5. V(2 * k) = v + 256 * low + high /\ W(k) = w + (low + 256 * high)
        BY <2>5, <2>a, <3>2, <3>3
      <3> HIDE DEF low, high
      <3>6. Congruent(V(2 * k), 256 * W(k))
        <4>1. w \in Int /\ v \in Int /\ low \in Int
          BY <2>4 DEF low
        <4> DEFINE m == e + high
        <4>2. m \in Int
          BY <3>4
        <4>3. ApartBy(V(2 * k), 256 * W(k), m)
          BY <2>a, <3>4, <3>5, <4>1 DEF ApartBy
        <4> HIDE DEF m
        <4> QED
          BY <4>2, <4>3, CongruentBy
      <3>7. EndOfWord(bytes, k) = 2 * k /\ k \in Nat
        BY <2>6 DEF EndOfWord
      <3> QED
        BY <1>4, <3>6, <3>7
    <2>7. CASE ~(2 * k <= Len(bytes))
      <3>1. WordAt(bytes, k) = bytes[2 * k - 1]
        BY <2>4, <2>7 DEF WordAt
      <3>2. Len(bytes) = 2 * k - 1
        BY <1>1, <2>1, <2>7
      <3>3. Congruent(V(Len(bytes)), 256 * W(k))
        <4>1. V(Len(bytes)) = v + 256 * low /\ W(k) = w + low
          BY <2>5, <2>a, <3>1, <3>2
        <4> HIDE DEF low
        <4>2. ApartBy(v + 256 * low, 256 * (w + low), e)
          BY <2>4, <2>a DEF ApartBy
        <4>3. Congruent(v + 256 * low, 256 * (w + low))
          BY <4>2, CongruentBy, Zenon
        <4> QED
          BY <4>1, <4>3
      <3>4. EndOfWord(bytes, k) = Len(bytes) /\ k \in Nat
        BY <2>7 DEF EndOfWord
      <3> QED
        BY <1>4, <3>3, <3>4
    <2> QED
      BY <2>6, <2>7
  <1>7. SwappedAt(bytes, n)
    <2> HIDE DEF good, n
    <2>1. 0 .. n \subseteq good
      BY <1>1, <1>5, <1>6, InductionUpTo
    <2>2. n \in good
      BY <1>1, <2>1
    <2> QED
      BY <2>2 DEF good
  <1>8. Congruent(V(Len(bytes)), 256 * W(n))
    <2>1. EndOfWord(bytes, n) = Len(bytes)
      BY <1>1 DEF EndOfWord
    <2> QED
      BY <1>1, <1>4, <1>7, <2>1
  <1>9. W(n) = SumOfWords(bytes)
    BY SumOfWordsIsTotal DEF W
  <1> QED
    BY <1>8, <1>9 DEF V

(* The carries of a sum of 32 bits are added until there are none: the     *)
(* result has 16 bits and the remainder of the sum by 2^16 - 1, of which   *)
(* there are two forms for 0, and the sum decides which.                   *)
CarriesAdded(x) == (x \div 65536) + (x % 65536)

Carries(x) == x \div 65536
Rest(x) == x % 65536

LEMMA CarriesSplit ==
    ASSUME NEW x \in Nat
    PROVE  /\ Carries(x) \in Nat /\ Rest(x) \in Nat /\ Rest(x) <= 65535
           /\ x = 65536 * Carries(x) + Rest(x)
           /\ CarriesAdded(x) = Carries(x) + Rest(x)
  BY DEF Carries, Rest, CarriesAdded

LEMMA FoldedIsRemainder ==
    ASSUME NEW x \in Nat, x < 65536 * 65536
    PROVE  /\ Folded(x) \in Int /\ 0 <= Folded(x) /\ Folded(x) <= 65535
           /\ Congruent(Folded(x), x)
           /\ x > 0 => Folded(x) > 0
  <1> DEFINE once == CarriesAdded(x)
             twice == CarriesAdded(once)
  <1>1. Folded(x) = twice
    BY DEF Folded, CarriesAdded
  <1> DEFINE q == Carries(x)
             r == Rest(x)
  <1>2. /\ q \in Nat /\ r \in Nat
        /\ x = 65536 * q + r /\ r <= 65535 /\ once = q + r
    BY CarriesSplit
  <1> HIDE DEF q, r
  <1>3. q <= 65535 /\ once \in Nat
    BY <1>2
  <1>a. once \in Nat
    BY <1>3
  <1> HIDE DEF once
  <1> DEFINE a == Carries(once)
             b == Rest(once)
  <1>4. /\ a \in Nat /\ b \in Nat
        /\ once = 65536 * a + b /\ b <= 65535 /\ twice = a + b
    BY <1>a, CarriesSplit
  <1> HIDE DEF twice, a, b
  <1>5. a <= 1 /\ (a = 1 => b <= 65534)
    BY <1>2, <1>3, <1>4
  <1> DEFINE m == q + a
  <1>6. ApartBy(twice, x, m) /\ m \in Int
    BY <1>2, <1>4 DEF ApartBy
  <1>7. twice \in Int /\ 0 <= twice /\ twice <= 65535
    BY <1>4, <1>5
  <1>8. x > 0 => twice > 0
    BY <1>2, <1>4
  <1> HIDE DEF m
  <1>9. Congruent(twice, x)
    BY <1>6, CongruentBy DEF Congruent
  <1> QED
    BY <1>1, <1>7, <1>8, <1>9

-----------------------------------------------------------------------------
(* Two sequences one after the other.                                      *)

LEMMA Concatenated ==
    ASSUME NEW S, NEW s \in Seq(S), NEW t \in Seq(S)
    PROVE  s \o t \in Seq(S) /\ Len(s \o t) = Len(s) + Len(t)
  BY ConcatProperties

LEMMA Joined ==
    ASSUME NEW S, NEW s \in Seq(S), NEW t \in Seq(S)
    PROVE  /\ s \o t \in Seq(S) /\ Len(s \o t) = Len(s) + Len(t)
           /\ \A i \in 1 .. Len(s) : (s \o t)[i] = s[i]
           /\ \A i \in 1 .. Len(t) : (s \o t)[Len(s) + i] = t[i]
  <1>1. Len(s) \in Nat /\ Len(t) \in Nat
    BY LenProperties
  <1>2. /\ s \o t \in Seq(S) /\ Len(s \o t) = Len(s) + Len(t)
        /\ \A i \in 1 .. Len(s) + Len(t) :
                (s \o t)[i] = IF i <= Len(s) THEN s[i] ELSE t[i - Len(s)]
    BY ConcatProperties
  <1>3. \A i \in 1 .. Len(s) : (s \o t)[i] = s[i]
    BY <1>1, <1>2
  <1>4. ASSUME NEW i \in 1 .. Len(t)
        PROVE  (s \o t)[Len(s) + i] = t[i]
    <2>1. Len(s) + i \in 1 .. Len(s) + Len(t) /\ ~(Len(s) + i <= Len(s))
          /\ (Len(s) + i) - Len(s) = i
      BY <1>1
    <2> QED
      BY <1>2, <2>1
  <1> QED
    BY <1>2, <1>3, <1>4

-----------------------------------------------------------------------------
(* The sum over a packet.                                                  *)

(* A length that fits the field of the header, and a multiple of 2^16 - 1. *)
Short(length) == length \in Nat /\ length <= 65535
Multiple(x) == x % 65535 = 0

Sixteen(address) == address \in Seq(Byte) /\ Len(address) = 16

(* A packet whose fields have the widths of its headers.                   *)
PacketOK(packet) ==
    /\ packet = [source |-> packet.source, destination |-> packet.destination,
                 nextHeader |-> packet.nextHeader, payload |-> packet.payload]
    /\ Sixteen(packet.source) /\ Sixteen(packet.destination)
    /\ packet.nextHeader \in Byte
    /\ packet.payload \in Seq(Byte) /\ Short(Len(packet.payload))

HeaderOf(packet) ==
    PseudoHeader(packet.source, packet.destination, Len(packet.payload), packet.nextHeader)

CheckedSum(packet) == SumOfWords(HeaderOf(packet)) + SumOfWords(packet.payload)

LastWords(length, protocol) == <<length \div 256, length % 256, 0, 0, 0, 0, 0, protocol>>

(* The same words as another host puts them.                               *)
PeerHeaderOf(packet) ==
    PeerPseudoHeader(packet.source, packet.destination, Len(packet.payload), packet.nextHeader)

PeerLastWords(length, protocol) ==
    <<0, 0, length \div 256, length % 256, 0, 0, 0, protocol>>

LEMMA LastWordsType ==
    ASSUME NEW length, Short(length), NEW protocol \in Byte
    PROVE  /\ LastWords(length, protocol) \in Seq(Byte) /\ Len(LastWords(length, protocol)) = 8
           /\ PeerLastWords(length, protocol) \in Seq(Byte)
           /\ Len(PeerLastWords(length, protocol)) = 8
  <1>1. length \div 256 \in Byte /\ length % 256 \in Byte /\ 0 \in Byte
    BY DEF Byte, Short
  <1>2. LastWords(length, protocol) \in Seq(Byte) /\ Len(LastWords(length, protocol)) = 8
    BY <1>1 DEF LastWords
  <1>3. PeerLastWords(length, protocol) \in Seq(Byte) /\ Len(PeerLastWords(length, protocol)) = 8
    BY <1>1 DEF PeerLastWords
  <1> QED
    BY <1>2, <1>3

LEMMA HeaderType ==
    ASSUME NEW source, Sixteen(source), NEW destination, Sixteen(destination),
           NEW length, Short(length), NEW protocol \in Byte
    PROVE  /\ PseudoHeader(source, destination, length, protocol) \in Seq(Byte)
           /\ Len(PseudoHeader(source, destination, length, protocol)) = 40
  <1> DEFINE last == LastWords(length, protocol)
             addresses == source \o destination
  <1>1. last \in Seq(Byte) /\ Len(last) = 8
    BY LastWordsType
  <1>2. PseudoHeader(source, destination, length, protocol) = addresses \o last
    BY DEF PseudoHeader, LastWords
  <1>3. /\ source \in Seq(Byte) /\ Len(source) = 16
        /\ destination \in Seq(Byte) /\ Len(destination) = 16
    BY DEF Sixteen
  <1> HIDE DEF last
  <1>4. addresses \in Seq(Byte) /\ Len(addresses) = 32
    <2>1. addresses \in Seq(Byte) /\ Len(addresses) = Len(source) + Len(destination)
      BY <1>3, Concatenated, Zenon
    <2> HIDE DEF addresses
    <2> QED
      BY <1>3, <2>1
  <1> HIDE DEF addresses
  <1>5. addresses \o last \in Seq(Byte) /\ Len(addresses \o last) = 40
    <2>1. addresses \o last \in Seq(Byte) /\ Len(addresses \o last) = Len(addresses) + Len(last)
      BY <1>1, <1>4, Concatenated, Zenon
    <2> QED
      BY <1>1, <1>4, <2>1
  <1> QED
    BY <1>2, <1>5

LEMMA PacketSums ==
    ASSUME NEW packet, PacketOK(packet)
    PROVE  /\ HeaderOf(packet) \in Seq(Byte) /\ Len(HeaderOf(packet)) = 40
           /\ packet.payload \in Seq(Byte) /\ Len(packet.payload) \in Nat
           /\ SumOfWords(HeaderOf(packet)) \in Nat /\ SumOfWords(packet.payload) \in Nat
           /\ CheckedSum(packet) \in Nat
           /\ CheckedSum(packet) < 65536 * 65536
  <1>1. packet.payload \in Seq(Byte) /\ Len(packet.payload) \in Nat
        /\ Len(packet.payload) <= 65535
    BY LenProperties DEF PacketOK, Short
  <1>2. HeaderOf(packet) \in Seq(Byte) /\ Len(HeaderOf(packet)) = 40
    BY HeaderType DEF PacketOK, HeaderOf
  <1>3. /\ SumOfWords(HeaderOf(packet)) \in Nat
        /\ SumOfWords(HeaderOf(packet)) <= 65535 * WordCount(HeaderOf(packet))
    BY <1>2, SumOfWordsBounds
  <1>4. /\ SumOfWords(packet.payload) \in Nat
        /\ SumOfWords(packet.payload) <= 65535 * WordCount(packet.payload)
    BY <1>1, SumOfWordsBounds
  <1>5. WordCount(HeaderOf(packet)) = 20
    BY <1>2 DEF WordCount
  <1>6. WordCount(packet.payload) \in Nat /\ WordCount(packet.payload) <= 32768
    BY <1>1, BytesType
  <1>7. SumOfWords(packet.payload) <= 65535 * 32768
    BY <1>4, <1>6
  <1> QED
    BY <1>1, <1>2, <1>3, <1>4, <1>5, <1>7 DEF CheckedSum

(* The test of a received packet: the sum is a multiple of 2^16 - 1.       *)
LEMMA FitsIsMultiple ==
    ASSUME NEW packet, PacketOK(packet)
    PROVE  ChecksumFits(packet) <=> CheckedSum(packet) > 0 /\ Multiple(CheckedSum(packet))
  <1> DEFINE sum == CheckedSum(packet)
             folded == Folded(sum)
  <1>1. ChecksumFits(packet) <=> 65535 - folded = 0
    BY DEF ChecksumFits, payloadChecksum, CheckedSum, HeaderOf
  <1>2. sum \in Nat /\ sum < 65536 * 65536
    BY PacketSums
  <1>3. Folded(0) = 0
    BY DEF Folded
  <1> HIDE DEF sum
  <1>4. folded \in Int /\ 0 <= folded /\ folded <= 65535 /\ (sum > 0 => folded > 0)
    BY <1>2, FoldedIsRemainder
  <1>5. Congruent(folded, sum)
    BY <1>2, FoldedIsRemainder
  <1>6. PICK e \in Int : folded = sum - 65535 * e
    BY <1>5 DEF Congruent, ApartBy
  <1>7. folded = 65535 => sum > 0
    BY <1>2, <1>3
  <1> HIDE DEF folded
  <1>8. folded = 65535 => Multiple(sum)
    BY <1>2, <1>6 DEF Multiple
  <1>9. sum > 0 /\ Multiple(sum) => folded = 65535
    BY <1>2, <1>4, <1>6 DEF Multiple
  <1> QED
    BY <1>1, <1>4, <1>7, <1>8, <1>9 DEF sum

(* The header ends with a whole word: its bytes weigh what they did alone. *)
LEMMA ValuesJoin ==
    ASSUME NEW first \in Seq(Byte), Len(first) % 2 = 0, NEW second \in Seq(Byte)
    PROVE  Total(Values(first \o second), Len(first \o second))
             = Total(Values(first), Len(first)) + Total(Values(second), Len(second))
  <1> DEFINE m == Len(first)
             n == Len(second)
             bytes == first \o second
  <1>1. m \in Nat /\ n \in Nat /\ m % 2 = 0
    BY LenProperties
  <1>2. /\ bytes \in Seq(Byte) /\ Len(bytes) = m + n
        /\ \A i \in 1 .. m : bytes[i] = first[i]
        /\ \A i \in 1 .. n : bytes[m + i] = second[i]
    BY Joined
  <1> HIDE DEF bytes
  <1>3. \A i \in 1 .. m + n : Values(bytes)[i] \in Int /\ Values(bytes)[i] = ValueAt(bytes, i)
    BY <1>2, ValueType
  <1>4. \A i \in 1 .. n : Values(second)[i] = ValueAt(second, i)
    BY ValueType
  <1>5. \A i \in 1 .. m : Values(first)[i] = ValueAt(first, i) /\ Values(first)[i] \in Int
    BY ValueType
  <1> HIDE DEF m, n
  <1>6. ASSUME NEW i \in 1 .. n
        PROVE  Values(second)[i] = Values(bytes)[m + i]
    <2>1. m + i \in 1 .. m + n /\ (m + i) % 2 = i % 2
      BY <1>1
    <2> QED
      BY <1>2, <1>3, <1>4, <2>1 DEF ValueAt
  <1>7. Total(Values(bytes), m + n) = Total(Values(bytes), m) + Total(Values(second), n)
    <2>1. \A i \in 1 .. m + n : Values(bytes)[i] \in Int
      BY <1>3
    <2>2. \A i \in 1 .. n : Values(second)[i] = Values(bytes)[m + i]
      BY <1>6
    <2> DEFINE term == Values(bytes)
               last == Values(second)
    <2> HIDE DEF term, last
    <2>3. EndsWith(term, m, last, n)
      BY <2>1, <2>2 DEF EndsWith, term, last
    <2>4. Total(term, m + n) = Total(term, m) + Total(last, n)
      BY <1>1, <2>3, TotalJoins
    <2> QED
      BY <2>4 DEF term, last
  <1>8. Total(Values(bytes), m) = Total(Values(first), m)
    <2>1. \A i \in 1 .. m : Values(first)[i] \in Int
      BY <1>5
    <2>2. ASSUME NEW i \in 1 .. m
          PROVE  Values(bytes)[i] = Values(first)[i]
      <3>1. i \in 1 .. m + n
        BY <1>1
      <3> QED
        BY <1>2, <1>3, <1>5, <3>1 DEF ValueAt
    <2> QED
      BY <1>1, <2>1, <2>2, TotalsAgree, Zenon
  <1> QED
    BY <1>2, <1>7, <1>8 DEF bytes, m, n

(* The words of two blocks, of which the first ends with a whole word.     *)
WordsInTurn(bytes, first, m, second, n) ==
    /\ bytes \in Seq(Byte) /\ Len(bytes) = 2 * (m + n) /\ WordCount(bytes) = m + n
    /\ \A k \in 1 .. m : WordAt(bytes, k) = WordAt(first, k)
    /\ \A k \in 1 .. n : WordAt(bytes, m + k) = WordAt(second, k)

LEMMA WordsJoin ==
    ASSUME NEW m \in Nat, NEW first \in Seq(Byte), Len(first) = 2 * m,
           NEW n \in Nat, NEW second \in Seq(Byte), Len(second) = 2 * n
    PROVE  WordsInTurn(first \o second, first, m, second, n)
  <1> DEFINE bytes == first \o second
  <1>1. /\ bytes \in Seq(Byte) /\ Len(bytes) = Len(first) + Len(second)
        /\ \A i \in 1 .. Len(first) : bytes[i] = first[i]
        /\ \A i \in 1 .. Len(second) : bytes[Len(first) + i] = second[i]
    <2>1. first \in Seq(Byte) /\ second \in Seq(Byte)
      OBVIOUS
    <2> QED
      BY ONLY <2>1, Joined DEF bytes
  <1> HIDE DEF bytes
  <1>2. Len(bytes) = 2 * (m + n) /\ WordCount(bytes) = m + n
    BY <1>1 DEF WordCount
  <1>3. ASSUME NEW k \in 1 .. m
        PROVE  WordAt(bytes, k) = WordAt(first, k)
    <2>1. 2 * k - 1 \in 1 .. Len(first) /\ 2 * k \in 1 .. Len(first)
          /\ 2 * k <= Len(first) /\ 2 * k <= Len(bytes)
      BY <1>2
    <2>2. bytes[2 * k - 1] = first[2 * k - 1] /\ bytes[2 * k] = first[2 * k]
      BY <1>1, <2>1
    <2> QED
      BY <2>1, <2>2 DEF WordAt
  <1>4. ASSUME NEW k \in 1 .. n
        PROVE  WordAt(bytes, m + k) = WordAt(second, k)
    <2> DEFINE i == 2 * k - 1
               j == 2 * k
               c == 2 * (m + k) - 1
               d == 2 * (m + k)
    <2>1. i \in 1 .. Len(second) /\ j \in 1 .. Len(second) /\ j <= Len(second) /\ d <= Len(bytes)
          /\ c = Len(first) + i /\ d = Len(first) + j
      BY <1>2
    <2>2. WordAt(bytes, m + k) = bytes[c] + 256 * bytes[d]
      BY <2>1 DEF WordAt
    <2>3. WordAt(second, k) = second[i] + 256 * second[j]
      BY <2>1 DEF WordAt
    <2> HIDE DEF i, j, c, d
    <2>4. bytes[c] = second[i] /\ bytes[d] = second[j]
      BY <1>1, <2>1
    <2> QED
      BY <2>2, <2>3, <2>4
  <1> QED
    BY <1>1, <1>2, <1>3, <1>4 DEF WordsInTurn, bytes

(* Two words that change places behind the same words.                     *)
LEMMA WordsMaySwap ==
    ASSUME NEW m \in Nat, NEW n \in Nat, n >= 2, NEW addresses, NEW own, NEW other,
           NEW first, WordsInTurn(first, addresses, m, own, n),
           NEW second, WordsInTurn(second, addresses, m, other, n),
           WordAt(own, 1) = WordAt(other, 2), WordAt(own, 2) = WordAt(other, 1),
           \A k \in 3 .. n : WordAt(own, k) = WordAt(other, k)
    PROVE  SumOfWords(first) = SumOfWords(second)
  <1> DEFINE one == Words(first)
             two == Words(second)
             i == m + 1
             j == m + 2
  <1>1. /\ first \in Seq(Byte) /\ WordCount(first) = m + n
        /\ second \in Seq(Byte) /\ WordCount(second) = m + n
    BY DEF WordsInTurn
  <1>2. /\ \A k \in 1 .. m + n : one[k] = WordAt(first, k) /\ one[k] \in Int
        /\ \A k \in 1 .. m + n : two[k] = WordAt(second, k) /\ two[k] \in Int
    BY <1>1, WordBounds
  <1>3. SumOfWords(first) = Total(one, m + n) /\ SumOfWords(second) = Total(two, m + n)
    BY <1>1, SumOfWordsIsTotal
  <1> HIDE DEF one, two
  <1>4. i \in 1 .. m + n /\ j \in 1 .. m + n /\ i # j
    OBVIOUS
  <1>5. one[i] = two[j] /\ one[j] = two[i]
    <2>1. 1 \in 1 .. n /\ 2 \in 1 .. n
      OBVIOUS
    <2>2. /\ WordAt(first, m + 1) = WordAt(own, 1) /\ WordAt(first, m + 2) = WordAt(own, 2)
          /\ WordAt(second, m + 1) = WordAt(other, 1) /\ WordAt(second, m + 2) = WordAt(other, 2)
      BY <2>1 DEF WordsInTurn
    <2> QED
      BY <1>2, <1>4, <2>2
  <1>6. ASSUME NEW k \in 1 .. m + n, k # i, k # j
        PROVE  one[k] = two[k]
    <2>1. CASE k \in 1 .. m
      <3>1. WordAt(first, k) = WordAt(addresses, k) /\ WordAt(second, k) = WordAt(addresses, k)
        BY <2>1 DEF WordsInTurn
      <3> QED
        BY <1>2, <3>1
    <2>2. CASE k \notin 1 .. m
      <3> DEFINE l == k - m
      <3>1. l \in 3 .. n /\ l \in 1 .. n /\ k = m + l
        BY <1>6, <2>2
      <3> HIDE DEF l
      <3>2. WordAt(first, k) = WordAt(own, l) /\ WordAt(second, k) = WordAt(other, l)
        BY <3>1 DEF WordsInTurn
      <3>3. WordAt(own, l) = WordAt(other, l)
        BY <3>1
      <3> QED
        BY <1>2, <3>2, <3>3
    <2> QED
      BY <2>1, <2>2
  <1> HIDE DEF i, j
  <1>7. \A k \in 1 .. m + n : one[k] \in Int
    BY <1>2
  <1>8. \A k \in 1 .. m + n : two[k] \in Int
    BY <1>2
  <1> DEFINE count == m + n
  <1>9. count \in Nat
    OBVIOUS
  <1>10. Swaps(one, two, count, i, j)
    BY <1>4, <1>5, <1>6, <1>7, <1>8 DEF Swaps
  <1> HIDE DEF count
  <1>11. Total(one, count) = Total(two, count)
    BY <1>9, <1>10, SwapKeepsTotal
  <1> QED
    BY <1>3, <1>11 DEF count

(* Where in its field of four bytes the length stands makes no difference. *)
LEMMA LengthMayMove ==
    ASSUME NEW packet, PacketOK(packet)
    PROVE  /\ PeerHeaderOf(packet) \in Seq(Byte) /\ Len(PeerHeaderOf(packet)) = 40
           /\ SumOfWords(PeerHeaderOf(packet)) = SumOfWords(HeaderOf(packet))
  <1> DEFINE addresses == packet.source \o packet.destination
             length == Len(packet.payload)
             own == LastWords(length, packet.nextHeader)
             other == PeerLastWords(length, packet.nextHeader)
             first == addresses \o own
             second == addresses \o other
  <1>1. own \in Seq(Byte) /\ Len(own) = 2 * 4 /\ other \in Seq(Byte) /\ Len(other) = 2 * 4
    BY LastWordsType DEF PacketOK
  <1>2. addresses \in Seq(Byte) /\ Len(addresses) = 2 * 16
    <2>1. /\ packet.source \in Seq(Byte) /\ Len(packet.source) = 16
          /\ packet.destination \in Seq(Byte) /\ Len(packet.destination) = 16
      BY DEF PacketOK, Sixteen
    <2>2. addresses \in Seq(Byte) /\ Len(addresses) = Len(packet.source) + Len(packet.destination)
      BY <2>1, Concatenated, Zenon
    <2> HIDE DEF addresses
    <2> QED
      BY <2>1, <2>2
  <1>3. HeaderOf(packet) = first /\ PeerHeaderOf(packet) = second
    BY DEF HeaderOf, PeerHeaderOf, PseudoHeader, PeerPseudoHeader, LastWords, PeerLastWords
  <1>4. /\ WordAt(own, 1) = WordAt(other, 2) /\ WordAt(own, 2) = WordAt(other, 1)
        /\ \A k \in 3 .. 4 : WordAt(own, k) = WordAt(other, k)
    <2> DEFINE high == length \div 256
               low == length % 256
               last == packet.nextHeader
    <2>1. high \in Int /\ low \in Int /\ last \in Int
      <3>1. length \in Int /\ last \in Int
        <4>1. Short(length) /\ last \in Byte
          BY DEF PacketOK
        <4> HIDE DEF length, last
        <4> QED
          BY <4>1 DEF Short, Byte
      <3> HIDE DEF length
      <3> QED
        BY <3>1
    <2>2. own = <<high, low, 0, 0, 0, 0, 0, last>> /\ other = <<0, 0, high, low, 0, 0, 0, last>>
      BY DEF LastWords, PeerLastWords
    <2> HIDE DEF high, low, last, own, other
    <2>3. Len(own) = 8 /\ Len(other) = 8
      BY <1>1
    <2>4. /\ own[1] = high /\ own[2] = low /\ own[3] = 0 /\ own[4] = 0
          /\ own[5] = 0 /\ own[6] = 0 /\ own[7] = 0 /\ own[8] = last
      BY <2>2
    <2>5. /\ other[1] = 0 /\ other[2] = 0 /\ other[3] = high /\ other[4] = low
          /\ other[5] = 0 /\ other[6] = 0 /\ other[7] = 0 /\ other[8] = last
      BY <2>2
    <2>6. /\ WordAt(own, 1) = high + 256 * low /\ WordAt(own, 2) = 0 + 256 * 0
          /\ WordAt(own, 3) = 0 + 256 * 0 /\ WordAt(own, 4) = 0 + 256 * last
      BY <2>3, <2>4 DEF WordAt
    <2>7. /\ WordAt(other, 1) = 0 + 256 * 0 /\ WordAt(other, 2) = high + 256 * low
          /\ WordAt(other, 3) = 0 + 256 * 0 /\ WordAt(other, 4) = 0 + 256 * last
      BY <2>3, <2>5 DEF WordAt
    <2> QED
      BY <2>6, <2>7
  <1> HIDE DEF addresses, own, other
  <1> DEFINE m == 16
             n == 4
  <1>5. m \in Nat /\ n \in Nat /\ n >= 2 /\ 2 * (m + n) = 40
    OBVIOUS
  <1>6. /\ Len(addresses) = 2 * m /\ Len(own) = 2 * n /\ Len(other) = 2 * n
        /\ \A k \in 3 .. n : WordAt(own, k) = WordAt(other, k)
    BY <1>1, <1>2, <1>4
  <1> HIDE DEF m, n
  <1>7. WordsInTurn(first, addresses, m, own, n)
    BY <1>1, <1>2, <1>5, <1>6, WordsJoin
  <1>8. WordsInTurn(second, addresses, m, other, n)
    BY <1>1, <1>2, <1>5, <1>6, WordsJoin
  <1> HIDE DEF first, second
  <1>9. SumOfWords(first) = SumOfWords(second)
    BY <1>4, <1>5, <1>6, <1>7, <1>8, WordsMaySwap
  <1>10. second \in Seq(Byte) /\ Len(second) = 40
    BY <1>5, <1>8 DEF WordsInTurn
  <1> QED
    BY <1>3, <1>9, <1>10

(* The receiver weighs the bytes the other way round and finds a multiple  *)
(* as well.                                                                *)
LEMMA MultipleIsAccepted ==
    ASSUME NEW packet, PacketOK(packet), Multiple(CheckedSum(packet))
    PROVE  PeerAddsUp(packet)
  <1> DEFINE header == PeerHeaderOf(packet)
             payload == packet.payload
             bytes == header \o payload
             n == Len(payload)
             valued == Total(Values(header), Len(header))
             fold == CHOOSE f : ValuesFold(bytes, f)
  <1>1. PeerAddsUp(packet) <=> Multiple(fold[DOMAIN bytes])
    BY DEF Multiple, PeerAddsUp, MapThenSumSet, MapThenFoldSet, ValuesFold, ValueAt, Chosen, PeerHeaderOf
  <1>2. /\ header \in Seq(Byte) /\ Len(header) = 40 /\ payload \in Seq(Byte) /\ n \in Nat
        /\ SumOfWords(header) \in Nat /\ SumOfWords(payload) \in Nat
    BY PacketSums, LengthMayMove
  <1>3. CheckedSum(packet) = SumOfWords(header) + SumOfWords(payload)
    BY LengthMayMove DEF CheckedSum
  <1> HIDE DEF header, payload
  <1>4. /\ bytes \in Seq(Byte) /\ Len(header) % 2 = 0
    <2>1. bytes \in Seq(Byte)
      BY <1>2, Concatenated, Zenon
    <2> HIDE DEF bytes
    <2> QED
      BY <1>2, <2>1
  <1>5. fold[DOMAIN bytes] = Total(Values(bytes), Len(bytes))
    <2>1. ValuesFold(bytes, fold)
      BY <1>4, ValuesFoldExists
    <2> HIDE DEF fold, bytes
    <2>2. bytes \in Seq(Byte)
      BY <1>4
    <2> QED
      BY <2>1, <2>2, ValuesFoldIsTotal
  <1>6. Total(Values(bytes), Len(bytes)) = valued + Total(Values(payload), n)
    BY <1>2, <1>4, ValuesJoin, Zenon
  <1>8. Congruent(valued, 256 * SumOfWords(header))
    BY <1>2, SwappedSum
  <1>9. Congruent(Total(Values(payload), n), 256 * SumOfWords(payload))
    BY <1>2, SwappedSum
  <1> HIDE DEF bytes, fold, valued
  <1>10. PICK d \in Int : valued = 256 * SumOfWords(header) - 65535 * d
    BY <1>8 DEF Congruent, ApartBy
  <1>11. PICK e \in Int : Total(Values(payload), n) = 256 * SumOfWords(payload) - 65535 * e
    BY <1>9 DEF Congruent, ApartBy
  <1> DEFINE sum == SumOfWords(header) + SumOfWords(payload)
             all == Total(Values(bytes), Len(bytes))
  <1>12. sum \in Nat /\ sum % 65535 = 0
    <2>1. CheckedSum(packet) % 65535 = 0
      BY DEF Multiple
    <2>2. sum = CheckedSum(packet)
      BY <1>3
    <2>3. sum \in Nat
      BY <1>2
    <2> QED
      BY <2>1, <2>2, <2>3
  <1>13. all = 256 * sum - 65535 * (d + e)
    BY <1>2, <1>6, <1>10, <1>11
  <1> HIDE DEF sum, all
  <1>14. Multiple(all)
    BY <1>12, <1>13 DEF Multiple
  <1> QED
    BY <1>1, <1>5, <1>14 DEF all

AfterByte(packet, j, b) == [packet EXCEPT !.payload[j] = b]

ByteChange(j, old, new) == IF j % 2 = 1 THEN new - old ELSE 256 * new - 256 * old

(* What one changed byte of the payload does to the sum over a packet.     *)
LEMMA PacketAfterByte ==
    ASSUME NEW packet, PacketOK(packet), NEW j \in 1 .. Len(packet.payload), NEW b \in Byte
    PROVE  /\ PacketOK(AfterByte(packet, j, b))
           /\ AfterByte(packet, j, b).payload = [packet.payload EXCEPT ![j] = b]
           /\ Len(AfterByte(packet, j, b).payload) = Len(packet.payload)
           /\ CheckedSum(AfterByte(packet, j, b))
                = CheckedSum(packet) + ByteChange(j, packet.payload[j], b)
  <1> DEFINE payload == packet.payload
             changed == [payload EXCEPT ![j] = b]
             after == AfterByte(packet, j, b)
             d == ByteChange(j, packet.payload[j], b)
  <1>1. after = [source |-> packet.source, destination |-> packet.destination,
                 nextHeader |-> packet.nextHeader, payload |-> changed]
    BY DEF PacketOK, AfterByte
  <1>2. payload \in Seq(Byte) /\ j \in 1 .. Len(payload) /\ Short(Len(payload))
    BY DEF PacketOK
  <1>3. changed \in Seq(Byte) /\ Len(changed) = Len(payload)
        /\ SumOfWords(changed) = SumOfWords(payload) + d
    <2> QED
      BY <1>2, SumAfterByte DEF ByteChange, payload
  <1> HIDE DEF after, changed
  <1>4. /\ after.payload = changed /\ after.nextHeader = packet.nextHeader
        /\ after.source = packet.source /\ after.destination = packet.destination
    BY <1>1
  <1>5. PacketOK(after)
    BY <1>1, <1>2, <1>3, <1>4 DEF PacketOK
  <1>6. HeaderOf(after) = HeaderOf(packet)
    BY <1>3, <1>4 DEF HeaderOf
  <1>7. SumOfWords(HeaderOf(packet)) \in Nat /\ SumOfWords(payload) \in Nat
    BY PacketSums
  <1>8. d \in Int
    <2>1. payload[j] \in Int /\ b \in Int
      BY <1>2, BytesType DEF Byte
    <2> HIDE DEF payload
    <2> QED
      BY <2>1 DEF ByteChange, payload
  <1> HIDE DEF d
  <1>9. CheckedSum(after) = CheckedSum(packet) + d
    BY <1>3, <1>4, <1>6, <1>7, <1>8 DEF CheckedSum
  <1> QED
    BY <1>3, <1>4, <1>5, <1>6, <1>9 DEF after, changed, d

(* prepareTransmit() writes the low byte of the checksum first, as the     *)
(* words were read, over two bytes that are 0: the sum is then a multiple  *)
(* of 2^16 - 1, and not 0.                                                 *)
LEMMA ChecksumCompletes ==
    ASSUME NEW packet, PacketOK(packet), NEW at \in Nat, at % 2 = 1,
           at \in 1 .. Len(packet.payload), at + 1 \in 1 .. Len(packet.payload),
           packet.payload[at] = 0, packet.payload[at + 1] = 0
    PROVE  /\ PacketOK(WithChecksum(packet, at))
           /\ Len(WithChecksum(packet, at).payload) = Len(packet.payload)
           /\ \A i \in 1 .. Len(packet.payload) : i \notin {at, at + 1} =>
                WithChecksum(packet, at).payload[i] = packet.payload[i]
           /\ CheckedSum(WithChecksum(packet, at)) > 0
           /\ Multiple(CheckedSum(WithChecksum(packet, at)))
  <1> DEFINE sum == CheckedSum(packet)
             folded == Folded(sum)
             checksum == 65535 - folded
             low == checksum % 256
             high == checksum \div 256
             first == AfterByte(packet, at, low)
             second == AfterByte(first, at + 1, high)
  <1>1. payloadChecksum(packet.source, packet.destination, packet.nextHeader, packet.payload)
          = checksum
    BY DEF payloadChecksum, CheckedSum, HeaderOf
  <1>2. WithChecksum(packet, at) = second
    BY <1>1 DEF WithChecksum, PacketOK, AfterByte
  <1>3. sum \in Nat /\ sum < 65536 * 65536
    BY PacketSums
  <1>4. Folded(0) = 0
    BY DEF Folded
  <1> HIDE DEF sum
  <1>5. folded \in Int /\ 0 <= folded /\ folded <= 65535
    BY <1>3, FoldedIsRemainder
  <1>6. PICK e \in Int : folded = sum - 65535 * e
    <2>1. Congruent(folded, sum)
      BY <1>3, FoldedIsRemainder
    <2> QED
      BY <2>1 DEF Congruent, ApartBy
  <1>7. sum = 0 => folded = 0
    BY <1>4
  <1> HIDE DEF folded
  <1>8. low \in Byte /\ high \in Byte /\ low + 256 * high = checksum
        /\ low \in Int /\ high \in Int
    BY <1>5 DEF Byte
  <1> HIDE DEF low, high
  <1>9. /\ PacketOK(first) /\ first.payload = [packet.payload EXCEPT ![at] = low]
        /\ Len(first.payload) = Len(packet.payload)
        /\ CheckedSum(first) = sum + low
    <2>1. /\ PacketOK(first) /\ first.payload = [packet.payload EXCEPT ![at] = low]
          /\ Len(first.payload) = Len(packet.payload)
          /\ CheckedSum(first) = CheckedSum(packet) + ByteChange(at, packet.payload[at], low)
      BY <1>8, PacketAfterByte
    <2>2. ByteChange(at, packet.payload[at], low) = low
      BY <1>8 DEF ByteChange
    <2> QED
      BY <2>1, <2>2 DEF sum
  <1> HIDE DEF first
  <1>10. packet.payload \in Seq(Byte) /\ first.payload \in Seq(Byte)
    BY <1>9 DEF PacketOK
  <1>11. first.payload[at + 1] = 0
         /\ \A i \in 1 .. Len(packet.payload) : i # at => first.payload[i] = packet.payload[i]
    BY <1>9, <1>10, BytesType
  <1>12. /\ PacketOK(second) /\ second.payload = [first.payload EXCEPT ![at + 1] = high]
         /\ Len(second.payload) = Len(packet.payload)
         /\ CheckedSum(second) = sum + low + 256 * high
    <2>1. at + 1 \in 1 .. Len(first.payload) /\ (at + 1) % 2 # 1
      BY <1>9
    <2>2. /\ PacketOK(second) /\ second.payload = [first.payload EXCEPT ![at + 1] = high]
          /\ Len(second.payload) = Len(first.payload)
          /\ CheckedSum(second)
               = CheckedSum(first) + ByteChange(at + 1, first.payload[at + 1], high)
      <3>1. PacketOK(first) /\ high \in Byte
        BY <1>8, <1>9
      <3> DEFINE place == at + 1
      <3>2. place \in 1 .. Len(first.payload)
        BY <2>1
      <3> HIDE DEF place
      <3>3. /\ PacketOK(AfterByte(first, place, high))
            /\ AfterByte(first, place, high).payload = [first.payload EXCEPT ![place] = high]
            /\ Len(AfterByte(first, place, high).payload) = Len(first.payload)
            /\ CheckedSum(AfterByte(first, place, high))
                 = CheckedSum(first) + ByteChange(place, first.payload[place], high)
        BY <3>1, <3>2, PacketAfterByte
      <3> QED
        BY <3>3 DEF place
    <2>3. ByteChange(at + 1, first.payload[at + 1], high) = 256 * high
      BY <1>8, <1>11, <2>1 DEF ByteChange
    <2> QED
      BY <1>9, <2>1, <2>2, <2>3
  <1> HIDE DEF second
  <1>13. \A i \in 1 .. Len(packet.payload) : i \notin {at, at + 1} =>
            second.payload[i] = packet.payload[i]
    BY <1>9, <1>10, <1>11, <1>12, BytesType
  <1>14. CheckedSum(second) = sum + checksum
    BY <1>3, <1>5, <1>8, <1>12
  <1>15. CheckedSum(second) > 0 /\ Multiple(CheckedSum(second))
    BY <1>3, <1>5, <1>6, <1>7, <1>14 DEF Multiple
  <1> QED
    BY <1>2, <1>12, <1>13, <1>15

(* What prepareTransmit() has completed passes the test of the program,    *)
(* and the words of any other host add up: a checksum is accepted unless   *)
(* it is that of a UDP datagram and came out as 0.                         *)
THEOREM CompletedIsAccepted ==
    ASSUME NEW packet, PacketOK(packet), NEW at \in Nat, at % 2 = 1,
           at \in 1 .. Len(packet.payload), at + 1 \in 1 .. Len(packet.payload),
           packet.payload[at] = 0, packet.payload[at + 1] = 0
    PROVE  /\ ChecksumFits(WithChecksum(packet, at)) /\ PeerAddsUp(WithChecksum(packet, at))
           /\ \/ PeerAccepts(WithChecksum(packet, at))
              \/ WithoutChecksum(WithChecksum(packet, at))
  BY ChecksumCompletes, FitsIsMultiple, MultipleIsAccepted DEF PeerAccepts

(* The change of one byte is never a multiple of 2^16 - 1.                 *)
LEMMA OneByteShows ==
    ASSUME NEW sum \in Nat, Multiple(sum), NEW j, NEW old \in Byte, NEW new \in Byte,
           old # new
    PROVE  ~Multiple(sum + ByteChange(j, old, new))
  <1>1. old \in Int /\ 0 <= old /\ old <= 255 /\ new \in Int /\ 0 <= new /\ new <= 255
    BY DEF Byte
  <1>2. ~Multiple(sum + (new - old))
    BY <1>1 DEF Multiple
  <1>3. ~Multiple(sum + (256 * new - 256 * old))
    BY <1>1 DEF Multiple
  <1> QED
    BY <1>2, <1>3 DEF ByteChange

(* A packet that fits and of which one byte of the payload is changed fits *)
(* no longer.                                                              *)
LEMMA PayloadDamageShows ==
    ASSUME NEW packet, PacketOK(packet), ChecksumFits(packet),
           NEW j \in 1 .. Len(packet.payload), NEW b \in Byte, b # packet.payload[j]
    PROVE  ~ChecksumFits(AfterByte(packet, j, b))
  <1> DEFINE after == AfterByte(packet, j, b)
             old == packet.payload[j]
  <1>1. PacketOK(after) /\ CheckedSum(after) = CheckedSum(packet) + ByteChange(j, old, b)
    <2>1. /\ PacketOK(AfterByte(packet, j, b))
          /\ AfterByte(packet, j, b).payload = [packet.payload EXCEPT ![j] = b]
          /\ Len(AfterByte(packet, j, b).payload) = Len(packet.payload)
          /\ CheckedSum(AfterByte(packet, j, b))
               = CheckedSum(packet) + ByteChange(j, packet.payload[j], b)
      BY PacketAfterByte
    <2> QED
      BY <2>1
  <1>2. CheckedSum(packet) \in Nat /\ Multiple(CheckedSum(packet))
    BY PacketSums, FitsIsMultiple
  <1>3. old \in Byte /\ old # b
    <2>1. packet.payload \in Seq(Byte)
      BY DEF PacketOK
    <2> QED
      BY <2>1, ElementOfSeq
  <1> HIDE DEF after, old
  <1>4. ~Multiple(CheckedSum(after))
    BY <1>1, <1>2, <1>3, OneByteShows, Zenon
  <1>5. ~ChecksumFits(after)
    BY <1>1, <1>4, FitsIsMultiple
  <1> QED
    BY <1>5 DEF after

-----------------------------------------------------------------------------
(* A change in the header, which is three blocks one after the other.      *)

LEMMA JoinedAfterFirst ==
    ASSUME NEW S, NEW s \in Seq(S), NEW t \in Seq(S), NEW j \in 1 .. Len(s), NEW b \in S
    PROVE  [s EXCEPT ![j] = b] \o t = [s \o t EXCEPT ![j] = b]
  <1> DEFINE other == [s EXCEPT ![j] = b]
             left == other \o t
             both == s \o t
             right == [both EXCEPT ![j] = b]
  <1>1. /\ other \in Seq(S) /\ Len(other) = Len(s) /\ other[j] = b
        /\ \A i \in 1 .. Len(s) : i # j => other[i] = s[i]
    <2>1. other \in Seq(S) /\ Len(other) = Len(s)
      BY ExceptSeq
    <2>2. DOMAIN s = 1 .. Len(s)
      BY LenProperties
    <2> QED
      BY <2>1, <2>2
  <1>2. Len(s) \in Nat /\ Len(t) \in Nat
    BY LenProperties
  <1> HIDE DEF other
  <1>3. /\ left \in Seq(S) /\ Len(left) = Len(s) + Len(t)
        /\ \A i \in 1 .. Len(s) + Len(t) :
                left[i] = IF i <= Len(s) THEN other[i] ELSE t[i - Len(s)]
    <2>1. other \in Seq(S)
      BY <1>1
    <2>2. /\ left \in Seq(S) /\ Len(left) = Len(other) + Len(t)
          /\ \A i \in 1 .. Len(other) + Len(t) :
                left[i] = IF i <= Len(other) THEN other[i] ELSE t[i - Len(other)]
      BY <2>1, ConcatProperties
    <2> QED
      BY <1>1, <2>2
  <1>4. /\ both \in Seq(S) /\ Len(both) = Len(s) + Len(t)
        /\ \A i \in 1 .. Len(s) + Len(t) :
                both[i] = IF i <= Len(s) THEN s[i] ELSE t[i - Len(s)]
    BY ConcatProperties
  <1>5. j \in 1 .. Len(both)
    BY <1>2, <1>4
  <1> HIDE DEF left, both
  <1>6. /\ right \in Seq(S) /\ Len(right) = Len(s) + Len(t) /\ right[j] = b
        /\ \A i \in 1 .. Len(s) + Len(t) : i # j => right[i] = both[i]
    <2>1. right \in Seq(S) /\ Len(right) = Len(both)
      BY <1>4, <1>5, ExceptSeq
    <2>2. DOMAIN both = 1 .. Len(both)
      BY <1>4, LenProperties
    <2> QED
      BY <1>4, <1>5, <2>1, <2>2
  <1> HIDE DEF right
  <1>7. ASSUME NEW i \in 1 .. Len(left)
        PROVE  left[i] = right[i]
    <2>1. i \in 1 .. Len(s) + Len(t) /\ (i <= Len(s) => i \in 1 .. Len(s)) /\ j <= Len(s)
      BY <1>2, <1>3
    <2>2. CASE i = j
      BY <1>1, <1>3, <1>6, <2>1, <2>2
    <2>3. CASE i # j
      BY <1>1, <1>3, <1>4, <1>6, <2>1, <2>3
    <2> QED
      BY <2>2, <2>3
  <1>8. left = right
    BY <1>3, <1>6, <1>7, SeqEqual
  <1> QED
    BY <1>8 DEF left, right, other, both

LEMMA JoinedAfterSecond ==
    ASSUME NEW S, NEW s \in Seq(S), NEW t \in Seq(S), NEW j \in 1 .. Len(t), NEW b \in S
    PROVE  s \o [t EXCEPT ![j] = b] = [s \o t EXCEPT ![Len(s) + j] = b]
  <1> DEFINE other == [t EXCEPT ![j] = b]
             left == s \o other
             both == s \o t
             m == Len(s) + j
             right == [both EXCEPT ![m] = b]
  <1>1. /\ other \in Seq(S) /\ Len(other) = Len(t) /\ other[j] = b
        /\ \A i \in 1 .. Len(t) : i # j => other[i] = t[i]
    <2>1. other \in Seq(S) /\ Len(other) = Len(t)
      BY ExceptSeq
    <2>2. DOMAIN t = 1 .. Len(t)
      BY LenProperties
    <2> QED
      BY <2>1, <2>2
  <1>2. Len(s) \in Nat /\ Len(t) \in Nat
    BY LenProperties
  <1> HIDE DEF other
  <1>3. /\ left \in Seq(S) /\ Len(left) = Len(s) + Len(t)
        /\ \A i \in 1 .. Len(s) + Len(t) :
                left[i] = IF i <= Len(s) THEN s[i] ELSE other[i - Len(s)]
    <2>1. other \in Seq(S)
      BY <1>1
    <2>2. /\ left \in Seq(S) /\ Len(left) = Len(s) + Len(other)
          /\ \A i \in 1 .. Len(s) + Len(other) :
                left[i] = IF i <= Len(s) THEN s[i] ELSE other[i - Len(s)]
      BY <2>1, ConcatProperties
    <2> QED
      BY <1>1, <2>2
  <1>4. /\ both \in Seq(S) /\ Len(both) = Len(s) + Len(t)
        /\ \A i \in 1 .. Len(s) + Len(t) :
                both[i] = IF i <= Len(s) THEN s[i] ELSE t[i - Len(s)]
    BY ConcatProperties
  <1>5. m \in 1 .. Len(both) /\ ~(m <= Len(s)) /\ m - Len(s) = j /\ m \in Int
    BY <1>2, <1>4
  <1>a. \A i \in 1 .. Len(s) + Len(t) : ~(i <= Len(s)) /\ i # m =>
            i - Len(s) \in 1 .. Len(t) /\ i - Len(s) # j
    BY <1>2
  <1> HIDE DEF left, both, m
  <1>6. /\ right \in Seq(S) /\ Len(right) = Len(s) + Len(t) /\ right[m] = b
        /\ \A i \in 1 .. Len(s) + Len(t) : i # m => right[i] = both[i]
    <2>1. right \in Seq(S) /\ Len(right) = Len(both)
      BY <1>4, <1>5, ExceptSeq
    <2>2. DOMAIN both = 1 .. Len(both)
      BY <1>4, LenProperties
    <2> QED
      BY <1>4, <1>5, <2>1, <2>2
  <1> HIDE DEF right
  <1>7. ASSUME NEW i \in 1 .. Len(left)
        PROVE  left[i] = right[i]
    <2>1. i \in 1 .. Len(s) + Len(t)
      BY <1>3
    <2>2. CASE i = m
      BY <1>1, <1>3, <1>5, <1>6, <2>1, <2>2
    <2>3. CASE i # m /\ i <= Len(s)
      BY <1>3, <1>4, <1>6, <2>1, <2>3
    <2>4. CASE i # m /\ ~(i <= Len(s))
      <3>1. i - Len(s) \in 1 .. Len(t) /\ i - Len(s) # j
        BY <1>a, <2>1, <2>4
      <3> QED
        BY <1>1, <1>3, <1>4, <1>6, <2>1, <2>4, <3>1
    <2> QED
      BY <2>2, <2>3, <2>4
  <1>8. left = right
    BY <1>3, <1>6, <1>7, SeqEqual
  <1> QED
    BY <1>8 DEF left, right, other, both, m

(* One item of a sequence is changed.                                      *)
Changed(s, j, b) == [s EXCEPT ![j] = b]

AfterSource(packet, j, b) ==
    [packet EXCEPT !.source = Changed(packet.source, j, b)]

AfterDestination(packet, j, b) ==
    [packet EXCEPT !.destination = Changed(packet.destination, j, b)]

LEMMA ChangedItem ==
    ASSUME NEW S, NEW s \in Seq(S), NEW j \in 1 .. Len(s), NEW b \in S
    PROVE  Changed(s, j, b) \in Seq(S) /\ Len(Changed(s, j, b)) = Len(s)
  BY ExceptSeq DEF Changed

LEMMA ChangedFirst ==
    ASSUME NEW S, NEW s \in Seq(S), NEW t \in Seq(S), NEW j \in 1 .. Len(s), NEW b \in S
    PROVE  Changed(s, j, b) \o t = Changed(s \o t, j, b)
  BY JoinedAfterFirst DEF Changed

LEMMA ChangedSecond ==
    ASSUME NEW S, NEW s \in Seq(S), NEW t \in Seq(S), NEW j \in 1 .. Len(t), NEW b \in S
    PROVE  s \o Changed(t, j, b) = Changed(s \o t, Len(s) + j, b)
  BY JoinedAfterSecond DEF Changed

LEMMA ChangedSum ==
    ASSUME NEW bytes \in Seq(Byte), NEW j \in 1 .. Len(bytes), NEW b \in Byte
    PROVE  SumOfWords(Changed(bytes, j, b)) = SumOfWords(bytes) + ByteChange(j, bytes[j], b)
  BY SumAfterByte DEF Changed, ByteChange

(* A packet of which one byte of an address is changed: the header the     *)
(* checksum is over is changed in that byte.                               *)
LEMMA HeaderParts ==
    ASSUME NEW packet, PacketOK(packet)
    PROVE  /\ HeaderOf(packet) = (packet.source \o packet.destination)
                                 \o LastWords(Len(packet.payload), packet.nextHeader)
           /\ LastWords(Len(packet.payload), packet.nextHeader) \in Seq(Byte)
           /\ packet.source \in Seq(Byte) /\ packet.destination \in Seq(Byte)
           /\ packet.source \o packet.destination \in Seq(Byte)
           /\ Len(packet.source \o packet.destination)
                = Len(packet.source) + Len(packet.destination)
           /\ Len(packet.source) = 16 /\ Len(packet.destination) = 16
  <1>1. HeaderOf(packet) = (packet.source \o packet.destination)
                           \o LastWords(Len(packet.payload), packet.nextHeader)
    BY DEF HeaderOf, PseudoHeader, LastWords
  <1>2. LastWords(Len(packet.payload), packet.nextHeader) \in Seq(Byte)
    BY LastWordsType DEF PacketOK
  <1>3. packet.source \in Seq(Byte) /\ packet.destination \in Seq(Byte)
    BY DEF PacketOK, Sixteen
  <1>4. /\ packet.source \o packet.destination \in Seq(Byte)
        /\ Len(packet.source \o packet.destination)
             = Len(packet.source) + Len(packet.destination)
    BY <1>3, Concatenated, Zenon
  <1> QED
    BY <1>1, <1>2, <1>3, <1>4 DEF PacketOK, Sixteen

LEMMA SourceChanged ==
    ASSUME NEW packet, PacketOK(packet), NEW j \in 1 .. Len(packet.source), NEW b \in Byte
    PROVE  /\ PacketOK(AfterSource(packet, j, b))
           /\ AfterSource(packet, j, b).payload = packet.payload
           /\ HeaderOf(AfterSource(packet, j, b)) = Changed(HeaderOf(packet), j, b)
           /\ j \in 1 .. Len(HeaderOf(packet))
           /\ HeaderOf(packet)[j] = packet.source[j]
  <1> DEFINE source == packet.source
             destination == packet.destination
             last == LastWords(Len(packet.payload), packet.nextHeader)
             addresses == source \o destination
             after == AfterSource(packet, j, b)
  <1>1. after = [source |-> Changed(source, j, b), destination |-> destination,
                 nextHeader |-> packet.nextHeader, payload |-> packet.payload]
    BY DEF PacketOK, AfterSource
  <1> HIDE DEF after
  <1>2. /\ after.source = Changed(source, j, b) /\ after.destination = destination
        /\ after.nextHeader = packet.nextHeader /\ after.payload = packet.payload
    BY <1>1
  <1>3. source \in Seq(Byte) /\ destination \in Seq(Byte) /\ last \in Seq(Byte)
        /\ addresses \in Seq(Byte)
    BY HeaderParts
  <1>4. Len(source) = 16 /\ Len(destination) = 16 /\ Len(addresses) = Len(source) + Len(destination)
    BY HeaderParts
  <1>5. HeaderOf(packet) = addresses \o last
    BY HeaderParts
  <1>6. j \in 1 .. Len(source)
    OBVIOUS
  <1>7. PacketOK(after)
    <2>1. Changed(source, j, b) \in Seq(Byte) /\ Len(Changed(source, j, b)) = Len(source)
      BY <1>3, <1>6, ChangedItem
    <2> QED
      BY <1>1, <1>2, <1>4, <2>1 DEF PacketOK, Sixteen
  <1>8. HeaderOf(after) = (Changed(source, j, b) \o destination) \o last
    BY <1>2, <1>7, HeaderParts
  <1> HIDE DEF source, destination, last
  <1>9. Changed(source, j, b) \o destination = Changed(addresses, j, b)
    BY <1>3, <1>6, ChangedFirst
  <1>10. addresses[j] = source[j] /\ j \in 1 .. Len(addresses)
    BY <1>3, <1>4, <1>6, Joined
  <1> HIDE DEF addresses
  <1>11. Changed(addresses, j, b) \o last = Changed(addresses \o last, j, b)
    <2>1. addresses \in Seq(Byte) /\ last \in Seq(Byte)
      BY <1>3 DEF addresses
    <2>2. j \in 1 .. Len(addresses)
      BY <1>10
    <2> QED
      BY <2>1, <2>2, ChangedFirst
  <1>12. (addresses \o last)[j] = addresses[j] /\ j \in 1 .. Len(addresses \o last)
    <2>1. /\ Len(addresses \o last) = Len(addresses) + Len(last)
          /\ \A i \in 1 .. Len(addresses) : (addresses \o last)[i] = addresses[i]
      BY <1>3, Joined
    <2>2. Len(addresses) \in Nat /\ Len(last) \in Nat
      BY <1>3, LenProperties
    <2> QED
      BY <1>10, <2>1, <2>2
  <1> QED
    BY <1>2, <1>5, <1>7, <1>8, <1>9, <1>10, <1>11, <1>12 DEF after, source

LEMMA DestinationChanged ==
    ASSUME NEW packet, PacketOK(packet), NEW j \in 1 .. Len(packet.destination), NEW b \in Byte
    PROVE  /\ PacketOK(AfterDestination(packet, j, b))
           /\ AfterDestination(packet, j, b).payload = packet.payload
           /\ HeaderOf(AfterDestination(packet, j, b))
                = Changed(HeaderOf(packet), Len(packet.source) + j, b)
           /\ Len(packet.source) + j \in 1 .. Len(HeaderOf(packet))
           /\ HeaderOf(packet)[Len(packet.source) + j] = packet.destination[j]
  <1> DEFINE source == packet.source
             destination == packet.destination
             last == LastWords(Len(packet.payload), packet.nextHeader)
             addresses == source \o destination
             m == Len(source) + j
             after == AfterDestination(packet, j, b)
  <1>1. after = [source |-> source, destination |-> Changed(destination, j, b),
                 nextHeader |-> packet.nextHeader, payload |-> packet.payload]
    BY DEF PacketOK, AfterDestination
  <1> HIDE DEF after
  <1>2. /\ after.source = source /\ after.destination = Changed(destination, j, b)
        /\ after.nextHeader = packet.nextHeader /\ after.payload = packet.payload
    BY <1>1
  <1>3. source \in Seq(Byte) /\ destination \in Seq(Byte) /\ last \in Seq(Byte)
        /\ addresses \in Seq(Byte)
    BY HeaderParts
  <1>4. Len(source) = 16 /\ Len(destination) = 16 /\ Len(addresses) = Len(source) + Len(destination)
    BY HeaderParts
  <1>5. HeaderOf(packet) = addresses \o last
    BY HeaderParts
  <1>6. j \in 1 .. Len(destination)
    OBVIOUS
  <1>7. PacketOK(after)
    <2>1. Changed(destination, j, b) \in Seq(Byte)
          /\ Len(Changed(destination, j, b)) = Len(destination)
      BY <1>3, <1>6, ChangedItem
    <2> QED
      BY <1>1, <1>2, <1>4, <2>1 DEF PacketOK, Sixteen
  <1>8. HeaderOf(after) = (source \o Changed(destination, j, b)) \o last
    BY <1>2, <1>7, HeaderParts
  <1> HIDE DEF source, destination, last
  <1>9. source \o Changed(destination, j, b) = Changed(addresses, m, b)
    BY <1>3, <1>6, ChangedSecond
  <1>10. addresses[m] = destination[j] /\ m \in 1 .. Len(addresses)
    <2>1. addresses[m] = destination[j]
      BY <1>3, <1>6, Joined
    <2> HIDE DEF addresses
    <2>2. m \in 1 .. Len(addresses)
      BY <1>4, <1>6
    <2> QED
      BY <2>1, <2>2
  <1> HIDE DEF addresses, m
  <1>11. Changed(addresses, m, b) \o last = Changed(addresses \o last, m, b)
    <2>1. addresses \in Seq(Byte) /\ last \in Seq(Byte)
      BY <1>3 DEF addresses
    <2>2. m \in 1 .. Len(addresses)
      BY <1>10
    <2> QED
      BY <2>1, <2>2, ChangedFirst
  <1>12. (addresses \o last)[m] = addresses[m] /\ m \in 1 .. Len(addresses \o last)
    <2>1. /\ Len(addresses \o last) = Len(addresses) + Len(last)
          /\ \A i \in 1 .. Len(addresses) : (addresses \o last)[i] = addresses[i]
      BY <1>3, Joined
    <2>2. Len(addresses) \in Nat /\ Len(last) \in Nat
      BY <1>3, LenProperties
    <2> QED
      BY <1>10, <2>1, <2>2
  <1> QED
    BY <1>2, <1>5, <1>7, <1>8, <1>9, <1>10, <1>11, <1>12 DEF after, source, destination, m

LEMMA HeaderDamageShows ==
    ASSUME NEW packet, PacketOK(packet), ChecksumFits(packet),
           NEW after, PacketOK(after), after.payload = packet.payload,
           NEW j \in 1 .. Len(HeaderOf(packet)), NEW b \in Byte, b # HeaderOf(packet)[j],
           HeaderOf(after) = Changed(HeaderOf(packet), j, b)
    PROVE  ~ChecksumFits(after)
  <1> DEFINE header == HeaderOf(packet)
             old == header[j]
             change == ByteChange(j, old, b)
  <1>1. CheckedSum(packet) \in Nat /\ Multiple(CheckedSum(packet))
    BY PacketSums, FitsIsMultiple
  <1>2. /\ header \in Seq(Byte) /\ SumOfWords(header) \in Nat
        /\ SumOfWords(packet.payload) \in Nat
    BY PacketSums
  <1>3. /\ CheckedSum(packet) = SumOfWords(header) + SumOfWords(packet.payload)
        /\ CheckedSum(after) = SumOfWords(HeaderOf(after)) + SumOfWords(packet.payload)
    BY DEF CheckedSum
  <1>4. HeaderOf(after) = Changed(header, j, b) /\ j \in 1 .. Len(header) /\ old # b
    OBVIOUS
  <1>5. old \in Byte
    BY <1>2, <1>4, ElementOfSeq
  <1> HIDE DEF header
  <1>6. SumOfWords(HeaderOf(after)) = SumOfWords(header) + change
    BY <1>2, <1>4, ChangedSum
  <1> HIDE DEF old
  <1>7. change \in Int
    <2>1. old \in Int /\ b \in Int
      BY <1>5 DEF Byte
    <2> QED
      BY <2>1 DEF ByteChange
  <1>8. ~Multiple(CheckedSum(packet) + change)
    BY <1>1, <1>4, <1>5, OneByteShows, Zenon
  <1> HIDE DEF change
  <1>9. CheckedSum(after) = CheckedSum(packet) + change
    BY <1>2, <1>3, <1>6, <1>7
  <1> QED
    BY <1>8, <1>9, FitsIsMultiple

LEMMA SourceDamageShows ==
    ASSUME NEW packet, PacketOK(packet), ChecksumFits(packet),
           NEW j \in 1 .. Len(packet.source), NEW b \in Byte, b # packet.source[j]
    PROVE  ~ChecksumFits(AfterSource(packet, j, b))
  BY SourceChanged, HeaderDamageShows, Zenon

LEMMA DestinationDamageShows ==
    ASSUME NEW packet, PacketOK(packet), ChecksumFits(packet),
           NEW j \in 1 .. Len(packet.destination), NEW b \in Byte, b # packet.destination[j]
    PROVE  ~ChecksumFits(AfterDestination(packet, j, b))
  BY DestinationChanged, HeaderDamageShows, Zenon

(* A checksum that is still to be written, at two bytes that are 0.        *)
Blank(payload, at) ==
    /\ at \in Nat /\ at % 2 = 1
    /\ at \in 1 .. Len(payload) /\ at + 1 \in 1 .. Len(payload)
    /\ payload[at] = 0 /\ payload[at + 1] = 0

(* What arrives complete: both tests pass it.                              *)
Complete(packet) == PacketOK(packet) /\ ChecksumFits(packet) /\ PeerAddsUp(packet)

LEMMA Completed ==
    ASSUME NEW packet, PacketOK(packet), NEW at, Blank(packet.payload, at)
    PROVE  /\ Complete(WithChecksum(packet, at))
           /\ Len(WithChecksum(packet, at).payload) = Len(packet.payload)
  <1>1. /\ at \in Nat /\ at % 2 = 1
        /\ at \in 1 .. Len(packet.payload) /\ at + 1 \in 1 .. Len(packet.payload)
        /\ packet.payload[at] = 0 /\ packet.payload[at + 1] = 0
    BY DEF Blank
  <1>2. /\ PacketOK(WithChecksum(packet, at))
        /\ Len(WithChecksum(packet, at).payload) = Len(packet.payload)
    BY <1>1, ChecksumCompletes
  <1>3. ChecksumFits(WithChecksum(packet, at)) /\ PeerAddsUp(WithChecksum(packet, at))
    BY <1>1, CompletedIsAccepted
  <1> QED
    BY <1>2, <1>3 DEF Complete

(* A packet that fits, and of which any one byte of an address or of the   *)
(* payload is changed to any other, fits no longer: received() forgets it. *)
THEOREM OneByteIsDetected ==
    ASSUME NEW packet, PacketOK(packet), ChecksumFits(packet), NEW b \in Byte
    PROVE  /\ \A j \in 1 .. Len(packet.source) :
                b # packet.source[j] => ~ChecksumFits(AfterSource(packet, j, b))
           /\ \A j \in 1 .. Len(packet.destination) :
                b # packet.destination[j] => ~ChecksumFits(AfterDestination(packet, j, b))
           /\ \A j \in 1 .. Len(packet.payload) :
                b # packet.payload[j] => ~ChecksumFits(AfterByte(packet, j, b))
  <1>1. ASSUME NEW j \in 1 .. Len(packet.source), b # packet.source[j]
        PROVE  ~ChecksumFits(AfterSource(packet, j, b))
    BY <1>1, SourceDamageShows, Zenon
  <1>2. ASSUME NEW j \in 1 .. Len(packet.destination), b # packet.destination[j]
        PROVE  ~ChecksumFits(AfterDestination(packet, j, b))
    BY <1>2, DestinationDamageShows, Zenon
  <1>3. ASSUME NEW j \in 1 .. Len(packet.payload), b # packet.payload[j]
        PROVE  ~ChecksumFits(AfterByte(packet, j, b))
    BY <1>3, PayloadDamageShows, Zenon
  <1> QED
    BY <1>1, <1>2, <1>3, Zenon

-----------------------------------------------------------------------------
(* Addresses.                                                              *)

LEMMA AddressIsSixteen ==
    ASSUME NEW address \in Ipv6Address
    PROVE  Sixteen(address)
  <1>1. address \in Seq(Byte)
    BY SeqDef DEF Ipv6Address
  <1>2. Len(address) \in Nat /\ DOMAIN address = 1 .. Len(address) /\ DOMAIN address = 1 .. 16
    BY <1>1, LenProperties DEF Ipv6Address
  <1>3. \A i : i \in 1 .. Len(address) <=> i \in 1 .. 16
    BY <1>2, Zenon
  <1>4. Len(address) = 16
    <2>1. 16 \in 1 .. Len(address) /\ 17 \notin 1 .. Len(address)
      BY <1>3
    <2> QED
      BY <1>2, <2>1
  <1> QED
    BY <1>1, <1>4 DEF Sixteen

LEMMA MacIsSix ==
    ASSUME NEW mac \in MacAddress
    PROVE  mac \in Seq(Byte) /\ Len(mac) = 6
  <1>1. mac \in Seq(Byte)
    BY SeqDef DEF MacAddress
  <1>2. Len(mac) \in Nat /\ DOMAIN mac = 1 .. Len(mac) /\ DOMAIN mac = 1 .. 6
    BY <1>1, LenProperties DEF MacAddress
  <1>3. \A i : i \in 1 .. Len(mac) <=> i \in 1 .. 6
    BY <1>2, Zenon
  <1>4. Len(mac) = 6
    <2>1. 6 \in 1 .. Len(mac) /\ 7 \notin 1 .. Len(mac)
      BY <1>3
    <2> QED
      BY <1>2, <2>1
  <1> QED
    BY <1>1, <1>4

LEMMA FlippedIsByte ==
    ASSUME NEW byte \in Byte
    PROVE  /\ FlipUniversal(byte) \in Byte
           /\ Flipped(byte) \in Byte /\ Flipped(byte) # byte
  <1>1. byte \in Int /\ 0 <= byte /\ byte <= 255
    BY DEF Byte
  <1>2. FlipUniversal(byte) \in Byte
    BY <1>1 DEF FlipUniversal, Byte
  <1>3. Flipped(byte) \in Byte /\ Flipped(byte) # byte
    BY <1>1 DEF Flipped, Byte
  <1> QED
    BY <1>2, <1>3

(* Blocks of bytes of a known length, which may be joined and cut.         *)
Block(bytes, length) == bytes \in Seq(Byte) /\ Len(bytes) = length

LEMMA BlocksJoin ==
    ASSUME NEW s, NEW m, Block(s, m), NEW t, NEW n, Block(t, n)
    PROVE  Block(s \o t, m + n)
  <1>1. s \in Seq(Byte) /\ t \in Seq(Byte) /\ Len(s) = m /\ Len(t) = n
    BY DEF Block
  <1>2. s \o t \in Seq(Byte) /\ Len(s \o t) = Len(s) + Len(t)
    BY <1>1, Concatenated, Zenon
  <1> QED
    BY <1>1, <1>2 DEF Block

Holds(bytes, first, last, length) ==
    /\ bytes \in Seq(Byte) /\ first \in Nat /\ last \in Nat
    /\ 1 <= first /\ first <= last + 1 /\ last <= Len(bytes)
    /\ length = last - first + 1

LEMMA BlockCut ==
    ASSUME NEW s, NEW first, NEW last, NEW length, Holds(s, first, last, length)
    PROVE  Block(SubSeq(s, first, last), length)
  <1>1. /\ s \in Seq(Byte) /\ Len(s) \in Nat /\ first \in Nat /\ last \in Nat
        /\ 1 <= first /\ first <= last + 1 /\ last <= Len(s) /\ length = last - first + 1
    BY LenProperties DEF Holds
  <1>2. SubSeq(s, first, last) \in Seq(Byte)
        /\ Len(SubSeq(s, first, last)) = IF first <= last THEN last - first + 1 ELSE 0
    BY <1>1, SubSeqProperties
  <1>3. Len(SubSeq(s, first, last)) = length
    BY <1>1, <1>2
  <1> QED
    BY <1>2, <1>3 DEF Block

LEMMA OwnAddressIsSixteen == Sixteen(ipv6LinkLocalAddress)
  <1>1. OwnMac \in Seq(Byte) /\ Len(OwnMac) = 6 /\ OwnMac[1] % 2 = 0
    BY StackAssumption, MacIsSix
  <1>2. OwnMac[1] \in Byte
    BY <1>1, ElementOfSeq
  <1>3. OwnMac[1] # 51
    BY <1>1
  <1> DEFINE a == <<254, 128>>
             b == Zeros(6)
             c == <<FlipUniversal(OwnMac[1])>>
             d == SubSeq(OwnMac, 2, 3)
             e == <<255, 254>>
             f == SubSeq(OwnMac, 4, 6)
  <1>4. ipv6LinkLocalAddress = a \o b \o c \o d \o e \o f
    BY <1>1, <1>3 DEF ipv6LinkLocalAddress, macToIpv6, IsMulticastMac
  <1>5. Block(a, 2)
    BY DEF Block, Byte
  <1>6. Block(b, 6)
    BY DEF Block, Byte, Zeros
  <1>7. Block(c, 1)
    <2>1. FlipUniversal(OwnMac[1]) \in Byte
      BY <1>2, FlippedIsByte
    <2> QED
      BY <2>1 DEF Block
  <1>8. Block(d, 2)
    <2>1. Holds(OwnMac, 2, 3, 2)
      BY <1>1 DEF Holds
    <2> QED
      BY <2>1, BlockCut, Zenon
  <1>9. Block(e, 2)
    BY DEF Block, Byte
  <1>10. Block(f, 3)
    <2>1. Holds(OwnMac, 4, 6, 3)
      BY <1>1 DEF Holds
    <2> QED
      BY <2>1, BlockCut, Zenon
  <1> HIDE DEF a, b, c, d, e, f
  <1>11. Block(a \o b \o c \o d \o e \o f, 2 + 6 + 1 + 2 + 2 + 3)
    BY <1>5, <1>6, <1>7, <1>8, <1>9, <1>10, BlocksJoin, Zenon
  <1> QED
    BY <1>4, <1>11 DEF Block, Sixteen

LEMMA AllNodesIsSixteen == Sixteen(AllNodes) /\ AllNodes \in Ipv6Address
  <1> DEFINE a == <<255, 2>>
             b == Zeros(13)
             c == <<1>>
  <1>1. AllNodes = a \o b \o c
    BY DEF AllNodes
  <1>2. Block(a, 2)
    BY DEF Block, Byte
  <1>3. Block(b, 13)
    BY DEF Block, Byte, Zeros
  <1>4. Block(c, 1)
    BY DEF Block, Byte
  <1> HIDE DEF a, b, c
  <1>5. Block(a \o b \o c, 2 + 13 + 1)
    BY <1>2, <1>3, <1>4, BlocksJoin, Zenon
  <1>6. AllNodes \in Seq(Byte) /\ Len(AllNodes) = 16
    BY <1>1, <1>5 DEF Block
  <1> QED
    BY <1>6, LenProperties DEF Sixteen, Ipv6Address

-----------------------------------------------------------------------------
(* What arrives.                                                           *)

(* Ones in place of a checksum of zeros: the sum grows by 2^16 - 1.        *)
LEMMA OnesForZeros ==
    ASSUME NEW packet, PacketOK(packet), ChecksumFits(packet), 8 <= Len(packet.payload),
           packet.payload[7] = 0, packet.payload[8] = 0
    PROVE  /\ Complete([packet EXCEPT !.payload[7] = 255, !.payload[8] = 255])
           /\ Len([packet EXCEPT !.payload[7] = 255, !.payload[8] = 255].payload)
                = Len(packet.payload)
  <1> DEFINE ones == 255
             j == 7
             k == 8
             first == AfterByte(packet, j, ones)
             second == AfterByte(first, k, ones)
  <1>1. /\ packet.payload \in Seq(Byte) /\ Len(packet.payload) \in Nat
        /\ packet = [source |-> packet.source, destination |-> packet.destination,
                     nextHeader |-> packet.nextHeader, payload |-> packet.payload]
    BY LenProperties DEF PacketOK
  <1>2. second = [packet EXCEPT !.payload[7] = 255, !.payload[8] = 255]
    BY <1>1 DEF AfterByte
  <1>3. /\ ones \in Byte /\ j \in 1 .. Len(packet.payload) /\ k \in 1 .. Len(packet.payload)
        /\ j # k /\ packet.payload[j] = 0 /\ packet.payload[k] = 0
    BY <1>1 DEF Byte
  <1>4. ByteChange(j, 0, ones) = 255 /\ ByteChange(k, 0, ones) = 65280
    BY DEF ByteChange
  <1>5. CheckedSum(packet) \in Nat /\ CheckedSum(packet) > 0 /\ Multiple(CheckedSum(packet))
    BY PacketSums, FitsIsMultiple
  <1> HIDE DEF ones, j, k
  <1>6. /\ PacketOK(first) /\ first.payload = [packet.payload EXCEPT ![j] = ones]
        /\ Len(first.payload) = Len(packet.payload)
        /\ CheckedSum(first) = CheckedSum(packet) + 255
    BY <1>3, <1>4, PacketAfterByte
  <1> HIDE DEF first
  <1>7. first.payload[k] = 0 /\ k \in 1 .. Len(first.payload)
    BY <1>1, <1>3, <1>6, BytesType
  <1>8. /\ PacketOK(second) /\ Len(second.payload) = Len(packet.payload)
        /\ CheckedSum(second) = CheckedSum(first) + 65280
    <2>1. PacketOK(first) /\ ones \in Byte /\ k \in 1 .. Len(first.payload)
      BY <1>3, <1>6, <1>7
    <2>2. /\ PacketOK(AfterByte(first, k, ones))
          /\ AfterByte(first, k, ones).payload = [first.payload EXCEPT ![k] = ones]
          /\ Len(AfterByte(first, k, ones).payload) = Len(first.payload)
          /\ CheckedSum(AfterByte(first, k, ones))
               = CheckedSum(first) + ByteChange(k, first.payload[k], ones)
      BY <2>1, PacketAfterByte
    <2> QED
      BY <1>4, <1>6, <1>7, <2>2
  <1> HIDE DEF second
  <1>9. CheckedSum(second) > 0 /\ Multiple(CheckedSum(second))
    BY <1>5, <1>6, <1>8 DEF Multiple
  <1>10. Complete(second)
    BY <1>8, <1>9, FitsIsMultiple, MultipleIsAccepted DEF Complete
  <1> QED
    BY <1>2, <1>8, <1>10

(* A payload of at least eight bytes whose checksum is still to be written.*)
Unsummed(payload, at) ==
    payload \in Seq(Byte) /\ Short(Len(payload)) /\ 8 <= Len(payload) /\ Blank(payload, at)

LEMMA FromPeerCompletes ==
    ASSUME NEW address \in Ipv6Address, NEW nextHeader \in Byte, NEW payload, NEW at,
           Unsummed(payload, at)
    PROVE  /\ Complete(FromPeer(address, nextHeader, payload, at))
           /\ 8 <= Len(FromPeer(address, nextHeader, payload, at).payload)
  <1> DEFINE packet == [source |-> address, destination |-> ipv6LinkLocalAddress,
                        nextHeader |-> nextHeader, payload |-> payload]
  <1>1. /\ packet.source = address /\ packet.destination = ipv6LinkLocalAddress
        /\ packet.nextHeader = nextHeader /\ packet.payload = payload
    OBVIOUS
  <1>2. Sixteen(address) /\ Sixteen(ipv6LinkLocalAddress)
    BY AddressIsSixteen, OwnAddressIsSixteen
  <1>3. PacketOK(packet) /\ Blank(packet.payload, at)
    BY <1>1, <1>2 DEF PacketOK, Unsummed
  <1> DEFINE completed == WithChecksum(packet, at)
             sent == FromPeer(address, nextHeader, payload, at)
  <1>4. sent = PeerWithChecksum(packet, at)
    BY DEF FromPeer
  <1>5. 8 <= Len(packet.payload) /\ Len(packet.payload) = Len(payload)
    BY <1>1 DEF Unsummed
  <1> HIDE DEF packet
  <1>6. Complete(completed) /\ Len(completed.payload) = Len(packet.payload)
    BY <1>3, Completed
  <1>7. sent = IF WithoutChecksum(completed)
               THEN [completed EXCEPT !.payload[7] = 255, !.payload[8] = 255]
               ELSE completed
    BY <1>4 DEF PeerWithChecksum
  <1> HIDE DEF completed, sent
  <1>8. CASE WithoutChecksum(completed)
    <2>1. /\ PacketOK(completed) /\ ChecksumFits(completed) /\ 8 <= Len(completed.payload)
          /\ completed.payload[7] = 0 /\ completed.payload[8] = 0
      BY <1>5, <1>6, <1>8 DEF Complete, WithoutChecksum
    <2>2. /\ Complete([completed EXCEPT !.payload[7] = 255, !.payload[8] = 255])
          /\ Len([completed EXCEPT !.payload[7] = 255, !.payload[8] = 255].payload)
                = Len(completed.payload)
      BY <2>1, OnesForZeros
    <2>3. Complete(sent) /\ Len(sent.payload) = Len(completed.payload)
      BY <1>7, <1>8, <2>2
    <2> QED
      BY <1>5, <1>6, <2>3 DEF sent
  <1>9. CASE ~WithoutChecksum(completed)
    BY <1>5, <1>6, <1>7, <1>9 DEF sent
  <1> QED
    BY <1>8, <1>9

(* A short payload, written out.                                           *)
LEMMA SolicitationUnsummed ==
    ASSUME NEW target, Sixteen(target)
    PROVE  Unsummed(<<135, 0, 0, 0, 0, 0, 0, 0>> \o target, 3)
  <1> DEFINE head == <<135, 0, 0, 0, 0, 0, 0, 0>>
             payload == head \o target
  <1>1. head \in Seq(Byte) /\ Len(head) = 8 /\ head[3] = 0 /\ head[4] = 0
    BY DEF Byte
  <1>2. target \in Seq(Byte) /\ Len(target) = 16
    BY DEF Sixteen
  <1> HIDE DEF head
  <1>3. /\ payload \in Seq(Byte) /\ Len(payload) = Len(head) + Len(target)
        /\ \A i \in 1 .. Len(head) : payload[i] = head[i]
    <2>1. head \in Seq(Byte) /\ target \in Seq(Byte)
      BY <1>1, <1>2
    <2> QED
      BY <2>1, Joined
  <1>4. 3 \in 1 .. Len(head) /\ 4 \in 1 .. Len(head)
    BY <1>1
  <1>5. payload[3] = 0 /\ payload[4] = 0
    BY <1>1, <1>3, <1>4
  <1> HIDE DEF payload
  <1>6. Len(payload) = 24
    BY <1>1, <1>2, <1>3
  <1>7. Unsummed(payload, 3)
    <2>1. payload \in Seq(Byte)
      BY <1>3
    <2> QED
      BY <1>5, <1>6, <2>1 DEF Unsummed, Blank, Short
  <1> QED
    BY <1>7 DEF payload, head

LEMMA OthersUnsummed ==
    /\ Unsummed(<<128, 0, 0, 0, 18, 52, 0, 1, 170, 187, 204>>, 3)
    /\ Unsummed(<<130, 0, 0, 0, 0, 0, 0, 0>>, 3)
    /\ \A port \in {240, 241} : Unsummed(SourcePort \o <<14, port, 0, 9, 0, 0, 255>>, 7)
  <1> DEFINE a == <<128, 0, 0, 0, 18, 52, 0, 1, 170, 187, 204>>
             b == <<130, 0, 0, 0, 0, 0, 0, 0>>
             c(port) == SourcePort \o <<14, port, 0, 9, 0, 0, 255>>
  <1>1. Unsummed(a, 3)
    <2>1. a \in Seq(Byte) /\ Len(a) = 11 /\ a[3] = 0 /\ a[4] = 0
      BY DEF Byte
    <2> HIDE DEF a
    <2> QED
      BY <2>1 DEF Unsummed, Blank, Short
  <1>2. Unsummed(b, 3)
    <2>1. b \in Seq(Byte) /\ Len(b) = 8 /\ b[3] = 0 /\ b[4] = 0
      BY DEF Byte
    <2> HIDE DEF b
    <2> QED
      BY <2>1 DEF Unsummed, Blank, Short
  <1>3. ASSUME NEW port \in {240, 241}
        PROVE  Unsummed(c(port), 7)
    <2>1. port \in Byte
      BY DEF Byte
    <2>2. PICK high \in Byte, low \in Byte : SourcePort = <<high, low>>
      BY StackAssumption
    <2> DEFINE rest == <<14, port, 0, 9, 0, 0, 255>>
    <2>3. /\ SourcePort \in Seq(Byte) /\ Len(SourcePort) = 2
          /\ rest \in Seq(Byte) /\ Len(rest) = 7 /\ rest[5] = 0 /\ rest[6] = 0
      BY <2>1, <2>2 DEF Byte
    <2> HIDE DEF rest
    <2>4. c(port) \in Seq(Byte) /\ Len(c(port)) = 9 /\ c(port)[7] = 0 /\ c(port)[8] = 0
      <3>1. c(port) = SourcePort \o rest
        BY DEF rest
      <3> DEFINE all == SourcePort \o rest
      <3>2. /\ all \in Seq(Byte) /\ Len(all) = Len(SourcePort) + Len(rest)
            /\ \A i \in 1 .. Len(rest) : all[Len(SourcePort) + i] = rest[i]
        <4>1. SourcePort \in Seq(Byte) /\ rest \in Seq(Byte)
          BY <2>3
        <4> QED
          BY <4>1, Joined
      <3> HIDE DEF all, c
      <3>3. all[2 + 5] = rest[5] /\ all[2 + 6] = rest[6]
        BY <2>3, <3>2
      <3>4. c(port) = all
        BY <3>1 DEF all
      <3> QED
        BY <2>3, <3>2, <3>3, <3>4
    <2> HIDE DEF c
    <2> QED
      BY <2>4 DEF Unsummed, Blank, Short
  <1> QED
    BY <1>1, <1>2, <1>3

(* What the stations send has a checksum that fits.                        *)
LEMMA RequestsComplete ==
    ASSUME NEW address \in Ipv6Address, NEW request \in Requests(address)
    PROVE  Complete(request) /\ 8 <= Len(request.payload)
  <1>1. 58 \in Byte /\ 17 \in Byte
    BY DEF Byte
  <1>2. ASSUME NEW target \in {ipv6LinkLocalAddress, address}
        PROVE  Unsummed(<<135, 0, 0, 0, 0, 0, 0, 0>> \o target, 3)
    BY SolicitationUnsummed, OwnAddressIsSixteen, AddressIsSixteen
  <1>3. \E payload, nextHeader, at :
            /\ request = FromPeer(address, nextHeader, payload, at)
            /\ nextHeader \in {58, 17} /\ Unsummed(payload, at)
    <2>1. CASE request \in { FromPeer(address, 58, <<135, 0, 0, 0, 0, 0, 0, 0>> \o target, 3) :
                               target \in {ipv6LinkLocalAddress, address} }
      BY <1>2, <2>1
    <2>2. CASE request \in
            { FromPeer(address, 58, <<128, 0, 0, 0, 18, 52, 0, 1, 170, 187, 204>>, 3),
              FromPeer(address, 58, <<130, 0, 0, 0, 0, 0, 0, 0>>, 3) }
      BY <2>2, OthersUnsummed
    <2>3. CASE request \in { FromPeer(address, 17, SourcePort \o <<14, port, 0, 9, 0, 0, 255>>, 7) :
                               port \in {240, 241} }
      BY <2>3, OthersUnsummed
    <2> QED
      BY <2>1, <2>2, <2>3 DEF Requests
  <1>4. PICK payload, nextHeader, at :
            /\ request = FromPeer(address, nextHeader, payload, at)
            /\ nextHeader \in {58, 17} /\ Unsummed(payload, at)
    BY <1>3
  <1> QED
    BY <1>1, <1>4, FromPeerCompletes

(* The flipped bit shows, in the address and in the payload.               *)
LEMMA DamageShows ==
    ASSUME NEW packet, PacketOK(packet), ChecksumFits(packet), 8 <= Len(packet.payload),
           NEW damaged \in Damages(packet)
    PROVE  ~ChecksumFits(damaged)
  <1> DEFINE n == Len(packet.payload)
             source == packet.source
             payload == packet.payload
  <1>1. /\ source \in Seq(Byte) /\ 16 \in 1 .. Len(source)
        /\ payload \in Seq(Byte) /\ 1 \in 1 .. n /\ n \in 1 .. n /\ n \in Nat
    <2>1. source \in Seq(Byte) /\ Len(source) = 16 /\ payload \in Seq(Byte)
      BY DEF PacketOK, Sixteen
    <2>2. n \in Nat
      BY <2>1, LenProperties
    <2> QED
      BY <2>1, <2>2
  <1>2. /\ Flipped(source[16]) \in Byte /\ Flipped(source[16]) # source[16]
        /\ Flipped(payload[1]) \in Byte /\ Flipped(payload[1]) # payload[1]
        /\ Flipped(payload[n]) \in Byte /\ Flipped(payload[n]) # payload[n]
    BY <1>1, ElementOfSeq, FlippedIsByte
  <1> DEFINE first == AfterSource(packet, 16, Flipped(source[16]))
             second == AfterByte(packet, 1, Flipped(payload[1]))
             third == AfterByte(packet, n, Flipped(payload[n]))
  <1>3. damaged \in {first, second, third}
    <2>1. packet = [source |-> packet.source, destination |-> packet.destination,
                    nextHeader |-> packet.nextHeader, payload |-> packet.payload]
      BY DEF PacketOK
    <2>2. first = [packet EXCEPT !.source[16] = Flipped(@)]
      BY <2>1 DEF AfterSource, Changed
    <2>3. second = [packet EXCEPT !.payload[1] = Flipped(@)]
      BY <2>1 DEF AfterByte
    <2>4. third = [packet EXCEPT !.payload[n] = Flipped(@)]
      BY <2>1 DEF AfterByte
    <2> QED
      BY <2>2, <2>3, <2>4 DEF Damages
  <1>4. ~ChecksumFits(first)
    BY <1>1, <1>2, SourceDamageShows, Zenon
  <1>5. ~ChecksumFits(second)
    BY <1>1, <1>2, PayloadDamageShows, Zenon
  <1>6. ~ChecksumFits(third)
    BY <1>1, <1>2, PayloadDamageShows, Zenon
  <1> QED
    BY <1>3, <1>4, <1>5, <1>6

(* The bytes that are changed on the way in the model are of that kind.    *)
THEOREM ChangedByteIsDetected == DamageIsDetected
  <1> SUFFICES ASSUME NEW address \in PeerAddress, NEW request \in Requests(address),
                      NEW damaged \in Damages(request)
               PROVE  ~ChecksumFits(damaged)
    BY DEF DamageIsDetected
  <1>1. address \in Ipv6Address
    BY StackAssumption DEF PeerAddress, PeerMac
  <1>2. Complete(request) /\ 8 <= Len(request.payload)
    BY <1>1, RequestsComplete
  <1> QED
    BY <1>2, DamageShows DEF Complete

-----------------------------------------------------------------------------
(* What is sent.                                                           *)

LEMMA PacketCompletes ==
    ASSUME NEW destination, Sixteen(destination), NEW nextHeader \in Byte,
           NEW payload \in Seq(Byte), Short(Len(payload)), NEW at, Blank(payload, at)
    PROVE  PeerAddsUp(WithChecksum(Packet(destination, nextHeader, payload), at))
  <1> DEFINE packet == Packet(destination, nextHeader, payload)
  <1>1. /\ packet = [source |-> ipv6LinkLocalAddress, destination |-> destination,
                     nextHeader |-> nextHeader, payload |-> payload]
        /\ packet.source = ipv6LinkLocalAddress /\ packet.destination = destination
        /\ packet.nextHeader = nextHeader /\ packet.payload = payload
    BY DEF Packet
  <1> HIDE DEF packet
  <1>2. PacketOK(packet) /\ Blank(packet.payload, at)
    BY <1>1, OwnAddressIsSixteen DEF PacketOK
  <1>3. PeerAddsUp(WithChecksum(packet, at))
    BY <1>2, Completed DEF Complete
  <1> QED
    BY <1>3 DEF packet

StartsLike(bytes, head) == \A i \in 1 .. Len(head) : bytes[i] = head[i]

LEMMA BlockStarts ==
    ASSUME NEW s, NEW m, Block(s, m), NEW t, NEW n, Block(t, n)
    PROVE  StartsLike(s \o t, s)
  <1>1. s \in Seq(Byte) /\ t \in Seq(Byte)
    BY DEF Block
  <1> QED
    BY <1>1, Joined DEF StartsLike

LEMMA AdvertisementAccepted ==
    ASSUME NEW destination, Sixteen(destination), NEW target, Sixteen(target),
           NEW flags \in Byte
    PROVE  PeerAddsUp(Advertisement(destination, target, flags))
  <1> DEFINE head == <<136, 0, 0, 0, flags, 0, 0, 0>>
             option == <<2, 1>>
             payload == head \o target \o option \o OwnMac
             rest == target \o option \o OwnMac
  <1>1. Block(head, 8) /\ head[3] = 0 /\ head[4] = 0
    BY DEF Block, Byte
  <1>2. Block(target, 16)
    BY DEF Block, Sixteen
  <1>3. Block(option, 2)
    BY DEF Block, Byte
  <1>4. Block(OwnMac, 6)
    BY MacIsSix, StackAssumption DEF Block
  <1>5. Advertisement(destination, target, flags) = WithChecksum(Packet(destination, 58, payload), 3)
    BY DEF Advertisement
  <1> HIDE DEF head, option
  <1> DEFINE first == head \o target
             second == first \o option
  <1>6. Block(first, 8 + 16)
    BY <1>1, <1>2, BlocksJoin, Zenon
  <1> HIDE DEF first
  <1>7. Block(second, 8 + 16 + 2)
    BY <1>3, <1>6, BlocksJoin, Zenon
  <1> HIDE DEF second
  <1>8. Block(second \o OwnMac, 8 + 16 + 2 + 6)
    BY <1>4, <1>7, BlocksJoin, Zenon
  <1>9. payload = second \o OwnMac
    BY DEF first, second
  <1>10. payload \in Seq(Byte) /\ Len(payload) = 32
    BY <1>8, <1>9 DEF Block
  <1>11. payload[3] = 0 /\ payload[4] = 0
    <2>1. StartsLike(first, head)
      BY <1>1, <1>2, BlockStarts, Zenon DEF first
    <2>2. StartsLike(second, first)
      BY <1>3, <1>6, BlockStarts, Zenon DEF second
    <2>3. StartsLike(payload, second)
      BY <1>4, <1>7, <1>9, BlockStarts, Zenon
    <2>4. Len(head) = 8 /\ Len(first) = 24 /\ Len(second) = 26
      BY <1>1, <1>6, <1>7 DEF Block
    <2> HIDE DEF payload
    <2> QED
      BY <1>1, <2>1, <2>2, <2>3, <2>4 DEF StartsLike
  <1> HIDE DEF payload
  <1>12. Blank(payload, 3) /\ Short(Len(payload)) /\ payload \in Seq(Byte)
    BY <1>10, <1>11 DEF Blank, Short
  <1>13. 58 \in Byte
    BY DEF Byte
  <1> QED
    BY <1>5, <1>12, <1>13, PacketCompletes

(* The reply is as long as the request, whatever its payload holds.        *)
LEMMA EchoReplyAccepted ==
    ASSUME NEW request, PacketOK(request), 8 <= Len(request.payload), NEW residue \in Byte
    PROVE  PeerAddsUp(EchoReply(request, residue))
  <1> DEFINE n == Len(request.payload)
             head == <<129, 0, 0, 0>>
             middle == SubSeq(request.payload, 5, 8)
             tail == [i \in 1 .. n - 8 |-> residue]
             first == head \o middle
             payload == head \o middle \o tail
  <1>1. request.payload \in Seq(Byte) /\ n \in Nat /\ n <= 65535 /\ 8 <= n
    BY DEF PacketOK, Short
  <1>2. Block(head, 4) /\ head[3] = 0 /\ head[4] = 0
    BY DEF Block, Byte
  <1>3. Block(middle, 4)
    <2>1. Holds(request.payload, 5, 8, 4)
      BY <1>1 DEF Holds
    <2> QED
      BY <2>1, BlockCut, Zenon
  <1>4. Block(tail, n - 8)
    <2> DEFINE m == n - 8
    <2>1. m \in Nat
      BY <1>1
    <2> HIDE DEF m
    <2>2. Block([i \in 1 .. m |-> residue], m)
      <3> DEFINE s == [i \in 1 .. m |-> residue]
      <3>2. s \in Seq(Byte) /\ Len(s) = m
        BY <2>1
      <3> QED
        BY <3>2 DEF Block
    <2> QED
      BY <2>2 DEF m
  <1>5. EchoReply(request, residue) = WithChecksum(Packet(request.source, 58, payload), 3)
    BY DEF EchoReply
  <1> HIDE DEF head, middle, tail
  <1>6. Block(first, 4 + 4)
    BY <1>2, <1>3, BlocksJoin, Zenon
  <1> DEFINE l == n - 8
  <1>7. payload = first \o tail
    OBVIOUS
  <1> HIDE DEF first
  <1>8. Block(payload, (4 + 4) + l)
    BY <1>4, <1>6, <1>7, BlocksJoin, Zenon
  <1>9. payload \in Seq(Byte) /\ Len(payload) = n
    BY <1>1, <1>8 DEF Block
  <1>10. payload[3] = 0 /\ payload[4] = 0
    <2>1. StartsLike(first, head)
      BY <1>2, <1>3, BlockStarts, Zenon DEF first
    <2>2. StartsLike(payload, first)
      BY <1>4, <1>6, <1>7, BlockStarts, Zenon
    <2>3. Len(head) = 4 /\ Len(first) = 8
      BY <1>2, <1>6 DEF Block
    <2> HIDE DEF payload
    <2> QED
      BY <1>2, <2>1, <2>2, <2>3 DEF StartsLike
  <1> HIDE DEF payload, n
  <1>11. Blank(payload, 3) /\ Short(Len(payload)) /\ payload \in Seq(Byte)
    BY <1>1, <1>9, <1>10 DEF Blank, Short
  <1>12. 58 \in Byte /\ Sixteen(request.source)
    BY DEF Byte, PacketOK
  <1> QED
    BY <1>5, <1>11, <1>12, PacketCompletes

(* The datagram is as long as it was, whatever it holds.                   *)
LEMMA UdpEchoAccepted ==
    ASSUME NEW request, PacketOK(request), 8 <= Len(request.payload)
    PROVE  PeerAddsUp(UdpEcho(request))
  <1> DEFINE datagram == request.payload
             n == Len(datagram)
             a == SubSeq(datagram, 3, 4)
             b == SubSeq(datagram, 1, 2)
             c == SubSeq(datagram, 5, 6)
             d == <<0, 0>>
             e == SubSeq(datagram, 9, n)
             ports == a \o b \o c
             header == ports \o d
             l == n - 8
             payload == header \o e
  <1>1. datagram \in Seq(Byte) /\ n \in Nat /\ n <= 65535 /\ 8 <= n
    BY DEF PacketOK, Short
  <1>2. UdpEcho(request) = WithChecksum(Packet(request.source, 17, payload), 7)
    BY DEF UdpEcho
  <1> HIDE DEF datagram
  <1>3. /\ Holds(datagram, 3, 4, 2) /\ Holds(datagram, 1, 2, 2) /\ Holds(datagram, 5, 6, 2)
        /\ Holds(datagram, 9, n, l)
    BY <1>1 DEF Holds
  <1> HIDE DEF n, l
  <1>4. Block(a, 2) /\ Block(b, 2) /\ Block(c, 2) /\ Block(e, l)
    BY <1>3, BlockCut, Zenon
  <1>5. Block(d, 2) /\ d[1] = 0 /\ d[2] = 0
    BY DEF Block, Byte
  <1> HIDE DEF a, b, c, d, e
  <1>6. Block(ports, 2 + 2 + 2)
    BY <1>4, BlocksJoin, Zenon
  <1> HIDE DEF ports
  <1>7. Block(header, 2 + 2 + 2 + 2)
    BY <1>5, <1>6, BlocksJoin, Zenon
  <1>8. header[7] = 0 /\ header[8] = 0
    <2>1. ports \in Seq(Byte) /\ d \in Seq(Byte)
      BY <1>5, <1>6 DEF Block
    <2>2. \A i \in 1 .. Len(d) : header[Len(ports) + i] = d[i]
      BY <2>1, Joined
    <2>3. Len(ports) = 6 /\ Len(d) = 2
      BY <1>5, <1>6 DEF Block
    <2>4. 1 \in 1 .. Len(d) /\ 2 \in 1 .. Len(d)
      BY <2>3
    <2>5. header[Len(ports) + 1] = 0 /\ header[Len(ports) + 2] = 0
      BY <1>5, <2>2, <2>4
    <2> HIDE DEF header
    <2> QED
      BY <2>3, <2>5
  <1> HIDE DEF header
  <1>9. Block(payload, (2 + 2 + 2 + 2) + l)
    BY <1>4, <1>7, BlocksJoin, Zenon
  <1>10. StartsLike(payload, header)
    BY <1>4, <1>7, BlockStarts, Zenon
  <1>11. Len(header) = 8
    BY <1>7 DEF Block
  <1> HIDE DEF payload
  <1>12. payload \in Seq(Byte) /\ Len(payload) = n
    BY <1>1, <1>9 DEF Block, l
  <1>13. payload[7] = 0 /\ payload[8] = 0
    BY <1>8, <1>10, <1>11 DEF StartsLike
  <1>14. Blank(payload, 7) /\ Short(Len(payload)) /\ payload \in Seq(Byte)
    BY <1>1, <1>12, <1>13 DEF Blank, Short
  <1>15. 17 \in Byte /\ Sixteen(request.source)
    BY DEF Byte, PacketOK
  <1> QED
    BY <1>2, <1>14, <1>15, PacketCompletes

(* Whatever is answered to a packet of the stations passes the test of its *)
(* receiver.                                                               *)
LEMMA AnswersAccepted ==
    ASSUME NEW request, PacketOK(request), 8 <= Len(request.payload),
           NEW answer \in Answers(request)
    PROVE  PeerAddsUp(answer)
  <1>1. Sixteen(request.source)
    BY DEF PacketOK
  <1>2. CASE Solicits(request)
    <2>1. SubSeq(request.payload, 9, 24) = ipv6LinkLocalAddress
      BY <1>2 DEF Solicits
    <2>2. answer = Advertisement(request.source, ipv6LinkLocalAddress, 96)
      <3> DEFINE soliciting == { Advertisement(request.source,
                                               SubSeq(request.payload, 9, 24), 96) }
                 echoing == { EchoReply(request, residue) : residue \in Residue }
                 echoes == request.nextHeader = 58 /\ request.payload[1] = 128
                 datagram == request.nextHeader = 17 /\ UdpPort(request) = 3824
      <3>1. ~echoes /\ ~datagram
        BY <1>2 DEF Solicits
      <3>2. Answers(request) = CASE Solicits(request) -> soliciting [] echoes -> echoing
                                 [] datagram -> {UdpEcho(request)} [] OTHER -> {}
        BY DEF Answers
      <3> HIDE DEF echoes, datagram, echoing, soliciting
      <3>3. Answers(request) = soliciting
        BY <1>2, <3>1, <3>2
      <3> QED
        BY <2>1, <3>3 DEF soliciting
    <2>3. 96 \in Byte
      BY DEF Byte
    <2> QED
      BY <1>1, <2>2, <2>3, OwnAddressIsSixteen, AdvertisementAccepted
  <1>3. CASE ~Solicits(request)
    <2>1. \/ \E residue \in Residue : answer = EchoReply(request, residue)
          \/ answer = UdpEcho(request)
      BY <1>3 DEF Answers
    <2>2. \A residue \in Residue : residue \in Byte
      BY StackAssumption
    <2> QED
      BY <2>1, <2>2, EchoReplyAccepted, UdpEchoAccepted
  <1> QED
    BY <1>2, <1>3

LEMMA HelloAccepted ==
    PeerAddsUp(Advertisement(AllNodes, ipv6LinkLocalAddress, 32))
  <1>1. 32 \in Byte
    BY DEF Byte
  <1> QED
    BY <1>1, AllNodesIsSixteen, OwnAddressIsSixteen, AdvertisementAccepted

-----------------------------------------------------------------------------
(* The invariant of the cache and of what is sent.                         *)

EntryRecord ==
    [ipv6Address : PeerAddress \cup {Zeros(16)}, macAddress : PeerMac \cup {Zeros(6)},
     usageCounter : 0 .. CounterSpace - 1]

(* A cache that is current with respect to what was announced.             *)
CacheOK(cache, ann) ==
    /\ cache \in [Entry -> EntryRecord]
    /\ \A e \in Entry : cache[e].usageCounter > 0 =>
        /\ cache[e].ipv6Address \in PeerAddress
        /\ cache[e].macAddress \in PeerMac
        /\ cache[e].macAddress = ann[cache[e].ipv6Address]
        /\ \A other \in Entry \ {e} : cache[other].usageCounter > 0 =>
                cache[other].ipv6Address # cache[e].ipv6Address

FramesOK(frames) ==
    \A frame \in frames :
        Len(frame.destination) = 6 /\ frame.source = OwnMac /\ PeerAddsUp(frame.packet)

StackInv ==
    /\ CacheOK(neighborCache, announced)
    /\ linkStatus \in BOOLEAN
    /\ announced \in [PeerAddress -> PeerMac \cup {NoMac}]
    /\ FramesOK(exchange.sent)
    /\ AskerIsAnswered
    /\ intact = TRUE

-----------------------------------------------------------------------------
(* The two searches of the cache.                                          *)

LEMMA EntryType == Entry \subseteq Nat /\ Entry # {} /\ CounterSpace \in Nat \ {0, 1}
  <1>1. Entries \in Nat \ {0} /\ CounterSpace \in Nat \ {0, 1}
    BY StackAssumption
  <1>2. 1 \in Entry
    BY <1>1 DEF Entry
  <1> QED
    BY <1>1, <1>2 DEF Entry

(* addNeighbor() always finds an entry to overwrite.                       *)
LEMMA LeastUsedIsEntry ==
    ASSUME NEW cache \in [Entry -> EntryRecord]
    PROVE  LeastUsed(cache) \in Entry
  <1> DEFINE counters == { cache[e].usageCounter : e \in Entry }
             least == { e \in Entry : \A other \in Entry :
                            cache[e].usageCounter <= cache[other].usageCounter }
  <1>1. counters \in SUBSET Nat /\ counters # {}
    BY EntryType DEF EntryRecord
  <1>2. PICK n \in counters : \A m \in counters : n <= m
    BY <1>1, SmallestOfSet
  <1>3. PICK e \in Entry : n = cache[e].usageCounter
    OBVIOUS
  <1>4. e \in least
    BY <1>2, <1>3
  <1>5. least \in SUBSET Nat /\ least # {}
    BY <1>4, EntryType
  <1> HIDE DEF least
  <1>6. PICK first \in least : \A other \in least : first <= other
    BY <1>5, SmallestOfSet
  <1>7. Min(least) \in least
    BY <1>6 DEF Min
  <1> QED
    BY <1>7 DEF LeastUsed, least

(* findNeighbor() returns a match if there is one.                         *)
LEMMA FoundIsMatch ==
    ASSUME NEW cache, NEW ann, CacheOK(cache, ann), NEW address,
           Matches(cache, address) # {}
    PROVE  /\ Found(cache, address) \in Matches(cache, address)
           /\ Found(cache, address) \in Entry
           /\ Matches(cache, address) = {Found(cache, address)}
  <1>1. PICK e \in Matches(cache, address) : TRUE
    OBVIOUS
  <1>2. Matches(cache, address) = {e} /\ e \in Entry
    BY <1>1 DEF Matches, CacheOK
  <1>3. e \in Nat
    BY <1>2, EntryType
  <1>4. Max({e}) = e
    BY <1>3 DEF Max
  <1> QED
    BY <1>2, <1>4 DEF Found

-----------------------------------------------------------------------------
(* The operations of the cache.                                            *)

LEMMA UsedEntry ==
    ASSUME NEW cache \in [Entry -> EntryRecord], NEW address
    PROVE  /\ Used(cache, address) \in [Entry -> EntryRecord]
           /\ \A e \in Entry :
                /\ Used(cache, address)[e].ipv6Address = cache[e].ipv6Address
                /\ Used(cache, address)[e].macAddress = cache[e].macAddress
                /\ Used(cache, address)[e].usageCounter > 0 => cache[e].usageCounter > 0
                /\ e \notin Matches(cache, address) => Used(cache, address)[e] = cache[e]
  <1> DEFINE counted(e) == [cache[e] EXCEPT !.usageCounter = (@ + 1) % CounterSpace]
  <1>1. \A e \in Entry :
            /\ counted(e) \in EntryRecord
            /\ counted(e).ipv6Address = cache[e].ipv6Address
            /\ counted(e).macAddress = cache[e].macAddress
    <2>1. SUFFICES ASSUME NEW e \in Entry
                   PROVE  /\ counted(e) \in EntryRecord
                          /\ counted(e).ipv6Address = cache[e].ipv6Address
                          /\ counted(e).macAddress = cache[e].macAddress
      OBVIOUS
    <2>2. cache[e] \in EntryRecord /\ cache[e].usageCounter \in Nat
      BY EntryType DEF EntryRecord
    <2>3. (cache[e].usageCounter + 1) % CounterSpace \in 0 .. CounterSpace - 1
      BY <2>2, EntryType
    <2> QED
      BY <2>2, <2>3 DEF EntryRecord
  <1>2. Used(cache, address) =
            [e \in Entry |-> IF e \in Matches(cache, address) THEN counted(e) ELSE cache[e]]
    BY DEF Used
  <1>3. \A e \in Matches(cache, address) : cache[e].usageCounter > 0
    BY DEF Matches
  <1> HIDE DEF counted
  <1> QED
    BY <1>1, <1>2, <1>3

(* Counting a use, though the counter may go round to 0, leaves the cache  *)
(* current.                                                                *)
LEMMA UsedKeeps ==
    ASSUME NEW cache, NEW ann, CacheOK(cache, ann), NEW address
    PROVE  CacheOK(Used(cache, address), ann)
  <1> DEFINE used == Used(cache, address)
  <1>1. /\ used \in [Entry -> EntryRecord]
        /\ \A e \in Entry :
             /\ used[e].ipv6Address = cache[e].ipv6Address
             /\ used[e].macAddress = cache[e].macAddress
             /\ used[e].usageCounter > 0 => cache[e].usageCounter > 0
    BY UsedEntry DEF CacheOK
  <1> HIDE DEF used
  <1>2. CacheOK(used, ann)
    BY <1>1 DEF CacheOK
  <1> QED
    BY <1>2 DEF used

(* addNeighbor() with what a solicitation tells: the cache is current with *)
(* respect to it, and has an entry for the address.                        *)
LEMMA AddedKeeps ==
    ASSUME NEW cache, NEW ann \in [PeerAddress -> PeerMac \cup {NoMac}],
           CacheOK(cache, ann), NEW mac \in PeerMac, NEW address \in PeerAddress
    PROVE  /\ CacheOK(Added(cache, mac, address), [ann EXCEPT ![address] = mac])
           /\ \E e \in Entry : Added(cache, mac, address)[e].ipv6Address = address
  <1> DEFINE told == [ann EXCEPT ![address] = mac]
             added == Added(cache, mac, address)
  <1>1. told[address] = mac /\ \A other \in PeerAddress \ {address} : told[other] = ann[other]
    OBVIOUS
  <1>2. cache \in [Entry -> EntryRecord]
    BY DEF CacheOK
  <1> HIDE DEF told
  <1>3. CASE Matches(cache, address) # {}
    <2> DEFINE found == Found(cache, address)
               used == Used(cache, address)
    <2>1. found \in Entry /\ Matches(cache, address) = {found}
      BY <1>3, FoundIsMatch
    <2>2. /\ used \in [Entry -> EntryRecord]
          /\ \A e \in Entry :
               /\ used[e].ipv6Address = cache[e].ipv6Address
               /\ used[e].macAddress = cache[e].macAddress
               /\ used[e].usageCounter > 0 => cache[e].usageCounter > 0
      BY <1>2, UsedEntry
    <2>3. added = [used EXCEPT ![found].macAddress = mac]
      BY <1>3 DEF Added
    <2>4. cache[found].ipv6Address = address /\ cache[found].usageCounter > 0
      BY <2>1 DEF Matches
    <2> HIDE DEF found, used, added
    <2>5. used[found] \in EntryRecord
      BY <2>1, <2>2
    <2>6. /\ added \in [Entry -> EntryRecord]
          /\ added[found].macAddress = mac
          /\ added[found].ipv6Address = used[found].ipv6Address
          /\ added[found].usageCounter = used[found].usageCounter
          /\ \A e \in Entry \ {found} : added[e] = used[e]
      BY <2>1, <2>2, <2>3, <2>5 DEF EntryRecord
    <2>7. \A e \in Entry : added[e].usageCounter > 0 => cache[e].usageCounter > 0
      BY <2>2, <2>6
    <2>8. \A e \in Entry : added[e].ipv6Address = cache[e].ipv6Address
      BY <2>2, <2>6
    <2>9. \A e \in Entry \ {found} : added[e].macAddress = cache[e].macAddress
      BY <2>2, <2>6
    <2>10. CacheOK(added, told)
      <3>1. SUFFICES ASSUME NEW e \in Entry, added[e].usageCounter > 0
                     PROVE  /\ added[e].ipv6Address \in PeerAddress
                            /\ added[e].macAddress \in PeerMac
                            /\ added[e].macAddress = told[added[e].ipv6Address]
                            /\ \A other \in Entry \ {e} : added[other].usageCounter > 0 =>
                                    added[other].ipv6Address # added[e].ipv6Address
        BY <2>6 DEF CacheOK
      <3>2. cache[e].usageCounter > 0
        BY <2>7, <3>1
      <3>3. /\ cache[e].ipv6Address \in PeerAddress
            /\ cache[e].macAddress \in PeerMac
            /\ cache[e].macAddress = ann[cache[e].ipv6Address]
            /\ \A other \in Entry \ {e} : cache[other].usageCounter > 0 =>
                    cache[other].ipv6Address # cache[e].ipv6Address
        BY <3>2 DEF CacheOK
      <3>4. \A other \in Entry \ {e} : added[other].usageCounter > 0 =>
                added[other].ipv6Address # added[e].ipv6Address
        BY <2>7, <2>8, <3>3
      <3>5. CASE e = found
        BY <1>1, <2>4, <2>6, <2>8, <3>4, <3>5
      <3>6. CASE e # found
        <4>1. cache[e].ipv6Address # address
          BY <2>1, <2>4, <3>3, <3>6
        <4> QED
          BY <1>1, <2>8, <2>9, <3>3, <3>4, <3>6, <4>1
      <3> QED
        BY <3>5, <3>6
    <2> QED
      BY <2>1, <2>4, <2>8, <2>10 DEF told, added
  <1>4. CASE Matches(cache, address) = {}
    <2> DEFINE least == LeastUsed(cache)
               new == [ipv6Address |-> address, macAddress |-> mac, usageCounter |-> 1]
    <2>1. least \in Entry
      BY <1>2, LeastUsedIsEntry
    <2>2. added = [cache EXCEPT ![least] = new]
      BY <1>4 DEF Added
    <2>3. new \in EntryRecord
      BY EntryType DEF EntryRecord
    <2>4. /\ new.ipv6Address = address /\ new.macAddress = mac
      OBVIOUS
    <2> HIDE DEF least, new, added
    <2>5. /\ added \in [Entry -> EntryRecord] /\ added[least] = new
          /\ \A e \in Entry \ {least} : added[e] = cache[e]
      BY <1>2, <2>1, <2>2, <2>3
    <2>6. \A e \in Entry : cache[e].usageCounter > 0 => cache[e].ipv6Address # address
      BY <1>4 DEF Matches
    <2>7. CacheOK(added, told)
      <3>1. SUFFICES ASSUME NEW e \in Entry, added[e].usageCounter > 0
                     PROVE  /\ added[e].ipv6Address \in PeerAddress
                            /\ added[e].macAddress \in PeerMac
                            /\ added[e].macAddress = told[added[e].ipv6Address]
                            /\ \A other \in Entry \ {e} : added[other].usageCounter > 0 =>
                                    added[other].ipv6Address # added[e].ipv6Address
        BY <2>5 DEF CacheOK
      <3>2. CASE e = least
        BY <1>1, <2>4, <2>5, <2>6, <3>2
      <3>3. CASE e # least
        <4>1. added[e] = cache[e] /\ cache[e].usageCounter > 0
          BY <2>5, <3>1, <3>3
        <4>2. /\ cache[e].ipv6Address \in PeerAddress
              /\ cache[e].macAddress \in PeerMac
              /\ cache[e].macAddress = ann[cache[e].ipv6Address]
              /\ \A other \in Entry \ {e} : cache[other].usageCounter > 0 =>
                      cache[other].ipv6Address # cache[e].ipv6Address
          BY <4>1 DEF CacheOK
        <4>3. cache[e].ipv6Address # address
          BY <2>6, <4>1
        <4> QED
          BY <1>1, <2>4, <2>5, <4>1, <4>2, <4>3
      <3> QED
        BY <3>2, <3>3
    <2> QED
      BY <2>1, <2>4, <2>5, <2>7 DEF told, added
  <1> QED
    BY <1>3, <1>4
-----------------------------------------------------------------------------
(* What is sent.                                                           *)

LEMMA SixBytes ==
    ASSUME NEW mac \in MacAddress
    PROVE  Len(mac) = 6 /\ mac # NoMac
  BY MacIsSix DEF NoMac

(* ipv6ToMac() gives six bytes or no address.                              *)
LEMMA ConvertedLength ==
    ASSUME NEW address \in Ipv6Address, ipv6ToMac(address) # NoMac
    PROVE  Len(ipv6ToMac(address)) = 6
  <1>1. \A i \in 1 .. 16 : address[i] \in Int
    BY DEF Ipv6Address, Byte
  <1>2. CASE IsMulticast(address)
    <2>1. SubSeq(address, 13, 16) \in Seq(Int) /\ Len(SubSeq(address, 13, 16)) = 4
      BY <1>1, SubSeqProperties
    <2>2. <<51, 51>> \in Seq(Int) /\ Len(<<51, 51>>) = 2
      OBVIOUS
    <2>3. Len(<<51, 51>> \o SubSeq(address, 13, 16)) = 6
      BY <2>1, <2>2, ConcatProperties
    <2> QED
      BY <1>2, <2>3 DEF ipv6ToMac
  <1>3. CASE ~IsMulticast(address)
    <2> DEFINE first == <<FlipUniversal(address[9])>>
    <2>1. /\ SubSeq(address, 10, 11) \in Seq(Int) /\ Len(SubSeq(address, 10, 11)) = 2
          /\ SubSeq(address, 14, 16) \in Seq(Int) /\ Len(SubSeq(address, 14, 16)) = 3
      BY <1>1, SubSeqProperties
    <2>2. FlipUniversal(address[9]) \in Int
      BY <1>1 DEF FlipUniversal
    <2>3. first \in Seq(Int) /\ Len(first) = 1
      BY <2>2
    <2> HIDE DEF first
    <2> DEFINE second == SubSeq(address, 10, 11)
               third == SubSeq(address, 14, 16)
    <2> HIDE DEF second, third
    <2>4. first \o second \in Seq(Int) /\ Len(first \o second) = 3
      <3>1. second \in Seq(Int) /\ Len(second) = 2
        BY <2>1 DEF second
      <3>2. first \o second \in Seq(Int) /\ Len(first \o second) = Len(first) + Len(second)
        BY <2>3, <3>1, Concatenated, Zenon
      <3> QED
        BY <2>3, <3>1, <3>2
    <2>5. Len(first \o second \o third) = 6
      <3>1. third \in Seq(Int) /\ Len(third) = 3
        BY <2>1 DEF third
      <3>2. Len(first \o second \o third) = Len(first \o second) + Len(third)
        BY <2>4, <3>1, Concatenated, Zenon
      <3> QED
        BY <2>4, <3>1, <3>2
    <2> QED
      BY <1>3, <2>5 DEF ipv6ToMac, first, second, third
  <1> QED
    BY <1>2, <1>3

(* A frame goes to the MAC the cache has for the address, or to the one in *)
(* it; the cache stays current.                                            *)
LEMMA SendKeeps ==
    ASSUME NEW cache, NEW ann, CacheOK(cache, ann), NEW packet, NEW asker,
           packet.destination \in Ipv6Address, PeerAddsUp(packet), Send(cache, packet, asker)
    PROVE  /\ CacheOK(neighborCache', ann)
           /\ FramesOK(exchange'.sent)
           /\ exchange'.asker = asker
           /\ exchange'.destination = packet.destination
  <1> DEFINE mac == Resolved(cache, packet.destination)
             frame == [destination |-> mac, source |-> OwnMac, packet |-> packet]
  <1>1. CacheOK(neighborCache', ann)
    BY UsedKeeps DEF Send
  <1>2. exchange' = [asker |-> asker, destination |-> packet.destination,
                     sent |-> IF mac = NoMac THEN {} ELSE {frame}]
    BY DEF Send
  <1>3. mac # NoMac => Len(mac) = 6
    <2>1. CASE Matches(cache, packet.destination) # {}
      <3>1. Found(cache, packet.destination) \in Matches(cache, packet.destination)
        BY <2>1, FoundIsMatch
      <3>2. cache[Found(cache, packet.destination)].macAddress \in PeerMac
        BY <3>1 DEF Matches, CacheOK
      <3>3. cache[Found(cache, packet.destination)].macAddress \in MacAddress
        BY <3>2, StackAssumption DEF PeerMac
      <3> QED
        BY <2>1, <3>3, SixBytes DEF Resolved
    <2>2. CASE Matches(cache, packet.destination) = {}
      BY <2>2, ConvertedLength DEF Resolved
    <2> QED
      BY <2>1, <2>2
  <1>4. frame.destination = mac /\ frame.source = OwnMac /\ PeerAddsUp(frame.packet)
    OBVIOUS
  <1> HIDE DEF mac, frame
  <1>5. FramesOK(exchange'.sent)
    BY <1>2, <1>3, <1>4 DEF FramesOK
  <1> QED
    BY <1>1, <1>2, <1>5

LEMMA ChecksumLeavesAddresses ==
    ASSUME NEW packet, NEW at,
           packet = [source |-> packet.source, destination |-> packet.destination,
                     nextHeader |-> packet.nextHeader, payload |-> packet.payload]
    PROVE  /\ WithChecksum(packet, at).source = packet.source
           /\ WithChecksum(packet, at).destination = packet.destination
  <1> DEFINE checksum == payloadChecksum(packet.source, packet.destination,
                                         packet.nextHeader, packet.payload)
  <1>1. WithChecksum(packet, at) =
            [packet EXCEPT !.payload[at] = checksum % 256,
                           !.payload[at + 1] = checksum \div 256]
    BY DEF WithChecksum
  <1> HIDE DEF checksum
  <1> QED
    BY <1>1

LEMMA PacketFields ==
    ASSUME NEW destination, NEW nextHeader, NEW payload, NEW at
    PROVE  WithChecksum(Packet(destination, nextHeader, payload), at).destination
             = destination
  BY ChecksumLeavesAddresses DEF Packet

(* Every answer goes to where the request came from.                       *)
LEMMA AnswerGoesBack ==
    ASSUME NEW request, NEW answer \in Answers(request)
    PROVE  answer.destination = request.source
  <1>1. \A target, flags : Advertisement(request.source, target, flags).destination
                             = request.source
    BY PacketFields DEF Advertisement
  <1>2. \A residue : EchoReply(request, residue).destination = request.source
    BY PacketFields DEF EchoReply
  <1>3. UdpEcho(request).destination = request.source
    BY PacketFields DEF UdpEcho
  <1> QED
    BY <1>1, <1>2, <1>3 DEF Answers

LEMMA RequestComesFrom ==
    ASSUME NEW address, NEW request \in Requests(address)
    PROVE  request.source = address
  <1>1. ASSUME NEW nextHeader, NEW payload, NEW at
        PROVE  FromPeer(address, nextHeader, payload, at).source = address
    <2> DEFINE packet == [source |-> address, destination |-> ipv6LinkLocalAddress,
                          nextHeader |-> nextHeader, payload |-> payload]
               completed == WithChecksum(packet, at)
    <2>1. completed.source = address
      BY ChecksumLeavesAddresses
    <2>2. FromPeer(address, nextHeader, payload, at) =
              IF WithoutChecksum(completed)
              THEN [completed EXCEPT !.payload[7] = 255, !.payload[8] = 255]
              ELSE completed
      BY DEF FromPeer, PeerWithChecksum
    <2> HIDE DEF completed
    <2> QED
      BY <2>1, <2>2
  <1> QED
    BY <1>1 DEF Requests
-----------------------------------------------------------------------------
(* The steps of the main loop.                                             *)

LEMMA NothingSent ==
    ASSUME exchange' = Nothing
    PROVE  FramesOK(exchange'.sent) /\ AskerIsAnswered'
  <1>1. exchange'.sent = {} /\ exchange'.asker = NoMac
    BY DEF Nothing
  <1> QED
    BY <1>1 DEF FramesOK, AskerIsAnswered

LEMMA StackInitial ==
    ASSUME StackInit
    PROVE  StackInv
  <1>1. neighborCache \in [Entry -> EntryRecord]
    BY EntryType DEF StackInit, Vacated, EntryRecord
  <1>2. CacheOK(neighborCache, announced)
    BY <1>1 DEF StackInit, Vacated, CacheOK
  <1>3. FramesOK(exchange.sent) /\ AskerIsAnswered
    BY DEF StackInit, Nothing, FramesOK, AskerIsAnswered
  <1> QED
    BY <1>2, <1>3 DEF StackInit, StackInv

LEMMA LinkUpKeeps ==
    ASSUME StackInv, NEW room \in BOOLEAN, LinkUp(room)
    PROVE  StackInv'
  <1>1. linkStatus' \in BOOLEAN /\ announced' = announced /\ intact' = TRUE
        /\ CacheOK(neighborCache, announced)
        /\ announced \in [PeerAddress -> PeerMac \cup {NoMac}]
    BY DEF LinkUp, StackInv
  <1>2. CASE room
    <2> DEFINE hello == Advertisement(AllNodes, ipv6LinkLocalAddress, 32)
    <2>1. hello.destination = AllNodes /\ PeerAddsUp(hello)
      BY PacketFields, HelloAccepted DEF Advertisement
    <2>2. AllNodes \in Ipv6Address
      BY AllNodesIsSixteen
    <2>3. Send(neighborCache, hello, NoMac)
      BY <1>2 DEF LinkUp
    <2> HIDE DEF hello
    <2>4. CacheOK(neighborCache', announced) /\ FramesOK(exchange'.sent)
          /\ exchange'.asker = NoMac
      BY <1>1, <2>1, <2>2, <2>3, SendKeeps
    <2> QED
      BY <1>1, <2>4 DEF StackInv, AskerIsAnswered
  <1>3. CASE ~room
    <2>1. exchange' = Nothing /\ neighborCache' = neighborCache
      BY <1>3 DEF LinkUp
    <2> QED
      BY <1>1, <2>1, NothingSent DEF StackInv
  <1> QED
    BY <1>2, <1>3

LEMMA LinkLostKeeps ==
    ASSUME StackInv, LinkLost
    PROVE  StackInv'
  <1>1. neighborCache' = [e \in Entry |-> Vacated]
    BY DEF LinkLost, Invalidated
  <1>2. neighborCache' \in [Entry -> EntryRecord]
    BY <1>1, EntryType DEF Vacated, EntryRecord
  <1>3. CacheOK(neighborCache', announced')
    BY <1>1, <1>2 DEF Vacated, CacheOK
  <1>4. exchange' = Nothing /\ linkStatus' \in BOOLEAN
        /\ announced' \in [PeerAddress -> PeerMac \cup {NoMac}]
    BY DEF LinkLost
  <1>5. intact' = TRUE
    BY DEF LinkLost, StackInv
  <1> QED
    BY <1>3, <1>4, <1>5, NothingSent DEF StackInv

LEMMA IgnoreKeeps ==
    ASSUME StackInv, NEW packet, Ignore(packet)
    PROVE  StackInv'
  <1>1. exchange' = Nothing /\ UNCHANGED <<neighborCache, linkStatus, announced, intact>>
    BY DEF Ignore
  <1> QED
    BY <1>1, NothingSent DEF StackInv

LEMMA DiscardKeeps ==
    ASSUME StackInv, Discard
    PROVE  StackInv'
  <1>1. exchange' = Nothing /\ UNCHANGED <<neighborCache, linkStatus, announced, intact>>
    BY DEF Discard
  <1> QED
    BY <1>1, NothingSent DEF StackInv

(* A solicitation is answered to its sender, or counted its entry round.   *)
LEMMA SolicitationAnswered ==
    ASSUME NEW cache, NEW ann, CacheOK(cache, ann), NEW mac \in PeerMac,
           NEW address \in PeerAddress, ann[address] = mac,
           \E e \in Entry : cache[e].ipv6Address = address,
           NEW answer, answer.destination = address, Send(cache, answer, mac)
    PROVE  AskerIsAnswered'
  <1> DEFINE frame == [destination |-> Resolved(cache, address), source |-> OwnMac,
                       packet |-> answer]
  <1>1. /\ neighborCache' = Used(cache, address)
        /\ exchange' = [asker |-> mac, destination |-> address, sent |->
                          IF Resolved(cache, address) = NoMac THEN {} ELSE {frame}]
    BY DEF Send
  <1>2. cache \in [Entry -> EntryRecord]
    BY DEF CacheOK
  <1>3. CASE Matches(cache, address) # {}
    <2>1. Found(cache, address) \in Matches(cache, address)
      BY <1>3, FoundIsMatch
    <2>2. cache[Found(cache, address)].macAddress = mac
      BY <2>1 DEF Matches, CacheOK
    <2>3. Resolved(cache, address) = mac
      BY <1>3, <2>2 DEF Resolved
    <2>4. mac # NoMac
      BY SixBytes, StackAssumption DEF PeerMac
    <2>5. frame.destination = mac
      BY <2>3
    <2> HIDE DEF frame
    <2> QED
      BY <1>1, <2>3, <2>4, <2>5 DEF AskerIsAnswered
  <1>4. CASE Matches(cache, address) = {}
    <2>1. \A e \in Entry : neighborCache'[e] = cache[e]
      BY <1>1, <1>2, <1>4, UsedEntry
    <2>2. \A e \in Entry : cache[e].ipv6Address = address => ~(cache[e].usageCounter > 0)
      BY <1>4 DEF Matches
    <2>3. exchange'.destination = address
      BY <1>1
    <2> DEFINE known == { e \in Entry : neighborCache'[e].ipv6Address = exchange'.destination }
    <2>4. known # {} /\ \A e \in known : ~Live(e)'
      BY <2>1, <2>2, <2>3 DEF Live
    <2> QED
      BY <2>4 DEF AskerIsAnswered
  <1> QED
    BY <1>3, <1>4

LEMMA ReceiveKeeps ==
    ASSUME StackInv, NEW mac \in PeerMac, NEW address \in AddressesOf[mac],
           NEW request \in Requests(address), NEW room \in BOOLEAN,
           Receive(mac, request, request, room)
    PROVE  StackInv'
  <1>1. request.source = address /\ address \in PeerAddress /\ address \in Ipv6Address
    BY RequestComesFrom, StackAssumption DEF PeerAddress, PeerMac
  <1>2. /\ CacheOK(neighborCache, announced)
        /\ announced \in [PeerAddress -> PeerMac \cup {NoMac}]
        /\ linkStatus' \in BOOLEAN /\ intact' = TRUE
    BY DEF StackInv, Receive
  <1> DEFINE solicits == Solicits(request)
             learnt == IF solicits THEN Added(neighborCache, mac, address) ELSE neighborCache
             asker == IF solicits THEN mac ELSE NoMac
  <1>3. /\ announced' = IF solicits THEN [announced EXCEPT ![address] = mac] ELSE announced
        /\ \/ \E answer \in Answers(request) : Send(learnt, answer, asker)
           \/ exchange' = Nothing /\ neighborCache' = learnt
    BY <1>1 DEF Receive
  <1>4. /\ CacheOK(learnt, announced')
        /\ announced' \in [PeerAddress -> PeerMac \cup {NoMac}]
        /\ solicits => \E e \in Entry : learnt[e].ipv6Address = address
        /\ solicits => announced'[address] = mac
    <2>1. CASE solicits
      BY <1>1, <1>2, <1>3, <2>1, AddedKeeps
    <2>2. CASE ~solicits
      BY <1>2, <1>3, <2>2
    <2> QED
      BY <2>1, <2>2
  <1> HIDE DEF solicits, learnt
  <1>5. CASE \E answer \in Answers(request) : Send(learnt, answer, asker)
    <2>1. PICK answer \in Answers(request) : Send(learnt, answer, asker)
      BY <1>5
    <2>2. answer.destination = address /\ PeerAddsUp(answer)
      <3>1. PacketOK(request) /\ 8 <= Len(request.payload)
        BY <1>1, RequestsComplete DEF Complete
      <3> QED
        BY <1>1, <3>1, AnswerGoesBack, AnswersAccepted
    <2>3. /\ CacheOK(neighborCache', announced') /\ FramesOK(exchange'.sent)
          /\ exchange'.asker = asker
      BY <1>1, <1>4, <2>1, <2>2, SendKeeps
    <2>4. AskerIsAnswered'
      <3>1. CASE solicits
        BY <1>1, <1>4, <2>1, <2>2, <3>1, SolicitationAnswered
      <3>2. CASE ~solicits
        BY <2>3, <3>2 DEF AskerIsAnswered
      <3> QED
        BY <3>1, <3>2
    <2> QED
      BY <1>2, <1>4, <2>3, <2>4 DEF StackInv
  <1>6. CASE exchange' = Nothing /\ neighborCache' = learnt
    BY <1>2, <1>4, <1>6, NothingSent DEF StackInv
  <1> QED
    BY <1>3, <1>5, <1>6

(* What every step of the main loop keeps: the cache is current, what is   *)
(* sent is well formed and accepted, who asks is answered, and what is     *)
(* taken was not damaged.                                                  *)
THEOREM StackInvariant == StackSpec => []StackInv
  <1>1. StackInit => StackInv
    BY StackInitial
  <1>2. StackInv /\ [StackNext]_stackVars => StackInv'
    <2> SUFFICES ASSUME StackInv, [StackNext]_stackVars
                 PROVE  StackInv'
      OBVIOUS
    <2>1. CASE \E room \in BOOLEAN : LinkUp(room)
      BY <2>1, LinkUpKeeps
    <2>2. CASE LinkLost
      BY <2>2, LinkLostKeeps
    <2>3. CASE \E mac \in PeerMac, room \in BOOLEAN : \E address \in AddressesOf[mac] :
                 \E request \in Requests(address) : Receive(mac, request, request, room)
      BY <2>3, ReceiveKeeps
    <2>4. CASE \E mac \in PeerMac : \E address \in AddressesOf[mac] :
                 \E request \in Requests(address) : \E damaged \in Damages(request) :
                    Ignore(damaged) \/ Receive(mac, damaged, request, TRUE)
      <3>1. PICK mac \in PeerMac : \E address \in AddressesOf[mac] :
                 \E request \in Requests(address) : \E damaged \in Damages(request) :
                    Ignore(damaged) \/ Receive(mac, damaged, request, TRUE)
        BY <2>4
      <3>2. PICK address \in AddressesOf[mac] :
                 \E request \in Requests(address) : \E damaged \in Damages(request) :
                    Ignore(damaged) \/ Receive(mac, damaged, request, TRUE)
        BY <3>1
      <3>3. PICK request \in Requests(address) : \E damaged \in Damages(request) :
                    Ignore(damaged) \/ Receive(mac, damaged, request, TRUE)
        BY <3>2
      <3>4. PICK damaged \in Damages(request) :
                    Ignore(damaged) \/ Receive(mac, damaged, request, TRUE)
        BY <3>3
      <3>5. ~ChecksumFits(damaged)
        BY <3>1, <3>2, <3>3, <3>4, ChangedByteIsDetected DEF DamageIsDetected, PeerAddress
      <3>6. Ignore(damaged)
        BY <3>4, <3>5 DEF Receive
      <3> QED
        BY <3>6, IgnoreKeeps
    <2>5. CASE Discard
      BY <2>5, DiscardKeeps
    <2>6. CASE UNCHANGED stackVars
      BY <2>6 DEF stackVars, StackInv, AskerIsAnswered, Live
    <2> QED
      BY <2>1, <2>2, <2>3, <2>4, <2>5, <2>6 DEF StackNext
  <1> QED
    BY <1>1, <1>2, PTL DEF StackSpec

(* The cache holds addresses and MACs of stations, and a frame goes from    *)
(* the own MAC address to one of six bytes: for any number of entries and   *)
(* any stations.                                                            *)
THEOREM StackTypeCorrect == StackSpec => []StackTypeOK
  <1>1. StackInv => StackTypeOK
    BY DEF StackInv, StackTypeOK, CacheOK, FramesOK, EntryRecord
  <1> QED
    BY <1>1, StackInvariant, PTL

(* No address has two live entries, and a live entry has the MAC its        *)
(* address announced last since the link came up: for any number of         *)
(* entries and any width of the counters, whatever is evicted or counted    *)
(* round.                                                                   *)
THEOREM CacheStaysCurrent == StackSpec => []CacheIsCurrent
  <1>1. StackInv => CacheIsCurrent
    BY DEF StackInv, CacheOK, CacheIsCurrent, Live
  <1> QED
    BY <1>1, StackInvariant, PTL

(* A packet with a damaged byte is not answered and teaches the cache       *)
(* nothing: the handlers go on only with packets as they were sent.         *)
THEOREM DamagedStaysIgnored == StackSpec => []DamagedIsIgnored
  <1>1. StackInv => DamagedIsIgnored
    BY DEF StackInv, DamagedIsIgnored
  <1> QED
    BY <1>1, StackInvariant, PTL

(* Every frame that is sent, an advertisement, an echo reply or an echoed   *)
(* datagram, carries a checksum its receiver accepts, for any addresses and *)
(* whatever the buffer held before; but for a datagram whose checksum came  *)
(* out as 0, of which that is only true of the sum.                         *)
THEOREM SentStaysAccepted == StackSpec => []SentIsAccepted
  <1>1. StackInv => SentIsAccepted
    BY DEF StackInv, FramesOK, SentIsAccepted, PeerAccepts
  <1> QED
    BY <1>1, StackInvariant, PTL

(* Who solicits is answered, and no other station is in its place.          *)
THEOREM AskerGetsAnswer == StackSpec => []AskerIsAnswered
  <1>1. StackInv => AskerIsAnswered
    BY DEF StackInv
  <1> QED
    BY <1>1, StackInvariant, PTL

-----------------------------------------------------------------------------
(* The two conversions of addresses undo one another.                      *)

(* bytes ends with block, from the place behind at.                        *)
Ends(bytes, at, block) == \A i \in 1 .. Len(block) : bytes[at + i] = block[i]

Keeps(bytes, at, earlier) == \A i \in 1 .. at : bytes[i] = earlier[i]

LEMMA BlockAppended ==
    ASSUME NEW s, NEW m, Block(s, m), NEW t, NEW n, Block(t, n)
    PROVE  Block(s \o t, m + n) /\ Keeps(s \o t, m, s) /\ Ends(s \o t, m, t)
  <1>1. s \in Seq(Byte) /\ t \in Seq(Byte) /\ Len(s) = m /\ Len(t) = n
    BY DEF Block
  <1>2. /\ \A i \in 1 .. Len(s) : (s \o t)[i] = s[i]
        /\ \A i \in 1 .. Len(t) : (s \o t)[Len(s) + i] = t[i]
    <2>1. s \in Seq(Byte) /\ t \in Seq(Byte)
      BY <1>1
    <2> QED
      BY ONLY <2>1, Joined
  <1>3. Block(s \o t, m + n)
    BY BlocksJoin
  <1> QED
    BY <1>1, <1>2, <1>3 DEF Keeps, Ends

(* A part of a block is its bytes in turn.                                 *)
Part(bytes, first, part, length) ==
    Block(part, length) /\ \A i \in 1 .. length : part[i] = bytes[first + i - 1]

LEMMA BlockPart ==
    ASSUME NEW s, NEW first, NEW last, NEW length, Holds(s, first, last, length)
    PROVE  Part(s, first, SubSeq(s, first, last), length)
  <1>1. /\ s \in Seq(Byte) /\ Len(s) \in Nat /\ first \in Nat /\ last \in Nat
        /\ 1 <= first /\ first <= last + 1 /\ last <= Len(s) /\ length = last - first + 1
    BY LenProperties DEF Holds
  <1>2. \A i \in first .. last : s[i] \in Byte
    BY <1>1, ElementOfSeq
  <1>3. \A i \in 1 .. last - first + 1 : SubSeq(s, first, last)[i] = s[first + i - 1]
    BY <1>1, <1>2, SubSeqProperties
  <1>4. Block(SubSeq(s, first, last), length)
    BY BlockCut
  <1> QED
    BY <1>1, <1>3, <1>4 DEF Part

LEMMA FlippedTwice ==
    ASSUME NEW byte \in Byte
    PROVE  FlipUniversal(FlipUniversal(byte)) = byte
  BY DEF FlipUniversal, Byte

LEMMA SixBytesEqual ==
    ASSUME NEW s, Block(s, 6), NEW t, Block(t, 6),
           s[1] = t[1], s[2] = t[2], s[3] = t[3], s[4] = t[4], s[5] = t[5], s[6] = t[6]
    PROVE  s = t
  <1>1. s \in Seq(Byte) /\ t \in Seq(Byte) /\ Len(s) = Len(t) /\ Len(s) = 6
    BY DEF Block
  <1>2. \A i \in 1 .. Len(s) : s[i] = t[i]
    BY <1>1
  <1> QED
    BY <1>1, <1>2, SeqEqual

(* The link-local address of a station, byte by byte.                      *)
LEMMA LinkLocalBytes ==
    ASSUME NEW mac, Block(mac, 6), mac[1] % 2 = 0
    PROVE  LET address == macToIpv6(mac) IN
           /\ Block(address, 16)
           /\ address[1] = 254 /\ address[2] = 128 /\ \A i \in 3 .. 8 : address[i] = 0
           /\ address[9] = FlipUniversal(mac[1])
           /\ address[10] = mac[2] /\ address[11] = mac[3]
           /\ address[12] = 255 /\ address[13] = 254
           /\ address[14] = mac[4] /\ address[15] = mac[5] /\ address[16] = mac[6]
  <1>1. mac \in Seq(Byte) /\ Len(mac) = 6 /\ mac[1] \in Byte
    <2>1. mac \in Seq(Byte) /\ Len(mac) = 6
      BY DEF Block
    <2> QED
      BY <2>1, ElementOfSeq
  <1>2. mac[1] # 51
    OBVIOUS
  <1> DEFINE a == <<254, 128>>
             b == Zeros(6)
             c == <<FlipUniversal(mac[1])>>
             d == SubSeq(mac, 2, 3)
             e == <<255, 254>>
             f == SubSeq(mac, 4, 6)
             ab == a \o b
             abc == ab \o c
             abcd == abc \o d
             abcde == abcd \o e
             all == abcde \o f
  <1>3. macToIpv6(mac) = all
    BY <1>2 DEF macToIpv6, IsMulticastMac
  <1>4. Block(a, 2) /\ a[1] = 254 /\ a[2] = 128
    BY DEF Block, Byte
  <1>5. Block(b, 6) /\ Len(b) = 6 /\ \A i \in 1 .. 6 : b[i] = 0
    BY DEF Block, Byte, Zeros
  <1>6. Block(c, 1) /\ c[1] = FlipUniversal(mac[1])
    <2>1. FlipUniversal(mac[1]) \in Byte
      BY <1>1, FlippedIsByte
    <2> QED
      BY <2>1 DEF Block
  <1>7. Part(mac, 2, d, 2)
    <2>1. Holds(mac, 2, 3, 2)
      BY <1>1 DEF Holds
    <2> QED
      BY <2>1, BlockPart, Zenon
  <1>8. Block(e, 2) /\ e[1] = 255 /\ e[2] = 254
    BY DEF Block, Byte
  <1>9. Part(mac, 4, f, 3)
    <2>1. Holds(mac, 4, 6, 3)
      BY <1>1 DEF Holds
    <2> QED
      BY <2>1, BlockPart, Zenon
  <1> HIDE DEF a, b, c, d, e, f
  <1>10. Block(d, 2) /\ d[1] = mac[2] /\ d[2] = mac[3]
    BY <1>7 DEF Part
  <1>11. Block(f, 3) /\ f[1] = mac[4] /\ f[2] = mac[5] /\ f[3] = mac[6]
    BY <1>9 DEF Part
  <1>12. Block(ab, 2 + 6) /\ Keeps(ab, 2, a) /\ Ends(ab, 2, b)
    <2>1. Block(a, 2) /\ Block(b, 6)
      BY <1>4, <1>5
    <2> QED
      BY <2>1, BlockAppended, Zenon
  <1> HIDE DEF ab
  <1>13. Block(abc, 2 + 6 + 1) /\ Keeps(abc, 2 + 6, ab) /\ Ends(abc, 2 + 6, c)
    <2>1. Block(c, 1)
      BY <1>6
    <2> QED
      BY <1>12, <2>1, BlockAppended, Zenon
  <1> HIDE DEF abc
  <1>14. Block(abcd, 2 + 6 + 1 + 2) /\ Keeps(abcd, 2 + 6 + 1, abc) /\ Ends(abcd, 2 + 6 + 1, d)
    BY <1>10, <1>13, BlockAppended, Zenon
  <1> HIDE DEF abcd
  <1>15. /\ Block(abcde, 2 + 6 + 1 + 2 + 2) /\ Keeps(abcde, 2 + 6 + 1 + 2, abcd)
         /\ Ends(abcde, 2 + 6 + 1 + 2, e)
    <2>1. Block(e, 2)
      BY <1>8
    <2> QED
      BY <1>14, <2>1, BlockAppended, Zenon
  <1> HIDE DEF abcde
  <1>16. /\ Block(all, 2 + 6 + 1 + 2 + 2 + 3) /\ Keeps(all, 2 + 6 + 1 + 2 + 2, abcde)
         /\ Ends(all, 2 + 6 + 1 + 2 + 2, f)
    BY <1>11, <1>15, BlockAppended, Zenon
  <1> HIDE DEF all
  <1>17. Len(a) = 2 /\ Len(b) = 6 /\ Len(c) = 1 /\ Len(d) = 2 /\ Len(e) = 2 /\ Len(f) = 3
    BY <1>4, <1>5, <1>6, <1>8, <1>10, <1>11 DEF Block
  <1>18. \A i \in 1 .. 13 : all[i] = abcde[i]
    BY <1>16 DEF Keeps
  <1>19. \A i \in 1 .. 11 : all[i] = abcd[i]
    BY <1>15, <1>18 DEF Keeps
  <1>20. \A i \in 1 .. 9 : all[i] = abc[i]
    BY <1>14, <1>19 DEF Keeps
  <1>21. \A i \in 1 .. 8 : all[i] = ab[i]
    BY <1>13, <1>20 DEF Keeps
  <1>22. all[1] = 254 /\ all[2] = 128
    BY <1>4, <1>12, <1>21 DEF Keeps
  <1>23. \A i \in 3 .. 8 : all[i] = 0
    <2> SUFFICES ASSUME NEW i \in 3 .. 8
                 PROVE  all[i] = 0
      OBVIOUS
    <2>1. i - 2 \in 1 .. 6 /\ 2 + (i - 2) = i /\ i \in 1 .. 8
      OBVIOUS
    <2>2. ab[2 + (i - 2)] = b[i - 2]
      BY <1>12, <1>17, <2>1 DEF Ends
    <2> QED
      BY <1>5, <1>21, <2>1, <2>2
  <1>24. all[9] = FlipUniversal(mac[1])
    <2>1. abc[2 + 6 + 1] = c[1] /\ 2 + 6 + 1 = 9
      BY <1>13, <1>17 DEF Ends
    <2> QED
      BY <1>6, <1>20, <2>1
  <1>25. all[10] = mac[2] /\ all[11] = mac[3]
    <2>1. abcd[2 + 6 + 1 + 1] = d[1] /\ abcd[2 + 6 + 1 + 2] = d[2]
      BY <1>14, <1>17 DEF Ends
    <2> QED
      BY <1>10, <1>19, <2>1
  <1>26. all[12] = 255 /\ all[13] = 254
    <2>1. abcde[2 + 6 + 1 + 2 + 1] = e[1] /\ abcde[2 + 6 + 1 + 2 + 2] = e[2]
      BY <1>15, <1>17 DEF Ends
    <2> QED
      BY <1>8, <1>18, <2>1
  <1>27. all[14] = mac[4] /\ all[15] = mac[5] /\ all[16] = mac[6]
    <2>1. /\ all[2 + 6 + 1 + 2 + 2 + 1] = f[1] /\ all[2 + 6 + 1 + 2 + 2 + 2] = f[2]
          /\ all[2 + 6 + 1 + 2 + 2 + 3] = f[3]
      BY <1>16, <1>17 DEF Ends
    <2> QED
      BY <1>11, <2>1
  <1>28. Block(all, 16)
    BY <1>16
  <1> QED
    BY <1>3, <1>22, <1>23, <1>24, <1>25, <1>26, <1>27, <1>28

(* And the address of a group, of which the last bytes matter.             *)
LEMMA GroupBytes ==
    ASSUME NEW mac, Block(mac, 6), IsMulticastMac(mac)
    PROVE  LET address == macToIpv6(mac) IN
           /\ Block(address, 16) /\ address[1] = 255 /\ address[2] = 0
           /\ address[13] = mac[3] /\ address[14] = mac[4]
           /\ address[15] = mac[5] /\ address[16] = mac[6]
  <1>1. mac \in Seq(Byte) /\ Len(mac) = 6
    BY DEF Block
  <1> DEFINE a == <<255>>
             b == Zeros(11)
             c == SubSeq(mac, 3, 6)
             ab == a \o b
             all == ab \o c
  <1>2. macToIpv6(mac) = all
    BY DEF macToIpv6
  <1>3. Block(a, 1) /\ a[1] = 255
    BY DEF Block, Byte
  <1>4. Block(b, 11) /\ Len(b) = 11 /\ \A i \in 1 .. 11 : b[i] = 0
    BY DEF Block, Byte, Zeros
  <1>5. Part(mac, 3, c, 4)
    <2>1. Holds(mac, 3, 6, 4)
      BY <1>1 DEF Holds
    <2> QED
      BY <2>1, BlockPart, Zenon
  <1> HIDE DEF a, b, c
  <1>6. Block(c, 4) /\ c[1] = mac[3] /\ c[2] = mac[4] /\ c[3] = mac[5] /\ c[4] = mac[6]
    BY <1>5 DEF Part
  <1>7. Block(ab, 1 + 11) /\ Keeps(ab, 1, a) /\ Ends(ab, 1, b)
    <2>1. Block(a, 1) /\ Block(b, 11)
      BY <1>3, <1>4
    <2> QED
      BY <2>1, BlockAppended, Zenon
  <1> HIDE DEF ab
  <1>8. Block(all, 1 + 11 + 4) /\ Keeps(all, 1 + 11, ab) /\ Ends(all, 1 + 11, c)
    <2>1. Block(c, 4)
      BY <1>6
    <2> QED
      BY <1>7, <2>1, BlockAppended, Zenon
  <1> HIDE DEF all
  <1>9. Len(b) = 11 /\ Len(c) = 4
    BY <1>4, <1>6 DEF Block
  <1>10. \A i \in 1 .. 12 : all[i] = ab[i]
    BY <1>8 DEF Keeps
  <1>11. all[1] = 255 /\ all[2] = 0
    <2>1. ab[1] = a[1]
      BY <1>7 DEF Keeps
    <2>2. ab[1 + 1] = b[1]
      BY <1>7, <1>9 DEF Ends
    <2> QED
      BY <1>3, <1>4, <1>10, <2>1, <2>2
  <1>12. all[13] = mac[3] /\ all[14] = mac[4] /\ all[15] = mac[5] /\ all[16] = mac[6]
    <2>1. /\ all[1 + 11 + 1] = c[1] /\ all[1 + 11 + 2] = c[2]
          /\ all[1 + 11 + 3] = c[3] /\ all[1 + 11 + 4] = c[4]
      BY <1>8, <1>9 DEF Ends
    <2> QED
      BY <1>6, <2>1
  <1>13. Block(all, 16)
    BY <1>8
  <1> QED
    BY <1>2, <1>11, <1>12, <1>13

(* transmitIpPacket() needs no cache entry for an address that was made    *)
(* from a MAC: the conversion back gives that MAC, of a station or of a    *)
(* group, for every MAC that has an address.                               *)
THEOREM AddressLeadsBack ==
    ASSUME NEW mac \in MacAddress, macToIpv6(mac) # NoAddress
    PROVE  /\ macToIpv6(mac) \in Ipv6Address
           /\ ipv6ToMac(macToIpv6(mac)) = mac
  <1> DEFINE address == macToIpv6(mac)
  <1>1. Block(mac, 6)
    BY MacIsSix DEF Block
  <1>2. ASSUME Block(address, 16)
        PROVE  address \in Ipv6Address
    <2>1. address \in Seq(Byte) /\ Len(address) = 16
      BY <1>2 DEF Block
    <2> HIDE DEF address
    <2>2. DOMAIN address = 1 .. 16 /\ \A i \in 1 .. 16 : address[i] \in Byte
      BY <2>1, LenProperties, ElementOfSeq
    <2>3. address = [i \in 1 .. 16 |-> address[i]]
      BY <2>1, <2>2
    <2> QED
      BY <2>2, <2>3 DEF Ipv6Address
  <1>3. CASE IsMulticastMac(mac)
    <2>1. /\ Block(address, 16) /\ address[1] = 255 /\ address[2] = 0
          /\ address[13] = mac[3] /\ address[14] = mac[4]
          /\ address[15] = mac[5] /\ address[16] = mac[6]
      BY <1>1, <1>3, GroupBytes
    <2>2. mac[1] = 51 /\ mac[2] = 51
      BY <1>3 DEF IsMulticastMac
    <2> HIDE DEF address
    <2> DEFINE a == <<51, 51>>
               b == SubSeq(address, 13, 16)
               back == a \o b
    <2>3. ipv6ToMac(address) = back
      BY <2>1 DEF ipv6ToMac, IsMulticast
    <2>4. Block(a, 2) /\ a[1] = 51 /\ a[2] = 51
      BY DEF Block, Byte
    <2>5. Part(address, 13, b, 4)
      <3>1. Holds(address, 13, 16, 4)
        BY <2>1 DEF Holds, Block
      <3> QED
        BY <3>1, BlockPart, Zenon
    <2> HIDE DEF a, b
    <2>6. /\ Block(b, 4) /\ b[1] = address[13] /\ b[2] = address[14]
          /\ b[3] = address[15] /\ b[4] = address[16]
      BY <2>5 DEF Part
    <2>7. Block(back, 2 + 4) /\ Keeps(back, 2, a) /\ Ends(back, 2, b)
      <3>1. Block(a, 2) /\ Block(b, 4)
        BY <2>4, <2>6
      <3> QED
        BY <3>1, BlockAppended, Zenon
    <2> HIDE DEF back
    <2>8. Len(b) = 4
      BY <2>6 DEF Block
    <2>9. back[1] = a[1] /\ back[2] = a[2]
      BY <2>7 DEF Keeps
    <2>10. /\ back[2 + 1] = b[1] /\ back[2 + 2] = b[2]
           /\ back[2 + 3] = b[3] /\ back[2 + 4] = b[4]
      BY <2>7, <2>8 DEF Ends
    <2>11. Block(back, 6)
      BY <2>7
    <2>12. back = mac
      BY <1>1, <2>1, <2>2, <2>4, <2>6, <2>9, <2>10, <2>11, SixBytesEqual
    <2> QED
      BY <1>2, <2>1, <2>3, <2>12 DEF address
  <1>4. CASE ~IsMulticastMac(mac)
    <2>1. mac[1] % 2 = 0
      BY <1>4 DEF macToIpv6
    <2>2. /\ Block(address, 16)
          /\ address[1] = 254 /\ address[2] = 128 /\ \A i \in 3 .. 8 : address[i] = 0
          /\ address[9] = FlipUniversal(mac[1])
          /\ address[10] = mac[2] /\ address[11] = mac[3]
          /\ address[12] = 255 /\ address[13] = 254
          /\ address[14] = mac[4] /\ address[15] = mac[5] /\ address[16] = mac[6]
      BY <1>1, <2>1, LinkLocalBytes
    <2>3. mac[1] \in Byte
      BY DEF MacAddress
    <2> HIDE DEF address
    <2> DEFINE a == <<FlipUniversal(address[9])>>
               b == SubSeq(address, 10, 11)
               c == SubSeq(address, 14, 16)
               ab == a \o b
               back == ab \o c
    <2>4. ipv6ToMac(address) = back
      BY <2>2 DEF ipv6ToMac, IsMulticast, IsDerived
    <2>5. FlipUniversal(address[9]) = mac[1]
      BY <2>2, <2>3, FlippedTwice
    <2>6. Block(a, 1) /\ a[1] = mac[1]
      BY <2>3, <2>5 DEF Block
    <2>7. Part(address, 10, b, 2)
      <3>1. Holds(address, 10, 11, 2)
        BY <2>2 DEF Holds, Block
      <3> QED
        BY <3>1, BlockPart, Zenon
    <2>8. Part(address, 14, c, 3)
      <3>1. Holds(address, 14, 16, 3)
        BY <2>2 DEF Holds, Block
      <3> QED
        BY <3>1, BlockPart, Zenon
    <2> HIDE DEF a, b, c
    <2>9. Block(b, 2) /\ b[1] = address[10] /\ b[2] = address[11]
      BY <2>7 DEF Part
    <2>10. Block(c, 3) /\ c[1] = address[14] /\ c[2] = address[15] /\ c[3] = address[16]
      BY <2>8 DEF Part
    <2>11. Block(ab, 1 + 2) /\ Keeps(ab, 1, a) /\ Ends(ab, 1, b)
      <3>1. Block(a, 1) /\ Block(b, 2)
        BY <2>6, <2>9
      <3> QED
        BY <3>1, BlockAppended, Zenon
    <2> HIDE DEF ab
    <2>12. Block(back, 1 + 2 + 3) /\ Keeps(back, 1 + 2, ab) /\ Ends(back, 1 + 2, c)
      <3>1. Block(c, 3)
        BY <2>10
      <3> QED
        BY <2>11, <3>1, BlockAppended, Zenon
    <2> HIDE DEF back
    <2>13. Len(b) = 2 /\ Len(c) = 3
      BY <2>9, <2>10 DEF Block
    <2>14. back[1] = ab[1] /\ back[2] = ab[2] /\ back[3] = ab[3]
      BY <2>12 DEF Keeps
    <2>15. ab[1] = a[1] /\ ab[1 + 1] = b[1] /\ ab[1 + 2] = b[2]
      BY <2>11, <2>13 DEF Keeps, Ends
    <2>16. back[1 + 2 + 1] = c[1] /\ back[1 + 2 + 2] = c[2] /\ back[1 + 2 + 3] = c[3]
      BY <2>12, <2>13 DEF Ends
    <2>17. Block(back, 6)
      BY <2>12
    <2>18. /\ back[1] = mac[1] /\ back[2] = mac[2] /\ back[3] = mac[3]
           /\ back[4] = mac[4] /\ back[5] = mac[5] /\ back[6] = mac[6]
      BY <2>2, <2>6, <2>9, <2>10, <2>14, <2>15, <2>16
    <2>19. back = mac
      BY <1>1, <2>17, <2>18, SixBytesEqual
    <2> QED
      BY <1>2, <2>2, <2>4, <2>19 DEF address
  <1> QED
    BY <1>3, <1>4
=============================================================================
