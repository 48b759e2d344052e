------------------------------ MODULE SurveyProofs ------------------------------
(***************************************************************************)
(* For any places, devices, descriptors and searches: the scan of raw      *)
(* bytes misses nothing that the walk of the items finds, and identify.py  *)
(* explains a quiet pad's reply as the reply to its own command.  For      *)
(* devices whose descriptors are usual: the search prefers the config      *)
(* channel, and finds the candidate that the inventory lists.              *)
(***************************************************************************)
EXTENDS Survey, Iteration, FiniteSetTheorems, TLAPS

-----------------------------------------------------------------------------
(* Descriptors. *)

LEMMA SizeRange ==
    ASSUME NEW data \in Seq(Byte), NEW k \in Nat, k < Len(data)
    PROVE  /\ Prefix(data, k) \in Byte
           /\ SizeAt(data, k) \in {0, 1, 2, 4}
           /\ SizeAt(data, k) = 1 => Prefix(data, k) % 4 = 1
           /\ SizeAt(data, k) = 2 => Prefix(data, k) % 4 = 2
<1>1. data[k + 1] \in Byte
  <2>1. k + 1 \in 1 .. Len(data)
    OBVIOUS
  <2>. QED BY <2>1
<1>. DEFINE b == Prefix(data, k)
<1>2. b \in Byte
  BY <1>1 DEF Prefix
<1>. HIDE DEF b
<1>3. b % 4 \in {0, 1, 2, 3}
  BY <1>2 DEF Byte
<1>4. /\ b % 4 = 0 => SizeAt(data, k) = 0
      /\ b % 4 = 1 => SizeAt(data, k) = 1
      /\ b % 4 = 2 => SizeAt(data, k) = 2
      /\ b % 4 = 3 => SizeAt(data, k) = 4
  BY DEF SizeAt, b
<1>. QED BY <1>2, <1>3, <1>4 DEF b

\* A usage page of two bytes is 06, a report id of one is 85.
LEMMA UsualPrefixes ==
    ASSUME NEW b \in Byte
    PROVE  /\ b % 4 = 2 /\ (b \div 4) % 4 = 1 /\ b \div 16 = 0 => b = 6
           /\ b % 4 = 1 /\ (b \div 4) % 4 = 1 /\ b \div 16 = 8 => b = 133
BY DEF Byte

\* The bytes of a whole short item are bytes, and its value a number.
LEMMA BytesAreNumbers == Byte \subseteq Nat
BY DEF Byte

LEMMA VendorWord ==
    ASSUME NEW a \in Byte, NEW b \in Byte, NEW v, v = a + 256 * b, v >= 65280
    PROVE  b = 255 /\ v = 65280 + a
<1>1. a <= 255 /\ b <= 255 /\ a \in Int /\ b \in Int
  BY DEF Byte
<1>2. b >= 255
  BY <1>1
<1>. QED BY <1>1, <1>2

LEMMA ValueType ==
    ASSUME NEW data \in Seq(Byte), NEW k \in Nat, k < Len(data), Whole(data, k), ~Long(data, k)
    PROVE  /\ ValueAt(data, k) \in Nat
           /\ NextAt(data, k) \in Nat
           /\ SizeAt(data, k) = 1 => ValueAt(data, k) = data[k + 2] /\ k + 2 <= Len(data)
           /\ SizeAt(data, k) = 2 => /\ ValueAt(data, k) = data[k + 2] + 256 * data[k + 3]
                                     /\ k + 3 <= Len(data)
<1>1. SizeAt(data, k) \in {0, 1, 2, 4} /\ k + 1 + SizeAt(data, k) <= Len(data)
  BY SizeRange DEF Whole
<1>2. \A n \in 1 .. Len(data) : data[n] \in Nat
  <2>1. \A n \in 1 .. Len(data) : data[n] \in Byte
    OBVIOUS
  <2>. QED BY <2>1, BytesAreNumbers, Zenon
<1>3. NextAt(data, k) \in Nat
  BY <1>1 DEF NextAt
<1>4. CASE SizeAt(data, k) = 0
  BY <1>3, <1>4 DEF ValueAt
<1>5. CASE SizeAt(data, k) = 1
  <2>1. k + 2 \in 1 .. Len(data)
    BY <1>1, <1>5
  <2>2. data[k + 2] \in Nat
    BY <1>2, <2>1
  <2>. QED BY <1>3, <1>5, <2>1, <2>2 DEF ValueAt
<1>6. CASE SizeAt(data, k) = 2
  <2>1. k + 2 \in 1 .. Len(data) /\ k + 3 \in 1 .. Len(data)
    BY <1>1, <1>6
  <2>2. data[k + 2] \in Nat /\ data[k + 3] \in Nat
    BY <1>2, <2>1
  <2>. QED BY <1>3, <1>6, <2>1, <2>2 DEF ValueAt
<1>7. CASE SizeAt(data, k) = 4
  <2>1. k + 2 \in 1 .. Len(data) /\ k + 3 \in 1 .. Len(data) /\ k + 4 \in 1 .. Len(data)
        /\ k + 5 \in 1 .. Len(data)
    BY <1>1, <1>7
  <2>2. data[k + 2] \in Nat /\ data[k + 3] \in Nat /\ data[k + 4] \in Nat /\ data[k + 5] \in Nat
    BY <1>2, <2>1
  <2>. DEFINE a == data[k + 2]  b == data[k + 3]  c == data[k + 4]  d == data[k + 5]
  <2>3. ValueAt(data, k) = a + 256 * b + 65536 * c + 16777216 * d
    BY <1>7 DEF ValueAt
  <2>4. a \in Nat /\ b \in Nat /\ c \in Nat /\ d \in Nat
    BY <2>2
  <2>. HIDE DEF a, b, c, d
  <2>5. ValueAt(data, k) \in Nat
    BY <2>3, <2>4
  <2>. QED BY <1>3, <1>7, <2>5
<1>. QED BY <1>1, <1>4, <1>5, <1>6, <1>7

\* What the walk finds in an item of the usual size, the scan finds.
LEMMA ScanFinds ==
    ASSUME NEW data \in Seq(Byte), NEW k \in Nat, k < Len(data), Whole(data, k), ~Long(data, k)
    PROVE  /\ (IsUsagePage(data, k) /\ SizeAt(data, k) = 2 /\ VendorPage(ValueAt(data, k)))
                  => ValueAt(data, k) \in ScannedPages(data)
           /\ (IsReportId(data, k) /\ SizeAt(data, k) = 1) => ValueAt(data, k) \in ScannedIds(data)
<1>1. ASSUME IsUsagePage(data, k), SizeAt(data, k) = 2, VendorPage(ValueAt(data, k))
      PROVE  ValueAt(data, k) \in ScannedPages(data)
  <2>1. data[k + 1] = 6
    <3>1. Prefix(data, k) \in Byte /\ Prefix(data, k) % 4 = 2
      BY <1>1, SizeRange
    <3>2. (Prefix(data, k) \div 4) % 4 = 1 /\ Prefix(data, k) \div 16 = 0
      BY <1>1 DEF IsUsagePage, Is, TypeAt, TagAt
    <3>3. Prefix(data, k) = 6
      BY <3>1, <3>2, UsualPrefixes
    <3>. QED BY <3>3 DEF Prefix
  <2>2. ValueAt(data, k) = data[k + 2] + 256 * data[k + 3] /\ k + 3 <= Len(data)
    BY <1>1, ValueType
  <2>3. data[k + 2] \in Byte /\ data[k + 3] \in Byte
    <3>1. k + 2 \in 1 .. Len(data) /\ k + 3 \in 1 .. Len(data)
      BY <2>2
    <3>. QED BY <3>1
  <2>4. data[k + 3] = 255 /\ ValueAt(data, k) = 65280 + data[k + 2]
    <3>1. ValueAt(data, k) >= 65280
      BY <1>1 DEF VendorPage
    <3>. DEFINE a == data[k + 2]  b == data[k + 3]  v == ValueAt(data, k)
    <3>2. a \in Byte /\ b \in Byte /\ v = a + 256 * b /\ v >= 65280
      BY <2>2, <2>3, <3>1
    <3>. HIDE DEF a, b, v
    <3>3. b = 255 /\ v = 65280 + a
      BY <3>2, VendorWord
    <3>. QED BY <3>3 DEF a, b, v
  <2>5. k + 1 \in 1 .. Len(data) - 2 /\ (k + 1) + 1 = k + 2 /\ (k + 1) + 2 = k + 3
    BY <2>2
  <2>. QED BY <2>1, <2>4, <2>5 DEF ScannedPages
<1>2. ASSUME IsReportId(data, k), SizeAt(data, k) = 1
      PROVE  ValueAt(data, k) \in ScannedIds(data)
  <2>1. data[k + 1] = 133
    <3>1. Prefix(data, k) \in Byte /\ Prefix(data, k) % 4 = 1
      BY <1>2, SizeRange
    <3>2. (Prefix(data, k) \div 4) % 4 = 1 /\ Prefix(data, k) \div 16 = 8
      BY <1>2 DEF IsReportId, Is, TypeAt, TagAt
    <3>3. Prefix(data, k) = 133
      BY <3>1, <3>2, UsualPrefixes
    <3>. QED BY <3>3 DEF Prefix
  <2>2. ValueAt(data, k) = data[k + 2] /\ k + 2 <= Len(data)
    BY <1>2, ValueType
  <2>3. k + 1 \in 1 .. Len(data) - 1 /\ (k + 1) + 1 = k + 2
    BY <2>2
  <2>. QED BY <2>1, <2>2, <2>3 DEF ScannedIds
<1>. QED BY <1>1, <1>2

-----------------------------------------------------------------------------
(* The items of a descriptor, as the recursive function of its bytes that they are. *)

\* The items from a position on, by those from the next.
ItemsAt(data, from, n) ==
    IF n >= Len(data) \/ ~Whole(data, n) THEN {} ELSE {n} \cup from[NextAt(data, n)]

LEMMA NextIsLater ==
    ASSUME NEW data \in Seq(Byte), NEW n \in Nat, n < Len(data), Whole(data, n)
    PROVE  NextAt(data, n) \in Nat /\ n < NextAt(data, n)
<1>1. CASE Long(data, n)
  <2>1. n + 2 \in 1 .. Len(data)
    BY <1>1 DEF Whole
  <2>. DEFINE more == data[n + 2]
  <2>2. more \in Byte
    BY <2>1
  <2>3. NextAt(data, n) = n + 3 + more
    BY <1>1 DEF NextAt
  <2>. HIDE DEF more
  <2>. QED BY <2>2, <2>3 DEF Byte
<1>2. CASE ~Long(data, n)
  <2>3. SizeAt(data, n) \in {0, 1, 2, 4}
    BY SizeRange
  <2>4. NextAt(data, n) = n + 1 + SizeAt(data, n)
    BY <1>2 DEF NextAt
  <2>. QED BY <2>3, <2>4
<1>. QED BY <1>1, <1>2

\* The same, with the lengths of items as the definition of Items has them.
DefinedAt(data, from, n) ==
    IF n >= Len(data) \/ n + Needed(data[n + 1]) > Len(data) THEN {}
    ELSE {n} \cup from[n + Needed(data[n + 1]) + Skipped(data, n)]

LEMMA LengthsAgree ==
    ASSUME NEW data \in Seq(Byte), NEW n \in Nat, n < Len(data)
    PROVE  /\ Whole(data, n) <=> n + Needed(data[n + 1]) <= Len(data)
           /\ Whole(data, n) => NextAt(data, n) = n + Needed(data[n + 1]) + Skipped(data, n)
<1>. DEFINE b == data[n + 1]
<1>1. Prefix(data, n) = b /\ b \in Byte
  BY SizeRange DEF Prefix
<1>2. CASE Long(data, n)
  <2>1. Needed(b) = 3 /\ Skipped(data, n) = data[n + 2]
    BY <1>1, <1>2 DEF Long, Needed, Skipped
  <2>. QED BY <1>2, <2>1 DEF Whole, NextAt
<1>3. CASE ~Long(data, n)
  <2>. HIDE DEF b
  <2>1. b # 254
    BY <1>1, <1>3 DEF Long
  <2>2. Needed(b) = 1 + SizeAt(data, n)
    <3>1. b % 4 \in {0, 1, 2, 3}
      BY <1>1 DEF Byte
    <3>2. /\ b % 4 = 0 => SizeAt(data, n) = 0
          /\ b % 4 = 1 => SizeAt(data, n) = 1
          /\ b % 4 = 2 => SizeAt(data, n) = 2
          /\ b % 4 = 3 => SizeAt(data, n) = 4
      BY <1>1 DEF SizeAt
    <3>. QED BY <2>1, <3>1, <3>2 DEF Needed
  <2>3. Skipped(data, n) = 0
    BY <2>1 DEF Skipped, b
  <2>4. SizeAt(data, n) \in {0, 1, 2, 4}
    BY SizeRange
  <2>5. n + Needed(b) = n + 1 + SizeAt(data, n)
    BY <2>2, <2>4
  <2>6. n + Needed(b) + Skipped(data, n) = n + 1 + SizeAt(data, n)
    BY <2>3, <2>4, <2>5
  <2>. QED BY <1>3, <2>5, <2>6 DEF Whole, NextAt, b
<1>. QED BY <1>2, <1>3

LEMMA DefinedAlike ==
    ASSUME NEW data \in Seq(Byte), NEW from, NEW n \in Nat
    PROVE  DefinedAt(data, from, n) = ItemsAt(data, from, n)
<1>1. CASE n >= Len(data)
  BY <1>1 DEF DefinedAt, ItemsAt
<1>2. CASE n < Len(data) /\ ~Whole(data, n)
  <2>1. ~(n + Needed(data[n + 1]) <= Len(data))
    BY <1>2, LengthsAgree
  <2>2. n + Needed(data[n + 1]) > Len(data)
    <3>1. data[n + 1] \in Byte
      BY <1>2, SizeRange DEF Prefix
    <3>. DEFINE b == data[n + 1]
    <3>2. b \in Byte
      BY <3>1
    <3>. HIDE DEF b
    <3>3. Needed(b) \in Int
      BY <3>2 DEF Needed, Byte
    <3>. QED BY <2>1, <3>3 DEF b
  <2>. QED BY <1>2, <2>2, Zenon DEF DefinedAt, ItemsAt
<1>3. CASE n < Len(data) /\ Whole(data, n)
  <2>1. /\ n + Needed(data[n + 1]) <= Len(data)
        /\ NextAt(data, n) = n + Needed(data[n + 1]) + Skipped(data, n)
    BY <1>3, LengthsAgree
  <2>2. ~(n >= Len(data)) /\ ~(n + Needed(data[n + 1]) > Len(data))
    <3>. DEFINE b == data[n + 1]
    <3>1. b \in Byte
      BY <1>3, SizeRange DEF Prefix
    <3>. HIDE DEF b
    <3>2. Needed(b) \in Int
      BY <3>1 DEF Needed, Byte
    <3>. QED BY <1>3, <2>1, <3>2 DEF b
  <2>. QED BY <1>3, <2>1, <2>2, Zenon DEF DefinedAt, ItemsAt
<1>4. Len(data) \in Nat
  OBVIOUS
<1>5. n >= Len(data) \/ n < Len(data)
  BY <1>4
<1>. QED BY <1>1, <1>2, <1>3, <1>5

LEMMA ItemsAreDefined ==
    ASSUME NEW data \in Seq(Byte)
    PROVE  ItemsFrom(data) = [n \in Nat |-> ItemsAt(data, ItemsFrom(data), n)]
<1>. DEFINE L == Len(data)
            \* Those from l positions before the end on are right.
            Right(f, l) == /\ f \in [Nat -> SUBSET Nat]
                           /\ \A n \in Nat : n + l >= L => f[n] = ItemsAt(data, f, n)
            T == {l \in 0 .. L : \E f : Right(f, l)}
<1>1. L \in Nat
  OBVIOUS
<1>2. 0 \in T
  <2>. DEFINE f == [n \in Nat |-> {}]
  <2>1. f \in [Nat -> SUBSET Nat]
    OBVIOUS
  <2>2. ASSUME NEW n \in Nat, n + 0 >= L PROVE f[n] = ItemsAt(data, f, n)
    <3>1. n >= Len(data)
      BY <2>2
    <3>. QED BY <3>1 DEF ItemsAt
  <2>. HIDE DEF f
  <2>3. Right(f, 0)
    BY <2>1, <2>2
  <2>. HIDE DEF Right
  <2>. QED BY <1>1, <2>3
<1>3. ASSUME NEW l \in 1 .. L, l - 1 \in T PROVE l \in T
  <2>1. PICK f : Right(f, l - 1)
    BY <1>3
  <2>. DEFINE k == L - l
              h == [n \in Nat |-> IF n = k THEN ItemsAt(data, f, k) ELSE f[n]]
  <2>2. k \in Nat /\ k < L
    BY <1>1
  <2>3. f \in [Nat -> SUBSET Nat] /\ \A n \in Nat : n > k => f[n] = ItemsAt(data, f, n)
    <3>1. \A n \in Nat : n > k => n + (l - 1) >= L
      BY <1>1
    <3>. QED BY <2>1, <3>1
  <2>. HIDE DEF k
  <2>4. ASSUME NEW n \in Nat, n >= k PROVE ItemsAt(data, h, n) = ItemsAt(data, f, n)
    <3>1. CASE n >= Len(data) \/ ~Whole(data, n)
      BY <3>1 DEF ItemsAt
    <3>2. CASE n < Len(data) /\ Whole(data, n)
      <4>. DEFINE m == NextAt(data, n)
      <4>1. m \in Nat /\ n < m
        BY <3>2, NextIsLater
      <4>. HIDE DEF m
      <4>2. h[m] = f[m]
        BY <2>2, <2>4, <4>1
      <4>. HIDE DEF h
      <4>. QED BY <4>2, Zenon DEF ItemsAt, m
    <3>3. (n >= Len(data) \/ ~Whole(data, n)) \/ (n < Len(data) /\ Whole(data, n))
      BY <1>1
    <3>. QED BY <3>1, <3>2, <3>3
  <2>5. ItemsAt(data, f, k) \in SUBSET Nat
    <3>1. CASE k >= Len(data) \/ ~Whole(data, k)
      BY <3>1 DEF ItemsAt
    <3>2. CASE ~(k >= Len(data) \/ ~Whole(data, k))
      <4>. DEFINE m == NextAt(data, k)
      <4>1. m \in Nat
        BY <2>2, <3>2, NextIsLater
      <4>2. ItemsAt(data, f, k) = {k} \cup f[m]
        BY <3>2, Zenon DEF ItemsAt
      <4>. HIDE DEF m
      <4>3. f[m] \in SUBSET Nat
        BY <2>3, <4>1
      <4>. QED BY <2>2, <4>2, <4>3
    <3>. QED BY <3>1, <3>2
  <2>6. h \in [Nat -> SUBSET Nat]
    BY <2>3, <2>5
  <2>7. ASSUME NEW n \in Nat, n + l >= L PROVE h[n] = ItemsAt(data, h, n)
    <3>1. n >= k
      BY <1>1, <2>7 DEF k
    <3>2. ItemsAt(data, h, n) = ItemsAt(data, f, n)
      BY <2>4, <3>1
    <3>3. CASE n = k
      BY <3>2, <3>3, Zenon
    <3>4. CASE n # k
      <4>1. n > k
        BY <2>2, <3>1, <3>4
      <4>. QED BY <2>3, <3>2, <3>4, <4>1
    <3>. QED BY <3>3, <3>4
  <2>. HIDE DEF h
  <2>8. Right(h, l)
    BY <2>6, <2>7
  <2>. HIDE DEF Right
  <2>. QED BY <2>8
<1>. HIDE DEF T
<1>4. L \in T
  BY <1>1, <1>2, <1>3, UpTo, SMTT(30)
<1>5. PICK f : Right(f, L)
  BY <1>4 DEF T
<1>6. f = [n \in Nat |-> ItemsAt(data, f, n)]
  <2>1. \A n \in Nat : n + L >= L
    BY <1>1
  <2>2. f \in [Nat -> SUBSET Nat] /\ \A n \in Nat : f[n] = ItemsAt(data, f, n)
    BY <1>5, <2>1
  <2>. QED BY <2>2
<1>. DEFINE Defines(e) == e = [n \in Nat |-> DefinedAt(data, e, n)]
<1>7. ItemsFrom(data) = CHOOSE e : Defines(e)
  BY Zenon DEF ItemsFrom, DefinedAt
<1>8. \A e : [n \in Nat |-> DefinedAt(data, e, n)] = [n \in Nat |-> ItemsAt(data, e, n)]
  BY DefinedAlike, Zenon
<1>9. Defines(f)
  BY <1>6, <1>8, Zenon
<1>10. Defines(ItemsFrom(data))
  <2>. HIDE DEF Defines
  <2>. QED BY <1>7, <1>9, Zenon
<1>. QED BY <1>8, <1>10, Zenon

\* The items from a position on: none where the data ends or an item is cut
\* short, or else the one there and those from the next.
LEMMA ItemsFromHere ==
    ASSUME NEW data \in Seq(Byte), NEW n \in Nat
    PROVE  /\ (n >= Len(data) \/ ~Whole(data, n)) => ItemsFrom(data)[n] = {}
           /\ ~(n >= Len(data) \/ ~Whole(data, n)) =>
                 ItemsFrom(data)[n] = {n} \cup ItemsFrom(data)[NextAt(data, n)]
<1>. DEFINE from == ItemsFrom(data)
<1>1. from[n] = ItemsAt(data, from, n)
  <2>1. from = [k \in Nat |-> ItemsAt(data, from, k)]
    BY ItemsAreDefined, Zenon
  <2>. HIDE DEF from
  <2>. QED BY <2>1
<1>. QED BY <1>1, Zenon DEF ItemsAt

\* An item lies whole within the data.
LEMMA ItemsAreWhole ==
    ASSUME NEW data \in Seq(Byte), NEW n \in Nat, NEW k \in ItemsFrom(data)[n]
    PROVE  k \in Nat /\ k < Len(data) /\ Whole(data, k)
<1>. DEFINE L == Len(data)
            Fine(m) == \A j \in ItemsFrom(data)[m] : j \in Nat /\ j < L /\ Whole(data, j)
            T == {l \in 0 .. L : \A m \in Nat : m + l >= L => Fine(m)}
<1>1. L \in Nat
  OBVIOUS
<1>2. 0 \in T
  <2>1. ASSUME NEW m \in Nat, m + 0 >= L PROVE Fine(m)
    <3>1. m >= Len(data)
      BY <2>1
    <3>2. ItemsFrom(data)[m] = {}
      BY <3>1, ItemsFromHere, Zenon
    <3>. QED BY <3>2
  <2>. HIDE DEF Fine
  <2>. QED BY <1>1, <2>1
<1>3. ASSUME NEW l \in 1 .. L, l - 1 \in T PROVE l \in T
  <2>1. \A m \in Nat : m + (l - 1) >= L => Fine(m)
    BY <1>3
  <2>2. ASSUME NEW m \in Nat, m + l >= L PROVE Fine(m)
    <3>1. CASE m >= Len(data) \/ ~Whole(data, m)
      <4>1. ItemsFrom(data)[m] = {}
        BY <3>1, ItemsFromHere, Zenon
      <4>. QED BY <4>1
    <3>2. CASE ~(m >= Len(data) \/ ~Whole(data, m))
      <4>. DEFINE next == NextAt(data, m)
      <4>1. ItemsFrom(data)[m] = {m} \cup ItemsFrom(data)[next]
        BY <3>2, ItemsFromHere, Zenon
      <4>2. m < L
        BY <1>1, <3>2
      <4>3. next \in Nat /\ m < next
        BY <3>2, <4>2, NextIsLater
      <4>. HIDE DEF Fine, next
      <4>4. Fine(next)
        BY <1>1, <2>1, <2>2, <4>3
      <4>5. \A j \in ItemsFrom(data)[next] : j \in Nat /\ j < L /\ Whole(data, j)
        BY <4>4 DEF Fine
      <4>. HIDE DEF L
      <4>. QED BY <3>2, <4>1, <4>2, <4>5, Zenon DEF Fine
    <3>. QED BY <3>1, <3>2
  <2>. HIDE DEF Fine
  <2>. QED BY <2>2
<1>. HIDE DEF T
<1>4. L \in T
  BY <1>1, <1>2, <1>3, UpTo
<1>5. n + L >= L
  BY <1>1
<1>6. Fine(n)
  <2>. HIDE DEF Fine, L
  <2>. QED BY <1>4, <1>5 DEF T
<1>. QED BY <1>6

\* So what the items of a usual descriptor declare, the scan finds.
LEMMA ScanFindsTheItems ==
    ASSUME NEW data \in Seq(Byte), UsualItems(data)
    PROVE  /\ DeclaresVendorPage(data) => ScannedPages(data) # {}
           /\ DeclaresChannel(data) => CONFIG_REPORT_IDS \subseteq ScannedIds(data)
<1>1. ASSUME NEW k \in Items(data)
      PROVE  /\ (IsUsagePage(data, k) /\ VendorPage(ValueAt(data, k))) => ValueAt(data, k) \in ScannedPages(data)
             /\ (IsReportId(data, k) /\ ValueAt(data, k) \in CONFIG_REPORT_IDS)
                   => ValueAt(data, k) \in ScannedIds(data)
  <2>1. k \in Nat /\ k < Len(data) /\ Whole(data, k)
    BY ItemsAreWhole, Zenon DEF Items
  <2>2. IsUsagePage(data, k) \/ IsReportId(data, k) => ~Long(data, k)
    BY DEF IsUsagePage, IsReportId, Is
  <2>. QED BY <2>1, <2>2, ScanFinds, Zenon DEF UsualItems
<1>2. DeclaresVendorPage(data) => ScannedPages(data) # {}
  BY <1>1, Zenon DEF DeclaresVendorPage
<1>3. DeclaresChannel(data) => CONFIG_REPORT_IDS \subseteq ScannedIds(data)
  BY <1>1, Zenon DEF DeclaresChannel
<1>. QED BY <1>2, <1>3

-----------------------------------------------------------------------------
(* inventory.py. *)

TreeTypeOK == tree \in [Places -> Devices \cup {None}] /\ moves \in 0 .. MaxMoves

LEMMA Elements ==
    ASSUME NEW S, NEW f \in Seq(S)
    PROVE  DOMAIN f \subseteq Nat /\ \A n \in DOMAIN f : f[n] \in S
OBVIOUS

LEMMA Appended == ASSUME NEW S, NEW f \in Seq(S), NEW e \in S PROVE Append(f, e) \in Seq(S)
OBVIOUS

LEMMA AppendedElements ==
    ASSUME NEW S, NEW f \in Seq(S), NEW e
    PROVE  \A n \in DOMAIN Append(f, e) :
              Append(f, e)[n] = e \/ (n \in DOMAIN f /\ Append(f, e)[n] = f[n])
<1>1. DOMAIN f = 1 .. Len(f) /\ Len(f) \in Nat
  OBVIOUS
<1>2. /\ DOMAIN Append(f, e) = 1 .. Len(f) + 1
      /\ Append(f, e)[Len(f) + 1] = e
      /\ \A n \in 1 .. Len(f) : Append(f, e)[n] = f[n]
  OBVIOUS
<1>3. \A n \in 1 .. Len(f) + 1 : n = Len(f) + 1 \/ n \in 1 .. Len(f)
  BY <1>1
<1>. QED BY <1>1, <1>2, <1>3, Zenon

LEMMA EmptySequence ==
    ASSUME NEW S
    PROVE  <<>> \in Seq(S)
OBVIOUS

LEMMA HeadAndTail ==
    ASSUME NEW S, NEW f \in Seq(S), f # <<>>
    PROVE  Head(f) \in S /\ Tail(f) \in Seq(S)
OBVIOUS

LEMMA DeviceType ==
    ASSUME TreeTypeOK, NEW p \in Places, tree[p] # None
    PROVE  /\ tree[p].pid \in Pids
           /\ tree[p].ifaces \in Seq([data : Seq(Byte), node : BOOLEAN])
           /\ DOMAIN tree[p].ifaces \subseteq Nat
           /\ \A n \in DOMAIN tree[p].ifaces :
                 Interface(p, n).data \in Seq(Byte) /\ Interface(p, n).node \in BOOLEAN
<1>1. tree[p] \in Devices
  BY DEF TreeTypeOK
<1>2. tree[p].pid \in Pids /\ tree[p].ifaces \in Seq([data : Seq(Byte), node : BOOLEAN])
  <2>1. tree[p].pid \in Pids
    BY <1>1, Zenon DEF Pids
  <2>2. tree[p].ifaces \in Seq([data : Seq(Byte), node : BOOLEAN])
    BY <1>1, DevicesAssumption
  <2>. QED BY <2>1, <2>2
<1>3. DOMAIN tree[p].ifaces \subseteq Nat
  BY <1>2
<1>4. \A n \in DOMAIN tree[p].ifaces : tree[p].ifaces[n] \in [data : Seq(Byte), node : BOOLEAN]
  BY <1>2, Elements, Zenon
<1>5. \A n \in DOMAIN tree[p].ifaces :
         Interface(p, n).data \in Seq(Byte) /\ Interface(p, n).node \in BOOLEAN
  BY <1>4 DEF Interface
<1>. QED BY <1>2, <1>3, <1>5

\* Inside a device there is a place.
Placed == ipc \in {"found", "device", "parse"} => dev.place \in Places

InventoryInv == InventoryTypeOK /\ Placed /\ ScanMissesNothing

LEMMA VisitDeviceInv ==
    ASSUME TreeTypeOK, InventoryInv, VisitDevice
    PROVE  InventoryInv'
<1>1. PICK p \in Lowest(ahead) :
         /\ ahead' = ahead \ {p}
         /\ IF tree[p] = None THEN UNCHANGED <<ipc, dev, left>>
            ELSE ipc' = "found" /\ dev' = Dev(p, tree[p].pid, FALSE) /\ UNCHANGED left
  BY DEF VisitDevice
<1>2. p \in Places /\ ahead' \subseteq Places
  BY <1>1 DEF Lowest, InventoryInv, InventoryTypeOK
<1>3. UNCHANGED <<parseVars, listed>>
  BY DEF VisitDevice
<1>4. CASE tree[p] = None
  <2>1. UNCHANGED <<ipc, dev, left>>
    BY <1>1, <1>4
  <2>2. InventoryTypeOK'
    BY <1>2, <1>3, <2>1 DEF InventoryInv, InventoryTypeOK, parseVars
  <2>3. Placed' /\ ScanMissesNothing'
    BY <1>3, <2>1 DEF InventoryInv, Placed, ScanMissesNothing, parseVars
  <2>. QED BY <2>2, <2>3 DEF InventoryInv
<1>5. CASE tree[p] # None
  <2>1. ipc' = "found" /\ dev' = Dev(p, tree[p].pid, FALSE) /\ left' = left
    BY <1>1, <1>5
  <2>2. left' \subseteq Nat /\ tree[p].pid \in Pids
    BY <1>2, <1>5, <2>1, DeviceType DEF InventoryInv, InventoryTypeOK
  <2>3. dev' \in [place : Places \cup {0}, pid : Pids, candidate : BOOLEAN] /\ dev'.place = p
    BY <1>2, <2>1, <2>2 DEF Dev
  <2>4. InventoryTypeOK'
    BY <1>2, <1>3, <2>1, <2>2, <2>3 DEF InventoryInv, InventoryTypeOK, parseVars
  <2>5. Placed' /\ ScanMissesNothing'
    BY <1>2, <1>3, <2>3 DEF InventoryInv, Placed, ScanMissesNothing, parseVars
  <2>. QED BY <2>4, <2>5 DEF InventoryInv
<1>. QED BY <1>4, <1>5

LEMMA ListInterfacesInv ==
    ASSUME TreeTypeOK, InventoryInv, ListInterfaces \/ DeviceGone
    PROVE  InventoryInv'
<1>1. /\ ipc = "found" /\ ipc' \in {"device", "raised"} /\ dev.place \in Places
      /\ UNCHANGED <<ahead, dev, parseVars, listed>>
  BY DEF ListInterfaces, DeviceGone, InventoryInv, Placed
<1>2. left' \subseteq Nat
  <2>1. CASE ListInterfaces
    BY <1>1, <2>1, DeviceType DEF ListInterfaces
  <2>2. CASE DeviceGone
    BY <2>2 DEF DeviceGone, InventoryInv, InventoryTypeOK
  <2>. QED BY <2>1, <2>2
<1>. QED BY <1>1, <1>2 DEF InventoryInv, InventoryTypeOK, Placed, ScanMissesNothing, parseVars

LEMMA DescribeInterfaceInv ==
    ASSUME TreeTypeOK, InventoryInv, DescribeInterface
    PROVE  InventoryInv'
<1>1. PICK n \in Lowest(left) :
         /\ left' = left \ {n}
         /\ IF Readable(dev.place, n)
            THEN ipc' = "parse" /\ ParserAt0(Interface(dev.place, n).data)
            ELSE UNCHANGED <<ipc, parseVars>>
  BY DEF DescribeInterface
<1>2. /\ UNCHANGED <<ahead, dev, listed>> /\ left' \subseteq Nat
      /\ ipc = "device" /\ dev.place \in Places
  BY <1>1 DEF DescribeInterface, InventoryInv, InventoryTypeOK, Placed
<1>3. Placed'
  BY <1>2 DEF Placed
<1>4. CASE Readable(dev.place, n)
  <2>1. ipc' = "parse" /\ ParserAt0(Interface(dev.place, n).data)
    BY <1>1, <1>4
  <2>2. Interface(dev.place, n).data \in Seq(Byte)
    BY <1>2, <1>4, DeviceType DEF Readable, HasInterface
  <2>3. InventoryTypeOK'
    BY <1>2, <2>1, <2>2 DEF InventoryInv, InventoryTypeOK, ParserAt0
  <2>4. ScanMissesNothing'
    BY <2>1 DEF ParserAt0, ScanMissesNothing
  <2>. QED BY <1>3, <2>3, <2>4 DEF InventoryInv
<1>5. CASE ~Readable(dev.place, n)
  <2>1. UNCHANGED <<ipc, parseVars>>
    BY <1>1, <1>5
  <2>2. InventoryTypeOK' /\ ScanMissesNothing'
    BY <1>2, <2>1 DEF InventoryInv, InventoryTypeOK, ScanMissesNothing, parseVars
  <2>. QED BY <1>3, <2>2 DEF InventoryInv
<1>. QED BY <1>4, <1>5

LEMMA SkipLongItemInv ==
    ASSUME InventoryInv, SkipLongItem
    PROVE  InventoryInv'
<1>1. /\ blob \in Seq(Byte) /\ i \in Nat /\ i + 3 <= Len(blob) /\ i' = i + 3 + blob[i + 2]
      /\ UNCHANGED <<ipc, ahead, dev, left, listed, blob, usage_pages, report_ids, current_page,
                     current_usage, collections, short>>
  BY DEF SkipLongItem, Parsing, Whole, NextAt, InventoryInv, InventoryTypeOK
<1>2. blob[i + 2] \in Nat
  <2>1. i + 2 \in 1 .. Len(blob)
    BY <1>1
  <2>2. DOMAIN blob = 1 .. Len(blob)
    BY <1>1
  <2>. QED BY <1>1, <2>1, <2>2, Elements, BytesAreNumbers, Zenon
<1>3. i' \in Nat
  BY <1>1, <1>2
<1>. QED BY <1>1, <1>3 DEF InventoryInv, InventoryTypeOK, Placed, ScanMissesNothing

LEMMA ParseItemInv ==
    ASSUME InventoryInv, ParseItem
    PROVE  InventoryInv'
<1>. DEFINE value == ValueAt(blob, i)
<1>1. /\ blob \in Seq(Byte) /\ i \in Nat /\ i < Len(blob) /\ Whole(blob, i) /\ ~Long(blob, i)
      /\ i' = NextAt(blob, i) /\ UNCHANGED <<ipc, ahead, dev, left, blob, listed>>
  BY DEF ParseItem, Parsing, InventoryInv, InventoryTypeOK
<1>2. value \in Nat /\ i' \in Nat
  BY <1>1, ValueType
<1>3. /\ (IsUsagePage(blob, i) /\ SizeAt(blob, i) = 2 /\ VendorPage(value))
             => value \in ScannedPages(blob)
      /\ (IsReportId(blob, i) /\ SizeAt(blob, i) = 1) => value \in ScannedIds(blob)
  BY <1>1, ScanFinds
<1>4. /\ current_page' \in {value, current_page} /\ current_usage' \in {value, current_usage}
      /\ usage_pages' \subseteq usage_pages \cup {value}
      /\ report_ids' \subseteq report_ids \cup {value}
      /\ \/ collections' = collections
         \/ collections' = Append(collections, [usage_page |-> current_page, usage |-> current_usage])
      /\ short' = short
             \cup (IF IsUsagePage(blob, i) /\ SizeAt(blob, i) = 2 THEN {<<"page", value>>} ELSE {})
             \cup (IF IsReportId(blob, i) /\ SizeAt(blob, i) = 1 THEN {<<"id", value>>} ELSE {})
  BY DEF ParseItem
<1>. HIDE DEF value
<1>5. InventoryTypeOK'
  <2>1. collections' \in Seq([usage_page : Nat, usage : Nat])
    <3>1. [usage_page |-> current_page, usage |-> current_usage] \in [usage_page : Nat, usage : Nat]
      BY DEF InventoryInv, InventoryTypeOK
    <3>2. collections \in Seq([usage_page : Nat, usage : Nat])
      BY DEF InventoryInv, InventoryTypeOK
    <3>3. Append(collections, [usage_page |-> current_page, usage |-> current_usage])
             \in Seq([usage_page : Nat, usage : Nat])
      BY <3>1, <3>2, Appended, ZenonT(60)
    <3>4. \/ collections' = collections
          \/ collections' = Append(collections, [usage_page |-> current_page, usage |-> current_usage])
      BY <1>4
    <3>. QED BY <3>2, <3>3, <3>4, Zenon
  <2>2. short' \subseteq {"page", "id"} \X Nat
    BY <1>2, <1>4 DEF InventoryInv, InventoryTypeOK
  <2>3. /\ current_page' \in Nat /\ current_usage' \in Nat
        /\ usage_pages' \subseteq Nat /\ report_ids' \subseteq Nat
    BY <1>2, <1>4 DEF InventoryInv, InventoryTypeOK
  <2>. QED BY <1>1, <1>2, <2>1, <2>2, <2>3 DEF InventoryInv, InventoryTypeOK
<1>6. Placed'
  BY <1>1 DEF InventoryInv, Placed
<1>7. ScanMissesNothing'
  <2>. SUFFICES ASSUME NEW e \in short'
                PROVE  /\ e[1] = "page" /\ VendorPage(e[2]) => e[2] \in ScannedPages(blob)
                       /\ e[1] = "id" => e[2] \in ScannedIds(blob)
    BY <1>1 DEF ScanMissesNothing
  <2>1. CASE e \in short
    BY <2>1 DEF InventoryInv, ScanMissesNothing
  <2>2. CASE e = <<"page", value>> /\ IsUsagePage(blob, i) /\ SizeAt(blob, i) = 2
    BY <1>3, <2>2
  <2>3. CASE e = <<"id", value>> /\ IsReportId(blob, i) /\ SizeAt(blob, i) = 1
    BY <1>3, <2>3
  <2>. QED BY <1>4, <2>1, <2>2, <2>3
<1>. QED BY <1>5, <1>6, <1>7 DEF InventoryInv

LEMMA EndDescriptorInv ==
    ASSUME InventoryInv, EndDescriptor
    PROVE  InventoryInv'
<1>. DEFINE found == dev.candidate \/ \E p \in usage_pages : VendorPage(p)
<1>1. /\ ipc = "parse" /\ ipc' = "device" /\ UNCHANGED <<ahead, left, parseVars, listed>>
      /\ dev \in [place : Places \cup {0}, pid : Pids, candidate : BOOLEAN]
  BY DEF EndDescriptor, InventoryInv, InventoryTypeOK
<1>2. dev' = [dev EXCEPT !.candidate = found]
  BY Zenon DEF EndDescriptor
<1>3. found \in BOOLEAN
  OBVIOUS
<1>. HIDE DEF found
<1>4. dev' \in [place : Places \cup {0}, pid : Pids, candidate : BOOLEAN] /\ dev'.place = dev.place
  BY <1>1, <1>2, <1>3
<1>5. InventoryTypeOK'
  BY <1>1, <1>4 DEF InventoryInv, InventoryTypeOK, parseVars
<1>6. Placed' /\ ScanMissesNothing'
  BY <1>1, <1>4 DEF InventoryInv, Placed, ScanMissesNothing, parseVars
<1>. QED BY <1>5, <1>6 DEF InventoryInv

\* What is left: a step that ends or begins a walk, or lists a device.
LEMMA WalkInv ==
    ASSUME InventoryInv, StartInventory \/ ListDevice \/ EndInventory
    PROVE  InventoryInv'
<1>1. UNCHANGED <<dev, left, parseVars>> /\ ipc' \in {"walk", "done"}
  BY DEF StartInventory, ListDevice, EndInventory
<1>2. ahead' \subseteq Places /\ listed' \subseteq [place : Places \cup {0}, pid : Pids, candidate : BOOLEAN]
  BY DEF StartInventory, ListDevice, EndInventory, InventoryInv, InventoryTypeOK
<1>. QED BY <1>1, <1>2 DEF InventoryInv, InventoryTypeOK, Placed, ScanMissesNothing, parseVars

LEMMA InventoryNextInv ==
    ASSUME TreeTypeOK, InventoryInv, InventoryNext
    PROVE  InventoryInv'
BY VisitDeviceInv, ListInterfacesInv, DescribeInterfaceInv, SkipLongItemInv, ParseItemInv, EndDescriptorInv, WalkInv
   DEF InventoryNext

-----------------------------------------------------------------------------
(* identify.py: the search. *)

SearchPlaced ==
    /\ spc = "interfaces" => at \in Places
    /\ up \/ spc \in {"open", "write", "wait"} => matches # {}

\* Until the node is open nothing is exchanged.
Fresh ==
    spc \in {"off", "search", "interfaces", "open"} =>
        ~up /\ command = 0 /\ owed = <<>> /\ queue = <<>> /\ explained = <<>>

\* While the pad is quiet, one command is out at most, and its answer is the
\* only report there can be.
ReplyInv ==
    (up /\ ~tree[Found.place].streams) =>
        /\ \A n \in DOMAIN explained : explained[n].from = explained[n].asked
        /\ spc = "write" => owed = <<>> /\ queue = <<>>
        /\ spc = "wait" =>
              \/ owed = <<COMMANDS[command + 1]>> /\ queue = <<>>
              \/ owed = <<>> /\ queue \in {<<>>, <<COMMANDS[command + 1]>>}

IdentifyInv == IdentifyTypeOK /\ SearchPlaced /\ Fresh /\ ReplyInv

LEMMA ScanType ==
    ASSUME NEW data \in Seq(Byte)
    PROVE  ScannedIds(data) \in SUBSET Byte /\ ScannedPages(data) \subseteq Nat
<1>1. \A n \in 1 .. Len(data) : data[n] \in Byte
  OBVIOUS
<1>2. \A k \in 1 .. Len(data) - 1 : k + 1 \in 1 .. Len(data)
  OBVIOUS
<1>3. \A k \in 1 .. Len(data) - 2 : k + 1 \in 1 .. Len(data)
  OBVIOUS
<1>4. \A b \in Byte : 65280 + b \in Nat
  BY DEF Byte
<1>5. ScannedIds(data) \in SUBSET Byte
  BY <1>1, <1>2 DEF ScannedIds
<1>6. ScannedPages(data) \subseteq Nat
  <2>. SUFFICES ASSUME NEW page \in ScannedPages(data) PROVE page \in Nat
    OBVIOUS
  <2>1. PICK k \in 1 .. Len(data) - 2 : page = 65280 + data[k + 1]
    BY SMT DEF ScannedPages
  <2>. DEFINE b == data[k + 1]
  <2>2. b \in Byte
    BY <1>1, <1>3
  <2>. HIDE DEF b
  <2>3. 65280 + b \in Nat
    BY <2>2, <1>4
  <2>. QED BY <2>1, <2>3, SMT DEF b
<1>. QED BY <1>5, <1>6

\* A step of the search exchanges nothing.
LEMMA SearchExchangesNothing ==
    ASSUME IdentifyInv, spc \in {"off", "search", "interfaces"}, UNCHANGED exchangeVars,
           spc' \in {"search", "interfaces", "open", "exit"}
    PROVE  Fresh' /\ ReplyInv' /\ ~up'
BY Zenon DEF IdentifyInv, Fresh, ReplyInv, exchangeVars

ExchangeTypeOK ==
    /\ up \in BOOLEAN
    /\ command \in 0 .. Len(COMMANDS) /\ (spc \in {"write", "wait"} => command < Len(COMMANDS))
    /\ owed \in Seq({"get_pid", "init"})
    /\ queue \in Seq({"get_pid", "init", "input"})
    /\ explained \in Seq([asked : {"get_pid", "init"}, from : {"get_pid", "init", "input"}])
SearchTypeOK ==
    /\ spc \in {"off", "search", "interfaces", "open", "write", "wait", "exit"}
    /\ search \in Searches /\ pid \in PAD_PIDS
    /\ present \subseteq Usb /\ todo \subseteq Places /\ at \in Places \cup {0} /\ rest \subseteq Nat
    /\ candidates \subseteq [rank : {0, 1}, page : Nat, iface : Nat, ids : SUBSET Byte]
    /\ matches \subseteq [place : Places, iface : Nat, ids : SUBSET Byte]
    /\ since \in 0 .. moves

LEMMA TypeParts == IdentifyTypeOK <=> SearchTypeOK /\ ExchangeTypeOK
BY Zenon DEF IdentifyTypeOK, SearchTypeOK, ExchangeTypeOK

LEMMA SearchKeepsExchangeType ==
    ASSUME IdentifyInv, UNCHANGED exchangeVars, spc' \in {"search", "interfaces", "open", "exit"}
    PROVE  ExchangeTypeOK'
<1>1. ExchangeTypeOK
  BY TypeParts DEF IdentifyInv
<1>. QED BY <1>1, Zenon DEF ExchangeTypeOK, exchangeVars

LEMMA SearchIsTyped == ASSUME IdentifyInv PROVE SearchTypeOK /\ SearchPlaced
BY TypeParts DEF IdentifyInv

LEMMA StartSearchInv ==
    ASSUME TreeTypeOK, IdentifyInv, UNCHANGED sysfsVars, NEW s \in Searches, StartSearch(s)
    PROVE  IdentifyInv'
<1>1. /\ spc = "off" /\ UNCHANGED exchangeVars /\ UNCHANGED <<at, rest, candidates, matches>>
      /\ search' = s /\ since' = moves /\ spc' \in {"search", "exit"} /\ present' \subseteq Usb
      /\ pid' = pid \/ pid' \in PidsToChoose(s)
      /\ todo' = todo \/ todo' = Places
  BY DEF StartSearch
<1>2. PidsToChoose(s) \subseteq PAD_PIDS
  <2>1. s \in [tool : {"identify", "read_config"}, pid : PAD_PIDS \cup {"auto"},
                path : Places \cup {None}]
    BY SearchesAssumption, Zenon
  <2>2. s.pid \in PAD_PIDS \cup {"auto"}
    BY <2>1
  <2>3. CASE s.pid = "auto"
    <3>1. PidsToChoose(s) = {tree[p].pid : p \in {p \in Places :
              tree[p] # None /\ tree[p].pid \in PAD_PIDS /\ Wanted(s.path, p)}}
      BY <2>3, Zenon DEF PidsToChoose
    <3>. QED BY <3>1, Zenon
  <2>4. CASE s.pid # "auto"
    <3>1. PidsToChoose(s) = {s.pid}
      BY <2>4, Zenon DEF PidsToChoose
    <3>. QED BY <2>2, <2>4, <3>1, Zenon
  <2>. QED BY <2>3, <2>4
<1>3. SearchTypeOK /\ SearchPlaced
  BY SearchIsTyped
<1>4. pid' \in PAD_PIDS /\ todo' \subseteq Places
  BY <1>1, <1>2, <1>3 DEF SearchTypeOK
<1>5. since' \in 0 .. moves'
  BY <1>1, PlacesAssumption DEF TreeTypeOK, sysfsVars
<1>6. SearchTypeOK'
  BY <1>1, <1>3, <1>4, <1>5 DEF SearchTypeOK
<1>7. Fresh' /\ ReplyInv' /\ ~up' /\ ExchangeTypeOK'
  BY <1>1, SearchExchangesNothing, SearchKeepsExchangeType
<1>8. SearchPlaced'
  BY <1>1, <1>7 DEF SearchPlaced
<1>. QED BY <1>6, <1>7, <1>8, TypeParts, PTL DEF IdentifyInv

LEMMA SearchDeviceInv ==
    ASSUME TreeTypeOK, IdentifyInv, UNCHANGED sysfsVars, SearchDevice
    PROVE  IdentifyInv'
<1>1. PICK p \in Lowest(todo) :
         /\ todo' = todo \ {p}
         /\ \/ UNCHANGED <<spc, at, rest, candidates>>
            \/ /\ tree[p] # None /\ spc' = "interfaces" /\ at' = p
               /\ rest' = DOMAIN tree[p].ifaces /\ candidates' = {}
  BY DEF SearchDevice, Listed
<1>2. /\ spc = "search" /\ UNCHANGED <<search, pid, present, matches, since, exchangeVars>>
      /\ UNCHANGED moves
  BY DEF SearchDevice, sysfsVars
<1>3. SearchTypeOK /\ SearchPlaced
  BY SearchIsTyped
<1>4. p \in Places /\ todo' \subseteq Places
  BY <1>1, <1>3 DEF SearchTypeOK, Lowest
<1>5. spc' \in {"search", "interfaces"} /\ (spc' = "interfaces" => at' \in Places)
  BY <1>1, <1>2, <1>4
<1>6. at' \in Places \cup {0} /\ rest' \subseteq Nat
  BY <1>1, <1>3, <1>4, DeviceType DEF SearchTypeOK
<1>7. candidates' \subseteq [rank : {0, 1}, page : Nat, iface : Nat, ids : SUBSET Byte]
  BY <1>1, <1>3 DEF SearchTypeOK
<1>8. SearchTypeOK'
  BY <1>2, <1>3, <1>4, <1>5, <1>6, <1>7 DEF SearchTypeOK
<1>9. Fresh' /\ ReplyInv' /\ ~up' /\ ExchangeTypeOK'
  BY <1>2, <1>5, SearchExchangesNothing, SearchKeepsExchangeType
<1>10. SearchPlaced'
  BY <1>5, <1>9 DEF SearchPlaced
<1>. QED BY <1>8, <1>9, <1>10, TypeParts, PTL DEF IdentifyInv

LEMMA CandidatesType ==
    ASSUME NEW data \in Seq(Byte), NEW n \in Nat
    PROVE  Candidates(data, n) \subseteq [rank : {0, 1}, page : Nat, iface : Nat, ids : SUBSET Byte]
<1>1. ScannedIds(data) \in SUBSET Byte /\ Lowest(ScannedPages(data)) \subseteq Nat
  BY ScanType DEF Lowest
<1>. DEFINE pages == Lowest(ScannedPages(data))  found == ScannedIds(data)
            rank == IF CONFIG_REPORT_IDS \subseteq ScannedIds(data) THEN 0 ELSE 1
<1>2. rank \in {0, 1} /\ found \in SUBSET Byte /\ pages \subseteq Nat
  BY <1>1
<1>3. Candidates(data, n) = {[rank |-> rank, page |-> page, iface |-> n, ids |-> found] : page \in pages}
  BY DEF Candidates
<1>. HIDE DEF pages, found, rank
<1>. QED BY <1>2, <1>3

LEMMA SearchInterfaceInv ==
    ASSUME TreeTypeOK, IdentifyInv, UNCHANGED sysfsVars, SearchInterface
    PROVE  IdentifyInv'
<1>1. /\ spc = "interfaces" /\ UNCHANGED <<search, pid, present, todo, at, matches, since, exchangeVars>>
      /\ UNCHANGED moves
  BY DEF SearchInterface, sysfsVars
<1>. DEFINE data(n) == IF HasInterface(at, n) THEN Interface(at, n).data ELSE <<>>
<1>2. PICK n \in Lowest(rest) :
         /\ rest' = rest \ {n}
         /\ spc' \in {spc, "exit"}
         /\ candidates' \in {candidates, candidates \cup Candidates(data(n), n)}
  BY DEF SearchInterface
<1>3. SearchTypeOK /\ SearchPlaced
  BY SearchIsTyped
<1>4. n \in Nat /\ rest' \subseteq Nat
  BY <1>2, <1>3 DEF SearchTypeOK, Lowest
<1>5. data(n) \in Seq(Byte)
  <2>1. at \in Places
    BY <1>1, <1>3 DEF SearchPlaced
  <2>2. <<>> \in Seq(Byte)
    OBVIOUS
  <2>3. HasInterface(at, n) => Interface(at, n).data \in Seq(Byte)
    BY <2>1, DeviceType DEF HasInterface
  <2>. QED BY <2>2, <2>3
<1>. HIDE DEF data
<1>6. candidates' \subseteq [rank : {0, 1}, page : Nat, iface : Nat, ids : SUBSET Byte]
  <2>1. Candidates(data(n), n) \subseteq [rank : {0, 1}, page : Nat, iface : Nat, ids : SUBSET Byte]
    BY <1>4, <1>5, CandidatesType
  <2>. QED BY <1>2, <1>3, <2>1 DEF SearchTypeOK
<1>7. SearchTypeOK'
  BY <1>1, <1>2, <1>3, <1>4, <1>6 DEF SearchTypeOK
<1>8. Fresh' /\ ReplyInv' /\ ~up' /\ ExchangeTypeOK'
  BY <1>1, <1>2, SearchExchangesNothing, SearchKeepsExchangeType
<1>9. SearchPlaced'
  BY <1>1, <1>2, <1>3, <1>8 DEF SearchPlaced
<1>. QED BY <1>7, <1>8, <1>9, TypeParts, PTL DEF IdentifyInv

LEMMA EndDeviceInv ==
    ASSUME IdentifyInv, UNCHANGED sysfsVars, EndDevice
    PROVE  IdentifyInv'
<1>. DEFINE first == {c \in candidates : \A d \in candidates : SortsBefore(c, d)}
<1>1. /\ spc = "interfaces" /\ spc' = "search" /\ UNCHANGED moves
      /\ UNCHANGED <<search, pid, present, todo, at, rest, candidates, since, exchangeVars>>
      /\ matches' = matches \cup {[place |-> at, iface |-> c.iface, ids |-> c.ids] : c \in first}
  BY DEF EndDevice, sysfsVars
<1>2. SearchTypeOK /\ SearchPlaced
  BY SearchIsTyped
<1>3. at \in Places
  BY <1>1, <1>2 DEF SearchPlaced
<1>4. first \subseteq [rank : {0, 1}, page : Nat, iface : Nat, ids : SUBSET Byte]
  BY <1>2 DEF SearchTypeOK
<1>. HIDE DEF first
<1>5. matches' \subseteq [place : Places, iface : Nat, ids : SUBSET Byte]
  BY <1>1, <1>2, <1>3, <1>4 DEF SearchTypeOK
<1>6. SearchTypeOK'
  BY <1>1, <1>2, <1>5 DEF SearchTypeOK
<1>7. Fresh' /\ ReplyInv' /\ ~up' /\ ExchangeTypeOK'
  BY <1>1, SearchExchangesNothing, SearchKeepsExchangeType
<1>8. SearchPlaced'
  BY <1>1, <1>7 DEF SearchPlaced
<1>. QED BY <1>6, <1>7, <1>8, TypeParts, PTL DEF IdentifyInv

LEMMA EndSearchInv ==
    ASSUME IdentifyInv, UNCHANGED sysfsVars, EndSearch \/ SearchRaises
    PROVE  IdentifyInv'
<1>1. /\ spc \in {"search", "interfaces"} /\ spc' \in {"open", "exit"}
      /\ UNCHANGED <<searchVars, exchangeVars, moves>>
      /\ spc' = "open" => Cardinality(matches) = 1
  BY DEF EndSearch, SearchRaises, sysfsVars
<1>2. SearchTypeOK /\ SearchPlaced
  BY SearchIsTyped
<1>3. SearchTypeOK'
  BY <1>1, <1>2 DEF SearchTypeOK, searchVars
<1>4. Fresh' /\ ReplyInv' /\ ~up' /\ ExchangeTypeOK'
  BY <1>1, SearchExchangesNothing, SearchKeepsExchangeType
<1>5. spc' = "open" => matches # {}
  BY <1>1, FS_EmptySet
<1>6. SearchPlaced'
  BY <1>1, <1>4, <1>5 DEF SearchPlaced, searchVars
<1>. QED BY <1>3, <1>4, <1>6, TypeParts, PTL DEF IdentifyInv

-----------------------------------------------------------------------------
(* identify.py: the exchange. *)

LEMMA CommandType ==
    /\ Len(COMMANDS) = 2
    /\ \A c \in 0 .. 1 : COMMANDS[c + 1] \in {"get_pid", "init"}
BY DEF COMMANDS

\* A step of the exchange leaves the search as it is, and comes after it.
LEMMA ExchangeKeepsSearch ==
    ASSUME IdentifyInv, UNCHANGED <<sysfsVars, searchVars>>,
           spc' \in {spc, "write", "wait", "exit"}, spc # "interfaces", matches # {}
    PROVE  /\ SearchTypeOK' /\ SearchPlaced'
           /\ tree'[Found'.place].streams = tree[Found.place].streams
<1>1. SearchTypeOK /\ UNCHANGED <<search, pid, present, todo, at, rest, candidates, matches, since, moves, tree>>
  BY SearchIsTyped DEF searchVars, sysfsVars
<1>2. SearchTypeOK'
  BY <1>1 DEF SearchTypeOK
<1>3. spc' # "interfaces" /\ matches' # {}
  BY <1>1
<1>4. SearchPlaced'
  BY <1>3 DEF SearchPlaced
<1>5. tree'[Found'.place].streams = tree[Found.place].streams
  BY <1>1 DEF Found
<1>. QED BY <1>2, <1>4, <1>5

LEMMA ExchangeTyped == ASSUME IdentifyInv PROVE ExchangeTypeOK /\ SearchPlaced /\ Fresh /\ ReplyInv
BY TypeParts DEF IdentifyInv

LEMMA OpenInv ==
    ASSUME IdentifyInv, UNCHANGED sysfsVars, Open
    PROVE  IdentifyInv'
<1>1. /\ spc = "open" /\ spc' \in {"write", "exit"}
      /\ up' \in {up, TRUE}
      /\ UNCHANGED <<searchVars, command, owed, queue, explained>>
  BY DEF Open
<1>2. ExchangeTypeOK /\ matches # {} /\ command = 0 /\ owed = <<>> /\ queue = <<>> /\ explained = <<>>
  BY <1>1, ExchangeTyped DEF SearchPlaced, Fresh
<1>3. SearchTypeOK' /\ SearchPlaced'
  BY <1>1, <1>2, ExchangeKeepsSearch
<1>4. command' = 0 /\ owed' = <<>> /\ queue' = <<>> /\ explained' = <<>> /\ up' \in BOOLEAN
  BY <1>1, <1>2 DEF ExchangeTypeOK
<1>5. ExchangeTypeOK'
  BY <1>1, <1>4, CommandType DEF ExchangeTypeOK
<1>6. Fresh'
  BY <1>1 DEF Fresh
<1>7. ReplyInv'
  BY <1>1, <1>4 DEF ReplyInv
<1>. QED BY <1>3, <1>5, <1>6, <1>7, TypeParts, PTL DEF IdentifyInv

LEMMA WriteCommandInv ==
    ASSUME IdentifyInv, UNCHANGED sysfsVars, WriteCommand
    PROVE  IdentifyInv'
<1>1. /\ spc = "write" /\ up /\ spc' = "wait"
      /\ owed' = Append(owed, COMMANDS[command + 1])
      /\ UNCHANGED <<searchVars, up, command, queue, explained>>
  BY DEF WriteCommand
<1>2. ExchangeTypeOK /\ matches # {} /\ ReplyInv
  BY <1>1, ExchangeTyped DEF SearchPlaced
<1>3. /\ SearchTypeOK' /\ SearchPlaced'
      /\ tree'[Found'.place].streams = tree[Found.place].streams
  BY <1>1, <1>2, ExchangeKeepsSearch
<1>4. command \in 0 .. 1 /\ COMMANDS[command + 1] \in {"get_pid", "init"}
  BY <1>1, <1>2, CommandType DEF ExchangeTypeOK
<1>5. owed' \in Seq({"get_pid", "init"})
  BY <1>1, <1>2, <1>4, Appended DEF ExchangeTypeOK
<1>6. ExchangeTypeOK'
  BY <1>1, <1>2, <1>5 DEF ExchangeTypeOK
<1>7. Fresh'
  BY <1>1 DEF Fresh
<1>8. ReplyInv'
  <2>. SUFFICES ASSUME up', ~tree'[Found'.place].streams
                PROVE  /\ \A n \in DOMAIN explained' : explained'[n].from = explained'[n].asked
                       /\ owed' = <<COMMANDS[command' + 1]>> /\ queue' = <<>>
    BY <1>1, Zenon DEF ReplyInv
  <2>1. ~tree[Found.place].streams
    BY <1>3, Zenon
  <2>2. /\ \A n \in DOMAIN explained : explained[n].from = explained[n].asked
        /\ owed = <<>> /\ queue = <<>>
    BY <1>1, <1>2, <2>1, Zenon DEF ReplyInv
  <2>3. owed' = <<COMMANDS[command + 1]>>
    BY <1>1, <2>2
  <2>. QED BY <1>1, <2>2, <2>3, Zenon
<1>. QED BY <1>3, <1>6, <1>7, <1>8, TypeParts, PTL DEF IdentifyInv

LEMMA PadAnswersInv ==
    ASSUME IdentifyInv, UNCHANGED sysfsVars, PadAnswers
    PROVE  IdentifyInv'
<1>1. /\ owed # <<>> /\ up /\ owed' = Tail(owed)
      /\ queue' = Append(queue, Head(owed)) \/ queue' = queue
      /\ UNCHANGED <<spc, searchVars, up, command, explained>>
  BY DEF PadAnswers
<1>2. ExchangeTypeOK /\ matches # {} /\ ReplyInv
  BY <1>1, ExchangeTyped DEF SearchPlaced
<1>3. spc \notin {"off", "search", "interfaces", "open"}
  BY <1>1, ExchangeTyped DEF Fresh
<1>4. /\ SearchTypeOK' /\ SearchPlaced'
      /\ tree'[Found'.place].streams = tree[Found.place].streams
  BY <1>1, <1>2, <1>3, ExchangeKeepsSearch
<1>5. Head(owed) \in {"get_pid", "init"} /\ owed' \in Seq({"get_pid", "init"})
  BY <1>1, <1>2, HeadAndTail DEF ExchangeTypeOK
<1>6. queue' \in Seq({"get_pid", "init", "input"})
  BY <1>1, <1>2, <1>5, Appended DEF ExchangeTypeOK
<1>7. ExchangeTypeOK'
  BY <1>1, <1>2, <1>5, <1>6 DEF ExchangeTypeOK
<1>8. Fresh'
  BY <1>1, <1>3 DEF Fresh
<1>9. ReplyInv'
  <2>. SUFFICES ASSUME up', ~tree'[Found'.place].streams
                PROVE  /\ \A n \in DOMAIN explained : explained[n].from = explained[n].asked
                       /\ spc # "write"
                       /\ spc = "wait" => /\ owed' = <<>>
                                          /\ queue' \in {<<>>, <<COMMANDS[command + 1]>>}
    BY <1>1, Zenon DEF ReplyInv
  <2>1. ~tree[Found.place].streams
    BY <1>4, Zenon
  <2>2. /\ \A n \in DOMAIN explained : explained[n].from = explained[n].asked
        /\ spc # "write"
        /\ spc = "wait" => owed = <<COMMANDS[command + 1]>> /\ queue = <<>>
    BY <1>1, <1>2, <2>1, Zenon DEF ReplyInv
  <2>3. ASSUME spc = "wait"
        PROVE  owed' = <<>> /\ queue' \in {<<>>, <<COMMANDS[command + 1]>>}
    <3>1. Tail(<<COMMANDS[command + 1]>>) = <<>> /\ Head(<<COMMANDS[command + 1]>>) = COMMANDS[command + 1]
          /\ Append(<<>>, COMMANDS[command + 1]) = <<COMMANDS[command + 1]>>
      OBVIOUS
    <3>. QED BY <1>1, <2>2, <2>3, <3>1, Zenon
  <2>. QED BY <2>2, <2>3, Zenon
<1>. QED BY <1>4, <1>7, <1>8, <1>9, TypeParts, PTL DEF IdentifyInv

\* A pad that streams is not quiet: nothing is promised of its replies.
LEMMA PadStreamsInv ==
    ASSUME IdentifyInv, UNCHANGED sysfsVars, PadStreams
    PROVE  IdentifyInv'
<1>1. /\ spc \in {"write", "wait"} /\ up /\ tree[Found.place].streams
      /\ queue' = Append(queue, "input")
      /\ UNCHANGED <<spc, searchVars, up, command, owed, explained>>
  BY DEF PadStreams
<1>2. ExchangeTypeOK /\ matches # {}
  BY <1>1, ExchangeTyped DEF SearchPlaced
<1>3. /\ SearchTypeOK' /\ SearchPlaced'
      /\ tree'[Found'.place].streams = tree[Found.place].streams
  BY <1>1, <1>2, ExchangeKeepsSearch
<1>4. queue' \in Seq({"get_pid", "init", "input"})
  BY <1>1, <1>2, Appended DEF ExchangeTypeOK
<1>5. ExchangeTypeOK'
  BY <1>1, <1>2, <1>4 DEF ExchangeTypeOK
<1>6. Fresh'
  BY <1>1 DEF Fresh
<1>7. ReplyInv'
  BY <1>1, <1>3, Zenon DEF ReplyInv
<1>. QED BY <1>3, <1>5, <1>6, <1>7, TypeParts, PTL DEF IdentifyInv

\* The program ends, with or without an answer on its way.
LEMMA EndExchangeInv ==
    ASSUME IdentifyInv, UNCHANGED sysfsVars, ReplyTimesOut \/ Fail
    PROVE  IdentifyInv'
<1>1. spc \in {"write", "wait"} /\ spc' = "exit" /\ UNCHANGED <<searchVars, exchangeVars>>
  BY DEF ReplyTimesOut, Fail
<1>2. ExchangeTypeOK /\ matches # {} /\ ReplyInv
  BY <1>1, ExchangeTyped DEF SearchPlaced
<1>3. /\ SearchTypeOK' /\ SearchPlaced'
      /\ tree'[Found'.place].streams = tree[Found.place].streams
  BY <1>1, <1>2, ExchangeKeepsSearch
<1>4. ExchangeTypeOK'
  BY <1>1, <1>2 DEF ExchangeTypeOK, exchangeVars
<1>5. Fresh'
  BY <1>1 DEF Fresh
<1>6. ReplyInv'
  <2>1. UNCHANGED <<up, explained>> /\ spc' # "write" /\ spc' # "wait"
    BY <1>1 DEF exchangeVars
  <2>. QED BY <1>2, <1>3, <2>1, Zenon DEF ReplyInv
<1>. QED BY <1>3, <1>4, <1>5, <1>6, TypeParts, PTL DEF IdentifyInv

LEMMA ReadReplyInv ==
    ASSUME IdentifyInv, UNCHANGED sysfsVars, ReadReply
    PROVE  IdentifyInv'
<1>. DEFINE pair == [asked |-> COMMANDS[command + 1], from |-> Head(queue)]
<1>1. /\ spc = "wait" /\ up /\ queue # <<>>
      /\ explained' = Append(explained, pair)
      /\ queue' = Tail(queue) /\ command' = command + 1
      /\ spc' = IF command + 1 = Len(COMMANDS) THEN "exit" ELSE "write"
      /\ UNCHANGED <<searchVars, up, owed>>
  BY DEF ReadReply
<1>2. ExchangeTypeOK /\ matches # {} /\ ReplyInv
  BY <1>1, ExchangeTyped DEF SearchPlaced
<1>3. /\ SearchTypeOK' /\ SearchPlaced'
      /\ tree'[Found'.place].streams = tree[Found.place].streams
  BY <1>1, <1>2, ExchangeKeepsSearch
<1>4. command \in 0 .. 1 /\ COMMANDS[command + 1] \in {"get_pid", "init"}
  BY <1>1, <1>2, CommandType DEF ExchangeTypeOK
<1>5. Head(queue) \in {"get_pid", "init", "input"} /\ queue' \in Seq({"get_pid", "init", "input"})
  BY <1>1, <1>2, HeadAndTail DEF ExchangeTypeOK
<1>6. explained' \in Seq([asked : {"get_pid", "init"}, from : {"get_pid", "init", "input"}])
  <2>1. pair \in [asked : {"get_pid", "init"}, from : {"get_pid", "init", "input"}]
    BY <1>4, <1>5
  <2>. QED BY <1>1, <1>2, <2>1, Appended, Zenon DEF ExchangeTypeOK
<1>7. command' \in 0 .. 2 /\ (spc' = "write" => command' < 2) /\ spc' \in {"write", "exit"}
  BY <1>1, <1>4, CommandType
<1>8. ExchangeTypeOK'
  BY <1>1, <1>2, <1>5, <1>6, <1>7, CommandType DEF ExchangeTypeOK
<1>9. Fresh'
  BY <1>1 DEF Fresh
<1>10. ReplyInv'
  <2>. SUFFICES ASSUME ~tree[Found.place].streams
                PROVE  /\ \A n \in DOMAIN explained' : explained'[n].from = explained'[n].asked
                       /\ owed' = <<>> /\ queue' = <<>>
    BY <1>3, <1>7, Zenon DEF ReplyInv
  <2>1. /\ \A n \in DOMAIN explained : explained[n].from = explained[n].asked
        /\ owed = <<>> /\ queue = <<COMMANDS[command + 1]>>
    BY <1>1, <1>2, Zenon DEF ReplyInv
  <2>2. owed' = <<>> /\ queue' = <<>> /\ pair.from = pair.asked
    BY <1>1, <2>1
  <2>3. \A n \in DOMAIN explained' : explained'[n] = pair \/ (n \in DOMAIN explained /\ explained'[n] = explained[n])
    <3>. HIDE DEF pair
    <3>1. explained \in Seq([asked : {"get_pid", "init"}, from : {"get_pid", "init", "input"}])
      BY <1>2 DEF ExchangeTypeOK
    <3>. QED BY <1>1, <3>1, AppendedElements, Zenon
  <2>. QED BY <2>1, <2>2, <2>3, Zenon
<1>. QED BY <1>3, <1>8, <1>9, <1>10, TypeParts, PTL DEF IdentifyInv

LEMMA IdentifyNextInv ==
    ASSUME TreeTypeOK, IdentifyInv, IdentifyNext
    PROVE  IdentifyInv'
BY StartSearchInv, SearchDeviceInv, SearchInterfaceInv, EndDeviceInv, EndSearchInv, OpenInv,
   WriteCommandInv, PadAnswersInv, PadStreamsInv, EndExchangeInv, ReadReplyInv
   DEF IdentifyNext

-----------------------------------------------------------------------------
(* The composition. *)

IInv == TreeTypeOK /\ InventoryInv /\ IdentifyInv

LEMMA InitInv == Init => IInv
<1>. SUFFICES ASSUME Init PROVE IInv
  OBVIOUS
<1>1. TreeTypeOK
  BY PlacesAssumption DEF Init, TreeInit, TreeTypeOK
<1>2. InventoryTypeOK
  <2>1. blob \in Seq(Byte) /\ collections \in Seq([usage_page : Nat, usage : Nat])
    BY EmptySequence, Zenon DEF Init, InventoryInit
  <2>2. dev \in [place : Places \cup {0}, pid : Pids, candidate : BOOLEAN]
    <3>1. dev = [place |-> 0, pid |-> "", candidate |-> FALSE]
      BY DEF Init, InventoryInit, NoDev, Dev
    <3>2. 0 \in Places \cup {0}
      OBVIOUS
    <3>3. "" \in Pids
      BY Zenon DEF Pids
    <3>4. FALSE \in BOOLEAN
      BY Zenon
    <3>. QED BY <3>1, <3>2, <3>3, <3>4
  <2>3. /\ ipc = "off" /\ ahead = {} /\ left = {} /\ i = 0
        /\ usage_pages = {} /\ report_ids = {} /\ short = {}
        /\ current_page = 0 /\ current_usage = 0 /\ listed = {}
    BY DEF Init, InventoryInit
  <2>. QED BY <2>1, <2>2, <2>3 DEF InventoryTypeOK
<1>3. Placed /\ ScanMissesNothing
  BY DEF Init, InventoryInit, Placed, ScanMissesNothing
<1>4. SearchTypeOK
  <2>1. search \in Searches
    <3>1. search = CHOOSE s \in Searches : TRUE
      BY DEF Init, IdentifyInit
    <3>2. \E s \in Searches : TRUE
      BY SearchesAssumption
    <3>. QED BY <3>1, <3>2, Zenon
  <2>2. since = 0 /\ 0 \in 0 .. moves
    BY PlacesAssumption DEF Init, IdentifyInit, TreeInit
  <2>. QED BY <2>1, <2>2 DEF Init, IdentifyInit, SearchTypeOK, PAD_PIDS
<1>5. ExchangeTypeOK
  <2>1. /\ owed \in Seq({"get_pid", "init"})
        /\ queue \in Seq({"get_pid", "init", "input"})
        /\ explained \in Seq([asked : {"get_pid", "init"}, from : {"get_pid", "init", "input"}])
    BY EmptySequence, Zenon DEF Init, IdentifyInit
  <2>2. up = FALSE /\ command = 0 /\ spc = "off"
    BY DEF Init, IdentifyInit
  <2>3. command \in 0 .. Len(COMMANDS) /\ (spc \in {"write", "wait"} => command < Len(COMMANDS))
    BY <2>2, CommandType
  <2>. QED BY <2>1, <2>2, <2>3, Zenon DEF ExchangeTypeOK
<1>6. SearchPlaced /\ Fresh /\ ReplyInv
  <2>1. /\ spc = "off" /\ ~up /\ command = 0 /\ todo = {} /\ matches = {} /\ candidates = {}
        /\ owed = <<>> /\ queue = <<>> /\ explained = <<>>
    BY DEF Init, IdentifyInit
  <2>2. SearchPlaced
    BY <2>1 DEF SearchPlaced
  <2>3. Fresh
    BY <2>1 DEF Fresh
  <2>4. ReplyInv
    BY <2>1 DEF ReplyInv
  <2>. QED BY <2>2, <2>3, <2>4
<1>. QED BY <1>1, <1>2, <1>3, <1>4, <1>5, <1>6, TypeParts DEF IInv, InventoryInv, IdentifyInv

\* The tree changes: an open node whose device moves is dead, and the device
\* behind any other stays.
LEMMA MovesInv ==
    ASSUME IInv, NEW p \in Places, NEW d \in Devices \cup {None}, Moves(p, d)
    PROVE  IInv'
<1>1. /\ moves < MaxMoves /\ tree' = [tree EXCEPT ![p] = d] /\ moves' = moves + 1
      /\ UNCHANGED <<inventoryVars, spc, searchVars, command, owed, queue, explained>>
  BY DEF Moves, Move
<1>2. up' = (up /\ p # Found.place)
  BY Zenon DEF Moves
<1>3. tree \in [Places -> Devices \cup {None}] /\ moves \in 0 .. MaxMoves
  BY DEF IInv, TreeTypeOK
<1>4. TreeTypeOK'
  BY <1>1, <1>3, PlacesAssumption DEF TreeTypeOK
<1>5. InventoryInv'
  BY <1>1 DEF IInv, InventoryInv, InventoryTypeOK, Placed, ScanMissesNothing, inventoryVars, parseVars
<1>6. SearchTypeOK /\ ExchangeTypeOK /\ SearchPlaced /\ Fresh /\ ReplyInv
  BY TypeParts DEF IInv, IdentifyInv
<1>7. UNCHANGED <<search, pid, present, todo, at, rest, candidates, matches, since>>
  BY <1>1 DEF searchVars
<1>8. SearchTypeOK'
  <2>1. since' \in 0 .. moves'
    BY <1>1, <1>3, <1>6, <1>7 DEF SearchTypeOK
  <2>. QED BY <1>1, <1>6, <1>7, <2>1 DEF SearchTypeOK
<1>9. ExchangeTypeOK'
  <2>1. up' \in BOOLEAN
    BY <1>2, Zenon
  <2>. QED BY <1>1, <1>6, <2>1 DEF ExchangeTypeOK
<1>10. up' => up
  BY <1>2, Zenon
<1>11. SearchPlaced' /\ Fresh'
  BY <1>1, <1>6, <1>7, <1>10, Zenon DEF SearchPlaced, Fresh
<1>12. ReplyInv'
  <2>. SUFFICES ASSUME up' PROVE tree'[Found'.place] = tree[Found.place]
    BY <1>1, <1>6, <1>10, Zenon DEF ReplyInv
  <2>1. Found.place # p /\ matches # {}
    BY <1>2, <1>6, Zenon DEF SearchPlaced
  <2>2. Found' = Found
    BY <1>7 DEF Found
  <2>3. Found \in matches
    BY <2>1, Zenon DEF Found
  <2>4. Found.place \in Places
    BY <1>6, <2>3 DEF SearchTypeOK
  <2>. QED BY <1>1, <1>3, <2>1, <2>2, <2>4
<1>. QED BY <1>4, <1>5, <1>8, <1>9, <1>11, <1>12, TypeParts, PTL DEF IInv, IdentifyInv

LEMMA IdentifyStays ==
    ASSUME IdentifyInv, UNCHANGED <<identifyVars, sysfsVars>> PROVE IdentifyInv'
<1>1. /\ UNCHANGED <<spc, search, pid, present, todo, at, rest, candidates, matches, since>>
      /\ UNCHANGED <<up, command, owed, queue, explained, tree, moves>>
  BY DEF identifyVars, searchVars, exchangeVars, sysfsVars
<1>. QED BY <1>1, Zenon
   DEF IdentifyInv, IdentifyTypeOK, SearchPlaced, Fresh, ReplyInv, Found

LEMMA InventoryStays == ASSUME InventoryInv, UNCHANGED inventoryVars PROVE InventoryInv'
BY DEF InventoryInv, InventoryTypeOK, Placed, ScanMissesNothing, inventoryVars, parseVars

\* Each tool leaves the other's state, and the tree, alone.
LEMMA NextInv == IInv /\ [Next]_vars => IInv'
<1>. SUFFICES ASSUME IInv, [Next]_vars PROVE IInv'
  OBVIOUS
<1>1. CASE Inventories
  <2>1. InventoryNext /\ UNCHANGED identifyVars /\ UNCHANGED sysfsVars
    BY <1>1 DEF Inventories, InventoryNext
  <2>2. InventoryInv' /\ TreeTypeOK'
    BY <2>1, InventoryNextInv DEF IInv, TreeTypeOK, sysfsVars
  <2>3. IdentifyInv'
    BY <2>1, IdentifyStays DEF IInv
  <2>. QED BY <2>2, <2>3 DEF IInv
<1>2. CASE SearchesOn
  <2>1. IdentifyNext /\ UNCHANGED inventoryVars /\ UNCHANGED sysfsVars
    BY <1>2 DEF SearchesOn, IdentifyNext
  <2>2. IdentifyInv' /\ TreeTypeOK'
    BY <2>1, IdentifyNextInv DEF IInv, TreeTypeOK, sysfsVars
  <2>3. InventoryInv'
    BY <2>1, InventoryStays DEF IInv
  <2>. QED BY <2>2, <2>3 DEF IInv
<1>3. ASSUME NEW p \in Places, NEW d \in Devices \cup {None}, Moves(p, d)
      PROVE  IInv'
  BY <1>3, MovesInv
<1>4. CASE UNCHANGED vars
  <2>1. UNCHANGED <<inventoryVars, identifyVars, sysfsVars>>
    BY <1>4 DEF vars
  <2>. QED BY <2>1, IdentifyStays, InventoryStays DEF IInv, TreeTypeOK, sysfsVars
<1>. QED BY <1>1, <1>2, <1>3, <1>4 DEF Next, Rest

LEMMA InvHolds == Spec => []IInv
BY InitInv, NextInv, PTL DEF Spec

-----------------------------------------------------------------------------

\* Every variable of both tools and of the tree keeps its type.
THEOREM TypeCorrect == Spec => []TypeOK
<1>1. IInv => TypeOK
  BY DEF IInv, TreeTypeOK, InventoryInv, IdentifyInv, TypeOK
<1>. QED BY <1>1, InvHolds, PTL

\* The scan of identify.py (95-106) drops no vendor page of two bytes and no
\* report id of one that inventory.py's walk of the same descriptor comes to,
\* whatever the descriptor.
THEOREM ScanIsComplete == Spec => []ScanMissesNothing
<1>1. IInv => ScanMissesNothing
  BY DEF IInv, InventoryInv
<1>. QED BY <1>1, InvHolds, PTL

\* What identify.py (270-274, 318-342) explains as the reply of a pad that
\* sends nothing of its own is the reply, however late answers come and
\* whatever else is plugged in or out.
THEOREM RepliesAreExplained == Spec => []ExplainedIsItsReply
<1>1. IInv => ExplainedIsItsReply
  BY Zenon DEF IInv, IdentifyInv, ReplyInv, ExplainedIsItsReply
<1>. QED BY <1>1, InvHolds, PTL

-----------------------------------------------------------------------------
(* The search, in a tree that stays. *)

\* The candidates of some interfaces of the device at a place, and the match
\* that all of them make.
CandidatesOf(p, N) == UNION {Candidates(Interface(p, n).data, n) : n \in N}
MatchOf(p) ==
    LET C == CandidatesOf(p, DOMAIN tree[p].ifaces)
    IN  {[place |-> p, iface |-> c.iface, ids |-> c.ids] : c \in {c \in C : \A d \in C : SortsBefore(c, d)}}
MatchesOf(P) == UNION {MatchOf(p) : p \in P}

\* No interface with a vendor page among them is without a node.
NodesOf(p, N) == \A n \in N : ScannedPages(Interface(p, n).data) # {} => Interface(p, n).node

\* The devices of some places were searched, and none ended the program.
Searched(P) == matches = MatchesOf(P) /\ \A p \in P : ~NodeMissing(p)

SearchedInv ==
    /\ spc = "off" => matches = {}
    /\ Still =>
        /\ spc \in {"search", "interfaces"} => present = {p \in Usb : tree[p] # None}
        /\ spc = "search" => Searched(Matching \ todo)
        /\ spc = "interfaces" =>
              /\ at \in Matching \ todo /\ rest \subseteq DOMAIN tree[at].ifaces
              /\ Searched(Matching \ (todo \cup {at}))
              /\ candidates = CandidatesOf(at, DOMAIN tree[at].ifaces \ rest)
              /\ NodesOf(at, DOMAIN tree[at].ifaces \ rest)
        /\ spc \in {"open", "write", "wait"} => Searched(Matching)
        /\ spc = "exit" => \/ ~up /\ Cardinality(PidsToChoose(search)) # 1
                           \/ ~up /\ \E p \in Matching : NodeMissing(p)
                           \/ Searched(Matching)

\* Of candidates there is one that the sort puts first.
LEMMA FirstCandidate ==
    ASSUME NEW C \in SUBSET [rank : {0, 1}, page : Nat, iface : Nat, ids : SUBSET Byte], C # {}
    PROVE  \E c \in C : \A d \in C : SortsBefore(c, d)
<1>1. ASSUME NEW c \in C PROVE c.rank \in Nat /\ c.page \in Nat /\ c.iface \in Nat
  OBVIOUS
<1>2. PICK r \in {c.rank : c \in C} : \A q \in {c.rank : c \in C} : r <= q
  <2>1. {c.rank : c \in C} \in SUBSET Nat /\ {c.rank : c \in C} # {}
    BY <1>1
  <2>. QED BY <2>1, LeastNat, Zenon
<1>. DEFINE A == {c \in C : c.rank = r}
<1>3. PICK g \in {c.page : c \in A} : \A q \in {c.page : c \in A} : g <= q
  <2>1. {c.page : c \in A} \in SUBSET Nat /\ {c.page : c \in A} # {}
    BY <1>1, <1>2
  <2>. QED BY <2>1, LeastNat, Zenon
<1>. DEFINE B == {c \in A : c.page = g}
<1>4. PICK n \in {c.iface : c \in B} : \A q \in {c.iface : c \in B} : n <= q
  <2>1. {c.iface : c \in B} \in SUBSET Nat /\ {c.iface : c \in B} # {}
    BY <1>1, <1>3
  <2>. QED BY <2>1, LeastNat, Zenon
<1>5. PICK c \in B : c.iface = n
  BY <1>4
<1>6. ASSUME NEW d \in C PROVE SortsBefore(c, d)
  <2>1. c \in C /\ c.rank = r /\ c.page = g /\ c.iface = n
    BY <1>5
  <2>2. r <= d.rank /\ (d.rank = r => g <= d.page) /\ (d.rank = r /\ d.page = g => n <= d.iface)
    BY <1>2, <1>3, <1>4
  <2>3. r \in Nat /\ g \in Nat /\ n \in Nat /\ d.rank \in Nat /\ d.page \in Nat /\ d.iface \in Nat
    BY <1>1, <2>1
  <2>. HIDE DEF A, B
  <2>. QED BY <2>1, <2>2, <2>3 DEF SortsBefore
<1>. QED BY <1>5, <1>6

\* How the matches add up.
LEMMA CandidatesAdd ==
    ASSUME NEW p, NEW N, NEW n
    PROVE  CandidatesOf(p, N \cup {n}) = CandidatesOf(p, N) \cup Candidates(Interface(p, n).data, n)
BY Zenon DEF CandidatesOf

LEMMA MatchesAdd ==
    ASSUME NEW P, NEW p PROVE MatchesOf(P \cup {p}) = MatchesOf(P) \cup MatchOf(p)
BY Zenon DEF MatchesOf

\* A descriptor without a vendor page makes no candidate, one with pages makes one.
LEMMA PagesMakeCandidates ==
    ASSUME NEW data \in Seq(Byte), NEW n
    PROVE  /\ ScannedPages(data) = {} => Candidates(data, n) = {}
           /\ ScannedPages(data) # {} => Candidates(data, n) # {}
<1>1. ScannedPages(data) \in SUBSET Nat
  BY ScanType
<1>2. ScannedPages(data) # {} => Lowest(ScannedPages(data)) # {}
  <2>1. ASSUME ScannedPages(data) # {} PROVE \E k \in ScannedPages(data) : \A m \in ScannedPages(data) : k <= m
    BY <1>1, <2>1, LeastNat, Zenon
  <2>. QED BY <2>1, Zenon DEF Lowest
<1>3. Lowest(ScannedPages(data)) \subseteq ScannedPages(data)
  BY Zenon DEF Lowest
<1>. QED BY <1>2, <1>3, Zenon DEF Candidates

LEMMA DataIsBytes ==
    ASSUME TreeTypeOK, NEW p \in Places, tree[p] # None
    PROVE  /\ \A n \in DOMAIN tree[p].ifaces : n \in Nat /\ Interface(p, n).data \in Seq(Byte)
           /\ CandidatesOf(p, DOMAIN tree[p].ifaces)
                 \in SUBSET [rank : {0, 1}, page : Nat, iface : Nat, ids : SUBSET Byte]
<1>1. \A n \in DOMAIN tree[p].ifaces : n \in Nat /\ Interface(p, n).data \in Seq(Byte)
  BY DeviceType, Zenon
<1>. DEFINE R == [rank : {0, 1}, page : Nat, iface : Nat, ids : SUBSET Byte]
<1>2. \A n \in DOMAIN tree[p].ifaces : Candidates(Interface(p, n).data, n) \subseteq R
  BY <1>1, CandidatesType, Zenon
<1>. HIDE DEF R
<1>3. CandidatesOf(p, DOMAIN tree[p].ifaces) \in SUBSET R
  BY <1>2, Zenon DEF CandidatesOf
<1>. QED BY <1>1, <1>3, Zenon DEF R

\* The match of a device: of an interface with a vendor page, one that the scan
\* takes for the channel if there is any; one at most, and one if there is a page.
LEMMA MatchFacts ==
    ASSUME TreeTypeOK, NEW p \in Places, tree[p] # None
    PROVE  /\ \A m \in MatchOf(p) :
                 /\ m.place = p /\ m.iface \in DOMAIN tree[p].ifaces
                 /\ ScannedPages(Interface(p, m.iface).data) # {}
                 /\ m.ids = ScannedIds(Interface(p, m.iface).data)
                 /\ \A n \in DOMAIN tree[p].ifaces :
                       ScannedPages(Interface(p, n).data) # {}
                       /\ CONFIG_REPORT_IDS \subseteq ScannedIds(Interface(p, n).data)
                          => CONFIG_REPORT_IDS \subseteq m.ids
           /\ \A m, o \in MatchOf(p) : m = o
           /\ (\E n \in DOMAIN tree[p].ifaces : ScannedPages(Interface(p, n).data) # {}) => MatchOf(p) # {}
<1>. DEFINE N == DOMAIN tree[p].ifaces
            data(n) == Interface(p, n).data
            rank(n) == IF CONFIG_REPORT_IDS \subseteq ScannedIds(data(n)) THEN 0 ELSE 1
            C == CandidatesOf(p, N)
            first == {c \in C : \A d \in C : SortsBefore(c, d)}
            matchOf(c) == [place |-> p, iface |-> c.iface, ids |-> c.ids]
<1>1. \A n \in N : n \in Nat /\ data(n) \in Seq(Byte)
  BY DataIsBytes, Zenon
<1>2. C \in SUBSET [rank : {0, 1}, page : Nat, iface : Nat, ids : SUBSET Byte]
  BY DataIsBytes, Zenon
<1>3. MatchOf(p) = {matchOf(c) : c \in first}
  BY Zenon DEF MatchOf
<1>4. ASSUME NEW c \in C
      PROVE  /\ c.iface \in N /\ ScannedPages(data(c.iface)) # {}
             /\ c.ids = ScannedIds(data(c.iface)) /\ c.rank = rank(c.iface)
  <2>1. PICK n \in N : c \in Candidates(data(n), n)
    BY Zenon DEF CandidatesOf
  <2>2. ScannedPages(data(n)) # {}
    BY <1>1, <2>1, PagesMakeCandidates, Zenon
  <2>3. PICK page \in Lowest(ScannedPages(data(n))) :
           c = [rank |-> rank(n), page |-> page, iface |-> n, ids |-> ScannedIds(data(n))]
    BY <2>1, Zenon DEF Candidates
  <2>. HIDE DEF data, rank, N, C
  <2>4. c.iface = n /\ c.ids = ScannedIds(data(n)) /\ c.rank = rank(n)
    BY <2>3
  <2>. QED BY <2>2, <2>4, Zenon
<1>5. ASSUME NEW n \in N, ScannedPages(data(n)) # {} PROVE \E c \in C : c.iface = n
  <2>1. PICK c : c \in Candidates(data(n), n)
    BY <1>1, <1>5, PagesMakeCandidates, Zenon
  <2>2. c \in C
    BY <2>1, Zenon DEF CandidatesOf
  <2>3. c.iface = n
    <3>1. PICK page \in Lowest(ScannedPages(data(n))) :
             c = [rank |-> rank(n), page |-> page, iface |-> n, ids |-> ScannedIds(data(n))]
      BY <2>1, Zenon DEF Candidates
    <3>. HIDE DEF data, rank
    <3>. QED BY <3>1
  <2>. QED BY <2>2, <2>3, Zenon
<1>6. \A c \in C : c.rank \in {0, 1} /\ c.page \in Nat /\ c.iface \in Nat
  <2>. HIDE DEF C
  <2>. QED BY <1>2
<1>7. \A c \in C : matchOf(c).place = p /\ matchOf(c).iface = c.iface /\ matchOf(c).ids = c.ids
  <2>. HIDE DEF C
  <2>. QED OBVIOUS
<1>8. \A n \in N : CONFIG_REPORT_IDS \subseteq ScannedIds(data(n)) <=> rank(n) = 0
  BY Z3
<1>. HIDE DEF N, data, rank, C, matchOf
<1>9. ASSUME NEW c \in first
      PROVE  /\ c.iface \in N /\ ScannedPages(data(c.iface)) # {}
             /\ c.ids = ScannedIds(data(c.iface))
             /\ \A n \in N : ScannedPages(data(n)) # {} /\ CONFIG_REPORT_IDS \subseteq ScannedIds(data(n))
                                => CONFIG_REPORT_IDS \subseteq c.ids
  <2>1. c \in C /\ \A d \in C : SortsBefore(c, d)
    OBVIOUS
  <2>2. ASSUME NEW n \in N, ScannedPages(data(n)) # {}, CONFIG_REPORT_IDS \subseteq ScannedIds(data(n))
        PROVE  CONFIG_REPORT_IDS \subseteq c.ids
    <3>1. PICK d \in C : d.iface = n
      BY <1>5, <2>2, Zenon
    <3>2. d.rank = 0
      BY <1>4, <1>8, <2>2, <3>1, Zenon
    <3>3. c.rank = 0
      BY <1>6, <2>1, <3>2 DEF SortsBefore
    <3>4. c.iface \in N /\ c.rank = rank(c.iface) /\ c.ids = ScannedIds(data(c.iface))
      BY <1>4, <2>1, Zenon
    <3>5. CONFIG_REPORT_IDS \subseteq ScannedIds(data(c.iface))
      BY <1>8, <3>3, <3>4, Zenon
    <3>. QED BY <3>4, <3>5
  <2>. QED BY <1>4, <2>1, <2>2, Zenon
<1>10. ASSUME NEW c \in first, NEW d \in first PROVE c.iface = d.iface /\ c.ids = d.ids
  <2>1. c \in C /\ d \in C /\ SortsBefore(c, d) /\ SortsBefore(d, c)
    OBVIOUS
  <2>2. c.iface = d.iface
    BY <1>6, <2>1 DEF SortsBefore
  <2>. QED BY <1>4, <2>1, <2>2, Zenon
<1>11. ASSUME NEW n \in N, ScannedPages(data(n)) # {} PROVE first # {}
  <2>1. C # {}
    BY <1>5, <1>11, Zenon
  <2>2. \E c \in C : \A d \in C : SortsBefore(c, d)
    BY <1>2, <2>1, FirstCandidate, Zenon
  <2>. QED BY <2>2, Zenon
<1>12. \A c \in first : c \in C
  OBVIOUS
<1>13. \A m \in MatchOf(p) :
          /\ m.place = p /\ m.iface \in N /\ ScannedPages(data(m.iface)) # {}
          /\ m.ids = ScannedIds(data(m.iface))
          /\ \A n \in N : ScannedPages(data(n)) # {} /\ CONFIG_REPORT_IDS \subseteq ScannedIds(data(n))
                             => CONFIG_REPORT_IDS \subseteq m.ids
  <2>. TAKE m \in MatchOf(p)
  <2>1. PICK c \in first : m = matchOf(c)
    BY <1>3, Zenon
  <2>2. m.place = p /\ m.iface = c.iface /\ m.ids = c.ids
    BY <1>7, <1>12, <2>1, Zenon
  <2>. HIDE DEF first
  <2>. QED BY <1>9, <2>2, Zenon
<1>14. \A m, o \in MatchOf(p) : m = o
  <2>1. \A c, d \in first : matchOf(c) = matchOf(d)
    BY <1>10, Zenon DEF matchOf
  <2>. QED BY <1>3, <2>1, Zenon
<1>15. (\E n \in N : ScannedPages(data(n)) # {}) => MatchOf(p) # {}
  BY <1>3, <1>11, Zenon
<1>. QED BY <1>13, <1>14, <1>15, Zenon DEF N, data

\* The ids of pads that may be opened are none of those refused.
LEMMA PadsAreNotRefused == \A d \in PAD_PIDS : d \notin REFUSE
BY DEF PAD_PIDS, REFUSE

\* In a tree that stays, what is found of it stays.
LEMMA TreeStays ==
    ASSUME tree' = tree, search' = search, pid' = pid
    PROVE  /\ Matching' = Matching
           /\ PidsToChoose(search)' = PidsToChoose(search)
           /\ \A P : Searched(P)' <=> matches' = MatchesOf(P) /\ \A p \in P : ~NodeMissing(p)
           /\ \A p : NodeMissing(p)' <=> NodeMissing(p)
           /\ \A p, N : CandidatesOf(p, N)' = CandidatesOf(p, N) /\ (NodesOf(p, N)' <=> NodesOf(p, N))
<1>1. Matching' = Matching
  BY Zenon DEF Matching, Wanted
<1>2. PidsToChoose(search)' = PidsToChoose(search)
  BY Zenon DEF PidsToChoose, Wanted
<1>3. \A p : NodeMissing(p)' <=> NodeMissing(p)
  BY Zenon DEF NodeMissing
<1>4. \A p, n : Interface(p, n)' = Interface(p, n)
  BY Zenon DEF Interface
<1>5. \A p, N : CandidatesOf(p, N)' = CandidatesOf(p, N)
  BY <1>4, Zenon DEF CandidatesOf
<1>6. \A p, N : NodesOf(p, N)' <=> NodesOf(p, N)
  BY <1>4, Zenon DEF NodesOf
<1>7. \A p : MatchOf(p)' = MatchOf(p)
  BY <1>5, Zenon DEF MatchOf
<1>8. \A P : MatchesOf(P)' = MatchesOf(P)
  BY <1>7, Zenon DEF MatchesOf
<1>9. \A P : Searched(P)' <=> matches' = MatchesOf(P) /\ \A p \in P : ~NodeMissing(p)
  BY <1>3, <1>8, Zenon DEF Searched
<1>. QED BY <1>1, <1>2, <1>3, <1>5, <1>6, <1>9, Zenon

\* A step of neither the tree nor the search leaves what was found.
LEMMA SearchedStays ==
    ASSUME SearchedInv, UNCHANGED <<sysfsVars, spc, searchVars, up>> PROVE SearchedInv'
<1>1. UNCHANGED <<tree, moves, spc, search, pid, present, todo, at, rest, candidates, matches, since>>
  BY DEF sysfsVars, searchVars
<1>. DEFINE got(t) == Searched(Matching \ t)
            scanned == DOMAIN tree[at].ifaces \ rest
<1>2. /\ Matching' = Matching /\ PidsToChoose(search)' = PidsToChoose(search)
      /\ \A P : matches = MatchesOf(P) /\ (\A p \in P : ~NodeMissing(p)) => Searched(P)'
      /\ \A p : NodeMissing(p)' <=> NodeMissing(p)
      /\ \A p, N : CandidatesOf(p, N)' = CandidatesOf(p, N) /\ (NodesOf(p, N)' <=> NodesOf(p, N))
  BY <1>1, TreeStays, Zenon
<1>3. \A P : Searched(P) => Searched(P)'
  BY <1>2, Zenon DEF Searched
<1>4. (spc = "off" => matches = {})'
  BY <1>1, Zenon DEF SearchedInv
<1>. SUFFICES ASSUME Still PROVE SearchedInv'
  BY <1>1, <1>4 DEF SearchedInv, Still
<1>5. (spc = "search" => Searched(Matching \ todo))'
  <2>1. spc = "search" => Searched(Matching \ todo)
    BY Zenon DEF SearchedInv
  <2>. QED BY <1>1, <1>2, <1>3, <2>1, Zenon
<1>6. ASSUME spc' = "interfaces"
      PROVE  /\ (at \in Matching \ todo /\ rest \subseteq DOMAIN tree[at].ifaces)'
             /\ Searched(Matching \ (todo \cup {at}))'
             /\ (candidates = CandidatesOf(at, DOMAIN tree[at].ifaces \ rest))'
             /\ NodesOf(at, DOMAIN tree[at].ifaces \ rest)'
  <2>1. /\ at \in Matching \ todo /\ rest \subseteq DOMAIN tree[at].ifaces
        /\ Searched(Matching \ (todo \cup {at}))
        /\ candidates = CandidatesOf(at, scanned) /\ NodesOf(at, scanned)
    BY <1>1, <1>6, Zenon DEF SearchedInv
  <2>2. scanned' = scanned
    BY <1>1, Zenon
  <2>3. (candidates = CandidatesOf(at, scanned))' /\ NodesOf(at, scanned)'
    BY <1>1, <1>2, <2>1, <2>2, Zenon
  <2>. QED BY <1>1, <1>2, <1>3, <2>1, <2>3, Zenon
<1>7. (spc \in {"open", "write", "wait"} => Searched(Matching))'
  <2>1. spc \in {"open", "write", "wait"} => Searched(Matching)
    BY Zenon DEF SearchedInv
  <2>. QED BY <1>1, <1>2, <1>3, <2>1, Zenon
<1>8. ASSUME spc' = "exit"
      PROVE  \/ (~up /\ Cardinality(PidsToChoose(search)) # 1)'
             \/ (~up /\ \E p \in Matching : NodeMissing(p))'
             \/ Searched(Matching)'
  <2>1. \/ ~up /\ Cardinality(PidsToChoose(search)) # 1
        \/ ~up /\ \E p \in Matching : NodeMissing(p)
        \/ Searched(Matching)
    BY <1>1, <1>8, Zenon DEF SearchedInv
  <2>. QED BY <1>2, <1>3, <2>1, Zenon
<1>9. (spc \in {"search", "interfaces"} => present = {p \in Usb : tree[p] # None})'
  BY <1>1, Zenon DEF SearchedInv
<1>. QED BY <1>4, <1>5, <1>6, <1>7, <1>8, <1>9, Zenon DEF SearchedInv

LEMMA StartSearched ==
    ASSUME Fresh, SearchedInv, UNCHANGED sysfsVars, NEW s \in Searches, StartSearch(s)
    PROVE  SearchedInv'
<1>1. /\ spc = "off" /\ matches' = matches /\ search' = s /\ since' = moves
      /\ present' = {p \in Usb : tree[p] # None}
      /\ moves' = moves /\ tree' = tree /\ ~up'
  BY DEF StartSearch, sysfsVars, exchangeVars, Fresh
<1>2. CASE Cardinality(PidsToChoose(s)) = 1
  <2>1. spc' = "search" /\ todo' = Places
    BY <1>2 DEF StartSearch
  <2>2. matches' = {}
    BY <1>1 DEF SearchedInv
  <2>3. Matching' \ todo' = {}
    BY <2>1 DEF Matching
  <2>4. Searched(Matching \ todo)'
    BY <2>2, <2>3, Zenon DEF Searched, MatchesOf
  <2>5. present' = {p \in Usb : tree[p] # None}'
    BY <1>1, Zenon
  <2>. QED BY <2>1, <2>4, <2>5 DEF SearchedInv
<1>3. CASE Cardinality(PidsToChoose(s)) # 1
  <2>1. spc' = "exit"
    BY <1>3 DEF StartSearch
  <2>2. PidsToChoose(search)' = PidsToChoose(s)
    BY <1>1, Zenon DEF PidsToChoose, Wanted
  <2>. QED BY <1>1, <1>3, <2>1, <2>2, Zenon DEF SearchedInv
<1>. QED BY <1>2, <1>3

LEMMA DeviceSearched ==
    ASSUME SearchTypeOK, SearchedInv, UNCHANGED sysfsVars, SearchDevice
    PROVE  SearchedInv'
<1>1. PICK p \in Lowest(todo) :
         /\ todo' = todo \ {p}
         /\ IF Listed(p) /\ tree[p].pid \in {pid} \ REFUSE /\ Wanted(search.path, p)
            THEN /\ spc' = "interfaces" /\ at' = p
                 /\ rest' = DOMAIN tree[p].ifaces /\ candidates' = {}
            ELSE UNCHANGED <<spc, at, rest, candidates>>
  BY DEF SearchDevice
<1>2. /\ spc = "search" /\ UNCHANGED <<search, pid, present, matches, since>>
      /\ tree' = tree /\ moves' = moves
  BY DEF SearchDevice, sysfsVars
<1>3. p \in todo /\ p \in Places /\ pid \notin REFUSE
  BY PadsAreNotRefused DEF Lowest, SearchTypeOK
<1>. SUFFICES ASSUME Still PROVE SearchedInv'
  BY <1>1, <1>2 DEF SearchedInv, Still
<1>8. present = {q \in Usb : tree[q] # None} /\ present' = {q \in Usb : tree[q] # None}'
  BY <1>2, Zenon DEF SearchedInv
<1>4. p \in Matching <=> Listed(p) /\ tree[p].pid \in {pid} \ REFUSE /\ Wanted(search.path, p)
  BY <1>3, <1>8 DEF Matching, Listed
<1>5. matches = MatchesOf(Matching \ todo) /\ \A q \in Matching \ todo : ~NodeMissing(q)
  BY <1>2 DEF SearchedInv, Searched
<1>6. CASE p \in Matching
  <2>1. spc' = "interfaces" /\ at' = p /\ rest' = DOMAIN tree[p].ifaces /\ candidates' = {}
    BY <1>1, <1>4, <1>6
  <2>2. at' \in Matching \ todo' /\ rest' \subseteq DOMAIN tree'[at'].ifaces
    BY <1>1, <1>2, <1>6, <2>1
  <2>3. Matching \ (todo' \cup {at'}) = Matching \ todo
    BY <1>1, <1>3, <2>1
  <2>4. DOMAIN tree'[at'].ifaces \ rest' = {}
    BY <1>2, <2>1
  <2>5. Searched(Matching \ (todo \cup {at}))' /\ Matching' = Matching
    BY <1>2, <1>5, <2>3, TreeStays, Zenon
  <2>6. candidates' = CandidatesOf(at, DOMAIN tree[at].ifaces \ rest)' /\ NodesOf(at, DOMAIN tree[at].ifaces \ rest)'
    BY <2>1, <2>4, Zenon DEF CandidatesOf, NodesOf
  <2>. QED BY <1>8, <2>1, <2>2, <2>5, <2>6, Zenon DEF SearchedInv
<1>7. CASE p \notin Matching
  <2>1. spc' = "search"
    BY <1>1, <1>2, <1>4, <1>7
  <2>2. Matching \ todo' = Matching \ todo
    BY <1>1, <1>7
  <2>3. Searched(Matching \ todo)'
    BY <1>2, <1>5, <2>2, TreeStays, Zenon
  <2>. QED BY <1>8, <2>1, <2>3, Zenon DEF SearchedInv
<1>. QED BY <1>6, <1>7

LEMMA InterfaceSearched ==
    ASSUME TreeTypeOK, SearchTypeOK, Fresh, SearchedInv, UNCHANGED sysfsVars, SearchInterface
    PROVE  SearchedInv'
<1>. DEFINE data(n) == IF HasInterface(at, n) THEN Interface(at, n).data ELSE <<>>
<1>1. PICK n \in Lowest(rest) :
         /\ rest' = rest \ {n}
         /\ IF ScannedPages(data(n)) = {} THEN UNCHANGED <<spc, candidates>>
            ELSE IF ~Interface(at, n).node THEN spc' = "exit" /\ UNCHANGED candidates
            ELSE candidates' = candidates \cup Candidates(data(n), n) /\ UNCHANGED spc
  BY DEF SearchInterface
<1>2. /\ spc = "interfaces" /\ UNCHANGED <<search, pid, present, todo, at, matches, since>>
      /\ tree' = tree /\ moves' = moves /\ ~up'
  BY DEF SearchInterface, sysfsVars, exchangeVars, Fresh
<1>. SUFFICES ASSUME Still PROVE SearchedInv'
  BY <1>1, <1>2 DEF SearchedInv, Still
<1>3. /\ at \in Matching \ todo /\ rest \subseteq DOMAIN tree[at].ifaces
      /\ matches = MatchesOf(Matching \ (todo \cup {at}))
      /\ \A q \in Matching \ (todo \cup {at}) : ~NodeMissing(q)
      /\ candidates = CandidatesOf(at, DOMAIN tree[at].ifaces \ rest)
      /\ NodesOf(at, DOMAIN tree[at].ifaces \ rest)
  BY <1>2 DEF SearchedInv, Searched
<1>4. n \in rest /\ n \in DOMAIN tree[at].ifaces /\ tree[at] # None /\ at \in Places
  BY <1>3 DEF Lowest, Matching
<1>5. data(n) = Interface(at, n).data /\ data(n) \in Seq(Byte)
  BY <1>4, DataIsBytes DEF HasInterface
<1>. HIDE DEF data
<1>6. DOMAIN tree[at].ifaces \ rest' = (DOMAIN tree[at].ifaces \ rest) \cup {n}
  BY <1>1, <1>4
<1>7. Searched(Matching \ (todo \cup {at}))' /\ Matching' = Matching
  BY <1>2, <1>3, TreeStays, Zenon
<1>8. CASE ScannedPages(data(n)) # {} /\ ~Interface(at, n).node
  <2>1. spc' = "exit"
    BY <1>1, <1>8
  <2>2. NodeMissing(at)
    BY <1>4, <1>5, <1>8, Zenon DEF NodeMissing, Interface
  <2>3. at \in Matching' /\ NodeMissing(at)'
    BY <1>2, <1>3, <1>7, <2>2, TreeStays, Zenon
  <2>4. (\E p \in Matching : NodeMissing(p))'
    BY <1>2, <2>3, Zenon
  <2>. QED BY <1>2, <2>1, <2>4, Zenon DEF SearchedInv
<1>9. CASE ~(ScannedPages(data(n)) # {} /\ ~Interface(at, n).node)
  <2>1. spc' = "interfaces"
    BY <1>1, <1>2, <1>9
  <2>2. candidates' = candidates \cup Candidates(data(n), n)
    <3>1. CASE ScannedPages(data(n)) = {}
      BY <1>1, <1>5, <3>1, PagesMakeCandidates
    <3>2. CASE ScannedPages(data(n)) # {}
      BY <1>1, <1>9, <3>2
    <3>. QED BY <3>1, <3>2
  <2>3. candidates' = CandidatesOf(at, DOMAIN tree[at].ifaces \ rest')
    <3>. DEFINE N == DOMAIN tree[at].ifaces \ rest
    <3>1. CandidatesOf(at, N \cup {n}) = CandidatesOf(at, N) \cup Candidates(Interface(at, n).data, n)
      BY CandidatesAdd, Zenon
    <3>2. candidates = CandidatesOf(at, N)
      BY <1>3
    <3>. HIDE DEF N
    <3>3. candidates' = CandidatesOf(at, N \cup {n})
      BY <1>5, <2>2, <3>1, <3>2, Zenon
    <3>. QED BY <1>6, <3>3, Zenon DEF N
  <2>4. NodesOf(at, DOMAIN tree[at].ifaces \ rest')
    BY <1>3, <1>5, <1>6, <1>9, Zenon DEF NodesOf
  <2>5. /\ candidates' = CandidatesOf(at, DOMAIN tree[at].ifaces \ rest)'
        /\ NodesOf(at, DOMAIN tree[at].ifaces \ rest)'
    BY <1>2, <2>3, <2>4, TreeStays, Zenon
  <2>6. at' \in Matching' \ todo' /\ rest' \subseteq DOMAIN tree'[at'].ifaces
    BY <1>1, <1>2, <1>3, <1>7
  <2>7. present' = {q \in Usb : tree[q] # None}'
    BY <1>2, Zenon DEF SearchedInv
  <2>. QED BY <1>7, <2>1, <2>5, <2>6, <2>7, Zenon DEF SearchedInv
<1>. QED BY <1>8, <1>9

LEMMA EndDeviceSearched ==
    ASSUME SearchedInv, UNCHANGED sysfsVars, EndDevice
    PROVE  SearchedInv'
<1>1. /\ spc = "interfaces" /\ rest = {} /\ spc' = "search"
      /\ matches' = matches \cup {[place |-> at, iface |-> c.iface, ids |-> c.ids] :
              c \in {c \in candidates : \A d \in candidates : SortsBefore(c, d)}}
      /\ UNCHANGED <<search, pid, present, todo, at, since>> /\ tree' = tree /\ moves' = moves
  BY Zenon DEF EndDevice, sysfsVars
<1>. SUFFICES ASSUME Still PROVE SearchedInv'
  BY <1>1 DEF SearchedInv, Still
<1>2. /\ at \in Matching \ todo
      /\ matches = MatchesOf(Matching \ (todo \cup {at}))
      /\ \A q \in Matching \ (todo \cup {at}) : ~NodeMissing(q)
      /\ candidates = CandidatesOf(at, DOMAIN tree[at].ifaces \ rest)
      /\ NodesOf(at, DOMAIN tree[at].ifaces \ rest)
  BY <1>1 DEF SearchedInv, Searched
<1>3. DOMAIN tree[at].ifaces \ rest = DOMAIN tree[at].ifaces
  BY <1>1
<1>4. matches' = matches \cup MatchOf(at)
  BY <1>1, <1>2, <1>3, Zenon DEF MatchOf
<1>5. (Matching \ (todo \cup {at})) \cup {at} = Matching \ todo
  BY <1>2
<1>6. matches' = MatchesOf(Matching \ todo)
  BY <1>2, <1>4, <1>5, MatchesAdd, Zenon
<1>7. ~NodeMissing(at)
  BY <1>2, <1>3, Zenon DEF NodesOf, NodeMissing, Interface
<1>8. \A q \in Matching \ todo : ~NodeMissing(q)
  BY <1>2, <1>5, <1>7, Zenon
<1>9. Searched(Matching \ todo)'
  BY <1>1, <1>6, <1>8, TreeStays, Zenon
<1>10. present' = {q \in Usb : tree[q] # None}'
  BY <1>1, Zenon DEF SearchedInv
<1>. QED BY <1>1, <1>9, <1>10, Zenon DEF SearchedInv

\* No file is gone of a tree that stays.
LEMMA RaisesNowhere ==
    ASSUME SearchTypeOK, SearchedInv, Still PROVE ~SearchRaises
<1>1. spc \in {"search", "interfaces"} => present = {q \in Usb : tree[q] # None}
  BY Zenon DEF SearchedInv
<1>2. spc = "interfaces" => at \in Matching /\ rest \subseteq DOMAIN tree[at].ifaces
  BY DEF SearchedInv
<1>3. at \in Matching => tree[at] # None
  BY DEF Matching
<1>. QED BY <1>1, <1>2, <1>3 DEF SearchRaises, HasInterface, Lowest

LEMMA RaisesSearched ==
    ASSUME SearchTypeOK, SearchedInv, UNCHANGED sysfsVars, SearchRaises
    PROVE  SearchedInv'
<1>1. ~Still
  BY RaisesNowhere
<1>2. spc' = "exit" /\ UNCHANGED <<moves, since>>
  BY DEF SearchRaises, sysfsVars, searchVars
<1>. QED BY <1>1, <1>2 DEF SearchedInv, Still

LEMMA EndSearched ==
    ASSUME SearchedInv, UNCHANGED sysfsVars, EndSearch
    PROVE  SearchedInv'
<1>1. /\ spc = "search" /\ todo = {} /\ spc' \in {"open", "exit"}
      /\ UNCHANGED <<search, pid, matches, since>> /\ tree' = tree /\ moves' = moves
  BY DEF EndSearch, sysfsVars, searchVars
<1>. SUFFICES ASSUME Still PROVE SearchedInv'
  BY <1>1 DEF SearchedInv, Still
<1>2. Matching \ todo = Matching
  BY <1>1
<1>3. Searched(Matching)
  BY <1>1, <1>2 DEF SearchedInv
<1>4. Searched(Matching)'
  BY <1>1, <1>3, TreeStays, Zenon DEF Searched
<1>. QED BY <1>1, <1>4 DEF SearchedInv

\* A step of the exchange searches nothing.
LEMMA ExchangeSearched ==
    ASSUME SearchedInv, UNCHANGED <<sysfsVars, searchVars>>,
           spc \in {"open", "write", "wait"}, spc' \in {spc, "write", "wait", "exit"}
    PROVE  SearchedInv'
<1>1. UNCHANGED <<search, pid, matches, since, tree, moves>>
  BY DEF sysfsVars, searchVars
<1>. SUFFICES ASSUME Still PROVE SearchedInv'
  BY <1>1 DEF SearchedInv, Still
<1>2. /\ Matching' = Matching /\ PidsToChoose(search)' = PidsToChoose(search)
      /\ Searched(Matching)' <=> Searched(Matching)
      /\ \A p : NodeMissing(p)' <=> NodeMissing(p)
  BY <1>1, TreeStays, Zenon DEF Searched
<1>3. Searched(Matching)
  BY DEF SearchedInv
<1>4. spc' \in {"open", "write", "wait", "exit"}
  OBVIOUS
<1>. QED BY <1>2, <1>3, <1>4 DEF SearchedInv

LEMMA IdentifySearched ==
    ASSUME TreeTypeOK, IdentifyInv, SearchedInv, IdentifyNext
    PROVE  SearchedInv'
<1>1. UNCHANGED sysfsVars /\ SearchTypeOK /\ Fresh
  BY TypeParts DEF IdentifyNext, IdentifyInv
<1>2. CASE \E s \in Searches : StartSearch(s)
  BY <1>1, <1>2, StartSearched, Zenon
<1>3. CASE SearchDevice
  BY <1>1, <1>3, DeviceSearched, Zenon
<1>4. CASE SearchInterface
  BY <1>1, <1>4, InterfaceSearched, Zenon
<1>5. CASE EndDevice
  BY <1>1, <1>5, EndDeviceSearched, Zenon
<1>6. CASE EndSearch
  BY <1>1, <1>6, EndSearched, Zenon
<1>9. CASE SearchRaises
  BY <1>1, <1>9, RaisesSearched, Zenon
<1>7. CASE Open \/ WriteCommand \/ PadStreams \/ ReplyTimesOut \/ ReadReply \/ Fail
  <2>1. /\ spc \in {"open", "write", "wait"} /\ spc' \in {spc, "write", "wait", "exit"}
        /\ UNCHANGED searchVars
    BY <1>7 DEF Open, WriteCommand, PadStreams, ReplyTimesOut, ReadReply, Fail
  <2>. QED BY <1>1, <2>1, ExchangeSearched
<1>8. CASE PadAnswers
  <2>2. UNCHANGED <<sysfsVars, spc, searchVars, up>>
    BY <1>1, <1>8 DEF PadAnswers
  <2>. QED BY <2>2, SearchedStays
<1>. QED BY <1>2, <1>3, <1>4, <1>5, <1>6, <1>7, <1>8, <1>9 DEF IdentifyNext

LEMMA SearchedStep == IInv /\ SearchedInv /\ [Next]_vars => SearchedInv'
<1>. SUFFICES ASSUME IInv, SearchedInv, [Next]_vars PROVE SearchedInv'
  OBVIOUS
<1>1. CASE Inventories
  <2>1. UNCHANGED <<sysfsVars, spc, searchVars, up>>
    BY <1>1 DEF Inventories, InventoryNext, identifyVars, exchangeVars
  <2>. QED BY <2>1, SearchedStays
<1>2. CASE SearchesOn
  BY <1>2, IdentifySearched DEF SearchesOn, IInv
<1>3. ASSUME NEW p \in Places, NEW d \in Devices \cup {None}, Moves(p, d) PROVE SearchedInv'
  <2>1. moves' = moves + 1 /\ UNCHANGED <<spc, matches, since>>
    BY <1>3 DEF Moves, Move, searchVars
  <2>2. moves \in Nat /\ since \in 0 .. moves
    BY TypeParts, PlacesAssumption DEF IInv, TreeTypeOK, IdentifyInv, SearchTypeOK
  <2>3. ~Still'
    BY <2>1, <2>2 DEF Still
  <2>. QED BY <2>1, <2>3 DEF SearchedInv
<1>4. CASE UNCHANGED vars
  <2>1. UNCHANGED <<sysfsVars, spc, searchVars, up>>
    BY <1>4 DEF vars, identifyVars, exchangeVars
  <2>. QED BY <2>1, SearchedStays
<1>. QED BY <1>1, <1>2, <1>3, <1>4 DEF Next, Rest

LEMMA SpecSearched == Spec => []SearchedInv
<1>1. Init => SearchedInv
  BY DEF Init, IdentifyInit, SearchedInv
<1>. QED BY <1>1, SearchedStep, InvHolds, PTL DEF Spec

-----------------------------------------------------------------------------

\* The node that identify.py opens in a tree that stays: of a device with the
\* id, one of its interfaces with a vendor page; and of those that its scan
\* takes for the config channel, if there are any.
LEMMA FoundFacts ==
    ASSUME IInv, SearchedInv, spc = "open", Still
    PROVE  /\ Found.place \in Matching
           /\ Found.iface \in DOMAIN tree[Found.place].ifaces
           /\ ScannedPages(Interface(Found.place, Found.iface).data) # {}
           /\ Found.ids = ScannedIds(Interface(Found.place, Found.iface).data)
           /\ \A n \in DOMAIN tree[Found.place].ifaces :
                 ScannedPages(Interface(Found.place, n).data) # {}
                 /\ CONFIG_REPORT_IDS \subseteq ScannedIds(Interface(Found.place, n).data)
                    => CONFIG_REPORT_IDS \subseteq Found.ids
<1>1. TreeTypeOK /\ matches # {}
  BY DEF IInv, IdentifyInv, SearchPlaced
<1>2. Found \in matches
  BY <1>1, Zenon DEF Found
<1>3. Searched(Matching)
  BY DEF SearchedInv
<1>4. PICK p \in Matching : Found \in MatchOf(p)
  BY <1>2, <1>3, Zenon DEF Searched, MatchesOf
<1>5. p \in Places /\ tree[p] # None
  BY DEF Matching
<1>. QED BY <1>1, <1>4, <1>5, MatchFacts, Zenon

\* Any device there is has usual descriptors.
LEMMA UsualInTheTree ==
    ASSUME UsualDescriptors, TreeTypeOK, NEW p \in Places, tree[p] # None, NEW n \in DOMAIN tree[p].ifaces
    PROVE  Interface(p, n).data \in Seq(Byte) /\ UsualItems(Interface(p, n).data)
<1>1. Interface(p, n).data \in Seq(Byte)
  BY DeviceType, Zenon
<1>2. tree[p] \in Devices
  BY DEF TreeTypeOK
<1>. QED BY <1>1, <1>2, Zenon DEF UsualDescriptors, Interface

\* Of the device of the node that identify.py opens, a vendor-page interface whose
\* items declare the channel is one that its scan takes for the channel, so the
\* one chosen is such an interface too.
LEMMA FoundIsPreferred ==
    ASSUME UsualDescriptors, IInv, SearchedInv
    PROVE  ChannelIsPreferred /\ WarnsWithoutChannel
<1>. SUFFICES ASSUME spc = "open", Still
              PROVE  ChannelIsPreferred /\ WarnsWithoutChannel
  BY Zenon DEF ChannelIsPreferred, WarnsWithoutChannel
<1>. DEFINE p == Found.place
            data(n) == Interface(p, n).data
<1>1. TreeTypeOK /\ p \in Matching /\ Found.ids = ScannedIds(FoundData)
      /\ \A n \in DOMAIN tree[p].ifaces :
            ScannedPages(data(n)) # {} /\ CONFIG_REPORT_IDS \subseteq ScannedIds(data(n))
               => CONFIG_REPORT_IDS \subseteq Found.ids
  BY FoundFacts, Zenon DEF IInv, FoundData
<1>2. p \in Places /\ tree[p] # None /\ tree[p].pid = pid /\ Wanted(search.path, p)
  BY <1>1, Zenon DEF Matching
<1>3. \A n \in DOMAIN tree[p].ifaces : data(n) \in Seq(Byte) /\ UsualItems(data(n))
  BY <1>1, <1>2, UsualInTheTree, Zenon
<1>4. HasChannel(p) => ~Warned
  <2>1. ASSUME NEW n \in DOMAIN tree[p].ifaces, DeclaresVendorPage(data(n)), DeclaresChannel(data(n))
        PROVE  CONFIG_REPORT_IDS \subseteq Found.ids
    BY <1>1, <1>3, <2>1, ScanFindsTheItems, Zenon
  <2>. QED BY <2>1, Zenon DEF HasChannel, Warned
<1>5. ~Warned => DeclaresChannel(FoundData) \/ ChannelByChance(FoundData)
  BY <1>1, Zenon DEF Warned, ChannelByChance
<1>6. ChannelIsPreferred
  BY <1>2, <1>4, <1>5, Zenon DEF ChannelIsPreferred
<1>7. WarnsWithoutChannel
  BY <1>4, <1>5, Zenon DEF WarnsWithoutChannel
<1>. QED BY <1>6, <1>7

\* While the tree stays, the node that find_vendor_interface (identify.py 181-267)
\* returns is of the device asked for; and if the items of a vendor-page interface
\* declare the config channel, of an interface that declares it or has the bytes
\* of both ids by chance.  Items are of the usual size, bytes are any.
THEOREM ChannelPreferred == UsualDescriptors => (Spec => []ChannelIsPreferred)
<1>. SUFFICES ASSUME UsualDescriptors PROVE Spec => []ChannelIsPreferred
  OBVIOUS
<1>1. IInv /\ SearchedInv => ChannelIsPreferred
  BY FoundIsPreferred
<1>. QED BY <1>1, InvHolds, SpecSearched, PTL

\* And when read_config.py (246-252) warns that there is no config channel, no
\* vendor-page interface of the device declares one; when it does not, the
\* interface returned declares it or has the bytes of both ids by chance.
THEOREM WarnsOfNoChannel == UsualDescriptors => (Spec => []WarnsWithoutChannel)
<1>. SUFFICES ASSUME UsualDescriptors PROVE Spec => []WarnsWithoutChannel
  OBVIOUS
<1>1. IInv /\ SearchedInv => WarnsWithoutChannel
  BY FoundIsPreferred
<1>. QED BY <1>1, InvHolds, SpecSearched, PTL

-----------------------------------------------------------------------------
(* The walk, in a tree that stays. *)

\* Of some interfaces of the device at a place, one that can be read declares a
\* vendor page; and the device as ListsTheTree has it.
CandidateOf(p, N) == \E n \in N : Readable(p, n) /\ DeclaresVendorPage(Interface(p, n).data)
Listing(p) == Dev(p, tree[p].pid, CandidateOf(p, DOMAIN tree[p].ifaces))
Listings(P) == {Listing(p) : p \in {p \in P : tree[p] # None}}

\* An item declares a vendor page.
VendorItem(data, k) == IsUsagePage(data, k) /\ VendorPage(ValueAt(data, k))

\* Within a descriptor: what it declares was found, or is still ahead.
ParsedInv ==
    ipc = "parse" =>
        /\ ItemsFrom(blob)[i] \subseteq Items(blob)
        /\ (\E page \in usage_pages : VendorPage(page)) => DeclaresVendorPage(blob)
        /\ DeclaresVendorPage(blob) => \/ \E page \in usage_pages : VendorPage(page)
                                       \/ \E k \in ItemsFrom(blob)[i] : VendorItem(blob, k)

\* Within a device, and between two: it is a candidate if an interface that was
\* described makes it one, and those before it are listed.
DescribedInv ==
    /\ dev.place \in Places /\ tree[dev.place] # None /\ dev.place \notin ahead
    /\ left \subseteq DOMAIN tree[dev.place].ifaces /\ dev.pid = tree[dev.place].pid
    /\ listed = Listings(Places \ (ahead \cup {dev.place}))
    /\ CandidateOf(dev.place, DOMAIN tree[dev.place].ifaces \ left) <=>
          dev.candidate \/ (ipc = "parse" /\ DeclaresVendorPage(blob))
ListedInv ==
    moves = 0 =>
        /\ ipc = "off" => listed = {}
        /\ ipc = "found" =>
              /\ dev.place \in Places /\ tree[dev.place] # None /\ dev.place \notin ahead
              /\ dev.pid = tree[dev.place].pid /\ dev.candidate = FALSE
              /\ listed = Listings(Places \ (ahead \cup {dev.place}))
        /\ ipc # "raised"
        /\ ipc \in {"device", "parse"} => DescribedInv
        /\ ipc \in {"walk", "done"} => listed = Listings(Places \ ahead)
        /\ ipc = "done" => ahead = {}

WalkedInv == IsFiniteSet(listed) /\ ParsedInv /\ ListedInv

\* How the devices listed add up, and what makes one a candidate.
LEMMA ListingsAdd ==
    ASSUME NEW P, NEW p
    PROVE  /\ tree[p] = None => Listings(P \cup {p}) = Listings(P)
           /\ tree[p] # None => Listings(P \cup {p}) = Listings(P) \cup {Listing(p)}
<1>1. CASE tree[p] = None
  <2>1. {q \in P \cup {p} : tree[q] # None} = {q \in P : tree[q] # None}
    BY <1>1, Zenon
  <2>. QED BY <1>1, <2>1, Zenon DEF Listings
<1>2. CASE tree[p] # None
  <2>1. {q \in P \cup {p} : tree[q] # None} = {q \in P : tree[q] # None} \cup {p}
    BY <1>2, Zenon
  <2>. DEFINE Q == {q \in P : tree[q] # None}
  <2>. HIDE DEF Q
  <2>2. {Listing(q) : q \in Q \cup {p}} = {Listing(q) : q \in Q} \cup {Listing(p)}
    BY Zenon
  <2>. QED BY <1>2, <2>1, <2>2, Zenon DEF Listings, Q
<1>. QED BY <1>1, <1>2, Zenon

LEMMA CandidateAdds ==
    ASSUME NEW p, NEW N, NEW n
    PROVE  CandidateOf(p, N \cup {n}) <=>
              CandidateOf(p, N) \/ (Readable(p, n) /\ DeclaresVendorPage(Interface(p, n).data))
BY Zenon DEF CandidateOf

LEMMA ListingsStay ==
    ASSUME tree' = tree
    PROVE  /\ \A P : Listings(P)' = Listings(P)
           /\ \A p, N : CandidateOf(p, N)' <=> CandidateOf(p, N)
<1>1. \A p, N : CandidateOf(p, N)' <=> CandidateOf(p, N)
  BY Zenon DEF CandidateOf, Readable, HasInterface, Interface
<1>2. \A p : Listing(p)' = Listing(p)
  BY <1>1, Zenon DEF Listing, CandidateOf, Readable, HasInterface, Interface
<1>. QED BY <1>1, <1>2, Zenon DEF Listings

\* A step past an item: a vendor page that it declares is found.
LEMMA ParsedStep ==
    ASSUME InventoryTypeOK, ParsedInv, Parsing, i' = NextAt(blob, i), blob' = blob, ipc' = ipc,
           usage_pages' = IF IsUsagePage(blob, i) THEN usage_pages \cup {ValueAt(blob, i)} ELSE usage_pages
    PROVE  ParsedInv'
<1>. DEFINE here == ItemsFrom(blob)[i]
            next == ItemsFrom(blob)[NextAt(blob, i)]
<1>1. blob \in Seq(Byte) /\ i \in Nat
  BY DEF InventoryTypeOK
<1>2. ~(i >= Len(blob) \/ ~Whole(blob, i))
  BY <1>1 DEF Parsing
<1>3. here = {i} \cup next
  BY <1>1, <1>2, ItemsFromHere, Zenon
<1>4. ItemsFrom(blob')[i'] = next
  BY Zenon
<1>5. /\ here \subseteq Items(blob)
      /\ (\E page \in usage_pages : VendorPage(page)) => DeclaresVendorPage(blob)
      /\ DeclaresVendorPage(blob) => \/ \E page \in usage_pages : VendorPage(page)
                                     \/ \E k \in here : VendorItem(blob, k)
  BY Zenon DEF ParsedInv, Parsing
<1>. HIDE DEF here, next
<1>6. next \subseteq Items(blob) /\ i \in Items(blob)
  BY <1>3, <1>5, Zenon
<1>7. ASSUME NEW page \in usage_pages', VendorPage(page) PROVE DeclaresVendorPage(blob)
  <2>1. page \in usage_pages \/ (IsUsagePage(blob, i) /\ page = ValueAt(blob, i))
    BY Zenon
  <2>2. CASE page \in usage_pages
    BY <1>5, <1>7, <2>2, Zenon
  <2>3. CASE IsUsagePage(blob, i) /\ page = ValueAt(blob, i)
    BY <1>6, <1>7, <2>3, Zenon DEF DeclaresVendorPage
  <2>. QED BY <2>1, <2>2, <2>3, Zenon
<1>8. ASSUME DeclaresVendorPage(blob)
      PROVE  (\E page \in usage_pages' : VendorPage(page)) \/ (\E k \in next : VendorItem(blob, k))
  <2>1. CASE \E page \in usage_pages : VendorPage(page)
    BY <2>1, Zenon
  <2>2. CASE VendorItem(blob, i)
    BY <2>2, Zenon DEF VendorItem
  <2>3. CASE \E k \in next : VendorItem(blob, k)
    BY <2>3, Zenon
  <2>. QED BY <1>3, <1>5, <1>8, <2>1, <2>2, <2>3, Zenon
<1>9. (\E page \in usage_pages : VendorPage(page))' => DeclaresVendorPage(blob)
  BY <1>7, Zenon
<1>10. DeclaresVendorPage(blob) => (\E page \in usage_pages : VendorPage(page))' \/ (\E k \in next : VendorItem(blob, k))
  BY <1>8, Zenon
<1>. QED BY <1>4, <1>6, <1>9, <1>10, Zenon DEF ParsedInv

\* A step within a device leaves what was listed.
LEMMA ListedStays ==
    ASSUME ListedInv, UNCHANGED <<sysfsVars, ahead, dev, left, listed>>, blob' = blob, ipc' = ipc
    PROVE  ListedInv'
<1>1. UNCHANGED <<tree, moves, ahead, dev, left, listed>>
  BY DEF sysfsVars
<1>2. DescribedInv' <=> DescribedInv
  <2>1. /\ CandidateOf(dev.place, DOMAIN tree[dev.place].ifaces \ left)'
           <=> CandidateOf(dev.place, DOMAIN tree[dev.place].ifaces \ left)
        /\ Listings(Places \ (ahead \cup {dev.place}))' = Listings(Places \ (ahead \cup {dev.place}))
    BY <1>1, ListingsStay, Zenon
  <2>. QED BY <1>1, <2>1, Zenon DEF DescribedInv
<1>3. /\ Listings(Places \ ahead)' = Listings(Places \ ahead)
      /\ Listings(Places \ (ahead \cup {dev.place}))' = Listings(Places \ (ahead \cup {dev.place}))
  BY <1>1, ListingsStay, Zenon
<1>. QED BY <1>1, <1>2, <1>3, Zenon DEF ListedInv

LEMMA StartWalked ==
    ASSUME WalkedInv, UNCHANGED sysfsVars, StartInventory
    PROVE  WalkedInv'
<1>1. /\ ipc = "off" /\ ipc' = "walk" /\ ahead' = Places /\ listed' = listed /\ moves' = moves
  BY DEF StartInventory, sysfsVars
<1>2. moves = 0 => listed = {}
  BY <1>1, Zenon DEF WalkedInv, ListedInv
<1>3. Places' \ ahead' = {}
  BY <1>1 DEF Places
<1>4. Listings(Places \ ahead)' = {}
  BY <1>3, Zenon DEF Listings
<1>5. ListedInv'
  BY <1>1, <1>2, <1>4 DEF ListedInv
<1>6. ParsedInv'
  BY <1>1 DEF ParsedInv
<1>. QED BY <1>1, <1>5, <1>6, Zenon DEF WalkedInv

LEMMA VisitWalked ==
    ASSUME InventoryTypeOK, WalkedInv, UNCHANGED sysfsVars, VisitDevice
    PROVE  WalkedInv'
<1>1. PICK p \in Lowest(ahead) :
         /\ ahead' = ahead \ {p}
         /\ IF tree[p] = None
            THEN UNCHANGED <<ipc, dev, left>>
            ELSE ipc' = "found" /\ dev' = Dev(p, tree[p].pid, FALSE) /\ UNCHANGED left
  BY DEF VisitDevice
<1>2. ipc = "walk" /\ UNCHANGED <<blob, i, usage_pages, listed, tree, moves>>
  BY DEF VisitDevice, parseVars, sysfsVars
<1>3. p \in ahead /\ p \in Places
  BY DEF Lowest, InventoryTypeOK
<1>4. moves = 0 => listed = Listings(Places \ ahead)
  BY <1>2, Zenon DEF WalkedInv, ListedInv
<1>5. CASE tree[p] = None
  <2>1. ipc' = "walk"
    BY <1>1, <1>2, <1>5
  <2>2. Places \ ahead' = (Places \ ahead) \cup {p}
    BY <1>1, <1>3
  <2>3. Listings(Places \ ahead') = Listings(Places \ ahead)
    BY <1>5, <2>2, ListingsAdd, Zenon
  <2>4. Listings(Places \ ahead)' = Listings(Places \ ahead')
    BY <1>2, ListingsStay, Zenon DEF Places
  <2>5. ListedInv'
    BY <1>2, <1>4, <2>1, <2>3, <2>4 DEF ListedInv
  <2>6. ParsedInv'
    BY <2>1 DEF ParsedInv
  <2>. QED BY <1>2, <2>5, <2>6, Zenon DEF WalkedInv
<1>6. CASE tree[p] # None
  <2>1. ipc' = "found" /\ dev'.place = p /\ dev'.pid = tree[p].pid /\ dev'.candidate = FALSE
    BY <1>1, <1>6 DEF Dev
  <2>2. Places \ (ahead' \cup {dev'.place}) = Places \ ahead
    BY <1>1, <1>3, <2>1
  <2>3. Listings(Places \ (ahead \cup {dev.place}))' = Listings(Places \ ahead)
    BY <1>2, <2>2, ListingsStay, Zenon DEF Places
  <2>4. /\ dev'.place \in Places' /\ tree'[dev'.place] # None /\ dev'.place \notin ahead'
        /\ dev'.pid = tree'[dev'.place].pid
    BY <1>1, <1>2, <1>3, <1>6, <2>1 DEF Places
  <2>5. ListedInv'
    BY <1>2, <1>4, <2>1, <2>3, <2>4 DEF ListedInv
  <2>6. ParsedInv'
    BY <2>1 DEF ParsedInv
  <2>. QED BY <1>2, <2>5, <2>6, Zenon DEF WalkedInv
<1>. QED BY <1>5, <1>6

LEMMA InterfacesWalked ==
    ASSUME WalkedInv, UNCHANGED sysfsVars, ListInterfaces \/ DeviceGone
    PROVE  WalkedInv'
<1>1. /\ ipc = "found" /\ ipc' \in {"device", "raised"}
      /\ UNCHANGED <<ahead, dev, blob, i, usage_pages, listed, tree, moves>>
  BY DEF ListInterfaces, DeviceGone, parseVars, sysfsVars
<1>2. ASSUME moves = 0 PROVE ipc' = "device" /\ DescribedInv'
  <2>1. /\ dev.place \in Places /\ tree[dev.place] # None /\ dev.place \notin ahead
        /\ dev.pid = tree[dev.place].pid /\ dev.candidate = FALSE
        /\ listed = Listings(Places \ (ahead \cup {dev.place}))
    BY <1>1, <1>2 DEF WalkedInv, ListedInv
  <2>2. ipc' = "device" /\ left' = DOMAIN tree[dev.place].ifaces
    BY <2>1 DEF ListInterfaces, DeviceGone
  <2>3. DOMAIN tree'[dev'.place].ifaces \ left' = {}
    BY <1>1, <2>2
  <2>4. ~CandidateOf(dev.place, DOMAIN tree[dev.place].ifaces \ left)'
    BY <2>3, Zenon DEF CandidateOf
  <2>5. Listings(Places \ (ahead \cup {dev.place}))' = Listings(Places \ (ahead \cup {dev.place}))
    BY <1>1, ListingsStay, Zenon DEF Places
  <2>6. left' \subseteq DOMAIN tree'[dev'.place].ifaces /\ ~dev'.candidate /\ ipc' # "parse"
    BY <1>1, <2>1, <2>2
  <2>. QED BY <1>1, <2>1, <2>2, <2>4, <2>5, <2>6, Zenon DEF DescribedInv, Places
<1>3. ListedInv'
  BY <1>1, <1>2 DEF ListedInv
<1>4. ParsedInv'
  BY <1>1 DEF ParsedInv
<1>. QED BY <1>1, <1>3, <1>4, Zenon DEF WalkedInv

LEMMA DescribeWalked ==
    ASSUME InventoryTypeOK, WalkedInv, UNCHANGED sysfsVars, DescribeInterface
    PROVE  WalkedInv'
<1>. DEFINE p == dev.place
            data(n) == Interface(p, n).data
            done == DOMAIN tree[p].ifaces \ left
<1>1. PICK n \in Lowest(left) :
         /\ left' = left \ {n}
         /\ IF Readable(p, n) THEN ipc' = "parse" /\ ParserAt0(data(n)) ELSE UNCHANGED <<ipc, parseVars>>
  BY DEF DescribeInterface
<1>2. ipc = "device" /\ UNCHANGED <<ahead, dev, listed, tree, moves>>
  BY DEF DescribeInterface, sysfsVars
<1>3. n \in left
  BY DEF Lowest
<1>4. Readable(p, n) => ipc' = "parse" /\ blob' = data(n) /\ i' = 0 /\ usage_pages' = {}
  BY <1>1, Zenon DEF ParserAt0
<1>5. ~Readable(p, n) => ipc' = "device"
  BY <1>1, <1>2, Zenon
<1>6. ParsedInv'
  <2>1. CASE Readable(p, n)
    <3>1. ItemsFrom(blob')[i'] = Items(blob')
      BY <1>4, <2>1, Zenon DEF Items
    <3>2. DeclaresVendorPage(blob') => \E k \in ItemsFrom(blob')[i'] : VendorItem(blob', k)
      BY <3>1, Zenon DEF DeclaresVendorPage, VendorItem
    <3>3. ~(\E page \in usage_pages' : VendorPage(page))
      BY <1>4, <2>1
    <3>. QED BY <3>1, <3>2, <3>3, Zenon DEF ParsedInv
  <2>2. CASE ~Readable(p, n)
    BY <1>5, <2>2 DEF ParsedInv
  <2>. QED BY <2>1, <2>2
<1>7. ASSUME moves = 0 PROVE DescribedInv'
  <2>1. /\ p \in Places /\ tree[p] # None /\ p \notin ahead
        /\ left \subseteq DOMAIN tree[p].ifaces /\ dev.pid = tree[p].pid
        /\ listed = Listings(Places \ (ahead \cup {p}))
        /\ CandidateOf(p, done) <=> dev.candidate
    BY <1>2, <1>7 DEF WalkedInv, ListedInv, DescribedInv
  <2>2. DOMAIN tree[p].ifaces \ left' = done \cup {n}
    BY <1>1, <1>3, <2>1
  <2>. HIDE DEF done, p
  <2>3. CandidateOf(p, done \cup {n}) <=> dev.candidate \/ (Readable(p, n) /\ DeclaresVendorPage(data(n)))
    BY <2>1, CandidateAdds, Zenon
  <2>4. (Readable(p, n) /\ DeclaresVendorPage(data(n))) <=> (ipc' = "parse" /\ DeclaresVendorPage(blob'))
    <3>. HIDE DEF data
    <3>1. CASE Readable(p, n)
      BY <1>4, <3>1, Zenon
    <3>2. CASE ~Readable(p, n)
      BY <1>5, <3>2
    <3>. QED BY <3>1, <3>2
  <2>5. CandidateOf(p, DOMAIN tree[p].ifaces \ left')
           <=> dev.candidate \/ (ipc' = "parse" /\ DeclaresVendorPage(blob'))
    BY <2>2, <2>3, <2>4, Zenon
  <2>6. /\ CandidateOf(dev.place, DOMAIN tree[dev.place].ifaces \ left)'
              <=> CandidateOf(p, DOMAIN tree[p].ifaces \ left')
        /\ Listings(Places \ (ahead \cup {dev.place}))' = Listings(Places \ (ahead \cup {p}))
    BY <1>2, ListingsStay, Zenon DEF p, Places
  <2>7. left' \subseteq DOMAIN tree[p].ifaces
    BY <1>1, <2>1
  <2>. QED BY <1>2, <2>1, <2>5, <2>6, <2>7, Zenon DEF DescribedInv, p, Places
<1>8. ipc' \in {"device", "parse"}
  BY <1>4, <1>5
<1>9. ListedInv'
  BY <1>2, <1>7, <1>8 DEF ListedInv
<1>. QED BY <1>2, <1>6, <1>9, Zenon DEF WalkedInv

LEMMA ItemWalked ==
    ASSUME InventoryTypeOK, WalkedInv, UNCHANGED sysfsVars, SkipLongItem \/ ParseItem
    PROVE  WalkedInv'
<1>1. /\ Parsing /\ i' = NextAt(blob, i) /\ UNCHANGED <<ipc, ahead, dev, left, listed, blob>>
      /\ usage_pages' = IF IsUsagePage(blob, i) THEN usage_pages \cup {ValueAt(blob, i)} ELSE usage_pages
  <2>1. CASE SkipLongItem
    BY <2>1 DEF SkipLongItem, IsUsagePage, Is
  <2>2. CASE ParseItem
    BY <2>2, Zenon DEF ParseItem
  <2>. QED BY <2>1, <2>2
<1>2. ParsedInv'
  BY <1>1, ParsedStep DEF WalkedInv
<1>3. ListedInv'
  BY <1>1, ListedStays DEF WalkedInv
<1>. QED BY <1>1, <1>2, <1>3, Zenon DEF WalkedInv

LEMMA EndDescriptorWalked ==
    ASSUME InventoryTypeOK, WalkedInv, UNCHANGED sysfsVars, EndDescriptor
    PROVE  WalkedInv'
<1>. DEFINE p == dev.place
            found == \E page \in usage_pages : VendorPage(page)
<1>1. /\ ipc = "parse" /\ ~Parsing /\ ipc' = "device"
      /\ dev' = [dev EXCEPT !.candidate = @ \/ found]
      /\ UNCHANGED <<ahead, left, listed, blob, i, usage_pages, tree, moves>>
  BY DEF EndDescriptor, parseVars, sysfsVars
<1>2. blob \in Seq(Byte) /\ i \in Nat /\ dev \in [place : Places \cup {0}, pid : Pids, candidate : BOOLEAN]
  BY DEF InventoryTypeOK
<1>3. ItemsFrom(blob)[i] = {}
  <2>1. i >= Len(blob) \/ ~Whole(blob, i)
    BY <1>1, <1>2 DEF Parsing
  <2>. QED BY <1>2, <2>1, ItemsFromHere, Zenon
<1>4. found <=> DeclaresVendorPage(blob)
  BY <1>1, <1>3, Zenon DEF WalkedInv, ParsedInv
<1>5. dev'.place = p /\ dev'.pid = dev.pid
  BY <1>1, <1>2
<1>6. dev'.candidate <=> dev.candidate \/ found
  <2>. HIDE DEF found
  <2>. QED BY <1>1, <1>2, Zenon
<1>. HIDE DEF found
<1>7. ParsedInv'
  BY <1>1 DEF ParsedInv
<1>8. ASSUME moves = 0 PROVE DescribedInv'
  <2>1. /\ p \in Places /\ tree[p] # None /\ p \notin ahead
        /\ left \subseteq DOMAIN tree[p].ifaces /\ dev.pid = tree[p].pid
        /\ listed = Listings(Places \ (ahead \cup {p}))
        /\ CandidateOf(p, DOMAIN tree[p].ifaces \ left) <=> dev.candidate \/ DeclaresVendorPage(blob)
    BY <1>1, <1>8 DEF WalkedInv, ListedInv, DescribedInv
  <2>2. /\ CandidateOf(dev.place, DOMAIN tree[dev.place].ifaces \ left)'
              <=> CandidateOf(p, DOMAIN tree[p].ifaces \ left)
        /\ Listings(Places \ (ahead \cup {dev.place}))' = Listings(Places \ (ahead \cup {p}))
    BY <1>1, <1>5, ListingsStay, Zenon DEF Places
  <2>3. ipc' # "parse"
    BY <1>1
  <2>. HIDE DEF p
  <2>. QED BY <1>1, <1>4, <1>5, <1>6, <2>1, <2>2, <2>3, Zenon DEF DescribedInv, Places
<1>9. ListedInv'
  BY <1>1, <1>8 DEF ListedInv
<1>. QED BY <1>1, <1>7, <1>9, Zenon DEF WalkedInv

LEMMA ListWalked ==
    ASSUME InventoryTypeOK, WalkedInv, UNCHANGED sysfsVars, ListDevice
    PROVE  WalkedInv'
<1>. DEFINE p == dev.place
<1>1. /\ ipc = "device" /\ left = {} /\ ipc' = "walk" /\ listed' = listed \cup {dev}
      /\ UNCHANGED <<ahead, dev, left, tree, moves>>
  BY DEF ListDevice, sysfsVars
<1>2. ASSUME moves = 0 PROVE listed' = Listings(Places \ ahead)'
  <2>1. /\ p \in Places /\ tree[p] # None /\ p \notin ahead /\ dev.pid = tree[p].pid
        /\ listed = Listings(Places \ (ahead \cup {p}))
        /\ CandidateOf(p, DOMAIN tree[p].ifaces \ left) <=> dev.candidate
    <3>1. DescribedInv /\ ipc # "parse"
      BY <1>1, <1>2 DEF WalkedInv, ListedInv
    <3>. QED BY <3>1, Zenon DEF DescribedInv
  <2>2. CandidateOf(p, DOMAIN tree[p].ifaces) <=> dev.candidate
    <3>1. DOMAIN tree[p].ifaces \ left = DOMAIN tree[p].ifaces
      BY <1>1
    <3>. QED BY <2>1, <3>1, Zenon
  <2>3. dev = Listing(p)
    <3>1. dev = [place |-> p, pid |-> dev.pid, candidate |-> dev.candidate] /\ dev.candidate \in BOOLEAN
      BY DEF InventoryTypeOK
    <3>2. dev.candidate = CandidateOf(p, DOMAIN tree[p].ifaces)
      BY <2>2, <3>1, Zenon DEF CandidateOf
    <3>. HIDE DEF p
    <3>. QED BY <2>1, <3>1, <3>2, Zenon DEF Listing, Dev
  <2>4. (Places \ (ahead \cup {p})) \cup {p} = Places \ ahead
    BY <2>1
  <2>5. Listings(Places \ ahead) = listed \cup {dev}
    <3>. DEFINE P == Places \ (ahead \cup {p})
    <3>1. tree[p] # None => Listings(P \cup {p}) = Listings(P) \cup {Listing(p)}
      BY ListingsAdd, Zenon
    <3>2. listed = Listings(P) /\ P \cup {p} = Places \ ahead
      BY <2>1, <2>4, Zenon
    <3>. HIDE DEF P, p
    <3>. QED BY <2>1, <2>3, <3>1, <3>2, Zenon
  <2>6. Listings(Places \ ahead)' = Listings(Places \ ahead)
    BY <1>1, ListingsStay, Zenon DEF Places
  <2>. QED BY <1>1, <2>5, <2>6, Zenon
<1>3. ListedInv'
  BY <1>1, <1>2 DEF ListedInv
<1>4. ParsedInv'
  BY <1>1 DEF ParsedInv
<1>5. IsFiniteSet(listed')
  BY <1>1, FS_AddElement, Zenon DEF WalkedInv
<1>. QED BY <1>3, <1>4, <1>5, Zenon DEF WalkedInv

LEMMA EndWalked ==
    ASSUME WalkedInv, UNCHANGED sysfsVars, EndInventory
    PROVE  WalkedInv'
<1>1. /\ ipc = "walk" /\ ahead = {} /\ ipc' = "done" /\ UNCHANGED <<ahead, listed, tree, moves>>
  BY DEF EndInventory, sysfsVars
<1>2. moves = 0 => listed = Listings(Places \ ahead)
  BY <1>1, Zenon DEF WalkedInv, ListedInv
<1>3. Listings(Places \ ahead)' = Listings(Places \ ahead)
  BY <1>1, ListingsStay, Zenon DEF Places
<1>4. ListedInv'
  BY <1>1, <1>2, <1>3 DEF ListedInv
<1>5. ParsedInv'
  BY <1>1 DEF ParsedInv
<1>. QED BY <1>1, <1>4, <1>5, Zenon DEF WalkedInv

LEMMA InventoryWalked ==
    ASSUME InventoryTypeOK, WalkedInv, InventoryNext PROVE WalkedInv'
BY StartWalked, VisitWalked, InterfacesWalked, DescribeWalked, ItemWalked, EndDescriptorWalked, ListWalked, EndWalked, Zenon
   DEF InventoryNext

LEMMA WalkedStays ==
    ASSUME WalkedInv, UNCHANGED <<sysfsVars, inventoryVars>> PROVE WalkedInv'
<1>1. UNCHANGED <<ipc, ahead, dev, left, blob, i, usage_pages, listed>>
  BY DEF inventoryVars, parseVars
<1>2. ParsedInv'
  BY <1>1, Zenon DEF WalkedInv, ParsedInv
<1>3. ListedInv'
  BY <1>1, ListedStays DEF WalkedInv
<1>. QED BY <1>1, <1>2, <1>3, Zenon DEF WalkedInv

LEMMA WalkedStep == IInv /\ WalkedInv /\ [Next]_vars => WalkedInv'
<1>. SUFFICES ASSUME IInv, WalkedInv, [Next]_vars PROVE WalkedInv'
  OBVIOUS
<1>1. CASE Inventories
  BY <1>1, InventoryWalked DEF Inventories, IInv, InventoryInv
<1>2. CASE SearchesOn
  BY <1>2, WalkedStays DEF SearchesOn, IdentifyNext
<1>3. ASSUME NEW p \in Places, NEW d \in Devices \cup {None}, Moves(p, d) PROVE WalkedInv'
  <2>1. moves' = moves + 1 /\ UNCHANGED <<ipc, blob, i, usage_pages, listed>>
    BY <1>3 DEF Moves, Move, inventoryVars, parseVars
  <2>2. ParsedInv'
    BY <2>1, Zenon DEF WalkedInv, ParsedInv
  <2>3. moves' # 0
    BY <2>1, PlacesAssumption DEF IInv, TreeTypeOK
  <2>. QED BY <2>1, <2>2, <2>3, Zenon DEF WalkedInv, ListedInv
<1>4. CASE UNCHANGED vars
  BY <1>4, WalkedStays DEF vars
<1>. QED BY <1>1, <1>2, <1>3, <1>4 DEF Next, Rest

LEMMA SpecWalked == Spec => []WalkedInv
<1>1. Init => WalkedInv
  <2>. SUFFICES ASSUME Init PROVE WalkedInv
    OBVIOUS
  <2>1. ipc = "off" /\ listed = {}
    BY DEF Init, InventoryInit
  <2>2. IsFiniteSet(listed)
    BY <2>1, FS_EmptySet
  <2>. QED BY <2>1, <2>2 DEF WalkedInv, ParsedInv, ListedInv
<1>. QED BY <1>1, WalkedStep, InvHolds, PTL DEF Spec

-----------------------------------------------------------------------------

\* What inventory.py (75-124, 254-277) lists of a tree that stays: each device,
\* a candidate if and only if the items of a descriptor that can be read declare
\* a vendor page, whatever the descriptors.
THEOREM TreeIsListed == Spec => []ListsTheTree
<1>1. IInv /\ WalkedInv => ListsTheTree
  <2>. SUFFICES ASSUME WalkedInv, ipc = "done", moves = 0 PROVE listed = Listings(Places)
    BY Zenon DEF ListsTheTree, Listings, Listing, CandidateOf
  <2>1. listed = Listings(Places \ ahead) /\ ahead = {}
    BY DEF WalkedInv, ListedInv
  <2>2. Places \ ahead = Places
    BY <2>1
  <2>. QED BY <2>1, <2>2, Zenon
<1>. QED BY <1>1, InvHolds, SpecWalked, PTL

LEMMA NoPagesInNothing == ScannedPages(<<>>) = {}
BY DEF ScannedPages

\* What it takes for a device to be listed as a candidate, and to be a match.
LEMMA VendorIsScanned ==
    ASSUME UsualDescriptors, TreeTypeOK, NEW p \in Places, tree[p] # None,
           CandidateOf(p, DOMAIN tree[p].ifaces)
    PROVE  MatchOf(p) # {}
<1>1. PICK n \in DOMAIN tree[p].ifaces : DeclaresVendorPage(Interface(p, n).data)
  BY Zenon DEF CandidateOf
<1>2. Interface(p, n).data \in Seq(Byte) /\ UsualItems(Interface(p, n).data)
  BY UsualInTheTree, Zenon
<1>3. ScannedPages(Interface(p, n).data) # {}
  BY <1>1, <1>2, ScanFindsTheItems, Zenon
<1>. QED BY <1>3, MatchFacts, Zenon

LEMMA MatchIsListed ==
    ASSUME UsualDescriptors, NoPageByChance, TreeTypeOK,
           NEW p \in Places, tree[p] # None, MatchOf(p) # {}, ~NodeMissing(p)
    PROVE  CandidateOf(p, DOMAIN tree[p].ifaces)
<1>. DEFINE data(n) == Interface(p, n).data
<1>1. \E n \in DOMAIN tree[p].ifaces : ScannedPages(data(n)) # {}
  BY MatchFacts, Zenon
<1>2. tree[p] \in Devices
  BY DEF TreeTypeOK
<1>3. PICK n \in DOMAIN tree[p].ifaces : DeclaresVendorPage(data(n))
  BY <1>1, <1>2, Zenon DEF NoPageByChance, Interface
<1>4. data(n) \in Seq(Byte) /\ UsualItems(data(n))
  BY UsualInTheTree, Zenon
<1>5. ScannedPages(data(n)) # {}
  BY <1>3, <1>4, ScanFindsTheItems, Zenon
<1>6. Interface(p, n).node
  BY <1>5, Zenon DEF NodeMissing, Interface
<1>7. data(n) # <<>>
  BY <1>5, NoPagesInNothing, Zenon
<1>8. Readable(p, n)
  BY <1>6, <1>7, Zenon DEF Readable, HasInterface
<1>. QED BY <1>3, <1>8, Zenon DEF CandidateOf

LEMMA ListedFound ==
    ASSUME UsualDescriptors, NoPageByChance, IInv, SearchedInv, WalkedInv
    PROVE  ListedIsFound
<1>. DEFINE here == {l \in listed : l.candidate /\ l.pid = pid /\ Wanted(search.path, l.place)}
<1>. SUFFICES ASSUME ipc = "done", moves = 0, spc \in {"open", "write", "wait", "exit"},
                     Cardinality(here) = 1, PidsToChoose(search) = {pid}
              PROVE  IF \E p \in Matching : NodeMissing(p)
                     THEN spc = "exit" /\ ~up
                     ELSE \E l \in here : \E m \in matches : m.place = l.place /\ matches = {m}
  BY Zenon DEF ListedIsFound
<1>1. TreeTypeOK /\ Still
  BY TypeParts DEF IInv, IdentifyInv, SearchTypeOK, Still
<1>12. Cardinality(PidsToChoose(search)) = 1
  BY FS_Singleton
<1>13. ASSUME \E p \in Matching : NodeMissing(p) PROVE spc = "exit" /\ ~up
  <2>1. ~Searched(Matching)
    BY <1>13, Zenon DEF Searched
  <2>. QED BY <1>1, <1>12, <2>1, Zenon DEF SearchedInv
<1>. SUFFICES ASSUME ~(\E p \in Matching : NodeMissing(p))
              PROVE  \E l \in here : \E m \in matches : m.place = l.place /\ matches = {m}
  BY <1>13, Zenon
<1>2. IsFiniteSet(listed) /\ listed = Listings(Places)
  <2>1. listed = Listings(Places \ ahead) /\ ahead = {}
    BY DEF WalkedInv, ListedInv
  <2>2. Places \ ahead = Places
    BY <2>1
  <2>. QED BY <2>1, <2>2, Zenon DEF WalkedInv
<1>3. \A q \in Places : tree[q] # None =>
         /\ Listing(q) \in listed /\ Listing(q).place = q /\ Listing(q).pid = tree[q].pid
         /\ Listing(q).candidate = CandidateOf(q, DOMAIN tree[q].ifaces)
  <2>1. \A q \in Places : tree[q] # None => Listing(q) \in listed
    BY <1>2, Zenon DEF Listings
  <2>2. \A q : /\ Listing(q).place = q /\ Listing(q).pid = tree[q].pid
               /\ Listing(q).candidate = CandidateOf(q, DOMAIN tree[q].ifaces)
    BY Zenon DEF Listing, Dev
  <2>. QED BY <2>1, <2>2, Zenon
<1>4. PICK l : here = {l}
  <2>1. IsFiniteSet(here)
    BY <1>2, FS_Subset, Zenon
  <2>. QED BY <2>1, FS_Singleton, Zenon
<1>5. PICK p \in Places : tree[p] # None /\ l = Listing(p)
  <2>1. l \in listed
    BY <1>4
  <2>. QED BY <1>2, <2>1, Zenon DEF Listings
<1>6. l.place = p /\ p \in Matching /\ CandidateOf(p, DOMAIN tree[p].ifaces)
  <2>1. l.candidate /\ l.pid = pid /\ Wanted(search.path, l.place)
    BY <1>4
  <2>. QED BY <1>3, <1>5, <2>1, Zenon DEF Matching
<1>7. matches = MatchesOf(Matching)
  <2>2. Searched(Matching)
    BY <1>1, <1>12 DEF SearchedInv
  <2>. QED BY <2>2, Zenon DEF Searched
<1>8. PICK m \in MatchOf(p) : TRUE
  BY <1>1, <1>5, <1>6, VendorIsScanned, Zenon
<1>9. m \in matches /\ m.place = p
  <2>1. m.place = p
    BY <1>1, <1>5, <1>8, MatchFacts, Zenon
  <2>2. m \in matches
    BY <1>6, <1>7, <1>8, Zenon DEF MatchesOf
  <2>. QED BY <2>1, <2>2
<1>10. ASSUME NEW o \in matches PROVE o = m
  <2>1. PICK q \in Matching : o \in MatchOf(q)
    BY <1>7, Zenon DEF MatchesOf
  <2>2. q \in Places /\ tree[q] # None /\ tree[q].pid = pid /\ Wanted(search.path, q)
    BY Zenon DEF Matching
  <2>3. CandidateOf(q, DOMAIN tree[q].ifaces)
    BY <1>1, <2>1, <2>2, MatchIsListed, Zenon
  <2>4. Listing(q) \in here
    BY <1>3, <2>2, <2>3, Zenon
  <2>5. q = p
    BY <1>3, <1>4, <1>5, <2>2, <2>4
  <2>. QED BY <1>1, <1>5, <1>8, <2>1, <2>5, MatchFacts, Zenon
<1>11. matches = {m} /\ l \in here
  <2>1. \A o \in matches : o = m
    BY <1>10
  <2>. QED BY <1>4, <1>9, <2>1
<1>. QED BY <1>6, <1>9, <1>11, Zenon

\* The one device of an id that inventory.py (293-296) lists as a config channel
\* candidate is the one that find_vendor_interface (identify.py 181-267) finds,
\* in a tree that stays; or it ends the program with no node opened, just when
\* some vendor-page interface with that id has no node (214-216).  Items are of
\* the usual size, and no device scans as having a vendor page by chance alone.
THEOREM ListedFoundAgain == UsualDescriptors /\ NoPageByChance => (Spec => []ListedIsFound)
<1>. SUFFICES ASSUME UsualDescriptors, NoPageByChance PROVE Spec => []ListedIsFound
  OBVIOUS
<1>1. IInv /\ SearchedInv /\ WalkedInv => ListedIsFound
  BY ListedFound
<1>. QED BY <1>1, InvHolds, SpecSearched, SpecWalked, PTL

=============================================================================
