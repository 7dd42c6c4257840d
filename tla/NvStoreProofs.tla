--------------------------- MODULE NvStoreProofs ---------------------------
(***************************************************************************)
(* Theorems about NvStore: what flush writes reads back, and the handles,  *)
(* the file and the running call fit together in every state.              *)
(***************************************************************************)
EXTENDS NvStoreInv, BaseProofs

-----------------------------------------------------------------------------
(***************************************************************************)
(* Loops that keep some elements of a list.                                *)
(***************************************************************************)

\* Kept is what the loop has built at its end.
LEMMA KeptUnfolds ==
    ASSUME NEW T, NEW s \in Seq(T), NEW indexes
    PROVE  \E out : KeptSoFar(s, indexes, T, out) /\ Kept(s, indexes) = out[Len(s)]
<1> DEFINE n == Len(s)
           body(f) == [k \in 0 .. n |->
              IF k = 0 THEN <<>> ELSE IF k \in indexes THEN Append(f[k - 1], s[k]) ELSE f[k - 1]]
           out == CHOOSE f : f = body(f)
           step == [k \in 1 .. n |-> [x \in Seq(T) |-> IF k \in indexes THEN Append(x, s[k]) ELSE x]]
<1>1. n \in Nat /\ \A k \in 1 .. n : s[k] \in T
  BY SeqDomain, SeqElement
<1>2. Kept(s, indexes) = out[n]
  BY DEF Kept
<1> HIDE DEF n
<1>3. <<>> \in Seq(T) /\ step \in [1 .. n -> [Seq(T) -> Seq(T)]]
  BY <1>1, SeqAppend
<1>4. \A k \in 1 .. n : \A x \in Seq(T) :
        step[k][x] = IF k \in indexes THEN Append(x, s[k]) ELSE x
  OBVIOUS
<1> HIDE DEF step
<1>5. PICK f : Recursion(f, n, Seq(T), <<>>, step)
  BY <1>1, <1>3, RecursionExists, Zenon
<1>6. f = body(f)
  <2>1. \A k \in 1 .. n : f[k - 1] \in Seq(T)
    BY <1>1, <1>5 DEF Recursion
  <2>2. \A k \in 1 .. n : f[k] = IF k \in indexes THEN Append(f[k - 1], s[k]) ELSE f[k - 1]
    BY <1>4, <1>5, <2>1 DEF Recursion
  <2>3. f = [k \in 0 .. n |-> f[k]]
    BY <1>5 DEF Recursion
  <2>4. \A k \in 0 .. n :
          f[k] = IF k = 0 THEN <<>> ELSE IF k \in indexes THEN Append(f[k - 1], s[k]) ELSE f[k - 1]
    <3> TAKE k \in 0 .. n
    <3>1. CASE k = 0
      BY <1>5, <3>1 DEF Recursion
    <3>2. CASE k \in 1 .. n
      <4>1. k # 0
        BY <3>2
      <4> QED
        BY <2>2, <3>2, <4>1, Zenon
    <3> QED
      BY <1>1, <3>1, <3>2
  <2> QED
    BY <2>3, <2>4, Zenon
<1>7. out = body(out)
  <2> HIDE DEF body
  <2> QED
    BY <1>6
<1> HIDE DEF out
<1> DEFINE B == body(out)
<1>8. /\ B = [k \in 0 .. n |-> B[k]]
      /\ B[0] = <<>>
      /\ \A k \in 1 .. n : B[k] = IF k \in indexes THEN Append(out[k - 1], s[k]) ELSE out[k - 1]
  BY <1>1
<1>9. out = B
  BY <1>7, Zenon
<1> HIDE DEF B
<1>10. \A k \in 1 .. n : out[k] = IF k \in indexes THEN Append(out[k - 1], s[k]) ELSE out[k - 1]
  BY <1>8, <1>9, Zenon
<1>11. 0 .. n \subseteq {k \in Nat : out[k] \in Seq(T)}
  <2> DEFINE S == {k \in Nat : out[k] \in Seq(T)}
  <2>1. 0 \in S
    BY <1>3, <1>8, <1>9, Zenon
  <2>2. ASSUME NEW k \in 1 .. n, k - 1 \in S PROVE k \in S
    <3>1. out[k - 1] \in Seq(T) /\ s[k] \in T
      BY <1>1, <2>2
    <3>2. Append(out[k - 1], s[k]) \in Seq(T)
      BY <3>1, SeqAppend
    <3>3. out[k] \in Seq(T)
      BY <1>10, <3>1, <3>2, Zenon
    <3> QED
      BY <1>1, <3>3
  <2> HIDE DEF S
  <2>3. 0 .. n \subseteq S
    BY <1>1, <2>1, <2>2, RangeInduction, Zenon
  <2> QED
    BY <2>3 DEF S
<1>12. out \in [0 .. n -> Seq(T)]
  BY <1>8, <1>9, <1>11
<1> QED
  BY <1>2, <1>8, <1>9, <1>10, <1>12, Zenon DEF KeptSoFar, n

\* A loop that keeps every element copies the list.
LEMMA KeptAll ==
    ASSUME NEW T, NEW s \in Seq(T), NEW indexes, DOMAIN s \subseteq indexes
    PROVE  Kept(s, indexes) = s
<1>1. PICK out : KeptSoFar(s, indexes, T, out) /\ Kept(s, indexes) = out[Len(s)]
  BY KeptUnfolds
<1>2. Len(s) \in Nat /\ DOMAIN s = 1 .. Len(s)
  BY SeqDomain
<1> DEFINE S == {k \in Nat : out[k] \in Seq(T) /\ Len(out[k]) = k /\ \A j \in 1 .. k : out[k][j] = s[j]}
<1>3. 0 \in S
  BY <1>1 DEF KeptSoFar
<1>4. ASSUME NEW k \in 1 .. Len(s), k - 1 \in S PROVE k \in S
  <2>1. /\ out[k - 1] \in Seq(T) /\ Len(out[k - 1]) = k - 1
        /\ \A j \in 1 .. k - 1 : out[k - 1][j] = s[j]
    BY <1>4
  <2>2. out[k] = Append(out[k - 1], s[k]) /\ s[k] \in T
    BY <1>1, <1>2, SeqElement, Zenon DEF KeptSoFar
  <2>3. /\ out[k] \in Seq(T) /\ Len(out[k]) = k /\ out[k][k] = s[k]
        /\ \A j \in 1 .. k - 1 : out[k][j] = out[k - 1][j]
    BY <2>1, <2>2, SeqAppend
  <2> QED
    BY <2>1, <2>3
<1> HIDE DEF S
<1>5. 0 .. Len(s) \subseteq S
  BY <1>2, <1>3, <1>4, RangeInduction, Zenon
<1>6. out[Len(s)] \in Seq(T) /\ Len(out[Len(s)]) = Len(s) /\ \A j \in 1 .. Len(s) : out[Len(s)][j] = s[j]
  BY <1>2, <1>5 DEF S
<1> QED
  BY <1>1, <1>6, SeqSame

\* The loop keeps the elements asked for, in their order, and no other.
LEMMA KeptPlaces ==
    ASSUME NEW T, NEW s \in Seq(T), NEW indexes
    PROVE  /\ Kept(s, indexes) \in Seq(T)
           /\ \E at : Places(s, indexes, Len(s), Kept(s, indexes), at)
<1>1. PICK out : KeptSoFar(s, indexes, T, out) /\ Kept(s, indexes) = out[Len(s)]
  BY KeptUnfolds
<1>2. Len(s) \in Nat /\ DOMAIN s = 1 .. Len(s)
  BY SeqDomain
<1> DEFINE S == {k \in Nat : out[k] \in Seq(T) /\ \E at : Places(s, indexes, k, out[k], at)}
<1>3. 0 \in S
  <2>1. out[0] = <<>> /\ out[0] \in Seq(T) /\ Len(out[0]) = 0
    BY <1>1 DEF KeptSoFar
  <2> DEFINE at == [j \in 1 .. 0 |-> 0]
  <2>2. Places(s, indexes, 0, out[0], at)
    BY <2>1 DEF Places
  <2> QED
    BY <2>1, <2>2, Zenon
<1>4. ASSUME NEW k \in 1 .. Len(s), k - 1 \in S PROVE k \in S
  <2>1. PICK at : Places(s, indexes, k - 1, out[k - 1], at)
    BY <1>4
  <2>2. out[k - 1] \in Seq(T) /\ Len(out[k - 1]) \in Nat /\ s[k] \in T /\ k \in Nat
    BY <1>2, <1>4, SeqDomain, SeqElement
  <2>3. CASE k \in indexes
    <3> DEFINE n == Len(out[k - 1])
               to == [j \in 1 .. n + 1 |-> IF j = n + 1 THEN k ELSE at[j]]
    <3>1. out[k] = Append(out[k - 1], s[k])
      BY <1>1, <2>3, Zenon DEF KeptSoFar
    <3>2. /\ out[k] \in Seq(T) /\ Len(out[k]) = n + 1 /\ out[k][n + 1] = s[k]
          /\ \A j \in 1 .. n : out[k][j] = out[k - 1][j]
      BY <2>2, <3>1, SeqAppend
    <3>3. n \in Nat /\ \A j \in 1 .. n : at[j] \in 1 .. k - 1
      BY <2>1, <2>2, Zenon DEF Places
    <3>4. to[n + 1] = k /\ \A j \in 1 .. n : to[j] = at[j]
      BY <3>3
    <3>5. to \in [1 .. n + 1 -> 1 .. k]
      BY <2>2, <3>3
    <3> HIDE DEF to, n
    <3>6. \A j \in 1 .. n : at[j] \in indexes /\ out[k - 1][j] = s[at[j]]
      BY <2>1 DEF Places, n
    <3>7. \A j \in 1 .. n + 1 : to[j] \in indexes /\ out[k][j] = s[to[j]]
      BY <2>3, <3>2, <3>3, <3>4, <3>6
    <3>8. \A i, j \in 1 .. n : i < j => at[i] < at[j]
      BY <2>1 DEF Places, n
    <3>9. ASSUME NEW i \in 1 .. n + 1, NEW j \in 1 .. n + 1, i < j PROVE to[i] < to[j]
      <4>1. i \in 1 .. n /\ to[i] = at[i] /\ at[i] \in 1 .. k - 1
        BY <3>3, <3>4, <3>9
      <4>2. CASE j = n + 1
        BY <2>2, <3>4, <4>1, <4>2
      <4>3. CASE j \in 1 .. n
        BY <3>4, <3>8, <3>9, <4>1, <4>3
      <4> QED
        BY <3>3, <4>2, <4>3
    <3>10. \A l \in 1 .. k - 1 : l \in indexes => \E j \in 1 .. n : at[j] = l
      BY <2>1 DEF Places, n
    <3>11. \A l \in 1 .. k : l \in indexes => \E j \in 1 .. n + 1 : to[j] = l
      BY <2>2, <3>3, <3>4, <3>10
    <3>12. Places(s, indexes, k, out[k], to)
      BY <3>2, <3>5, <3>7, <3>9, <3>11 DEF Places
    <3> QED
      BY <2>2, <3>2, <3>12
  <2>4. CASE k \notin indexes
    <3>1. out[k] = out[k - 1]
      BY <1>1, <2>4 DEF KeptSoFar
    <3>2. Places(s, indexes, k, out[k], at)
      BY <2>1, <2>2, <2>4, <3>1 DEF Places
    <3> QED
      BY <2>2, <3>1, <3>2
  <2> QED
    BY <2>3, <2>4
<1> HIDE DEF S
<1>5. 0 .. Len(s) \subseteq S
  BY <1>2, <1>3, <1>4, RangeInduction, Zenon
<1> QED
  BY <1>1, <1>2, <1>5 DEF S

-----------------------------------------------------------------------------
(***************************************************************************)
(* Where the records of a written list lie.                                *)
(***************************************************************************)

\* PayloadLen adds up the lengths of the records.
LEMMA PayloadLenUnfolds ==
    ASSUME NEW vs \in Seq(Variable), NEW a \in BOOLEAN
    PROVE  \E sum : Sums(vs, a, sum) /\ PayloadLen(vs, a) = sum[Len(vs)]
<1> DEFINE n == Len(vs)
           body(f) == [k \in 0 .. n |-> IF k = 0 THEN 0 ELSE f[k - 1] + EncodedLen(vs[k], a)]
           sum == CHOOSE f : f = body(f)
           step == [k \in 1 .. n |-> [x \in Nat |-> x + EncodedLen(vs[k], a)]]
<1>1. n \in Nat /\ \A k \in 1 .. n : EncodedLen(vs[k], a) \in Nat
  BY SeqDomain, SeqElement, EncodedLenBound
<1>2. PayloadLen(vs, a) = sum[n]
  BY DEF PayloadLen
<1> HIDE DEF n
<1>3. 0 \in Nat /\ step \in [1 .. n -> [Nat -> Nat]]
  BY <1>1
<1>4. \A k \in 1 .. n : \A x \in Nat : step[k][x] = x + EncodedLen(vs[k], a)
  OBVIOUS
<1> HIDE DEF step
<1>5. PICK f : Recursion(f, n, Nat, 0, step)
  BY <1>1, <1>3, RecursionExists, Zenon
<1>6. f = body(f)
  <2>1. \A k \in 1 .. n : f[k - 1] \in Nat
    BY <1>1, <1>5 DEF Recursion
  <2>2. \A k \in 1 .. n : f[k] = f[k - 1] + EncodedLen(vs[k], a)
    BY <1>4, <1>5, <2>1 DEF Recursion
  <2>3. f = [k \in 0 .. n |-> f[k]] /\ f[0] = 0
    BY <1>5 DEF Recursion
  <2>4. \A k \in 0 .. n : f[k] = IF k = 0 THEN 0 ELSE f[k - 1] + EncodedLen(vs[k], a)
    <3> TAKE k \in 0 .. n
    <3>1. CASE k = 0
      BY <2>3, <3>1
    <3>2. CASE k \in 1 .. n
      <4>1. k # 0
        BY <3>2
      <4> QED
        BY <2>2, <3>2, <4>1, Zenon
    <3> QED
      BY <1>1, <3>1, <3>2
  <2> QED
    BY <2>3, <2>4, Zenon
<1>7. sum = body(sum)
  <2> HIDE DEF body
  <2> QED
    BY <1>6
<1> HIDE DEF sum
<1> DEFINE B == body(sum)
<1>8. /\ B = [k \in 0 .. n |-> B[k]]
      /\ B[0] = 0
      /\ \A k \in 1 .. n : B[k] = sum[k - 1] + EncodedLen(vs[k], a)
  BY <1>1
<1>9. sum = B
  BY <1>7, Zenon
<1> HIDE DEF B
<1>10. \A k \in 1 .. n : sum[k] = sum[k - 1] + EncodedLen(vs[k], a)
  BY <1>8, <1>9, Zenon
<1>11. 0 .. n \subseteq {k \in Nat : sum[k] \in Nat}
  <2> DEFINE S == {k \in Nat : sum[k] \in Nat}
  <2>1. 0 \in S
    BY <1>8, <1>9
  <2>2. ASSUME NEW k \in 1 .. n, k - 1 \in S PROVE k \in S
    BY <1>1, <1>10, <2>2
  <2> HIDE DEF S
  <2>3. 0 .. n \subseteq S
    BY <1>1, <2>1, <2>2, RangeInduction, Zenon
  <2> QED
    BY <2>3 DEF S
<1>12. sum \in [0 .. n -> Nat]
  BY <1>8, <1>9, <1>11
<1> QED
  BY <1>2, <1>8, <1>9, <1>10, <1>12, Zenon DEF Sums, n

\* No record is longer than the rest of the payload.
LEMMA SumsGrow ==
    ASSUME NEW vs \in Seq(Variable), NEW a \in BOOLEAN, NEW sum, Sums(vs, a, sum)
    PROVE  \A k \in 1 .. Len(vs) : sum[k - 1] + EncodedLen(vs[k], a) <= sum[Len(vs)]
<1>1. Len(vs) \in Nat /\ \A k \in 1 .. Len(vs) : EncodedLen(vs[k], a) \in Nat
  BY SeqDomain, SeqElement, EncodedLenBound
<1> DEFINE S == {k \in Nat : \A j \in 0 .. k : j <= Len(vs) /\ k <= Len(vs) => sum[j] <= sum[k]}
<1>2. 0 \in S
  BY <1>1 DEF Sums
<1>3. ASSUME NEW k \in 1 .. Len(vs), k - 1 \in S PROVE k \in S
  <2>1. sum[k] = sum[k - 1] + EncodedLen(vs[k], a) /\ sum[k - 1] \in Nat
    BY <1>1 DEF Sums
  <2>2. \A j \in 0 .. k - 1 : j <= Len(vs) /\ k - 1 <= Len(vs) /\ j \in 0 .. Len(vs)
    BY <1>1
  <2>3. \A j \in 0 .. k - 1 : sum[j] <= sum[k - 1] /\ sum[j] \in Nat
    BY <1>3, <2>2, Zenon DEF Sums
  <2> QED
    BY <1>1, <2>1, <2>3
<1> HIDE DEF S
<1>4. 0 .. Len(vs) \subseteq S
  BY <1>1, <1>2, <1>3, RangeInduction, Zenon
<1>5. \A j \in 0 .. Len(vs) : sum[j] <= sum[Len(vs)]
  BY <1>1, <1>4 DEF S
<1> QED
  BY <1>1, <1>5 DEF Sums

\* The record of every variable is at most as long as the payload.
LEMMA RecordsWithinPayload ==
    ASSUME NEW vs \in Seq(Variable), NEW a \in BOOLEAN
    PROVE  /\ PayloadLen(vs, a) \in Nat
           /\ \A k \in 1 .. Len(vs) : EncodedLen(vs[k], a) <= PayloadLen(vs, a)
<1>1. PICK sum : Sums(vs, a, sum) /\ PayloadLen(vs, a) = sum[Len(vs)]
  BY PayloadLenUnfolds
<1>2. Len(vs) \in Nat /\ \A k \in 1 .. Len(vs) : EncodedLen(vs[k], a) \in Nat
  BY SeqDomain, SeqElement, EncodedLenBound
<1>3. \A k \in 1 .. Len(vs) : sum[k - 1] + EncodedLen(vs[k], a) <= sum[Len(vs)]
  BY <1>1, SumsGrow
<1>4. sum[Len(vs)] \in Nat /\ \A k \in 1 .. Len(vs) : sum[k - 1] \in Nat
  <2>1. \A j \in 0 .. Len(vs) : sum[j] \in Nat
    BY <1>1 DEF Sums
  <2>2. Len(vs) \in 0 .. Len(vs) /\ \A k \in 1 .. Len(vs) : k - 1 \in 0 .. Len(vs)
    BY <1>2
  <2> QED
    BY <2>1, <2>2
<1> QED
  BY <1>1, <1>2, <1>3, <1>4

\* RecordOffsets adds up the records from the end of the store header.
LEMMA RecordOffsetsUnfolds ==
    ASSUME NEW f \in File
    PROVE  Offsets(f, RecordOffsets(f))
\* The next record starts at a natural number, on the alignment.
<1>nat. ASSUME NEW o \in Nat, NEW a \in BOOLEAN, NEW n \in Nat, NEW d \in Nat
        PROVE  NextOffset(o, a, n, d) \in Nat
  <2> USE <1>nat
  <2>1. HdrSize(a) \in Nat
    BY DEF HdrSize, AuthVarHeaderSize, VarHeaderSize
  <2>2. DataOff(o, a, n) + d \in Nat
    BY <2>1 DEF DataOff, NameOff
  <2> HIDE DEF DataOff
  <2> QED
    BY <2>2, AlignUp64Properties DEF NextOffset
<1> DEFINE n == Len(f.recs)
           first == StoreOff(f) + StoreHeaderSize
           next(k, x) == NextOffset(x, IsAuth(f), f.recs[k].nameSize, f.recs[k].dataSize)
           body(g) == [k \in 0 .. n |-> IF k = 0 THEN first ELSE next(k, g[k - 1])]
           at == CHOOSE g : g = body(g)
           step == [k \in 1 .. n |-> [x \in Nat |-> next(k, x)]]
<1>1. n \in Nat /\ first \in Nat /\ IsAuth(f) \in BOOLEAN
  BY SeqDomain DEF File, StoreOff, FvHeaderSize, StoreHeaderSize, IsAuth
<1>2. ASSUME NEW k \in 1 .. n, NEW x \in Nat PROVE next(k, x) \in Nat
  <2>1. f.recs \in Seq(Record)
    BY DEF File
  <2>2. f.recs[k] \in Record
    BY <2>1, SeqElement
  <2>3. f.recs[k].nameSize \in Nat /\ f.recs[k].dataSize \in Nat
    BY <2>2, WordIsWide DEF Record
  <2> QED
    BY <1>1, <2>3, <1>nat, Zenon
<1>3. RecordOffsets(f) = at
  BY DEF RecordOffsets
<1> HIDE DEF n, first, next
<1>4. step \in [1 .. n -> [Nat -> Nat]]
  BY <1>2
<1>5. \A k \in 1 .. n : \A x \in Nat : step[k][x] = next(k, x)
  OBVIOUS
<1> HIDE DEF step
<1>6. PICK g : Recursion(g, n, Nat, first, step)
  BY <1>1, <1>4, RecursionExists, Zenon
<1>7. g = body(g)
  <2>1. \A k \in 1 .. n : g[k - 1] \in Nat
    BY <1>1, <1>6 DEF Recursion
  <2>2. \A k \in 1 .. n : g[k] = next(k, g[k - 1])
    BY <1>5, <1>6, <2>1 DEF Recursion
  <2>3. g = [k \in 0 .. n |-> g[k]] /\ g[0] = first
    BY <1>6 DEF Recursion
  <2>4. \A k \in 0 .. n : g[k] = IF k = 0 THEN first ELSE next(k, g[k - 1])
    <3> TAKE k \in 0 .. n
    <3>1. CASE k = 0
      BY <2>3, <3>1
    <3>2. CASE k \in 1 .. n
      <4>1. k # 0
        BY <3>2
      <4> QED
        BY <2>2, <3>2, <4>1, Zenon
    <3> QED
      BY <1>1, <3>1, <3>2
  <2> QED
    BY <2>3, <2>4, Zenon
<1>8. at = body(at)
  <2> HIDE DEF body
  <2> QED
    BY <1>7
<1> HIDE DEF at
<1> DEFINE B == body(at)
<1>9. /\ B = [k \in 0 .. n |-> B[k]]
      /\ B[0] = first
      /\ \A k \in 1 .. n : B[k] = next(k, at[k - 1])
  BY <1>1
<1>10. at = B
  BY <1>8, Zenon
<1> HIDE DEF B
<1>11. \A k \in 1 .. n : at[k] = next(k, at[k - 1])
  BY <1>9, <1>10
<1>12. 0 .. n \subseteq {k \in Nat : at[k] \in Nat}
  <2> DEFINE S == {k \in Nat : at[k] \in Nat}
  <2>1. 0 \in S
    BY <1>1, <1>9, <1>10
  <2>2. ASSUME NEW k \in 1 .. n, k - 1 \in S PROVE k \in S
    BY <1>1, <1>2, <1>11, <2>2
  <2> HIDE DEF S
  <2>3. 0 .. n \subseteq S
    BY <1>1, <2>1, <2>2, RangeInduction, Zenon
  <2> QED
    BY <2>3 DEF S
<1>13. at \in [0 .. n -> Nat]
  BY <1>9, <1>10, <1>12
<1> QED
  BY <1>3, <1>9, <1>10, <1>11, <1>13, Zenon DEF Offsets, n, first, next

\* serializeVars makes one record per variable, in the same order.
LEMMA SerializedRecords ==
    ASSUME NEW vs \in Seq(Variable)
    PROVE  /\ Serialized(vs) \in Seq(Record)
           /\ Len(Serialized(vs)) = Len(vs)
           /\ \A k \in 1 .. Len(vs) : Serialized(vs)[k] = Encode(vs[k])
<1>1. Len(vs) \in Nat /\ \A k \in 1 .. Len(vs) : vs[k] \in Variable
  BY SeqDomain, SeqElement
<1>2. ASSUME NEW v \in Variable PROVE Encode(v) \in Record
  <2>1. NameSize(v.name) \in Int /\ DataLen[v.data] \in Int
    BY VariableSizes
  <2>2. U32(NameSize(v.name)) \in 0 .. Word - 1 /\ U32(DataLen[v.data]) \in 0 .. Word - 1
    BY <2>1, U32Range, Zenon
  <2>3. v.name \in Name /\ Canon[v.name] \in Name
    BY StringAssumption DEF Variable
  <2> QED
    BY <2>2, <2>3 DEF Encode, Record, Variable
<1>3. \A k \in 1 .. Len(vs) : Encode(vs[k]) \in Record
  BY <1>1, <1>2
<1> HIDE DEF Encode
<1> QED
  BY <1>1, <1>3 DEF Serialized

\* The parser finds the next record where the encoder put it.
LEMMA NextOffsetOfEncoded ==
    ASSUME NEW v \in Variable, NEW a \in BOOLEAN, EncodedLen(v, a) + 3 < Word,
           NEW o \in Nat, o % 4 = 0
    PROVE  /\ NextOffset(o, a, Encode(v).nameSize, Encode(v).dataSize) = o + EncodedLen(v, a)
           /\ (o + EncodedLen(v, a)) % 4 = 0
<1> DEFINE n == HdrSize(a) + NameSize(v.name) + DataLen[v.data]
<1>1. /\ Encode(v).nameSize = NameSize(v.name) /\ Encode(v).dataSize = DataLen[v.data]
      /\ EncodedLen(v, a) = AlignUp64(n) /\ EncodedLen(v, a) % 4 = 0
  BY EncodedLenExact
<1>2. n \in Nat /\ HdrSize(a) \in Nat /\ EncodedLen(v, a) \in Nat
  BY EncodedLenBound
<1>3. NameSize(v.name) \in Nat /\ DataLen[v.data] \in Nat
  BY VariableSizes
<1>4. DataOff(o, a, NameSize(v.name)) + DataLen[v.data] = o + n
  <2>1. PICK m \in Nat : m = NameSize(v.name)
    BY <1>3
  <2>2. PICK d \in Nat : d = DataLen[v.data]
    BY <1>3
  <2>3. PICK h \in Nat : h = HdrSize(a)
    BY <1>2
  <2>4. DataOff(o, a, m) = o + h + m
    BY <2>3, Zenon DEF DataOff, NameOff
  <2> HIDE DEF n
  <2>5. o + h + m + d = o + (h + m + d)
    OBVIOUS
  <2>6. DataOff(o, a, m) + d = o + (HdrSize(a) + m + d)
    BY <2>3, <2>4, <2>5, Zenon
  <2> QED
    BY <2>1, <2>2, <2>6, Zenon DEF n
<1>5. NextOffset(o, a, Encode(v).nameSize, Encode(v).dataSize) = AlignUp64(o + n)
  BY <1>1, <1>4 DEF NextOffset
<1> HIDE DEF n
<1>6. AlignUp64(o + n) = o + AlignUp64(n)
  BY <1>2, AlignUp64Shift
<1> QED
  BY <1>1, <1>2, <1>5, <1>6, AlignedSum

\* In a file that holds a written list, record k ends where the payload of the
\* first k variables ends.
LEMMA EncodedOffsets ==
    ASSUME NEW f \in File, NEW vs \in Seq(Variable), f.recs = Serialized(vs),
           PayloadLen(vs, IsAuth(f)) + 3 < Word,
           NEW sum, Sums(vs, IsAuth(f), sum), PayloadLen(vs, IsAuth(f)) = sum[Len(vs)]
    PROVE  \A k \in 0 .. Len(vs) :
              /\ RecordOffsets(f)[k] = StoreOff(f) + StoreHeaderSize + sum[k]
              /\ RecordOffsets(f)[k] % 4 = 0
\* Arithmetic of the four summands an encoded record's offset has.
<1>regroup. ASSUME NEW b \in Nat, NEW m \in Nat, NEW n \in Nat
            PROVE  (b + m) + n = b + (m + n) /\ b + (m + n) \in Nat
  BY <1>regroup
<1> DEFINE at == RecordOffsets(f)
           a == IsAuth(f)
           base == StoreOff(f) + StoreHeaderSize
<1>1. Len(vs) \in Nat /\ Len(f.recs) = Len(vs) /\ \A k \in 1 .. Len(vs) : vs[k] \in Variable /\ f.recs[k] = Encode(vs[k])
  BY SeqDomain, SeqElement, SerializedRecords
<1>2. a \in BOOLEAN /\ base \in Nat /\ base % 4 = 0
  BY DEF IsAuth, StoreOff, StoreHeaderSize, FvHeaderSize
<1>3. Offsets(f, at)
  BY RecordOffsetsUnfolds
<1>4. /\ at[0] = base
      /\ \A k \in 1 .. Len(vs) : at[k] = NextOffset(at[k - 1], a, Encode(vs[k]).nameSize, Encode(vs[k]).dataSize)
  BY <1>1, <1>3 DEF Offsets
<1>5. \A k \in 1 .. Len(vs) : EncodedLen(vs[k], a) + 3 < Word /\ EncodedLen(vs[k], a) \in Nat
  <2>1. \A k \in 1 .. Len(vs) : EncodedLen(vs[k], a) <= PayloadLen(vs, a) /\ PayloadLen(vs, a) \in Nat
    BY <1>2, RecordsWithinPayload
  <2>2. \A k \in 1 .. Len(vs) : EncodedLen(vs[k], a) \in Nat
    BY <1>1, <1>2, EncodedLenBound
  <2> QED
    BY <2>1, <2>2, WordIsWide
<1>6. sum[0] = 0 /\ \A k \in 1 .. Len(vs) : sum[k] = sum[k - 1] + EncodedLen(vs[k], a) /\ sum[k - 1] \in Nat
  BY <1>1 DEF Sums
<1> DEFINE S == {k \in Nat : at[k] = base + sum[k] /\ at[k] % 4 = 0 /\ at[k] \in Nat}
<1> HIDE DEF at, a, base
<1>7. 0 \in S
  BY <1>2, <1>4, <1>6
<1>8. ASSUME NEW k \in 1 .. Len(vs), k - 1 \in S PROVE k \in S
  <2>1. at[k - 1] = base + sum[k - 1] /\ at[k - 1] % 4 = 0 /\ at[k - 1] \in Nat
    BY <1>8
  <2>2. vs[k] \in Variable /\ EncodedLen(vs[k], a) + 3 < Word /\ EncodedLen(vs[k], a) \in Nat
    BY <1>1, <1>5
  <2>3. at[k] = at[k - 1] + EncodedLen(vs[k], a) /\ (at[k - 1] + EncodedLen(vs[k], a)) % 4 = 0
    BY <1>2, <1>4, <2>1, <2>2, NextOffsetOfEncoded, ZenonT(60)
  <2>4. sum[k] = sum[k - 1] + EncodedLen(vs[k], a) /\ sum[k - 1] \in Nat /\ k \in Nat
    BY <1>1, <1>6
  <2>5. at[k] = base + sum[k] /\ at[k] \in Nat
    <3>1. base \in Nat /\ sum[k - 1] \in Nat /\ EncodedLen(vs[k], a) \in Nat
      BY <1>2, <2>2, <2>4
    <3>2. /\ (base + sum[k - 1]) + EncodedLen(vs[k], a) = base + (sum[k - 1] + EncodedLen(vs[k], a))
          /\ base + (sum[k - 1] + EncodedLen(vs[k], a)) \in Nat
      BY <3>1, <1>regroup, Zenon
    <3> QED
      BY <2>1, <2>3, <2>4, <3>2, Zenon
  <2>6. at[k] % 4 = 0
    BY <2>3
  <2> QED
    BY <2>4, <2>5, <2>6
<1> HIDE DEF S
<1>9. 0 .. Len(vs) \subseteq S
  BY <1>1, <1>7, <1>8, RangeInduction, Zenon
<1> QED
  BY <1>9 DEF S, at, base

-----------------------------------------------------------------------------
(***************************************************************************)
(* What Open reads back.                                                   *)
(***************************************************************************)

\* A record lies in a region that has room for its encoding.
LEMMA EncodedFits ==
    ASSUME NEW v \in Variable, NEW a \in BOOLEAN, EncodedLen(v, a) + 3 < Word,
           NEW o \in Nat, o % 4 = 0, NEW end \in Nat, o + EncodedLen(v, a) <= end
    PROVE  /\ RecordFits(o, end, a, Encode(v).nameSize, Encode(v).dataSize)
           /\ U32(o + 2) <= end
<1>1. PICK m \in Nat : m = NameSize(v.name)
  BY VariableSizes
<1>2. PICK d \in Nat : d = DataLen[v.data]
  BY VariableSizes
<1>3. PICK h \in Nat : h = HdrSize(a) /\ h >= 32
  BY EncodedLenBound
<1>4. PICK e \in Nat : e = EncodedLen(v, a)
  BY EncodedLenBound
<1>5. Encode(v).nameSize = m /\ Encode(v).dataSize = d
  BY <1>1, <1>2, EncodedLenExact, Zenon
<1>6. e >= h + m + d
  BY <1>1, <1>2, <1>3, <1>4, EncodedLenBound, Zenon
<1>7. NextOffset(o, a, m, d) = o + e
  BY <1>4, <1>5, NextOffsetOfEncoded, Zenon
<1>8. o + e <= end
  BY <1>4, Zenon
<1>9. \A n \in Nat : n <= end => U32(n) <= end
  <2>1. \A n \in Nat : U32(n) <= n /\ U32(n) \in Nat
    BY WordIsWide DEF U32
  <2> QED
    BY <2>1
<1>10. NameOff(o, a) = o + h /\ DataOff(o, a, m) = o + h + m
  BY <1>3, Zenon DEF DataOff, NameOff
<1>11. /\ CheckBounds(o, 8, end) /\ CheckBounds(o + h, m, end) /\ CheckBounds(o + h + m, d, end)
       /\ o + h \in Nat /\ o + h <= end /\ o + 2 \in Nat /\ o + 2 <= end
  BY <1>3, <1>6, <1>8 DEF CheckBounds
<1>12. HeaderFits(o, end, a)
  BY <1>3, <1>9, <1>11, Zenon DEF HeaderFits
<1>13. BodyFits(o, end, a, m, d)
  BY <1>7, <1>8, <1>10, <1>11, Zenon DEF BodyFits
<1>14. RecordFits(o, end, a, m, d)
  BY <1>11, <1>12, <1>13, Zenon DEF RecordFits, PrefixFits
<1> QED
  BY <1>5, <1>9, <1>11, <1>14, Zenon

\* In a file that holds a written list, the walk gets past every record that
\* ends within the region.
LEMMA WrittenRecordPasses ==
    ASSUME NEW f \in File, NEW vs \in Seq(Variable), f.recs = Serialized(vs),
           PayloadLen(vs, IsAuth(f)) + 3 < Word,
           End(f) \in Nat, StoreOff(f) + StoreHeaderSize + PayloadLen(vs, IsAuth(f)) <= End(f),
           NEW k \in 1 .. Len(vs)
    PROVE  Passes(f, k)
<1>1. PICK a \in BOOLEAN : a = IsAuth(f)
  BY Zenon DEF IsAuth
<1>2. PICK sum : Sums(vs, a, sum) /\ PayloadLen(vs, a) = sum[Len(vs)]
  BY PayloadLenUnfolds
<1>3. PICK base \in Nat : base = StoreOff(f) + StoreHeaderSize
  BY DEF StoreOff, StoreHeaderSize, FvHeaderSize
<1>4. PICK at : at = RecordOffsets(f)
  OBVIOUS
<1>5. \A j \in 0 .. Len(vs) : at[j] = base + sum[j] /\ at[j] % 4 = 0
  BY <1>1, <1>2, <1>3, <1>4, EncodedOffsets, Zenon
<1>6. PICK e \in Nat : e = EncodedLen(vs[k], a) /\ e >= 32
  BY SeqElement, EncodedLenBound, Zenon
<1>7. /\ Len(vs) \in Nat /\ Len(vs) = Len(f.recs) /\ vs[k] \in Variable /\ f.recs[k] = Encode(vs[k])
  BY SeqDomain, SeqElement, SerializedRecords
<1>8. /\ sum[k] = sum[k - 1] + e /\ sum[k - 1] \in Nat /\ sum[k - 1] + e <= sum[Len(vs)]
      /\ sum[Len(vs)] \in Nat
  <2>1. \A j \in 0 .. Len(vs) : sum[j] \in Nat
    BY <1>2 DEF Sums
  <2>2. k - 1 \in 0 .. Len(vs) /\ Len(vs) \in 0 .. Len(vs)
    BY <1>7
  <2>3. sum[k] = sum[k - 1] + EncodedLen(vs[k], a)
    BY <1>2 DEF Sums
  <2>4. sum[k - 1] + EncodedLen(vs[k], a) <= sum[Len(vs)]
    BY <1>2, SumsGrow, Zenon
  <2> QED
    BY <1>6, <2>1, <2>2, <2>3, <2>4, Zenon
<1>9. e + 3 < Word
  <2>1. sum[Len(vs)] + 3 < Word
    BY <1>1, <1>2, Zenon
  <2>2. PICK p \in Nat, t \in Nat : p = sum[k - 1] /\ t = sum[Len(vs)]
    BY <1>8, Zenon
  <2>3. p + e <= t /\ t + 3 < Word
    BY <1>8, <2>1, <2>2, Zenon
  <2> QED
    BY <2>3, WordIsWide
<1>10. PICK o \in Nat : o = at[k - 1] /\ o % 4 = 0 /\ at[k] = o + e
  <2>1. k - 1 \in 0 .. Len(vs) /\ k \in 0 .. Len(vs)
    BY <1>7
  <2>2. at[k - 1] = base + sum[k - 1] /\ at[k - 1] % 4 = 0 /\ at[k] = base + sum[k]
    BY <1>5, <2>1, Zenon
  <2>3. (base + sum[k - 1]) + e = base + (sum[k - 1] + e) /\ base + sum[k - 1] \in Nat
    BY <1>8
  <2> QED
    BY <1>8, <2>2, <2>3, Zenon
<1>11. o + e <= End(f)
  <2>1. base + sum[Len(vs)] <= End(f)
    BY <1>1, <1>2, <1>3, Zenon
  <2>2. o + e = base + (sum[k - 1] + e)
    <3>1. k \in 0 .. Len(vs)
      BY <1>7
    <3> QED
      BY <1>5, <1>8, <1>10, <3>1, Zenon
  <2>3. PICK p \in Nat, t \in Nat : p = sum[k - 1] /\ t = sum[Len(vs)]
    BY <1>8, Zenon
  <2>4. p + e <= t /\ base + t <= End(f) /\ o + e = base + (p + e)
    BY <1>8, <2>1, <2>2, <2>3, Zenon
  <2> QED
    BY <2>4
<1>12. /\ RecordFits(o, End(f), a, Encode(vs[k]).nameSize, Encode(vs[k]).dataSize)
       /\ U32(o + 2) <= End(f)
  BY <1>6, <1>7, <1>9, <1>10, <1>11, EncodedFits, Zenon
<1>13. o + e > o
  BY <1>6
<1> QED
  BY <1>1, <1>4, <1>7, <1>10, <1>12, <1>13, Zenon DEF Passes

\* Open finds a first part of a list that was written, as UTF-16 keeps it; and
\* the whole of it when the walk gets past every record.
LEMMA ParsedOfWritten ==
    ASSUME NEW f \in File, NEW vs \in Seq(Variable), f.recs = Serialized(vs),
           PayloadLen(vs, IsAuth(f)) + 3 < Word
    PROVE  \E m \in 0 .. Len(vs) :
              /\ Parsed(f) = [k \in 1 .. m |-> Canonical(vs[k])]
              /\ (\A k \in 1 .. Len(vs) : Passes(f, k)) => m = Len(vs)
\* parseVariables meets the first records of the region, and all of them when
\* it gets past each.
<1>walked. \E m \in 0 .. Len(f.recs) :
              /\ Walked(f) = SubSeq(f.recs, 1, m)
              /\ (\A k \in 1 .. Len(f.recs) : Passes(f, k)) => m = Len(f.recs)
  <2> DEFINE n == Len(f.recs)
             S == {0} \cup {m \in 1 .. n : \A k \in 1 .. m : Passes(f, k)}
  <2>1. n \in Nat
    BY SeqDomain DEF File
  <2>2. Walked(f) = SubSeq(f.recs, 1, Max(S))
    BY DEF Walked, Passes
  <2>3. (\A k \in 1 .. n : Passes(f, k)) => n \in S
    BY <2>1
  <2>4. S \subseteq 0 .. n /\ 0 \in S
    BY <2>1
  <2> HIDE DEF S, n
  <2>5. \E m \in S : \A k \in S : m >= k
    BY <2>1, <2>4, HighestExists, Zenon
  <2>6. Max(S) \in S /\ \A k \in S : Max(S) >= k
    BY <2>5, Zenon DEF Max
  <2> DEFINE m == Max(S)
  <2>7. m \in S /\ \A k \in S : m >= k
    BY <2>6
  <2> HIDE DEF m
  <2>8. m \in 0 .. n /\ (n \in S => m = n)
    BY <2>1, <2>4, <2>7
  <2> QED
    BY <2>2, <2>3, <2>8 DEF n, m
<1>1. PICK a \in BOOLEAN : a = IsAuth(f)
  BY Zenon DEF IsAuth
<1>2. /\ Len(vs) \in Nat /\ Len(vs) = Len(f.recs) /\ f.recs \in Seq(Record)
      /\ \A k \in 1 .. Len(vs) : vs[k] \in Variable /\ f.recs[k] = Encode(vs[k])
  BY SeqDomain, SeqElement, SerializedRecords
<1>3. PICK m \in 0 .. Len(vs) :
         /\ Walked(f) = SubSeq(f.recs, 1, m)
         /\ (\A k \in 1 .. Len(vs) : Passes(f, k)) => m = Len(vs)
  BY <1>2, <1>walked, Zenon
<1> DEFINE met == Walked(f)
<1>4. m \in Nat /\ \A k \in 1 .. m : k \in 1 .. Len(vs)
  BY <1>2
<1>5. met \in Seq(Record) /\ Len(met) = m /\ \A k \in 1 .. m : met[k] = Encode(vs[k])
  <2>1. /\ SubSeq(f.recs, 1, m) \in Seq(Record) /\ Len(SubSeq(f.recs, 1, m)) = m
        /\ \A k \in 1 .. m : SubSeq(f.recs, 1, m)[k] = f.recs[k]
    BY <1>2, SeqFront
  <2> QED
    BY <1>2, <1>3, <1>4, <2>1
<1> HIDE DEF met
<1>6. \A k \in 1 .. m :
         /\ Encode(vs[k]).nameSize = NameSize(vs[k].name)
         /\ Encode(vs[k]).dataSize = DataLen[vs[k].data]
  <2> TAKE k \in 1 .. m
  <2>1. EncodedLen(vs[k], a) <= PayloadLen(vs, a) /\ PayloadLen(vs, a) \in Nat
    BY <1>4, RecordsWithinPayload, Zenon
  <2>2. EncodedLen(vs[k], a) \in Nat /\ vs[k] \in Variable
    BY <1>2, <1>4, EncodedLenBound
  <2>3. EncodedLen(vs[k], a) + 3 < Word
    <3>1. PayloadLen(vs, a) + 3 < Word
      BY <1>1, Zenon
    <3> QED
      BY <2>1, <2>2, <3>1, WordIsWide
  <2> QED
    BY <2>2, <2>3, EncodedLenExact, Zenon
<1>7. \A k \in 1 .. m : met[k].added /\ DecodableName(met[k].nameSize)
  <2> TAKE k \in 1 .. m
  <2>1. met[k].added
    BY <1>5 DEF Encode
  <2>2. met[k].nameSize = NameSize(vs[k].name)
    BY <1>5, <1>6
  <2>3. Units[vs[k].name] \in Nat
    BY <1>2, <1>4, StringAssumption DEF Variable
  <2>4. NameSize(vs[k].name) % 2 = 0
    BY <2>3 DEF NameSize
  <2> QED
    BY <2>1, <2>2, <2>4 DEF DecodableName
<1> DEFINE S == {k \in DOMAIN met : met[k].added /\ DecodableName(met[k].nameSize)}
           live == Kept(met, S)
<1>8. DOMAIN met = 1 .. m
  BY <1>5
<1>9. DOMAIN met \subseteq S
  BY <1>7, <1>8
<1> HIDE DEF S
<1>10. live = met
  BY <1>5, <1>9, KeptAll, Zenon
<1>11. Parsed(f) = [k \in 1 .. Len(live) |-> Decode(live[k])]
  BY DEF Parsed, met, S
<1> HIDE DEF live
<1>12. Parsed(f) = [k \in 1 .. m |-> Decode(met[k])]
  BY <1>5, <1>10, <1>11, Zenon
<1>13. \A k \in 1 .. m : Decode(met[k]) = Canonical(vs[k])
  <2> TAKE k \in 1 .. m
  <2>1. vs[k] \in Variable /\ Encode(vs[k]).dataSize = DataLen[vs[k].data] /\ met[k] = Encode(vs[k])
    BY <1>2, <1>4, <1>5, <1>6, Zenon
  <2> QED
    BY <2>1, DecodeOfEncode, Zenon
<1>14. Parsed(f) = [k \in 1 .. m |-> Canonical(vs[k])]
  BY <1>12, <1>13, Zenon
<1> QED
  BY <1>3, <1>14

\* Reading back a variable gives a variable.
LEMMA CanonicalVariable ==
    ASSUME NEW v \in Variable
    PROVE  /\ Canonical(v) \in Variable
           /\ Canonical(v).name = Canon[v.name] /\ Canonical(v).guid = v.guid
           /\ Canonical(v).attrs = v.attrs /\ Canonical(v).data = v.data
<1>1. v.name \in Name /\ Canon[v.name] \in Name
  BY StringAssumption DEF Variable
<1> QED
  BY <1>1 DEF Canonical, Variable

\* What Open makes of a written list is a list of variables.
LEMMA WrittenParses ==
    ASSUME NEW f \in File, NEW vs \in Seq(Variable), f.recs = Serialized(vs),
           PayloadLen(vs, IsAuth(f)) + 3 < Word
    PROVE  Parsed(f) \in Seq(Variable)
<1>1. PICK m \in 0 .. Len(vs) : Parsed(f) = [k \in 1 .. m |-> Canonical(vs[k])]
  BY ParsedOfWritten, Zenon
<1>2. Len(vs) \in Nat /\ \A k \in 1 .. Len(vs) : vs[k] \in Variable
  BY SeqDomain, SeqElement
<1>3. \A k \in 1 .. m : Canonical(vs[k]) \in Variable
  BY <1>2, CanonicalVariable
<1>4. m \in Nat
  BY <1>2
<1> HIDE DEF Canonical
<1> QED
  BY <1>1, <1>3, <1>4

\* buildStore leaves a file that reads back whole: what fits the extent of the
\* handle fits the region Open walks.
LEMMA ReadsBack ==
    ASSUME LimitBelowWord, NEW f \in File, f.len <= MaxFileSize,
           NEW vs \in Seq(Variable), f.recs = Serialized(vs),
           NEW s, s.off = (IF f.fv THEN FvHeaderSize ELSE 0), s.size \in Nat, s.size <= f.size,
           s.auth = IsAuth(f), StoreFits(f, s, vs)
    PROVE  /\ Parsed(f) = CanonicalList(vs)
           /\ PayloadLen(vs, IsAuth(f)) + 3 < Word
<1>1. PICK len \in Nat : len = f.len
  BY DEF File
<1>2. PICK size \in Nat : size = s.size
  OBVIOUS
<1>3. PICK field \in Nat : field = f.size /\ field < Word
  BY WordIsWide DEF File
<1>4. PICK off \in Nat : off = s.off /\ off = IF f.fv THEN 72 ELSE 0
  BY DEF FvHeaderSize
<1>5. PICK p \in Nat : p = PayloadLen(vs, IsAuth(f))
  <2>1. IsAuth(f) \in BOOLEAN
    BY DEF IsAuth
  <2> QED
    BY <2>1, RecordsWithinPayload
<1>6. len >= off + 28 /\ off + size <= len /\ off + 28 + p <= off + size /\ size <= field
  BY <1>1, <1>2, <1>3, <1>4, <1>5, Zenon DEF StoreFits, StoreHeaderSize
<1>7. len + 60 < Word /\ Word \in Nat
  BY <1>1, LimitsAssumption, WordIsWide DEF LimitBelowWord, AuthVarHeaderSize
<1>8. p + 3 < Word
  BY <1>6, <1>7
<1>9. StoreOff(f) = off
  <2>1. f.fv \in BOOLEAN
    BY DEF File
  <2>2. CASE f.fv
    BY <1>1, <1>4, <1>6, <2>2 DEF StoreOff, FvWrapped, FvHeaderSize
  <2>3. CASE ~f.fv
    BY <1>4, <2>3 DEF StoreOff, FvWrapped
  <2> QED
    BY <2>1, <2>2, <2>3
<1>10. End(f) \in Nat /\ off + size <= End(f)
  <2> DEFINE z == StoreSize(f)
  <2>1. z = IF field > len - off THEN U32(len - off) ELSE field
    BY <1>1, <1>3, <1>9 DEF StoreSize, ClampedSize
  <2>2. len - off \in Nat /\ len - off < Word
    BY <1>6, <1>7
  <2>3. U32(len - off) = len - off
    BY <2>2, U32Small
  <2>4. z \in Nat /\ size <= z /\ off + z <= len
    BY <1>6, <2>1, <2>2, <2>3
  <2> HIDE DEF z
  <2> DEFINE y == IF off + z > len THEN len ELSE off + z
  <2>5. End(f) = U32(y)
    BY <1>1, <1>9, Zenon DEF End, z
  <2>6. y \in Nat /\ y < Word /\ off + size <= y
    BY <1>6, <1>7, <2>4
  <2> HIDE DEF y
  <2>7. U32(y) = y
    BY <2>6, U32Small
  <2> QED
    BY <2>5, <2>6, <2>7
<1>11. StoreOff(f) + StoreHeaderSize + PayloadLen(vs, IsAuth(f)) <= End(f)
  <2>1. PICK end \in Nat : end = End(f)
    BY <1>10
  <2>2. off + 28 + p <= end
    BY <1>6, <1>10, <2>1
  <2> QED
    BY <1>5, <1>9, <2>1, <2>2, Zenon DEF StoreHeaderSize
<1>12. PayloadLen(vs, IsAuth(f)) + 3 < Word
  BY <1>5, <1>8, Zenon
<1>13. \A k \in 1 .. Len(vs) : Passes(f, k)
  BY <1>10, <1>11, <1>12, WrittenRecordPasses, Zenon
<1>14. Parsed(f) = [k \in 1 .. Len(vs) |-> Canonical(vs[k])]
  BY <1>12, <1>13, ParsedOfWritten, Zenon
<1> QED
  BY <1>12, <1>14 DEF CanonicalList

-----------------------------------------------------------------------------
(***************************************************************************)
(* What Get finds, and what Set and Delete do to it.                       *)
(***************************************************************************)

\* Get returns the first match.
LEMMA GetIsFirst ==
    ASSUME NEW T, NEW vs \in Seq(T), NEW key, NEW k, FirstAt(vs, key, k)
    PROVE  Has(vs, key) /\ Get(vs, key) = vs[k]
<1>1. Len(vs) \in Nat /\ DOMAIN vs = 1 .. Len(vs)
  BY SeqDomain
<1> DEFINE S == {j \in DOMAIN vs : KeyOf(vs[j]) = key}
<1>2. k \in S /\ k \in Nat /\ S \subseteq Nat /\ \A j \in S : k <= j
  BY <1>1 DEF FirstAt
<1>3. Has(vs, key) /\ Get(vs, key) = vs[Min(S)]
  BY <1>2 DEF Has, Get
<1> HIDE DEF S
<1>4. Min(S) \in S /\ \A j \in S : Min(S) <= j
  BY <1>2, Zenon DEF Min
<1> DEFINE m == Min(S)
<1>5. m \in Nat /\ m <= k /\ k <= m
  BY <1>2, <1>4, Zenon
<1> HIDE DEF m
<1>6. m = k
  BY <1>2, <1>5
<1> QED
  BY <1>3, <1>6 DEF m

\* A key that is present has a first match.
LEMMA FirstExists ==
    ASSUME NEW T, NEW vs \in Seq(T), NEW key, Has(vs, key)
    PROVE  \E k : FirstAt(vs, key, k)
<1>1. Len(vs) \in Nat /\ DOMAIN vs = 1 .. Len(vs)
  BY SeqDomain
<1> DEFINE S == {j \in 1 .. Len(vs) : KeyOf(vs[j]) = key}
<1>2. S # {} /\ S \subseteq Nat
  BY <1>1 DEF Has
<1> HIDE DEF S
<1>3. PICK k \in S : \A j \in S : k <= j
  BY <1>2, LowestExists, Zenon
<1>4. FirstAt(vs, key, k)
  BY <1>3, Zenon DEF FirstAt, S
<1> QED
  BY <1>4

\* What Get returns is in the list, under the key.
LEMMA GetProperties ==
    ASSUME NEW T, NEW vs \in Seq(T), NEW key, Has(vs, key)
    PROVE  Get(vs, key) \in T /\ KeyOf(Get(vs, key)) = key
<1>1. PICK k : FirstAt(vs, key, k)
  BY FirstExists, Zenon
<1>2. Get(vs, key) = vs[k]
  BY <1>1, GetIsFirst, Zenon
<1> QED
  BY <1>1, <1>2, SeqElement DEF FirstAt

\* SameFor is an equivalence.
LEMMA SameForTransitive ==
    ASSUME NEW key, NEW us, NEW vs, NEW ws, SameFor(key, us, vs), SameFor(key, vs, ws)
    PROVE  SameFor(key, us, ws)
BY Zenon DEF SameFor

\* Without drops every match and nothing else.
LEMMA WithoutProperties ==
    ASSUME NEW T, NEW vs \in Seq(T), NEW key
    PROVE  /\ Without(vs, key) \in Seq(T)
           /\ ~Has(Without(vs, key), key)
           /\ \A other : other # key => SameFor(other, vs, Without(vs, key))
<1> DEFINE S == {k \in DOMAIN vs : KeyOf(vs[k]) # key}
           ws == Kept(vs, S)
<1>1. Len(vs) \in Nat /\ DOMAIN vs = 1 .. Len(vs)
  BY SeqDomain
<1>2. Without(vs, key) = ws
  BY DEF Without
<1>3. \A k \in 1 .. Len(vs) : k \in S <=> KeyOf(vs[k]) # key
  BY <1>1
<1> HIDE DEF S
<1>4. ws \in Seq(T) /\ \E at : Places(vs, S, Len(vs), ws, at)
  BY KeptPlaces, Zenon
<1>5. PICK at : Places(vs, S, Len(vs), ws, at)
  BY <1>4
<1> HIDE DEF ws
<1>6. Len(ws) \in Nat /\ DOMAIN ws = 1 .. Len(ws)
  BY <1>4, SeqDomain
<1>7. \A j \in 1 .. Len(ws) : at[j] \in 1 .. Len(vs) /\ at[j] \in S /\ ws[j] = vs[at[j]]
  BY <1>5 DEF Places
<1>8. ~Has(ws, key)
  BY <1>3, <1>6, <1>7, Zenon DEF Has
<1>9. ASSUME NEW other, other # key PROVE SameFor(other, vs, ws)
  <2>1. CASE Has(vs, other)
    <3>1. PICK i : FirstAt(vs, other, i)
      BY <2>1, FirstExists, Zenon
    <3>2. i \in 1 .. Len(vs) /\ KeyOf(vs[i]) = other /\ i \in S
      BY <1>3, <1>9, <3>1, Zenon DEF FirstAt
    <3>3. PICK j \in 1 .. Len(ws) : at[j] = i
      BY <1>5, <3>2, Zenon DEF Places
    <3>4. \A l \in 1 .. Len(ws) : KeyOf(ws[l]) = other => j <= l
      <4> TAKE l \in 1 .. Len(ws)
      <4> HAVE KeyOf(ws[l]) = other
      <4>1. i <= at[l] /\ at[l] \in Nat /\ i \in Nat
        BY <1>7, <3>1 DEF FirstAt
      <4>2. l < j => at[l] < at[j]
        BY <1>5, Zenon DEF Places
      <4> QED
        BY <1>6, <3>3, <4>1, <4>2
    <3>5. FirstAt(ws, other, j)
      BY <1>7, <3>2, <3>3, <3>4, Zenon DEF FirstAt
    <3>6. Has(ws, other) /\ Get(ws, other) = ws[j] /\ Get(vs, other) = vs[i]
      BY <1>4, <3>1, <3>5, GetIsFirst, Zenon
    <3> QED
      BY <1>7, <2>1, <3>3, <3>6, Zenon DEF SameFor
  <2>2. CASE ~Has(vs, other)
    <3>1. ~Has(ws, other)
      BY <1>1, <1>6, <1>7, <2>2, Zenon DEF Has
    <3> QED
      BY <2>2, <3>1, Zenon DEF SameFor
  <2> QED
    BY <2>1, <2>2
<1> QED
  BY <1>2, <1>4, <1>8, <1>9, Zenon

\* A variable that is appended is found, unless its key was there before.
LEMMA AppendFinds ==
    ASSUME NEW T, NEW vs \in Seq(T), NEW v \in T
    PROVE  /\ Append(vs, v) \in Seq(T)
           /\ ~Has(vs, KeyOf(v)) => /\ Has(Append(vs, v), KeyOf(v))
                                    /\ Get(Append(vs, v), KeyOf(v)) = v
           /\ \A other : other # KeyOf(v) => SameFor(other, vs, Append(vs, v))
<1> DEFINE ws == Append(vs, v)
           n == Len(vs)
<1>1. n \in Nat /\ DOMAIN vs = 1 .. n
  BY SeqDomain
<1>2. /\ ws \in Seq(T) /\ Len(ws) = n + 1 /\ ws[n + 1] = v /\ DOMAIN ws = 1 .. n + 1
      /\ \A j \in 1 .. n : ws[j] = vs[j]
  BY SeqAppend, SeqDomain
<1> HIDE DEF ws, n
<1>3. \A j \in 1 .. n + 1 : j \in 1 .. n \/ j = n + 1
  BY <1>1
<1>4. ASSUME ~Has(vs, KeyOf(v)) PROVE Has(ws, KeyOf(v)) /\ Get(ws, KeyOf(v)) = v
  <2>1. \A j \in 1 .. n : KeyOf(ws[j]) # KeyOf(v)
    BY <1>1, <1>2, <1>4, Zenon DEF Has
  <2>2. n + 1 \in 1 .. n + 1 /\ n + 1 <= n + 1
    BY <1>1
  <2>3. FirstAt(ws, KeyOf(v), n + 1)
    BY <1>2, <1>3, <2>1, <2>2, Zenon DEF FirstAt
  <2> QED
    BY <1>2, <2>3, GetIsFirst, Zenon
<1>5. ASSUME NEW other, other # KeyOf(v) PROVE SameFor(other, vs, ws)
  <2>1. CASE Has(vs, other)
    <3>1. PICK i : FirstAt(vs, other, i)
      BY <2>1, FirstExists, Zenon
    <3>2. i \in 1 .. n /\ KeyOf(vs[i]) = other /\ \A j \in 1 .. n : KeyOf(vs[j]) = other => i <= j
      BY <3>1, Zenon DEF FirstAt, n
    <3>3. i \in 1 .. n + 1 /\ i <= n + 1
      BY <1>1, <3>2
    <3>4. FirstAt(ws, other, i)
      BY <1>2, <1>3, <3>2, <3>3, Zenon DEF FirstAt
    <3>5. Has(ws, other) /\ Get(ws, other) = ws[i] /\ Get(vs, other) = vs[i]
      BY <1>2, <3>1, <3>4, GetIsFirst, Zenon
    <3> QED
      BY <1>2, <2>1, <3>2, <3>5, Zenon DEF SameFor
  <2>2. CASE ~Has(vs, other)
    <3>1. ~Has(ws, other)
      BY <1>1, <1>2, <1>3, <1>5, <2>2, Zenon DEF Has
    <3> QED
      BY <2>2, <3>1, Zenon DEF SameFor
  <2> QED
    BY <2>1, <2>2
<1> QED
  BY <1>2, <1>4, <1>5, Zenon DEF ws

\* The list Set hands to flush has the variable, alone under its key; the one
\* Delete hands to it has none under the key.  Every other key is untouched.
LEMMA NewVarsProperties ==
    ASSUME NEW T, NEW vs \in Seq(T), NEW op,
           op.kind = "set" => op.var \in T /\ op.key = KeyOf(op.var)
    PROVE  /\ NewVars(vs, op) \in Seq(T)
           /\ op.kind = "set" => /\ Has(NewVars(vs, op), op.key)
                                 /\ Get(NewVars(vs, op), op.key) = op.var
           /\ op.kind # "set" => ~Has(NewVars(vs, op), op.key)
           /\ \A other : other # op.key => SameFor(other, vs, NewVars(vs, op))
<1> DEFINE ws == Without(vs, op.key)
<1>1. /\ ws \in Seq(T) /\ ~Has(ws, op.key)
      /\ \A other : other # op.key => SameFor(other, vs, ws)
  BY WithoutProperties, Zenon
<1> HIDE DEF ws
<1>2. CASE op.kind = "set"
  <2>1. NewVars(vs, op) = Append(ws, op.var)
    BY <1>2 DEF NewVars, ws
  <2>2. /\ Append(ws, op.var) \in Seq(T)
        /\ Has(Append(ws, op.var), op.key) /\ Get(Append(ws, op.var), op.key) = op.var
        /\ \A other : other # op.key => SameFor(other, ws, Append(ws, op.var))
    BY <1>1, <1>2, AppendFinds, ZenonT(60)
  <2>3. \A other : other # op.key => SameFor(other, vs, Append(ws, op.var))
    BY <1>1, <2>2, SameForTransitive, Zenon
  <2> QED
    BY <1>2, <2>1, <2>2, <2>3, Zenon
<1>3. CASE op.kind # "set"
  <2>1. NewVars(vs, op) = ws
    BY <1>3 DEF NewVars, ws
  <2> QED
    BY <1>1, <1>3, <2>1, Zenon
<1> QED
  BY <1>2, <1>3

-----------------------------------------------------------------------------
(***************************************************************************)
(* What the invariant says of lists, files and handles.                    *)
(***************************************************************************)

\* A list over a set is one over a larger set.
LEMMA SeqMonotone ==
    ASSUME NEW S, NEW T, S \subseteq T, NEW s \in Seq(S)
    PROVE  s \in Seq(T)
<1>1. Len(s) \in Nat /\ DOMAIN s = 1 .. Len(s) /\ s \in [1 .. Len(s) -> S]
  BY SeqDomain
<1> QED
  BY <1>1

\* All variables are admitted.
LEMMA VariablesAdmitted == Admits(Variable)
<1>1. \A v \in Variable : Canonical(v) \in Variable
  BY CanonicalVariable
<1>2. Values \subseteq Variable /\ Renames \subseteq Name \X Name /\ FsGuid \in Guid /\ FsAttrs \in Attr
  BY CallerAssumption
<1>3. \A v \in Values : [name |-> v.name, guid |-> FsGuid, attrs |-> FsAttrs, data |-> v.data] \in Variable
  BY <1>2 DEF Variable
<1>4. \A p \in Renames : \A v \in Variable : [v EXCEPT !.name = p[2]] \in Variable
  BY <1>2 DEF Variable
<1>5. \A f \in Images : Opens(f) => Parsed(f) \in Seq(Variable)
  <2>1. Canonicals \subseteq Variable
    BY DEF Canonicals
  <2> QED
    BY <2>1, ImageAssumption, SeqMonotone, Zenon
<1> QED
  BY <1>1, <1>2, <1>3, <1>4, <1>5 DEF Admits

\* A call that keeps to T is a call.
LEMMA CallIsTyped ==
    ASSUME NEW T, T \subseteq Variable, NEW c \in CallsOn(T)
    PROVE  c # NoCall
<1>1. OpsOn(T) \subseteq Operation
  BY DEF OpsOn
<1>2. c.todo \in Seq(Operation) /\ c.args \in Seq(Operation)
  BY <1>1, SeqMonotone DEF CallsOn
<1>3. c.before \in Seq(Variable) /\ c.disk \in Seq(Variable)
  BY SeqMonotone DEF CallsOn
<1>4. c \in Call
  BY <1>2, <1>3 DEF CallsOn, Call
<1> QED
  BY <1>4, CallerAssumption

\* A file that holds variables of T parses to variables of T.
LEMMA HeldParses ==
    ASSUME NEW T, Admits(T), NEW f \in File, Holds(T, f), Opens(f)
    PROVE  Parsed(f) \in Seq(T)
<1>1. CASE f \in Images
  BY <1>1 DEF Admits
<1>2. CASE \E vs \in Seq(T) : f.recs = Serialized(vs) /\ PayloadLen(vs, IsAuth(f)) + 3 < Word
  <2>1. PICK vs \in Seq(T) : f.recs = Serialized(vs) /\ PayloadLen(vs, IsAuth(f)) + 3 < Word
    BY <1>2
  <2>2. vs \in Seq(Variable)
    BY SeqMonotone DEF Admits
  <2>3. PICK m \in 0 .. Len(vs) : Parsed(f) = [k \in 1 .. m |-> Canonical(vs[k])]
    BY <2>1, <2>2, ParsedOfWritten, Zenon
  <2>4. m \in Nat /\ \A k \in 1 .. m : vs[k] \in T
    BY SeqDomain, SeqElement
  <2>5. \A k \in 1 .. m : Canonical(vs[k]) \in T
    BY <2>4 DEF Admits
  <2> HIDE DEF Canonical
  <2> QED
    BY <2>3, <2>4, <2>5
<1> QED
  BY <1>1, <1>2 DEF Holds

\* The file Format writes is the image of an empty list.
LEMMA FreshWritten ==
    ASSUME NEW T
    PROVE  /\ Fresh \in File
           /\ \E vs \in Seq(T) : Fresh.recs = Serialized(vs) /\ PayloadLen(vs, IsAuth(Fresh)) + 3 < Word
<1>1. Fresh \in File /\ Fresh.recs = <<>>
  BY ImageAssumption
<1>2. <<>> \in Seq(T) /\ <<>> \in Seq(Variable) /\ Len(<<>>) = 0
  OBVIOUS
<1>3. Serialized(<<>>) = <<>>
  <2>1. Len(Serialized(<<>>)) = 0 /\ Serialized(<<>>) \in Seq(Record)
    BY <1>2, SerializedRecords, Zenon
  <2> QED
    BY <2>1, SeqEmpty
<1>4. PayloadLen(<<>>, IsAuth(Fresh)) = 0
  <2>1. IsAuth(Fresh) \in BOOLEAN
    BY DEF IsAuth
  <2>2. PICK sum : Sums(<<>>, IsAuth(Fresh), sum) /\ PayloadLen(<<>>, IsAuth(Fresh)) = sum[Len(<<>>)]
    BY <1>2, <2>1, PayloadLenUnfolds, Zenon
  <2> QED
    BY <1>2, <2>2 DEF Sums
<1>5. 0 + 3 < Word
  BY WordIsWide
<1> QED
  BY <1>1, <1>2, <1>3, <1>4, <1>5, Zenon

\* The extent of a store that opens, as the handle keeps it.
LEMMA OpenedAgrees ==
    ASSUME NEW T, NEW f \in File, Opens(f), Parsed(f) \in Seq(T)
    PROVE  Agrees(T, OpenedOn(f), f)
<1>1. /\ f.len \in Nat /\ f.size \in 0 .. Word - 1 /\ f.fv \in BOOLEAN
  BY DEF File
<1>2. StoreOff(f) + StoreHeaderSize <= f.len /\ f.sig \in {"auth", "plain"} /\ f.formatted /\ f.healthy
  BY DEF Opens, HeaderAccepted
<1>3. StoreOff(f) = IF f.fv THEN FvHeaderSize ELSE 0
  BY <1>1 DEF Opens, HeaderAccepted, StoreOff, FvWrapped
<1>4. StoreOff(f) \in {0, FvHeaderSize} /\ StoreOff(f) \in Nat /\ IsAuth(f) \in BOOLEAN
  BY <1>3 DEF FvHeaderSize, IsAuth
<1>5. StoreSize(f) \in 0 .. Word - 1 /\ StoreSize(f) <= f.size
  <2> DEFINE z == f.len - StoreOff(f)
  <2>1. z \in Nat
    BY <1>1, <1>2, <1>4 DEF StoreHeaderSize
  <2>2. StoreSize(f) = IF f.size > z THEN U32(z) ELSE f.size
    BY DEF StoreSize, ClampedSize
  <2> HIDE DEF z
  <2>3. U32(z) \in 0 .. Word - 1 /\ U32(z) <= z
    BY <2>1, WordIsWide DEF U32
  <2> QED
    BY <1>1, <2>1, <2>2, <2>3, WordIsWide
<1> QED
  BY <1>2, <1>3, <1>4, <1>5, Zenon DEF Agrees, OpenedOn, StoreOf

\* Whatever keeps the header of the file keeps the handles.
LEMMA AgreesCarries ==
    ASSUME NEW T, NEW s, NEW f, NEW g, Agrees(T, s, f), g \in File, SameRest(g, f)
    PROVE  Agrees(T, s, g)
BY Zenon DEF Agrees, SameRest, IsAuth

\* A built file reads back as the list of the handle.
LEMMA BuiltReadsBack ==
    ASSUME LimitBelowWord, NEW T, T \subseteq Variable, NEW s, NEW f, Agrees(T, s, f),
           Built(f, s)
    PROVE  /\ Parsed(f) = CanonicalList(s.vars)
           /\ PayloadLen(s.vars, IsAuth(f)) + 3 < Word
           /\ Readable(f) /\ HeaderAccepted(f)
<1>1. s.vars \in Seq(Variable) /\ s.size \in Nat
  BY SeqMonotone, WordIsWide DEF Agrees, StoreOf
<1>2. Parsed(f) = CanonicalList(s.vars) /\ PayloadLen(s.vars, IsAuth(f)) + 3 < Word
  BY <1>1, ReadsBack, Zenon DEF Agrees, Built
<1>3. Readable(f)
  BY ImageAssumption DEF Readable, Built
<1>4. f.len \in Nat /\ f.fv \in BOOLEAN
  BY DEF File, Agrees
<1>5. f.len >= s.off + StoreHeaderSize /\ s.off = (IF f.fv THEN FvHeaderSize ELSE 0)
  BY Zenon DEF Built, StoreFits, Agrees
<1>6. StoreOff(f) = s.off /\ (f.fv => FvWrapped(f))
  BY <1>4, <1>5 DEF StoreOff, FvWrapped, FvHeaderSize, StoreHeaderSize
<1>7. StoreOff(f) + StoreHeaderSize <= f.len
  BY <1>4, <1>5, <1>6 DEF StoreHeaderSize, FvHeaderSize
<1>8. HeaderAccepted(f)
  BY <1>6, <1>7, Zenon DEF HeaderAccepted, Agrees
<1> QED
  BY <1>2, <1>3, <1>8

-----------------------------------------------------------------------------
(***************************************************************************)
(* Every step preserves the invariant.                                     *)
(***************************************************************************)

\* The program starts with no handle and no call.
LEMMA StoreInitEstablishes ==
    ASSUME NEW T, Init
    PROVE  StoreInv(T)
<1>1. FileInv(T)
  BY ImageAssumption DEF Init, FileInv, Holds
<1>2. HandleInv(T)
  BY DEF Init, HandleInv
<1> QED
  BY <1>1, <1>2 DEF Init, StoreInv, CallInv

\* A call begins on an open handle and has written nothing.
LEMMA BeginPreserves ==
    ASSUME NEW T, Admits(T), StoreInv(T), NEW h \in Handle, hnd[h] # Closed,
           NEW op, NEW todo, Startable(T, op, todo), Begin(h, op, todo)
    PROVE  StoreInv(T)'
<1>1. UNCHANGED <<file, hnd>>
  BY DEF Begin
<1>2. FileInv(T)' /\ HandleInv(T)'
  BY <1>1 DEF StoreInv, FileInv, HandleInv
<1>3. Agrees(T, hnd[h], file)
  BY DEF StoreInv, HandleInv
<1>4. hnd[h].vars \in Seq(T)
  BY <1>3 DEF Agrees, StoreOf
<1> DEFINE disk == IF Opens(file) THEN Parsed(file) ELSE <<>>
<1>5. disk \in Seq(T)
  <2>1. CASE Opens(file)
    <3>1. file \in File /\ Holds(T, file)
      BY <2>1 DEF StoreInv, FileInv, Opens, Readable
    <3> QED
      BY <2>1, <3>1, HeldParses, Zenon
  <2>2. CASE ~Opens(file)
    BY <2>2
  <2> QED
    BY <2>1, <2>2
<1>6. call' = [op |-> op, h |-> h, todo |-> todo, stage |-> "flush", buf |-> NoFile,
               args |-> todo, before |-> hnd[h].vars, disk |-> disk]
  BY DEF Begin
<1> HIDE DEF disk
<1>7. call' \in CallsOn(T)
  BY <1>4, <1>5, <1>6, ZenonT(60) DEF CallsOn, Startable
<1>8. call'.op = op /\ call'.h = h /\ call'.todo = todo /\ call'.args = todo /\ call'.stage = "flush"
  BY <1>6
<1>9. Updating(T, call)'
  BY <1>1, <1>3, <1>8, Zenon DEF Updating
<1>10. op \in {"Set", "Delete"} => Single(call)'
  BY <1>8 DEF Single, Startable
<1>11. op # "Format"
  BY DEF Startable
<1>12. CallInv(T)'
  BY <1>7, <1>8, <1>9, <1>10, <1>11 DEF CallInv, Startable
<1> QED
  BY <1>2, <1>12 DEF StoreInv

\* A refused call changes nothing but the result.
LEMMA RefusalPreserves ==
    ASSUME NEW T, StoreInv(T), UNCHANGED <<file, hnd, call>>
    PROVE  StoreInv(T)'
BY Zenon DEF StoreInv, FileInv, HandleInv, CallInv, Formatting, Updating, Single

\* A Set or Delete on variables of T is one of the operations of the invariant.
LEMMA OperationsTyped ==
    ASSUME NEW T, T \subseteq Variable
    PROVE  /\ \A v \in T : SetOp(v) \in OpsOn(T) /\ ~SetOp(v).lax
           /\ \A key \in Key : \A lax \in BOOLEAN : DeleteOp(key, lax) \in OpsOn(T) /\ DeleteOp(key, lax).lax = lax
           /\ FailOp \in OpsOn(T) /\ [kind |-> "format", lax |-> FALSE] \in OpsOn(T)
<1>1. ASSUME NEW v \in T PROVE SetOp(v) \in OpsOn(T) /\ ~SetOp(v).lax
  <2>1. v \in Variable
    OBVIOUS
  <2>2. KeyOf(v) \in Key
    BY <2>1 DEF Variable, KeyOf, Key
  <2> HIDE DEF KeyOf
  <2>3. SetOp(v) \in Operation
    BY <2>1, <2>2, Zenon DEF SetOp, Operation
  <2> QED
    BY <2>3 DEF SetOp, OpsOn
<1>2. ASSUME NEW key \in Key, NEW lax \in BOOLEAN
      PROVE  DeleteOp(key, lax) \in OpsOn(T) /\ DeleteOp(key, lax).lax = lax
  <2>1. DeleteOp(key, lax) \in Operation
    BY Zenon DEF DeleteOp, Operation
  <2> QED
    BY <2>1 DEF DeleteOp, OpsOn
<1>3. FailOp \in OpsOn(T) /\ [kind |-> "format", lax |-> FALSE] \in OpsOn(T)
  BY DEF FailOp, OpsOn, Operation
<1> QED
  BY <1>1, <1>2, <1>3

\* Lists of one, two and three operations.
LEMMA ShortLists ==
    ASSUME NEW S, NEW a \in S, NEW b \in S, NEW c \in S
    PROVE  /\ <<a>> \in Seq(S) /\ <<a>> # <<>> /\ Len(<<a>>) = 1 /\ <<a>>[1] = a
           /\ <<a, b>> \in Seq(S) /\ <<a, b>> # <<>> /\ Len(<<a, b>>) = 2
           /\ <<a, b>>[1] = a /\ <<a, b>>[2] = b
           /\ <<a, b, c>> \in Seq(S) /\ <<a, b, c>> # <<>> /\ Len(<<a, b, c>>) = 3
           /\ <<a, b, c>>[1] = a /\ <<a, b, c>>[2] = b /\ <<a, b, c>>[3] = c
OBVIOUS

\* Rename is a Set of the copy and a Delete whose result is dropped.
LEMMA RenameBegins ==
    ASSUME NEW T, Admits(T), StoreInv(T), NEW h \in Handle, NEW p \in Renames, Rename(h, p[1], p[2])
    PROVE  \/ UNCHANGED <<file, hnd, call>>
           \/ \E v \in T : \E from \in Key :
                 /\ v.name = p[2] /\ from = PathKey(p[1]) /\ v.guid = from.guid
                 /\ hnd[h] # Closed /\ SetOp(v) \in OpsOn(T) /\ DeleteOp(from, TRUE) \in OpsOn(T)
                 /\ ~SetOp(v).lax
                 /\ Begin(h, "Rename", <<SetOp(v), DeleteOp(from, TRUE)>>)
<1> DEFINE from == PathKey(p[1])
           copy == [Get(hnd[h].vars, from) EXCEPT !.name = p[2]]
<1>1. CASE Has(hnd[h].vars, from) /\ Begin(h, "Rename", <<SetOp(copy), DeleteOp(from, TRUE)>>)
  <2>1. hnd[h] # Closed /\ T \subseteq Variable
    BY DEF Rename, Admits
  <2>2. hnd[h].vars \in Seq(T)
    BY <2>1 DEF StoreInv, HandleInv, Agrees, StoreOf
  <2>3. Get(hnd[h].vars, from) \in T /\ KeyOf(Get(hnd[h].vars, from)) = from
    BY <1>1, <2>2, GetProperties, ZenonT(60)
  <2>4. Get(hnd[h].vars, from).name = p[1] /\ Get(hnd[h].vars, from).guid = from.guid
    BY <2>3 DEF KeyOf, PathKey
  <2>5. copy \in T
    BY <2>3, <2>4, Zenon DEF Admits
  <2>6. p[1] \in Name /\ FsGuid \in Guid
    BY CallerAssumption
  <2>7. from \in Key
    BY <2>6 DEF PathKey, Key
  <2>8. copy.name = p[2] /\ copy.guid = from.guid
    BY <2>1, <2>3, <2>4 DEF Variable
  <2> HIDE DEF copy
  <2>9. SetOp(copy) \in OpsOn(T) /\ DeleteOp(from, TRUE) \in OpsOn(T) /\ ~SetOp(copy).lax
    BY <2>1, <2>5, <2>7, OperationsTyped, Zenon
  <2> QED
    BY <1>1, <2>1, <2>5, <2>7, <2>8, <2>9, Zenon
<1> QED
  BY <1>1, Zenon DEF Rename

\* When an operation is through, a call of several operations goes on with the
\* next one on the same handle; any other call returns.
LEMMA CompletedContinues ==
    ASSUME NEW T, T \subseteq Variable, call \in CallsOn(T), call.todo # <<>>, Completed
    PROVE  \/ Len(call.todo) = 1 /\ call' = NoCall /\ ret' = "ok"
           \/ /\ Len(call.todo) > 1 /\ UNCHANGED ret
              /\ call' \in CallsOn(T) /\ call'.todo # <<>> /\ call'.stage = "flush"
              /\ call'.todo = Tail(call.todo) /\ call'.op = call.op /\ call'.h = call.h
              /\ call'.args = call.args /\ call'.before = call.before /\ call'.disk = call.disk
<1>1. CASE Len(call.todo) = 1
  BY <1>1 DEF Completed, Return
<1>2. CASE Len(call.todo) # 1
  <2>1. call.todo \in Seq(OpsOn(T))
    BY DEF CallsOn
  <2>2. Len(call.todo) \in Nat /\ Len(call.todo) # 0
    BY <2>1, SeqDomain, SeqEmpty
  <2> DEFINE n == Len(call.todo)
  <2>3. n \in Nat /\ n # 0 /\ n # 1
    BY <1>2, <2>2
  <2> HIDE DEF n
  <2>4. Tail(call.todo) \in Seq(OpsOn(T)) /\ Len(Tail(call.todo)) = Len(call.todo) - 1
    BY <2>1, SeqRest
  <2>5. n > 1 /\ n - 1 # 0
    BY <2>3
  <2>6. call' = [call EXCEPT !.todo = Tail(call.todo), !.stage = "flush"] /\ UNCHANGED ret
    BY <1>2 DEF Completed
  <2>7. Tail(call.todo) # <<>> /\ Len(call.todo) > 1
    <3>1. Len(Tail(call.todo)) # 0 /\ Len(call.todo) > 1
      BY <2>4, <2>5, Zenon DEF n
    <3>2. Len(<<>>) = 0
      OBVIOUS
    <3> QED
      BY <3>1, <3>2, Zenon
  <2> QED
    BY <2>4, <2>6, <2>7, Zenon DEF CallsOn
<1> QED
  BY <1>1, <1>2

\* A failed operation ends the call, or is passed over if the call ignores it.
LEMMA FailedContinues ==
    ASSUME NEW T, T \subseteq Variable, call \in CallsOn(T), call.todo # <<>>, Failed
    PROVE  \/ ~call.todo[1].lax /\ call' = NoCall /\ ret' = "err"
           \/ call.todo[1].lax /\ Completed
BY DEF Failed, Return

\* The part of the invariant about the call after an operation ended, done or
\* not, when handle and file still agree.
LEMMA EndedPreserves ==
    ASSUME NEW T, T \subseteq Variable, CallInv(T), call # NoCall, call.op # "Format",
           Completed \/ Failed, UNCHANGED hnd, Agrees(T, hnd[call.h], file')
    PROVE  CallInv(T)'
<1>1. call \in CallsOn(T) /\ call.todo # <<>> /\ (call.op \in {"Set", "Delete"} => Single(call))
  BY DEF CallInv
<1>2. CASE call' = NoCall
  BY <1>2 DEF CallInv
<1>3. CASE Completed
  <2>1. CASE Len(call.todo) > 1 /\ call' \in CallsOn(T) /\ call'.todo # <<>> /\ call'.stage = "flush"
                /\ call'.op = call.op /\ call'.h = call.h
    <3>1. call.op \notin {"Set", "Delete"}
      <4>1. ~(1 > 1)
        OBVIOUS
      <4> QED
        BY <1>1, <2>1, <4>1, Zenon DEF Single
    <3>2. call'.op # "Format" /\ call'.op \notin {"Set", "Delete"}
      BY <2>1, <3>1
    <3>3. Updating(T, call)'
      BY <2>1, Zenon DEF Updating
    <3> QED
      BY <2>1, <3>2, <3>3, Zenon DEF CallInv
  <2> QED
    BY <1>1, <1>2, <1>3, <2>1, CompletedContinues, Zenon
<1> QED
  BY <1>1, <1>2, <1>3, FailedContinues, Zenon

\* The first of the operations a call still has to make.
LEMMA FirstOperation ==
    ASSUME NEW T, NEW c \in CallsOn(T), c.todo # <<>>
    PROVE  c.todo[1] \in OpsOn(T) /\ Len(c.todo) \in Nat /\ Len(c.todo) >= 1
<1>1. c.todo \in Seq(OpsOn(T))
  BY DEF CallsOn
<1>2. Len(c.todo) \in Nat /\ Len(c.todo) # 0
  BY <1>1, SeqDomain, SeqEmpty
<1> QED
  BY <1>1, <1>2, SeqElement

\* flush accepts: the list in memory is the one that will be written.
LEMMA FlushAcceptedPreserves ==
    ASSUME NEW T, Admits(T), StoreInv(T), FlushAccepted
    PROVE  StoreInv(T)' /\ call' # NoCall
\* flush builds an image of the new list behind the headers of the file.
<1>builds. ASSUME NEW s, Agrees(T, s, file), NEW o \in OpsOn(T), Acceptable(s, o), NEW new,
                  new = NewVars(s.vars, o), NEW t, t = [s EXCEPT !.vars = new], NEW b,
                  b = BuildStore(file, s, new)
           PROVE  new \in Seq(T) /\ Agrees(T, t, file) /\ Built(b, t) /\ SameRest(b, file)
  <2> USE <1>builds
  <2>1. s \in StoreOf(T) /\ file \in File /\ s.vars \in Seq(T) /\ s.size <= file.size
    BY DEF Agrees, StoreOf
  <2>2. new \in Seq(T)
    BY <2>1, NewVarsProperties, Zenon DEF OpsOn
  <2>3. /\ t \in StoreOf(T) /\ t.vars = new
        /\ t.off = s.off /\ t.auth = s.auth /\ t.size = s.size
    BY <2>1, <2>2 DEF StoreOf
  <2>4. Agrees(T, t, file)
    BY <2>3, Zenon DEF Agrees
  <2>5. new \in Seq(Variable)
    BY <2>2, SeqMonotone DEF Admits
  <2>6. Serialized(new) \in Seq(Record)
    BY <2>5, SerializedRecords
  <2>7. ~(s.size > file.size)
    BY <2>1, WordIsWide DEF StoreOf, File
  <2>8. b = [file EXCEPT !.recs = Serialized(new), !.tail = file.tail]
    BY <2>7 DEF BuildStore
  <2> HIDE DEF Serialized
  <2>9. b \in File /\ b.recs = Serialized(new) /\ b.len = file.len /\ SameRest(b, file)
    BY <2>1, <2>6, <2>8, Zenon DEF File, SameRest
  <2>10. file.len <= MaxFileSize /\ StoreFits(file, s, new)
    BY DEF Acceptable, Readable
  <2>11. StoreFits(b, t, new)
    BY <2>3, <2>9, <2>10, Zenon DEF StoreFits
  <2> QED
    BY <2>2, <2>3, <2>4, <2>9, <2>10, <2>11, Zenon DEF Built
<1> DEFINE s == hnd[call.h]
           o == call.todo[1]
           new == NewVars(s.vars, o)
           t == [s EXCEPT !.vars = new]
           b == BuildStore(file, s, new)
<1>1. /\ call # NoCall /\ call.stage = "flush" /\ Acceptable(s, o)
      /\ hnd' = [hnd EXCEPT ![call.h].vars = new]
      /\ call' = [call EXCEPT !.stage = "open", !.buf = b]
      /\ UNCHANGED <<file, ret>>
  BY DEF FlushAccepted, Running
<1>2. call \in CallsOn(T) /\ call.todo # <<>> /\ call.op # "Format" /\ Agrees(T, s, file)
      /\ (call.op \in {"Set", "Delete"} => Single(call))
  BY <1>1 DEF StoreInv, CallInv, Formatting, Updating
<1>3. o \in OpsOn(T)
  BY <1>2, FirstOperation, Zenon
<1>4. new \in Seq(T) /\ Agrees(T, t, file) /\ Built(b, t) /\ SameRest(b, file)
  BY <1>1, <1>2, <1>3, <1>builds, Zenon
<1>5. hnd \in [Handle -> StoreOf(T) \cup {Closed}] /\ \A h \in Handle : hnd[h] = Closed \/ Agrees(T, hnd[h], file)
  BY DEF StoreInv, HandleInv
<1>6. call.h \in Handle
  BY <1>2 DEF CallsOn
<1>7. t \in StoreOf(T) /\ b \in File
  BY <1>4 DEF Agrees, Built
<1>8. hnd' = [hnd EXCEPT ![call.h] = t]
  BY <1>1
<1> HIDE DEF o, new, t, b
<1>9. hnd' \in [Handle -> StoreOf(T) \cup {Closed}] /\ hnd'[call.h] = t /\ \A h \in Handle : h # call.h => hnd'[h] = hnd[h]
  BY <1>5, <1>6, <1>7, <1>8
<1>10. \A h \in Handle : hnd'[h] = Closed \/ Agrees(T, hnd'[h], file)
  BY <1>4, <1>5, <1>9, Zenon
<1>11. HandleInv(T)' /\ FileInv(T)'
  BY <1>1, <1>9, <1>10 DEF StoreInv, HandleInv, FileInv
<1>12. /\ call' \in CallsOn(T) /\ call'.todo = call.todo /\ call'.args = call.args /\ call'.op = call.op
       /\ call'.h = call.h /\ call'.stage = "open" /\ call'.buf = b
  BY <1>1, <1>2, <1>7, Zenon DEF CallsOn
<1>13. Updating(T, call)'
  BY <1>1, <1>4, <1>9, <1>12 DEF Updating
<1>14. call'.op \in {"Set", "Delete"} => Single(call)'
  BY <1>2, <1>12 DEF Single
<1>15. CallInv(T)'
  BY <1>2, <1>12, <1>13, <1>14, Zenon DEF CallInv
<1> QED
  BY <1>11, <1>12, <1>15, CallIsTyped DEF StoreInv, Admits

\* A file of any length that starts like an image holds what the image holds,
\* and its handles agree with it as before.
LEMMA CutImage ==
    ASSUME NEW T, NEW b \in File, NEW n \in Nat, NEW f, f = [b EXCEPT !.len = n]
    PROVE  /\ f \in File /\ f.recs = b.recs /\ SameRest(f, b) /\ IsAuth(f) = IsAuth(b) /\ f.len = n
           /\ \A s : Agrees(T, s, b) => Agrees(T, s, f)
<1>1. f \in File /\ f.recs = b.recs /\ SameRest(f, b) /\ f.len = n
  BY DEF File, SameRest
<1> QED
  BY <1>1, AgreesCarries, Zenon DEF SameRest, IsAuth

\* At every point of a write the file holds a list that was written.
LEMMA ImageWritten ==
    ASSUME LimitBelowWord, NEW T, Admits(T), StoreInv(T), call # NoCall,
           call.stage \in {"open", "write"}, Partial(file')
    PROVE  /\ FileInv(T)' /\ file' \in File
           /\ call.op # "Format" =>
                 /\ SameRest(call.buf, file')
                 /\ \A s : Agrees(T, s, file) => Agrees(T, s, file')
<1> DEFINE b == call.buf
<1>1. b \in File
  BY ImageAssumption, Zenon DEF StoreInv, CallInv, Formatting, Updating, Built
<1>2. /\ file' \in File /\ file'.recs = b.recs /\ IsAuth(file') = IsAuth(b) /\ SameRest(b, file')
      /\ \A s : Agrees(T, s, b) => Agrees(T, s, file')
  <2>1. CASE file' = b
    BY <1>1, <2>1 DEF SameRest
  <2>2. CASE \E n \in Nat : file' = [b EXCEPT !.len = n]
    <3>1. PICK n \in Nat : file' = [b EXCEPT !.len = n]
      BY <2>2
    <3> HIDE DEF b
    <3>2. /\ file' \in File /\ file'.recs = b.recs /\ SameRest(file', b) /\ IsAuth(file') = IsAuth(b)
          /\ \A s : Agrees(T, s, b) => Agrees(T, s, file')
      BY <1>1, <3>1, CutImage, Zenon
    <3>3. SameRest(b, file')
      BY <3>2, Zenon DEF SameRest
    <3> QED
      BY <3>2, <3>3, Zenon
  <2> QED
    BY <2>1, <2>2 DEF Partial
<1>3. CASE call.op = "Format"
  <2>1. b = Fresh
    BY <1>3 DEF StoreInv, CallInv, Formatting
  <2>2. PICK vs \in Seq(T) : b.recs = Serialized(vs) /\ PayloadLen(vs, IsAuth(b)) + 3 < Word
    BY <2>1, FreshWritten, Zenon
  <2>3. Holds(T, file')
    BY <1>2, <2>2, Zenon DEF Holds
  <2> QED
    BY <1>2, <1>3, <2>3 DEF FileInv, Holds
<1>4. CASE call.op # "Format"
  <2>1. Agrees(T, hnd[call.h], file) /\ Built(b, hnd[call.h]) /\ SameRest(b, file)
    BY <1>4 DEF StoreInv, CallInv, Updating
  <2>2. hnd[call.h].vars \in Seq(T) /\ b.recs = Serialized(hnd[call.h].vars)
    BY <2>1 DEF Built, Agrees, StoreOf
  <2>3. \A s : Agrees(T, s, file) => Agrees(T, s, b)
    BY <1>1, <2>1, AgreesCarries, Zenon
  <2>4. PayloadLen(hnd[call.h].vars, IsAuth(b)) + 3 < Word
    BY <2>1, <2>3, BuiltReadsBack, Zenon DEF Admits
  <2>5. Holds(T, file')
    BY <1>2, <2>2, <2>4, ZenonT(60) DEF Holds
  <2> QED
    BY <1>2, <2>3, <2>5, ZenonT(60) DEF FileInv, Holds
<1> QED
  BY <1>3, <1>4

\* And it agrees with every handle.
LEMMA WritingPreserves ==
    ASSUME LimitBelowWord, NEW T, Admits(T), StoreInv(T), call # NoCall,
           call.stage \in {"open", "write"}, Partial(file'), UNCHANGED hnd
    PROVE  /\ FileInv(T)' /\ HandleInv(T)' /\ file' \in File
           /\ call.op # "Format" => Agrees(T, hnd[call.h], file') /\ SameRest(call.buf, file')
<1>1. /\ FileInv(T)' /\ file' \in File
      /\ call.op # "Format" =>
            /\ SameRest(call.buf, file')
            /\ \A s : Agrees(T, s, file) => Agrees(T, s, file')
  BY ImageWritten, Zenon
<1>2. hnd \in [Handle -> StoreOf(T) \cup {Closed}] /\ \A h \in Handle : hnd[h] = Closed \/ Agrees(T, hnd[h], file)
  BY DEF StoreInv, HandleInv
<1>3. CASE call.op = "Format"
  <2>1. \A h \in Handle : hnd[h] = Closed
    BY <1>3 DEF StoreInv, CallInv, Formatting
  <2> QED
    BY <1>1, <1>2, <1>3, <2>1 DEF HandleInv
<1>4. CASE call.op # "Format"
  <2>1. Agrees(T, hnd[call.h], file)
    BY <1>4, Zenon DEF StoreInv, CallInv, Updating
  <2>2. \A h \in Handle : hnd[h] = Closed \/ Agrees(T, hnd[h], file')
    BY <1>1, <1>2, <1>4, ZenonT(60)
  <2> QED
    BY <1>1, <1>2, <1>4, <2>1, <2>2, ZenonT(60) DEF HandleInv, Agrees, StoreOf
<1> QED
  BY <1>3, <1>4, Zenon

\* Format is one operation, and its errors are returned.
LEMMA FormatEnds ==
    ASSUME NEW T, CallInv(T), call # NoCall, call.op = "Format", Completed \/ Failed
    PROVE  CallInv(T)' /\ call' = NoCall
<1>1. call.todo = <<[kind |-> "format", lax |-> FALSE]>>
  BY DEF CallInv, Formatting
<1>2. Len(call.todo) = 1 /\ ~call.todo[1].lax
  BY <1>1
<1>3. call' = NoCall
  BY <1>2, Zenon DEF Completed, Failed, Return
<1> QED
  BY <1>3 DEF CallInv

\* An operation of any call ends over a file that agrees with its handle.
LEMMA OperationEnds ==
    ASSUME NEW T, T \subseteq Variable, CallInv(T), call # NoCall, Completed \/ Failed, UNCHANGED hnd,
           call.op # "Format" => Agrees(T, hnd[call.h], file')
    PROVE  CallInv(T)'
BY EndedPreserves, FormatEnds, Zenon

\* os.WriteFile truncates.
LEMMA TruncatePreserves ==
    ASSUME LimitBelowWord, NEW T, Admits(T), StoreInv(T), Truncate
    PROVE  StoreInv(T)' /\ call' # NoCall
<1>1. /\ call # NoCall /\ call.stage = "open" /\ file' = [call.buf EXCEPT !.len = 0]
      /\ call' = [call EXCEPT !.stage = "write"] /\ UNCHANGED <<hnd, ret>>
  BY DEF Truncate, Running
<1>2. call.stage \in {"open", "write"} /\ Partial(file') /\ UNCHANGED hnd
  <2>1. 0 \in Nat
    OBVIOUS
  <2> QED
    BY <1>1, <2>1 DEF Partial
<1>3. /\ FileInv(T)' /\ HandleInv(T)'
      /\ call.op # "Format" => Agrees(T, hnd[call.h], file') /\ SameRest(call.buf, file')
  BY <1>1, <1>2, WritingPreserves, Zenon
<1>4. /\ call \in CallsOn(T) /\ call.todo # <<>>
      /\ (call.op = "Format" => Formatting(call)) /\ (call.op # "Format" => Updating(T, call))
      /\ (call.op \in {"Set", "Delete"} => Single(call))
  BY <1>1 DEF StoreInv, CallInv
<1>5. /\ call' \in CallsOn(T) /\ call'.todo = call.todo /\ call'.args = call.args /\ call'.op = call.op
      /\ call'.h = call.h /\ call'.stage = "write" /\ call'.buf = call.buf
  BY <1>1, <1>4, Zenon DEF CallsOn
<1>6. call.op = "Format" => Formatting(call)'
  BY <1>1, <1>4, <1>5 DEF Formatting
<1>7. call.op # "Format" => Updating(T, call)'
  <2> SUFFICES ASSUME call.op # "Format" PROVE Updating(T, call)'
    OBVIOUS
  <2>1. Built(call.buf, hnd[call.h])
    BY <1>1, <1>4 DEF Updating
  <2> QED
    BY <1>1, <1>3, <1>5, <2>1 DEF Updating
<1>8. call.op \in {"Set", "Delete"} => Single(call)'
  BY <1>4, <1>5 DEF Single
<1>9. CallInv(T)'
  BY <1>4, <1>5, <1>6, <1>7, <1>8, Zenon DEF CallInv
<1> QED
  BY <1>3, <1>5, <1>9, CallIsTyped DEF StoreInv, Admits

\* Every step of a program that uses the store preserves the invariant.
LEMMA StoreNextPreserves ==
    ASSUME LimitBelowWord, NEW T, Admits(T), StoreInv(T), [Next]_vars
    PROVE  StoreInv(T)'
<1> T \subseteq Variable
  BY DEF Admits
\* Open hands out a handle that agrees with the file.
<1>open. ASSUME NEW h \in Handle, Open(h)
         PROVE  StoreInv(T)'
  <2> USE <1>open
  <2>1. UNCHANGED <<file, call>> /\ call = NoCall
    BY DEF Open, Idle
  <2>2. FileInv(T)' /\ CallInv(T)'
    BY <2>1, Zenon DEF StoreInv, FileInv, CallInv
  <2>3. CASE UNCHANGED hnd
    BY <2>1, <2>2, <2>3 DEF StoreInv, HandleInv
  <2>4. CASE Opens(file) /\ hnd' = [hnd EXCEPT ![h] = OpenedOn(file)]
    <3>1. file \in File /\ Holds(T, file)
      BY <2>4 DEF StoreInv, FileInv, Opens, Readable
    <3>2. Parsed(file) \in Seq(T)
      BY <2>4, <3>1, HeldParses, Zenon
    <3>3. Agrees(T, OpenedOn(file), file)
      BY <2>4, <3>1, <3>2, OpenedAgrees, Zenon
    <3>4. OpenedOn(file) \in StoreOf(T)
      BY <3>3 DEF Agrees
    <3>5. hnd \in [Handle -> StoreOf(T) \cup {Closed}] /\ \A g \in Handle : hnd[g] = Closed \/ Agrees(T, hnd[g], file)
      BY DEF StoreInv, HandleInv
    <3> HIDE DEF OpenedOn, Agrees, StoreOf
    <3>6. hnd' \in [Handle -> StoreOf(T) \cup {Closed}]
      BY <2>4, <3>4, <3>5
    <3>7. \A g \in Handle : hnd'[g] = Closed \/ Agrees(T, hnd'[g], file)
      BY <2>4, <3>3, <3>5
    <3> QED
      BY <2>1, <2>2, <3>6, <3>7, Zenon DEF StoreInv, HandleInv, Agrees, StoreOf
  <2> QED
    BY <2>3, <2>4 DEF Open
\* Close forgets a handle.
<1>close. ASSUME NEW h \in Handle, Close(h)
          PROVE  StoreInv(T)'
  <2> USE <1>close
  <2>1. UNCHANGED <<file, call>> /\ call = NoCall /\ hnd' = [hnd EXCEPT ![h] = Closed]
    BY DEF Close, Idle
  <2>2. FileInv(T)' /\ CallInv(T)'
    BY <2>1 DEF StoreInv, FileInv, CallInv
  <2>3. hnd \in [Handle -> StoreOf(T) \cup {Closed}] /\ \A g \in Handle : hnd[g] = Closed \/ Agrees(T, hnd[g], file)
    BY DEF StoreInv, HandleInv
  <2>4. hnd' \in [Handle -> StoreOf(T) \cup {Closed}] /\ \A g \in Handle : hnd'[g] = Closed \/ Agrees(T, hnd'[g], file)
    BY <2>1, <2>3
  <2> QED
    BY <2>1, <2>2, <2>4 DEF StoreInv, HandleInv
\* Set and WriteFile start on an open handle with one set.
<1>set. ASSUME NEW h \in Handle, NEW v \in T, Set(h, v)
        PROVE  StoreInv(T)'
  <2> USE <1>set
  <2>1. hnd[h] # Closed /\ Begin(h, "Set", <<SetOp(v)>>)
    BY DEF Set
  <2>2. SetOp(v) \in OpsOn(T) /\ ~SetOp(v).lax
    BY OperationsTyped DEF Admits
  <2>3. Startable(T, "Set", <<SetOp(v)>>)
    BY <2>2, ShortLists, Zenon DEF Startable
  <2> QED
    BY <2>1, <2>3, BeginPreserves, Zenon
\* Delete and DeleteFile start on an open handle with one strict delete.
<1>delete. ASSUME NEW h \in Handle, NEW key \in Key, Delete(h, key)
           PROVE  StoreInv(T)'
  <2> USE <1>delete
  <2>1. hnd[h] # Closed /\ Begin(h, "Delete", <<DeleteOp(key, FALSE)>>)
    BY DEF Delete
  <2>2. DeleteOp(key, FALSE) \in OpsOn(T) /\ ~DeleteOp(key, FALSE).lax
    BY OperationsTyped, Zenon DEF Admits
  <2>3. Startable(T, "Delete", <<DeleteOp(key, FALSE)>>)
    BY <2>2, ShortLists, Zenon DEF Startable
  <2> QED
    BY <2>1, <2>3, BeginPreserves, Zenon
\* A Rename begins, or finds nothing to rename.
<1>rename. ASSUME NEW h \in Handle, NEW p \in Renames, Rename(h, p[1], p[2])
           PROVE  StoreInv(T)'
  <2> USE <1>rename
  <2>1. CASE UNCHANGED <<file, hnd, call>>
    BY <2>1, RefusalPreserves
  <2>2. ASSUME NEW a \in OpsOn(T), NEW b \in OpsOn(T), hnd[h] # Closed, Begin(h, "Rename", <<a, b>>)
        PROVE  StoreInv(T)'
    <3>1. "Rename" \notin {"Set", "Delete"}
      OBVIOUS
    <3>2. Startable(T, "Rename", <<a, b>>)
      BY <3>1, ShortLists, Zenon DEF Startable
    <3> QED
      BY <2>2, <3>2, BeginPreserves, Zenon
  <2> QED
    BY <2>1, <2>2, RenameBegins, Zenon
\* Format begins with every handle closed.
<1>format. ASSUME NEW h \in Handle, Format(h)
           PROVE  StoreInv(T)'
  <2> USE <1>format
  <2>1. UNCHANGED <<file, hnd>> /\ \A g \in Handle : hnd[g] = Closed
    BY DEF Format
  <2>2. FileInv(T)' /\ HandleInv(T)'
    BY <2>1, Zenon DEF StoreInv, FileInv, HandleInv
  <2> DEFINE o == [kind |-> "format", lax |-> FALSE]
  <2>3. o \in OpsOn(T) /\ Fresh \in File
    BY OperationsTyped, ImageAssumption, Zenon
  <2>4. call' = [op |-> "Format", h |-> h, todo |-> <<o>>, stage |-> "open", buf |-> Fresh,
                 args |-> <<>>, before |-> <<>>, disk |-> <<>>]
    BY DEF Format
  <2> HIDE DEF o
  <2>5. call' \in CallsOn(T) /\ call'.todo # <<>>
    <3>1. <<o>> \in Seq(OpsOn(T)) /\ <<>> \in Seq(OpsOn(T)) /\ <<>> \in Seq(T) /\ <<o>> # <<>>
      BY <2>3
    <3>2. "Format" \in {"Set", "Delete", "Rename", "Format", "Enroll", "AuthWrite", "AddBootEntry"}
          /\ "open" \in {"flush", "open", "write", "reopen"}
      BY SMT
    <3> QED
      BY <2>3, <2>4, <3>1, <3>2 DEF CallsOn
  <2>6. call'.op = "Format" /\ call'.todo = <<o>> /\ call'.stage = "open" /\ call'.buf = Fresh
    BY <2>4
  <2>7. Formatting(call)'
    BY <2>1, <2>6 DEF Formatting, o
  <2>8. "Format" \notin {"Set", "Delete"}
    OBVIOUS
  <2>9. CallInv(T)'
    BY <2>5, <2>6, <2>7, <2>8, Zenon DEF CallInv
  <2> QED
    BY <2>2, <2>9 DEF StoreInv
\* flush refuses: memory and file stay.
<1>rejected. ASSUME FlushRejected
             PROVE  StoreInv(T)'
  <2> USE <1>rejected
  <2>1. UNCHANGED <<file, hnd>> /\ Failed /\ call # NoCall /\ call.stage = "flush"
    BY DEF FlushRejected, Running
  <2>2. call.op # "Format" /\ Agrees(T, hnd[call.h], file)
    BY <2>1, Zenon DEF StoreInv, CallInv, Formatting, Updating
  <2>3. Agrees(T, hnd[call.h], file')
    BY <2>1, <2>2, Zenon
  <2>4. CallInv(T)'
    BY <2>1, <2>2, <2>3, EndedPreserves, Zenon DEF StoreInv
  <2> QED
    BY <2>1, <2>4 DEF StoreInv, FileInv, HandleInv
\* os.WriteFile cannot open the file: nothing was changed.
<1>openFails. ASSUME OpenFails
              PROVE  StoreInv(T)'
  <2> USE <1>openFails
  <2>1. UNCHANGED <<file, hnd>> /\ Failed /\ call # NoCall
    BY DEF OpenFails, Running
  <2>2. call.op # "Format" => Agrees(T, hnd[call.h], file')
    BY <2>1, Zenon DEF StoreInv, CallInv, Updating
  <2>3. CallInv(T)'
    BY <2>1, <2>2, OperationEnds, Zenon DEF StoreInv
  <2> QED
    BY <2>1, <2>3 DEF StoreInv, FileInv, HandleInv
\* The write goes through.
<1>write. ASSUME Write
          PROVE  StoreInv(T)'
  <2> USE <1>write
  <2>1. call # NoCall /\ call.stage = "write" /\ file' = call.buf /\ UNCHANGED hnd
    BY DEF Write, Running
  <2>2. call.stage \in {"open", "write"} /\ Partial(file')
    BY <2>1 DEF Partial
  <2>3. /\ FileInv(T)' /\ HandleInv(T)'
        /\ call.op # "Format" => Agrees(T, hnd[call.h], file')
    BY <2>1, <2>2, WritingPreserves, Zenon
  <2>4. CASE call.op # "Format"
    <3>1. Completed /\ T \subseteq Variable
      BY <2>4 DEF Write, Admits
    <3>2. CallInv(T)'
      BY <2>1, <2>3, <2>4, <3>1, OperationEnds, ZenonT(60) DEF StoreInv
    <3> QED
      BY <2>3, <3>2 DEF StoreInv
  <2>5. CASE call.op = "Format"
    <3>1. call \in CallsOn(T) /\ call.todo # <<>> /\ Formatting(call)
      BY <2>1, <2>5 DEF StoreInv, CallInv
    <3>2. call' = [call EXCEPT !.stage = "reopen"]
      BY <2>5 DEF Write
    <3>3. /\ call' \in CallsOn(T) /\ call'.todo = call.todo /\ call'.op = "Format"
          /\ call'.stage = "reopen" /\ call'.buf = call.buf
      BY <2>5, <3>1, <3>2, Zenon DEF CallsOn
    <3>4. Formatting(call)'
      BY <2>1, <3>1, <3>3 DEF Formatting
    <3>5. CallInv(T)'
      BY <3>1, <3>3, <3>4 DEF CallInv
    <3> QED
      BY <2>3, <3>5 DEF StoreInv
  <2> QED
    BY <2>4, <2>5
\* Format opens what it wrote.
<1>reopen. ASSUME Reopen
           PROVE  StoreInv(T)'
  <2> USE <1>reopen
  <2>1. call # NoCall /\ call.stage = "reopen" /\ UNCHANGED file
    BY DEF Reopen, Running
  <2>2. call.op = "Format" /\ call \in CallsOn(T)
    BY <2>1, Zenon DEF StoreInv, CallInv, Updating
  <2>3. CallInv(T)' /\ call' = NoCall
    BY <2>1, <2>2, FormatEnds, Zenon DEF Reopen, StoreInv
  <2>4. FileInv(T)'
    BY <2>1 DEF StoreInv, FileInv
  <2>5. hnd \in [Handle -> StoreOf(T) \cup {Closed}] /\ \A g \in Handle : hnd[g] = Closed \/ Agrees(T, hnd[g], file)
    BY DEF StoreInv, HandleInv
  <2>6. CASE UNCHANGED hnd
    BY <2>1, <2>3, <2>4, <2>5, <2>6 DEF StoreInv, HandleInv
  <2>7. CASE Opens(file) /\ hnd' = [hnd EXCEPT ![call.h] = OpenedOn(file)]
    <3>1. file \in File /\ Holds(T, file) /\ call.h \in Handle
      BY <2>2, <2>7 DEF StoreInv, FileInv, Opens, Readable, CallsOn
    <3>2. Parsed(file) \in Seq(T)
      BY <2>7, <3>1, HeldParses, Zenon
    <3>3. Agrees(T, OpenedOn(file), file)
      BY <2>7, <3>1, <3>2, OpenedAgrees, Zenon
    <3>4. OpenedOn(file) \in StoreOf(T)
      BY <3>3 DEF Agrees
    <3>5. hnd' \in [Handle -> StoreOf(T) \cup {Closed}]
      BY <2>5, <2>7, <3>1, <3>4
    <3>6. \A g \in Handle : hnd'[g] = Closed \/ Agrees(T, hnd'[g], file)
      BY <2>5, <2>7, <3>1, <3>3
    <3> QED
      BY <2>1, <2>3, <2>4, <3>5, <3>6, ZenonT(60) DEF StoreInv, HandleInv, Agrees, StoreOf
  <2> QED
    BY <2>6, <2>7 DEF Reopen
\* The write stops short.
<1>writeFails. ASSUME NEW c \in Cuts, WriteFails(c)
               PROVE  StoreInv(T)'
  <2> USE <1>writeFails
  <2>1. /\ call # NoCall /\ call.stage = "write" /\ file' = [call.buf EXCEPT !.len = c]
        /\ Failed /\ UNCHANGED hnd
    BY DEF WriteFails, Running, ShortenTo
  <2>2. call.stage \in {"open", "write"} /\ Partial(file') /\ T \subseteq Variable
    BY <2>1, ImageAssumption DEF Partial, Admits
  <2>3. /\ FileInv(T)' /\ HandleInv(T)'
        /\ call.op # "Format" => Agrees(T, hnd[call.h], file')
    BY <2>1, <2>2, WritingPreserves, Zenon
  <2>4. CallInv(T)'
    BY <2>1, <2>2, <2>3, OperationEnds, ZenonT(60) DEF StoreInv
  <2> QED
    BY <2>3, <2>4 DEF StoreInv
\* The process dies: handles and call are gone.
<1>crash. ASSUME Crash
          PROVE  StoreInv(T)'
  <2> USE <1>crash
  <2>1. hnd' = [h \in Handle |-> Closed] /\ call' = NoCall
    BY DEF Crash, Return
  <2>2. HandleInv(T)' /\ CallInv(T)'
    BY <2>1, Zenon DEF HandleInv, CallInv
  <2>3. CASE UNCHANGED file
    BY <2>2, <2>3 DEF StoreInv, FileInv
  <2>4. CASE Running("write") /\ \E c \in Cuts : c < call.buf.len /\ ShortenTo(c)
    <3>1. call # NoCall /\ call.stage \in {"open", "write"} /\ Partial(file')
      BY <2>4, ImageAssumption DEF Running, ShortenTo, Partial
    <3>2. FileInv(T)'
      BY <3>1, ImageWritten, Zenon
    <3> QED
      BY <2>2, <3>2 DEF StoreInv
  <2> QED
    BY <2>3, <2>4 DEF Crash
<1>2. CASE UNCHANGED vars
  BY <1>2, RefusalPreserves DEF vars
<1>3. ASSUME NEW h \in Handle, Open(h) \/ Close(h) \/ Format(h) PROVE StoreInv(T)'
  BY <1>3, <1>open, <1>close, <1>format, Zenon
<1>4. ASSUME NEW h \in Handle, NEW v \in Values, Set(h, v) \/ WriteFile(h, v.name, v.data) PROVE StoreInv(T)'
  <2>1. v \in T /\ [name |-> v.name, guid |-> FsGuid, attrs |-> FsAttrs, data |-> v.data] \in T
    BY DEF Admits
  <2> QED
    BY <1>4, <2>1, <1>set, Zenon DEF WriteFile
<1>5. ASSUME NEW h \in Handle, NEW key \in {KeyOf(v) : v \in Values}, Delete(h, key) \/ DeleteFile(h, key.name)
      PROVE  StoreInv(T)'
  <2>1. key \in Key
    BY CallerAssumption DEF Key, KeyOf, Variable
  <2>2. PathKey(key.name) \in Key
    BY <2>1, CallerAssumption DEF Key, PathKey
  <2> QED
    BY <1>5, <2>1, <2>2, <1>delete, Zenon DEF DeleteFile
<1>6. ASSUME NEW h \in Handle, NEW p \in Renames, Rename(h, p[1], p[2]) PROVE StoreInv(T)'
  BY <1>6, <1>rename, Zenon
<1>7. CASE CallStep
  BY <1>7, FlushAcceptedPreserves, <1>rejected, TruncatePreserves, <1>openFails,
     <1>write, <1>reopen, <1>writeFails, Zenon DEF CallStep
<1>8. CASE Crash
  BY <1>8, <1>crash, Zenon
<1> QED
  BY <1>2, <1>3, <1>4, <1>5, <1>6, <1>7, <1>8, Zenon DEF Next

-----------------------------------------------------------------------------
(***************************************************************************)
(* What follows for the store.                                             *)
(***************************************************************************)

\* The handles, the file and the running call fit together in every state,
\* after any failure, torn write and crash.
THEOREM StoreInvariant ==
    ASSUME LimitBelowWord
    PROVE  Spec => []StoreInv(Variable)
<1>1. Init => StoreInv(Variable)
  BY StoreInitEstablishes
<1>2. StoreInv(Variable) /\ [Next]_vars => StoreInv(Variable)'
  BY VariablesAdmitted, StoreNextPreserves
<1> QED
  BY <1>1, <1>2, PTL DEF Spec

\* Every open handle has the record layout, offset and extent of the file on
\* disk, whatever the calls of all handles, the failures and the crashes did to
\* it: flush preserves the flavor that OpenLimits found.
THEOREM FlavorSticks ==
    ASSUME LimitBelowWord
    PROVE  Spec => []FlavorIsSticky
\* The invariant says what FlavorIsSticky says.
<1>flavor. ASSUME NEW T, StoreInv(T)
           PROVE  FlavorIsSticky
  BY <1>flavor, Zenon DEF StoreInv, HandleInv, Agrees, FlavorIsSticky
<1>1. StoreInv(Variable) => FlavorIsSticky
  BY <1>flavor
<1> QED
  BY <1>1, StoreInvariant, PTL

\* While a call runs, no other call begins.
LEMMA RunningSteps ==
    ASSUME [Next]_vars, call # NoCall
    PROVE  UNCHANGED vars \/ CallStep \/ Crash
BY Zenon DEF Next, Open, Close, Format, Set, WriteFile, Delete, DeleteFile, Rename, Idle

\* Apart from Format, no step of any call, and no crash, changes a header field
\* or the firmware's state behind the store (buildStore).
THEOREM RestIsKept ==
    ASSUME LimitBelowWord
    PROVE  Spec => KeepsRest
\* Only the steps of os.WriteFile change the file.
<1>file. ASSUME NEW T, StoreInv(T), [Next]_vars, file' # file
         PROVE  call # NoCall /\ call.stage \in {"open", "write"} /\ Partial(file')
  <2> USE <1>file
  <2>1. CASE UNCHANGED file
    BY <2>1
  <2>2. CASE Truncate
    <3>1. 0 \in Nat
      OBVIOUS
    <3> QED
      BY <2>2, <3>1 DEF Truncate, Running, Partial
  <2>3. CASE Write
    BY <2>3 DEF Write, Running, Partial
  <2>4. ASSUME NEW c \in Cuts, Running("write"), ShortenTo(c)
        PROVE  call # NoCall /\ call.stage \in {"open", "write"} /\ Partial(file')
    BY <2>4, ImageAssumption DEF Running, ShortenTo, Partial
  <2>5. CASE CallStep
    BY <2>1, <2>2, <2>3, <2>4, <2>5, Zenon
       DEF CallStep, FlushAccepted, FlushRejected, OpenFails, Reopen, WriteFails
  <2>6. CASE Crash
    BY <2>1, <2>4, <2>6, Zenon DEF Crash
  <2> QED
    BY <2>1, <2>5, <2>6, Zenon
       DEF Next, vars, Open, Close, Format, Set, WriteFile, Delete, DeleteFile, Rename, Begin
\* Header fields and the bytes behind the store survive any write.
<1>rest. ASSUME NEW T, Admits(T), StoreInv(T), call # NoCall, call.stage \in {"open", "write"},
                Partial(file')
         PROVE  RestStep
  <2> USE <1>rest
  <2> SUFFICES ASSUME call.op # "Format" PROVE \A field \in DOMAIN file \ {"recs", "len"} : file'[field] = file[field]
    BY DEF RestStep
  <2>1. SameRest(call.buf, file')
    BY ImageWritten, ZenonT(60)
  <2>2. SameRest(call.buf, file) /\ file \in File
    BY Zenon DEF StoreInv, CallInv, Updating, Agrees
  <2>3. SameRest(file', file)
    BY <2>1, <2>2, Zenon DEF SameRest
  <2>4. DOMAIN file \ {"recs", "len"} = {"fv", "sig", "formatted", "healthy", "size", "tail"}
    BY <2>2 DEF File
  <2> QED
    BY <2>3, <2>4 DEF SameRest
<1>1. StoreInv(Variable) /\ [Next]_vars => [RestStep]_vars
  <2> SUFFICES ASSUME StoreInv(Variable), [Next]_vars, file' # file PROVE RestStep
    BY DEF RestStep
  <2>1. call # NoCall /\ call.stage \in {"open", "write"} /\ Partial(file')
    BY <1>file, Zenon
  <2> QED
    BY <2>1, VariablesAdmitted, <1>rest, Zenon
<1> QED
  BY <1>1, StoreInvariant, PTL DEF Spec, KeepsRest, RestStep

\* A call that returns nil ends with a write that went through, unless its last
\* operation may fail.
LEMMA SuccessMeansWritten ==
    ASSUME LimitBelowWord, NEW T, Admits(T), StoreInv(T), CallStep,
           call # NoCall, call.op # "Format", call' = NoCall, ret' = "ok"
    PROVE  /\ UNCHANGED hnd /\ Len(call.todo) = 1
           /\ \/ call.stage = "write" /\ file' = call.buf
              \/ /\ call.todo[1].lax
                 /\ \/ call.stage \in {"flush", "open"} /\ UNCHANGED file
                    \/ \E c \in Cuts : call.stage = "write" /\ c < call.buf.len /\ ShortenTo(c)
<1>1. call \in CallsOn(T) /\ call.todo # <<>> /\ call.stage # "reopen" /\ T \subseteq Variable
  BY DEF StoreInv, CallInv, Updating, Admits
<1>2. Failed => call.todo[1].lax /\ Completed
  BY DEF Failed, Return
<1>3. Completed => Len(call.todo) = 1
  <2> SUFFICES ASSUME Completed PROVE Len(call.todo) = 1
    OBVIOUS
  <2>1. call' \in CallsOn(T) => call' # NoCall
    BY <1>1, CallIsTyped
  <2> QED
    BY <1>1, <2>1, CompletedContinues, Zenon
<1>4. ~FlushAccepted /\ ~Truncate /\ ~Reopen
  BY <1>1, FlushAcceptedPreserves, TruncatePreserves, Zenon DEF Reopen, Running
<1>5. CASE Write
  BY <1>3, <1>5, Zenon DEF Write, Running
<1>6. CASE FlushRejected \/ OpenFails
  <2>1. Failed /\ UNCHANGED <<file, hnd>> /\ call.stage \in {"flush", "open"}
    BY <1>6 DEF FlushRejected, OpenFails, Running
  <2> QED
    BY <1>2, <1>3, <2>1, Zenon
<1>7. ASSUME NEW c \in Cuts, WriteFails(c)
      PROVE  /\ Len(call.todo) = 1 /\ call.todo[1].lax
             /\ call.stage = "write" /\ c < call.buf.len /\ ShortenTo(c) /\ UNCHANGED hnd
  BY <1>2, <1>3, <1>7, Zenon DEF WriteFails, Running
<1> QED
  BY <1>4, <1>5, <1>6, <1>7, Zenon DEF CallStep

\* A single Set or Delete that returns nil has written its list, and the file
\* reads back as that list.
LEMMA SuccessReadsBack ==
    ASSUME LimitBelowWord, NEW T, Admits(T), StoreInv(T), call # NoCall, call.op # "Format",
           call.stage = "write", file' = call.buf
    PROVE  /\ Readable(file') /\ HeaderAccepted(file')
           /\ Parsed(file') = CanonicalList(hnd[call.h].vars)
           /\ hnd[call.h].vars \in Seq(T)
<1>1. Built(file', hnd[call.h]) /\ SameRest(file', file) /\ Agrees(T, hnd[call.h], file)
  BY Zenon DEF StoreInv, CallInv, Updating
<1>2. Agrees(T, hnd[call.h], file')
  BY <1>1, AgreesCarries, ZenonT(60) DEF Built
<1>3. hnd[call.h].vars \in Seq(T)
  BY <1>1, Zenon DEF Agrees, StoreOf
<1> QED
  BY <1>1, <1>2, <1>3, BuiltReadsBack, ZenonT(60) DEF Admits

\* When Set or Delete returns nil, a fresh Open of the file finds exactly the
\* variables of the handle, whatever failed, crashed or was truncated before,
\* for lists and files of any size the limits allow.
THEOREM SuccessIsLasting ==
    ASSUME LimitBelowWord
    PROVE  Spec => SuccessIsDurable
\* One step of a call that runs.
<1>success. ASSUME NEW T, Admits(T), StoreInv(T), UNCHANGED vars \/ CallStep \/ Crash
            PROVE  DurableStep
  <2> USE <1>success
  <2> SUFFICES ASSUME Returns({"Set", "Delete"}, "ok")
               PROVE  /\ Readable(file') /\ HeaderAccepted(file')
                      /\ Parsed(file') = [k \in DOMAIN hnd'[call.h].vars |-> Canonical(hnd'[call.h].vars[k])]
    BY Zenon DEF DurableStep
  <2>1. call # NoCall /\ call.op \in {"Set", "Delete"} /\ call.op # "Format" /\ call' = NoCall /\ ret' = "ok"
    BY DEF Returns
  <2>2. CallStep
    BY <2>1 DEF vars, Crash, Return
  <2>3. call.todo = call.args /\ ~call.args[1].lax
    BY <2>1 DEF StoreInv, CallInv, Single
  <2>4. call.stage = "write" /\ file' = call.buf /\ UNCHANGED hnd
    BY <2>1, <2>2, <2>3, SuccessMeansWritten, Zenon
  <2>5. /\ Readable(file') /\ HeaderAccepted(file') /\ Parsed(file') = CanonicalList(hnd[call.h].vars)
        /\ hnd[call.h].vars \in Seq(T)
    BY <2>1, <2>4, SuccessReadsBack, Zenon
  <2>6. DOMAIN hnd[call.h].vars = 1 .. Len(hnd[call.h].vars)
    BY <2>5, SeqDomain
  <2> QED
    BY <2>4, <2>5, <2>6, Zenon DEF CanonicalList
<1>1. StoreInv(Variable) /\ [Next]_vars => [DurableStep]_vars
  <2> SUFFICES ASSUME StoreInv(Variable), [Next]_vars, call # NoCall PROVE DurableStep
    BY DEF DurableStep, Returns
  <2> QED
    BY RunningSteps, VariablesAdmitted, <1>success, Zenon
<1> QED
  BY <1>1, StoreInvariant, PTL DEF Spec, SuccessIsDurable, DurableStep
=============================================================================
