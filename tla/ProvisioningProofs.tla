------------------------- MODULE ProvisioningProofs -------------------------
(***************************************************************************)
(* Proofs about what prepares a store for a machine: the image Format      *)
(* makes (FormatLayout), for every layout and size, and the boot entries   *)
(* and order the boot manager keeps in it (BootManager), for any number of *)
(* Boot#### slots, any orders and any way the two writes of AddBootEntry   *)
(* end.                                                                    *)
(***************************************************************************)
EXTENDS FormatLayout, BootManager, BaseProofs

-----------------------------------------------------------------------------
(***************************************************************************)
(* The geometry and the checksum of every store Format and FormatOVMF      *)
(* write, and what the Open that ends them makes of it, for every size     *)
(* they accept and every ceiling below Word.                               *)
(***************************************************************************)

\* The sizes the two entry points write a store for.
Accepted(l, n) == n \in Int /\ l \in Layouts /\ MinSize(l) <= n /\ n <= MaxFileSize

\* The header Open will see is one it accepts, at the offset and with the very
\* store size that makeEmptyStore and makeEmptyOVMFStore chose: the clamp of
\* OpenLimits never applies to a formatted store.
HeaderReadsBack ==
    pc \in {"open", "done"} =>
        /\ HeaderAccepted(file)
        /\ StoreOff(file) = HeaderOff(layout)
        /\ StoreSize(file) = StoreBytes(layout, size)
        /\ file.len <= MaxFileSize

\* An accepted size is below the range of uint32 and leaves room for the
\* headers.
LEMMA AcceptedSize ==
    ASSUME NEW l, NEW n, Accepted(l, n)
    PROVE  /\ n \in Nat /\ n < Word /\ Word \in Nat
           /\ HeaderOff(l) \in {0, 72}
           /\ HeaderOff(l) + 28 + 4 <= n
           /\ l = "aarch64" => n >= 786432 /\ HeaderOff(l) = 72
  BY FormatAssumption, WordAssumption, SMT
     DEF Accepted, Layouts, MinSize, HeaderOff, StoreHeaderSize, FvHeaderSize, ArmVirtNvVarFvSize

\* No uint32 conversion changes a size, and the store leaves room for its
\* header inside a file that the layout accepts.
LEMMA StoreBytesFit ==
    ASSUME NEW l, NEW n, Accepted(l, n)
    PROVE  /\ StoreBytes(l, n) \in Int
           /\ StoreHeaderSize <= StoreBytes(l, n)
           /\ StoreBytes(l, n) <= n - HeaderOff(l)
           /\ U32(StoreBytes(l, n)) = StoreBytes(l, n)
           /\ U32(n) = n
<1>1. /\ StoreBytes(l, n) \in Int
      /\ StoreHeaderSize <= StoreBytes(l, n)
      /\ StoreBytes(l, n) <= n - HeaderOff(l)
  BY AcceptedSize, SMT DEF StoreBytes, StoreHeaderSize, ArmVirtNvVarStoreSize
<1>2. StoreBytes(l, n) \in Nat /\ StoreBytes(l, n) < Word
  BY AcceptedSize, <1>1, SMT DEF StoreHeaderSize
<1>3. \A m \in Nat : m < Word => m % Word = m
  BY AcceptedSize, SMT
<1> QED
  BY AcceptedSize, <1>1, <1>2, <1>3 DEF U32

\* The block map spans the file, whether its size is a number of blocks or not.
LEMMA BlocksCoverFile ==
    ASSUME NEW l, NEW n, Accepted(l, n)
    PROVE  BlockMap(l, n).num * BlockMap(l, n).len = n
<1>1. n \in Nat /\ n < Word /\ Word \in Nat /\ U32(n) = n
  BY StoreBytesFit, AcceptedSize, SMT
<1>2. BlockUnit(l) \in {4096, 262144}
  BY SMT DEF BlockUnit
<1>3. CASE n % BlockUnit(l) = 0
  <2>1. PICK q \in Nat : q = n \div BlockUnit(l)
    BY <1>1, <1>2, SMT
  <2>2. q * BlockUnit(l) = n /\ q <= n
    <3>1. CASE BlockUnit(l) = 4096
      BY <1>1, <1>3, <2>1, <3>1
    <3>2. CASE BlockUnit(l) = 262144
      BY <1>1, <1>3, <2>1, <3>2
    <3> QED
      BY <1>2, <3>1, <3>2
  <2>3. U32(q) = q
    BY <1>1, <2>1, <2>2 DEF U32
  <2>4. BlockMap(l, n) = [num |-> q, len |-> BlockUnit(l)]
    BY <1>3, <2>1, <2>3 DEF BlockMap
  <2> QED
    BY <2>2, <2>4
<1>4. CASE n % BlockUnit(l) # 0
  <2>1. BlockMap(l, n) = [num |-> 1, len |-> n]
    BY <1>1, <1>4 DEF BlockMap
  <2> QED
    BY <1>1, <2>1
<1> QED
  BY <1>3, <1>4

\* The header of an empty store passes OpenLimits, unclamped.
LEMMA EmptyStoreHeader ==
    ASSUME NEW l, NEW n, Accepted(l, n)
    PROVE  /\ HeaderAccepted(EmptyStore(l, n))
           /\ StoreOff(EmptyStore(l, n)) = HeaderOff(l)
           /\ StoreSize(EmptyStore(l, n)) = StoreBytes(l, n)
           /\ EmptyStore(l, n).size = StoreBytes(l, n)
           /\ EmptyStore(l, n).len = n
<1> DEFINE f == EmptyStore(l, n)
<1>1. /\ f.len = n /\ f.fv = (l # "raw") /\ f.formatted /\ f.healthy
      /\ f.sig \in {"auth", "plain"}
      /\ f.size = StoreBytes(l, n)
  BY StoreBytesFit DEF EmptyStore
<1>2. n \in Int /\ (l # "raw" => n >= FvHeaderSize)
  BY AcceptedSize, SMT DEF HeaderOff, FvHeaderSize
<1> HIDE DEF f
<1>3. StoreOff(f) = HeaderOff(l) /\ (f.fv => FvWrapped(f))
  BY <1>1, <1>2, ZenonT(60) DEF StoreOff, FvWrapped, HeaderOff
<1>4. StoreOff(f) + StoreHeaderSize <= f.len /\ ~(f.size > f.len - StoreOff(f))
  BY <1>1, <1>3, StoreBytesFit, AcceptedSize DEF StoreHeaderSize
<1>5. HeaderAccepted(f)
  BY <1>1, <1>3, <1>4 DEF HeaderAccepted
<1>6. StoreSize(f) = StoreBytes(l, n)
  BY <1>1, <1>4 DEF StoreSize, ClampedSize
<1> QED
  BY <1>1, <1>3, <1>5, <1>6 DEF f

-----------------------------------------------------------------------------
(***************************************************************************)
(* The checksum.                                                           *)
(***************************************************************************)

\* A sum in uint16 is a number, and its terms can be exchanged.
LEMMA Plus16Properties ==
    ASSUME NEW a \in Nat, NEW b \in Nat, NEW c \in Nat
    PROVE  /\ Plus16(a, b) \in Nat
           /\ Plus16(Plus16(a, b), c) = Plus16(Plus16(a, c), b)
           /\ Plus16(Plus16(a, 0), c) = Plus16(a, c)
BY SMT DEF Plus16

\* The sum so far, after k words.
SumSoFar(words, sum) ==
    /\ sum \in [0 .. Len(words) -> Nat]
    /\ sum[0] = 0
    /\ \A k \in 1 .. Len(words) : sum[k] = Plus16(sum[k - 1], words[k])

\* WordSum is the sum at the end of the loop.
LEMMA WordSumUnfolds ==
    ASSUME NEW words \in Seq(Nat)
    PROVE  \E sum : SumSoFar(words, sum) /\ WordSum(words) = sum[Len(words)]
<1> DEFINE n == Len(words)
           body(f) == [k \in 0 .. n |-> IF k = 0 THEN 0 ELSE Plus16(f[k - 1], words[k])]
           sum == CHOOSE f : f = body(f)
           step == [k \in 1 .. n |-> [x \in Nat |-> Plus16(x, words[k])]]
<1>1. n \in Nat /\ \A k \in 1 .. n : words[k] \in Nat
  BY SeqDomain, SeqElement
<1>2. WordSum(words) = sum[n]
  BY DEF WordSum
<1> HIDE DEF n
<1>3. step \in [1 .. n -> [Nat -> Nat]]
  <2>1. \A k \in 1 .. n : \A x \in Nat : Plus16(x, words[k]) \in Nat
    BY <1>1, Plus16Properties, Zenon
  <2> QED
    BY <2>1, Zenon
<1>4. \A k \in 1 .. n : \A x \in Nat : step[k][x] = Plus16(x, words[k])
  OBVIOUS
<1> HIDE DEF step
<1>5. PICK f : Recursion(f, n, Nat, 0, step)
  <2>1. 0 \in Nat
    OBVIOUS
  <2> QED
    BY <1>1, <1>3, <2>1, RecursionExists, Zenon
<1>6. /\ f \in [0 .. n -> Nat] /\ f[0] = 0
      /\ \A k \in 1 .. n : f[k] = Plus16(f[k - 1], words[k])
  <2>1. \A k \in 1 .. n : f[k - 1] \in Nat
    BY <1>1, <1>5 DEF Recursion
  <2> QED
    BY <1>4, <1>5, <2>1, ZenonT(60) DEF Recursion
<1>7. f = body(f)
  <2>1. f = [k \in 0 .. n |-> f[k]]
    BY <1>6
  <2>2. \A k \in 0 .. n : f[k] = IF k = 0 THEN 0 ELSE Plus16(f[k - 1], words[k])
    <3> TAKE k \in 0 .. n
    <3>1. k = 0 \/ (k # 0 /\ k \in 1 .. n)
      BY <1>1
    <3> QED
      BY <1>6, <3>1
  <2> QED
    BY <2>1, <2>2, Zenon
<1>8. sum = body(sum)
  <2> HIDE DEF body
  <2> QED
    BY <1>7
<1> HIDE DEF sum
<1> DEFINE B == body(sum)
<1>9. /\ B = [k \in 0 .. n |-> B[k]]
      /\ B[0] = 0
      /\ \A k \in 1 .. n : B[k] = Plus16(sum[k - 1], words[k])
  BY <1>1
<1>10. sum = B
  BY <1>8, Zenon
<1> HIDE DEF B
<1> DEFINE S == {k \in Nat : sum[k] = f[k]}
<1>11. 0 \in S
  BY <1>6, <1>9, <1>10
<1>12. ASSUME NEW k \in 1 .. n, k - 1 \in S PROVE k \in S
  <2>1. sum[k - 1] = f[k - 1]
    BY <1>12
  <2>2. sum[k] = f[k]
    BY <1>6, <1>9, <1>10, <2>1, Zenon
  <2> QED
    BY <2>2
<1> HIDE DEF S
<1>13. 0 .. n \subseteq S
  BY <1>1, <1>11, <1>12, RangeInduction, Zenon
<1>14. f[n] = sum[n]
  BY <1>1, <1>13 DEF S
<1> QED
  BY <1>2, <1>6, <1>14, Zenon DEF SumSoFar, n

\* Lists of words of known lengths.
Words(s, n) == s \in Seq(Nat) /\ n \in Nat /\ Len(s) = n

\* new is old with c in place of a zero at j.
Overwrites(new, old, n, j, c) ==
    /\ Words(new, n) /\ Words(old, n)
    /\ old[j] = 0 /\ new[j] = c
    /\ \A k \in 1 .. n : k # j => new[k] = old[k]

\* Writing c over a word that was zero adds c to the sum.
LEMMA SumWithWord ==
    ASSUME NEW old, NEW new, NEW n, NEW j \in 1 .. n, NEW c \in Nat, Overwrites(new, old, n, j, c)
    PROVE  WordSum(old) \in Nat /\ WordSum(new) = Plus16(WordSum(old), c)
<1> USE DEF Overwrites, Words
<1>1. PICK a : SumSoFar(old, a) /\ WordSum(old) = a[Len(old)]
  BY WordSumUnfolds
<1>2. PICK b : SumSoFar(new, b) /\ WordSum(new) = b[Len(new)]
  BY WordSumUnfolds
<1>3. Len(old) \in Nat /\ \A k \in 1 .. Len(old) : old[k] \in Nat
  BY SeqDomain, SeqElement
<1> DEFINE S == {k \in Nat : b[k] = IF k < j THEN a[k] ELSE Plus16(a[k], c)}
<1>4. 0 \in S
  BY <1>1, <1>2 DEF SumSoFar
<1>5. ASSUME NEW k \in 1 .. Len(old), k - 1 \in S PROVE k \in S
  <2>1. PICK x \in Nat, w \in Nat : x = a[k - 1] /\ w = old[k]
    <3>1. k - 1 \in 0 .. Len(old)
      BY <1>3
    <3>2. a[k - 1] \in Nat
      BY <1>1, <3>1, Zenon DEF SumSoFar
    <3> QED
      BY <1>3, <3>2
  <2>2. a[k] = Plus16(x, w) /\ b[k] = Plus16(b[k - 1], new[k])
    <3>1. k \in 1 .. Len(new)
      OBVIOUS
    <3> QED
      BY <1>1, <1>2, <2>1, <3>1, Zenon DEF SumSoFar
  <2>3. b[k - 1] = IF k - 1 < j THEN x ELSE Plus16(x, c)
    BY <1>5, <2>1
  <2>4. CASE k < j
    BY <2>1, <2>2, <2>3, <2>4
  <2>5. CASE k = j
    <3>1. w = 0 /\ b[k - 1] = x /\ new[k] = c
      BY <2>1, <2>3, <2>5
    <3>2. b[k] = Plus16(a[k], c)
      BY <2>2, <3>1, Plus16Properties
    <3> QED
      BY <2>5, <3>2
  <2>6. CASE k > j
    <3>1. b[k - 1] = Plus16(x, c) /\ new[k] = w
      BY <2>1, <2>3, <2>6
    <3>2. b[k] = Plus16(a[k], c)
      BY <2>2, <3>1, Plus16Properties
    <3> QED
      BY <2>6, <3>2
  <2> QED
    BY <2>4, <2>5, <2>6
<1> HIDE DEF S
<1>6. 0 .. Len(old) \subseteq S
  BY <1>3, <1>4, <1>5, RangeInduction, Zenon
<1>7. b[Len(old)] = Plus16(a[Len(old)], c) /\ a[Len(old)] \in Nat
  <2>1. Len(old) \in 0 .. Len(old)
    BY <1>3
  <2>2. Len(old) \in S
    BY <1>6, <2>1
  <2> QED
    <3>1. b[Len(old)] = Plus16(a[Len(old)], c)
      BY <1>3, <2>2 DEF S
    <3> QED
      BY <1>1, <2>1, <3>1 DEF SumSoFar
<1> QED
  BY <1>1, <1>2, <1>7

\* What is written around the checksum: 24 words in front of its line and eight
\* behind.
InFront(l, n) ==
    <<0, 0, 0, 0, 0, 0, 0, 0>> \o FvGuidWords \o <<Lo(FvLength(l, n)), Hi(FvLength(l, n)), 0, 0>>
        \o <<18015, 18518>> \o <<3638, 0>>

Behind(l, n) ==
    LET blocks == BlockMap(l, n)
    IN <<Lo(blocks.num), Hi(blocks.num), Lo(blocks.len), Hi(blocks.len)>>

\* Half words are natural numbers.
LEMMA HalfWords ==
    ASSUME NEW n \in Int
    PROVE  Lo(n) \in Nat /\ Hi(n) \in Nat
BY SMT DEF Lo, Hi

\* The words of s behind those of r.
Joins(both, r, m, s, n) ==
    /\ Words(both, m + n)
    /\ \A i \in 1 .. m : both[i] = r[i]
    /\ \A i \in 1 .. n : both[m + i] = s[i]

\* One list of words behind another.
LEMMA Joined ==
    ASSUME NEW r, NEW m, NEW s, NEW n, Words(r, m), Words(s, n)
    PROVE  Joins(r \o s, r, m, s, n)
<1>1. r \in Seq(Nat) /\ s \in Seq(Nat) /\ m \in Nat /\ n \in Nat /\ Len(r) = m /\ Len(s) = n
  BY DEF Words
<1> DEFINE both == r \o s
<1>2. /\ both \in Seq(Nat) /\ Len(both) = m + n
      /\ \A i \in 1 .. m + n : both[i] = IF i <= m THEN r[i] ELSE s[i - m]
  BY <1>1, SeqJoin, Zenon
<1> HIDE DEF both
<1>3. ASSUME NEW i \in 1 .. m PROVE both[i] = r[i]
  <2>1. i \in 1 .. m + n /\ i <= m
    BY <1>1
  <2> QED
    BY <1>2, <2>1, Zenon
<1>4. ASSUME NEW i \in 1 .. n PROVE both[m + i] = s[i]
  <2>1. m + i \in 1 .. m + n /\ ~(m + i <= m) /\ (m + i) - m = i
    BY <1>1
  <2> QED
    BY <1>2, <2>1, Zenon
<1> QED
  BY <1>1, <1>2, <1>3, <1>4 DEF Joins, Words, both

\* The header is a list of 36 words, with the checksum as word 26.
LEMMA HeaderWords ==
    ASSUME NEW l, NEW n, Accepted(l, n), NEW c \in Nat
    PROVE  Overwrites(FvWords(l, n, c), FvWords(l, n, 0), 36, 26, c)
<1> DEFINE line(x) == <<72, x, 0, 512>>
           end == <<0, 0, 0, 0>>
           A == InFront(l, n)
           B == Behind(l, n)
<1>1. FvLength(l, n) \in Int /\ BlockMap(l, n).num \in Int /\ BlockMap(l, n).len \in Int
  <2>1. n \in Nat
    BY AcceptedSize
  <2>2. BlockUnit(l) \in Nat \ {0}
    BY SMT DEF BlockUnit
  <2>3. FvLength(l, n) \in Int
    BY <2>1, SMT DEF FvLength, ArmVirtNvVarFvSize
  <2>4. PICK q \in Int : q = n \div BlockUnit(l)
    BY <2>1, <2>2, SMT
  <2>5. U32(q) \in Int /\ U32(n) \in Int
    BY <2>1, U32Range
  <2> QED
    BY <2>2, <2>3, <2>4, <2>5, SMT DEF BlockMap
<1>2. Words(A, 24)
  <2> DEFINE a == <<0, 0, 0, 0, 0, 0, 0, 0>>
             b == FvGuidWords
             d == <<Lo(FvLength(l, n)), Hi(FvLength(l, n)), 0, 0>>
             e == <<18015, 18518>>
             f == <<3638, 0>>
  <2>1. Words(a, 8) /\ Words(b, 8)
    BY SMT DEF FvGuidWords, Words
  <2>2. Words(d, 4)
    BY <1>1, HalfWords, SMT DEF Words
  <2>3. Words(e, 2) /\ Words(f, 2)
    BY SMT DEF Words
  <2>4. A = a \o b \o d \o e \o f
    BY DEF InFront
  <2> HIDE DEF a, b, d, e, f, A
  <2>5. Words(a \o b, 8 + 8)
    BY <2>1, Joined, Zenon DEF Joins
  <2>6. Words(a \o b \o d, 8 + 8 + 4)
    BY <2>2, <2>5, Joined, Zenon DEF Joins
  <2>7. Words(a \o b \o d \o e, 8 + 8 + 4 + 2)
    BY <2>3, <2>6, Joined, Zenon DEF Joins
  <2>8. Words(a \o b \o d \o e \o f, 8 + 8 + 4 + 2 + 2)
    BY <2>3, <2>7, Joined, Zenon DEF Joins
  <2>9. 8 + 8 + 4 + 2 + 2 = 24
    BY SMT
  <2> QED
    BY <2>4, <2>8, <2>9, Zenon
<1>3. Words(B, 4)
  BY <1>1, HalfWords, SMT DEF Behind, Words
<1>4. Words(end, 4)
  BY SMT DEF Words
<1>5. \A x : FvWords(l, n, x) = A \o line(x) \o B \o end
  BY SMT DEF FvWords, InFront, Behind
<1>6. ASSUME NEW x \in Nat
      PROVE  /\ Words(line(x), 4)
             /\ line(x)[1] = 72 /\ line(x)[2] = x /\ line(x)[3] = 0 /\ line(x)[4] = 512
  BY SMT DEF Words
<1> HIDE DEF line, end, A, B
<1>7. ASSUME NEW x \in Nat
      PROVE  \E p, q : /\ Joins(p, A, 24, line(x), 4) /\ Joins(q, p, 28, B, 4)
                       /\ Joins(FvWords(l, n, x), q, 32, end, 4)
  <2> DEFINE p == A \o line(x)
             q == p \o B
             r == q \o end
  <2>1. Joins(p, A, 24, line(x), 4)
    <3>1. Words(line(x), 4)
      BY <1>6
    <3> QED
      BY <1>2, <3>1, Joined, Zenon
  <2> HIDE DEF p
  <2>2. 24 + 4 = 28 /\ 28 + 4 = 32
    BY SMT
  <2>3. Words(p, 28)
    BY <2>1, <2>2, Zenon DEF Joins
  <2>4. Joins(q, p, 28, B, 4)
    BY <1>3, <2>3, Joined, Zenon
  <2> HIDE DEF q
  <2>5. Words(q, 32)
    BY <2>2, <2>4, Zenon DEF Joins
  <2>6. Joins(r, q, 32, end, 4)
    BY <1>4, <2>5, Joined, Zenon
  <2>7. FvWords(l, n, x) = r
    BY <1>5 DEF p, q
  <2> HIDE DEF r
  <2> QED
    BY <2>1, <2>4, <2>6, <2>7, Zenon
<1>8. ASSUME NEW x \in Nat
      PROVE  /\ Words(FvWords(l, n, x), 36)
             /\ \A k \in 1 .. 24 : FvWords(l, n, x)[k] = A[k]
             /\ \A k \in 1 .. 4 : FvWords(l, n, x)[24 + k] = line(x)[k]
             /\ \A k \in 1 .. 4 : FvWords(l, n, x)[28 + k] = B[k]
             /\ \A k \in 1 .. 4 : FvWords(l, n, x)[32 + k] = end[k]
  <2>1. PICK p, q : /\ Joins(p, A, 24, line(x), 4) /\ Joins(q, p, 28, B, 4)
                    /\ Joins(FvWords(l, n, x), q, 32, end, 4)
    BY <1>7
  <2> DEFINE w == FvWords(l, n, x)
  <2>2. Joins(w, q, 32, end, 4)
    BY <2>1
  <2> HIDE DEF w
  <2>3. Words(w, 36)
    BY <2>2, SMT DEF Joins
  <2>4. ASSUME NEW k \in 1 .. 24 PROVE w[k] = A[k]
    <3>1. p[k] = A[k]
      BY <2>1 DEF Joins
    <3>2. q[k] = p[k] /\ w[k] = q[k]
      BY <2>1, <2>2, SMT DEF Joins
    <3> QED
      BY <3>1, <3>2
  <2>5. ASSUME NEW k \in 1 .. 4
        PROVE  w[24 + k] = line(x)[k] /\ w[28 + k] = B[k] /\ w[32 + k] = end[k]
    <3>1. p[24 + k] = line(x)[k] /\ q[28 + k] = B[k] /\ w[32 + k] = end[k]
      BY <2>1, <2>2 DEF Joins
    <3>2. 24 + k \in 1 .. 28 /\ 24 + k \in 1 .. 32 /\ 28 + k \in 1 .. 32
      BY SMT
    <3>3. q[24 + k] = p[24 + k] /\ w[24 + k] = q[24 + k] /\ w[28 + k] = q[28 + k]
      BY <2>1, <2>2, <3>2, Zenon DEF Joins
    <3> QED
      BY <3>1, <3>3
  <2> QED
    BY <2>3, <2>4, <2>5 DEF w
<1>9. Words(FvWords(l, n, c), 36) /\ Words(FvWords(l, n, 0), 36)
  BY <1>8
<1>10. FvWords(l, n, c)[26] = c /\ FvWords(l, n, 0)[26] = 0
  <2>1. 26 = 24 + 2 /\ 2 \in 1 .. 4 /\ 0 \in Nat
    BY SMT
  <2> QED
    BY <1>6, <1>8, <2>1
<1>11. ASSUME NEW k \in 1 .. 36, k # 26 PROVE FvWords(l, n, c)[k] = FvWords(l, n, 0)[k]
  <2>1. 0 \in Nat
    BY SMT
  <2>2. CASE k \in 1 .. 24
    BY <1>8, <2>1, <2>2, ZenonT(60)
  <2>3. CASE k \in 25 .. 28
    <3>1. PICK i \in {1, 3, 4} : k = 24 + i
      BY <1>11, <2>3, SMT
    <3>2. line(c)[i] = line(0)[i]
      BY <1>6, <2>1, <3>1
    <3>3. i \in 1 .. 4
      BY <3>1, SMT
    <3> QED
      BY <1>8, <2>1, <3>1, <3>2, <3>3, Zenon
  <2>4. CASE k \in 29 .. 32
    <3>1. PICK i \in 1 .. 4 : k = 28 + i
      BY <2>4, SMT
    <3> QED
      BY <1>8, <2>1, <3>1, ZenonT(60)
  <2>5. CASE k \in 33 .. 36
    <3>1. PICK i \in 1 .. 4 : k = 32 + i
      BY <2>5, SMT
    <3> QED
      BY <1>8, <2>1, <3>1, ZenonT(60)
  <2> QED
    BY <2>2, <2>3, <2>4, <2>5, SMT
<1> QED
  BY <1>9, <1>10, <1>11 DEF Overwrites

\* The checksum makes the sum zero.
LEMMA ChecksumCancels ==
    ASSUME NEW l, NEW n, Accepted(l, n)
    PROVE  /\ Len(FvWords(l, n, Checksum(l, n))) = 36
           /\ WordSum(FvWords(l, n, Checksum(l, n))) = 0
<1> DEFINE c == Checksum(l, n)
           old == FvWords(l, n, 0)
           new == FvWords(l, n, c)
<1>1. Words(old, 36)
  <2>1. 0 \in Nat
    BY SMT
  <2> QED
    BY <2>1, HeaderWords, Zenon DEF Overwrites
<1>2. WordSum(old) \in Nat /\ WordSum(old) < 65536
  <2> HIDE DEF old
  <2>1. PICK sum : SumSoFar(old, sum) /\ WordSum(old) = sum[Len(old)]
    BY <1>1, WordSumUnfolds, Zenon DEF Words
  <2>2. 36 \in 1 .. 36 /\ 35 \in 0 .. 36 /\ 36 - 1 = 35
    BY SMT
  <2>3. old[36] \in Nat /\ sum[35] \in Nat /\ sum[36] = Plus16(sum[35], old[36])
    BY <1>1, <2>1, <2>2, SeqElement, ZenonT(60) DEF SumSoFar, Words
  <2>4. WordSum(old) = Plus16(sum[35], old[36])
    BY <1>1, <2>1, <2>3, Zenon DEF Words
  <2> QED
    BY <2>3, <2>4, SMT DEF Plus16
<1>3. c \in Nat /\ Plus16(WordSum(old), c) = 0
  BY <1>2, SMT DEF Checksum, Plus16
<1> HIDE DEF c
<1>4. Overwrites(new, old, 36, 26, c)
  BY <1>3, HeaderWords, Zenon
<1> HIDE DEF old, new
<1>5. WordSum(new) = Plus16(WordSum(old), c)
  <2>1. 26 \in 1 .. 36
    BY SMT
  <2> QED
    BY <1>3, <1>4, <2>1, SumWithWord, Zenon
<1> QED
  BY <1>3, <1>4, <1>5 DEF Overwrites, Words, new, c

-----------------------------------------------------------------------------
(***************************************************************************)
(* The Open that ends the call.                                            *)
(***************************************************************************)

\* A walk over no records meets none.
LEMMA NothingParsed ==
    ASSUME NEW f, f.recs = <<>>
    PROVE  Parsed(f) = <<>>
<1>1. 1 .. 0 = {} /\ Len(<<>>) = 0 /\ 0 .. 0 = {0}
  BY SMT
<1>2. Max({0}) = 0
  BY SMT DEF Max
<1>3. Walked(f) = <<>>
  <2>1. \A P : {0} \cup {m \in {} : P[m]} = {0}
    OBVIOUS
  <2>2. SubSeq(<<>>, 1, 0) = <<>>
    OBVIOUS
  <2> QED
    BY <1>1, <1>2, <2>1, <2>2 DEF Walked
<1>4. \A indexes : Kept(<<>>, indexes) = <<>>
  <2> TAKE indexes
  <2> DEFINE body(g) == [k \in 0 .. Len(<<>>) |->
                IF k = 0 THEN <<>> ELSE IF k \in indexes THEN Append(g[k - 1], <<>>[k]) ELSE g[k - 1]]
             out == CHOOSE g : g = body(g)
  <2>1. Kept(<<>>, indexes) = out[0]
    BY <1>1 DEF Kept
  <2>2. \A g : body(g) = [k \in {0} |-> <<>>]
    BY <1>1
  <2>3. out = [k \in {0} |-> <<>>]
    <3> HIDE DEF body
    <3> QED
      BY <2>2
  <2> QED
    BY <2>1, <2>3
<1> QED
  BY <1>1, <1>3, <1>4 DEF Parsed

\* Open accepts every store that was made, and finds no variable.
LEMMA EmptyStoreOpens ==
    ASSUME NEW l, NEW n, Accepted(l, n)
    PROVE  /\ Opens(EmptyStore(l, n))
           /\ OpenedOn(EmptyStore(l, n)) =
                 [off |-> HeaderOff(l), auth |-> l # "raw", size |-> StoreBytes(l, n), vars |-> <<>>]
<1> DEFINE f == EmptyStore(l, n)
<1>1. f.recs = <<>> /\ IsAuth(f) = (l # "raw")
  BY DEF EmptyStore, IsAuth
<1>2. Parsed(f) = <<>> /\ Len(Parsed(f)) = 0
  BY <1>1, NothingParsed
<1>3. f # NoFile
  <2>1. n \in Nat /\ U32(StoreBytes(l, n)) \in 0 .. Word - 1
    BY AcceptedSize, StoreBytesFit, U32Range
  <2>2. <<>> \in Seq(Record)
    OBVIOUS
  <2>3. f \in File
    BY <2>1, <2>2 DEF File, EmptyStore
  <2> QED
    BY <2>3, FormatAssumption
<1>4. f.len <= MaxFileSize /\ 0 <= MaxVariables
  BY EmptyStoreHeader, FormatAssumption, SMT DEF Accepted
<1>5. HeaderAccepted(f) /\ StoreOff(f) = HeaderOff(l) /\ StoreSize(f) = StoreBytes(l, n)
  BY EmptyStoreHeader
<1> HIDE DEF f
<1>6. Opens(f)
  BY <1>2, <1>3, <1>4, <1>5 DEF Opens, Readable
<1>7. OpenedOn(f) = [off |-> HeaderOff(l), auth |-> l # "raw", size |-> StoreBytes(l, n), vars |-> <<>>]
  BY <1>1, <1>2, <1>5 DEF OpenedOn
<1> QED
  BY <1>6, <1>7 DEF f

\* What is known of file, header and handle once they are made.
MadeInv ==
    /\ layout \in Layouts
    /\ size \in Int
    /\ pc \in {"open", "done"} =>
          Accepted(layout, size) /\ file = EmptyStore(layout, size)
    /\ fv # <<>> =>
          Accepted(layout, size) /\ fv = FvWords(layout, size, Checksum(layout, size))
    /\ pc = "done" => opened = OpenedOn(file)
    /\ pc # "failed"

\* What Make wrote stays as it was, and Open accepts it.
LEMMA MadeInvariant == Spec => []MadeInv
<1>1. Init => MadeInv
  BY FormatAssumption DEF Init, MadeInv
<1>2. MadeInv /\ [Next]_vars => MadeInv'
  <2> SUFFICES ASSUME MadeInv, [Next]_vars PROVE MadeInv'
    OBVIOUS
  <2>1. CASE Refuse
    BY <2>1 DEF Refuse, MadeInv
  <2>2. CASE Make
    BY <2>2 DEF Make, MadeInv, Accepted
  <2>3. CASE OpenStore
    <3>1. Opens(file)
      BY <2>3, EmptyStoreOpens DEF OpenStore, MadeInv
    <3> QED
      BY <2>3, <3>1 DEF OpenStore, MadeInv
  <2>4. CASE Returned \/ UNCHANGED vars
    BY <2>4 DEF Returned, vars, MadeInv
  <2> QED
    BY <2>1, <2>2, <2>3, <2>4 DEF Next
<1> QED
  BY <1>1, <1>2, PTL DEF Spec

\* Whatever size is accepted, the Open at the end of Format and FormatOVMF
\* succeeds.
THEOREM FormattedStoreOpens == Spec => []FormatReopens
<1>1. MadeInv => FormatReopens
  BY DEF MadeInv, FormatReopens
<1> QED
  BY <1>1, MadeInvariant, PTL

\* It finds the flavor, the offset and the very size that was written, and no
\* variable.
THEOREM FormattedStoreIsEmpty == Spec => []ReopensAsWritten
<1>1. MadeInv => ReopensAsWritten
  BY EmptyStoreOpens DEF MadeInv, ReopensAsWritten
<1> QED
  BY <1>1, MadeInvariant, PTL

\* The header of every firmware volume written has 36 words that add up to zero
\* in uint16.
THEOREM HeaderAddsUp == Spec => []ChecksumVerifies
<1>1. MadeInv => ChecksumVerifies
  <2>1. FvHeaderSize \div 2 = 36
    BY SMT DEF FvHeaderSize
  <2> QED
    BY <2>1, ChecksumCancels, Zenon DEF MadeInv, ChecksumVerifies
<1> QED
  BY <1>1, MadeInvariant, PTL

\* makeEmptyOVMFStore: store inside volume inside file, and a block map that
\* covers the file to the byte, for every accepted size.
THEOREM FormatGeometry == Spec => []GeometryNests
<1>1. MadeInv => GeometryNests
  <2> SUFFICES ASSUME MadeInv, pc \in {"open", "done"}, layout # "raw"
               PROVE  LET blocks == BlockMap(layout, size)
                      IN /\ StoreOff(file) + StoreHeaderSize <= StoreOff(file) + file.size
                         /\ StoreOff(file) + file.size <= FvLength(layout, size)
                         /\ FvLength(layout, size) <= file.len
                         /\ blocks.num * blocks.len = file.len
    BY DEF GeometryNests
  <2>1. Accepted(layout, size) /\ file = EmptyStore(layout, size)
    BY DEF MadeInv
  <2>2. /\ StoreOff(file) = FvHeaderSize
        /\ file.size = StoreBytes(layout, size)
        /\ file.len = size
    BY <2>1, EmptyStoreHeader DEF HeaderOff
  <2>3. BlockMap(layout, size).num * BlockMap(layout, size).len = file.len
    BY <2>1, <2>2, BlocksCoverFile
  <2>4. /\ StoreBytes(layout, size) \in Int
        /\ StoreHeaderSize <= StoreBytes(layout, size)
        /\ StoreBytes(layout, size) <= size - FvHeaderSize
    BY <2>1, StoreBytesFit DEF HeaderOff
  <2>5. /\ FvLength(layout, size) <= size
        /\ StoreBytes(layout, size) <= FvLength(layout, size) - FvHeaderSize
    BY <2>1, <2>4, AcceptedSize
       DEF FvLength, StoreBytes, HeaderOff, FvHeaderSize, ArmVirtNvVarFvSize, ArmVirtNvVarStoreSize
  <2>6. size \in Int /\ FvLength(layout, size) \in Int
    BY <2>1 DEF Accepted, FvLength, ArmVirtNvVarFvSize
  <2> QED
    BY <2>2, <2>3, <2>4, <2>5, <2>6 DEF StoreHeaderSize, FvHeaderSize
<1> QED
  BY <1>1, MadeInvariant, PTL

\* Every store that is written has a header Open accepts, at the offset and
\* with the size chosen by the writer.
THEOREM FormatHeaderReadsBack == Spec => []HeaderReadsBack
<1>1. MadeInv => HeaderReadsBack
  BY EmptyStoreHeader DEF MadeInv, HeaderReadsBack, Accepted
<1> QED
  BY <1>1, MadeInvariant, PTL

-----------------------------------------------------------------------------
(***************************************************************************)
(* ListBootEntries                                                         *)
(***************************************************************************)

\* One more number at the end of a sequence of numbers.
LEMMA Appended ==
    ASSUME NEW s \in Seq(Num), NEW n \in Num
    PROVE  /\ Append(s, n) \in Seq(Num) /\ Len(s) \in Nat
           /\ DOMAIN s = 1 .. Len(s) /\ DOMAIN Append(s, n) = 1 .. Len(s) + 1
           /\ \A k \in 1 .. Len(s) : Append(s, n)[k] = s[k] /\ s[k] \in Num
           /\ Append(s, n)[Len(s) + 1] = n
           /\ Range(Append(s, n)) = Range(s) \cup {n}
<1>1. /\ Append(s, n) \in Seq(Num) /\ Len(Append(s, n)) = Len(s) + 1 /\ Len(s) \in Nat
      /\ \A k \in 1 .. Len(s) : Append(s, n)[k] = s[k] /\ s[k] \in Num
      /\ Append(s, n)[Len(s) + 1] = n
  OBVIOUS
<1>2. DOMAIN s = 1 .. Len(s) /\ DOMAIN Append(s, n) = 1 .. Len(s) + 1
  BY <1>1
<1>3. 1 .. Len(s) + 1 = (1 .. Len(s)) \cup {Len(s) + 1}
  BY <1>1
<1>4. Range(Append(s, n)) = Range(s) \cup {n}
  BY <1>1, <1>2, <1>3 DEF Range
<1> QED
  BY <1>1, <1>2, <1>4

\* A loop of ListBootEntries, pass by pass.
Passes(listed, ordered, numbers, out) ==
    /\ out \in [0 .. Len(numbers) -> Seq(Num)]
    /\ out[0] = ordered
    /\ \A k \in 1 .. Len(numbers) : out[k] = ListOne(listed, out[k - 1], numbers[k])

\* ListOnce is the listing after the last pass.
LEMMA ListOnceUnfolds ==
    ASSUME NEW listed, NEW ordered \in Seq(Num), NEW numbers \in Seq(Num)
    PROVE  \E out : /\ Passes(listed, ordered, numbers, out)
                    /\ ListOnce(listed, ordered, numbers) = out[Len(numbers)]
<1> DEFINE n == Len(numbers)
           body(f) == [k \in 0 .. n |-> IF k = 0 THEN ordered ELSE ListOne(listed, f[k - 1], numbers[k])]
           out == CHOOSE f : f = body(f)
           step == [k \in 1 .. n |-> [s \in Seq(Num) |-> ListOne(listed, s, numbers[k])]]
<1>1. n \in Nat /\ \A k \in 1 .. n : numbers[k] \in Num
  BY SeqDomain, SeqElement
<1>2. ListOnce(listed, ordered, numbers) = out[n]
  BY DEF ListOnce
<1> HIDE DEF n
<1>3. step \in [1 .. n -> [Seq(Num) -> Seq(Num)]]
  <2>1. \A k \in 1 .. n : \A s \in Seq(Num) : ListOne(listed, s, numbers[k]) \in Seq(Num)
    BY <1>1, Appended DEF ListOne
  <2> QED
    BY <2>1, Zenon
<1>4. \A k \in 1 .. n : \A s \in Seq(Num) : step[k][s] = ListOne(listed, s, numbers[k])
  OBVIOUS
<1> HIDE DEF step
<1>5. PICK f : Recursion(f, n, Seq(Num), ordered, step)
  BY <1>1, <1>3, RecursionExists, Zenon
<1>6. /\ f \in [0 .. n -> Seq(Num)] /\ f[0] = ordered
      /\ \A k \in 1 .. n : f[k] = ListOne(listed, f[k - 1], numbers[k])
  <2>1. \A k \in 1 .. n : f[k - 1] \in Seq(Num)
    BY <1>1, <1>5 DEF Recursion
  <2> QED
    BY <1>4, <1>5, <2>1, Zenon DEF Recursion
<1>7. f = body(f)
  <2>1. f = [k \in 0 .. n |-> f[k]]
    BY <1>6
  <2>2. \A k \in 0 .. n : f[k] = IF k = 0 THEN ordered ELSE ListOne(listed, f[k - 1], numbers[k])
    <3> TAKE k \in 0 .. n
    <3>1. k = 0 \/ (k # 0 /\ k \in 1 .. n)
      BY <1>1
    <3> QED
      BY <1>6, <3>1
  <2> QED
    BY <2>1, <2>2, Zenon
<1>8. out = body(out)
  <2> HIDE DEF body
  <2> QED
    BY <1>7
<1>9. out \in [0 .. n -> Seq(Num)] /\ out[0] = ordered
      /\ \A k \in 1 .. n : out[k] = ListOne(listed, out[k - 1], numbers[k])
  <2> DEFINE S == {k \in 0 .. n : out[k] \in Seq(Num)}
  <2>1. \A k \in 0 .. n : out[k] = IF k = 0 THEN ordered ELSE ListOne(listed, out[k - 1], numbers[k])
    <3> HIDE DEF out
    <3> QED
      BY <1>8, Zenon
  <2>2. DOMAIN out = 0 .. n /\ out = [k \in 0 .. n |-> out[k]]
    <3> HIDE DEF out
    <3> QED
      BY <1>8
  <2> HIDE DEF out, body
  <2>3. out[0] = ordered /\ 0 \in S
    BY <1>1, <2>1
  <2>4. \A k \in 1 .. n : k - 1 \in S => k \in S
    <3> TAKE k \in 1 .. n
    <3>1. k \in 0 .. n /\ k # 0
      BY <1>1
    <3>2. \A s \in Seq(Num) : ListOne(listed, s, numbers[k]) \in Seq(Num)
      BY <1>1, Appended DEF ListOne
    <3> QED
      BY <2>1, <3>1, <3>2
  <2> HIDE DEF S
  <2>5. 0 .. n \subseteq S
    BY <1>1, <2>3, <2>4, RangeInduction, Zenon
  <2>6. \A k \in 0 .. n : out[k] \in Seq(Num)
    BY <2>5 DEF S
  <2>7. \A k \in 1 .. n : k \in 0 .. n /\ k # 0
    BY <1>1
  <2> QED
    BY <2>1, <2>2, <2>3, <2>6, <2>7, Zenon
<1>10. Passes(listed, ordered, numbers, out) /\ ListOnce(listed, ordered, numbers) = out[Len(numbers)]
  <2> HIDE DEF out
  <2> QED
    BY <1>2, <1>9 DEF Passes, n
<1> HIDE DEF out
<1> QED
  BY <1>10, Zenon

\* The rank of a number is its first place in the order, or behind it.
LEMMA RankProperties ==
    ASSUME NEW o \in Seq(Num), NEW n \in Num
    PROVE  /\ Rank(o, n) \in Nat
           /\ n \in Range(o) => /\ Rank(o, n) \in DOMAIN o /\ o[Rank(o, n)] = n
                                /\ \A k \in DOMAIN o : o[k] = n => Rank(o, n) <= k
           /\ n \notin Range(o) => Rank(o, n) = Len(o) + 1 + n
<1> DEFINE P == {k \in DOMAIN o : o[k] = n}
<1>1. n \in Nat /\ Len(o) \in Nat /\ DOMAIN o = 1 .. Len(o)
  BY BootAssumption, SeqDomain DEF Num
<1>2. CASE n \in Range(o)
  <2>1. P # {} /\ P \subseteq Nat
    BY <1>1, <1>2 DEF Range
  <2>2. Min(P) \in P /\ \A k \in P : Min(P) <= k
    <3> HIDE DEF P
    <3>1. PICK m \in P : \A k \in P : m <= k
      BY <2>1, LowestExists, Zenon
    <3> QED
      BY <3>1, Zenon DEF Min
  <2>3. Rank(o, n) = Min(P)
    BY <1>2, Zenon DEF Rank
  <2> QED
    BY <1>1, <1>2, <2>2, <2>3
<1>3. CASE n \notin Range(o)
  <2>1. Rank(o, n) = Len(o) + 1 + n
    BY <1>3, Zenon DEF Rank
  <2> QED
    BY <1>1, <1>3, <2>1
<1> QED
  BY <1>2, <1>3

\* The numbers of s stand where the order o puts them, none behind b.
Sorted(o, s) == \A i, j \in DOMAIN s : i < j => Rank(o, s[i]) < Rank(o, s[j])
Ranked(o, s, b) == Sorted(o, s) /\ \A i \in DOMAIN s : Rank(o, s[i]) <= b

\* A bound on the ranks may be raised.
LEMMA RankedMore ==
    ASSUME NEW o \in Seq(Num), NEW s \in Seq(Num), NEW b \in Nat, NEW c \in Nat, b <= c, Ranked(o, s, b)
    PROVE  Ranked(o, s, c)
<1>1. \A i \in DOMAIN s : Rank(o, s[i]) \in Nat
  BY RankProperties
<1> QED
  BY <1>1 DEF Ranked

\* A number behind all others may be appended.
LEMMA RankedAppend ==
    ASSUME NEW o \in Seq(Num), NEW s \in Seq(Num), NEW n \in Num, NEW b \in Nat, NEW c \in Nat,
           Ranked(o, s, b), b < c, Rank(o, n) = c
    PROVE  Ranked(o, Append(s, n), c)
<1>1. /\ Append(s, n) \in Seq(Num) /\ Len(s) \in Nat
      /\ DOMAIN s = 1 .. Len(s) /\ DOMAIN Append(s, n) = 1 .. Len(s) + 1
      /\ \A k \in 1 .. Len(s) : Append(s, n)[k] = s[k] /\ s[k] \in Num
      /\ Append(s, n)[Len(s) + 1] = n
  BY Appended
<1>2. PICK t : t = Append(s, n)
  BY Zenon
<1>3. PICK l \in Nat : l = Len(s)
  BY <1>1, Zenon
<1>4. \A k \in 1 .. l : t[k] = s[k] /\ Rank(o, s[k]) \in Nat /\ Rank(o, s[k]) <= b
  BY <1>1, <1>2, <1>3, RankProperties, Zenon DEF Ranked
<1>5. DOMAIN t = 1 .. l + 1 /\ t[l + 1] = n /\ DOMAIN s = 1 .. l
  BY <1>1, <1>2, <1>3
<1>6. \A i \in DOMAIN t : i \in 1 .. l \/ i = l + 1
  BY <1>5
<1>7. \A i \in DOMAIN t : Rank(o, t[i]) <= c
  BY <1>4, <1>5, <1>6
<1>8. ASSUME NEW i \in DOMAIN t, NEW j \in DOMAIN t, i < j PROVE Rank(o, t[i]) < Rank(o, t[j])
  <2>1. i \in 1 .. l
    BY <1>5, <1>8
  <2>2. CASE j = l + 1
    BY <1>4, <1>5, <2>1, <2>2
  <2>3. CASE j \in 1 .. l
    BY <1>4, <1>5, <1>8, <2>1, <2>3 DEF Ranked, Sorted
  <2> QED
    BY <1>6, <2>2, <2>3
<1> QED
  BY <1>2, <1>7, <1>8 DEF Ranked, Sorted

\* What a pass does to the numbers listed so far.
Passed(listed, s, n, t) ==
    /\ Range(t) = Range(s) \cup ({n} \cap listed)
    /\ n \in listed \ Range(s) => t = Append(s, n)
    /\ n \notin listed \ Range(s) => t = s

\* A pass of the loop does that.
LEMMA OnePass ==
    ASSUME NEW listed, NEW s \in Seq(Num), NEW n \in Num
    PROVE  Passed(listed, s, n, ListOne(listed, s, n))
<1>1. Range(Append(s, n)) = Range(s) \cup {n}
  BY Appended
<1> QED
  BY <1>1 DEF ListOne, Passed

\* The numbers of the first k places.
Upto(o, k) == {o[i] : i \in 1 .. k}

\* One place more adds its number.
LEMMA UptoNext ==
    ASSUME NEW o \in Seq(Num), NEW k \in 1 .. Len(o)
    PROVE  Upto(o, k) = Upto(o, k - 1) \cup {o[k]}
<1>1. Len(o) \in Nat
  BY SeqDomain
<1>2. 1 .. k = (1 .. k - 1) \cup {k}
  BY <1>1
<1> QED
  BY <1>2 DEF Upto

\* The first loop lists the entries BootOrder names, each where it is named
\* first.
LEMMA FirstLoop ==
    ASSUME NEW listed, NEW o \in Seq(Num), NEW first, first = ListOnce(listed, <<>>, o)
    PROVE  first \in Seq(Num) /\ Range(first) = listed \cap Range(o) /\ Ranked(o, first, Len(o))
<1>1. <<>> \in Seq(Num) /\ Len(o) \in Nat /\ DOMAIN o = 1 .. Len(o)
      /\ \A k \in 1 .. Len(o) : o[k] \in Num
  OBVIOUS
<1>2. PICK out : Passes(listed, <<>>, o, out) /\ first = out[Len(o)]
  BY <1>1, ListOnceUnfolds, Zenon
<1> DEFINE S == {k \in 0 .. Len(o) : Range(out[k]) = listed \cap Upto(o, k) /\ Ranked(o, out[k], k)}
<1>3. 0 \in S
  <2>1. out[0] = <<>>
    BY <1>2 DEF Passes
  <2>2. Range(<<>>) = {} /\ Upto(o, 0) = {} /\ DOMAIN <<>> = {}
    BY DEF Range, Upto
  <2>3. Ranked(o, <<>>, 0)
    BY <2>2 DEF Ranked, Sorted
  <2> QED
    BY <1>1, <2>1, <2>2, <2>3
<1>4. ASSUME NEW k \in 1 .. Len(o), k - 1 \in S PROVE k \in S
  <2>1. k \in Nat /\ k - 1 \in Nat /\ k - 1 \in 0 .. Len(o) /\ k \in 0 .. Len(o) /\ o[k] \in Num
    BY <1>1
  <2>2. PICK s \in Seq(Num) : s = out[k - 1]
    BY <1>2, <2>1, SMTT(90) DEF Passes
  <2>3. Passed(listed, s, o[k], out[k])
    <3>1. out[k] = ListOne(listed, s, o[k])
      BY <1>2, <2>2 DEF Passes
    <3>2. o[k] \in Num
      BY <2>1
    <3> QED
      BY <3>1, <3>2, OnePass, Zenon
  <2>4. Range(s) = listed \cap Upto(o, k - 1) /\ Ranked(o, s, k - 1)
    BY <1>4, <2>2
  <2>5. Range(out[k]) = listed \cap Upto(o, k)
    <3>1. Range(out[k]) = Range(s) \cup ({o[k]} \cap listed)
      BY <2>3, Zenon DEF Passed
    <3>2. Upto(o, k) = Upto(o, k - 1) \cup {o[k]}
      BY UptoNext
    <3> QED
      BY <2>4, <3>1, <3>2
  <2>6. Ranked(o, out[k], k)
    <3>1. CASE o[k] \in listed \ Range(s)
      <4>1. o[k] \notin Upto(o, k - 1)
        BY <2>4, <3>1
      <4>2. o[k] \in Range(o)
        BY <1>1 DEF Range
      <4>3. /\ Rank(o, o[k]) \in DOMAIN o /\ o[Rank(o, o[k])] = o[k] /\ Rank(o, o[k]) <= k
        BY <1>1, <2>1, <4>2, RankProperties
      <4>4. PICK r \in 1 .. Len(o) : r = Rank(o, o[k])
        BY <1>1, <4>3
      <4>5. r <= k /\ r \notin 1 .. k - 1
        BY <4>1, <4>3, <4>4 DEF Upto
      <4>6. r = k
        BY <1>1, <2>1, <4>5
      <4>7. k - 1 < k
        BY <2>1
      <4>8. Ranked(o, Append(s, o[k]), k)
        BY <2>1, <2>4, <4>4, <4>6, <4>7, RankedAppend, Zenon
      <4>9. out[k] = Append(s, o[k])
        BY <2>3, <3>1, Zenon DEF Passed
      <4> QED
        BY <4>8, <4>9
    <3>2. CASE o[k] \notin listed \ Range(s)
      <4>1. out[k] = s
        BY <2>3, <3>2, Zenon DEF Passed
      <4>2. k - 1 <= k
        BY <2>1
      <4> QED
        BY <2>1, <2>4, <4>1, <4>2, RankedMore
    <3> QED
      BY <3>1, <3>2
  <2> QED
    BY <2>1, <2>5, <2>6
<1>5. Len(o) \in S
  <2> HIDE DEF S
  <2>1. 0 .. Len(o) \subseteq S
    BY <1>1, <1>3, <1>4, RangeInduction, Zenon
  <2> QED
    BY <1>1, <2>1
<1>6. Upto(o, Len(o)) = Range(o)
  BY <1>1 DEF Upto, Range
<1>7. first \in Seq(Num)
  BY <1>1, <1>2 DEF Passes
<1> QED
  BY <1>2, <1>5, <1>6, <1>7

\* The second loop adds the entries BootOrder does not name, by number.
LEMMA SecondLoop ==
    ASSUME NEW listed, listed \subseteq Num, NEW o \in Seq(Num), NEW first \in Seq(Num),
           Range(first) = listed \cap Range(o), Ranked(o, first, Len(o)),
           NEW all, all = ListOnce(listed, first, Ascending)
    PROVE  all \in Seq(Num) /\ Range(all) = listed /\ Sorted(o, all)
<1>1. PICK m \in Nat : m = MaxBootEntries
  BY BootAssumption
<1>2. Num = 0 .. m - 1
  BY <1>1 DEF Num
<1>3. Ascending \in Seq(Num) /\ Len(Ascending) = m /\ \A k \in 1 .. m : Ascending[k] = k - 1 /\ k - 1 \in Num
  BY <1>1, <1>2 DEF Ascending
<1>4. Len(o) \in Nat
  BY SeqDomain
<1>5. PICK out : Passes(listed, first, Ascending, out) /\ all = out[m]
  BY <1>3, ListOnceUnfolds, Zenon
<1>6. PICK l \in Nat : l = Len(o)
  BY <1>4
<1> DEFINE S == {k \in 0 .. m : /\ Range(out[k]) = Range(first) \cup {n \in listed : n < k}
                                /\ Ranked(o, out[k], l + k)}
<1>7. 0 \in S
  <2>1. out[0] = first
    BY <1>5 DEF Passes
  <2>2. {n \in listed : n < 0} = {}
    <3>1. \A n \in listed : ~(n < 0)
      BY <1>2
    <3> QED
      BY <3>1, Zenon
  <2>3. l + 0 = Len(o)
    BY <1>6
  <2> QED
    BY <2>1, <2>2, <2>3
<1>8. ASSUME NEW k \in 1 .. m, k - 1 \in S PROVE k \in S
  <2>1. k \in Nat /\ k - 1 \in Nat /\ k - 1 \in 0 .. m /\ k \in 0 .. m /\ k - 1 \in Num
    BY <1>3
  <2>2. PICK s \in Seq(Num) : s = out[k - 1]
    BY <1>3, <1>5, <2>1 DEF Passes
  <2>3. Passed(listed, s, k - 1, out[k])
    <3>1. out[k] = ListOne(listed, s, k - 1)
      BY <1>3, <1>5, <2>2 DEF Passes
    <3>2. k - 1 \in Num
      BY <2>1
    <3> QED
      BY <3>1, <3>2, OnePass, Zenon
  <2>4. Range(s) = Range(first) \cup {n \in listed : n < k - 1} /\ Ranked(o, s, l + (k - 1))
    BY <1>8, <2>2
  <2>5. Range(out[k]) = Range(first) \cup {n \in listed : n < k}
    <3>1. Range(out[k]) = Range(s) \cup ({k - 1} \cap listed)
      BY <2>3, Zenon DEF Passed
    <3>2. \A n \in listed : n < k <=> n < k - 1 \/ n = k - 1
      BY <1>2, <2>1
    <3> QED
      BY <2>4, <3>1, <3>2
  <2>6. Ranked(o, out[k], l + k)
    <3>0. l + (k - 1) \in Nat /\ l + k \in Nat /\ l + (k - 1) < l + k /\ l + (k - 1) <= l + k
      BY <2>1
    <3>1. CASE k - 1 \in listed \ Range(s)
      <4>1. k - 1 \notin Range(o)
        BY <2>4, <3>1
      <4>2. Rank(o, k - 1) = l + k
        <5>1. Rank(o, k - 1) = Len(o) + 1 + (k - 1)
          BY <2>1, <4>1, RankProperties
        <5> QED
          BY <1>6, <2>1, <5>1
      <4>3. Ranked(o, Append(s, k - 1), l + k)
        BY <2>1, <2>4, <3>0, <4>2, RankedAppend
      <4>4. out[k] = Append(s, k - 1)
        BY <2>3, <3>1, Zenon DEF Passed
      <4> QED
        BY <4>3, <4>4
    <3>2. CASE k - 1 \notin listed \ Range(s)
      <4>1. out[k] = s
        BY <2>3, <3>2, Zenon DEF Passed
      <4> QED
        BY <2>4, <3>0, <4>1, RankedMore
    <3> QED
      BY <3>1, <3>2
  <2> QED
    BY <2>1, <2>5, <2>6
<1>9. m \in S
  <2> HIDE DEF S
  <2>1. 0 .. m \subseteq S
    BY <1>7, <1>8, RangeInduction, Zenon
  <2> QED
    BY <2>1
<1>10. {n \in listed : n < m} = listed
  <2>1. \A n \in listed : n < m
    BY <1>2
  <2> QED
    BY <2>1, Zenon
<1>11. all \in Seq(Num)
  BY <1>3, <1>5 DEF Passes
<1>12. Range(all) = listed
  BY <1>5, <1>9, <1>10, Zenon
<1> QED
  BY <1>5, <1>9, <1>11, <1>12 DEF Ranked

\* The order names no number twice.
Distinct(o) == \A i, j \in DOMAIN o : o[i] = o[j] => i = j

\* An order that names every listed entry once and nothing else is the listing.
LEMMA OrderIsListing ==
    ASSUME NEW o \in Seq(Num), Distinct(o)
    PROVE  ListOnce(Range(o), ListOnce(Range(o), <<>>, o), Ascending) = o
<1>1. <<>> \in Seq(Num) /\ Len(o) \in Nat /\ DOMAIN o = 1 .. Len(o)
      /\ \A k \in 1 .. Len(o) : o[k] \in Num
  OBVIOUS
<1>2. ListOnce(Range(o), <<>>, o) = o
  <2>1. PICK out : Passes(Range(o), <<>>, o, out) /\ ListOnce(Range(o), <<>>, o) = out[Len(o)]
    BY <1>1, ListOnceUnfolds, Zenon
  <2> DEFINE S == {k \in 0 .. Len(o) : Len(out[k]) = k /\ \A i \in 1 .. k : out[k][i] = o[i]}
  <2>2. 0 \in S
    <3>1. out[0] = <<>> /\ Len(<<>>) = 0
      BY <2>1 DEF Passes
    <3> QED
      BY <1>1, <3>1
  <2>3. ASSUME NEW k \in 1 .. Len(o), k - 1 \in S PROVE k \in S
    <3>1. k \in Nat /\ k - 1 \in Nat /\ k - 1 \in 0 .. Len(o) /\ k \in 0 .. Len(o) /\ o[k] \in Num
      BY <1>1
    <3>2. PICK s \in Seq(Num) : s = out[k - 1]
      BY <2>1, <3>1, ZenonT(60) DEF Passes
    <3>3. Passed(Range(o), s, o[k], out[k])
      <4>1. out[k] = ListOne(Range(o), s, o[k])
        BY <2>1, <3>2 DEF Passes
      <4>2. o[k] \in Num
        BY <3>1
      <4> QED
        BY <4>1, <4>2, OnePass, Zenon
    <3>4. Len(s) = k - 1 /\ \A i \in 1 .. k - 1 : s[i] = o[i]
      BY <2>3, <3>2
    <3>5. o[k] \notin Range(s)
      <4> SUFFICES ASSUME o[k] \in Range(s) PROVE FALSE
        OBVIOUS
      <4>1. PICK i \in 1 .. k - 1 : s[i] = o[k]
        BY <3>4 DEF Range
      <4>2. i \in DOMAIN o /\ k \in DOMAIN o /\ i # k /\ o[i] = o[k]
        BY <1>1, <3>1, <3>4, <4>1
      <4> QED
        BY <4>2 DEF Distinct
    <3>6. o[k] \in Range(o)
      BY <1>1 DEF Range
    <3>7. out[k] = Append(s, o[k])
      BY <3>3, <3>5, <3>6, Zenon DEF Passed
    <3>8. /\ DOMAIN Append(s, o[k]) = 1 .. Len(s) + 1 /\ Append(s, o[k]) \in Seq(Num)
          /\ \A i \in 1 .. Len(s) : Append(s, o[k])[i] = s[i]
          /\ Append(s, o[k])[Len(s) + 1] = o[k]
      BY <3>1, Appended
    <3>9. Len(out[k]) = k
      BY <3>1, <3>4, <3>7, <3>8
    <3>10. \A i \in 1 .. k : i \in 1 .. k - 1 \/ i = k
      BY <3>1
    <3>11. \A i \in 1 .. k : out[k][i] = o[i]
      BY <3>1, <3>4, <3>7, <3>8, <3>10
    <3> QED
      BY <3>1, <3>9, <3>11
  <2>4. Len(o) \in S
    <3> HIDE DEF S
    <3>1. 0 .. Len(o) \subseteq S
      BY <1>1, <2>2, <2>3, RangeInduction, Zenon
    <3> QED
      BY <1>1, <3>1
  <2>5. out[Len(o)] \in Seq(Num)
    BY <1>1, <2>1 DEF Passes
  <2>6. out[Len(o)] = o
    BY <2>4, <2>5, SeqSame
  <2> QED
    BY <2>1, <2>6
<1>3. ListOnce(Range(o), o, Ascending) = o
  <2>1. PICK m \in Nat : m = MaxBootEntries
    BY BootAssumption
  <2>2. Num = 0 .. m - 1
    BY <2>1 DEF Num
  <2>3. Ascending \in Seq(Num) /\ Len(Ascending) = m /\ \A k \in 1 .. m : Ascending[k] \in Num
    BY <2>1, <2>2 DEF Ascending
  <2>4. PICK out : Passes(Range(o), o, Ascending, out) /\ ListOnce(Range(o), o, Ascending) = out[m]
    BY <2>3, ListOnceUnfolds, Zenon
  <2> DEFINE S == {k \in 0 .. m : out[k] = o}
  <2>5. 0 \in S
    BY <2>4 DEF Passes
  <2>6. ASSUME NEW k \in 1 .. m, k - 1 \in S PROVE k \in S
    <3>1. out[k] = ListOne(Range(o), o, Ascending[k])
      BY <2>3, <2>4, <2>6 DEF Passes
    <3>2. ListOne(Range(o), o, Ascending[k]) = o
      BY DEF ListOne
    <3> QED
      BY <3>1, <3>2
  <2>7. m \in S
    <3> HIDE DEF S
    <3>1. 0 .. m \subseteq S
      BY <2>5, <2>6, RangeInduction, Zenon
    <3> QED
      BY <3>1
  <2> QED
    BY <2>4, <2>7
<1> QED
  BY <1>2, <1>3

\* ListBootEntries on any entries and any order.
LEMMA ListingExact ==
    ASSUME NEW listed, listed \subseteq Num, NEW o \in Seq(Num),
           NEW all, all = ListOnce(listed, ListOnce(listed, <<>>, o), Ascending)
    PROVE  all \in Seq(Num) /\ Range(all) = listed /\ Sorted(o, all)
<1>1. PICK first : first = ListOnce(listed, <<>>, o)
  OBVIOUS
<1>2. first \in Seq(Num) /\ Range(first) = listed \cap Range(o) /\ Ranked(o, first, Len(o))
  BY <1>1, FirstLoop, Zenon
<1> QED
  BY <1>1, <1>2, SecondLoop, Zenon

-----------------------------------------------------------------------------
(***************************************************************************)
(* The boot manager: its inductive invariant.  Entries have content,       *)
(* BootOrder holds Boot#### numbers, and a call under way has written its  *)
(* entry and remembers the listing without it.                             *)
(***************************************************************************)

\* The listing without the entry of the call under way.
ListedBefore == ListOnce(Listed \ {call.n}, ListOnce(Listed \ {call.n}, <<>>, BootOrder), Ascending)

BootInv ==
    /\ Used \subseteq Num
    /\ \A n \in Used : entries[n] \in Seq(Content) /\ entries[n] # <<>>
    /\ order \in Seq(Num) \cup {Absent, BadLength}
    /\ ~Idle => /\ call.n \in Num /\ call.n \in Used
                /\ call.lo \in LoadOption /\ entries[call.n] = <<call.lo>>
                /\ ~BootOrderFails => call.listing = ListedBefore

\* lowestFreeBootNum finds a free number whenever there is one.
LEMMA LowestIsFree == ASSUME Free # {} PROVE LowestFree \in Free /\ LowestFree \in Num
<1>1. Free \subseteq Nat /\ Free \subseteq Num
  BY BootAssumption DEF Free, Num
<1>2. \E n \in Free : \A m \in Free : n <= m
  BY <1>1, LowestExists, Zenon
<1> QED
  BY <1>1, <1>2, ZenonT(60) DEF LowestFree

\* The orders callers write are sequences of numbers.
LEMMA OrdersAreSequences == \A o \in Orders : o \in Seq(Num)
BY DEF Orders

\* And so is the order a call of SetBootOrder has.
LEMMA OrdersForAreSequences == ASSUME NEW r, NEW o \in OrdersFor(r) PROVE o \in Seq(Num)
<1>1. <<>> \in Seq(Num)
  OBVIOUS
<1> QED
  BY <1>1, OrdersAreSequences, ZenonT(60) DEF OrdersFor

\* The store found on disk satisfies the invariant.
LEMMA InitBootInv == ManagerInit => BootInv
<1> SUFFICES ASSUME ManagerInit PROVE BootInv
  OBVIOUS
<1>1. PICK S \in SUBSET Num : entries \in [S -> UNION {Found(n) : n \in S}] /\ \A n \in S : entries[n] \in Found(n)
  BY DEF ManagerInit
<1>2. Used = S
  BY <1>1 DEF Used
<1>3. ASSUME NEW n \in S PROVE entries[n] \in Seq(Content) /\ entries[n] # <<>>
  <2>1. entries[n] \in Found(n)
    BY <1>1
  <2>2. CASE \E b \in Content : entries[n] = <<b>>
    BY <2>2
  <2>3. CASE entries[n] \in Content \X Content
    <3>1. PICK b \in Content, c \in Content : entries[n] = <<b, c>>
      BY <2>3
    <3> QED
      BY <3>1
  <2> QED
    BY <2>1, <2>2, <2>3 DEF Found
<1>4. order \in Seq(Num) \cup {Absent, BadLength} /\ Idle
  BY OrdersAreSequences DEF ManagerInit, Idle
<1> QED
  BY <1>2, <1>3, <1>4 DEF BootInv

\* What a call may do to the entries.
EntryStep ==
    \/ entries' = entries
    \/ \E n \in Num, entry \in LoadOption : entries' = WithEntry(n, entry)
    \/ \E n \in Num : entries' = [m \in Used \ {n} |-> entries[m]]

\* Every call does that.
LEMMA NextEntryStep == ASSUME [ManagerNext]_managerVars PROVE EntryStep
<1>1. CASE UNCHANGED managerVars
  BY <1>1 DEF managerVars, EntryStep
<1>2. ASSUME NEW entry \in LoadOption, NEW r \in Outcome, AddEntry(entry, r) PROVE EntryStep
  <2>1. LowestFree \in Num
    BY <1>2, LowestIsFree DEF AddEntry
  <2>2. entries' = entries \/ entries' = WithEntry(LowestFree, entry)
    BY <1>2, Zenon DEF AddEntry
  <2> QED
    BY <2>1, <2>2, Zenon DEF EntryStep
<1>3. CASE AddStep
  BY <1>2, <1>3, Zenon DEF AddStep, AddToOrder, AddOrderUnreadable, AddNoSlot, EntryStep
<1>4. ASSUME NEW r \in Outcome, NEW n \in Num, DeleteBootEntry(n, r) PROVE EntryStep
  BY <1>4, Zenon DEF DeleteBootEntry, EntryStep
<1>5. ASSUME NEW r \in Outcome, NEW n \in Num, NEW entry \in LoadOption, SetBootEntry(n, entry, r) PROVE EntryStep
  BY <1>5, Zenon DEF SetBootEntry, EntryStep
<1>6. ASSUME NEW r \in Outcome,
             \/ \E o \in OrdersFor(r) : SetBootOrder(o, r)
             \/ \E c \in Control, n \in ControlValue : SetControl(c, n, r)
             \/ ClearBootNext(r)
      PROVE  EntryStep
  BY <1>6, Zenon DEF SetBootOrder, SetControl, ClearBootNext, EntryStep
<1> QED
  BY <1>1, <1>3, <1>4, <1>5, <1>6, Zenon DEF ManagerNext

\* Every number keeps its content, loses it or gets one load option.
LEMMA EntryEffect ==
    ASSUME BootInv, EntryStep
    PROVE  /\ Used' \subseteq Num
           /\ \A n \in Used' : \/ n \in Used /\ entries'[n] = entries[n]
                               \/ \E entry \in LoadOption : entries'[n] = <<entry>>
<1>1. CASE entries' = entries
  BY <1>1 DEF BootInv, Used
<1>2. ASSUME NEW n \in Num, NEW entry \in LoadOption, entries' = WithEntry(n, entry)
      PROVE  /\ Used' \subseteq Num
             /\ \A m \in Used' : \/ m \in Used /\ entries'[m] = entries[m]
                                 \/ \E e \in LoadOption : entries'[m] = <<e>>
  <2>1. /\ Used' = Used \cup {n} /\ entries'[n] = <<entry>>
        /\ \A m \in Used : m # n => entries'[m] = entries[m]
    <3>1. /\ DOMAIN WithEntry(n, entry) = Used \cup {n} /\ WithEntry(n, entry)[n] = <<entry>>
          /\ \A m \in Used : m # n => WithEntry(n, entry)[m] = entries[m]
      BY DEF WithEntry
    <3>2. Used' = DOMAIN entries'
      BY DEF Used
    <3> QED
      BY <1>2, <3>1, <3>2
  <2> QED
    BY <2>1, Zenon DEF BootInv
<1>3. ASSUME NEW n \in Num, entries' = [m \in Used \ {n} |-> entries[m]]
      PROVE  Used' \subseteq Num /\ \A m \in Used' : m \in Used /\ entries'[m] = entries[m]
  <2>1. Used' = Used \ {n} /\ \A m \in Used \ {n} : entries'[m] = entries[m]
    BY <1>3 DEF Used
  <2> QED
    BY <2>1 DEF BootInv
<1> QED
  BY <1>1, <1>2, <1>3, Zenon DEF EntryStep

\* The entries stay sequences that are not empty.
LEMMA EntriesTyped ==
    ASSUME BootInv, EntryStep
    PROVE  Used' \subseteq Num /\ \A n \in Used' : entries'[n] \in Seq(Content) /\ entries'[n] # <<>>
<1>1. \A entry \in LoadOption : <<entry>> \in Seq(Content) /\ <<entry>> # <<>>
  BY DEF Content
<1> QED
  BY <1>1, EntryEffect, Zenon DEF BootInv

\* What ListBootEntries makes of the content of a number.
LastGood(bs) ==
    LET good == {k \in DOMAIN bs : bs[k] # Malformed}
    IN IF good = {} THEN Malformed ELSE bs[Max(good)]

\* One load option is what every reader returns, no content is an error.
LEMMA LastGoodProperties ==
    /\ LastGood(<<>>) = Malformed
    /\ \A entry \in LoadOption : LastGood(<<entry>>) = entry /\ entry # Malformed
<1>1. LastGood(<<>>) = Malformed
  <2>1. {k \in DOMAIN <<>> : <<>>[k] # Malformed} = {}
    OBVIOUS
  <2> QED
    BY <2>1, Zenon DEF LastGood
<1>2. ASSUME NEW entry \in LoadOption PROVE LastGood(<<entry>>) = entry /\ entry # Malformed
  <2>1. entry # Malformed
    BY BootAssumption
  <2>2. {k \in DOMAIN <<entry>> : <<entry>>[k] # Malformed} = {1}
    BY <2>1
  <2>3. Max({1}) = 1
    BY DEF Max
  <2>4. <<entry>>[1] = entry
    OBVIOUS
  <2> QED
    BY <2>1, <2>2, <2>3, <2>4, Zenon DEF LastGood
<1> QED
  BY <1>1, <1>2

\* The option listed for a number, before and after a step.
LEMMA ListedIsLastGood ==
    ASSUME NEW n
    PROVE  /\ ListedOption(n) = LastGood(Blobs(n)) /\ ListedOption(n)' = LastGood(Blobs(n)')
           /\ Listed = {m \in Used : LastGood(entries[m]) # Malformed}
           /\ Listed' = {m \in Used' : LastGood(entries'[m]) # Malformed}
<1>1. ListedOption(n) = LastGood(Blobs(n)) /\ ListedOption(n)' = LastGood(Blobs(n)')
  BY Zenon DEF ListedOption, LastGood
<1>2. \A m \in Used : ListedOption(m) = LastGood(entries[m])
  BY Zenon DEF ListedOption, LastGood, Blobs
<1>3. \A m \in Used' : ListedOption(m)' = LastGood(entries'[m])
  BY Zenon DEF ListedOption, LastGood, Blobs
<1> QED
  BY <1>1, <1>2, <1>3, Zenon DEF Listed

\* The steps of AddBootEntry preserve the invariant: the listing it remembers
\* is the listing without the entry it wrote.
LEMMA AddBootInv == ASSUME BootInv, AddStep PROVE BootInv'
<1>0. Used' \subseteq Num /\ \A n \in Used' : entries'[n] \in Seq(Content) /\ entries'[n] # <<>>
  BY NextEntryStep, EntriesTyped, Zenon DEF ManagerNext
<1>1. ASSUME NEW entry \in LoadOption, NEW r \in Outcome, AddEntry(entry, r) PROVE BootInv'
  <2>1. LowestFree \in Num /\ LowestFree \notin Used
    BY <1>1, LowestIsFree DEF AddEntry, Free
  <2>2. order' = order
    BY <1>1 DEF AddEntry
  <2>3. CASE r # "ok"
    <3>1. Idle'
      BY <1>1, <2>3, Zenon DEF AddEntry, Return, Idle
    <3> QED
      BY <1>0, <2>2, <3>1, Zenon DEF BootInv
  <2>4. CASE r = "ok"
    <3>1. /\ entries' = WithEntry(LowestFree, entry)
          /\ call' = Began(entry)
      BY <1>1, <2>4 DEF AddEntry
    <3>2. /\ call'.n = LowestFree /\ call'.lo = entry
          /\ ~BootOrderFails => call'.listing = ListBootEntries
      BY <3>1 DEF Began
    <3>3. /\ Used' = Used \cup {LowestFree} /\ entries'[LowestFree] = <<entry>>
          /\ \A m \in Used : entries'[m] = entries[m]
      <4>1. /\ DOMAIN WithEntry(LowestFree, entry) = Used \cup {LowestFree}
            /\ WithEntry(LowestFree, entry)[LowestFree] = <<entry>>
            /\ \A m \in Used : m # LowestFree => WithEntry(LowestFree, entry)[m] = entries[m]
        BY DEF WithEntry
      <4>2. Used' = DOMAIN entries'
        BY DEF Used
      <4> QED
        BY <2>1, <3>1, <4>1, <4>2
    <3>4. Listed' \ {LowestFree} = Listed
      <4>1. /\ Listed = {m \in Used : LastGood(entries[m]) # Malformed}
            /\ Listed' = {m \in Used' : LastGood(entries'[m]) # Malformed}
        BY ListedIsLastGood, Zenon
      <4> QED
        BY <2>1, <3>3, <4>1
    <3>5. BootOrder' = BootOrder /\ BootOrderFails' = BootOrderFails
      BY <2>2 DEF BootOrder, BootOrderFails
    <3>6. ListBootEntries = ListedBefore'
      <4>1. ListedBefore' = ListOnce(Listed' \ {call'.n}, ListOnce(Listed' \ {call'.n}, <<>>, BootOrder'), Ascending)
        BY DEF ListedBefore
      <4> QED
        BY <3>2, <3>4, <3>5, <4>1, Zenon DEF ListBootEntries
    <3>7. ~BootOrderFails' => call'.listing = ListedBefore'
      BY <3>2, <3>5, <3>6
    <3>8. call'.n \in Num /\ call'.n \in Used' /\ call'.lo \in LoadOption /\ entries'[call'.n] = <<call'.lo>>
      BY <2>1, <3>2, <3>3
    <3> QED
      BY <1>0, <2>2, <3>7, <3>8, Zenon DEF BootInv
  <2> QED
    BY <2>3, <2>4
<1>2. ASSUME NEW r \in Outcome, AddToOrder(r) PROVE BootInv'
  <2>1. BootOrder \in Seq(Num) /\ call.n \in Num
    BY <1>2 DEF AddToOrder, BootInv, BootOrder, BootOrderFails
  <2>2. order' \in Seq(Num) \cup {Absent, BadLength}
    BY <1>2, <2>1 DEF AddToOrder, BootInv
  <2>3. Idle'
    BY <1>2 DEF AddToOrder, Return, Idle
  <2> QED
    BY <1>0, <2>2, <2>3, Zenon DEF BootInv
<1>3. ASSUME AddOrderUnreadable \/ AddNoSlot PROVE BootInv'
  <2>1. order' = order /\ Idle'
    BY <1>3, Zenon DEF AddOrderUnreadable, AddNoSlot, Return, Idle
  <2> QED
    BY <1>0, <2>1, Zenon DEF BootInv
<1> QED
  BY <1>1, <1>2, <1>3, Zenon DEF AddStep

\* Every step of the boot manager preserves the invariant.
LEMMA NextBootInv == BootInv /\ [ManagerNext]_managerVars => BootInv'
<1> SUFFICES ASSUME BootInv, [ManagerNext]_managerVars PROVE BootInv'
  OBVIOUS
<1>0. Used' \subseteq Num /\ \A n \in Used' : entries'[n] \in Seq(Content) /\ entries'[n] # <<>>
  BY NextEntryStep, EntriesTyped, Zenon
<1>1. CASE AddStep
  BY <1>1, AddBootInv, Zenon
<1>2. ASSUME NEW r \in Outcome, NEW o \in OrdersFor(r), SetBootOrder(o, r) PROVE BootInv'
  <2>1. order' \in Seq(Num) \cup {Absent, BadLength} /\ Idle'
    BY <1>2, OrdersForAreSequences DEF SetBootOrder, BootInv, Return, Idle
  <2> QED
    BY <1>0, <2>1, Zenon DEF BootInv
<1>3. ASSUME NEW r \in Outcome,
             \/ \E n \in Num : DeleteBootEntry(n, r) \/ \E entry \in LoadOption : SetBootEntry(n, entry, r)
             \/ \E c \in Control, n \in ControlValue : SetControl(c, n, r)
             \/ ClearBootNext(r)
      PROVE  BootInv'
  <2>1. order' = order /\ Idle'
    BY <1>3, ZenonT(60) DEF DeleteBootEntry, SetBootEntry, SetControl, ClearBootNext, Return, Idle
  <2> QED
    BY <1>0, <2>1, Zenon DEF BootInv
<1>4. CASE UNCHANGED managerVars
  <2>1. entries' = entries /\ order' = order /\ call' = call
    BY <1>4 DEF managerVars
  <2>2. Used' = Used /\ BootOrder' = BootOrder /\ BootOrderFails' = BootOrderFails /\ Idle' = Idle
    BY <2>1 DEF Used, BootOrder, BootOrderFails, Idle
  <2>3. ListedBefore' = ListedBefore
    BY <2>1, Zenon DEF ListedBefore, Listed, ListedOption, Blobs, Used, BootOrder
  <2> QED
    BY <2>1, <2>2, <2>3, Zenon DEF BootInv
<1> QED
  BY <1>1, <1>2, <1>3, <1>4, Zenon DEF ManagerNext

-----------------------------------------------------------------------------
(***************************************************************************)
(* Theorems about the boot manager.                                        *)
(***************************************************************************)

\* The listing is exact in every state of the invariant.
LEMMA InvListingExact == BootInv => ListingIsExact
<1> SUFFICES ASSUME BootInv, ~BootOrderFails
             PROVE  /\ Range(ListBootEntries) = Listed
                    /\ \A i, j \in DOMAIN ListBootEntries :
                          i < j => Rank(BootOrder, ListBootEntries[i]) < Rank(BootOrder, ListBootEntries[j])
  BY DEF ListingIsExact
<1>1. Listed \subseteq Num
  BY DEF Listed, BootInv
<1>2. BootOrder \in Seq(Num)
  BY DEF BootOrder, BootOrderFails, BootInv
<1>3. PICK listed, o, all : listed = Listed /\ o = BootOrder /\ all = ListBootEntries
  OBVIOUS
<1>4. all = ListOnce(listed, ListOnce(listed, <<>>, o), Ascending)
  BY <1>3 DEF ListBootEntries
<1>5. Range(all) = listed /\ Sorted(o, all)
  BY <1>1, <1>2, <1>3, <1>4, ListingExact, Zenon
<1> QED
  BY <1>3, <1>5, Zenon DEF Sorted

\* ListBootEntries returns every entry that parses once and in its place, for
\* any number of slots and whatever BootOrder holds.
THEOREM ListingAlwaysExact == ManagerSpec => []ListingIsExact
<1> QED
  BY InitBootInv, NextBootInv, InvListingExact, PTL DEF ManagerSpec

\* What ReadersConverge says of one step.
ConvergeStep == \A n \in Num : Agree(n) \/ Blobs(n)' # Blobs(n) => Agree(n)'

\* The content of a number decides whether its readers agree.
LEMMA AgreeByContent ==
    ASSUME BootInv, NEW n
    PROVE  Agree(n) <=> (IF Blobs(n) = <<>> THEN Malformed ELSE Blobs(n)[1]) = LastGood(Blobs(n))
<1>1. ListedOption(n) = LastGood(Blobs(n))
  BY Zenon DEF ListedOption, LastGood
<1>2. BootEntry(n) = IF Blobs(n) = <<>> THEN Malformed ELSE Blobs(n)[1]
  <2>1. CASE n \in Used
    <3>1. Blobs(n) = entries[n] /\ entries[n] # <<>>
      BY <2>1, Zenon DEF Blobs, BootInv
    <3> QED
      BY <2>1, <3>1, Zenon DEF BootEntry
  <2>2. CASE n \notin Used
    BY <2>2, Zenon DEF BootEntry, Blobs
  <2> QED
    BY <2>1, <2>2
<1> QED
  BY <1>1, <1>2, Zenon DEF Agree

\* The same after a step.
LEMMA AgreeByContentNext ==
    ASSUME BootInv', NEW n
    PROVE  Agree(n)' <=> (IF Blobs(n)' = <<>> THEN Malformed ELSE Blobs(n)'[1]) = LastGood(Blobs(n)')
<1>1. ListedOption(n)' = LastGood(Blobs(n)')
  BY Zenon DEF ListedOption, LastGood
<1>2. BootEntry(n)' = IF Blobs(n)' = <<>> THEN Malformed ELSE Blobs(n)'[1]
  <2>1. CASE n \in Used'
    <3>1. Blobs(n)' = entries'[n] /\ entries'[n] # <<>>
      BY <2>1, Zenon DEF Blobs, BootInv
    <3> QED
      BY <2>1, <3>1, Zenon DEF BootEntry
  <2>2. CASE n \notin Used'
    BY <2>2, Zenon DEF BootEntry, Blobs
  <2> QED
    BY <2>1, <2>2
<1> QED
  BY <1>1, <1>2, Zenon DEF Agree

\* No call of the boot manager makes BootEntry and ListBootEntries differ on a
\* number, and every call that changes a number makes them agree on it.
THEOREM ReadersAlwaysConverge == ManagerSpec => ReadersConverge
<1>1. BootInv /\ BootInv' /\ [ManagerNext]_managerVars => [ConvergeStep]_entries
  <2> SUFFICES ASSUME BootInv, BootInv', [ManagerNext]_managerVars, NEW n \in Num,
                      Agree(n) \/ Blobs(n)' # Blobs(n)
               PROVE  Agree(n)'
    BY Zenon DEF ConvergeStep
  <2>1. \A m \in Used' : \/ m \in Used /\ entries'[m] = entries[m]
                         \/ \E entry \in LoadOption : entries'[m] = <<entry>>
    BY NextEntryStep, EntryEffect, Zenon
  <2>2. \/ Blobs(n)' = Blobs(n)
        \/ Blobs(n)' = <<>>
        \/ \E entry \in LoadOption : Blobs(n)' = <<entry>>
    <3>1. n \notin Used' => Blobs(n)' = <<>>
      BY Zenon DEF Blobs
    <3>2. n \in Used' => Blobs(n)' = entries'[n]
      BY Zenon DEF Blobs
    <3>3. n \in Used => Blobs(n) = entries[n]
      BY Zenon DEF Blobs
    <3> QED
      BY <2>1, <3>1, <3>2, <3>3, Zenon
  <2>3. CASE Blobs(n)' = Blobs(n)
    BY <2>3, AgreeByContent, AgreeByContentNext, Zenon
  <2>4. CASE Blobs(n)' = <<>>
    BY <2>4, AgreeByContentNext, LastGoodProperties, Zenon
  <2>5. ASSUME NEW entry \in LoadOption, Blobs(n)' = <<entry>> PROVE Agree(n)'
    <3>1. <<entry>> # <<>> /\ <<entry>>[1] = entry
      OBVIOUS
    <3> QED
      BY <2>5, <3>1, AgreeByContentNext, LastGoodProperties, Zenon
  <2> QED
    BY <2>2, <2>3, <2>4, <2>5, Zenon
<1> QED
  BY <1>1, InitBootInv, NextBootInv, PTL DEF ManagerSpec, ReadersConverge, ConvergeStep

\* An appended order is the old one with the number added.
LEMMA AppendedOrder ==
    ASSUME NEW o \in Seq(Num), NEW n \in Num
    PROVE  /\ Range(Append(o, n)) = Range(o) \cup {n}
           /\ StartsWith(Append(o, n), o) /\ StartsWith(o, o)
<1>1. /\ Len(Append(o, n)) = Len(o) + 1 /\ Len(o) \in Nat /\ DOMAIN o = 1 .. Len(o)
      /\ \A k \in 1 .. Len(o) : Append(o, n)[k] = o[k]
    OBVIOUS
<1>2. Range(Append(o, n)) = Range(o) \cup {n}
    BY Appended
<1> QED BY <1>1, <1>2 DEF StartsWith

\* What the steps of AddBootEntry do to the order and to the entries.
LEMMA AddEffect ==
    ASSUME BootInv, AddStep
    PROVE  /\ \A n \in Used : n \in Used' /\ entries'[n] = entries[n]
           /\ \/ order' = order
              \/ /\ BootOrder \in Seq(Num) /\ call.n \in Num /\ call.n \in Used
                 /\ ~BootOrderFails /\ order' = Append(BootOrder, call.n)
<1>1. ASSUME NEW entry \in LoadOption, NEW r \in Outcome, AddEntry(entry, r)
      PROVE  order' = order /\ \A n \in Used : n \in Used' /\ entries'[n] = entries[n]
    <2>1. LowestFree \notin Used
        BY <1>1, LowestIsFree DEF AddEntry, Free
    <2>2. entries' = entries \/ entries' = WithEntry(LowestFree, entry)
        BY <1>1 DEF AddEntry
    <2>3. \A n \in Used : n \in DOMAIN entries' /\ entries'[n] = entries[n]
        <3>1. /\ DOMAIN WithEntry(LowestFree, entry) = Used \cup {LowestFree}
              /\ \A m \in Used : m # LowestFree => WithEntry(LowestFree, entry)[m] = entries[m]
            BY DEF WithEntry
        <3>2. Used = DOMAIN entries
            BY DEF Used
        <3>3. CASE entries' = entries
            BY <3>2, <3>3
        <3>4. CASE entries' = WithEntry(LowestFree, entry)
            BY <2>1, <3>1, <3>4
        <3> QED BY <2>2, <3>3, <3>4
    <2> QED BY <1>1, <2>3 DEF AddEntry, Used
<1>2. ASSUME NEW r \in Outcome, AddToOrder(r)
      PROVE  /\ entries' = entries
             /\ \/ order' = order
                \/ /\ BootOrder \in Seq(Num) /\ call.n \in Num /\ call.n \in Used
                   /\ ~BootOrderFails /\ order' = Append(BootOrder, call.n)
    BY <1>2 DEF AddToOrder, BootInv, BootOrder, BootOrderFails
<1>3. CASE AddOrderUnreadable \/ AddNoSlot
    BY <1>3, ZenonT(60) DEF AddOrderUnreadable, AddNoSlot, Used
<1>4. entries' = entries => \A n \in Used : n \in Used' /\ entries'[n] = entries[n]
    BY DEF Used
<1> QED BY <1>1, <1>2, <1>3, <1>4 DEF AddStep

\* AddBootEntry overwrites no entry and takes nothing out of BootOrder, for
\* any number of slots: the number it takes is a free one.
THEOREM AddKeepsTheRest == ManagerSpec => AddKeepsOthers
<1>1. BootInv /\ [ManagerNext]_managerVars =>
         [AddStep =>
            /\ \A n \in Used : n \in Used' /\ entries'[n] = entries[n]
            /\ IF BootOrderFails THEN order' = order ELSE StartsWith(BootOrder', BootOrder)]_managerVars
    <2> SUFFICES ASSUME BootInv, AddStep
                 PROVE  /\ \A n \in Used : n \in Used' /\ entries'[n] = entries[n]
                        /\ IF BootOrderFails THEN order' = order ELSE StartsWith(BootOrder', BootOrder)
        OBVIOUS
    <2>1. CASE order' = order
        <3>1. BootOrder' = BootOrder
            BY <2>1 DEF BootOrder
        <3>2. ~BootOrderFails => BootOrder \in Seq(Num)
            BY DEF BootOrder, BootOrderFails, BootInv
        <3>3. ~BootOrderFails => StartsWith(BootOrder, BootOrder)
            BY <3>2, AppendedOrder, BootAssumption, 0 \in Num DEF Num
        <3> QED BY <2>1, <3>1, <3>3, AddEffect
    <2>2. CASE order' # order
        <3>1. /\ BootOrder \in Seq(Num) /\ call.n \in Num /\ ~BootOrderFails
              /\ order' = Append(BootOrder, call.n)
            BY <2>2, AddEffect
        <3>2. BootOrder' = Append(BootOrder, call.n)
            <4>1. Append(BootOrder, call.n) \in Seq(Num)
                BY <3>1
            <4> QED BY <3>1, <4>1, AbsentAssumption, SMTT(30) DEF BootOrder
        <3>3. StartsWith(BootOrder', BootOrder)
            BY <3>1, <3>2, AppendedOrder
        <3> QED BY <3>1, <3>3, AddEffect
    <2> QED BY <2>1, <2>2
<1> QED BY <1>1, InitBootInv, NextBootInv, PTL DEF ManagerSpec, AddKeepsOthers

\* AddBootEntry never puts a number without an entry into BootOrder, for any
\* number of slots and however its two writes end.
THEOREM AddDanglesNothing == ManagerSpec => AddNeverDangles
<1>1. BootInv /\ [ManagerNext]_managerVars => [AddStep => Dangling' \subseteq Dangling]_managerVars
    <2> SUFFICES ASSUME BootInv, AddStep PROVE Dangling' \subseteq Dangling
        OBVIOUS
    <2>1. Used \subseteq Used'
        BY AddEffect
    <2>2. CASE order' = order
        <3>1. BootOrder' = BootOrder /\ BootOrderFails' = BootOrderFails
            BY <2>2 DEF BootOrder, BootOrderFails
        <3> QED BY <2>1, <3>1 DEF Dangling
    <2>3. CASE order' # order
        <3>1. /\ BootOrder \in Seq(Num) /\ call.n \in Num /\ ~BootOrderFails /\ call.n \in Used
              /\ order' = Append(BootOrder, call.n)
            BY <2>3, AddEffect
        <3>2. BootOrder' = Append(BootOrder, call.n)
            <4>1. Append(BootOrder, call.n) \in Seq(Num)
                BY <3>1
            <4> QED BY <3>1, <4>1, AbsentAssumption, SMTT(30) DEF BootOrder
        <3>3. Range(BootOrder') = Range(BootOrder) \cup {call.n}
            BY <3>1, <3>2, AppendedOrder
        <3>4. Dangling' \subseteq Range(BootOrder') \ Used'
            BY DEF Dangling
        <3> QED BY <2>1, <3>1, <3>3, <3>4 DEF Dangling
    <2> QED BY <2>2, <2>3
<1> QED BY <1>1, InitBootInv, NextBootInv, PTL DEF ManagerSpec, AddNeverDangles

\* What AddedIsLast says of one step.
AddedStep ==
    ~Idle /\ Idle' /\ ret' =>
        /\ BootOrder' = Append(BootOrder, call.n)
        /\ entries'[call.n] = <<call.lo>>
        /\ call.listing = BootOrder => ListBootEntries' = Append(call.listing, call.n)

\* AddBootEntry returns nil only from a SetBootOrder that succeeded.
LEMMA AddSucceeds ==
    ASSUME [ManagerNext]_managerVars, ~Idle, Idle', ret'
    PROVE  ~BootOrderFails /\ order' = Append(BootOrder, call.n) /\ entries' = entries
<1>1. ASSUME NEW r \in Outcome, AddToOrder(r)
      PROVE  ~BootOrderFails /\ order' = Append(BootOrder, call.n) /\ entries' = entries
  <2>1. r = "ok"
    BY <1>1, Zenon DEF AddToOrder, Return
  <2>2. r # "refused"
    BY <2>1
  <2> QED
    BY <1>1, <2>2, Zenon DEF AddToOrder
<1>2. ~(UNCHANGED managerVars)
  BY Zenon DEF managerVars, Idle
<1>3. ~AddOrderUnreadable
  BY Zenon DEF AddOrderUnreadable, Return
<1>4. /\ \A entry, r : ~AddEntry(entry, r)
      /\ ~AddNoSlot
      /\ \A n, r : ~DeleteBootEntry(n, r) /\ \A entry : ~SetBootEntry(n, entry, r)
      /\ \A o, r : ~SetBootOrder(o, r)
      /\ \A c, n, r : ~SetControl(c, n, r)
      /\ \A r : ~ClearBootNext(r)
  BY Zenon DEF AddEntry, AddNoSlot, DeleteBootEntry, SetBootEntry, SetBootOrder, SetControl, ClearBootNext
<1> QED
  BY <1>1, <1>2, <1>3, <1>4, Zenon DEF ManagerNext, AddStep

\* An order that is its own listing names every listed entry once; with one
\* more number it still is.
LEMMA ListingGrows ==
    ASSUME NEW listed, listed \subseteq Num, NEW n \in listed, NEW o \in Seq(Num),
           o = ListOnce(listed \ {n}, ListOnce(listed \ {n}, <<>>, o), Ascending)
    PROVE  ListOnce(listed, ListOnce(listed, <<>>, Append(o, n)), Ascending) = Append(o, n)
<1>1. PICK rest : rest = listed \ {n}
  OBVIOUS
<1>2. rest \subseteq Num /\ n \in Num
  BY <1>1
<1>3. Range(o) = rest /\ Sorted(o, o)
  <2>1. o = ListOnce(rest, ListOnce(rest, <<>>, o), Ascending)
    BY <1>1
  <2> QED
    BY <1>2, <2>1, ListingExact, Zenon
<1>4. PICK p : p = Append(o, n)
  BY Zenon
<1>5. /\ p \in Seq(Num) /\ Len(o) \in Nat
      /\ DOMAIN o = 1 .. Len(o) /\ DOMAIN p = 1 .. Len(o) + 1
      /\ \A k \in 1 .. Len(o) : p[k] = o[k] /\ o[k] \in Num
      /\ p[Len(o) + 1] = n
      /\ Range(p) = Range(o) \cup {n}
  BY <1>2, <1>4, Appended
<1>6. Range(p) = listed
  BY <1>1, <1>3, <1>5
<1>7. \A i, j \in DOMAIN o : o[i] = o[j] => i = j
  <2> SUFFICES ASSUME NEW i \in DOMAIN o, NEW j \in DOMAIN o, o[i] = o[j], i # j PROVE FALSE
    OBVIOUS
  <2>1. Rank(o, o[i]) \in Nat /\ (i < j \/ j < i)
    BY <1>5, RankProperties, SMTT(90)
  <2>2. Rank(o, o[i]) < Rank(o, o[i])
    BY <1>3, <2>1 DEF Sorted
  <2> QED
    BY <2>1, <2>2
<1>8. \A i \in DOMAIN o : o[i] # n
  BY <1>1, <1>3 DEF Range
<1>9. Distinct(p)
  <2> SUFFICES ASSUME NEW i \in DOMAIN p, NEW j \in DOMAIN p, p[i] = p[j] PROVE i = j
    BY DEF Distinct
  <2>1. (i \in DOMAIN o \/ i = Len(o) + 1) /\ (j \in DOMAIN o \/ j = Len(o) + 1)
    BY <1>5
  <2>2. (i \in DOMAIN o => p[i] = o[i]) /\ (j \in DOMAIN o => p[j] = o[j])
    BY <1>5
  <2> QED
    BY <1>5, <1>7, <1>8, <2>1, <2>2
<1>10. p \in Seq(Num)
  BY <1>5
<1> QED
  BY <1>4, <1>6, <1>9, <1>10, OrderIsListing, Zenon

\* When AddBootEntry returns nil its number ends BootOrder, its option is
\* stored under it, and a listing that was BootOrder grows by that number, for
\* any number of slots.
THEOREM AddedAlwaysLast == ManagerSpec => AddedIsLast
<1>1. BootInv /\ [ManagerNext]_managerVars => [AddedStep]_managerVars
  <2> SUFFICES ASSUME BootInv, [ManagerNext]_managerVars, ~Idle, Idle', ret'
               PROVE  /\ BootOrder' = Append(BootOrder, call.n)
                      /\ entries'[call.n] = <<call.lo>>
                      /\ call.listing = BootOrder => ListBootEntries' = Append(call.listing, call.n)
    BY Zenon DEF AddedStep
  <2>1. ~BootOrderFails /\ order' = Append(BootOrder, call.n) /\ entries' = entries
    BY AddSucceeds, Zenon
  <2>2. BootOrder \in Seq(Num) /\ call.n \in Num
    BY <2>1 DEF BootOrder, BootOrderFails, BootInv
  <2>3. Append(BootOrder, call.n) \in Seq(Num)
    BY <2>2
  <2>4. BootOrder' = Append(BootOrder, call.n)
    BY <2>1, <2>3, AbsentAssumption, SMTT(90) DEF BootOrder
  <2>5. entries[call.n] = <<call.lo>> /\ call.lo \in LoadOption /\ call.n \in Used /\ call.listing = ListedBefore
    BY <2>1, Zenon DEF BootInv
  <2>6. Listed' = Listed /\ Listed \subseteq Num
    <3>1. Listed' = Listed
      BY <2>1, Zenon DEF Listed, ListedOption, Blobs, Used
    <3>2. Listed \subseteq Used
      BY Zenon DEF Listed
    <3> QED
      BY <3>1, <3>2, Zenon DEF BootInv
  <2>7. call.n \in Listed
    <3>1. Listed = {m \in Used : LastGood(entries[m]) # Malformed}
      BY ListedIsLastGood, Zenon
    <3>2. LastGood(<<call.lo>>) # Malformed
      BY <2>5, LastGoodProperties
    <3> QED
      BY <2>5, <3>1, <3>2
  <2>8. ASSUME call.listing = BootOrder PROVE ListBootEntries' = Append(BootOrder, call.n)
    <3>1. PICK listed, n, o : listed = Listed /\ n = call.n /\ o = BootOrder
      OBVIOUS
    <3>2. listed \subseteq Num /\ n \in listed /\ o \in Seq(Num)
      BY <2>2, <2>6, <2>7, <3>1
    <3>3. o = ListOnce(listed \ {n}, ListOnce(listed \ {n}, <<>>, o), Ascending)
      BY <2>5, <2>8, <3>1 DEF ListedBefore
    <3>4. ListOnce(listed, ListOnce(listed, <<>>, Append(o, n)), Ascending) = Append(o, n)
      BY <3>2, <3>3, ListingGrows, Zenon
    <3>5. ListBootEntries' = ListOnce(Listed', ListOnce(Listed', <<>>, BootOrder'), Ascending)
      BY DEF ListBootEntries
    <3> QED
      BY <2>4, <2>6, <3>1, <3>4, <3>5
  <2> QED
    BY <2>1, <2>4, <2>5, <2>8
<1> QED
  BY <1>1, InitBootInv, NextBootInv, PTL DEF ManagerSpec, AddedIsLast, AddedStep
=============================================================================
