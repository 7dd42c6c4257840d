---------------------------- MODULE BaseProofs ----------------------------
(***************************************************************************)
(* Facts the proofs about the walk, the encoder and the store share:       *)
(* induction over numbers, the arithmetic of the on-disk format, and one   *)
(* record.                                                                 *)
(***************************************************************************)
EXTENDS VarRecord, WellFoundedInduction, TLAPS

-----------------------------------------------------------------------------
(***************************************************************************)
(* Sequences: the facts that the proofs use, in place of a whole library.  *)
(***************************************************************************)

\* An element of a sequence is one of its set.
LEMMA SeqElement ==
    ASSUME NEW T, NEW s \in Seq(T), NEW k \in 1 .. Len(s)
    PROVE  s[k] \in T
  OBVIOUS

\* A sequence is a function on its indexes.
LEMMA SeqDomain ==
    ASSUME NEW T, NEW s \in Seq(T)
    PROVE  Len(s) \in Nat /\ s \in [1 .. Len(s) -> T] /\ DOMAIN s = 1 .. Len(s)
  OBVIOUS

\* Only the empty sequence has no length.
LEMMA SeqEmpty ==
    ASSUME NEW T
    PROVE  /\ <<>> \in Seq(T) /\ Len(<<>>) = 0
           /\ \A s \in Seq(T) : s # <<>> => Len(s) \in Nat \ {0}
  OBVIOUS

\* Sequences with the same elements are the same.
LEMMA SeqSame ==
    ASSUME NEW T, NEW s \in Seq(T), NEW t \in Seq(T),
           Len(s) = Len(t), \A k \in 1 .. Len(s) : s[k] = t[k]
    PROVE  s = t
  OBVIOUS

\* An element more.
LEMMA SeqAppend ==
    ASSUME NEW T, NEW s \in Seq(T), NEW e \in T
    PROVE  /\ Append(s, e) \in Seq(T)
           /\ Append(s, e) # << >>
           /\ Len(Append(s, e)) = Len(s) + 1
           /\ \A k \in 1 .. Len(s) : Append(s, e)[k] = s[k]
           /\ Append(s, e)[Len(s) + 1] = e
  OBVIOUS

\* The first element and the others.
LEMMA SeqRest ==
    ASSUME NEW T, NEW s \in Seq(T), s # <<>>
    PROVE  /\ Tail(s) \in Seq(T) /\ Len(Tail(s)) = Len(s) - 1
           /\ \A k \in 1 .. Len(Tail(s)) : Tail(s)[k] = s[k + 1]
  OBVIOUS

\* The first n elements.
LEMMA SeqFront ==
    ASSUME NEW T, NEW s \in Seq(T), NEW n \in 0 .. Len(s)
    PROVE  /\ SubSeq(s, 1, n) \in Seq(T) /\ Len(SubSeq(s, 1, n)) = n
           /\ \A k \in 1 .. n : SubSeq(s, 1, n)[k] = s[k]
  OBVIOUS

\* One sequence behind another.
LEMMA SeqJoin ==
    ASSUME NEW T, NEW s \in Seq(T), NEW t \in Seq(T)
    PROVE  /\ s \o t \in Seq(T) /\ Len(s \o t) = Len(s) + Len(t)
           /\ \A k \in 1 .. Len(s) + Len(t) :
                 (s \o t)[k] = IF k <= Len(s) THEN s[k] ELSE t[k - Len(s)]
  OBVIOUS
-----------------------------------------------------------------------------
(***************************************************************************)
(* Induction.  It is stated over a set in place of a predicate.            *)
(***************************************************************************)

\* A set of natural numbers that is not empty has a lowest one.
LEMMA LowestExists ==
    ASSUME NEW S, S \subseteq Nat, S # {}
    PROVE  \E n \in S : \A m \in S : n <= m
<1>1. \E n \in S : \A m \in S : <<m, n>> \notin OpToRel(<, Nat)
  BY NatLessThanWellFounded, WFMin, ZenonT(60)
<1>2. \A m, n \in S : <<m, n>> \notin OpToRel(<, Nat) => n <= m
  BY DEF OpToRel
<1> QED
  BY <1>1, <1>2, ZenonT(60)

\* A set that holds 0 and with a number its successor holds all numbers.
LEMMA SetInduction ==
    ASSUME NEW S, 0 \in S, \A n \in Nat : n \in S => n + 1 \in S
    PROVE  Nat \subseteq S
<1> SUFFICES ASSUME Nat \ S # {} PROVE FALSE
  OBVIOUS
<1>1. PICK n \in Nat \ S : \A m \in Nat \ S : n <= m
  <2>1. Nat \ S \subseteq Nat
    OBVIOUS
  <2> QED
    BY <2>1, LowestExists, Zenon
<1>2. n # 0 /\ n - 1 \in Nat
  OBVIOUS
<1>3. n - 1 \in S
  BY <1>1, <1>2
<1> QED
  BY <1>2, <1>3

\* A set that holds 0 and with a number below n its successor holds 0 .. n.
LEMMA RangeInduction ==
    ASSUME NEW n \in Nat, NEW S, 0 \in S, \A k \in 1 .. n : k - 1 \in S => k \in S
    PROVE  0 .. n \subseteq S
<1> DEFINE T == {k \in Nat : k <= n => k \in S}
<1>1. 0 \in T
  OBVIOUS
<1>2. ASSUME NEW k \in Nat, k \in T PROVE k + 1 \in T
  <2>1. k + 1 <= n => k \in S /\ k + 1 \in 1 .. n /\ (k + 1) - 1 = k
    BY <1>2
  <2> QED
    BY <2>1
<1> HIDE DEF T
<1>3. Nat \subseteq T
  BY <1>1, <1>2, SetInduction, Zenon
<1> QED
  BY <1>3 DEF T

\* A bounded set of natural numbers that is not empty has a highest one.
LEMMA HighestExists ==
    ASSUME NEW n \in Nat, NEW S, S \subseteq 0 .. n, S # {}
    PROVE  \E k \in S : \A m \in S : k >= m
<1> DEFINE D == {d \in 0 .. n : n - d \in S}
<1>1. PICK x \in S : TRUE
  BY Zenon
<1>2. n - x \in D
  BY <1>1
<1>3. PICK d \in D : \A e \in D : d <= e
  <2>1. D \subseteq Nat
    OBVIOUS
  <2> HIDE DEF D
  <2> QED
    BY <1>2, <2>1, LowestExists, Zenon
<1>4. n - d \in S /\ d \in Nat
  OBVIOUS
<1>5. \A m \in S : n - d >= m
  <2> TAKE m \in S
  <2>1. n - m \in D /\ m \in Nat
    OBVIOUS
  <2> HIDE DEF D
  <2>2. d <= n - m
    BY <1>3, <2>1
  <2> QED
    BY <1>4, <2>1, <2>2
<1> QED
  BY <1>4, <1>5

\* A function with values in V, by its first value and its steps.
Recursion(f, n, V, first, step) ==
    /\ f \in [0 .. n -> V]
    /\ f[0] = first
    /\ \A k \in 1 .. n : f[k] = step[k][f[k - 1]]

\* A first value and a step make a function.  Every recursive definition below
\* is an instance.
LEMMA RecursionExists ==
    ASSUME NEW n \in Nat, NEW V, NEW first \in V, NEW step \in [1 .. n -> [V -> V]]
    PROVE  \E f : Recursion(f, n, V, first, step)
<1> USE DEF Recursion
<1> DEFINE S == {m \in Nat : m <= n => \E f : Recursion(f, m, V, first, step)}
<1>1. 0 \in S
  <2> DEFINE f == [k \in 0 .. 0 |-> first]
  <2>1. Recursion(f, 0, V, first, step)
    OBVIOUS
  <2> HIDE DEF f
  <2> QED
    BY <2>1
<1>2. ASSUME NEW m \in Nat, m \in S PROVE m + 1 \in S
  <2> SUFFICES ASSUME m + 1 <= n
               PROVE  \E f : Recursion(f, m + 1, V, first, step)
    OBVIOUS
  <2>1. PICK f : Recursion(f, m, V, first, step)
    BY <1>2
  <2> DEFINE last == step[m + 1][f[m]]
  <2>2. last \in V
    <3>1. step[m + 1] \in [V -> V] /\ f[m] \in V
      BY <2>1
    <3> QED
      BY <3>1
  <2> HIDE DEF last
  <2> DEFINE g == [k \in 0 .. m + 1 |-> IF k = m + 1 THEN last ELSE f[k]]
  <2>3. /\ g \in [0 .. m + 1 -> V]
        /\ g[m + 1] = last
        /\ \A k \in 0 .. m : g[k] = f[k]
    BY <2>1, <2>2
  <2> HIDE DEF g
  <2>4. g[0] = first
    BY <2>1, <2>3
  <2>5. ASSUME NEW k \in 1 .. m + 1 PROVE g[k] = step[k][g[k - 1]]
    <3>1. g[k - 1] = f[k - 1]
      BY <2>3
    <3>2. CASE k = m + 1
      <4>1. k - 1 = m
        BY <3>2
      <4> QED
        BY <2>3, <3>1, <3>2, <4>1 DEF last
    <3>3. CASE k # m + 1
      BY <2>1, <2>3, <3>1, <3>3
    <3> QED
      BY <3>2, <3>3
  <2> QED
    BY <2>3, <2>4, <2>5
<1> HIDE DEF S
<1>3. Nat \subseteq S
  BY <1>1, <1>2, SetInduction, Zenon
<1> QED
  BY <1>3 DEF S

-----------------------------------------------------------------------------
(***************************************************************************)
(* Arithmetic and records.                                                 *)
(***************************************************************************)

\* What the proofs need of the width of a uint32.
LEMMA WordIsWide == Word \in Nat /\ Word > 160
BY WordAssumption DEF FvHeaderSize, StoreHeaderSize, AuthVarHeaderSize

\* A number that fits a uint32 is unchanged by the conversion.
LEMMA U32Small ==
    ASSUME NEW n \in Nat, n < Word
    PROVE  U32(n) = n
BY WordIsWide DEF U32

\* A uint32 is a natural number below Word.
LEMMA U32Range ==
    ASSUME NEW n \in Int
    PROVE  U32(n) \in 0 .. Word - 1
BY WordIsWide DEF U32

\* Rounding up to the record alignment lands on an aligned offset at most
\* three bytes on.
LEMMA AlignUp64Properties ==
    ASSUME NEW n \in Nat
    PROVE  /\ AlignUp64(n) \in Nat
           /\ AlignUp64(n) % 4 = 0
           /\ n <= AlignUp64(n)
           /\ AlignUp64(n) <= n + 3
BY DEF AlignUp64, HeaderAlignment

\* Aligned lengths add up to an aligned length.
LEMMA AlignedSum ==
    ASSUME NEW m \in Nat, NEW n \in Nat, m % 4 = 0, n % 4 = 0
    PROVE  (m + n) % 4 = 0
OBVIOUS

\* Rounding is the same from any aligned base: the encoder aligns relative to
\* the record, the parser relative to the file.
LEMMA AlignUp64Shift ==
    ASSUME NEW base \in Nat, base % 4 = 0, NEW n \in Nat
    PROVE  AlignUp64(base + n) = base + AlignUp64(n)
BY DEF AlignUp64, HeaderAlignment

\* The encoder's padding completes a record to the aligned length, when the
\* length is clear of the uint32 limit.
LEMMA PadBytesCompletes ==
    ASSUME NEW n \in Nat, n + 3 < Word
    PROVE  n + PadBytes(n) = AlignUp64(n)
<1>1. AlignUp(n) = AlignUp64(n)
  <2>1. U32(n + 3) = n + 3
    BY U32Small
  <2> QED
    BY <2>1 DEF AlignUp, AlignUp64, HeaderAlignment
<1> DEFINE up == AlignUp64(n)
<1>2. up \in Nat /\ n <= up /\ up <= n + 3
  BY AlignUp64Properties
<1> HIDE DEF up
<1>3. U32(up - n) = up - n
  BY <1>2, U32Small, WordIsWide
<1>4. PadBytes(n) = U32(up - n)
  BY <1>1 DEF PadBytes, up
<1>5. n + PadBytes(n) = up
  BY <1>2, <1>3, <1>4
<1> QED
  BY <1>5 DEF up

-----------------------------------------------------------------------------

\* The lengths of names and payloads are natural numbers.
LEMMA VariableSizes ==
    ASSUME NEW v \in Variable
    PROVE  NameSize(v.name) \in Nat /\ DataLen[v.data] \in Nat
<1>1. v.name \in Name /\ v.data \in Data
  BY DEF Variable
<1>2. Units[v.name] \in Nat
  BY <1>1, StringAssumption
<1>3. DataLen[v.data] \in Nat
  BY <1>1, DataAssumption
<1> QED
  BY <1>2, <1>3 DEF NameSize

\* The length of a record: never less than its parts.
LEMMA EncodedLenBound ==
    ASSUME NEW v \in Variable, NEW a \in BOOLEAN
    PROVE  /\ EncodedLen(v, a) \in Nat /\ EncodedLen(v, a) >= 32
           /\ EncodedLen(v, a) >= HdrSize(a) + NameSize(v.name) + DataLen[v.data]
           /\ HdrSize(a) + NameSize(v.name) + DataLen[v.data] \in Nat
           /\ HdrSize(a) >= 32 /\ HdrSize(a) \in Nat
<1>1. NameSize(v.name) \in Nat /\ DataLen[v.data] \in Nat
  BY VariableSizes
<1>2. HdrSize(a) \in Nat /\ HdrSize(a) >= 32
  BY DEF HdrSize, AuthVarHeaderSize, VarHeaderSize
<1> DEFINE n == U32(HdrSize(a) + Encode(v).nameSize + Encode(v).dataSize)
<1>3. Encode(v).nameSize \in Nat /\ Encode(v).dataSize \in Nat
  BY <1>1, U32Range, WordIsWide DEF Encode
<1>4. n \in Nat
  BY <1>2, <1>3, U32Range, WordIsWide
<1> HIDE DEF n
<1>5. U32(n + 3) \in Nat
  BY <1>4, U32Range, WordIsWide
<1>6. AlignUp(n) \in Nat
  BY <1>4, <1>5 DEF AlignUp, HeaderAlignment
<1>7. PadBytes(n) \in Nat
  BY <1>4, <1>6, U32Range, WordIsWide DEF PadBytes
<1> QED
  BY <1>1, <1>2, <1>7 DEF EncodedLen, n

\* A record shorter than a uint32 can count has exact size fields and is
\* padded to the alignment.
LEMMA EncodedLenExact ==
    ASSUME NEW v \in Variable, NEW a \in BOOLEAN, EncodedLen(v, a) + 3 < Word
    PROVE  /\ Encode(v).nameSize = NameSize(v.name)
           /\ Encode(v).dataSize = DataLen[v.data]
           /\ EncodedLen(v, a) = AlignUp64(HdrSize(a) + NameSize(v.name) + DataLen[v.data])
           /\ EncodedLen(v, a) % 4 = 0
<1> DEFINE n == HdrSize(a) + NameSize(v.name) + DataLen[v.data]
<1>1. NameSize(v.name) \in Nat /\ DataLen[v.data] \in Nat
  BY VariableSizes
<1>2. n \in Nat /\ n + 3 < Word /\ HdrSize(a) \in Nat
  BY EncodedLenBound, WordIsWide
<1>3. U32(NameSize(v.name)) = NameSize(v.name) /\ U32(DataLen[v.data]) = DataLen[v.data]
  BY <1>1, <1>2, U32Small, WordIsWide
<1>4. Encode(v).nameSize = NameSize(v.name) /\ Encode(v).dataSize = DataLen[v.data]
  BY <1>3 DEF Encode
<1>5. U32(n) = n
  BY <1>2, U32Small, WordIsWide
<1>6. EncodedLen(v, a) = n + PadBytes(n)
  BY <1>4, <1>5 DEF EncodedLen
<1> HIDE DEF n
<1>7. EncodedLen(v, a) = AlignUp64(n)
  BY <1>2, <1>6, PadBytesCompletes
<1>8. AlignUp64(n) % 4 = 0
  BY <1>2, AlignUp64Properties
<1> QED
  BY <1>4, <1>7, <1>8 DEF n

\* Reading back a record whose size fields are exact.
LEMMA DecodeOfEncode ==
    ASSUME NEW v \in Variable, Encode(v).dataSize = DataLen[v.data]
    PROVE  /\ Decode(Encode(v)) = Canonical(v)
           /\ Canonical(v) \in Variable
           /\ \A a \in BOOLEAN : EncodedLen(Canonical(v), a) = EncodedLen(v, a)
<1>1. v.name \in Name /\ Canon[v.name] \in Name /\ Units[Canon[v.name]] = Units[v.name]
  BY StringAssumption DEF Variable
<1>2. Decode(Encode(v)) = Canonical(v)
  BY DEF Decode, Encode, Canonical, Variable
<1>3. Canonical(v) \in Variable
  BY <1>1 DEF Canonical, Variable
<1>4. Canonical(v).name = Canon[v.name] /\ Canonical(v).data = v.data
  BY DEF Canonical, Variable
<1>5. NameSize(Canonical(v).name) = NameSize(v.name)
  BY <1>1, <1>4 DEF NameSize
<1>6. \A a \in BOOLEAN : EncodedLen(Canonical(v), a) = EncodedLen(v, a)
  BY <1>4, <1>5 DEF EncodedLen, Encode
<1> QED
  BY <1>2, <1>3, <1>6
=============================================================================
