-------------------------- MODULE StoreCodecProofs --------------------------
(***************************************************************************)
(* For every list of variables, every store geometry and every file below  *)
(* 4 GiB, what a successful flush writes is what the next Open reads.      *)
(***************************************************************************)
EXTENDS StoreCodec, BaseProofs

\* The configurations the theorems cover; the default 256 MiB is one.
LimitBelowWord == MaxFileSize + AuthVarHeaderSize < Word

Record == {Encode(v) : v \in Variable}

\* Payload offset of the record that follows the first j.
Pos(j) == IF j < Len(img) THEN img[j + 1].at ELSE payload

\* What Init chose and no step changes.  A file that still holds the store of
\* the handle is clamped by the next Open to the size of the handle.
FixedInv ==
    /\ len \in 0 .. MaxFileSize
    /\ storeOff \in {0, FvHeaderSize}
    /\ HeaderEnd <= len
    /\ sizeField \in 0 .. Word - 1
    /\ storeSize \in 0 .. Word - 1
    /\ auth \in BOOLEAN
    /\ in \in Seq(Variable)
    /\ storeOff + storeSize <= len => ClampedSize(sizeField, storeOff, len) = storeSize

\* The records are those of the variables flushed, one behind the other and
\* aligned as long as their lengths do not wrap.
ImageInv ==
    /\ payload \in Nat
    /\ img \in Seq([at : Nat, rec : Record])
    /\ Len(img) <= Len(in)
    /\ Pos(0) = 0
    /\ \A k \in 1 .. Len(img) :
          /\ img[k].rec = Encode(in[k])
          /\ Pos(k) = img[k].at + EncodedLen(in[k], auth)
          /\ img[k].at + EncodedLen(in[k], auth) <= payload
          /\ \A l \in 1 .. k - 1 : img[l].at < img[k].at
    /\ payload + 3 < Word => payload % 4 = 0 /\ \A k \in 1 .. Len(img) : img[k].at % 4 = 0

\* What buildStore has checked.
Built == Len(img) = Len(in) /\ ~BeyondFile /\ ~Exceeds

\* The walk is at the record behind those it has collected.
WalkInv ==
    /\ out \in Seq(Variable)
    /\ Len(out) <= Len(img) /\ Len(out) <= MaxVariables
    /\ \A k \in 1 .. Len(out) : out[k] = Canonical(in[k])
    /\ again = Pos(Len(out)) \/ pc \in {"encode", "beyond", "full"}
    /\ again \in Nat
    /\ off \in 0 .. Word - 1
    /\ pc \in {"encode", "parse", "done", "beyond", "full", "toolarge"}
    /\ pc \in {"encode", "beyond", "full"} => out = <<>> /\ again = 0
    /\ pc \in {"parse", "done", "toolarge"} => Built
    /\ pc = "parse" => off = HeaderEnd + Pos(Len(out))
    /\ pc = "done" => Len(out) = Len(in)
    /\ pc = "toolarge" => Len(in) > MaxVariables

IndInv == FixedInv /\ ImageInv /\ WalkInv

-----------------------------------------------------------------------------

\* The clamp at Open and the empty buffer establish the invariant.
LEMMA InitEstablishes ==
    ASSUME LimitBelowWord, Init
    PROVE  IndInv
<1> USE DEF FvHeaderSize, StoreHeaderSize, AuthVarHeaderSize, HeaderEnd
<1>1. len \in 0 .. MaxFileSize /\ sizeField \in 0 .. Word - 1 /\ in \in Seq(Variable)
  BY CodecAssumption DEF Init
<1>2. PICK openLen \in FileLens :
          openLen >= len /\ storeSize = ClampedSize(sizeField, storeOff, openLen)
  BY DEF Init
<1>3. openLen \in 0 .. MaxFileSize
  BY CodecAssumption
<1>4. \A l \in len .. MaxFileSize : U32(l - storeOff) = l - storeOff
  BY <1>1, U32Small, CodecAssumption, WordIsWide DEF Init, LimitBelowWord
<1>5. U32(len - storeOff) = len - storeOff /\ U32(openLen - storeOff) = openLen - storeOff
  BY <1>1, <1>2, <1>3, <1>4, CodecAssumption
<1>6. FixedInv
  BY <1>1, <1>2, <1>3, <1>5, CodecAssumption, WordIsWide, SMTT(30)
     DEF Init, FixedInv, ClampedSize, LimitBelowWord
<1>7. ImageInv
  BY <1>1 DEF Init, ImageInv, Pos
<1>8. WalkInv
  BY CodecAssumption, WordIsWide DEF Init, WalkInv
<1> QED
  BY <1>6, <1>7, <1>8 DEF IndInv

\* No step changes what Init chose.
LEMMA FixedPreserved ==
    ASSUME FixedInv, UNCHANGED fixed
    PROVE  FixedInv'
BY DEF FixedInv, fixed, HeaderEnd

\* Without a new record the image stays as it is.
LEMMA ImagePreserved ==
    ASSUME ImageInv, UNCHANGED <<fixed, img, payload>>
    PROVE  ImageInv' /\ \A j \in Nat : Pos(j)' = Pos(j)
BY DEF ImageInv, fixed, Pos

\* serializeVars appends a record behind the ones it has.
LEMMA EncodeOnePreserves ==
    ASSUME IndInv, EncodeOne
    PROVE  IndInv'
<1>0. PICK n \in Nat : n = Len(img)
  BY SeqDomain DEF IndInv, ImageInv
<1>1. FixedInv'
  BY FixedPreserved DEF IndInv, EncodeOne
<1>2. /\ in \in Seq(Variable) /\ Len(in) \in Nat /\ n < Len(in)
      /\ img \in Seq([at : Nat, rec : Record])
      /\ payload \in Nat /\ auth \in BOOLEAN
  BY <1>0 DEF IndInv, FixedInv, ImageInv, EncodeOne
<1>3. PICK v \in Variable : v = in[n + 1]
  BY <1>2, SeqElement
<1>4. PICK e \in Nat : e = EncodedLen(v, auth) /\ e >= 32
  BY <1>2, EncodedLenBound
<1> DEFINE r == [at |-> payload, rec |-> Encode(v)]
<1>5. r \in [at : Nat, rec : Record]
  BY <1>2 DEF Record
<1>6. /\ img' = Append(img, r) /\ payload' = payload + e
      /\ in' = in /\ auth' = auth
  BY <1>0, <1>3, <1>4 DEF EncodeOne, fixed
<1>7. /\ img' \in Seq([at : Nat, rec : Record])
      /\ Len(img') = n + 1
      /\ \A k \in 1 .. n : img'[k] = img[k]
      /\ img'[n + 1] = r
  BY <1>0, <1>2, <1>5, <1>6, SeqAppend
<1>8. /\ r.at = payload /\ r.rec = Encode(v)
  OBVIOUS
<1> HIDE DEF r
<1>9. \A k \in 1 .. n : img[k] \in [at : Nat, rec : Record]
  BY <1>0, <1>2, SeqElement, Zenon
<1>10. \A k \in 1 .. n :
          /\ in[k] \in Variable
          /\ EncodedLen(in[k], auth) \in Nat /\ EncodedLen(in[k], auth) >= 32
  <2> SUFFICES ASSUME NEW k \in 1 .. n
               PROVE  /\ in[k] \in Variable
                      /\ EncodedLen(in[k], auth) \in Nat /\ EncodedLen(in[k], auth) >= 32
    OBVIOUS
  <2>1. in[k] \in Variable
    BY <1>2, SeqElement
  <2> QED
    BY <1>2, <2>1, EncodedLenBound, SMTT(90)
<1>11. /\ \A k \in 1 .. n :
             /\ img[k].rec = Encode(in[k])
             /\ Pos(k) = img[k].at + EncodedLen(in[k], auth)
             /\ img[k].at + EncodedLen(in[k], auth) <= payload
             /\ \A l \in 1 .. k - 1 : img[l].at < img[k].at
       /\ Pos(0) = 0
       /\ payload + 3 < Word => payload % 4 = 0 /\ \A k \in 1 .. n : img[k].at % 4 = 0
  BY <1>0, Zenon DEF IndInv, ImageInv
<1>12. \A j \in 0 .. n : Pos(j)' = Pos(j)
  <2> SUFFICES ASSUME NEW j \in 0 .. n
               PROVE  Pos(j)' = Pos(j)
    OBVIOUS
  <2>1. CASE j < n
    <3>1. j + 1 \in 1 .. n /\ j < n + 1
      BY <2>1
    <3>2. img'[j + 1] = img[j + 1]
      BY <1>7, <3>1, Zenon
    <3>3. Len(img) = n /\ Len(img') = n + 1
      BY <1>0, <1>7, ZenonT(60)
    <3> QED
      BY <2>1, <3>1, <3>2, <3>3, Zenon DEF Pos
  <2>2. CASE j = n
    BY <1>0, <1>2, <1>7, <1>8, <2>2 DEF Pos
  <2> QED
    BY <1>2, <2>1, <2>2
<1>13. Pos(n + 1)' = payload'
  BY <1>2, <1>7 DEF Pos
<1>14. \A k \in 1 .. n + 1 :
          /\ img'[k].rec = Encode(in'[k])
          /\ Pos(k)' = img'[k].at + EncodedLen(in'[k], auth')
          /\ img'[k].at + EncodedLen(in'[k], auth') <= payload'
          /\ \A l \in 1 .. k - 1 : img'[l].at < img'[k].at
  <2> SUFFICES ASSUME NEW k \in 1 .. n + 1
               PROVE  /\ img'[k].rec = Encode(in[k])
                      /\ Pos(k)' = img'[k].at + EncodedLen(in[k], auth)
                      /\ img'[k].at + EncodedLen(in[k], auth) <= payload'
                      /\ \A l \in 1 .. k - 1 : img'[l].at < img'[k].at
    BY <1>6, Zenon
  <2>1. CASE k \in 1 .. n
    <3>1. img'[k] = img[k] /\ Pos(k)' = Pos(k) /\ \A l \in 1 .. k - 1 : img'[l] = img[l]
      BY <1>2, <1>7, <1>12, <2>1, SMTT(30)
    <3>2. img[k].at \in Nat /\ EncodedLen(in[k], auth) \in Nat
      BY <1>9, <1>10, <2>1
    <3>3. /\ img[k].rec = Encode(in[k])
          /\ Pos(k) = img[k].at + EncodedLen(in[k], auth)
          /\ img[k].at + EncodedLen(in[k], auth) <= payload
          /\ \A l \in 1 .. k - 1 : img[l].at < img[k].at
      BY <1>11, <2>1
    <3>4. img[k].at + EncodedLen(in[k], auth) <= payload'
      BY <1>2, <1>6, <3>2, <3>3, SMTT(90)
    <3> QED
      BY <3>1, <3>3, <3>4
  <2>2. CASE k = n + 1
    <3>1. in[k] = v /\ img'[k] = r
      BY <1>3, <1>7, <2>2
    <3>2. ASSUME NEW l \in 1 .. n
          PROVE  img[l].at \in Nat /\ img[l].at < payload
      <4>1. img[l].at \in Nat
        BY <1>9
      <4>2. EncodedLen(in[l], auth) \in Nat /\ EncodedLen(in[l], auth) >= 32
        BY <1>10
      <4>3. img[l].at + EncodedLen(in[l], auth) <= payload
        BY <1>11
      <4> QED
        BY <1>2, <4>1, <4>2, <4>3, SMTT(30)
    <3>3. \A l \in 1 .. k - 1 : img'[l] = img[l] /\ l \in 1 .. n
      BY <1>2, <1>7, <2>2
    <3>4. img'[k].rec = Encode(in[k]) /\ img'[k].at = payload
      BY <1>8, <3>1
    <3>5. \A l \in 1 .. k - 1 : img'[l].at < img'[k].at
      BY <3>2, <3>3, <3>4
    <3>6. img'[k].at + EncodedLen(in[k], auth) = payload'
      BY <1>4, <1>6, <3>1, <3>4
    <3>7. payload' \in Nat /\ Pos(k)' = payload'
      BY <1>2, <1>6, <1>13, <2>2
    <3> QED
      BY <3>4, <3>5, <3>6, <3>7
  <2> QED
    BY <1>2, <2>1, <2>2
<1>15. payload' + 3 < Word =>
          payload' % 4 = 0 /\ \A k \in 1 .. n + 1 : img'[k].at % 4 = 0
  <2> SUFFICES ASSUME payload' + 3 < Word
               PROVE  payload' % 4 = 0 /\ \A k \in 1 .. n + 1 : img'[k].at % 4 = 0
    OBVIOUS
  <2>1. payload + 3 < Word /\ e + 3 < Word
    BY <1>2, <1>4, <1>6, WordIsWide, SMTT(90)
  <2>2. payload % 4 = 0 /\ \A k \in 1 .. n : img[k].at % 4 = 0
    BY <1>11, <2>1
  <2>3. e % 4 = 0
    BY <1>2, <1>4, <2>1, EncodedLenExact
  <2>4. payload' % 4 = 0
    BY <1>2, <1>6, <2>2, <2>3, AlignedSum, Zenon
  <2>5. ASSUME NEW k \in 1 .. n + 1
        PROVE  img'[k].at % 4 = 0
    <3>1. CASE k \in 1 .. n
      BY <1>7, <2>2, <3>1, SMTT(30)
    <3>2. CASE k = n + 1
      BY <1>7, <1>8, <2>2, <3>2
    <3> QED
      BY <3>1, <3>2
  <2> QED
    BY <2>4, <2>5
<1>16. ImageInv'
  <2>1. payload' \in Nat /\ Len(img') <= Len(in') /\ Pos(0)' = 0
    BY <1>2, <1>6, <1>7, <1>11, <1>12
  <2> QED
    BY <1>7, <1>14, <1>15, <2>1, ZenonT(60) DEF ImageInv
<1>17. WalkInv'
  BY <1>0, <1>2, <1>7, CodecAssumption DEF IndInv, WalkInv, EncodeOne
<1> QED
  BY <1>1, <1>16, <1>17 DEF IndInv

-----------------------------------------------------------------------------

\* The next Open sees the region the flush was checked against.
LEMMA EndOfBuilt ==
    ASSUME LimitBelowWord, FixedInv, ~BeyondFile
    PROVE  End = storeOff + storeSize /\ End \in Nat /\ End <= len /\ len + 60 < Word
<1> USE DEF FvHeaderSize, AuthVarHeaderSize
<1>1. /\ storeOff \in Nat /\ storeSize \in Nat /\ len \in Nat
      /\ storeOff + storeSize <= len /\ len + 60 < Word
  BY CodecAssumption, WordIsWide DEF FixedInv, BeyondFile, LimitBelowWord
<1>2. ClampedSize(sizeField, storeOff, len) = storeSize
  BY <1>1 DEF FixedInv
<1>3. U32(storeOff + storeSize) = storeOff + storeSize
  BY <1>1, U32Small, WordIsWide
<1> QED
  BY <1>1, <1>2, <1>3 DEF End

\* Only the record that is due starts where the walk is.
LEMMA RecordIsDue ==
    ASSUME IndInv, pc = "parse", NEW k \in 1 .. Len(img), IsRecord(k)
    PROVE  Len(out) < Len(img) /\ k = Len(out) + 1
<1>1. PICK j \in Nat : j = Len(out) /\ j <= Len(img)
  BY SeqDomain DEF IndInv, WalkInv
<1>2. Len(img) \in Nat /\ img \in Seq([at : Nat, rec : Record]) /\ in \in Seq(Variable)
  BY SeqDomain DEF IndInv, ImageInv, FixedInv
<1>3. \A l \in 1 .. Len(img) : img[l].at \in Nat
  <2>1. \A l \in 1 .. Len(img) : img[l] \in [at : Nat, rec : Record]
    BY <1>2, SeqElement, Zenon
  <2> QED
    BY <2>1
<1>4. HeaderEnd \in Nat /\ payload \in Nat
  BY DEF IndInv, FixedInv, ImageInv, HeaderEnd, FvHeaderSize, StoreHeaderSize
<1>5. HeaderEnd + img[k].at = HeaderEnd + Pos(j)
  BY <1>1 DEF IndInv, WalkInv, IsRecord
<1>6. img[k].at < payload
  <2>1. in[k] \in Variable /\ auth \in BOOLEAN
    BY <1>2, SeqElement DEF IndInv, ImageInv, FixedInv
  <2>2. EncodedLen(in[k], auth) \in Nat /\ EncodedLen(in[k], auth) >= 32
    BY <2>1, EncodedLenBound
  <2>3. img[k].at + EncodedLen(in[k], auth) <= payload
    BY DEF IndInv, ImageInv
  <2> QED
    BY <1>3, <1>4, <2>2, <2>3
<1>7. j < Len(img)
  <2>1. CASE j = Len(img)
    <3>1. Pos(j) = payload
      BY <1>2, <2>1 DEF Pos
    <3> QED
      BY <1>3, <1>4, <1>5, <1>6, <3>1
  <2> QED
    BY <1>1, <1>2, <2>1
<1>8. j + 1 \in 1 .. Len(img) /\ Pos(j) = img[j + 1].at
  BY <1>1, <1>2, <1>7 DEF Pos
<1>9. img[k].at = img[j + 1].at
  BY <1>3, <1>4, <1>5, <1>8, SMTT(30)
<1>10. \A l, m \in 1 .. Len(img) : l < m => img[l].at < img[m].at
  <2> SUFFICES ASSUME NEW l \in 1 .. Len(img), NEW m \in 1 .. Len(img), l < m
               PROVE  img[l].at < img[m].at
    OBVIOUS
  <2>1. l \in 1 .. m - 1
    OBVIOUS
  <2> QED
    BY <2>1 DEF IndInv, ImageInv
<1>11. ~(k < j + 1) /\ ~(j + 1 < k)
  BY <1>3, <1>8, <1>9, <1>10
<1> QED
  BY <1>1, <1>2, <1>7, <1>11

\* The record that is due is found and accepted, read back as its variable,
\* and the walk goes on exactly where the encoder put the next one.
LEMMA DueRecord ==
    ASSUME LimitBelowWord, IndInv, pc = "parse", Len(out) < Len(img),
           NEW k \in Nat, k = Len(out) + 1
    PROVE  /\ k \in 1 .. Len(img) /\ in[k] \in Variable
           /\ U32(off + 2) <= End
           /\ IsRecord(k)
           /\ Accepts(img[k].rec)
           /\ NextRecord(img[k].rec) = HeaderEnd + Pos(k)
           /\ Decode(img[k].rec) = Canonical(in[k])
           /\ EncodedLen(Canonical(in[k]), auth) = EncodedLen(in[k], auth)
           /\ Pos(k) = Pos(Len(out)) + EncodedLen(in[k], auth)
<1>1. Built /\ off = HeaderEnd + Pos(Len(out))
  BY DEF IndInv, WalkInv
<1>2. /\ Len(img) \in Nat /\ Len(out) \in Nat /\ img \in Seq([at : Nat, rec : Record])
      /\ in \in Seq(Variable) /\ Len(in) = Len(img) /\ auth \in BOOLEAN
  BY <1>1, SeqDomain DEF IndInv, ImageInv, FixedInv, WalkInv, Built
<1>3. k \in 1 .. Len(img) /\ k - 1 = Len(out)
  BY <1>2
<1>4. in[k] \in Variable /\ img[k] \in [at : Nat, rec : Record]
  BY <1>2, <1>3, SeqElement, ZenonT(60)
<1>5. /\ img[k].rec = Encode(in[k])
      /\ Pos(k) = img[k].at + EncodedLen(in[k], auth)
      /\ img[k].at + EncodedLen(in[k], auth) <= payload
  BY <1>3, SMTT(30) DEF IndInv, ImageInv
<1>6. PICK at \in Nat : at = img[k].at
  BY <1>4
<1>7. Pos(Len(out)) = at /\ off = HeaderEnd + at
  BY <1>1, <1>2, <1>3, <1>6 DEF Pos
<1>8. PICK e \in Nat : e = EncodedLen(in[k], auth) /\ e >= 32
  BY <1>2, <1>4, EncodedLenBound, Zenon
<1>9. PICK he \in Nat : he = HeaderEnd /\ he % 4 = 0 /\ he >= 28
  BY DEF IndInv, FixedInv, HeaderEnd, FvHeaderSize, StoreHeaderSize
<1>10. PICK end \in Nat : end = End /\ end + 60 < Word /\ he + payload <= end
  <2>1. End = storeOff + storeSize /\ End \in Nat /\ End <= len /\ len + 60 < Word
    BY <1>1, EndOfBuilt DEF IndInv, Built
  <2>2. HeaderEnd + payload <= storeOff + storeSize
    BY <1>1, <1>9, <2>1 DEF Built, Exceeds, IndInv, ImageInv
  <2>3. len \in Nat
    BY CodecAssumption DEF IndInv, FixedInv
  <2> QED
    BY <1>9, <2>1, <2>2, <2>3, WordIsWide
<1>11. payload \in Nat /\ payload + 3 < Word /\ e + 3 < Word /\ at + e <= payload
  <2>1. payload \in Nat /\ at + e <= payload
    BY <1>5, <1>6, <1>8 DEF IndInv, ImageInv
  <2>2. he >= 28 /\ end + 60 < Word /\ he + payload <= end
    BY <1>9, <1>10
  <2> QED
    BY <2>1, <2>2, WordIsWide
<1>12. at % 4 = 0
  BY <1>3, <1>6, <1>11 DEF IndInv, ImageInv
<1>13. PICK ns \in Nat : ns = NameSize(in[k].name)
  BY <1>4, VariableSizes
<1>14. PICK ds \in Nat : ds = DataLen[in[k].data]
  BY <1>4, VariableSizes
<1>15. PICK h \in Nat : h = HdrSize(auth) /\ h >= 32 /\ h <= 60
  BY <1>2 DEF HdrSize, AuthVarHeaderSize, VarHeaderSize
<1>16. /\ img[k].rec.nameSize = ns /\ img[k].rec.dataSize = ds
       /\ Encode(in[k]).dataSize = DataLen[in[k].data]
       /\ e = AlignUp64(h + ns + ds)
  BY <1>2, <1>4, <1>5, <1>8, <1>11, <1>13, <1>14, <1>15, EncodedLenExact, ZenonT(60)
<1>17. off \in Nat /\ off % 4 = 0 /\ off = he + at
  BY <1>7, <1>9, <1>12, AlignedSum
<1> DEFINE n == h + ns + ds
<1>17a. n \in Nat /\ e = AlignUp64(n)
  BY <1>16
<1>18. off \in Nat /\ off + h + ns + ds = off + n
  BY <1>17
<1> HIDE DEF n
<1>19. n <= e /\ e >= 32
  BY <1>8, <1>17a, AlignUp64Properties
<1>20. AlignUp64(off + n) = off + e
  BY <1>17a, <1>17, AlignUp64Shift, Zenon
<1>21. NextOffset(off, auth, ns, ds) = off + e
  BY <1>15, <1>18, <1>20 DEF NextOffset, DataOff, NameOff
<1>22. off + e <= end /\ end + 60 < Word /\ h <= 60
  <2>1. he + payload <= end
    BY <1>10
  <2>2. off = he + at
    BY <1>17
  <2> QED
    BY <1>10, <1>11, <1>15, <2>1, <2>2
<1>23. U32(off + e) = off + e /\ U32(off + h) = off + h /\ U32(off + 2) = off + 2
  <2>1. off + e < Word /\ off + h < Word /\ off + 2 < Word
    BY <1>18, <1>19, <1>22, WordIsWide
  <2> QED
    BY <1>18, <2>1, U32Small
<1>24. NextRecord(img[k].rec) = off + e
  BY <1>16, <1>21, <1>23 DEF NextRecord
<1>25. RecordFits(off, end, auth, ns, ds)
  <2>1. off + 8 <= end /\ off + h + ns <= end /\ off + h + ns + ds <= end /\ off + h <= end
    BY <1>18, <1>19, <1>22, <1>17a, SMTT(30)
  <2>2. PrefixFits(off, end) /\ HeaderFits(off, end, auth)
    BY <1>15, <1>17, <1>23, <2>1 DEF PrefixFits, HeaderFits, CheckBounds
  <2>3. BodyFits(off, end, auth, ns, ds)
    <3>1. /\ CheckBounds(off + h, ns, end)
          /\ CheckBounds(off + h + ns, ds, end)
          /\ off + e <= end
      BY <1>18, <1>22, <2>1 DEF CheckBounds
    <3> QED
      BY <1>15, <1>21, <3>1 DEF BodyFits, NameOff, DataOff
  <2> QED
    BY <2>2, <2>3 DEF RecordFits
<1>26. Accepts(img[k].rec)
  <2>1. off + e > off
    BY <1>18, <1>19
  <2> QED
    BY <1>10, <1>16, <1>22, <1>24, <1>25, <2>1 DEF Accepts
<1>27. IsRecord(k)
  BY <1>3, <1>6, <1>7 DEF IsRecord
<1>28. U32(off + 2) <= End
  BY <1>8, <1>10, <1>17, <1>22, <1>23, SMTT(30)
<1>29. NextRecord(img[k].rec) = HeaderEnd + Pos(k)
  BY <1>5, <1>6, <1>8, <1>9, <1>17, <1>24, SMTT(30)
<1>30. /\ Decode(img[k].rec) = Canonical(in[k])
       /\ EncodedLen(Canonical(in[k]), auth) = EncodedLen(in[k], auth)
  BY <1>2, <1>4, <1>5, <1>16, DecodeOfEncode, SMTT(30)
<1> QED
  BY <1>3, <1>4, <1>5, <1>6, <1>7, <1>26, <1>27, <1>28, <1>29, <1>30

-----------------------------------------------------------------------------

\* Collecting the record that is due.
LEMMA CollectPreserves ==
    ASSUME LimitBelowWord, IndInv, NEW k \in 1 .. Len(img), Collect(k)
    PROVE  IndInv'
<1>1. pc = "parse" /\ IsRecord(k) /\ Len(out) < MaxVariables
  BY DEF Collect
<1>2. PICK j \in Nat : j = Len(out)
  BY SeqDomain DEF IndInv, WalkInv
<1>3. j < Len(img) /\ k = j + 1
  BY <1>1, <1>2, RecordIsDue
<1>4. /\ in[k] \in Variable
      /\ NextRecord(img[k].rec) = HeaderEnd + Pos(k)
      /\ Decode(img[k].rec) = Canonical(in[k])
      /\ EncodedLen(Canonical(in[k]), auth) = EncodedLen(in[k], auth)
      /\ Pos(k) = Pos(j) + EncodedLen(in[k], auth)
  BY <1>1, <1>2, <1>3, DueRecord
<1>5. FixedInv' /\ ImageInv' /\ Pos(k)' = Pos(k)
  BY FixedPreserved, ImagePreserved DEF IndInv, Collect
<1>6. PICK w \in Variable : w = Canonical(in[k])
  <2>1. in[k].name \in Name /\ Canon[in[k].name] \in Name
    BY <1>4, StringAssumption DEF Variable
  <2> QED
    BY <1>4, <2>1 DEF Canonical, Variable
<1>7. out \in Seq(Variable) /\ out' = Append(out, w)
  BY <1>4, <1>6 DEF IndInv, WalkInv, Collect
<1>8. /\ out' \in Seq(Variable) /\ Len(out') = j + 1
      /\ \A l \in 1 .. j : out'[l] = out[l]
      /\ out'[j + 1] = w
  BY <1>2, <1>7, SeqAppend
<1>9. /\ in' = in /\ img' = img /\ payload' = payload /\ pc' = pc /\ auth' = auth
      /\ len' = len /\ storeOff' = storeOff /\ storeSize' = storeSize
  BY DEF Collect, fixed
<1>10. \A l \in 1 .. Len(out') : out'[l] = Canonical(in'[l])
  <2>1. \A l \in 1 .. j : out[l] = Canonical(in[l])
    BY <1>2 DEF IndInv, WalkInv
  <2>2. \A l \in 1 .. j + 1 : l \in 1 .. j \/ l = j + 1
    OBVIOUS
  <2> QED
    BY <1>3, <1>6, <1>8, <1>9, <2>1, <2>2
<1>11. again' = Pos(k) /\ again' \in Nat
  <2>1. again = Pos(j) /\ again \in Nat
    BY <1>1, <1>2 DEF IndInv, WalkInv
  <2>2. EncodedLen(in[k], auth) \in Nat
    BY <1>4, EncodedLenBound, SMTT(30) DEF IndInv, FixedInv
  <2>3. again' = again + EncodedLen(in[k], auth)
    BY <1>4 DEF Collect
  <2> QED
    BY <1>4, <2>1, <2>2, <2>3
<1>12. off' = HeaderEnd + Pos(k)
  BY <1>4 DEF Collect
<1>13. HeaderEnd' = HeaderEnd /\ Pos(Len(out))' = Pos(k)
  BY <1>3, <1>5, <1>8, <1>9 DEF HeaderEnd, Pos
<1>14. off' \in 0 .. Word - 1
  <2>1. NextRecord(img[k].rec) <= End
    BY <1>1, <1>2, <1>3, DueRecord DEF Accepts
  <2>2. End \in Nat /\ End <= len /\ len + 60 < Word /\ len \in Nat
    BY <1>1, EndOfBuilt, CodecAssumption DEF IndInv, WalkInv, FixedInv, Built
  <2>3. HeaderEnd \in Nat
    BY DEF IndInv, FixedInv, HeaderEnd, FvHeaderSize, StoreHeaderSize
  <2>4. off' \in Nat /\ off' <= End
    BY <1>4, <1>11, <1>12, <2>1, <2>3
  <2> QED
    BY <2>2, <2>4, WordIsWide
<1>15. Built'
  BY <1>1, <1>9 DEF IndInv, WalkInv, Built, BeyondFile, Exceeds, HeaderEnd
<1>16. Len(out') <= Len(img') /\ Len(out') <= MaxVariables
  BY <1>1, <1>2, <1>3, <1>8, <1>9, CodecAssumption, SeqDomain DEF IndInv, ImageInv
<1>17. WalkInv'
  BY <1>1, <1>8, <1>9, <1>10, <1>11, <1>12, <1>13, <1>14, <1>15, <1>16 DEF WalkInv
<1> QED
  BY <1>5, <1>17 DEF IndInv

\* Every step of the flush and of the Open after it keeps the invariant.
LEMMA NextPreserves ==
    ASSUME LimitBelowWord, IndInv, [Next]_vars
    PROVE  IndInv'
<1>1. CASE EncodeOne
  BY <1>1, EncodeOnePreserves
<1>2. CASE Reject
  <2>1. FixedInv' /\ ImageInv'
    BY <1>2, FixedPreserved, ImagePreserved DEF IndInv, Reject
  <2>2. out = <<>> /\ again = 0
    BY <1>2 DEF IndInv, WalkInv, Reject
  <2>3. WalkInv'
    BY <1>2, <2>2 DEF IndInv, WalkInv, Reject, fixed
  <2> QED
    BY <2>1, <2>3 DEF IndInv
<1>3. CASE Build
  <2>1. FixedInv' /\ ImageInv' /\ Pos(0)' = Pos(0)
    BY <1>3, FixedPreserved, ImagePreserved DEF IndInv, Build
  <2>2. out = <<>> /\ again = 0 /\ Len(out) = 0 /\ Pos(0) = 0
    BY <1>3 DEF IndInv, WalkInv, ImageInv, Build
  <2>3. Built /\ Built'
    BY <1>3 DEF Build, Built, BeyondFile, Exceeds, HeaderEnd, fixed
  <2>4. HeaderEnd \in Nat /\ HeaderEnd < Word /\ HeaderEnd' = HeaderEnd
    BY <1>3, CodecAssumption, WordIsWide
       DEF IndInv, FixedInv, HeaderEnd, FvHeaderSize, StoreHeaderSize, AuthVarHeaderSize,
           LimitBelowWord, Build, fixed
  <2>5. off' = HeaderEnd
    BY <1>3, <2>4, U32Small DEF Build
  <2>6. out' = <<>> /\ again' = 0 /\ pc' = "parse" /\ img' = img /\ in' = in
    BY <1>3, <2>2 DEF Build, fixed
  <2>7. off' = HeaderEnd' + Pos(Len(out))' /\ again' = Pos(Len(out))'
    BY <2>1, <2>2, <2>4, <2>5, <2>6
  <2>8. off' \in 0 .. Word - 1
    BY <2>4, <2>5, WordIsWide
  <2>9. Len(out') <= Len(img') /\ Len(out') <= MaxVariables /\ out' \in Seq(Variable)
    BY <2>6, CodecAssumption, SeqDomain DEF IndInv, ImageInv
  <2>10. WalkInv'
    BY <2>3, <2>6, <2>7, <2>8, <2>9 DEF WalkInv
  <2> QED
    BY <2>1, <2>10 DEF IndInv
<1>4. ASSUME NEW k \in 1 .. Len(img), Collect(k)
      PROVE  IndInv'
  BY <1>4, CollectPreserves
<1>5. ASSUME NEW k \in 1 .. Len(img), TooLarge(k)
      PROVE  IndInv'
  <2>1. FixedInv' /\ ImageInv'
    BY <1>5, FixedPreserved, ImagePreserved DEF IndInv, TooLarge
  <2>2. pc = "parse" /\ Len(out) < Len(img) /\ Len(out) >= MaxVariables /\ Built
    BY <1>5, RecordIsDue DEF TooLarge, IndInv, WalkInv
  <2>3. Len(in) > MaxVariables
    BY <2>2, CodecAssumption, SeqDomain DEF IndInv, ImageInv, WalkInv, Built
  <2>4. Built' /\ Pos(Len(out))' = Pos(Len(out))
    BY <1>5, <2>2 DEF TooLarge, Built, BeyondFile, Exceeds, HeaderEnd, Pos, fixed
  <2>5. WalkInv'
    BY <1>5, <2>2, <2>3, <2>4 DEF IndInv, WalkInv, TooLarge, fixed
  <2> QED
    BY <2>1, <2>5 DEF IndInv
<1>6. CASE Finish
  <2>1. FixedInv' /\ ImageInv'
    BY <1>6, FixedPreserved, ImagePreserved DEF IndInv, Finish
  <2>2. pc = "parse" /\ Built /\ Len(out) \in Nat /\ Len(img) \in Nat /\ Len(out) <= Len(img)
        /\ End \in Nat /\ off \in Nat
    <3>1. pc = "parse" /\ Built
      BY <1>6 DEF Finish, IndInv, WalkInv
    <3> QED
      BY <3>1, EndOfBuilt, SeqDomain, WordIsWide DEF IndInv, WalkInv, ImageInv, Built
  <2>3. ~(Len(out) < Len(img))
    <3>1. SUFFICES ASSUME Len(out) < Len(img)
                   PROVE  FALSE
      OBVIOUS
    <3>2. PICK k \in Nat : k = Len(out) + 1
      BY <2>2
    <3>3. /\ k \in 1 .. Len(img) /\ U32(off + 2) <= End
          /\ IsRecord(k) /\ Accepts(img[k].rec)
      BY <2>2, <3>1, <3>2, DueRecord
    <3>4. U32(off + 2) \in Int
      BY <2>2, U32Range
    <3> QED
      BY <1>6, <2>2, <3>3, <3>4 DEF Finish
  <2>4. Len(out) = Len(in)
    BY <2>2, <2>3 DEF Built
  <2>5. Built' /\ Pos(Len(out))' = Pos(Len(out))
    BY <1>6, <2>2 DEF Finish, Built, BeyondFile, Exceeds, HeaderEnd, Pos, fixed
  <2>6. WalkInv'
    BY <1>6, <2>2, <2>4, <2>5 DEF IndInv, WalkInv, Finish, fixed
  <2> QED
    BY <2>1, <2>6 DEF IndInv
<1>7. CASE UNCHANGED vars
  <2>1. FixedInv' /\ ImageInv'
    BY <1>7, FixedPreserved, ImagePreserved DEF IndInv, vars, fixed
  <2>2. WalkInv'
    BY <1>7, Zenon DEF IndInv, WalkInv, vars, Built, BeyondFile, Exceeds, HeaderEnd, Pos
  <2> QED
    BY <2>1, <2>2 DEF IndInv
<1> QED
  BY <1>1, <1>2, <1>3, <1>4, <1>5, <1>6, <1>7 DEF Next, Returned

\* IndInv is an invariant of flushing and reopening.
THEOREM CodecInvariant ==
    ASSUME LimitBelowWord
    PROVE  Spec => []IndInv
<1>1. Init => IndInv
  BY InitEstablishes
<1>2. IndInv /\ [Next]_vars => IndInv'
  BY NextPreserves
<1> QED
  BY <1>1, <1>2, PTL DEF Spec

\* The offsets of flush and walk stay in uint32, and no payload is cut short.
THEOREM CodecTypeOK ==
    ASSUME LimitBelowWord
    PROVE  Spec => []TypeOK
<1>1. IndInv => TypeOK
  BY DEF IndInv, FixedInv, ImageInv, WalkInv, TypeOK
<1> QED
  BY <1>1, CodecInvariant, PTL

\* For every list of variables that buildStore accepts and the variable budget
\* allows, the next Open returns exactly that list, names in their UTF-16 form.
THEOREM FlushReadsBack ==
    ASSUME LimitBelowWord
    PROVE  Spec => []ReadBack
<1>1. ASSUME IndInv, pc = "done"
      PROVE  out = [k \in DOMAIN in |-> Canonical(in[k])]
  <2>1. /\ out \in Seq(Variable) /\ in \in Seq(Variable) /\ Len(out) = Len(in)
        /\ \A k \in 1 .. Len(out) : out[k] = Canonical(in[k])
    BY <1>1 DEF IndInv, FixedInv, WalkInv
  <2>2. DOMAIN out = DOMAIN in /\ DOMAIN out = 1 .. Len(out)
    BY <2>1, SeqDomain
  <2>3. out = [k \in DOMAIN out |-> out[k]]
    BY <2>1
  <2> QED
    BY <2>1, <2>2, <2>3
<1>2. IndInv => ReadBack
  BY <1>1 DEF ReadBack
<1> QED
  BY <1>2, CodecInvariant, PTL

\* The variables collected are at every point the first ones flushed.
THEOREM WalkCollectsPrefix ==
    ASSUME LimitBelowWord
    PROVE  Spec => []CollectsPrefix
<1>1. IndInv => CollectsPrefix
  BY SeqDomain DEF IndInv, ImageInv, FixedInv, WalkInv, CollectsPrefix
<1> QED
  BY <1>1, CodecInvariant, PTL

\* buildStore lets no record reach past the end of the store.
THEOREM RecordsStayInside ==
    ASSUME LimitBelowWord
    PROVE  Spec => []RecordsInsideStore
<1>1. ASSUME IndInv, pc = "parse", NEW k \in 1 .. Len(img)
      PROVE  HeaderEnd + img[k].at + EncodedLen(in[k], auth) <= storeOff + storeSize
  <2>1. Built /\ in \in Seq(Variable) /\ img \in Seq([at : Nat, rec : Record]) /\ auth \in BOOLEAN
    BY <1>1 DEF IndInv, WalkInv, FixedInv, ImageInv
  <2>2. in[k] \in Variable /\ img[k].at \in Nat
    <3>1. k \in 1 .. Len(in)
      BY <1>1, <2>1 DEF Built
    <3>2. in[k] \in Variable
      BY <2>1, <3>1, SeqElement
    <3>3. img[k] \in [at : Nat, rec : Record]
      BY <1>1, <2>1, SeqElement, ZenonT(60)
    <3> QED
      BY <3>2, <3>3
  <2>3. EncodedLen(in[k], auth) \in Nat
    BY <2>1, <2>2, EncodedLenBound, SMTT(30)
  <2>4. img[k].at + EncodedLen(in[k], auth) <= payload /\ payload \in Nat
    BY <1>1 DEF IndInv, ImageInv
  <2>5. HeaderEnd \in Nat /\ storeOff + storeSize \in Nat
    BY <1>1, WordIsWide DEF IndInv, FixedInv, HeaderEnd, FvHeaderSize, StoreHeaderSize
  <2>6. HeaderEnd + payload <= storeOff + storeSize
    BY <2>1, <2>4, <2>5 DEF Built, Exceeds
  <2> QED
    BY <2>2, <2>3, <2>4, <2>5, <2>6, SMTT(30)
<1>2. IndInv => RecordsInsideStore
  BY <1>1 DEF RecordsInsideStore
<1> QED
  BY <1>2, CodecInvariant, PTL

\* A store that was flushed and read back is flushed again to the same length,
\* so reopening never makes a store too full to be written.
THEOREM FlushedStoreRewrites ==
    ASSUME LimitBelowWord
    PROVE  Spec => []RewriteFits
<1>1. IndInv => RewriteFits
  BY SeqDomain DEF IndInv, WalkInv, ImageInv, Built, Pos, RewriteFits
<1> QED
  BY <1>1, CodecInvariant, PTL

\* Open refuses a flushed store exactly when it holds more variables than
\* Limits.MaxVariables.
THEOREM BudgetDecidesReopen ==
    ASSUME LimitBelowWord
    PROVE  Spec => []BudgetDecides
<1>1. IndInv => BudgetDecides
  BY DEF IndInv, WalkInv, BudgetDecides
<1> QED
  BY <1>1, CodecInvariant, PTL
=============================================================================
