------------------------ MODULE ParseVariablesProofs ------------------------
(***************************************************************************)
(* The walk over the variable region is safe for every file, every limit   *)
(* and every content, as long as Limits.MaxFileSize leaves room for one    *)
(* record header below 2^32.                                               *)
(***************************************************************************)
EXTENDS ParseVariables, BaseProofs

\* The configurations the theorems cover; the default 256 MiB is one.
LimitBelowWord == MaxFileSize + AuthVarHeaderSize < Word

RegionStart == storeOff + StoreHeaderSize

\* The shape of the region: the clamp put it inside the file.
RegionInv ==
    /\ len \in 0 .. MaxFileSize
    /\ storeOff \in {0, FvHeaderSize}
    /\ storeSize \in 0 .. Word - 1
    /\ storeOff + storeSize <= len
    /\ RegionStart <= len
    /\ auth \in BOOLEAN

\* Where the walk is, and that the header bytes it has consumed pay for the
\* iterations it has made.
WalkInv ==
    /\ off \in Nat /\ off % 4 = 0
    /\ RegionStart <= off /\ off <= len
    /\ steps \in Nat /\ count \in Nat
    /\ pc \in {"walk", "done", "toolarge"}
    /\ pc = "walk" => steps * HdrSize(auth) <= off - RegionStart
    /\ steps <= storeOff + storeSize + 1

IndInv == RegionInv /\ WalkInv /\ ReadsInBounds /\ BudgetKept

-----------------------------------------------------------------------------

\* The size fields of a record header are natural numbers.
LEMMA HeaderSizes ==
    ASSUME NEW h \in Header
    PROVE  h.nameSize \in Nat /\ h.dataSize \in Nat
<1>1. \A x \in FieldSizes : x \in Nat
  BY InputAssumption, WordIsWide
<1>2. h.nameSize \in FieldSizes /\ h.dataSize \in FieldSizes
  BY DEF Header
<1> QED
  BY <1>1, <1>2

\* With the region inside the file, its end is not cut and not wrapped.
LEMMA EndIsRegionEnd ==
    ASSUME LimitBelowWord, RegionInv
    PROVE  End = storeOff + storeSize
<1>1. storeOff + storeSize \in Nat /\ storeOff + storeSize < Word
  BY LimitsAssumption, WordIsWide DEF LimitBelowWord, RegionInv, FvHeaderSize, AuthVarHeaderSize
<1>2. U32(storeOff + storeSize) = storeOff + storeSize
  BY <1>1, U32Small
<1> QED
  BY <1>2, LimitsAssumption, WordIsWide DEF End, RegionInv, FvHeaderSize

\* A record that passes the checks of parseOneVariable lies inside the region
\* with all its parts, and the next record starts behind its header.
LEMMA FittingRecord ==
    ASSUME LimitBelowWord, RegionInv, WalkInv,
           NEW h \in Header,
           RecordFits(off, End, auth, h.nameSize, h.dataSize)
    PROVE  /\ NextRecord(h) \in Nat
           /\ NextRecord(h) % 4 = 0
           /\ NextRecord(h) <= End
           /\ off + HdrSize(auth) + h.nameSize + h.dataSize <= NextRecord(h)
<1> DEFINE body == off + HdrSize(auth) + h.nameSize + h.dataSize
           next == AlignUp64(body)
<1>1. body \in Nat /\ h.nameSize \in Nat /\ h.dataSize \in Nat
  BY HeaderSizes DEF WalkInv, RegionInv, HdrSize, AuthVarHeaderSize, VarHeaderSize
<1>2. next \in Nat /\ next % 4 = 0 /\ body <= next
  BY <1>1, AlignUp64Properties
<1>3. NextOffset(off, auth, h.nameSize, h.dataSize) = next
  BY DEF NextOffset, DataOff, NameOff
<1>4. next <= End
  BY <1>3 DEF RecordFits, BodyFits
<1>5. End \in Nat /\ End < Word
  BY EndIsRegionEnd, LimitsAssumption, WordIsWide
     DEF LimitBelowWord, RegionInv, FvHeaderSize, AuthVarHeaderSize
<1>6. NextRecord(h) = next
  <2> HIDE DEF next
  <2>1. next < Word
    BY <1>2, <1>4, <1>5, WordIsWide
  <2> QED
    BY <1>2, <1>3, <2>1, U32Small DEF NextRecord
<1> QED
  BY <1>2, <1>4, <1>6

\* Every slice one call of parseOneVariable takes lies inside the file.
LEMMA ReadsOfOneRecord ==
    ASSUME LimitBelowWord, RegionInv, WalkInv, LoopCondition,
           NEW h \in Header
    PROVE  \A r \in Reads(h) : r[1] <= r[2] /\ r[2] <= len
<1> USE DEF HdrSize, AuthVarHeaderSize, VarHeaderSize, FvHeaderSize, StoreHeaderSize
<1>1. /\ off \in Nat /\ len \in Nat /\ End \in Nat /\ End <= len
      /\ len + 60 < Word /\ off <= len
  BY EndIsRegionEnd, LimitsAssumption, WordIsWide DEF RegionInv, WalkInv, LimitBelowWord
<1>2. \A n \in 0 .. 60 : U32(off + n) = off + n
  BY <1>1, U32Small, WordIsWide
<1>3. off + 2 <= End
  BY <1>1, <1>2 DEF LoopCondition
<1>4. h.nameSize \in Nat /\ h.dataSize \in Nat /\ auth \in BOOLEAN
  BY HeaderSizes DEF RegionInv
<1>5. <<off, U32(off + 2)>>[1] <= <<off, U32(off + 2)>>[2] /\ <<off, U32(off + 2)>>[2] <= len
  BY <1>1, <1>2, <1>3
<1>6. ASSUME PrefixFits(off, End)
      PROVE  \A r \in {<<off + 2, off + 3>>, <<U32(off + 4), U32(off + 4) + 4>>} :
                 r[1] <= r[2] /\ r[2] <= len
  <2>1. off + 8 <= End
    BY <1>1, <1>6 DEF PrefixFits, CheckBounds
  <2> QED
    BY <1>1, <1>2, <2>1
<1>7. ASSUME HeaderFits(off, End, auth)
      PROVE  \A r \in FieldReads : r[1] <= r[2] /\ r[2] <= len
  <2>1. off + HdrSize(auth) <= End
    BY <1>1, <1>2, <1>4, <1>7 DEF HeaderFits
  <2>2. CASE auth
    BY <1>1, <1>2, <2>1, <2>2 DEF FieldReads
  <2>3. CASE ~auth
    BY <1>1, <1>2, <2>1, <2>3 DEF FieldReads
  <2> QED
    BY <2>2, <2>3
<1>8. ASSUME BodyFits(off, End, auth, h.nameSize, h.dataSize)
      PROVE  \A r \in {NameRead(h), DataRead(h)} : r[1] <= r[2] /\ r[2] <= len
  <2> DEFINE nameOff == off + HdrSize(auth)
             dataOff == nameOff + h.nameSize
  <2>1. /\ nameOff \in Nat /\ dataOff \in Nat
        /\ nameOff + h.nameSize <= End /\ dataOff + h.dataSize <= End
    BY <1>1, <1>4, <1>8 DEF BodyFits, CheckBounds, DataOff, NameOff
  <2>2. U32(nameOff) = nameOff /\ U32(dataOff) = dataOff /\ U32(dataOff + h.dataSize) = dataOff + h.dataSize
    BY <1>1, <1>4, <2>1, U32Small, WordIsWide
  <2> QED
    BY <1>1, <1>4, <2>1, <2>2 DEF NameRead, DataRead, NameOff, DataOff
<1> QED
  BY <1>5, <1>6, <1>7, <1>8 DEF Reads

-----------------------------------------------------------------------------

\* The clamp of OpenLimits establishes the invariant.
LEMMA InitEstablishes ==
    ASSUME LimitBelowWord, Init
    PROVE  IndInv
<1> USE DEF HdrSize, AuthVarHeaderSize, VarHeaderSize, FvHeaderSize, StoreHeaderSize
<1>1. len \in 0 .. MaxFileSize /\ len < Word
  BY InputAssumption, LimitsAssumption, WordIsWide DEF Init, LimitBelowWord
<1>2. PICK sizeField \in StoreSizes : storeSize = ClampedSize(sizeField, storeOff, len)
  BY DEF Init
<1>3. sizeField \in 0 .. Word - 1
  BY InputAssumption
<1>4. len - storeOff \in Nat /\ len - storeOff < Word
  BY <1>1, LimitsAssumption, WordIsWide DEF Init
<1>5. U32(len - storeOff) = len - storeOff
  BY <1>4, U32Small
<1>6. storeSize \in 0 .. Word - 1 /\ storeOff + storeSize <= len
  BY <1>1, <1>2, <1>3, <1>4, <1>5, LimitsAssumption, WordIsWide DEF Init, ClampedSize
<1>7. off = storeOff + StoreHeaderSize
  BY <1>1, U32Small, WordIsWide DEF Init
<1> QED
  BY <1>1, <1>6, <1>7, LimitsAssumption
     DEF Init, IndInv, RegionInv, RegionStart, WalkInv, ReadsInBounds, BudgetKept

\* One iteration that goes on keeps the walk paid for.
LEMMA AdvancePays ==
    ASSUME LimitBelowWord, IndInv, pc = "walk", LoopCondition,
           NEW h \in Header, ~Breaks(h), Advance(h),
           UNCHANGED input, pc' = pc, count' \in Nat
    PROVE  RegionInv' /\ WalkInv'
<1> USE DEF HdrSize, AuthVarHeaderSize, VarHeaderSize, FvHeaderSize, StoreHeaderSize
<1>1. RegionInv'
  BY DEF IndInv, RegionInv, RegionStart, input
<1>2. RecordFits(off, End, auth, h.nameSize, h.dataSize)
  BY DEF Breaks, ParseError
<1>3. /\ NextRecord(h) \in Nat
      /\ NextRecord(h) % 4 = 0
      /\ NextRecord(h) <= End
      /\ off + HdrSize(auth) + h.nameSize + h.dataSize <= NextRecord(h)
  BY <1>2, FittingRecord DEF IndInv
<1>4. h.nameSize \in Nat /\ h.dataSize \in Nat
  BY HeaderSizes
<1>5. End = storeOff + storeSize
  BY EndIsRegionEnd DEF IndInv
<1>6. /\ off \in Nat /\ steps \in Nat /\ RegionStart \in Nat /\ End \in Nat /\ len \in Nat
      /\ RegionStart <= off /\ End <= len
      /\ steps * HdrSize(auth) <= off - RegionStart
  BY <1>5, LimitsAssumption, WordIsWide DEF IndInv, RegionInv, WalkInv, RegionStart
<1>7. /\ off' = NextRecord(h) /\ steps' = steps + 1
      /\ RegionStart' = RegionStart /\ auth' = auth /\ len' = len
      /\ (storeOff + storeSize)' = storeOff + storeSize
  BY DEF Advance, input, RegionStart
<1>8. steps' * HdrSize(auth)' <= off' - RegionStart'
  <2>1. CASE auth
    BY <1>3, <1>4, <1>6, <1>7, <2>1
  <2>2. CASE ~auth
    BY <1>3, <1>4, <1>6, <1>7, <2>2
  <2> QED
    BY <2>1, <2>2
<1>9. steps' <= storeOff + storeSize + 1
  <2>1. steps <= off
    <3>1. CASE auth
      BY <1>6, <3>1
    <3>2. CASE ~auth
      BY <1>6, <3>2
    <3> QED
      BY <3>1, <3>2
  <2> QED
    BY <1>3, <1>4, <1>5, <1>6, <1>7, <2>1
<1> QED
  BY <1>1, <1>3, <1>4, <1>6, <1>7, <1>8, <1>9 DEF WalkInv, IndInv

\* Every step of the walk keeps the invariant.
LEMMA NextPreserves ==
    ASSUME LimitBelowWord, IndInv, [Next]_vars
    PROVE  IndInv'
<1> USE DEF HdrSize, AuthVarHeaderSize, VarHeaderSize, FvHeaderSize, StoreHeaderSize
<1>1. RegionInv /\ WalkInv /\ ReadsInBounds /\ BudgetKept
  BY DEF IndInv
<1>2. CASE LoopExit
  BY <1>1, <1>2
     DEF LoopExit, IndInv, RegionInv, RegionStart, WalkInv, ReadsInBounds, BudgetKept, input
<1>3. ASSUME pc = "walk", LoopCondition
      PROVE  steps <= storeOff + storeSize /\ ~GuardSpent
  <2>1. /\ off \in Nat /\ steps \in Nat /\ RegionStart \in Nat /\ auth \in BOOLEAN
        /\ steps * HdrSize(auth) <= off - RegionStart
    BY <1>1, <1>3 DEF RegionInv, WalkInv, RegionStart
  <2>2. steps <= off
    <3>1. CASE auth
      BY <2>1, <3>1
    <3>2. CASE ~auth
      BY <2>1, <3>2
    <3> QED
      BY <2>1, <3>1, <3>2
  <2>3. End = storeOff + storeSize /\ End \in Nat
    BY <1>1, EndIsRegionEnd, LimitsAssumption, WordIsWide DEF RegionInv
  <2>4. U32(off + 2) = off + 2
    BY <1>1, U32Small, LimitsAssumption, WordIsWide DEF RegionInv, WalkInv, LimitBelowWord
  <2> QED
    BY <1>3, <2>1, <2>2, <2>3, <2>4 DEF LoopCondition, GuardSpent, GuardLimit
<1>4. ASSUME NEW h \in Header, Break(h)
      PROVE  IndInv'
  <2>1. ReadsInBounds'
    <3>1. \A r \in Reads(h) : r[1] <= r[2] /\ r[2] <= len
      BY <1>1, <1>4, ReadsOfOneRecord DEF Break
    <3> QED
      BY <3>1, <1>4 DEF Break, ReadsInBounds, input
  <2>2. steps <= storeOff + storeSize
    BY <1>3, <1>4 DEF Break
  <2>3. storeOff \in Nat /\ storeSize \in Nat
    BY <1>1, WordIsWide DEF RegionInv
  <2> QED
    BY <1>1, <1>4, <2>1, <2>2, <2>3
       DEF Break, IndInv, RegionInv, RegionStart, WalkInv, BudgetKept, input
<1>5. ASSUME NEW h \in Header, Skip(h)
      PROVE  IndInv'
  <2>1. RegionInv' /\ WalkInv'
    BY <1>1, <1>5, AdvancePays DEF Skip, WalkInv
  <2>2. ReadsInBounds'
    <3>1. \A r \in Reads(h) : r[1] <= r[2] /\ r[2] <= len
      BY <1>1, <1>5, ReadsOfOneRecord DEF Skip
    <3> QED
      BY <3>1, <1>5 DEF Skip, ReadsInBounds, input
  <2> QED
    BY <1>1, <1>5, <2>1, <2>2 DEF Skip, IndInv, BudgetKept
<1>6. ASSUME NEW h \in Header, Collect(h)
      PROVE  IndInv'
  <2>1. count' \in Nat /\ count' <= MaxVariables
    BY <1>1, <1>6, LimitsAssumption DEF Collect, WalkInv
  <2>2. RegionInv' /\ WalkInv'
    BY <1>1, <1>6, <2>1, AdvancePays DEF Collect
  <2>3. ReadsInBounds'
    <3>1. \A r \in Reads(h) : r[1] <= r[2] /\ r[2] <= len
      BY <1>1, <1>6, ReadsOfOneRecord DEF Collect
    <3> QED
      BY <3>1, <1>6 DEF Collect, ReadsInBounds, input
  <2> QED
    BY <1>6, <2>1, <2>2, <2>3 DEF Collect, IndInv, BudgetKept
<1>7. ASSUME NEW h \in Header, TooLarge(h)
      PROVE  IndInv'
  <2>1. ReadsInBounds'
    <3>1. \A r \in Reads(h) : r[1] <= r[2] /\ r[2] <= len
      BY <1>1, <1>7, ReadsOfOneRecord DEF TooLarge
    <3> QED
      BY <3>1, <1>7 DEF TooLarge, ReadsInBounds, input
  <2>2. steps <= storeOff + storeSize
    BY <1>3, <1>7 DEF TooLarge
  <2>3. storeOff \in Nat /\ storeSize \in Nat
    BY <1>1, WordIsWide DEF RegionInv
  <2>4. BudgetKept'
    BY <1>1, <1>7, LimitsAssumption DEF TooLarge, BudgetKept, WalkInv
  <2> QED
    BY <1>1, <1>7, <2>1, <2>2, <2>3, <2>4
       DEF TooLarge, IndInv, RegionInv, RegionStart, WalkInv, input
<1>8. CASE UNCHANGED vars
  BY <1>1, <1>8
     DEF vars, IndInv, RegionInv, RegionStart, WalkInv, ReadsInBounds, BudgetKept
<1> QED
  BY <1>2, <1>4, <1>5, <1>6, <1>7, <1>8 DEF Next, Returned

\* IndInv is an invariant of the walk.
THEOREM WalkInvariant ==
    ASSUME LimitBelowWord
    PROVE  Spec => []IndInv
<1>1. Init => IndInv
  BY InitEstablishes
<1>2. IndInv /\ [Next]_vars => IndInv'
  BY NextPreserves
<1> QED
  BY <1>1, <1>2, PTL DEF Spec

\* No slice of the file bytes is out of range for any file content: the
\* parser cannot panic (parseOneVariable).
THEOREM WalkReadsInBounds ==
    ASSUME LimitBelowWord
    PROVE  Spec => []ReadsInBounds
<1>1. IndInv => ReadsInBounds
  BY DEF IndInv
<1> QED
  BY <1>1, WalkInvariant, PTL

\* The state of the walk keeps its Go types.
THEOREM WalkTypeOK ==
    ASSUME LimitBelowWord
    PROVE  Spec => []TypeOK
<1>1. IndInv => TypeOK
  BY LimitsAssumption, WordIsWide
     DEF IndInv, RegionInv, WalkInv, TypeOK, LimitBelowWord, AuthVarHeaderSize
<1> QED
  BY <1>1, WalkInvariant, PTL

\* Forward progress ends the walk before the loop guard does, so the guard
\* never cuts a walk short (parseVariables, NewLoopGuard).
THEOREM WalkOutrunsGuard ==
    ASSUME LimitBelowWord
    PROVE  Spec => []GuardNeverTrips
<1>1. IndInv => GuardNeverTrips
  BY EndIsRegionEnd DEF IndInv, WalkInv, GuardNeverTrips, GuardLimit
<1> QED
  BY <1>1, WalkInvariant, PTL

\* Every iteration has consumed a whole record header of the region.
THEOREM WalkIsPaidFor ==
    ASSUME LimitBelowWord
    PROVE  Spec => []WalkPaysForSteps
<1>1. IndInv => WalkPaysForSteps
  BY DEF IndInv, WalkInv, WalkPaysForSteps, RegionStart, HeaderAlignment
<1> QED
  BY <1>1, WalkInvariant, PTL

\* Limits.MaxVariables bounds the variables collected.
THEOREM WalkKeepsBudget ==
    ASSUME LimitBelowWord
    PROVE  Spec => []BudgetKept
<1>1. IndInv => BudgetKept
  BY DEF IndInv
<1> QED
  BY <1>1, WalkInvariant, PTL

\* No record is parsed twice and the walk never leaves the region.
THEOREM WalkMovesForward ==
    ASSUME LimitBelowWord
    PROVE  Spec => ForwardProgress
<1>1. ASSUME IndInv, [Next]_vars
      PROVE  [off' # off => off' > off /\ off' <= End]_vars
  <2>1. ASSUME NEW h \in Header, ~Breaks(h), Advance(h)
        PROVE  off' > off /\ off' <= End
    <3>1. RecordFits(off, End, auth, h.nameSize, h.dataSize)
      BY <2>1 DEF Breaks, ParseError
    <3>2. NextRecord(h) \in Nat /\ NextRecord(h) <= End
      BY <1>1, <3>1, FittingRecord DEF IndInv
    <3>3. ~(NextRecord(h) <= off)
      BY <2>1 DEF Breaks
    <3>4. off \in Nat
      BY <1>1 DEF IndInv, WalkInv
    <3> QED
      BY <2>1, <3>2, <3>3, <3>4 DEF Advance
  <2> QED
    BY <1>1, <2>1 DEF Next, LoopExit, Break, Skip, Collect, TooLarge, Returned, vars
<1> QED
  BY <1>1, WalkInvariant, PTL DEF Spec, ForwardProgress
=============================================================================
