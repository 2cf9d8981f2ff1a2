---------------------------- MODULE MemOpsProofs ----------------------------
(***************************************************************************)
(* syn_memcpy and syn_memset write every byte of the block and no other,   *)
(* in order, for all addresses and sizes and in every build; and what is   *)
(* left of that when the int that counts a scalar memset overflows.        *)
(***************************************************************************)
EXTENDS MemOps, TLAPS

\* The call as Init picks it.
Call ==
  /\ build \in {"none", "sse", "avx"} /\ op \in {"memcpy", "memset"}
  /\ dest \in Nat /\ src \in Nat /\ size \in 0 .. (USIZE - INT_MAX - 2)

\* Loop k starts where the one before it ended.
Starts(k) == Loops[k].start
Bytes(k)  == Loops[k].bytes

\* The index is at a whole unit of its loop.
AtUnit == i \in Nat /\ i <= Loops[loop].bytes /\ i % Unit = 0

\* The modes of a call: all bytes before its place are written; the index has just
\* overflowed; the tail runs, and the bytes that the index did not reach are missing.
InOrder   == AtUnit /\ written = 0 .. (Place - 1)
Overflown == LongIndex /\ loop = 3 /\ i = INT_MIN /\ written = 0 .. (HeadBytes + INT_MAX)
WithGap   == LongIndex /\ loop = 4 /\ AtUnit /\ written = (0 .. (Place - 1)) \ Unreached

MemInv ==
  /\ Call
  /\ loop \in 1 .. 4
  /\ pc \in {"called", "copying", "returned", "rejected", "fault"}
  /\ InOrder \/ Overflown \/ WithGap
  /\ pc = "returned" => loop = 4 /\ i = Loops[4].bytes

-----------------------------------------------------------------------------
\* Rounding down, for each of the widths.
LEMMA Rounding ==
  ASSUME NEW x \in Nat, NEW w \in {8, 16, 32}
  PROVE  /\ RoundedDown(x, w) \in Nat /\ RoundedDown(x, w) <= x
         /\ RoundedDown(x, w) % w = 0 /\ x - RoundedDown(x, w) < w
<1>1. CASE w = 8
  BY <1>1 DEF RoundedDown
<1>2. CASE w = 16
  BY <1>2 DEF RoundedDown
<1>3. CASE w = 32
  BY <1>3 DEF RoundedDown
<1> QED  BY <1>1, <1>2, <1>3

\* A difference that does not go below 0 is not wrapped around.
LEMMA NoWrap ==
  ASSUME NEW x \in Nat, x < USIZE
  PROVE  Usize(x) = x
BY MemAssumption DEF Usize

\* The vector width of each build.
LEMMA Widths ==
  ASSUME Call
  PROVE  /\ SimdWidth \in {8, 16, 32} /\ (build = "avx" <=> SimdWidth = 32)
         /\ (build = "none" <=> SimdWidth = 8)
BY DEF Call, SimdWidth, WIDTH_STD, WIDTH_SSE, WIDTH_AVX

\* The head is shorter than a vector, and than the whole call.
LEMMA HeadFits ==
  ASSUME Call
  PROVE  /\ FullHead \in Nat /\ FullHead < SimdWidth
         /\ (dest + FullHead) % SimdWidth = 0
         /\ HeadBytes \in 0 .. size
         /\ Short => HeadBytes = size
         /\ ~Short /\ build # "avx" => HeadBytes = FullHead
<1>1. FullHead \in Nat /\ FullHead < SimdWidth /\ (dest + FullHead) % SimdWidth = 0
  <2>1. CASE SimdWidth = 8
    BY <2>1 DEF Call, FullHead, Misalignment
  <2>2. CASE SimdWidth = 16
    BY <2>2 DEF Call, FullHead, Misalignment
  <2>3. CASE SimdWidth = 32
    BY <2>3 DEF Call, FullHead, Misalignment
  <2> QED  BY <2>1, <2>2, <2>3, Widths
<1>2. ~Short /\ build # "avx" => FullHead <= size
  BY <1>1, Widths DEF Short, ALIGNMENT, Call
<1>3. size \in Nat
  BY MemAssumption DEF Call
<1> QED  BY <1>1, <1>2, <1>3 DEF HeadBytes

\* Head, chunks and tail add up to the block, and each loop's share is a whole
\* number of its units.
LEMMA LoopsTile ==
  ASSUME Call
  PROVE  /\ HeadBytes \in Nat /\ AvxChunk \in Nat /\ BodyBytes \in Nat /\ TailBytes \in Nat
         /\ HeadUnit \in {1, 16} /\ BodyUnit \in {1, 16}
         /\ HeadBytes % HeadUnit = 0 /\ AvxChunk % WIDTH_AVX = 0 /\ BodyBytes % BodyUnit = 0
         /\ HeadBytes + AvxChunk + BodyBytes + TailBytes = size
<1>1. size \in Nat /\ size < USIZE /\ HeadBytes \in 0 .. size
  BY MemAssumption, HeadFits DEF Call
<1>2. HeadUnit \in {1, 16} /\ HeadBytes % HeadUnit = 0 /\ BodyUnit \in {1, 16}
  BY <1>1 DEF HeadUnit, BodyUnit, WIDTH_SSE
<1>3. CASE Short
  <2>1. HeadBytes = size /\ BodyBytes = 0 /\ TailBytes = 0
    BY <1>3, HeadFits DEF BodyBytes, TailBytes
  <2>2. AvxChunk = 0
    BY <1>1, <2>1 DEF AvxChunk, RoundedDown, WIDTH_AVX
  <2> QED  BY <1>1, <1>2, <2>1, <2>2 DEF WIDTH_AVX
<1>4. CASE ~Short /\ build = "avx"
  <2>1. size - HeadBytes \in Nat
    BY <1>1
  <2>2. AvxChunk \in Nat /\ AvxChunk <= size - HeadBytes /\ AvxChunk % WIDTH_AVX = 0
    BY <1>4, <2>1, Rounding DEF AvxChunk, WIDTH_AVX
  <2>3. size - HeadBytes - AvxChunk \in Nat
    BY <1>1, <2>2
  <2>4. BodyBytes \in Nat /\ BodyBytes <= size - HeadBytes - AvxChunk /\ BodyBytes % 16 = 0
    BY <1>4, <2>3, Rounding DEF BodyBytes, WIDTH_SSE
  <2>5. TailBytes = size - HeadBytes - AvxChunk - BodyBytes
    BY <1>4 DEF TailBytes
  <2>6. BodyUnit = 16
    BY <1>4 DEF BodyUnit, WIDTH_SSE
  <2> QED  BY <1>1, <1>2, <2>2, <2>3, <2>4, <2>5, <2>6
<1>5. CASE ~Short /\ build # "avx"
  <2>1. HeadBytes = FullHead /\ AvxChunk = 0 /\ size - FullHead \in Nat /\ size - FullHead < USIZE
    <3>1. HeadBytes = FullHead /\ AvxChunk = 0
      BY <1>5, HeadFits DEF AvxChunk
    <3> QED  BY <1>1, <3>1, MemAssumption
  <2>2. BodyBytes = RoundedDown(size - FullHead, SimdWidth)
    BY <1>5, <2>1, NoWrap DEF BodyBytes
  <2>3. BodyBytes \in Nat /\ BodyBytes <= size - FullHead /\ BodyBytes % SimdWidth = 0
    BY <2>1, <2>2, Widths, Rounding
  <2>4. TailBytes = size - FullHead - BodyBytes
    <3>1. size - FullHead - BodyBytes \in Nat /\ size - FullHead - BodyBytes < USIZE
      BY <2>1, <2>3, MemAssumption
    <3> QED  BY <1>5, <3>1, NoWrap DEF TailBytes
  <2>5. BodyBytes % BodyUnit = 0
    BY <1>5, <2>3, Widths DEF Call, BodyUnit, WIDTH_SSE
  <2> QED  BY <1>1, <1>2, <2>1, <2>3, <2>4, <2>5 DEF WIDTH_AVX
<1> QED  BY <1>3, <1>4, <1>5

\* The tail is shorter than a vector.
LEMMA TailShort ==
  ASSUME Call
  PROVE  TailBytes < 32
<1>1. size \in Nat /\ size < USIZE /\ HeadBytes \in 0 .. size
  BY MemAssumption, HeadFits DEF Call
<1>2. CASE Short
  BY <1>2 DEF TailBytes
<1>3. CASE ~Short /\ build = "avx"
  <2>1. size - HeadBytes - AvxChunk \in Nat
    <3>1. size - HeadBytes \in Nat
      BY <1>1
    <3>2. AvxChunk \in Nat /\ AvxChunk <= size - HeadBytes
      BY <1>3, <3>1, Rounding DEF AvxChunk, WIDTH_AVX
    <3> QED  BY <1>1, <3>2
  <2>2. size - HeadBytes - AvxChunk - BodyBytes < 16
    BY <1>3, <2>1, Rounding DEF BodyBytes, WIDTH_SSE
  <2> QED  BY <1>3, <2>2, LoopsTile DEF TailBytes
<1>4. CASE ~Short /\ build # "avx"
  <2>1. HeadBytes = FullHead /\ size - FullHead \in Nat /\ size - FullHead < USIZE
    <3>1. HeadBytes = FullHead
      BY <1>4, HeadFits
    <3> QED  BY <1>1, <3>1, MemAssumption
  <2>2. BodyBytes = RoundedDown(size - FullHead, SimdWidth)
    BY <1>4, <2>1, NoWrap DEF BodyBytes
  <2>3. BodyBytes \in Nat /\ BodyBytes <= size - FullHead
        /\ size - FullHead - BodyBytes < SimdWidth
    BY <2>1, <2>2, Widths, Rounding
  <2>4. TailBytes = size - FullHead - BodyBytes
    <3>1. size - FullHead - BodyBytes \in Nat /\ size - FullHead - BodyBytes < USIZE
      BY <2>1, <2>3, MemAssumption
    <3> QED  BY <1>4, <3>1, NoWrap DEF TailBytes
  <2> QED  BY <2>3, <2>4, Widths
<1> QED  BY <1>2, <1>3, <1>4

-----------------------------------------------------------------------------
\* Each loop starts where the one before it ended, and the last one ends at size.
LEMMA LoopsFollow ==
  ASSUME Call, NEW k \in 1 .. 4
  PROVE  /\ Loops[k].unit \in {1, 16, 32}
         /\ Loops[k].start \in Nat /\ Loops[k].bytes \in Nat
         /\ Loops[k].bytes % Loops[k].unit = 0
         /\ Loops[k].start + Loops[k].bytes <= size
         /\ Loops[1].start = 0
         /\ k < 4 => Loops[k].start + Loops[k].bytes = Loops[k + 1].start
         /\ k = 4 => Loops[k].start + Loops[k].bytes = size
         /\ Len(Loops) = 4
<1> DEFINE h == HeadBytes
           a == AvxChunk
           b == BodyBytes
           t == TailBytes
<1>1. /\ h \in Nat /\ a \in Nat /\ b \in Nat /\ t \in Nat /\ h + a + b + t = size
      /\ HeadUnit \in {1, 16} /\ BodyUnit \in {1, 16}
      /\ h % HeadUnit = 0 /\ a % 32 = 0 /\ b % BodyUnit = 0 /\ t % 1 = 0
  BY LoopsTile DEF WIDTH_AVX
<1>2. /\ Len(Loops) = 4
      /\ Loops[1] = [unit |-> HeadUnit, start |-> 0, bytes |-> h]
      /\ Loops[2] = [unit |-> 32, start |-> h, bytes |-> a]
      /\ Loops[3] = [unit |-> BodyUnit, start |-> h + a, bytes |-> b]
      /\ Loops[4] = [unit |-> 1, start |-> h + a + b, bytes |-> t]
  BY DEF Loops, WIDTH_AVX
<1> HIDE DEF h, a, b, t
<1>3. CASE k = 1
  BY <1>1, <1>2, <1>3
<1>4. CASE k = 2
  <2>1. Loops[k].unit = 32 /\ Loops[k].start = h /\ Loops[k].bytes = a /\ Loops[k + 1].start = h + a
    BY <1>2, <1>4
  <2> QED  BY <1>1, <1>2, <1>4, <2>1
<1>5. CASE k = 3
  <2>1. Loops[k].unit = BodyUnit /\ Loops[k].start = h + a /\ Loops[k].bytes = b
        /\ Loops[k + 1].start = h + a + b
    BY <1>2, <1>5
  <2> QED  BY <1>1, <1>2, <1>5, <2>1
<1>6. CASE k = 4
  BY <1>1, <1>2, <1>6
<1> QED  BY <1>3, <1>4, <1>5, <1>6

\* Only the body of a memset without SIMD can count one by one beyond an int.
LEMMA OnlyLongBody ==
  ASSUME Call, NEW k \in 1 .. 4, op = "memset", Loops[k].unit = 1, Loops[k].bytes > INT_MAX
  PROVE  /\ k = 3 /\ LongIndex
         /\ Loops[3].start = HeadBytes /\ Loops[4].start = HeadBytes + BodyBytes
<1>1. /\ Loops[1].bytes = HeadBytes /\ Loops[4].bytes = TailBytes
      /\ Loops[2].unit = 32 /\ Loops[3] = [unit |-> BodyUnit, start |-> HeadBytes + AvxChunk,
                                          bytes |-> BodyBytes]
      /\ Loops[4].start = HeadBytes + AvxChunk + BodyBytes
  BY DEF Loops, WIDTH_AVX
<1>2. INT_MAX \in Nat /\ INT_MAX >= 32
  BY MemAssumption DEF WIDTH_AVX
<1>3. HeadBytes \in Nat /\ HeadBytes < 32
  BY HeadFits, Widths DEF HeadBytes, Short, ALIGNMENT, Call
<1>4. TailBytes \in Nat /\ TailBytes < 32
  BY LoopsTile, TailShort
<1>5. k = 3
  BY <1>1, <1>2, <1>3, <1>4
<1>6. build = "none" /\ BodyBytes > INT_MAX
  BY <1>1, <1>5 DEF BodyUnit, WIDTH_SSE
<1>7. AvxChunk = 0 /\ HeadBytes + 0 = HeadBytes
  BY <1>3, <1>6 DEF AvxChunk
<1> QED  BY <1>1, <1>5, <1>6, <1>7 DEF LongIndex

\* Where a long body and the tail behind it begin.
LEMMA LongBody ==
  ASSUME Call, LongIndex
  PROVE  /\ Loops[3].start = HeadBytes /\ Loops[4].start = HeadBytes + BodyBytes
         /\ Loops[3].unit = 1 /\ Loops[4].unit = 1
         /\ HeadBytes \in Nat /\ BodyBytes \in Nat /\ INT_MAX \in Nat /\ BodyBytes > INT_MAX
<1>1. AvxChunk = 0 /\ BodyUnit = 1
  BY DEF LongIndex, AvxChunk, BodyUnit
<1>2. HeadBytes \in Nat /\ BodyBytes \in Nat /\ INT_MAX \in Nat /\ BodyBytes > INT_MAX
  BY LoopsTile, MemAssumption DEF LongIndex
<1>3. HeadBytes + 0 = HeadBytes
  BY <1>2
<1> QED  BY <1>1, <1>2, <1>3 DEF Loops

\* A loop that has no whole unit left has done all its bytes.
LEMMA LoopDone ==
  ASSUME NEW u \in {1, 16, 32}, NEW n \in Nat, NEW b \in Nat,
         n <= b, n % u = 0, b % u = 0, ~(n + u <= b)
  PROVE  n = b
<1>1. CASE u = 1
  BY <1>1
<1>2. CASE u = 16
  BY <1>2
<1>3. CASE u = 32
  BY <1>3
<1> QED  BY <1>1, <1>2, <1>3

\* One unit further is again a multiple of the unit.
LEMMA UnitFurther ==
  ASSUME NEW u \in {1, 16, 32}, NEW n \in Nat, n % u = 0
  PROVE  (n + u) % u = 0
<1>1. CASE u = 1
  BY <1>1
<1>2. CASE u = 16
  BY <1>2
<1>3. CASE u = 32
  BY <1>3
<1> QED  BY <1>1, <1>2, <1>3

\* No byte is written before the call begins.
LEMMA MemInvInit == Init => MemInv
<1> SUFFICES ASSUME Init PROVE MemInv
  OBVIOUS
<1>1. Call /\ loop = 1 /\ i = 0 /\ pc = "called" /\ written = {}
  BY MemAssumption DEF Init, Call
<1>2. Unit \in {1, 16, 32} /\ Loops[loop].bytes \in Nat /\ Place = 0
  BY <1>1, LoopsFollow DEF Unit, Place
<1>3. i % Unit = 0
  BY <1>1, <1>2
<1>4. InOrder
  BY <1>1, <1>2, <1>3 DEF InOrder, AtUnit
<1> QED  BY <1>1, <1>4 DEF MemInv

\* The call, and so the plan of its loops, does not change.
LEMMA LoopsKept ==
  ASSUME UNCHANGED call
  PROVE  /\ Loops' = Loops /\ (Call <=> Call') /\ size' = size
         /\ (LongIndex <=> LongIndex') /\ Unreached' = Unreached /\ HeadBytes' = HeadBytes
BY DEF call, Loops, Call, HeadUnit, HeadBytes, AvxChunk, BodyBytes, BodyUnit, TailBytes, Short,
  FullHead, Misalignment, SimdWidth, LongIndex, Unreached

\* The loop that runs, and how its condition reads in each mode.
LEMMA InLoop ==
  ASSUME MemInv
  PROVE  /\ Unit \in {1, 16, 32} /\ Loops[loop].start \in Nat /\ Loops[loop].bytes \in Nat
         /\ Loops[loop].bytes % Unit = 0 /\ Len(Loops) = 4
         /\ size \in Nat /\ Loops[loop].start + Loops[loop].bytes <= size
         /\ loop < 4 => Loops[loop].start + Loops[loop].bytes = Loops[loop + 1].start
         /\ loop = 4 => Loops[loop].start + Loops[loop].bytes = size
         /\ AtUnit => (HasUnit <=> i + Unit <= Loops[loop].bytes)
         /\ Overflown => ~HasUnit
<1>1. Call /\ loop \in 1 .. 4
  BY DEF MemInv
<1>2. /\ Unit \in {1, 16, 32} /\ Loops[loop].start \in Nat /\ Loops[loop].bytes \in Nat
      /\ Loops[loop].bytes % Unit = 0 /\ Len(Loops) = 4
      /\ loop < 4 => Loops[loop].start + Loops[loop].bytes = Loops[loop + 1].start
      /\ loop = 4 => Loops[loop].start + Loops[loop].bytes = size
      /\ Loops[loop].start + Loops[loop].bytes <= size
  BY <1>1, LoopsFollow DEF Unit
<1>3. /\ size \in Nat /\ INT_MAX \in Nat /\ USIZE \in Nat /\ size < USIZE
      /\ INT_MAX + 1 < USIZE /\ size < USIZE - INT_MAX - 1
  BY <1>1, MemAssumption DEF Call
<1>4. Loops[loop].bytes <= size
  BY <1>2, <1>3
<1>5. AtUnit => (HasUnit <=> i + Unit <= Loops[loop].bytes)
  <2> SUFFICES ASSUME AtUnit PROVE Usize(i) = i
    BY DEF HasUnit
  <2>1. i \in Nat /\ i < USIZE
    BY <1>2, <1>3, <1>4 DEF AtUnit
  <2> QED  BY <2>1, NoWrap
<1>6. Overflown => ~HasUnit
  <2> SUFFICES ASSUME i = INT_MIN PROVE ~HasUnit
    BY DEF Overflown
  <2>1. Usize(i) = USIZE - (INT_MAX + 1)
    <3>1. ASSUME NEW x \in Nat, NEW m \in Nat, 0 < x, x < m
          PROVE  (-x) % m = m - x
      BY <3>1
    <3>2. i = -(INT_MAX + 1) /\ INT_MAX + 1 \in Nat /\ 0 < INT_MAX + 1
      BY <1>3 DEF INT_MIN
    <3> QED  BY <1>3, <3>1, <3>2 DEF Usize
  <2>2. Usize(i) > Loops[loop].bytes /\ Usize(i) \in Nat
    BY <1>2, <1>3, <1>4, <2>1
  <2> QED  BY <1>2, <2>2 DEF HasUnit
<1> QED  BY <1>2, <1>3, <1>5, <1>6

\* One iteration: either the next unit, or the overflow of the index.
LEMMA MoveKeeps ==
  ASSUME MemInv, Move
  PROVE  MemInv'
<1>1. /\ Call /\ loop \in 1 .. 4 /\ (InOrder \/ WithGap)
      /\ AtUnit /\ i + Unit <= Loops[loop].bytes
  BY InLoop DEF MemInv, Move, InOrder, WithGap
<1>2. /\ Loops' = Loops /\ Call' /\ loop' = loop /\ pc' = "copying" /\ i' \in NextIndices
      /\ written' = written \cup (Place .. (Place + Unit - 1))
      /\ (LongIndex => LongIndex') /\ Unreached' = Unreached /\ HeadBytes' = HeadBytes
  BY <1>1, LoopsKept DEF Move
<1>3. /\ Unit \in {1, 16, 32} /\ Unit' = Unit
      /\ Loops[loop].start \in Nat /\ Loops[loop].bytes \in Nat /\ i \in Nat /\ i % Unit = 0
  BY <1>1, <1>2, InLoop DEF Unit, AtUnit
<1>4. Place \in Nat /\ Place = Loops[loop].start + i
  <2>1. ASSUME NEW s \in Nat, NEW n \in Nat PROVE s + n \in Nat
    BY <2>1
  <2> QED  BY <1>3, <2>1 DEF Place
<1>5. CASE i' = i + Unit
  <2>1. Place' = Place + Unit
    <3>1. Place' = Loops[loop].start + (i + Unit)
      BY <1>2, <1>5 DEF Place
    <3>2. ASSUME NEW s \in Nat, NEW n \in Nat, NEW u \in {1, 16, 32}
          PROVE  s + (n + u) = (s + n) + u
      BY <3>2
    <3> QED  BY <1>3, <1>4, <3>1, <3>2
  <2>2. 0 .. (Place' - 1) = 0 .. (Place + Unit - 1)
    <3>1. Place' \in Nat /\ Place' - 1 = Place + Unit - 1
      BY <1>3, <1>4, <2>1
    <3> QED  BY <3>1
  <2>3. AtUnit'
    <3>1. i' \in Nat /\ i' % Unit = 0
      BY <1>3, <1>5, UnitFurther
    <3> QED  BY <1>1, <1>2, <1>3, <1>5, <3>1 DEF AtUnit
  <2>4. CASE InOrder
    <3>1. written' = 0 .. (Place' - 1)
      <4>1. written = 0 .. (Place - 1) /\ written' = written \cup (Place .. (Place + Unit - 1))
        BY <1>2, <2>4 DEF InOrder
      <4>2. (0 .. (Place - 1)) \cup (Place .. (Place + Unit - 1)) = 0 .. (Place + Unit - 1)
        BY <1>3, <1>4
      <4> QED  BY <2>2, <4>1, <4>2
    <3> QED  BY <1>1, <1>2, <2>3, <3>1 DEF MemInv, InOrder
  <2>5. CASE WithGap
    <3>1. /\ LongIndex /\ loop = 4 /\ written = (0 .. (Place - 1)) \ Unreached
          /\ Loops[4].start = HeadBytes + BodyBytes /\ HeadBytes \in Nat /\ BodyBytes \in Nat
          /\ INT_MAX \in Nat
      <4>1. LongIndex /\ loop = 4 /\ written = (0 .. (Place - 1)) \ Unreached
        BY <2>5 DEF WithGap
      <4> QED  BY <1>1, <4>1, LongBody
    <3>2. Place >= HeadBytes + BodyBytes
      BY <1>3, <1>4, <3>1
    <3>3. \A x \in Place .. (Place + Unit - 1) : x \notin Unreached
      BY <1>3, <1>4, <3>1, <3>2 DEF Unreached
    <3>4. 0 .. (Place + Unit - 1) = (0 .. (Place - 1)) \cup (Place .. (Place + Unit - 1))
      BY <1>3, <1>4
    <3>5. written' = (0 .. (Place' - 1)) \ Unreached'
      <4>1. written' = written \cup (Place .. (Place + Unit - 1)) /\ Unreached' = Unreached
        BY <1>2
      <4>2. written' = (0 .. (Place + Unit - 1)) \ Unreached
        <5> DEFINE A == 0 .. (Place - 1)
                   B == Place .. (Place + Unit - 1)
                   C == 0 .. (Place + Unit - 1)
        <5>1. written = A \ Unreached /\ written' = written \cup B /\ C = A \cup B
              /\ \A x \in B : x \notin Unreached
          BY <3>1, <3>3, <3>4, <4>1
        <5> HIDE DEF A, B, C
        <5>2. written' = C \ Unreached
          BY <5>1
        <5> QED  BY <5>2 DEF C
      <4> QED  BY <2>2, <4>1, <4>2
    <3> QED  BY <1>1, <1>2, <2>3, <3>1, <3>5 DEF MemInv, WithGap
  <2> QED  BY <1>1, <2>4, <2>5
<1>6. CASE i' # i + Unit
  <2>1. op = "memset" /\ Unit = 1 /\ i = INT_MAX /\ i' = INT_MIN
    BY <1>2, <1>6 DEF NextIndices
  <2>2. Loops[loop].unit = 1 /\ Loops[loop].bytes > INT_MAX
    BY <1>1, <1>3, <2>1 DEF Unit
  <2>3. loop = 3 /\ LongIndex /\ Loops[3].start = HeadBytes
    <3>1. ASSUME NEW k \in 1 .. 4, Loops[k].unit = 1, Loops[k].bytes > INT_MAX
          PROVE  k = 3 /\ LongIndex /\ Loops[3].start = HeadBytes
      BY <1>1, <2>1, <3>1, OnlyLongBody
    <3> QED  BY <1>1, <2>2, <3>1
  <2>4. InOrder
    BY <1>1, <2>3 DEF WithGap
  <2>5. Place = HeadBytes + INT_MAX
    BY <1>4, <2>1, <2>3
  <2>6. written' = 0 .. (HeadBytes + INT_MAX)
    BY <1>2, <1>4, <2>1, <2>4, <2>5 DEF InOrder
  <2> QED  BY <1>2, <2>1, <2>3, <2>6 DEF MemInv, Overflown, INT_MIN
<1> QED  BY <1>5, <1>6

\* A loop that is done has done its share, and the next one begins behind it.
LEMMA NextLoopKeeps ==
  ASSUME MemInv, NextLoop
  PROVE  MemInv'
<1>1. Call /\ loop \in 1 .. 4 /\ (InOrder \/ Overflown \/ WithGap) /\ ~HasUnit /\ loop < 4
  BY InLoop DEF MemInv, NextLoop
<1>2. /\ Loops' = Loops /\ Call' /\ loop' = loop + 1 /\ i' = 0 /\ loop' \in 1 .. 4
      /\ written' = written /\ pc' = "copying"
      /\ (LongIndex => LongIndex') /\ Unreached' = Unreached
  BY <1>1, LoopsKept DEF NextLoop
<1>3. Place' = Loops[loop + 1].start /\ Loops[loop + 1].start \in Nat
  <2>1. Loops[loop + 1].start \in Nat
    BY <1>1, <1>2, LoopsFollow
  <2> QED  BY <1>2, <2>1 DEF Place
<1>4. AtUnit'
  <2>1. Unit' \in {1, 16, 32} /\ Loops'[loop'].bytes \in Nat
    BY <1>1, <1>2, LoopsFollow DEF Unit
  <2>2. ASSUME NEW u \in {1, 16, 32}, NEW b \in Nat PROVE 0 <= b /\ 0 % u = 0
    BY <2>2
  <2> QED  BY <1>2, <2>1, <2>2 DEF AtUnit
<1>5. CASE InOrder
  <2>1. i = Loops[loop].bytes
    BY <1>1, <1>5, InLoop, LoopDone DEF InOrder, AtUnit
  <2>2. Place = Loops[loop + 1].start
    BY <1>1, <2>1, InLoop DEF Place
  <2>3. written' = 0 .. (Place' - 1)
    BY <1>2, <1>3, <1>5, <2>2 DEF InOrder
  <2> QED  BY <1>2, <1>4, <2>3 DEF MemInv, InOrder
<1>6. CASE Overflown
  <2>1. /\ LongIndex /\ loop = 3 /\ written = 0 .. (HeadBytes + INT_MAX)
        /\ Loops[4].start = HeadBytes + BodyBytes /\ HeadBytes \in Nat /\ BodyBytes \in Nat
        /\ INT_MAX \in Nat /\ BodyBytes > INT_MAX
    BY <1>1, <1>6, LongBody DEF Overflown
  <2>2. Place' = HeadBytes + BodyBytes
    BY <1>3, <2>1
  <2>3. written' = (0 .. (Place' - 1)) \ Unreached'
    <3>1. ASSUME NEW h \in Nat, NEW b \in Nat, NEW m \in Nat, b > m
          PROVE  0 .. (h + m) = (0 .. (h + b - 1)) \ ((h + m + 1) .. (h + b - 1))
      BY <3>1
    <3>2. 0 .. (HeadBytes + INT_MAX) = (0 .. (HeadBytes + BodyBytes - 1)) \ Unreached
      BY <2>1, <3>1 DEF Unreached
    <3> QED  BY <1>2, <2>1, <2>2, <3>2
  <2> QED  BY <1>2, <1>4, <2>1, <2>3 DEF MemInv, WithGap
<1>7. CASE WithGap
  BY <1>1, <1>7 DEF WithGap
<1> QED  BY <1>1, <1>5, <1>6, <1>7

\* MemInv is inductive.
LEMMA MemInvStep ==
  ASSUME MemInv, [Next]_vars
  PROVE  MemInv'
<1>1. Call /\ loop \in 1 .. 4 /\ (InOrder \/ Overflown \/ WithGap)
  BY DEF MemInv
<1>2. ASSUME UNCHANGED <<call, loop, i, written>>
      PROVE  /\ Call' /\ loop' \in 1 .. 4 /\ Loops' = Loops
             /\ (InOrder \/ Overflown \/ WithGap)'
  <2>1. /\ Loops' = Loops /\ Call' /\ (LongIndex <=> LongIndex') /\ Unreached' = Unreached
        /\ HeadBytes' = HeadBytes
    BY <1>1, <1>2, LoopsKept
  <2>2. Place' = Place /\ (AtUnit <=> AtUnit')
    BY <1>2, <2>1 DEF Place, AtUnit, Unit
  <2>3. (InOrder => InOrder') /\ (Overflown => Overflown') /\ (WithGap => WithGap')
    BY <1>2, <2>1, <2>2 DEF InOrder, Overflown, WithGap, INT_MIN
  <2> QED  BY <1>1, <1>2, <2>1, <2>3
<1>3. ASSUME UNCHANGED <<call, loop, i, written>>, pc' \in {"copying", "rejected", "fault"}
      PROVE  MemInv'
  BY <1>2, <1>3 DEF MemInv
<1>4. CASE Reject
  BY <1>3, <1>4 DEF Reject
<1>5. CASE Begin
  BY <1>3, <1>5 DEF Begin
<1>6. CASE Fault
  BY <1>3, <1>6 DEF Fault
<1>7. CASE Move
  BY <1>7, MoveKeeps
<1>8. CASE NextLoop
  BY <1>8, NextLoopKeeps
<1>9. CASE Return
  <2>1. UNCHANGED <<call, loop, i, written>> /\ pc' = "returned" /\ ~HasUnit /\ loop = 4
    BY <1>9, InLoop DEF Return
  <2>2. AtUnit
    BY <1>1, <2>1 DEF InOrder, Overflown, WithGap
  <2>3. i = Loops[4].bytes
    BY <2>1, <2>2, InLoop, LoopDone DEF AtUnit
  <2> QED  BY <1>2, <2>1, <2>3 DEF MemInv
<1>10. CASE Over \/ UNCHANGED vars
  <2>1. UNCHANGED <<call, pc, loop, i, written>>
    BY <1>10 DEF Over, vars
  <2> QED  BY <1>2, <2>1 DEF MemInv
<1> QED
  BY <1>4, <1>5, <1>6, <1>7, <1>8, <1>9, <1>10 DEF Next

\* The inductive invariant, in every behaviour.
LEMMA MemInvAlways == Spec => []MemInv
BY MemInvInit, MemInvStep, PTL DEF Spec

-----------------------------------------------------------------------------
\* A call writes its block from the first byte on, without gap or overlap, unless it is
\* a memset whose index may overflow.
THEOREM WrittenInOrderHolds == Spec => []WrittenInOrder
<1>1. MemInv => WrittenInOrder
  BY DEF MemInv, WrittenInOrder, InOrder, Overflown, WithGap
<1> QED  BY <1>1, MemInvAlways, PTL

\* The place of an index in the block is in the block or at its end.
LEMMA PlaceInBlock ==
  ASSUME MemInv, AtUnit
  PROVE  Place \in 0 .. size /\ size \in Nat
<1>1. /\ i \in Nat /\ i <= Loops[loop].bytes /\ size \in Nat
      /\ Loops[loop].start \in Nat /\ Loops[loop].bytes \in Nat
      /\ Loops[loop].start + Loops[loop].bytes <= size
  BY InLoop DEF AtUnit
<1>2. ASSUME NEW s \in Nat, NEW n \in Nat, NEW b \in Nat, n <= b, s + b <= size
      PROVE  s + n \in 0 .. size
  BY <1>1, <1>2
<1> QED  BY <1>1, <1>2 DEF Place

\* Whatever the addresses, no call writes outside its block: the loops together
\* never exceed the size, although the sizes are computed with wrapping differences
\* and the index of a memset may overflow.
THEOREM StaysInsideHolds == Spec => []StaysInside
<1>1. MemInv => StaysInside
  <2> SUFFICES ASSUME MemInv PROVE StaysInside
    OBVIOUS
  <2>1. InOrder \/ Overflown \/ WithGap
    BY DEF MemInv
  <2>2. CASE InOrder \/ WithGap
    <3>1. Place \in 0 .. size /\ size \in Nat /\ written \subseteq 0 .. (Place - 1)
      BY <2>2, PlaceInBlock DEF InOrder, WithGap
    <3> QED  BY <3>1 DEF StaysInside
  <2>3. CASE Overflown
    <3>1. /\ Call /\ LongIndex /\ loop = 3 /\ written = 0 .. (HeadBytes + INT_MAX)
      BY <2>3 DEF MemInv, Overflown
    <3>2. /\ Loops[4].start = HeadBytes + BodyBytes /\ HeadBytes \in Nat /\ BodyBytes \in Nat
          /\ INT_MAX \in Nat /\ BodyBytes > INT_MAX
      BY <3>1, LongBody
    <3>3. HeadBytes + BodyBytes <= size /\ size \in Nat
      BY <3>1, <3>2, InLoop
    <3> QED  BY <3>1, <3>2, <3>3 DEF StaysInside
  <2> QED  BY <2>1, <2>2, <2>3
<1> QED  BY <1>1, MemInvAlways, PTL

\* A call that returns has written the whole block, but for the bytes of a long memset
\* that an int does not reach, and of these it has written all or none.
THEOREM CopiesAllHolds == Spec => []CopiesAll
<1>1. MemInv => CopiesAll
  <2> SUFFICES ASSUME MemInv, pc = "returned" PROVE CopiesAll
    BY DEF CopiesAll
  <2>1. loop = 4 /\ i = Loops[4].bytes /\ (InOrder \/ WithGap)
    BY DEF MemInv, Overflown
  <2>2. Place = size
    BY <2>1, InLoop DEF Place
  <2> QED  BY <2>1, <2>2 DEF CopiesAll, InOrder, WithGap
<1> QED  BY <1>1, MemInvAlways, PTL

\* The types of the variables of syn_memcpy and syn_memset.
THEOREM MemTypes == Spec => []TypeOK
<1>1. Init => build \in Builds
  BY DEF Init
<1>2. build \in Builds /\ [Next]_vars => (build \in Builds)'
  BY DEF Next, Reject, Begin, Fault, Move, NextLoop, Return, Over, vars, call
<1>3. MemInv /\ StaysInside /\ build \in Builds => TypeOK
  <2> SUFFICES ASSUME MemInv, StaysInside, build \in Builds PROVE TypeOK
    OBVIOUS
  <2>1. Call /\ loop \in 1 .. 4 /\ pc \in {"called", "copying", "returned", "rejected", "fault"}
    BY DEF MemInv
  <2>2. size \in Nat /\ written \subseteq Nat
    <3>1. size \in Nat
      BY InLoop
    <3> QED  BY <3>1 DEF StaysInside
  <2>3. i \in Nat \cup {INT_MIN}
    BY DEF MemInv, InOrder, Overflown, WithGap, AtUnit
  <2> QED  BY <2>1, <2>2, <2>3 DEF TypeOK, Call
<1> QED  BY <1>1, <1>2, <1>3, MemInvAlways, StaysInsideHolds, PTL DEF Spec

-----------------------------------------------------------------------------
\* The call skews its vectors, as FaultNeedsSkew has it.
Skewed ==
  \/ (dest - src) % SimdWidth # 0
  \/ build = "avx" /\ size = WIDTH_SSE /\ dest % WIDTH_SSE # 0

\* Whole vectors beyond an aligned place, both blocks alike.
LEMMA StaysAligned ==
  ASSUME NEW w \in {16, 32}, NEW u \in {16, 32}, u <= w,
         NEW d \in Nat, NEW s \in Nat, NEW h \in Nat, NEW n \in Nat,
         (d - s) % w = 0, (d + h) % w = 0, n % u = 0
  PROVE  (d + (h + n)) % u = 0 /\ (s + (h + n)) % u = 0
<1>1. CASE w = 16 /\ u = 16
  BY <1>1
<1>2. CASE w = 32 /\ u = 16
  BY <1>2
<1>3. CASE w = 32 /\ u = 32
  BY <1>3
<1> QED  BY <1>1, <1>2, <1>3

\* A misaligned access in a loop between head and tail: the head has brought dest
\* to a boundary, so src must lie differently.
LEMMA BodySkewed ==
  ASSUME Call, NEW h \in Nat, NEW n \in Nat, NEW u \in {16, 32}, u <= SimdWidth,
         SimdWidth \in {16, 32}, (dest + h) % SimdWidth = 0, n % u = 0,
         (src + (h + n)) % u # 0 \/ (dest + (h + n)) % u # 0
  PROVE  Skewed
<1> SUFFICES ASSUME (dest - src) % SimdWidth = 0 PROVE FALSE
  BY DEF Skewed
<1>1. dest \in Nat /\ src \in Nat
  BY DEF Call
<1> QED  BY <1>1, StaysAligned

\* The one loop in front of the body that may use vectors.
LEMMA HeadSkewed ==
  ASSUME Call, ~Short, HeadBytes = WIDTH_SSE, build # "none", BitClear(dest, WIDTH_SSE)
  PROVE  Skewed
<1>1. FullHead \in Nat /\ FullHead < SimdWidth /\ dest \in Nat
      /\ (~Short /\ build # "avx" => HeadBytes = FullHead)
  BY HeadFits DEF Call
<1>2. build = "avx" /\ SimdWidth = 32
  BY <1>1, Widths DEF Call, WIDTH_SSE, SimdWidth, WIDTH_AVX
<1>3. FullHead # 16
  <2>1. FullHead = 16 => dest % 32 = 16
    BY <1>1, <1>2 DEF FullHead, Misalignment
  <2>2. ~(dest % 32 = 16)
    BY <1>1 DEF BitClear, WIDTH_SSE
  <2> QED  BY <2>1, <2>2
<1>4. FullHead > size /\ size = 16
  BY <1>3 DEF HeadBytes, WIDTH_SSE
<1>5. dest % 16 # 0
  <2>1. dest % 32 # 0 /\ dest % 32 < 16
    BY <1>1, <1>2, <1>4 DEF FullHead, Misalignment
  <2> QED  BY <1>1, <2>1
<1> QED  BY <1>2, <1>4, <1>5 DEF Skewed, WIDTH_SSE

\* Where the loops between head and tail begin if they have anything to do.
LEMMA BodyStarts ==
  ASSUME Call, build # "none", NEW k \in {2, 3}, Loops[k].bytes # 0
  PROVE  /\ HeadBytes = FullHead /\ (dest + Loops[k].start) % SimdWidth = 0
         /\ Loops[k].start \in Nat /\ Loops[k].unit \in {16, 32} /\ Loops[k].unit <= SimdWidth
         /\ SimdWidth \in {16, 32}
<1>1. /\ HeadBytes \in Nat /\ AvxChunk \in Nat /\ BodyBytes \in Nat /\ TailBytes \in Nat
      /\ AvxChunk % 32 = 0 /\ HeadBytes + AvxChunk + BodyBytes + TailBytes = size
  BY LoopsTile DEF WIDTH_AVX
<1>2. /\ Loops[2] = [unit |-> 32, start |-> HeadBytes, bytes |-> AvxChunk]
      /\ Loops[3] = [unit |-> 16, start |-> HeadBytes + AvxChunk, bytes |-> BodyBytes]
  BY DEF Loops, WIDTH_AVX, WIDTH_SSE, BodyUnit
<1>3. AvxChunk # 0 \/ BodyBytes # 0
  BY <1>2
<1>4. SimdWidth \in {16, 32} /\ (build = "avx" <=> SimdWidth = 32) /\ dest \in Nat
      /\ FullHead \in Nat /\ (dest + FullHead) % SimdWidth = 0
  BY Widths, HeadFits DEF Call
<1>5. HeadBytes # size
  BY <1>1, <1>3
<1>6. HeadBytes = FullHead
  BY <1>5 DEF HeadBytes
<1>7. build # "avx" => AvxChunk = 0
  BY DEF AvxChunk
<1>8. (dest + (FullHead + AvxChunk)) % SimdWidth = 0
  <2>1. CASE SimdWidth = 16
    <3>1. AvxChunk = 0
      BY <1>4, <1>7, <2>1
    <3> QED  BY <1>4, <3>1
  <2>2. CASE SimdWidth = 32
    BY <1>1, <1>4, <2>2
  <2> QED  BY <1>4, <2>1, <2>2
<1>9. CASE k = 2
  <2>1. AvxChunk # 0 /\ Loops[k].start = FullHead /\ Loops[k].unit = 32 /\ SimdWidth = 32
    BY <1>2, <1>4, <1>6, <1>7, <1>9
  <2> QED  BY <1>4, <1>6, <2>1
<1>10. CASE k = 3
  <2>1. Loops[k].start = FullHead + AvxChunk /\ Loops[k].unit = 16 /\ FullHead + AvxChunk \in Nat
    BY <1>1, <1>2, <1>4, <1>6, <1>10
  <2> QED  BY <1>4, <1>6, <1>8, <2>1
<1> QED  BY <1>9, <1>10

\* The access that faults is a vector of the head or of a loop behind it.
LEMMA FaultSkewed ==
  ASSUME MemInv, Fault
  PROVE  Skewed
<1>1. /\ Call /\ loop \in 1 .. 4 /\ i \in Nat /\ i % Unit = 0
      /\ i + Unit <= Loops[loop].bytes /\ Unit # 1 /\ op = "memcpy"
      /\ BitClear(dest + Loops[loop].start, Unit)
      /\ (src + Place) % Unit # 0 \/ (dest + Place) % Unit # 0
  <2>1. HasUnit /\ AtUnit
    BY InLoop DEF MemInv, Fault, InOrder, WithGap
  <2> QED  BY <2>1, InLoop DEF MemInv, Fault, UsesAligned, Misaligned, AtUnit
<1>2. /\ Loops[1] = [unit |-> HeadUnit, start |-> 0, bytes |-> HeadBytes]
      /\ Loops[2] = [unit |-> 32, start |-> HeadBytes, bytes |-> AvxChunk]
      /\ Loops[3] = [unit |-> BodyUnit, start |-> HeadBytes + AvxChunk, bytes |-> BodyBytes]
      /\ Loops[4].unit = 1
  BY DEF Loops, WIDTH_AVX
<1>3. Unit \in {16, 32} /\ Loops[loop].bytes \in Nat
  BY <1>1, LoopsFollow DEF Unit
<1>4. Loops[loop].bytes # 0
  BY <1>1, <1>3
<1>5. CASE loop = 1
  <2>1. HeadUnit # 1 /\ Unit = HeadUnit /\ Loops[loop].start = 0
    BY <1>1, <1>2, <1>5 DEF Unit
  <2>2. ~Short /\ HeadBytes = WIDTH_SSE /\ build # "none" /\ Unit = WIDTH_SSE
    BY <2>1 DEF HeadUnit
  <2>3. BitClear(dest, WIDTH_SSE)
    <3>1. dest + 0 = dest
      BY <1>1 DEF Call
    <3> QED  BY <1>1, <2>1, <2>2, <3>1
  <2> QED  BY <1>1, <2>2, <2>3, HeadSkewed
<1>6. CASE loop \in {2, 3}
  <2>1. build # "none"
    BY <1>1, <1>2, <1>4, <1>6 DEF Unit, BodyUnit, AvxChunk
  <2>2. /\ (dest + Loops[loop].start) % SimdWidth = 0 /\ Loops[loop].start \in Nat
        /\ Unit <= SimdWidth /\ SimdWidth \in {16, 32}
    BY <1>1, <1>4, <1>6, <2>1, BodyStarts DEF Unit
  <2>3. Place = Loops[loop].start + i
    BY DEF Place
  <2> QED  BY <1>1, <1>3, <2>2, <2>3, BodySkewed
<1>7. CASE loop = 4
  BY <1>1, <1>2, <1>7 DEF Unit
<1> QED  BY <1>1, <1>5, <1>6, <1>7

\* An aligned access of syn_memcpy misses its alignment only if the blocks lie
\* differently within a vector, or in a 16-byte copy of an AVX build: for all
\* addresses and sizes, not only the ones TLC tried.
THEOREM FaultNeedsSkewHolds == Spec => []FaultNeedsSkew
<1>1. Init => FaultNeedsSkew
  BY DEF Init, FaultNeedsSkew
<1>2. MemInv /\ FaultNeedsSkew /\ [Next]_vars => FaultNeedsSkew'
  <2> SUFFICES ASSUME MemInv, FaultNeedsSkew, [Next]_vars PROVE FaultNeedsSkew'
    OBVIOUS
  <2>1. UNCHANGED call
    BY DEF Next, Reject, Begin, Fault, Move, NextLoop, Return, Over, vars
  <2>2. (Skewed => Skewed') /\ (FaultNeedsSkew <=> (pc = "fault" => Skewed))
    BY <2>1 DEF Skewed, call, SimdWidth, FaultNeedsSkew
  <2>3. FaultNeedsSkew' <=> (pc' = "fault" => Skewed')
    BY DEF Skewed, FaultNeedsSkew
  <2>4. CASE Fault
    BY <2>2, <2>3, <2>4, FaultSkewed
  <2>5. CASE ~Fault
    <3>1. pc' = "fault" => pc = "fault"
      BY <2>5 DEF Next, Reject, Begin, Move, NextLoop, Return, Over, vars
    <3> QED  BY <2>2, <2>3, <3>1
  <2> QED  BY <2>4, <2>5
<1> QED  BY <1>1, <1>2, MemInvAlways, PTL DEF Spec
=============================================================================
