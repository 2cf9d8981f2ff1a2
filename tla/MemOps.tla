------------------------------- MODULE MemOps -------------------------------
(***************************************************************************)
(* syn_memcpy and syn_memset of syn_memops.c: one call, as the loops over  *)
(* scalar, SSE and AVX units it is made of.  What is copied is left out;   *)
(* where it goes is not: source and destination move by the same offset,   *)
(* so a byte is known by its offset.                                       *)
(***************************************************************************)
EXTENDS Integers, Sequences

ALIGNMENT == 16
WIDTH_STD == 8
WIDTH_SSE == 16
WIDTH_AVX == 32

CONSTANTS
  Builds,     \* the values of simd_capability: "none", "sse", "avx" (with SSE)
  Addresses,  \* where blocks may start; 0 is the null pointer
  Sizes,      \* sizes that callers ask for
  USIZE,      \* number of values of a usize
  INT_MAX     \* largest value of an int

\* A block leaves at least as much of the address space as an int has values above 0.
ASSUME MemAssumption ==
  /\ Builds \subseteq {"none", "sse", "avx"}
  /\ Addresses \subseteq Nat /\ USIZE \in Nat /\ INT_MAX \in Nat /\ INT_MAX >= WIDTH_AVX
  /\ Sizes \subseteq 0 .. (USIZE - INT_MAX - 2)

VARIABLES
  build, op, dest, src, size,  \* how the library was compiled, and the call
  pc,                          \* "called", "copying", "returned", "rejected", "fault"
  loop, i,                     \* the loop that runs, and its index
  written                      \* the offsets written so far

call == <<build, op, dest, src, size>>
vars == <<call, pc, loop, i, written>>

-----------------------------------------------------------------------------
SimdWidth ==
  CASE build = "avx" -> WIDTH_AVX
    [] build = "sse" -> WIDTH_SSE
    [] OTHER         -> WIDTH_STD

Usize(x) == x % USIZE
RoundedDown(x, width) == (x \div width) * width

\* Faulty Short: only sizes below the standard width count as short.
ShortOfWidth == size < WIDTH_STD

\* Too short for a head and a tail: one scalar loop does it all.
Short == size < ALIGNMENT

Misalignment == dest % SimdWidth

\* Faulty FullHead: as many bytes as the address is past a boundary.
FullHeadBehind == Misalignment

FullHead == IF Misalignment = 0 THEN 0 ELSE SimdWidth - Misalignment

\* Faulty HeadBytes: an AVX head may be longer than the call.
HeadUnclamped == IF Short THEN size ELSE FullHead

HeadBytes == IF Short \/ FullHead > size THEN size ELSE FullHead

\* Only syn_memcpy has an SSE head.
HeadUnit ==
  IF ~Short /\ op = "memcpy" /\ HeadBytes = WIDTH_SSE /\ build # "none" THEN WIDTH_SSE ELSE 1

\* The loops between head and tail; the AVX build has two.
AvxChunk == IF build = "avx" THEN RoundedDown(size - HeadBytes, WIDTH_AVX) ELSE 0

\* Elsewhere the body is computed before the head is cut down to the size.
BodyBytes ==
  IF Short THEN 0
  ELSE IF build = "avx" THEN RoundedDown(size - HeadBytes - AvxChunk, WIDTH_SSE)
  ELSE RoundedDown(Usize(size - FullHead), SimdWidth)

BodyUnit == IF build = "none" THEN 1 ELSE WIDTH_SSE

\* Faulty TailBytes: the head is forgotten.
TailOfSize == IF Short THEN 0 ELSE size % WIDTH_SSE

TailBytes ==
  IF Short THEN 0
  ELSE IF build = "avx" THEN size - HeadBytes - AvxChunk - BodyBytes
  ELSE Usize(size - FullHead - BodyBytes)

\* The calls of the copying helpers, in order; one for 0 bytes is not made.
Loops == <<
  [unit |-> HeadUnit,  start |-> 0,                                bytes |-> HeadBytes],
  [unit |-> WIDTH_AVX, start |-> HeadBytes,                        bytes |-> AvxChunk],
  [unit |-> BodyUnit,  start |-> HeadBytes + AvxChunk,             bytes |-> BodyBytes],
  [unit |-> 1,         start |-> HeadBytes + AvxChunk + BodyBytes, bytes |-> TailBytes] >>

-----------------------------------------------------------------------------
Rejected ==
  \/ size = 0 \/ dest = 0
  \/ op = "memcpy" /\ (src = 0 \/ dest = src)

Reject ==
  /\ pc = "called" /\ Rejected
  /\ pc' = "rejected"
  /\ UNCHANGED <<call, loop, i, written>>

Begin ==
  /\ pc = "called" /\ ~Rejected
  /\ pc' = "copying"
  /\ UNCHANGED <<call, loop, i, written>>

Unit  == Loops[loop].unit
Place == Loops[loop].start + i

\* The index is compared as a usize, also in syn_memset_scalarset, where it is an int.
HasUnit == Usize(i) + Unit <= Loops[loop].bytes

INT_MIN == -INT_MAX - 1

(***************************************************************************)
(* The index after one more unit.  An int that is incremented beyond       *)
(* INT_MAX is undefined: a build that keeps it in a wider register goes    *)
(* on, one that does not is at INT_MIN, which is no index of the block.    *)
(***************************************************************************)
NextIndices ==
  IF op = "memset" /\ Unit = 1 /\ i = INT_MAX THEN {i + 1, INT_MIN} ELSE {i + Unit}

(***************************************************************************)
(* The vector loops of syn_memcpy test one bit of each address and use     *)
(* aligned loads and stores if both are clear; those fault on an address   *)
(* that is not a multiple of the unit.  syn_memset never uses them.        *)
(***************************************************************************)
BitClear(address, width) == (address \div width) % 2 = 0

UsesAligned ==
  /\ op = "memcpy" /\ Unit # 1
  /\ BitClear(src + Loops[loop].start, Unit) /\ BitClear(dest + Loops[loop].start, Unit)

Misaligned == (src + Place) % Unit # 0 \/ (dest + Place) % Unit # 0

Fault ==
  /\ pc = "copying" /\ HasUnit /\ UsesAligned /\ Misaligned
  /\ pc' = "fault"
  /\ UNCHANGED <<call, loop, i, written>>

\* Faulty Move: the index stays.
MoveInPlace ==
  /\ pc = "copying" /\ HasUnit /\ ~(UsesAligned /\ Misaligned)
  /\ written' = written \cup (Place .. (Place + Unit - 1))
  /\ UNCHANGED <<call, pc, loop, i>>

Move ==
  /\ pc = "copying" /\ HasUnit /\ ~(UsesAligned /\ Misaligned)
  /\ written' = written \cup (Place .. (Place + Unit - 1))
  /\ i' \in NextIndices
  /\ UNCHANGED <<call, pc, loop>>

NextLoop ==
  /\ pc = "copying" /\ ~HasUnit /\ loop < Len(Loops)
  /\ loop' = loop + 1 /\ i' = 0
  /\ UNCHANGED <<call, pc, written>>

Return ==
  /\ pc = "copying" /\ ~HasUnit /\ loop = Len(Loops)
  /\ pc' = "returned"
  /\ UNCHANGED <<call, loop, i, written>>

Ended == pc \in {"returned", "rejected", "fault"}

Over == Ended /\ UNCHANGED vars

Init ==
  /\ build \in Builds /\ op \in {"memcpy", "memset"}
  /\ dest \in Addresses /\ size \in Sizes
  /\ src \in (IF op = "memcpy" THEN Addresses ELSE {0})
  /\ pc = "called" /\ loop = 1 /\ i = 0 /\ written = {}

Next == Reject \/ Begin \/ Fault \/ Move \/ NextLoop \/ Return \/ Over

\* A call that has begun runs on.
Spec == Init /\ [][Next]_vars /\ WF_vars(Next)

-----------------------------------------------------------------------------
\* The types of the variables.
TypeOK ==
  /\ build \in Builds /\ op \in {"memcpy", "memset"}
  /\ dest \in Nat /\ src \in Nat /\ size \in Nat
  /\ pc \in {"called", "copying", "returned", "rejected", "fault"}
  /\ loop \in 1 .. 4 /\ i \in Nat \cup {INT_MIN} /\ written \subseteq Nat

\* A memset whose scalar body is longer than an int counts.
LongIndex == op = "memset" /\ build = "none" /\ BodyBytes > INT_MAX

\* Head, body and tail follow each other without gap or overlap: whatever loop runs,
\* exactly the bytes before its place have been written (syn_memcpy, syn_memset).
WrittenInOrder == LongIndex \/ written = 0 .. (Place - 1)

\* Nothing outside the block is written, not even by a call that dies half-way or
\* whose index overflows.
StaysInside == written \subseteq 0 .. (size - 1)

\* The bytes of a long body behind the last one that an int reaches.
Unreached == (HeadBytes + INT_MAX + 1) .. (HeadBytes + BodyBytes - 1)

\* A call that succeeds has written every byte, but for those that only a long index
\* of syn_memset_scalarset reaches, and of these all or none.
CopiesAll == pc = "returned" =>
  \/ written = 0 .. (size - 1)
  \/ LongIndex /\ written = (0 .. (size - 1)) \ Unreached

(***************************************************************************)
(* The bit test lets an aligned access miss its alignment only if source   *)
(* and destination lie differently within a vector, or if an AVX build     *)
(* copies 16 bytes to an address off 16, whose head is cut down to 16      *)
(* bytes and taken for an SSE head (syn_memcpy_ssecpy, syn_memcpy_avxcpy). *)
(* Blocks at multiples of 16 are safe in builds without AVX.               *)
(***************************************************************************)
FaultNeedsSkew == pc = "fault" =>
  \/ (dest - src) % SimdWidth # 0
  \/ build = "avx" /\ size = WIDTH_SSE /\ dest % WIDTH_SSE # 0

\* Every call comes to an end, also one whose index overflows.
CallEnds == <>Ended
=============================================================================
