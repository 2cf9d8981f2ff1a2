# TLA+ models and proofs of syncies-allocator

The modules here model the allocator in `src/sync_alloc`: the pools and the chunks carved out
of them, the free lists, the handle tables, the public functions over both, and the memory
operations they use. TLC checks them on small instances; TLAPS proves for every instance what
the runs check as invariants, action properties and refinements (section 4).

Struct sizes and paddings are those of the x86-64 build.

## 1. The system

The library keeps one arena per thread (`arena_thread`, `_Thread_local`). An arena is a list of
mapped pools and a list of handle tables. Callers get a `syn_handle_t`, never a pointer; a
pointer is only lent out between `syn_freeze` and `syn_thaw`.

| Component | State it keeps | Operations |
|---|---|---|
| Size arithmetic (`defs.h`, `globals.h`, parts of `internal_alloc.c`, `alloc_init.c`, `sync_alloc.c`) | none | padding, chunk size, the two space checks, pool sizes, the doubling loop of `pool_constructor` |
| Pools (`alloc_init.c`, `pool_constructor`, `pool_destructor`) | linked `memory_pool_t`, `size`, `offset`; `pool_count` of the arena | `arena_init`, `pool_init`, growth, reset, destroy |
| Headers and deadzones (`internal_alloc.c`, `deadzone.c`, `alloc_utils.c`) | `chunk_size`, `bitflags` in each header; `prev_chunk_size`, `pool_ptr` in the deadzone behind each chunk | `find_new_header`, `create_header`, `create_head_deadzone`, `update_sentinel_and_free_flags`, `return_pool` |
| Free lists (`free_node.c`) | `first_free`, `last_free`, `free_count` of a pool; `next_node` in freed headers, overlaying `handle_matrix_index` | `free_node_add`, `free_node_remove` (first node of the right size) |
| Handle tables (`handle.c`) | tables with a bitmap and an array of entries (header, generation); the index in each header | create a handle, look one up, bump a generation, release a slot, destroy |
| Public functions (`sync_alloc.c`) | the caller's handles | `syn_alloc`, `syn_calloc`, `syn_free`, `syn_realloc`, `syn_freeze`, `syn_thaw`, `syn_reset`, `syn_destroy` |
| Memory operations (`syn_memops.c`) | the loop that runs and its index | `syn_memcpy`, `syn_memset`, each in builds without SIMD, with SSE and with AVX2 |
| Debug output (`debug.c`), empty slab and huge-page files, the raw-pointer switch, `alloc_tester` | none of their own | printing; nothing; a driver |

**How they interact.** There are no messages and no callbacks: a public function checks its
handle (`bad_alloc_check`: header present, index resolves to a slot, generations equal, not
frozen), works on the pools, then on the tables, and writes the caller's handle. The parts meet
in shared memory: the deadzone behind a chunk names the chunk's pool and the size by which the
next header walks back; the index in the header names the slot; the slot names the header; the
first eight bytes of a freed header belong to the free list instead of the index.

**What is hard here.** One thread runs every call to its end, so there is no concurrency, and nothing is persisted.
What is hard is *long sequences of legal calls*: chunk layout, free lists, neighbour flags, deadzones and slots are
five redundant accounts of the same memory, each updated by its own code, several of them only in the call that
happens to walk by. Then there are boundaries (a pool filled to its last byte, u32 arithmetic on usize sizes, growth
of pools, a table becoming full, vector loops around their widths), partial updates (`syn_realloc`, `syn_reset`), the
failure of `mmap`, stale handles, and a free list that goes on to be used after a double free. `PROJECT.json` lists
them as hazards with their lines.

**What makes each part correct.**

- *Pools*: a chunk lies in the used part of its pool, no two overlap, and headers can be walked
  forwards by size and backwards by deadzone. Growth happens only when nothing fits.
- *Headers and deadzones*: the deadzone names the right size and pool; a header next to a free
  one is marked; a header marked SENTINEL really is the last one.
- *Free lists*: no node twice, no node in use, no free header missing; a queue to the rest of the
  allocator, whatever the pointers do; every loop over one ends.
- *Handle tables*: live blocks, used slots and held handles are in one-to-one correspondence; a
  table is added only when the caller holds a handle for every slot of the others.
- *Public functions*: a held handle is accepted, a stale one is not; a frozen block stays where it
  is; nothing is handed out twice or lost.
- *Memory operations*: each byte of the block is written and none outside it (but in one build
  not for the longest blocks: the int index in section 3).

## 2. The modules

| Module | Models |
|---|---|
| `AllocSizes` | the size arithmetic, modulo `WORD` where the code computes in u32 |
| `PoolHeap` | one arena's pools, chunks, deadzones and free lists; one action per operation |
| `HandleTable` | the tables of one arena; operators and actions that the public functions are composed of |
| `SyncAlloc` | the public functions: `PoolHeap` actions joined with `HandleTable` actions, and the caller's handles |
| `AllocSpec` | abstract: what the library promises a caller that passes only handles it holds |
| `MCSyncAlloc` | symmetry of the handle variables and two views of the states, for TLC |
| `FreeQueue` | abstract: a free list as a queue |
| `FreeList` | one pool's free list: `first_free`, `free_count`, `next_node`, one step per loop iteration |
| `MCFreeList` | headers of two sizes, for TLC |
| `MemOps` | one call of `syn_memcpy` or `syn_memset`, one step per unit moved |
| `PoolHeapProofs` | proofs: arithmetic lemmas, the inductive invariant of the heap, type correctness, layout |
| `FreeListProofs` | proofs about `PoolHeap`: free lists and frozen blocks |
| `ChunkProofs` | proofs about `PoolHeap`: chunks without gaps, deadzones that lead back, lists without loss |
| `FlagProofs` | proofs about `PoolHeap`: the flags of neighbours and of the last header, and where memory safety is lost |
| `HandleProofs` | proofs about `SyncAlloc`: handles, slots and blocks; `SyncAlloc` implements `PoolHeap` |
| `ClientProofs` | proofs about `SyncAlloc`: alignment and size of the blocks; `SyncAlloc` implements `AllocSpec` |
| `FreeQueueProofs` | proofs about `FreeList`: the pointers spell out the queue, `FreeList` implements `FreeQueue`, and what holds after double frees |
| `MemOpsProofs` | proofs about `MemOps` |

How they fit together: `SyncAlloc` joins `PoolHeap` and `HandleTable` and implements `AllocSpec`.
`PoolHeap` uses free lists as sequences, with the operations of `FreeQueue`; `FreeList` shows that the
pointers implement these. `MemOps` stands alone: `PoolHeap` takes from it that a copy touches
exactly its block.

**`PoolHeap`, state.** `pools` is the linked list as a sequence of `[size, offset, free]`, where
`free` is the sequence of nodes that the walk along `next_node` visits. An address is
`<<p, o>>`, byte `o` of the `mem` of pool `p`. `chunk_size` and `bitflags` map header addresses to
the fields; `deadzone` maps the address just behind a chunk to its deadzone. `pool_count` is kept
apart from `Len(pools)` because the code keeps it apart. `mapped_pools` counts mappings. `fate`
is `"ok"` until memory safety is lost: `"fault"` (unmapped memory is touched), `"overrun"` (a write
lands outside the chunk or pool it was meant for), `"self_loop"` (a node is appended behind
itself). Nothing is modelled after that; `Stopped` stutters.

**`PoolHeap`, actions.** `HeapAlloc` is `syn_alloc` up to the handle: arena and pool creation
(`Supply`), the search over pools and the jump table zero offset, free list, linear (`Serves`),
`create_header` (`MadePools`, `MadeSizes`, `CreatedFlags`), `create_head_deadzone` (`MadeTags`) and
`update_sentinel_and_free_flags` (`UpdatedFlags`, `WalkFate`). `HeapGiveUp` is the second search
failing, with the new pool left behind; `HeapMapFails` is `mmap` failing; `HeapFree`,
`HeapRealloc`, `HeapFreeze`, `HeapThaw`, `HeapReset`, `HeapDestroy` are what follows the handle
check in the public functions; `PoolArrayFault` is the walk of `pool_count` links along a shorter
list. What the walk over neighbours reads past the end of a mapping is a nondeterministic choice
(`Wild`); whether there is anything readable there follows from the page size.

**`SyncAlloc`.** `hdl[v]` is the handle in the caller's variable `v` and whether the caller holds
it, has frozen it, or has freed it. `Accepted` is `bad_alloc_check`; for a freed header the index
it reads is the overlaid `next_node` (0 for the last node of a list, a pointer far outside every
table otherwise). `STALE_CALLS` says whether callers may pass freed handles. A generation is a number
modulo `GENERATIONS`, as a u32 is one modulo 2^32. `asked[v]` is a history variable: the size that the block of `v` was
asked for. No action reads it.

**`AllocSpec`.** A handle is none, held or frozen and stands for a block `[pool, from, to, size]`, where `size` is
what the call that made it asked for. `Allocate` promises only that the block has room for that size, is aligned and
lies apart from every live one, not where it is; `Thaw` gives back the same block; `Halt` ends all promises.
`SyncAlloc` maps to it (`Client`) by dropping everything but the payload: `[from, to)` lies between the header and the
deadzone of the header that the handle names, and `size` is `asked`. `syn_realloc` is not part of it, because the code
breaks the handle's index there (run `realloc_index`).

**`FreeList`.** `next_node` maps a header to the pointer in its first eight bytes: a header, `NULL`, or
`HandleBytes` while they hold a handle index. `pc` says which loop the call is in (`end_walk` of
`index_free_list_end`, `size_walk` and the jump to `found` of `index_free_list_size`), and `node`, `prev`,
`next`, `idx` are that function's locals. `FreeNode` is what `syn_free` does up to the loop,
`EndWalk` one iteration and `LinkBehind` the end of `free_node_add`; `RemoveNode`, `SizeWalk`, `LastNode` and the
four `Unlink` actions are `free_node_remove`, followed by `create_header`, which turns the first bytes back into an
index (`Taken`). `Carve` is a fresh header, `Reset` is `syn_reset`. A read through anything but a header is
a fault. With `DOUBLE_FREE`, callers may free what is free already, and the list goes on. `queue`, `returned` and
`misused` are history variables: no action reads them, and they change where an operation takes
effect (the node is linked or unlinked, or the search has failed).

**`MemOps`.** The state is a call (build, operation, addresses, size) and the loop it is in. `Loops` lists the calls of the
helpers with their unit, start and length, computed as in the code, the wrapping differences included; head
and chunks are those of the build. `Move` is one iteration, `Fault` an aligned access at an address
that is not aligned: the helpers test one bit of the address (`src & 16`) where a mask is needed. The index of
`syn_memset_scalarset` is an `int` that is compared with a usize. Counting it beyond `INT_MAX` is undefined, so
`NextIndices` has both outcomes a build can produce: the index goes on (in a wider register), or is `INT_MIN`, which as a
usize is larger than any block and ends the loop.

Left out of the models: `total_arena_bytes` and the stored `allocation_size` and `addr` (nothing
decides on them), the flags that no code sets, payload bytes and their clearing, the poison and
magic numbers with their panics (they need a caller that writes outside its block), and handles
kept across `syn_reset` and `syn_destroy` (their header lies in memory that was unmapped or
cleared).

## 3. The runs

| Run | Question | Instance |
|---|---|---|
| `heap_owner` | With callers that pass only blocks they hold and never reallocate: are layout, walks, lists and flags right, and is safety lost only behind an unmarked last chunk of a full pool? | two sizes, pools of 208 and 288 bytes, up to two pools |
| `heap_realloc` | What is left of it with `syn_realloc` (same size, larger, impossible), refused growth and failing `mmap`? | pools of 192 and 256 bytes, three sizes |
| `sync_owner` | Are handles, slots and blocks in step while generations wrap around, are tables added only for handles that are held, is every public call a step of `PoolHeap` (`HeapRefinement`), and does it all implement `AllocSpec`, each block with room for the size that its own call asked for (`ClientView`)? | three handle variables, two sizes, tables of two slots, three generations, pools of 160 and 192 bytes |
| `sync_any` | What survives of layout, lists and frozen blocks (`FrozenIsPinned`) with stale handles, reallocation, refused growth and failing `mmap` together, through the handle checks? | two handle variables, tables of one slot, three generations, pools of 168 and 208 bytes |
| `free_list` | Is the pointer list a queue (`QueueRefinement`, `ListIsQueue`), and what holds after double frees: do loops end, is nothing handed out that is in use? | two small headers and a large one, double frees allowed |
| `memops` | Does every call write each byte of its block and no other, and when do its aligned accesses fault? | three builds, ten addresses at every kind of misalignment, sizes around 16, 32, 48, 64, 96, an `INT_MAX` of 63 |

Every action and every disjunct of the next-state relations occurs in one of these.

The other runs expect a violation: each states what a comment of the code promises, and TLC finds
a call sequence after which it is false.

| Run | The code says | What happens |
|---|---|---|
| `growth` | no header only if all pools are full *and* `mmap` fails | `pool_constructor` computes a size and maps twice the last pool instead; a larger request is refused, and each refusal leaves one more pool |
| `reset_walk` | after a reset the first pool is kept "in its original no-allocations state" | `pool_count` still counts the unlinked pools; the next walk dereferences null |
| `truncation` | `size` is "How many bytes the user requests" | a padded usize is stored in a u32, so 2^32 + n bytes become n |
| `stale_handle` | generations "detect stale handles and use-after-frees" | `syn_free` bumps only the caller's copy, and the freed header's index reads as 0: once slot 0 has the same generation the freed handle passes |
| `realloc_index` | the index is the "Index to the header's handle" | after `syn_realloc` the new header's index is 0, and slot 0 names another header |
| `table_leak` | `syn_destroy` deallocates the arena | the walk over tables stops after `pool_count` of them; the others stay mapped |

Seen in the source while modelling, present in the models, and without a run of their own:

- `create_header` marks a fresh chunk that leaves no room for another as SENTINEL, but not a reused one: freed and reused,
  the last chunk of a full pool has lost the mark, although `structs.h` says it "Marks the very last header in the pool", and
  the next walk reads past the pool (`LostOnlyAtFullPool` says that safety is lost there and nowhere else);
- `syn_realloc` copies as many bytes as the *old* chunk has, over the deadzone of a smaller new one: the step is modelled
  and ends as an overrun;
- the scalar loop of `syn_memset` counts a usize with an `int`: without SIMD, a body above `INT_MAX` overflows it, and the call may
  return 0 with the rest unwritten, although `sync_alloc.h` says of `syn_calloc` "guaranteed to be zeroed" (`CopiesAll` says that
  nothing else is ever left out);
- `syn_realloc` marks the old header free but lists it nowhere, so the block is lost until a reset and `free_count`
  is not "How many freed headers there are" (`FreeListsComplete` holds only for callers that never reallocate);
- a reallocation into offset 0 loses FIRST_HEAD with the copied flags; PREV_FREE and NEXT_FREE are never cleared;
- pools double past `MAX_POOL_SIZE` when requests are small; `pool_init` and `new_handle_table` test `mmap`
  for null instead of `MAP_FAILED`; `syn_reset` calls `munmap` on an address inside the mapping and also unmaps the first table;
- no check compares a generation with the invalid one, which `sync_alloc.h` says is treated as invalid;
- `simd_capability & SIMD_NONE` is 0 in every build, so only short calls take the plain scalar path; the vector
  copies of `syn_memcpy` fault on a source that is skewed against its destination, and an AVX2 build also on a 16-byte
  copy to an address off 16. The copies of `syn_realloc` are 16-aligned at both ends, which is safe with SSE alone; in an
  AVX2 build two such blocks can be skewed by 16.

Not in a model: `debug_print_memory_usage`, which nothing calls, dereferences null if there is exactly one table.

**Bounds.** `WORD` is 4096 instead of 2^32: large enough that only the requests meant to wrap do. A pool is a few
hundred bytes and a chunk for the smallest request takes 96, so in `heap_owner` the first pool holds two chunks and
the second three (first, middle, last; the walk has a neighbour on each side), and the first is filled to its last
byte by a chunk of each size. In `heap_realloc` each pool holds two chunks. In `sync_owner` the first pool holds one
small chunk and the second two small ones or a large one, so that three handles overflow the first table, and the
large request meets free chunks that are too small for it and pools without room. In `sync_any` the first pool holds
one chunk and the second two: a block can be reallocated within a pool and across pools, and lie next to one that is
freed or frozen, while the state space, with stale handles in every call, stays small enough to be searched to its
end. `PAGE_SIZE` equals `MAX_FIRST_POOL_SIZE`, so the first pool's mapping ends where the pool does, as 4096-byte
pages do in the build. `CHUNK_OVERFLOW` is 100 in `heap_owner`, between the two chunk sizes, and out of reach
elsewhere. `MAX_POOLS` (2) is a guard: a call that would need a third pool is not taken. Two pools are enough for the
second search, for frees and reuse across pools, and for a reset with something to unmap. `GENERATIONS` is 3 in the
passing runs, so that generations wrap all the time and the equality test of the check meets wrapped values.
`MAX_GENERATION` stops `syn_freeze` of handles whose generation has reached it. In `sync_owner` it is no restriction.
In `sync_any` it is 1, so only handles whose generation has wrapped to 0, by reallocations, are frozen; without that
bound the state space is too large. The violation runs of `SyncAlloc` have 16 generations, where their traces need no
wrap. Tables have one or two columns, so that three handles overflow the first. Handle variables are interchangeable:
they occur only under quantifiers, so symmetry is sound for the safety properties checked. `sync_owner` also uses a
view that forgets what is left in a freed handle (`WithoutFreed`): its callers never pass one, and an allocation
overwrites it. The view of `sync_any` (`Living`) leaves out the counters of mappings and `asked`, which no action
reads for a decision and none of its properties mentions, and of a process that has died keeps only how it died.

`free_list` has three headers, one of another size: lists of up to three nodes give the search a first, a middle and a
last node, fitting or not, and double frees make lists that end in a loop and cut lists out of them (longer cycles do
not occur: section 4). Four headers were checked once, without error. The counter is modulo 8. `memops` keeps
addresses below `USIZE` = 256 and takes sizes on both sides of every comparison in the code; the longest call goes
through head, two or three vectors and tail. `INT_MAX` is 63, so that bodies lie on both sides of it and the index of
a memset without SIMD overflows in the longest; a real `int` needs blocks above 2 GiB for that.

**Fairness and deadlock.** Nobody has to call the library, so the modules whose actions are whole calls assume no
fairness and claim no liveness. Inside a call a thread keeps running: `FreeList` assumes weak fairness of `Walk`, the
iterations and the ends of its loops, but not of the actions that start a call; `MemOps` assumes weak fairness of its
single call. Under it `CallsReturn` says that every call on a free list ends, on looping and cut lists too, because
the loops go by `free_count`; the mutant whose loops go by the pointers runs forever on a list that loops. `CallEnds`
says the same of a copy. Deadlock is checked in every run: some call is always possible, or the behaviour has stopped
(`Stopped`, `Dead`, `Over`).

## 4. What is proved

Every invariant, every action property and every refinement of the passing runs is a theorem. The runs show them on a
small instance; the theorems hold for all values of the constants within the assumptions that the modules state: for
every set of sizes, every pool size and number, every u32 width that is a positive multiple of 16, first pools of at
least 192 bytes (`SizesAssumption`), with `syn_realloc`, refused growth and failing `mmap` (`RequestsAssumption`),
tables of any width from one column on, and any number of generations from three on (`HandleAssumption`; two values
are taken by the invalid generation and the first one), for every set of headers that the counter of a free list can
count (`FreeListAssumption`), for all addresses and all sizes that leave at least as much of the usize as an `int` has
values above 0, with an `INT_MAX` of 32 or more (`MemAssumption`), and for every finite set of handle variables
(`UsersAssumption`).

Some theorems need more, and say so in an ASSUME. Only what a run without these hypotheses breaks, or what the code gives up,
is assumed:

| Hypothesis | Means | Why it is needed |
|---|---|---|
| `ReallocRequests = {}` | callers do not use `syn_realloc` | it copies the flags and the deadzone of the old block, gives the new header index 0, and lists the old header nowhere (runs `heap_realloc`, `realloc_index`) |
| `GoodCallers` | nor do they pass handles they do not hold | freed handles can pass the check (run `stale_handle`) |
| `RequestsFit` | requests and the minimum stay 64 below the u32 width | larger ones wrap around (run `truncation`) |
| `~MAP_MAY_FAIL` | `mmap` succeeds | the code tests for null, not `MAP_FAILED`; only `LostOnlyAtFullPool` is about that |

**Pools and lists** (`PoolHeap`), for every caller:

| Theorem | Says |
|---|---|
| `PoolHeapProofs!TypeCorrect` | `HeapSpec => []TypeOK` |
| `PoolHeapProofs!LayoutHolds` | `[]Layout`: chunks stay in the used part of their pool and never share a byte |
| `FreeListProofs!FreeListsHold` | `[]FreeListsSound`: every listed header is free and none is listed twice, so no block is handed out twice |
| `FreeListProofs!FrozenStaysPinned` | `FrozenIsPinned`: nothing frees, moves, reuses or resizes a frozen block |
| `ChunkProofs!ChunksTileHolds` | `[]ChunksTile`: headers can be walked forwards by size and backwards by deadzone, without gaps |
| `ChunkProofs!FreshComesLast` | `FreshIsLastResort`: fresh memory is used only when no pool up to that one lists a header of the size |

and for callers with a hypothesis:

| Theorem | Assumes | Says |
|---|---|---|
| `ChunkProofs!TagsOwnHolds` | no `syn_realloc` | `[]TagsNameOwnPool`: a deadzone names the pool its header lies in |
| `ChunkProofs!FreeListsAreComplete` | no `syn_realloc` | `[]FreeListsComplete`: every free header is on the list of its pool |
| `FlagProofs!NeighboursAreMarked` | no `syn_realloc` | `[]NeighboursMarked`: a header next to a free one is marked |
| `FlagProofs!SentinelIsLast` | no `syn_realloc` | `[]SentinelEndsPool`: nothing lies behind a SENTINEL header |
| `FlagProofs!LostOnlyThere` | `GoodCallers`, `RequestsFit`, `~MAP_MAY_FAIL` | `LostOnlyAtFullPool`: safety is lost behind the last chunk of a pool without room for another header, if it has lost SENTINEL, or in the walk after a reset, and nowhere else |
| `ClientProofs!BlocksCoverRequests` | `RequestsFit` | `BlockCoversRequest`: what the run `truncation` refutes holds for all requests that fit |

**Public functions** (`SyncAlloc`), for every caller; the handle check may let any header through:

| Theorem | Says |
|---|---|
| `HandleProofs!CallsKeepLayout`, `CallsKeepLists`, `FrozenBlocksStay` | `Layout`, `FreeListsSound` and `FrozenIsPinned` under the public functions |
| `HandleProofs!HandleTypesHold` | `[]HandleTypeOK` |
| `ClientProofs!HeadersAligned` | `[]AlignInv`: headers and offsets are multiples of 16, so payloads are |

and for callers with a hypothesis:

| Theorem | Assumes | Says |
|---|---|---|
| `HandleProofs!HandlesResolve` | `GoodCallers` | `[]HeldHandlesResolve`: a handle that is held is accepted and leads to its block |
| `HandleProofs!OneHolderEach` | `GoodCallers` | `[]BlocksHaveOneHolder`: no block has two handles, none in use has no handle |
| `HandleProofs!SlotsMatch` | `GoodCallers` | `[]SlotsMatchBlocks`: used slots and held handles correspond, none is shared or leaks |
| `HandleProofs!TablesGrowWithHandles` | `GoodCallers` | `TablesGrowForHandles`: a table is added only when the caller holds a handle for every slot of the others |
| `HandleProofs!FrozenHandlesStay` | `GoodCallers` | `FrozenHandleKept`: only its thaw, a reset or a destroy changes a frozen handle |
| `HandleProofs!HeapIsRefined` | `STALE_CALLS` or no `syn_realloc` | `HeapRefinement`: `SyncAlloc` implements `PoolHeap` |
| `ClientProofs!ClientIsServed` | `GoodCallers`, `RequestsFit` | `ClientView`: `SyncAlloc` implements `AllocSpec`, each block with room for what its call asked for |

**Free list and memory operations**:

| Theorem | Says |
|---|---|
| `FreeQueueProofs!FreeListTypes` | `[]TypeOK` of `FreeList`, with double frees |
| `FreeQueueProofs!ListIsQueueHolds` | `[]ListIsQueue`: until a header is freed twice, the walk of `free_count` nodes from `first_free` meets each queued header once, in order |
| `FreeQueueProofs!WalksStayOnListHolds` | `[]WalksStayOnList`: until then, no loop reads through anything but a header |
| `FreeQueueProofs!FreeListIsQueue` | `QueueRefinement`: `FreeList` implements `FreeQueue` |
| `FreeQueueProofs!HandedOutOnceHolds` | `[]HandedOutOnce`: also after double frees, no header is handed out that a caller uses |
| `MemOpsProofs!MemTypes` | `[]TypeOK` of `MemOps` |
| `MemOpsProofs!WrittenInOrderHolds` | `[]WrittenInOrder`: exactly the bytes before the current place are written, unless the call is a memset without SIMD whose body is longer than an `int` counts |
| `MemOpsProofs!StaysInsideHolds` | `[]StaysInside`: no byte outside the block is written, also when the index overflows |
| `MemOpsProofs!CopiesAllHolds` | `[]CopiesAll`: a call that returns has written its block, except that such a memset may leave out the bytes of its body that an `int` does not reach, all of them |
| `MemOpsProofs!FaultNeedsSkewHolds` | `[]FaultNeedsSkew`: an aligned access faults only on skewed blocks, or in an AVX2 build on 16 bytes off 16 |

**Argument, pools.** `TypeOK` is not inductive: `syn_free` reads the pool out of the deadzone behind the header,
which has to exist and to name a pool, and `free_node_remove` trusts what is listed. `Layout` is not
either: a reused header must already own its bytes. `HeapInv` therefore joins `TypeOK` with
`Placed` (offsets inside, chunks inside and apart, every chunk followed by a deadzone that names a
pool, lists that hold only headers) while memory is safe, and with `Len(pools) <= mapped_pools`, which keeps
the counter of mappings from going negative. `HeaderMade` is the heart: a header made by
`create_header` keeps all that. It rests on `ChunkExact`: for an aligned payload whose chunk size
did not wrap, the chunk size *equals* what `pool_has_no_space_left` compares with, although the code
computes them by different expressions. When it did wrap, the step is the one that loses safety
(`MadeSafely`).

`FreeListsSound` needs more, because after `syn_realloc` a deadzone may name a pool that the header does not
lie in, and then a header is listed in a foreign pool. What saves the lists is `ListsMatchTags`: a listed
header is on the list of the pool its deadzone names, so looking for it on that one list is looking
everywhere. That deadzone is not overwritten while the header is listed because no other chunk ends at the same address
(`EndsDiffer`), which needs `Placed` and sizes above 0. `FreeInv` collects this. `FrozenIsPinned`
follows: a new header is either at fresh memory or from a list, and an allocated one is not
on a list.

**Argument, chunks.** That a header is reached backwards from its deadzone is not inductive: `create_header` puts a
header at the offset of a pool, so what lies in front of the offset must already lead back to the last chunk.
`TileInv` adds that (`EndsReached`). It survives `syn_realloc` because a whole deadzone is copied only between chunks
of one size. `FreshIsLastResort` hangs on the jump table, which serves a pool of offset 0 without a look at its list:
`UsedInv` says that deadzones, and so the lists, name only pools with an offset above 0. `OwnInv` joins the two
statements that `syn_realloc` breaks: deadzones name their own pool, and free headers are listed there.

**Argument, flags.** `update_sentinel_and_free_flags` marks the two neighbours of the header at hand and decides by
flags whether there are any. So `FlagInv` says when: FIRST_HEAD is on the header at offset 0 and on no other, and a
SENTINEL header ends a pool that is used up. The walk is then taken link by link: before it, every pair of neighbours
is marked except those with the header at hand, and it marks just these. Adding marks never unmarks a pair.
`LostOnlyAtFullPool` follows: the walk runs past its pool only from a last header that is not SENTINEL, and only if
there is no room for a header behind it, in the pool or in what the mapping has beyond it (`WalkLeavesFull`); without
gaps (`TileInv`), such a header ends at the offset of its pool.

**Argument, handles.** A public call passes a header that came through the check, so on the pools it is a step of
`HeapNext` with any header in place of `Passed` (`CallsAreHeapSteps`). `PoolsInv` (`HeapInv`, `FreeInv` and `TileInv`)
is kept by such steps, which gives what every caller gets. `TablesInv` is the type of the tables with `Len(tables) <=
mapped_tables`. For good callers, `OwnerInv` adds the correspondence: a held handle names an allocated header, the
header's index is the slot, the slot is used, names the header, and its generation is the handle's, or one ahead if
and only if the header is FROZEN; holders differ in their headers, every allocated header has a holder, and every used
slot too. The check of a good caller then finds the right block, so `Passed` is what it passes: that is
`HeapRefinement`. Whether or not callers are good is one condition (`PassInv`), because with `STALE_CALLS` the heap
accepts any header. `TablesGrowForHandles` counts: when a table is added the others are full, so all their `COLS *
Len(tables)` indices are used slots (`FullTablesSlots`); by `SlotsMatchBlocks` the holders map onto the used slots, so
there are at least as many of them (`SlotsNeedHolders`).

**Argument, clients.** `AllocSpec` promises alignment and room, so `AlignInv` and `RequestCovered` join the invariants
above. Each public call is then a step of `AllocSpec` on the payloads of the held headers: `syn_alloc` is `Allocate`
because `Layout` keeps payloads apart, the others because they leave the sizes and headers of other holders alone.
They also leave alone what the others asked for (`OthersKept`), so the sizes of the blocks stay as well. What a call
that loses safety does is `Halt`.

**Argument, free list.** `ListIsQueue` says nothing of the loops, so it is not inductive: `LinkBehind` is right only
if the walk has come to the last node. The invariant adds what each loop knows: in both walks `node` is `queue[idx +
1]`, in the search `prev` is the node before it and no node passed has the wanted size, and behind `found` the node
fits and `next` is its successor, or the node itself or what an earlier iteration left when it is the last. That the
counter never wraps follows from the queue being without repetition inside a finite set smaller than `WORD`. The
refinement then goes action by action: the iterations stutter, `LinkBehind` adds, the `Unlink` actions remove the
first of the size, `LastNode` refuses.

After a double free the queue says nothing, and `ChainInv` takes its place: the pointers from `first_free` spell out
*some* chain of different headers that nobody holds, whose last one points to null or at itself. `free_count` is at
least its length, and between calls at most one more. A header freed again at the end makes the end point at itself.
One freed again in the middle loses its successors: the chain is cut behind it, the count drives the walk onto null,
and that is the fault. Longer cycles never arise. A header that is handed out is therefore always one of the chain,
and none of the chain is held; but headers behind a cut are lost.

**Argument, memory operations.** `LoopsTile` shows that head, chunks and tail add up to the size and that each is a
whole number of its loop's units, per build; the differences never wrap because outside the AVX2 build the head is
shorter than 16 bytes and the block is not (`HeadFits`). `MemInv` then says that a loop without a whole unit left has
done its share, and that one of three things holds: all bytes before the place have been written (`InOrder`), or the
body of a long memset has just overflowed its index (`Overflown`), or it has and the tail is being written behind the
bytes that were not reached (`WithGap`). As a usize `INT_MIN` is above every size, which is what the assumption on
`INT_MAX` is for, so the loop ends there. For `FaultNeedsSkew`, the body starts where the head has brought the
destination to a multiple of the width, so its accesses are aligned at both ends unless the two addresses differ
within a vector.

**Only model-checked**: the liveness properties `CallsReturn` and `CallEnds`, since fairness and ENABLED are out of
the prover's reach; and what `GrowthRefused` computes for every size, which would take an induction over a recursively
defined function (the proofs treat it as an unknown condition). The runs that expect a violation need no proof: their
behaviours are the evidence.

## 5. Not modelled

- The bytes themselves: what a copy or a clear puts into a block, `F_SENSITIVE` scrubbing, and which free list a foreign header is on after `syn_realloc` (`PoolHeap` has that, `FreeList` has one pool).
- Threads: arenas are thread-local and share nothing; passing a handle to another thread is not supported by any function.
- `debug.c`: output only. `slab.c`, `huge_page.c`: empty. `SYN_USE_RAW`: empty branches that `defs.h` says do not work.
- `alloc_tester/main.c`: its call sequences are behaviours of `SyncAlloc`.

## 6. Plan

Done, in this order: `AllocSizes`, `PoolHeap`, `HandleTable`, `SyncAlloc`, `PoolHeapProofs`, `FreeListProofs`,
`FreeQueue` and `FreeList` with `FreeQueueProofs`, `MemOps` with `MemOpsProofs`, `AllocSpec`, `ChunkProofs`, `FlagProofs`,
`HandleProofs`, `ClientProofs`.

What could still be added:

1. With `syn_realloc`, the parts of `TagsNameOwnPool` and `FreeListsComplete` that survive: that only a header made by a
   reallocation in a later pool has a foreign deadzone, and that only the old header of a reallocation is lost.
2. `LostOnlyAtFullPool` without `RequestsFit`, with the wrap of the chunk size as a third place where safety is lost.

## 7. Running

    tlc -config PoolHeap_owner.cfg PoolHeap        (and the other PoolHeap_*.cfg)
    tlc -config SyncAlloc_owner.cfg MCSyncAlloc    (and the other SyncAlloc_*.cfg)
    tlc -config FreeList_any.cfg MCFreeList
    tlc -config MemOps_all.cfg MemOps
    tlapm PoolHeapProofs.tla                       (and FreeListProofs, ChunkProofs, FlagProofs, HandleProofs,
                                                    ClientProofs, FreeQueueProofs, MemOpsProofs)

The operators commented "Faulty ..." are plausible mistakes in the definitions they stand next to; replacing a
definition's body by its faulty form makes the property listed with it in `PROJECT.json` fail.
