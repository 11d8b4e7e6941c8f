# A formal model of the foonix kernel

TLA+ modules, TLC runs and TLAPS proofs for the foonix kernel (`src/`), a C++
kernel for i386 and x86_64. Paths below are relative to the repository; the
kernel lives in `src/sys/kernel` with its headers in `src/sys/include/kernel`,
the previous kernel in `src/sys/attic`, experiments in `work`.

## 1. The system

The boot loader hands over to an architecture start-up (`preinit.cpp`), which
fills `boot::ArgumentData` with the memory map, the extent of the kernel and of
a small boot heap, and builds the first page tables from a bump allocator.
`kmain` then constructs, once and in a fixed order, the boot arguments, the
console, the interrupt tables, the physical page allocator, the kernel heap and
the debug shell, which reads lines for ever.

| Component | State | Operations | Used by |
|---|---|---|---|
| multiboot loaders, `mb1.cpp`, `mb2.cpp` | the loader's records, read once | `ReadInfo` | start-up |
| boot arguments, `boot_args.cpp`, `memory_range.h` | up to 32 memory ranges, kernel and heap extents | `AddMemoryMap` (sort, drop empty, merge), `KnockoutUsedMemory` | start-up, page allocator |
| boot page allocator (x86_64), `boot_allocator.cpp` | a bump pointer and a free list | `AllocatePages`, `ReleasePages`, `GetFreePages` | start-up |
| page tables, `paging.cpp`, `page_table.h`, `page_table.cpp` | directory and tables in physical pages | map, unmap, look up, map a run of pages | start-up |
| page allocator, `page_allocator.cpp` | a list threaded through the free pages, two counters, a spin lock | `AllocatePage`, `ReleasePage`, `GetFreePages`, `GetCacheSize` | heap, page tables, statistics |
| spin lock, `spinlock.h`, `lockguard.h` | one word | exchange until 0, store 0 | page allocator, heap, stack |
| kernel heap, `kalloc/` | 29 size buckets of one-page slabs (three lists and a lock each), a hash table of large blocks with a lock, a stack of free metadata with a lock, a page counter | `kalloc`, `kfree`, `SmallItemBucket::GC` | `operator new`, everything |
| bitmap, `utils/bitmap.h` | an array of machine words | set, clear, test, first clear | slabs, real-mode memory |
| list and stack, `utils/list.h`, `stack.h` | links in the nodes | add, remove, iterate; push, pop | heap, devices |
| real-mode memory, `realmem.cpp` | a bitmap of the 256 lowest pages | reserve, allocate, release | (no caller yet) |
| keyboard, `ps2kbd.cpp` | shift, lock and extend flags | one scan code to one character or none | console |
| terminal, `vga.cpp` | cursor and 2000 cells | one character | console |
| console, `console.cpp` | line and pause counters | put, `get_line` | shell |
| debug shell, `debug.cpp` | none between commands | `dump`, `testa`, `vars`, `meminfo`, `fault`, `help`, ... | `kmain` |
| interrupts, `vectors.s`, `isr.S`, `idt.cpp`, `pic8259.cpp`, `interrupt.h` | callback table, interrupt controllers, a count of guards | push, dispatch, acknowledge, return; disable and enable | timer, everything |
| libk, libkpp, `vsnprintf.c`, `string`, `string_view.h`, `bit.h`, `align.h` | none | pure functions | everything |
| disk driver (attic), `ata.c`, `inter.c`, `timer.c` | two drives, a count of blocked interrupts, a clock | `init_bus`, `wipe_drive` | (not built) |
| AVL tree (work), `AVLTree.h` | linked nodes with balances | insert, remove, find | (not built) |

The components call each other directly; there are no messages and nothing is
persistent. The kernel has no scheduler at this commit and starts one processor.
Two kinds of concurrency are real all the same. Interrupts come between any two
instructions. And the page allocator, the heap and the metadata stack are
written for callers that run at the same time: each takes spin locks, and the
comments speak of lock-free successors. The models take that at its word and let
any number of threads call them.

### What is hard, and what makes each part correct

* **Page allocator.** The list lives in memory it gives away. One lock covers
  the list and both counters. Correct means: a page has one owner, none is lost,
  the links and the counters say what the operations did, and calls complete.
* **Kernel heap.** Slabs move among three lists by comparisons of a free count;
  a page goes from the pool to a bucket or to a metadata item and back while
  other threads do the same; `kfree` reads a slab's header without the bucket's
  lock; three kinds of lock nest; pages run out between two steps. Correct
  means: blocks in use never overlap, every page and item has one owner, null is
  an answer only when pages ran out, and every lock is released.
* **Boot memory map.** Sorting, merging and cutting ranges with inclusive ends,
  rounding, and a table with a limit. Correct means: no usable byte appears
  twice, none is invented, and the kernel's own pages are never given out.
* **Page tables.** They live in the frames they describe, so a wrong index or a
  wrong address reaches another frame. Correct means: looking up an address
  gives what was last mapped there, no other address changes, and the code that
  runs stays mapped.
* **Keyboard, terminal, line input.** Automata over scan codes and characters
  with flags and limits; modifiers are let go in any order; the screen wraps and
  scrolls under a backspace. Correct means: what is on the screen is the line
  that will be returned, and no modifier sticks.
* **Interrupts and the shell.** A frame pushed by three pieces of assembly and
  popped by a fourth, one acknowledgement per interrupt and controller, the
  spurious interrupt that has none, guards that nest and restore a flag.
  A command pages its output and may fault while it does. Correct means: the
  shell never notices an interrupt, the timer goes on, every line is seen.
* **Building blocks.** Word arithmetic at the width of a word, buffers of every
  size, lists changed while they are iterated.
* **Disk driver.** Polling with interrupts blocked, waits and timeouts by a
  clock that wraps, a sequence of commands that must not be torn. Correct means:
  interrupts come back as they were, a drive is erased only as prepared, the
  success reported is the drive's, and every call ends.
* **AVL tree.** Rotations while retracing, removal by swapping with a successor.

`PROJECT.json` lists every component, also the ones not modelled, and the
hazards with their lines.

## 2. The modules

| Module | Models | Says |
|---|---|---|
| `PagePool` | what the page allocator promises | operations take effect at one instant on a set of pages |
| `PageAllocator` | `page_allocator.cpp`, `spinlock.h`, `lockguard.h` | every access to the list inside the lock is a step |
| `Heap` | what `kalloc` and `kfree` promise | a granted block overlaps no block in use |
| `Kalloc` | `kalloc.cpp`, `small_bucket.cpp`, `small_slab.*`, `stack.h`, the lists | buckets, slabs, metadata, locks, the page counter |
| `BootMemory` | `boot_args.cpp`, `memory_range.h`, `align.h`, the map the loaders leave, `InitHeapInfo` and the boot allocator of i386, `InitBootPages` | from the loader's records to the first free pages |
| `AddressSpace` | what page tables promise | a partial function from pages to frames |
| `PageTables` | i386 `paging.cpp`, `paging.h`, `page_table.h`, `Preinit` | directory and tables as words in frames |
| `OrderedMap` | what the tree promises | a set of keys with data |
| `AvlTree` | `work/AVLTree.h` | links, balances, rotation by rotation |
| `LineEditor` | what `get_line` promises | keys append to a line, take from it, or end it |
| `Keyboard`, `Terminal` | `ps2kbd.cpp`, `vga.cpp` | functions: scan code and flags to character and flags, character to cells and cursor |
| `LineInput` | `console.cpp` `get_line` and both of these | keys pressed and let go, a queue of scan codes, the line, the screen |
| `Shell` | `debug.cpp`, the pager of `console.cpp`, `panic` | commands, the lines they print, the pause |
| `Interrupts` | `vectors.s`, `isr.S`, `idt.cpp`, `pic8259.cpp`, `interrupt.h`, the timer | the frame on the stack, the controllers, the guards |
| `Machine` | `Shell` on `Interrupts` | the kernel after boot |
| `Bitmap` | `bitmap.h`, `bit.h` | cells, masks and block tests, as functions of the cells |
| `SlabMarks` | the bitmap of a slab of `small_slab.cpp` | allocating and giving back by mark and count |
| `Deque`, `NodeList` | `list.h`, `stack.h` | a sequence and a pile; the links pointer by pointer |
| `BootAllocator` | x86_64 `boot_allocator.cpp`, `InitHeapInfo` | bump pointer, free list, counts |
| `Printf` | `vsnprintf.c` | the format character class by character class |
| `Strings`, `Words`, `PageArithmetic`, `PageTables64`, `Multiboot` | libk and `string_view`; `bit.h`, `align.h`, `pageptr.h`, `flags.h`, `memory_range.h`; `hash.h` and `realmem.cpp`; x86_64 `page_table.cpp`; `mb1.cpp`, `mb2.cpp` | functions, as the code computes them |
| `Library` | one call of one of these | what each has to answer, stated without its code |
| `AtaBus` | attic `ata.c`, `inter.c`, `timer.c` | a command's steps, the drives' answers, the clock |
| `*Proofs` | | the theorems of section 5, each module about the one it is named for |
| `MC*` | | instances for TLC; `MCLibrary` puts the building blocks side by side |

`PageAllocator` implements `PagePool` (checked and proved). `Kalloc` is built on
the pool as `PagePool` describes it, that is, it takes and returns pages in
single steps, which that refinement justifies; and it implements `Heap`.
`Kalloc` keeps the marks of a slab as a set of items and its lists as
sequences; `SlabMarks` and `NodeList` show where that is exact. `BootMemory` is
what happens before `PageAllocator`: its `BootPagesUsable` says that the boot
chain `PageAllocator` starts with has no page twice (`BootChainAssumption`).
`PageTables` implements `AddressSpace`, `AvlTree` `OrderedMap`, `NodeList`
`Deque`; `LineInput` composes `Keyboard`, `Terminal` and `get_line` and
implements `LineEditor`; `Machine` composes `Shell` and `Interrupts`.

### State and actions against the code

`PageAllocator`: `m_allocLock`, `m_pageCache`, `m_pageCacheCount` and
`m_pagesAvailable` are the members of those names, `next[p]` is the link stored
in page `p`. `pc`, `reg` and `out` are a thread's place and locals, `live` is
what callers own, `chain` is an auxiliary variable that records the list the
operations meant to build, for `ListIntact` to compare with the links. `Lock` is
the exchange that finds 0; an exchange that finds 1 changes nothing and is
therefore a stutter. `Peek` and `Unlink` are the two halves of `GetCachedPage`,
`Link` and `Push` those of `AddPageToCache`.

`Kalloc`: `header[p]` is the slab header at the start of page `p` (bucket, free
count, marks); `m_partial`, `m_full` and `m_empty` hold each bucket's lists;
`m_mutex[b]` and `lgBucketMutex` name the holder of a lock; `lgBuckets` and
`PagePtr` are the hash table and the metadata; `th[t]` holds a thread's place
and locals. A critical section that touches only what its lock guards is one
step (`AllocateItem`, `ReturnItem`, `InsertLarge`). One that leaves it, for the
page pool or for the counter that no common lock guards, is several
(`LockBucket`, `TakeSlab`, `SetupSlab`; `FindPage`, `ReleasePage`,
`ClearPagePtr`, `UncountPage`, `PushMeta`; `CallGC`, `Collect`, `UncountSlab`).
Between `ReleasePage` and `ClearPagePtr` unlinked metadata names a page that may
have another owner already (`Stale`). The operations of the page pool and of the
metadata stack, each inside a lock of its own that no other lock is taken under,
are single steps. The `++` and
`--` of `kallocAllocatedPages` are a load and a later store. The load is taken
with the pool operation before it, which leaves at least the interleavings in
which a store falls between the load and the store of another thread. A pointer
is `<<page, slot>>`, with slot 0 for the page itself. The request sizes are the
bucket indices `IndexFromSize` gives, one size above `MAX_ITEM_SIZE` and one
beyond a page (a panic: `halted`). `MaxItems` bounds the slots of a page; the
first request of a size that no bucket has is refused without a look at any
lock, which is `RefuseAtOnce` of `Heap`. On i386 a write to the null page is a fault,
also `halted`; on x86_64 the boot page tables map page 0 and the writes there
touch nothing the heap reads.

`BootMemory`: the members of `boot::ArgumentData`, with `MemoryMap` a sequence of
`MemoryMapCount` ranges, and the page allocator's list. The loops over the table
are written as what they do to it: the bubble sort as a stable sort, the merging
pass as a fold, the loop of `KnockoutUsedMemory` as one range to one range up to
the entry where it stops. Addresses are numbers; the last address of a range is
taken modulo the width of an address, as `End()` computes it. `AddMemoryMap` has
no caller in the kernel; its comment and its tests give the states it may be
called in.

`PageTables`: `mem` holds every frame as words, and a word is a page entry. A
page table is whatever frame the code's arithmetic reaches, so the masks of
`ToEntryIndex` and `ToDirIndex`, too wide in the code, are too wide in the
model. The frames the boot allocator gives are dirty (`Junk`); from `vmm::Init`
on the page allocator's owners write to theirs. `InitBootPages` maps one page
after the other, `MapToItself` and, for a page of the kernel, `MapToHighHalf`;
`booted` is its loop counter and `high` whether the second call is still to come.
`MapPages`, a recursive function over the run of pages, `UnmapPage` and
`GetPhysicalPageFor` are the callers' operations; the processor's own walk
(`Walk`) is what the properties look through.

`AvlTree`: `t` is the whole tree, its pointers functions on nodes, with the
sentinel `m_root` among them. Nothing runs beside it, so a call is one action;
what it does to the pointers on the way up, rotation by rotation, is a function
of the tree.

`LineInput`: `Keyboard` and `Terminal` are functions on records; an action
presses or lets go of a key and puts its scan codes in the queue, or `get_line`
takes one, turns it into a key and echoes it. The prompt and the longest echoed
line leave one row of the screen (in the code, 6 and 510 characters and 80
columns of 2000 cells), so that no scroll takes the prompt away while the line
is edited. `Shell`: a command is a record of
its arguments; each printed line is a step (`Text`, then `EndRow` for the
carriage return and the line feed), and so is the pause and the user's key. What
the text of a line is, is left out; so is that at a carriage return the pager's
`PAUSED` covers the start of the row just printed (`console.cpp:34`). A key typed
before the pager asks answers it, and counts as the user having read.

`Interrupts`: `stack` holds the words the vector, `isr_stub` and the processor
push, in their order; `frame` is where `handle_isr` finds its `registers_t`;
`pic` holds request, mask and service registers of both controllers; `at` is the
piece of code that runs, `todo` the port writes left of the boot, `saved` the context
that was interrupted, forgotten again when it goes on. A guard is two steps, the
count and then the instruction (`PushDisable` and `StopInterrupts`, `PopDisable`
and `StartInterrupts`); `at` is `"pushing"` or `"popping"` in between, where an
interrupt may come while the flag lets it. In `Machine` a step of the shell is `Work` of the
processor, some instructions with no interrupt between them, and the page fault
comes from the command that reads memory which cannot be read.

`AtaBus`: `at` is the place in `do_ata_command` or its caller; every read of a
status register is a choice among `Statuses`, so a drive may be slow, absent or
faulty at any moment. `received` records the commands and the blocks of data a
drive got. `counter` and `since` are the timer's; a reading moves the clock by
at least `KWait` counts, modulo `Period`. The block and start of interrupts around
each reading of the clock inside `kwait` itself (`timer.c:155`, `:159`) are left
out: they are a pair without a way out between them.

`Bitmap`, `SlabMarks`: `m_items[c]` is the set of bits that are 1 in cell `c`; `GetBit`
is the mask with the shift count taken modulo the width of an int, as the
processor takes it, and the sign extension to a wider cell. The three block tests
are functions of the cells, one for each layout `BlockTest` chooses. `NodeList`: `PrevOf`
and `NextOf` are the links in the nodes; `loop` is an iterator's place.
`Printf`: `pc` is the place in the format loop, `fp` and `s` the pointers,
`conv` the conversion's flags, `sbuf` the buffer.

## 3. The runs

| Run | Instance | Shows |
|---|---|---|
| `page_allocator` | 3 threads, 3 pages | pages, links and counters agree; calls complete; `PagePool` is implemented |
| `kalloc` | 2 threads, 3 pages, 2 buckets of 2 items | ownership of pages and items, null answers, the refinement of `Heap` |
| `kalloc_locks` | 2 threads, 2 pages, buckets of 2 and 3 items | lists against counts, kfree's unlocked reads, release of every lock |
| `kalloc_sizes` | 1 thread, 3 pages, the size class of `MAX_ITEM_SIZE` | violated: refused although pages are free |
| `boot_memory` | 16 pages of 2 bytes, 4 table entries, every order of up to 5 records of 10, 6 ranges to add | the map is exact and its entries apart; heap and boot pages are usable memory; no page is missed |
| `page_tables` | 64 virtual pages, 10 frames | frames used as tables are apart; paging is turned on with everything mapped; `AddressSpace` is implemented |
| `page_unmap` | the same, pages of the kernel's half unmapped | violated: the page is still mapped afterwards |
| `avl` | 5 keys in every order, 4 keys with data, the thinnest trees of height 5 | links and balances; `OrderedMap` is implemented |
| `line_input` | a screen of 3 by 2, a buffer of 3, 6 keys, 2 held at once | modifiers, echo, `LineEditor` is implemented |
| `machine` | 35 line ends, 25 rows, 3 map entries, the timer and a line of the second controller, 2 nested guards | nothing scrolls away unread, commands end, interrupts are not noticed, ticks are served |
| `library` | one building block per behaviour | marks, lists, boot pages, formatted text, functions, loaders |
| `ata_bus` | 2 drives, 6 statuses, 4 kinds of security, a clock of 3 counts | interrupts, order of commands, success, termination |

**Bounds.** Three threads let two be in a critical section, if the lock failed,
while a third waits; three pages give a list that is empty, of one and of
several pages, with a release by a thread that did not allocate. In the heap,
two buckets are the one that holds the metadata and a larger one that
`kalloc_small` falls back to. Two items to a slab make every allocation and
release move a slab; the third item of `kalloc_locks` adds the release that
moves none. With three pages, one of them in use from the start, two large
blocks share a hash bucket and the pool runs dry in all the places it can.
`EMPTY_MAX` is 0, so that the collector always has something to collect (4 in
the code). `CountMod` bounds the page counter; 1 is no counter.

In `boot_memory`, two bytes to a page are enough for an address to be on a page
boundary or not; the records have one that ends inside a page, kernel records
that end with the kernel, before the mark, after it, and one that starts below
the kernel and is split, and memory on both sides of the mark; the kernel ends
inside a page or at the end of one. Five records against four entries overrun
the table in the loader, two additions in `AddMemoryMap`, a split in
`KnockoutUsedMemory` (a panic).

In `page_tables`, tables of eight words make 64 virtual pages, and the masks are
one bit too wide (four in the code): the directory entries the kernel uses,
multiples of 16 in the code, are even here, and the callers' pages keep to
those, as the kernel does. The boot makes two tables in frames that are clear or
full of `Junk`; callers map pages one at a time and two in a row, of the identity
map and of the kernel's half, over and beside what is mapped. The passing run
unmaps and looks up pages of the identity map; the kernel's half is the subject
of `page_unmap`.

In `avl`, five keys reach every single and double rotation of insertion and
removal; twelve nodes are the fewest for which one removal rotates twice.
In `line_input`, two shorter rows wrap, scroll and take a backspace back over a
row's end; a key, a plain modifier and one with an extended code are pressed and
let go in every order; two scan codes queue.
`machine` has the code's own numbers of line ends and rows: dumps of no, one
and several rows, of two pages of output, and one that ends in unreadable memory
during the second. `TypeAhead` is one key waiting before the pager asks.
`MaxNest` 2 is the least with an inner guard; a request on the second
controller needs both acknowledgements, and a spurious one neither or one.

In `library`, ten items in cells of four bits have more than one full cell and
an end inside a cell; three nodes have a first, a middle and a last; boot pages
come in up to three at a time from up to two mappings, at most `MaxHeapPages` of
the boot heap; formats of up to two directives of seventeen kinds meet buffers
from 1 to 24, and a 32-bit argument wraps at 1024, which some arguments have
above their top bit. The arguments of functions are exhaustive over small
memories (five to eight bytes of two or three values; a byte has four, so that 2
has the sign bit), words of 8 bits, alignments of 6 (`UintBits`; 32 of 64 on
x86_64) beside those of the full width (i386), bitmaps of each layout of cells,
sets of flags, ranges at both ends of the addresses, texts of up to five
characters, every boundary of a size class, 128 tables, 256 boot records.
In `ata_bus`, `Period` 3 and `KWait` 2 keep the ratio of the code, where a wait
lasts 11931 of the clock's 11932 counts: a reading sees nearly every turn end
where it began.

**Deadlock** is checked in `page_allocator` and `ata_bus`. Elsewhere the
behaviour may really stop: a panic or a fault halts the kernel (`kalloc*`,
`machine`, where `LocksReleased` and `CommandEnds` say what a deadlock would
break), the boot ends where the page allocator starts, a workload of the tree
ends, `get_line` may run into the assertion and stop with keys in the queue, a
call of `library` answers once and a formatted text is finished.

**Fairness.** In `PageAllocator`, some thread that can step does (`WF` of the
union): the exchange of a spin lock favours nobody, so no single thread is
promised the lock, and `CallsComplete` is stated for the threads together. In
`Kalloc`, each thread keeps running while it is not spinning (`WF` per thread):
the kernel runs each until it blocks.

`Machine` assumes weak fairness of what no interrupt can take away (the steps of
a handler, the start of the controllers, the panic's printing and halt, the end
of a guard) and strong fairness of four things. The instruction after a guard's
count: an interrupt between the two returns to it. The shell's own steps: an
interrupt disables them only until it returns, and ticks are further apart than
a handler is long. The delivery of a request: the processor looks at the line
after every instruction, so a request that waits while interrupts go on and off
is taken. The end of the outermost guard: guards are local objects, and code
that opened one leaves it. The user is assumed to answer the pager.

`AtaBus` assumes that the driver goes on (`WF(Step)`), and that the readings of
the clock are not for ever a whole number of its periods apart (`SF` of a
reading that makes progress). Without the latter a timeout never comes: see
below.

### What the violated runs say

`PROJECT.json` quotes the lines.

* `kalloc_sizes`: `MAX_BUCKET_INDEX` serves both as the last index and as the
  exclusive bound, so that sizes from 1921 up to `MAX_ITEM_SIZE` are never
  served.
* `page_unmap`: `doUnmapPage` passes the directory entry where `GetPageTable`
  takes a virtual address. For the identity map the two agree in the digits that
  matter; in the kernel's half the page stays mapped and another one loses its
  entry. `doGetPhysicalPageFor` does the same.

### Other differences from the docs, the tests or the intention

These have a definition in the module, marked as not kept, or are a
precondition of a checked property. To see a counterexample, make the definition
the one INVARIANT (`ContainedAddIsNoop`, which is about steps, the one PROPERTY)
of the module's configuration, with the constants changed as given here and
without SYMMETRY.

* `Kalloc!AllocatedPagesCounted` (`MCKalloc.cfg`, `CountMod = 8`, `Threads <-
  MCOneThread`, `Pages <- MCTwoPages`): the statistic `pages allocated` is raised before the null check
  (`kalloc.cpp:187`) and never corrected.
* `Kalloc!OutOfPagesIsAnswered` (`NullFaults = TRUE`): `small_bucket.cpp:122`
  prepares an answer for a null slab that cannot arrive, since the slab has been
  constructed at address 0 by then (`small_bucket.cpp:51`).
* `BootMemory!ContainedAddIsNoop` (`EndsShared = TRUE`): `Contiguous`
  (`memory_range.h:131`) asks for one end to be below the other, so a range
  inside an entry that ends with it is kept beside it, and `InitBootPages` would
  list a page twice; compare `test_kernel_args.cpp:127`. `boot_memory` leaves
  such additions out (`MayBeAdded`).
* `BootMemory!HeapFollowsKernel`: the boot heap goes to the first record above
  the kernel that is as long as the kernel (`preinit.cpp:79`, `:114`); where that
  is above the identity mark, no boot page is left above the heap.
* `SlabMarks!MarksExact` (`MCLibrary.cfg`) with `CellBits = 8`, `IntBits = 4`, `BITS = 32`,
  `m_itemsPerSlab = 12`: the mask of a bitmap is an int shift
  (`bitmap.h:60`), wrong from bit 31 on where cells have 64 bits. So `Kalloc`'s
  sets of marks are exact on i386, and on x86_64 only while no more than 31 items
  of a slab are in use.
* `LineInput!NeverPastBuffer`: at its limit `get_line` rings the bell and keeps
  the character all the same (`console.cpp:188`); the next key, Enter and
  Backspace included, is one past the buffer, where the span's assertion halts
  the kernel. `LineEditor` has that end as its `Fail`.
* `LineInput!ExtendIsPrefix` (`KeySet <- MCArrows`): only a regular key takes the
  extend flag away again (`ps2kbd.cpp:312`, against the comment at `:41`), so an
  extended shift, lock or keypad key leaves it set and the next ordinary key is
  ignored. Letting go of one of two held shifts clears the flag of both;
  `NoStuckModifier` therefore speaks of no key held.
* `FunctionsAgree` leaves out `strncat` with one byte left and a source as long
  as the buffer (`strncat.c:18`), and `next_pow2`, of which `next_pow2(640)` is
  2048 (`bit.h:177` says 1024). Of three more it asks for less than their comments
  or C promise; the promises are definitions that TLC refutes with
  `MCLibrary.cfg`. `CutCopyEnds`: a `_s_strncpy` whose source is cut at its size,
  below a larger buffer, has a terminator in the last byte only, with what was
  there before in between (compare "ALWAYS terminate", `_s_strncpy.c:9`, and
  `test_bounded_string.c:25`). `StrncmpOrders`: `strncmp.c:12` subtracts plain
  `char`, which has a sign on x86, so bytes from 128 on come before the others.
  `MsbIsABit`: `msb` gives the bit above the highest (`bit.h:60` against `:54`).
* The mask of `AlignFloor` and its kin is a 32-bit `uint` (`align.h:26`, `:36`),
  which on x86_64 clears the upper half of an address. `FunctionsAgree` asks for
  the nearest multiple on i386, and on x86_64 only below 4 GB.
* `LoadersAgree` compares command lines of seven characters only: `GetStr` of
  multiboot 2 reads from the right place for those alone (`multiboot2.h:51`).
* `AllocRealMemory` finds a free page and does not mark it (`realmem.cpp:81`).
* `BootAllocator!NeverPastMapping` (`MCLibrary.cfg`): free pages are counted from
  the start of the mapping, not of the heap (`boot_allocator.cpp:62`), so that
  where the kernel is in the mapping too pages past its end can be handed out. And
  where the mapping ends at 4 GB or above, `AlignFloor` leaves only the lower half
  of its end (`boot_allocator.cpp:49`), and the number of pages wraps or is too
  small. `EveryPageOnce` asks for the end only where the mapping starts with the
  heap and ends below 4 GB; that no page has two owners it asks for everywhere.
* `vsnprintf` puts a sign before the blanks of its padding, takes the percent
  sign after a percent sign for the start of another conversion, never pads
  `%s` with zeros, and reads the argument of `%u`, `%x`, `%X`, `%o` and `%p` as an
  `int32_t` that it widens with its sign (`vsnprintf.c:247`), so that a value with
  the top bit set, such as any address of the kernel's half on i386, is printed
  with 16 digits. `FormatsAsC` asks that everything stays in the buffer for all
  formats, and for the text of C for those without these (`Standard`).
  `Printf!UnsignedAsC` (`MCLibrary.cfg`) asks for C's text of the last.
* `BootPagesUsable` is about records that end on page boundaries: the last
  partial page of another is taken for a page (`page_allocator.cpp:124`).
* `page_tables`: entries outside the even directory slots reach another frame
  (`paging.h:58`); a table made after `vmm::Init` takes a frame the page allocator
  owns (`paging::Init` has no caller), so callers keep to tables the boot made; `MapPages`' roll-back never has anything
  to undo, since only the first page of a run can fail.
* `ata_bus`: ERR is not looked at after a command without data (`ata.c:217`), so
  the success `WipeComplete` speaks of is that the commands were sent, in order;
  `kwait(100)` sleeps for nearly a whole turn of the counter, so a timer read
  once per wait sees little of the time that passes, and timeouts take far
  longer than their milliseconds.

## 4. What each property is for

* `NoPageSharedOrLost`, `ListIntact`, `ReadsStillTrue`: the pages and the list,
  related through `chain`; the two halves of a list operation belong together.
* `CallsComplete`, `ImplementsPagePool`: what callers of the allocator see.
* `PageHasOneUse`: exactly one of the pool, a list of a bucket, a metadata item
  or a thread has each page, at every step.
* `ItemHasOneOwner`: an item is marked exactly while a caller, a thread,
  `lgBuckets` or the free stack has it.
* `ListsMatchCounts`: whenever a bucket is unlocked.
* `BucketStableWhileHeld`: what makes the unlocked reads of `kfree` safe.
* `NullOnlyWithoutPages`, `LocksReleased`, `ImplementsHeap`: what callers see.
* `MapExact`: the memory map as a set of bytes in entries apart, at every step.
* `HeapUsable`, `BootPagesUsable`, `BootPagesComplete`: what the map is used for.
  The last holds while the map is in order: a split puts its upper part last, and
  `InitBootPages` returns at the first address past the mark.
* `TablesApart`: the directory and the tables have a frame each, which the page
  allocator does not hand out.
* `KernelReachable`: when paging is turned on, the identity map, the tables in
  it and the kernel's half are there, for the kernel only, and page 0 is not.
* `ImplementsAddressSpace`, `UnmapRemoves`: what the processor finds is what was
  mapped last; no other page changes.
* `LinksAgree`, `Balanced`, `ImplementsOrderedMap`: parent links and order,
  recorded balances against heights, the answers against a map.
* `NoStuckModifier`: the flags of the automaton once no key is held and every
  code is read. `EchoMatches`: the cells against the prompt and the line.
  `ImplementsLineEditor`: the line against the keys.
* `NothingScrollsUnread`: no row leaves the screen before the user was asked.
  `CommandEnds`: every command comes back to the prompt with paging and guards
  off, or the kernel halts. `InterruptsTransparent`: interrupted code goes on
  with its registers, flag, stack and place, guards hold interrupts off, nothing
  stays in service, and only faults halt. `TimerServed`: ticks go on.
* `MarksExact`, `ImplementsDeque`, `LoopSeesAll`, `EveryPageOnce`, `FormatsAsC`,
  `FunctionsAgree`, `LoadersAgree`: the building blocks.
* `InterruptsKept`, `WipeComplete`, `EraseIsArmed`, `CallsEnd`: the disk driver.

## 5. The proofs

Each theorem holds for every value of the constants that the module's own
assumption admits, and for the hypotheses named here, if any. Every one rests on
an inductive invariant: the property a run checks, strengthened until each step
keeps it.

| Module | Theorems | Hypotheses beyond the modules' assumptions |
|---|---|---|
| `PageAllocatorProofs` | `TypeCorrect`, `LockExcludes`, `PagesAreSafe`, `ListStaysIntact`, `ReadsStayTrue`, `Refinement` | none: any threads, any boot chain of distinct pages |
| `KallocProofs` | `HeapTypes`, `PagesHaveOneUse`, `ItemsHaveOneOwner`, `SlabsAreListed`, `HeldSlabsKeepTheirBucket`, `HeapIsImplemented`; `NullMeansNoPages` | none: any threads, pages, buckets, hash; the last one: nobody asks for the size class `MAX_BUCKET_INDEX` |
| `SlabMarksProofs` | `MarksAreExact` | `CellBits <= IntBits` |
| `LineInputProofs` | `LineInputTypes`, `NoModifierSticks`, `EchoIsLine`, `LineEditorIsImplemented` | none: any keyboard, screen, buffer, prompt that leaves a row |
| `InterruptsProofs` | `InterruptsLeaveNothing` | faults are vectors below 32, devices are lines of the two controllers |
| `MachineProofs` | `ShellIsNotDisturbed`; `RowsAreRead` | none beyond `MachineAssumption` (devices as above); the second: `Fits`, the screen is high enough for the pager's count |
| `PageTablesProofs` | `PageTablesTyped`, `TablesStayApart`, `KernelIsReachable`, `PageTablesImplement` | `Layout`: where the kernel and the boot heap lie, and which pages callers map, unmap and look up |
| `AtaBusProofs` | `InterruptsStayKept`, `WipeIsComplete`, `EraseOnlyWhenArmed` | none: any statuses, securities, period and timeouts |

A hypothesis that is not about what the hardware is, is where the code fails:
without it `kalloc_sizes`, the 64-bit cells of `SlabMarks` or `page_unmap`
(section 3) is a counterexample. `Fits` says 39 < 50 of the code.

**Page allocator.** `IInv` adds `RegistersMatchPc` (at which places a thread's
register holds a page) to the properties the run checks; without it nothing says
that the page a thread is about to link is a page at all. The lock word is 1
exactly while one thread is inside, so each step inside meets the list as the
thread's previous step left it. Four lemmas about sequences carry the list
operations. In `Refinement`, calls, `Unlink` or an empty `Peek`, `Push`, a read
of a counter and `Unlock` map to the pool's actions; `Lock`, `Link` and a
non-empty `Peek` to stuttering.

**Kernel heap.** `PageHasOneUse` and `ItemHasOneOwner` count: of the places
where a page or an item may be, exactly one has it. Counting is a bad invariant
to reason with, so `KallocInv` says that there are functions which tell the use:
`kind` and `which` give each page its use and the bucket, metadata or thread
that has it so, `keeper` and `whose` do the same for pointers, and every variable
is what these functions say (`PagesUsed`, `SlabsListed`, `HeadersTell`,
`PointersKept`, `MetasListed`, `ItemsMarked`, `PagePointersKept`). An action
changes the functions at the pages and pointers it moves. `ThreadsCoherent` says
what the locals of a thread hold at each place in the code; `HeadersTell` ties
the free count to the marks. `UsesOfPage` and `OwnersOfPointer` derive the
counting forms at the end. Metadata whose page is back in the pool but whose
`PagePtr` is not yet cleared is set apart as `Stale`: it is a thread's, at that one
place, in no bucket, so nobody else can find the page through it. `HeldSlabsKeepTheirBucket` is the reason why `kfree`
may read a slab's header without the lock. `NullMeansNoPages` adds `Dry`: at which
places a thread knows that the pool was empty. For `HeapIsImplemented`, a pointer
handed on is a block, whose memory overlaps no block that is taken because it is
marked, or is the page of large metadata (`NoneOverlap`); the step that finds the
memory is `Grant`, the one that takes it back `Reclaim`, all others stutter.

**Slab marks.** Every index is a cell and a bit of it, and back (`PlaceOfBit`,
`BitOfPlace`); below the width of the integer the mask is that bit (`MaskIsBit`);
setting, clearing and testing therefore are the operations on sets that `Kalloc`
uses. The search of `FirstClear` is the least index that is not marked
(`FirstClearIsLeast`), which the code needs: an index past the slab's items would
be an item of no slab.

**Line input.** The parts of `LineInv` are proved one after the other.
`EditorTypes` and `DriverTypes` hold since scrolling brings the cursor back to
the screen from wherever a tab or a line end left it (`ScrolledIsScreen`).
`KeysHeld` looks through the queue: if the codes that wait would leave a modifier
set, a key for it is down. `LineShown` is the echo together with the room that is
left: a character put where there is a row beside the text never scrolls the
prompt away (`PutcharShows`), a backspace takes one cell back over any row's end,
Escape is as many backspaces as there are characters. `terminal_write` is a
recursive function over a text; what is shown after each character is proved by
the least counterexample (`LeastNatural`, `CountingUp`), which needs no induction
theorem. The proof showed an overlap of two cases in the first version of
`Keyboard`'s table of scan codes (the prefixes were also among the ignored
codes, and TLC takes the first that fits); the table now names each code once.

**Interrupts.** `Processing` is the relation between the place, the flag and the
guards' count, and `FlagAt` what the flag has to be at each place of the kernel's
own code, between a count and its instruction too, so that an interrupt which
returns to that place finds it so again; `Saving` says word by word what the stack holds at each place
between the delivery and the return; `Controlling` what is in service, and that
the ten port writes of the boot move the vectors away from the exceptions'
before any interrupt is let in. `StepIsTransparent` follows from these for each
step. `MachineProofs` instantiates the module, so that the theorem is about the
kernel that runs the shell: `Shell` steps are the kernel's work, the page fault
is the one fault.

**Pager.** `RowsAreRead` is a sum: a row is a carriage return and a line feed,
each of which `pause_check` counts, so that twice the unread rows never exceed the
count by more than `Slack`, which is 0, 1 or 2 and depends on what is left of the
command: a pause can come between the two, and the panic's first line begins with
a line feed. For that `ScreenInv` keeps the shape of what is left
(`Ordered`): every carriage return has its line feed behind it, and the pager is
turned on at the head only. That every command has that shape, whatever range it
dumps, is a statement about the concatenation of any number of rows
(`WholeFlatten`), proved by the least number of rows for which it fails.
`ShellSteps` carries it to the machine, where a page fault replaces the rest of a
dump by the panic's text at any place.

**Page tables.** `PageInv` says, of the memory and the boot allocator's next
frame: every table that is there has a frame of its own between the directory and
that frame, only the two directory entries of the identity map and of the
kernel's half are used, and as many frames are taken as entries are made
(`Tables`). The last is what bounds the boot heap: a third table would have no
room. `BootMapped` is what the boot's loop has mapped so far. A word that is
stored changes one page's walk, since no two pages share a word and no table is
the directory (`SetEntry`); a table that is made changes none, since its frame is
cleared first (`AddedTable`); so `doMapPage` changes its page and no other
(`MapsOne`), and `MapPages` its run of pages, by the least count for which it
would not (`MapsAll`). Each call is then a `Serve` of `AddressSpace`, and so is
each of the boot's; the start of paging, `vmm::Init` and what owners write are
stutters.

`Layout` has two parts. Where the kernel is: its half starts on a multiple of 64
MB, so that the mask that is four bits too wide (`paging.h:58`) does no harm at its
start, and the boot heap begins three frames below the end of the identity map at
least. What callers keep to: pages for which that mask is harmless and whose table
the boot has made, since a table made later takes a frame the page allocator owns;
kernel mappings only, as all calls in the kernel are; a run is not empty; and
unmapping and looking up in the identity map only, of which `page_unmap` shows the
need. `MCPageTables` is an instance of it.

**Disk driver.** `Nesting`: the count of blocked interrupts is what the caller
had, plus one inside a command, plus one inside a reading of the clock. `Calls`
and `Progress` give, for each routine and place, the exact commands the drive has
received so far.

Only model-checked:

* Liveness: `CallsComplete`, `LocksReleased`, `CommandEnds`, `TimerServed`,
  `CallsEnd`. Temporal proofs under fairness are beyond the prover.
* What folds and recursive functions compute for every input: `Strings`, `Words`,
  `Printf`, `PageArithmetic`, `PageTables64`, `Multiboot` and the tree of
  `AvlTree` (`LinksAgree`, `Balanced`, `ImplementsOrderedMap`), since induction
  over data is out of the prover's reach; the least counterexample replaces it
  where a statement is about the numbers up to a bound, as in `MapsAll`, but not
  over the shape of a tree. `library` and `avl` check them over bounded inputs.
* `MapExact`, `HeapUsable`, `BootPagesUsable`, `BootPagesComplete` of
  `BootMemory`: sorting and merging are folds over the table. `LoopSeesAll` and
  the refinement `NodeList` to `Deque`, and `EveryPageOnce` of `BootAllocator`,
  are within reach and not proved.

## 6. What remains

Worth proving next, in this order:

1. `BootMemory`: `MapExact`, with the merge as a fold, by the least length of the
   table for which it fails; then `BootPagesUsable`, which `PageAllocator` assumes
   as `BootChainAssumption`.
2. `NodeList` refines `Deque`; `BootAllocator` never gives a page twice.

### Not modelled

* `operator new` and `delete`: a call of `kalloc` or `kfree` and a panic.
* `vpage_map.cpp`: not in the kernel's build, and does not compile against its
  header.
* Descriptor tables and port access (`gdt`, `cpu.S`), translation-buffer
  invalidation: instructions without a protocol of their own.
* Serial port and debug console: polled output, one character at a time.
* The run-time support of libkpp, the unit tests (read as statements of what the
  code should do), scripts and images.
* The rest of the attic (`process.c`, `kheap.c`, `klist.c`, `paging.c`,
  `display.c`, `keyboard.c`, `desctab.c`, `machine.c`): superseded by what is
  modelled, not built. Of `work`, `PageFrameAllocator` (no caller; its
  constructor links one node into all its buckets), `SlabAllocator` (a sketch)
  and `CppTest.cpp` (prints).
* Partly modelled: what is left out of a component is named in its note in
  `PROJECT.json` (colours and the cursor's ports of the terminal, the stubs and
  the start-up loop of x86_64's page tables, the assembly before `Preinit`).
