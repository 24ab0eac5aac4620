# HegelOS: a verification project

TLA+ models of the HegelOS kernel (`kernel/`) and of the C library it is linked
with (`userspace/libraries/`), the TLC runs that check them and the theorems
TLAPS proves about them. Paths below are relative to the repository.

## The system

HegelOS is a 32-bit x86 kernel. GRUB loads it with a multiboot2 record; it
builds a physical page allocator from the memory map, identity-maps itself and
its boot modules, opens a CGA text terminal, and reads a tar file of the boot
modules into a file system of directories and files. There is one address space
and one thread of control, interrupted by the timer; a scheduler for threads
exists under `kernel/kernel/ignore/` and is left out of the build.

| component | state | operations | interacts with |
|---|---|---|---|
| physical allocator, `memory/Physical.cpp` | bitmap `MEMORY`, hint `best_bet`, counters | `physical_alloc`, `physical_free`, `physical_set_used`, `physical_set_free` | called by the memory manager and by page-table allocation |
| memory manager, `memory/Memory.cpp` | none of its own | `memory_initialize`, `alloc`, `map`, `map_identity`, `alloc_identity`, `free` | physical allocator, page tables |
| page tables, `x86_32/paging/Paging.cpp` | page directory, 256 static tables, tables allocated later | `virtual_map`, `virtual_alloc`, `virtual_free`, `virtual_present` | calls back into `alloc_identity` for a table |
| heap, `libc/__alloc__.cpp` (liballoc) | list of major blocks, lists of minor blocks, `l_bestBet`, counters | `malloc`, `free` | `memory_alloc` and `memory_free`, plugged in by `kernel/__plugs__.cpp` |
| memory lock, `kernel/__plugs__.cpp` over `libsystem/SpinLock.h` | one spin lock | acquire, release, is_acquired | held by the heap, read by the scheduler |
| boot information, `bootdata/Multiboot2.cpp` | `Bootdata`: memory map, modules | `get_bootdata` | read by the memory manager and by the modules |
| terminal, `libterminal/Terminal.cpp`, `libsystem/Unicode.h`, `device/CGATerminal.cpp` | cells, cursor, parser state, UTF-8 decoder | `write_byte`, `write_codepoint`, `move_cursor`, `scroll` | output of `printf` and the logger |
| scheduler and tasking, `ignore/scheduling`, `ignore/tasking` | running thread, ready and blocked lists, two spin locks | `schedule`, `start`, `block`, `sleep`, `join`, `exit` | timer interrupt, memory lock |
| reference counting and ownership, `libsystem/RefPtr.h`, `RefCounted.h`, `OwnPtr.h` | counts; one owner per object | copy, move, assign, compare, destroy | the scheduler, the terminal |
| linked list, `libsystem/LinkedList.h` | nodes, count | push, pop, peek, remove, sort, `foreach` | the scheduler, the file system, the kernel's lists of callbacks |
| file system, `fs/` | tree of directories and files | create, look up | filled by the boot modules |
| boot modules, initrd, tar, `modules/`, `libsystem/Tar.cpp` | none | `modules_initialize`, `ramdisk_init`, `TarBlock::read` | boot information, file system |
| system, `system/System.cpp` | tick, dump callbacks | `PANIC`, `system_tick` | everything |
| interrupts, `x86_32/interrupts` | IDT, PIC | initialize, handler, acknowledge | `system_tick`, the scheduler |
| printf, `libc/printf/` over `libc/string.cpp` | the state of one call | `__printf`, `strnapd` and its like | the terminal, the logger |
| others: segmentation, CPUID, serial port, PIT, ACPI, SMBIOS, graphics, the other strings | | straight-line hardware set-up, byte loops | |

What is hard here is not the size of any function but the combinations: calls
that arrive in any order and leave state behind; a page table allocated from
inside the loop of a caller that holds frames it has not mapped yet; hints and
counters that a search trusts; errors half way through a loop; and, in the
scheduler, a timer interrupt between any two instructions. `PROJECT.json` lists
these hazards, each at its line and with the properties that cover it.

What makes each component right:

- physical allocator: it never hands out a reserved or a used page, hands out
  the lowest run of free ones, panics only when none in its reach is left, and
  counts what it uses;
- memory manager and page tables: a frame that can be written through is marked
  used and mapped once; page tables stay reachable; a client's mapping does not
  change under it; frames are conserved; calls return or panic;
- heap: blocks are disjoint, the pointer returned is aligned and inside its
  block, counters are exact, no dangling best bet, no growth while there is room;
- terminal: the cursor ends where it was sent, every codepoint is processed in
  finite time, no parameter survives its sequence, the display shows what the
  cells hold; the decoder inverts the encoding and recovers from damage;
- scheduler: a thread is running or on exactly one list, a blocked thread wakes
  up when it should and not before, nobody is switched away holding a lock that
  the next thread needs;
- reference counts: an object lives exactly as long as it is pointed to;
  exclusive ownership: every object has one owner, and is deleted with it;
- linked list: it is a sequence, and `foreach` misses no node whatever its
  callback does to the list;
- boot information: what is kept of the memory map lies inside what the boot
  loader said, and adds up to no more than `memory_usable`;
- file system: a map from paths to contents; boot modules: every file of the
  archive is found under its name, and the boot ends;
- printf: the output is what the format asks and stays in its buffer, and the
  call returns;
- interrupts: an acknowledgement ends the line of the handler that sends it,
  every tick is counted once, every request is served.

## The modules

| module | what it is |
|---|---|
| `FrameAllocator` | abstract specification: what the kernel expects of a physical page allocator |
| `Physical` | `Physical.cpp` and the start of `memory_initialize`; refines `FrameAllocator` |
| `Memory` | `Memory.cpp` and `Paging.cpp`, on top of `Physical` (it EXTENDS it and calls its operators) |
| `Heap` | liballoc, on top of the kernel's memory calls |
| `Terminal` | `Terminal.cpp`, with what the CGA display keeps of it |
| `Unicode` | `UTF8Stream`, the decoder in front of the terminal, and a writer that cuts codepoints |
| `RefPtr` | `RefPtr.h` over `RefCounted.h` |
| `OwnPtr` | `OwnPtr.h` |
| `LinkedList`, `Deque` | `LinkedList.h`, and the sequence it implements |
| `Scheduler` | threads, blockers, three spin locks, the timer |
| `Boot` | `get_bootdata` of `Multiboot2.cpp` and the rounding of `MemoryRange.cpp` |
| `FileSystem`, `FileStore` | `fs/`, and the map from paths to contents it implements |
| `Ramdisk` | `modules_initialize`, `ramdisk_init`, `Tar.cpp` and `main`, on top of `FileSystem` (it EXTENDS it) |
| `Printf` | `printf_impl.cpp`, `numbers.cpp`, `printf.cpp`, and the strings below them |
| `Interrupts` | gates, entry and return, handler, acknowledgement, tick, with two 8259 controllers |
| `PhysicalProofs` | theorems about `Physical` and `Boot` |
| `MemoryProofs` | theorems about `Memory` |
| `SchedulerProofs`, `InterruptsProofs` | theorems about the module of that name |
| `TerminalProofs` | theorems about `Terminal` and `Printf` |
| `LibsystemProofs` | theorems about `OwnPtr`, `RefPtr`, `Unicode` and `LinkedList` |
| `StorageProofs` | theorems about `FileSystem`, `Ramdisk` and `Heap` |
| `Induction` | lemmas on least elements, induction and recursion up to a number or along a chain of smaller ones, and remainders, which the others cite |
| `MCPhysical`, `MCMemory`, `MCHeap`, `MCTerminal`, `MCLibsystem`, `MCRefPtr`, `MCScheduler`, `MCRamdisk`, `MCPrintf`, `MCInterrupts` | the instances TLC checks |

Three instances hold several independent systems: `MCPhysical` (the boot
information and the allocator), `MCLibsystem` (four classes) and `MCRamdisk`
(the boot, and the file system alone). A behaviour chooses one of them at its
start and stays with it, so each is checked exactly as if it were alone.

Operators whose name ends in an underscore and a few words (`set_free_KeepsHint`,
`Visits_NoRestart`, ...) and whose comment begins with "Bug:" are variants of
the definition that follows them, with one plausible mistake. No specification
uses them; they are there to show that each property notices its mistake.

### Physical

State: `MEMORY` is the set of pages whose bit is 1, `best_bet` and `USED_MEMORY`
are the variables of that name, in pages; `panicked` says that `PANIC` has
stopped the machine. `PhysicalInit` is the state `memory_initialize` reaches
before it maps anything. Each call is one step: `physical_set_used` and
`physical_set_free` stand for their loops, in closed form (the loop moves
`best_bet` past pages it marks in ascending order, so it ends at the first page
it did not newly mark), `Candidates` for the loop of `physical_alloc` with its
unsigned bound. Callers free only pages the memory map offered, because they
only free what `physical_alloc` returned; they may free it twice. The
assumption `PhysicalAssumption` is what `Multiboot2.cpp` guarantees: entries are
aligned inwards while `memory_usable` adds their raw lengths. `Boot` checks it.

`handed` is auxiliary: the pages `physical_alloc` has returned and nobody has
freed since.

`FrameAllocator` is what the kernel may expect: a call hands out the lowest run
of free frames in all of memory, and panics only when there is none. `Physical.cpp`
keeps the first half and not the second, and no text in the repository rules
that out. Line 46 searches while `i < (TOTAL_MEMORY - size) / ARCH_PAGE_SIZE`. The
bound is strict, so the last frame below `TOTAL_MEMORY` is never handed out; and
`TOTAL_MEMORY` is the sum of the lengths of the available entries
(`Multiboot2.cpp:113`), not where memory ends, so behind a hole as long as the
ROM below 1 MiB as many frames again are lost. `OutOfReach` names all of these
frames, and `ImplementsFrameAllocator` excepts them and nothing else: a call
panics only when every run of free frames of its length touches one of them. With
`OutOfReach` empty the property fails.

Run `physical`: 10 pages with a hole of two, so that runs are cut, and requests
larger than memory wrap. `TOTAL_MEMORY` is 9, so frames 8 and 9, both available,
are out of reach: the kernel panics with the two of them free.

### Boot

State: the memory map, `memory_usable` and the modules of `Bootdata`, the tag
`for_each_tag` is at, and, auxiliary, what the boot loader has said so far
(`entries`, `loaded`). Rounding is done in arithmetic modulo `Limit`, as the
unsigned types of the code do. `KeepsPhysicalAssumption` says that what is kept
lies inside what was said, that modules are covered by their ranges, and that
`PhysicalAssumption` holds. One case is excepted by name (`TooShort`): an
entry that holds no page boundary makes the subtraction in
`from_non_aligned_address` wrap to nearly all of memory. Nothing in the
repository says that a boot loader reports none.

The boot loader is environment: disjoint entries in ascending order (what ends
above 4 GiB is skipped), modules above the first page. Run `physical`: an
address space of four pages of four bytes, entries that start and end on both
sides of every page boundary, up to three of them for an array of two, and up
to two modules for an array of one.

### Memory

State: `pd` (which page directory entries beyond the 256 static ones have a
table, and its frame) and `pte` (the frame each page maps) are the page tables;
`pc` and `call` are the loop the kernel is in and its locals. A call is split
into the iterations of its loops. This matters because `virtual_map` may call
`alloc_identity` in the middle of a caller's loop. The nesting in the code is flat in the
model: `VirtualMapTable` is one iteration of `virtual_map` that needs a table,
with the whole of `alloc_identity` in it: search, `physical_set_used`, the
nested `virtual_map` of one page (its own table is static and always there), the clearing of
the table. `map` calls `virtual_map` once per page; `alloc`, through
`virtual_alloc`, and `map_identity` call it once per range. An assertion that fails is a panic.

`owned` and `lost` are auxiliary: the pages clients hold (what `alloc` and `map`
gave them and `free` has not taken back) and the frames `map` forgets when
`virtual_map` fails. Clients are environment: they may call `alloc`, `map`,
`map_identity` of a device and `free` in any order, with pages they hold or
pages that are not mapped; they do not free the kernel's pages, nor a page
table, nor a device.

Boot is part of the behaviour: the kernel image, the modules, then page zero.
The boot ranges are assumed to lie below 1 GiB, as everything the static page
tables map; a module above it would make `virtual_map` allocate a page table
before the frames of the later modules are marked used.

Run `memory`: 10 pages of both memory and address space, 2 entries to a page
table and 3 static tables, so that there are two directories whose table must
be allocated, requests of up to 3 pages that span two tables, exhaustion of
physical memory, of kernel addresses and of frames for tables. Deadlock is not
checked, here and in the other runs, because a panic stops the machine.

Fairness: `MemorySpec` is weakly fair in `KernelStep`, the continuation of the
call under way: the processor goes on executing. Nothing is assumed of clients.

### Heap

State: `majors` is the list from `l_memRoot` with, in each major block, its list
of minor blocks; `l_bestBet`, `l_allocated` and `l_inuse` are the variables of
the code. `granted` is the kernel's side: the pages the heap holds. `malloc` and
`free` hold the memory lock from their first access to their last, so each is
one step. `malloc` is three actions: a gap is found (`MallocInGap`), none is and
a major block is appended (`MallocInNewMajor`), or the kernel panics
(`MallocPanic`). `Visits` is the order of the search: from the best bet if it has
more than enough room, and then again from the root. `FreeBlock` and
`FreeLastBlock` are the two ends of `free`. Sizes are in a unit of 8 bytes.

`malloc(0)` takes the ordinary path because the alignment is added first.
`free(nullptr)`, a second `free` of a block and a pointer with a wrong magic number only
log and count; they are left out, as is a `malloc` so large that its size wraps.

Run `heap`: four sizes, one of which needs 16 pages (so that giving it back
passes a page-aligned number, see below), and 18 pages, which is room for
several small major blocks or one large.

Run `heap_free` reports a bug. When the last block of a major block is freed,
line 396 passes `maj->pages` to `memory_free`, which expects bytes. The kernel
asserts that the range is page aligned, so an ordinary `free` panics the kernel.
The passing run keeps to the same behaviour: it stops at that panic, except when
the number of pages happens to be a multiple of the page size.

### Terminal

State: the fields of `Terminal` under short names (`cursor`, `saved_cursor`,
`attribs`, `params`, `params_top`, `state`), and `screen`: the array `_cells` and, beside it, what
the display was last told of each cell. `hw_cursor` is the position the display
was given. A codepoint is one step, except that `move_cursor` calls itself: each
activation is a step, `moving` and `delta` are its frame, so that endless
recursion is an endless behaviour. `MoveWrap`, `MoveAbove`, `MoveBelow` and
`MoveLand` are the four ways through it. `from` and `scrolled` (what was asked,
and how many lines it has scrolled) and `restored` (the cursor was last set by
`ESC [ u`) are auxiliary.

Three things the code does that look unintended, and no text in the repository
rules out, are in the model as they are and appear in the properties as named
exceptions. `move_cursor` left of column zero recurses for ever, because the
remainder of a negative number is negative (`LeavesToTheLeft`; a backspace in
column zero does it). `ESC [ u` does not move the display's cursor. And
the display is painted with other colours than the array of cells was built
with, so that a cell written with exactly those contents stays unpainted.
A separator beyond the last parameter indexes past the array: `corrupt` ends
the behaviour there.

Bounds: a behaviour has one `writer`, which keeps to a vocabulary: `values`,
the numbers a parameter may reach (a digit that would lead elsewhere is not
written), and `separators`, how many it writes in a sequence. Run `terminal`: a
screen of 2 by 2, two parameters instead of eight. One writer moves the cursor:
every control character and movement, a command that does not exist, up to two separators (one too many),
numbers 0, 1 and 4 (nothing, a step, more than the screen in either
direction); tabs cross four lines. The other paints: blanks, clearing,
scrolling and colours, including the pair (37; 40) that equals the contents the
array is built with. Fairness: weak, in `MoveStep`: the processor executes.

### Unicode

State: the three fields of `UTF8Stream`, and `output`, the codepoint the last
byte produced. The writer encodes a codepoint as RFC 3629 says and sends all of
its bytes, or a segment of them: strings cut at a fixed length. Run
`libsystem`: codepoints at both edges of every encoded length.

### RefPtr

State: the count and the orphan flag of each object, `ptr` and `scope` for each
pointer. Pointers are variables, or members of an object and live as long as it
does (`Owner`). Deleting an object releases its members, so one `deref` may
start a cascade: `releasing` holds the calls still to be made and `assigning` the
assignment that waits for them, since the code reads the other pointer
only after it has released the old target. Clients use the pointers they can
reach (`Named`), between operations.

Two ends of a behaviour are uses of memory that the code does not protect:
copying a null pointer (`fault`) and an assignment whose release deleted one of
its two pointers (`freed`). `ResetsHolding` says whether clients assign
`nullptr` to a pointer that holds an object. That is the bug of run
`refptr_reset`: `operator=(nullptr_t)` releases the object and goes on pointing
to it, so the destructor releases it again and the assertion of `deref` fails.
Run `libsystem` shows that everything else is right, for two objects with a
member each (chains and rings, a ring with itself included) and three variables.

### OwnPtr

State: the objects that exist, and `_ptr` of each pointer in scope; pointers are
variables or members, as in `RefPtr`. Nothing is counted: a copy takes the
object away from the pointer it copies. A comparison does so too, because
`operator==` takes its argument by value, and its temporary deletes the object
when the comparison is over. Deleting is one step with all that the
deleted object owned (`Reach`), since no destructor can come back to a pointer
a client can name. `given` are the objects a client took with `give_ref` and
has not handed to a new pointer. An assignment that reads a pointer its own
deletion has destroyed ends the behaviour (`misread`). Run `libsystem`: three
objects, two with a member, three variables.

### LinkedList

State: `_head`, `_tail`, `_count` and the memory of every node (`item`), with
the nodes that are allocated (`live`). Each call is a step, `foreach` one per
node: its callback may remove the value it was given (what the scheduler's
does) or push at either end before the walk goes on; `next` is the local of the
loop that holds on to a node across the callback. `sort` is its two nested
loops, exchange by exchange. A call on an empty list that asserts stops
the machine. `Deque` says what each call means for a sequence; `LinkedList`
implements it with the values met from `_head` as the contents. Run `libsystem`:
two values, four nodes, which are reused after deletion and interchangeable
(SYMMETRY; no property of that run is a liveness property).

### Scheduler

State: `running`, `ready`, `blocked` as in `Scheduling.cpp`; of each thread its
state, its blocker (a sleep is the ticks that are left of it), and where it is
in its code (`pc`, `update`); `cpu` is the thread that executes. The three spin
locks are variables that hold their owner. `update_thread_state` is split at
the lock and between leaving the old list and joining the new one; `yield` is
split where the lock is released and where the stacks change.

The handler of the timer calls `system_tick`; the call of `schedule` after it is
not in the source, and assumed, as it is what `schedule`'s signature and the
vector `yield` raises are made for. The gate is a trap gate, so a handler
entered by `yield` can be interrupted; one entered by the timer is not, since
the PIC sends nothing before it is acknowledged: `TimerSwitch` is one step.

Three outcomes end a behaviour (`stuck`). `spin`: the timer interrupts
`Thread::create` or `by_id` and wakes a thread that joined another; `cleanup`
spins for the lock that the interrupted thread holds. `clobber`: the timer
interrupts a `yield` between the release of the lock and the switch; the stack
pointer is saved as that of the wrong thread. `pop`: no thread is ready. TLC
finds that the first two are reached, and that the third is not (part of `ThreadsAreOnTheirLists`). `DueThreadsRun`
excepts the first two. It says that no thread is due for ever; that one which is
due stays so until it runs is proved (`DueUntilItRuns`), so together they say that
every thread that is due will run.

Run `scheduler`: the kernel and the idle thread and two users, sleeps of up to
two ticks, so that a tick may leave a sleep unfinished. Deadlock is not checked because the
idle thread, alone between two ticks, has nothing to do in the model.

Fairness: weak, in the steps of a call under way; strong, in `TimerSwitch`: the
timer keeps coming, and does not come inside a critical section every time.
Critical sections are a few instructions long and threads spend most of their time
outside. Nothing is assumed of what threads call.

### FileSystem

State: `dirs` and `files`, lists of the nodes allocated so far; a directory is
its position, and holds two lists, to which `directory_create` and `file_create`
add at the front. `request` and `answer` are the last call and what it
returned. A path is the sequence of what stands between its slashes, without
the one it may start with, so that `"/a//b/"` is `<<"a", "", "b", "">>`:
`path_read` and `path_len` treat an empty component as the end, which is
modelled as they do it. Nothing looks for a sibling of the same name; the
first found, the youngest, hides the others with all that is in them.
`get_file` asserts that the directory is there, and the root's parent is never
assigned: both end the behaviour (`halted`).

`FileStore` says what this amounts to: a set of directories and a map from
places to contents, where a directory created again starts out empty and a
file created again is replaced. The refinement mapping takes the
directories and files that no younger one hides.

Every caller passes `nullptr` for `relative`; components are shorter than the
buffers that hold them.

### Ramdisk

State: `pc` is where `system_main` is, `m` and `i` the two loop variables. An
archive is a sequence of entries; what the reader sees is the number of blocks
between one header and the next, and a step that does not lead from header to
header has no next entry (`TarBlock_read` is -1), so that the boot would
stop there. Entries are created one step at a time, whatever earlier ones
returned. `main` opens `/test.txt` and reads once. `offered` is auxiliary: the
entries met so far. `IsKept` spells out which files may be expected: those
whose directories came before them and that nothing later replaces.

Run `ramdisk`: every archive of up to three entries out of thirteen (nested directories, files before
and after their directory, a leading dot, sizes on both sides of a block), or
two archives, of which the second may repeat what is in the first; and the
file system alone, with paths that have dots and doubled slashes, up to three
directories and two files. Fairness: weak, in every step of the boot.

Run `ramdisk_unknown` reports a bug. `module_handle` does not move on to the next handler, so a
module whose name is not that of the first one stops the boot for ever, and "Unknown module" is never logged.

### Printf

State: `call` is what the caller passed, `info` is `printf_info_t`, `va` the
arguments not yet read. A character of the format is a step. The formatters are
operators: digits are produced from the last, reversed, padded and appended
through `PRINTF_APPEND`, which counts what was written, and `strnapd`, which
scans what the buffer holds. The two bounds disagree when the buffer was not
empty or a conversion is unknown, which is what `OutputStaysInTheBuffer` is about;
with `n = 0` the bound of `strnapd` wraps (`WritesIntoNothing`, excepted by
name). `FormatsAssumption` is the caller's side: without an argument
for each conversion a call is undefined. `WantedOf` is an independent definition of what a format asks for. In one thing
it follows the code: `X` is printed in lower case. Two combinations are excepted by
name (`PadsTheValue`), because the code pads with zeros in a way that changes the
value: `0` together with `-`, and `0` in front of a minus sign.

Run `printf`: every call of one or two directives out of 62, well formed, cut off or
unknown, into an empty buffer and one that holds a string, for `n` of 0, 1,
5 and unbounded; words have eight bits, so that the most negative value occurs. Fairness: weak: the processor executes.

### Interrupts

State: the two controllers (`pic`: requested and in-service lines, and the
vectors they were given), the gates, the processor's flag, and the stack of
frames. `interrupts_handler` is split where an interrupt may come: before the
test of the tick's overflow, before its count, before each of the two
end-of-interrupts, before the return. The controllers are external: fixed
priority, an end-of-interrupt ends the highest line in service of
its controller, whoever sends it.

A handler that no line brought in (a non-maskable interrupt, `yield`)
acknowledges nevertheless, and ends the line of the handler it interrupted.
While such a handler's frames are on the stack (`stray`)
`InServiceIsUnacknowledged` only demands that nothing is left when the stack is
empty. Ticks that overlap between test and count are excepted by name
(`TicksCanOverlap`); they need one of those two.

Run `interrupts`: the timer twice, line 4, lines 8 and 12 behind the cascade,
which outrank it, one non-maskable interrupt and one yield, a counter of two values, five frames. A non-maskable interrupt comes only
after the table of gates is loaded. Fairness: weak, in the
processor's steps, which include taking a deliverable interrupt; nothing is
assumed of the devices.

## What the runs check

| run | shows |
|---|---|
| `physical` | `KeepsPhysicalAssumption`: what the boot loader says becomes what the allocator takes for granted. `NoFreePageBelowBestBet`: starting at the hint loses no page. `ReservedStaysUsed`: nothing reserved is handed out. `UsedMemoryIsExact`: `get_used()` is right and does not wrap. `ImplementsFrameAllocator`: an allocation takes the lowest free run there is, and a panic means that every free run of that length touches a frame `OutOfReach` (the defect of line 46, excepted by name) |
| `memory` | mappings and frames agree (`FramesArePrivate`, `NoFrameLeaks`), page tables are reachable (`PageTablesAreReachable`), boot ranges and page zero keep their state (`BootLayoutIsKept`), what clients hold stays mapped and does not change (`OwnedMappingsAreStable`), the manager uses the physical allocator as `Physical` says (`UsesPhysicalAllocator`: `MemorySpec` implements `PhysicalSpec`), and calls return or panic (`CallsReturn`) |
| `heap` | `BlocksAreDisjoint`: blocks do not overlap, and what a client is given lies inside its block; `CountersAreExact`: the counters and the best bet that the search trusts; `GrowsOnlyWhenFull`: it misses no room |
| `heap_free` | the bug of line 396: `MemoryFreeAssertionHolds` is violated by one `malloc` and one `free` |
| `terminal` | `MovesLandOnTarget`: the cursor ends where the sum says, having scrolled the right number of lines; `WritesReturn`: it does end; `DisplayCursorFollows`: the display's cursor is the terminal's, which stays in range, and no parameter is left over from an earlier sequence; `DisplayShowsCells`: telling the display only of changes is enough |
| `libsystem` | `ForeachVisitsEach`: the links stay whole and `foreach` misses no node; `ImplementsSequence`: the list is a sequence; `CountsAreExact`: counts and lifetimes, between operations and in the middle of a cascade of deletions; `OwnersAreExclusive`: one owner per object; `DecodesWhatWasEncoded`, and `ResynchronizesAfterOne`: damage costs at most the codepoint after it |
| `refptr_reset` | the bug of `operator=(nullptr_t)`: `DerefAssertHolds` is violated by make, assign, destroy |
| `scheduler` | `ThreadsAreOnTheirLists`; `ExecutingThreadIsRunning`: and whoever holds a lock executes; `BlockEndsWhenDue`: no sleep, join or exit returns early; `DueThreadsRun`: the ready list is fair, and no wake-up is lost between the test, the blocking and the yield |
| `ramdisk` | `EveryFileIsLoaded`: every file that can be expected is found, with its contents, and main's read stays in its buffer; `BootEnds`: the reader comes to the end of every archive; `TreeIsWellFormed`; `ImplementsFileStore`: a map from paths to contents |
| `ramdisk_unknown` | the bug of `Modules.cpp:25`: `UnknownModulesAreReported` is violated by a module with another name |
| `printf` | `OutputStaysInTheBuffer`, `OutputIsFormatted`, and `PrintfReturns`: no case of the switch waits for a character it does not read |
| `interrupts` | `InServiceIsUnacknowledged`: an acknowledgement, which names no line, ends the right one; `TicksAreCounted`: once each, in whatever order handlers nest; `RequestsAreServed`: no line stays in service for ever |

The type invariant of a module is the first conjunct of one of its invariants.
That of `Physical`, `PhysicalTypeOK`, is a conjunct of `MemoryTypeOK`, and is
proved separately.

## What is proved

Every safety invariant and action property that the passing runs check is also a
theorem, for every value of the constants, except those named at the end of this
section. Each proof rests on the named assumption of its module and nothing
else, and has the same shape: an inductive invariant, a lemma for each action
that can disturb it, and the property read off it. Where an invariant is not
inductive alone, what had to be added is the interesting part.

**Physical pages** (`PhysicalAssumption`). `PhysicalInv` is the conjunction of
the four invariants. None is inductive alone: the counter wraps below zero
unless only available pages are freed and the reserved ones stay used; the hint
needs the type of `MEMORY`. The argument about the loops is in
`BestBetAfterUse` and `BestBetAfterFree` (where the hint lands) and in
`MarkUsedKeepsInv` and `SetFreeKeepsInv` (the counter moves by the number of
pages whose bit changed). `PhysicalRefinement`, that the allocator implements
`FrameAllocator` with the frames `OutOfReach` excepted, rests on
`CandidatesAreFindable`: what the loop accepts are exactly the free runs that
touch none of those frames. Starting at `best_bet` instead of 0 loses nothing
because of the hint, and a request larger than memory, however the unsigned bound
`TOTAL_MEMORY - size` wraps, finds no run of that many free pages. The run it
takes is nevertheless the lowest of all (`AllocBaseIsLowest`), because a run
that touches a frame out of reach lies above every run that does not. It is not proved,
and not true, that a panic means that no run of free frames is left.

**Boot information** (`BootAssumption`). `MemoryMapIsSound` discharges what the
allocator assumes. `BootInv` says that the memory map is, entry by entry, the
rounding of the entries not skipped; that what is counted lies below the end of
the last entry, which is why the 32-bit sum cannot wrap; and that the pages of
the available ranges take up no more than what is counted. `FromNonAlignedGives`
and `AroundNonAlignedGives` are the rounding, in arithmetic modulo the address
space, for every page size that divides it. The boot loader's contract is in the
model: entries are disjoint and ascending, modules not in the first page.

**Memory and page tables** (`PhysicalAssumption`, `MemoryAssumption`).
`MemoryInv` adds to the invariants what the loop under way may rely on
(`CallShape`, `CallPlace`, `CallProgress`): which pages it has done and which it
still has to do, that the frames in its hands are used and mapped nowhere, and
that what is left of a range is still unmapped although `virtual_map` may have
taken a frame and an address for a page table in between. `Frames`: a mapped
frame is used, mapped once, and offered by the boot loader unless it is identity
mapped. `Tables`: installed tables lie in the kernel's identity range, each its
own. `Client`: what a client holds is none of these. From it follow
`FramesStayPrivate`, `PageTablesStayReachable`, `BootLayoutStays`,
`FramesDoNotLeak` and the action property `OwnedMappingsStay`;
`MemoryUsesAllocator` shows every step to be one of `Physical` or none, so that
the frames the memory manager sees are those the theorems above are about.

**Heap** (`HeapAssumption`). `HeapInv`: each major's blocks fill it in ascending
order with the sizes that were asked for plus the alignment, its usage is their
sum, majors are disjoint runs of granted pages, the best bet is listed, and the
two totals are the running sums over the list (`TotalOf`).
`BlocksStayDisjoint` and `CountersStayExact` are read off it.
`HeapGrowsWhenFull` needs more: a search that fails visited every major whose
room suffices (`NoGapIsOverlooked`), because what a gap offers is never more
than what its major has unused (`GapIsUnused`), which the search trusts when it
passes a major by.

**Interrupts** (`InterruptsAssumption`). The property counts lines and frames;
what is inductive is their order (`Nested`): inside the handler of a line in
service stands one for every higher line of its controller. That is why an
end-of-interrupt, which ends the highest line, ends its sender's. Once a handler
no line brought in has acknowledged another's line only `Covered` is left, that
every line in service has somebody yet to acknowledge it; it is enough for
"nothing is left when the stack is empty". `TicksStayCounted` follows from
`Counting`: the counter is the ticks taken less the handlers that have not
counted yet.

**Scheduler** (`SchedulerAssumption`). `SchedulerInv` describes every place in
the code at which the timer may come: who holds the lock where (`Locks`), that
at most one thread is off its old list and not yet on its new one (`Moving`,
`Lists`), what is still to be done by a call with a given argument (`Calls`,
`Starts`), that nobody but the kernel's own thread runs before the idle thread
is started (`Boot`), and that a blocker that is not due belongs to a thread on
its way to the blocked list or on it (`Waits`). The number of threads and the
lengths of sleep are arbitrary. Who is due stays due until it runs, step by step
(`DueUntilItRuns`): a wake-up is neither lost nor taken back. With it the run's
`DueThreadsRun` means `Due(t) ~> running = t \/ Ruined` (`DueThreadsAreServed`).

**Terminal** (`TerminalAssumption`). Lines are laid out on a tape of places
`x + W * y`. Each activation of `move_cursor` but those that clamp keeps the sum
of place and distance on the tape (`OnTheWay`); one that clamps puts the cursor
where the sum says, having scrolled what is missing (`AboutToLand`).
`QuotientRemainder` is the truncating division of C++, on both sides of zero.
`Shows` is inductive because every change of a cell is told to the display
unless the cell already held it. `ParserOK`: a sequence starts without
parameters and has none beyond its separators.

**Ownership, reference counts, UTF-8** (`OwnPtrAssumption`,
`RefPtrAssumption`, `UnicodeAssumption`). `OwnPtrInv` says that owners differ and
that every object has one; that a deletion takes exactly what it owns is
`ReachIsClosed`, about the least set closed under ownership. `RefPtrInv`: a count
is the pointers that count and the releases waiting, in the middle of a cascade
too. What an assignment relies on is `TargetKept`: some set of objects keeps the
assigned pointer alive without going through it. Both theorems on reference
counts assume `~ResetsHolding`: with it the property is false, which is run
`refptr_reset`. `UnicodeInv` relates the decoder to the bytes sent so far; the
decoding of every codepoint below `CodepointLimit` is arithmetic on its six-bit digits.

**Linked list** (`LinkedListAssumption`). `ListShape` says that some sequence of
distinct nodes is linked both ways from `_head` to `_tail` (`Listed`), and that
it is then what a walk along the links meets (`ListedIsChain`, an induction over
the nodes). Each call has a lemma, `PushEffect` and its like, on how it changes
that sequence. For a `foreach` under way `Walks` is added: where its node stands
and the next one, that the nodes before that place have been visited, and those
from it on have not. `ForeachSafe` follows, and `ListIsSequence`, the refinement
of `Deque`: that `remove_all` unlinks exactly the places that match is an
induction over its loop (`RemoveAllEffect`), and that `sort` leaves the values in
order, each as often as before, one over each of its two loops (`PassesEffect`).

**Files** (`FileSystemAssumption`). `TreeInv` is the property and the types of
the nodes. The refinement of `FileStore`, `FilesAreStored`, is about three
recursions: the place of a directory and whether it is hidden go up along the
parents (`PlacesOfTree`, `VisibleOfTree`), a path goes down from the root
(`ComponentsAreEntered`). They meet in `EnterGoes`: from a directory nobody
hides, one component leads to the directory the store has at the longer place,
because places of directories that are not hidden differ (`PlacesDiffer`). A
path, which is cut in two and read again, ends where the store says
(`SplitsAsUsed`). `DirectoryHides`: a new directory takes away exactly what lies
beyond its place, although nothing in the tree but one list has changed. That
`Missing` and `Unset` are neither a directory nor a place is the assumption.

**Boot** (`RamdiskAssumption`, `ArchiveAssumption`). `BootUsesFileSystem` shows
each step of the boot to be a call of the file system, for every archive and
list of modules; what holds of the file system with any caller therefore holds
of the boot (`TreeStaysWellFormedAtBoot`, `FilesAreStoredAtBoot`).
`FilesAreLoaded` is proved of the map from places to contents, not of the tree.
Its invariant, `LoadInv`, is the property of the entries gone through so far
(`LoadedAs`), and more: the directories found must be known too, and not only
those of files. `Stands` says which may be expected, by the order of their
entries. An entry that fails is the interesting case (`EntryFailsToLoad`): its
directory is missing, so something on its way did not stand, so nothing was
promised of it. What main reads fits because no two entries share their data.
`ArchiveAssumption` is what `Makefile:101` makes tar write: no dots inside a
name, and nothing between two slashes. Without it an entry `a/../b/` would make
`b` while its name promises a directory elsewhere.

**printf** (`PrintfAssumption`, `FormatsAssumption`). `PrintfInv` has two parts.
`BufferFits` is the property together with what one bound needs of the other:
the count never exceeds `n`, so what `PRINTF_APPEND` lets through is never a
negative amount, and `strnapd` cuts what it lets through when the caller's
string or an unknown conversion has used up room that was not counted
(`AppendFits`, `PrintfAppendFits`); every formatter is put together from these
two. The other part follows the format. `FormatsAssumption` is the caller's
duty: every letter that ends a conversion has an argument, where `Reading` says
which letters do. `IsReading` says that the machine is where `Reading` is and
has as many arguments left (`ReadsOn`, `ReadsArgument`), although a character
that cannot follow a length is looked at in two cases of the switch. With `n = 0`
this part is needed for the bound too: it is what makes a letter that no
formatter knows one of the call's own conversions. Digits come from a recursion
on the value (`UnsignedIsText`, for the four bases and any width of a word).

`Induction` holds what these proofs share: a set of numbers with a bound has a
least element (`MinIsLeast`), induction and recursion up to a number and along
a chain of smaller ones (`InductionUpTo`, `RecursionUpTo`, `RecursionOnParents`, proved with the well-founded order of strict
inclusion on initial segments, since the library's induction theorems take an
operator and cannot be used), and two facts on remainders.

### What stays with TLC

- Liveness: `CallsReturn`, `WritesReturn`, `DueThreadsRun`, `BootEnds`,
  `PrintfReturns`, `RequestsAreServed`. The prover has no rule for fairness and
  ENABLED.
- `OutputIsFormatted`: it compares what the recursions leave in the buffer, value
  by value, with powers of the base and with the concatenation of a whole format,
  an induction over data.

## The plan

Done: every module of the table above, every run, and the theorems listed
before.

## Not modelled, and why

`Vector` and `LinkedList::contains` are used by nothing. The rest of the string
library and of stdio are byte loops without state. The getters over a boot
record (`find_tag`, the command line, ACPI) read one tag and keep nothing.
Segmentation, CPUID, the local APIC (which nothing initializes), ACPI, SMBIOS,
the serial port and graphics are straight-line accesses to hardware. The C++
runtime forwards `new` and `delete` to the heap, and the sanitizer's callbacks log
and stop. The dump callbacks of a panic only log. Of the interrupts: faults that execute the same
instruction again, and spurious requests. Of the memory manager: the flag bits of the
entries, the clearing of memory and the TLB, of which one flush of everything
follows each change.
