# A formal model of ps2-recompiler

ps2-recompiler turns the R5900 machine code of a PlayStation 2 game into C macros
(`src/ps2_rc`, `include/ps2ctx/asm_macros.h`) and links the result with a small
reimplementation of the console's kernel (`src/ps2lib`). This directory holds TLA+ modules
for the parts whose correctness is hardest to see from the code or from a test, TLC
configurations that check them on small instances, and proofs of the most important results
for instances of any size. Paths below are relative to the repository.

## Inventory

| Part | Code | State | Operations | Hard because |
|---|---|---|---|---|
| EE semaphores | `src/ps2lib/threading/semaphor.c` | `ctx->ee_semaphors[256]`: count, wait_threads, is_valid, a host mutex | Create, Delete, Signal, iSignal, Wait, Poll, Refer | host threads call them with no lock around the table; only the mutex is atomic |
| EE threads | `src/ps2lib/threading/threading.c`, `kernel/ps2_context.c` | `threads[256]`, `currentThreadIndex`, the globals `ctx` and `EEThreadID` | CreateThread, StartThread, `_StartThread` in the new host thread, ReferThreadStatus | globals replaced under running threads; a pointer to a dead stack frame |
| System calls | `kernel/ee_syscall.c` | registers in `ctx`, SIF registers in memory | `EESyscall` dispatch | result written through `ctx` after the call may have blocked |
| C emitter | `src/ps2_rc/cemitter.c`, the branch macros | the instruction words of a split, branch indices, patches | branch pass, relocation pass, emission loop, `process_instruction`, `find_jump_to_function` | delay slots: one instruction is emitted twice and entered by two paths |
| Instruction macros | `asm_macros.h` | registers and memory | one C expression per instruction | widths, signs, multimedia lanes |
| Splits parser | `src/ps2_rc/rc_splits.c` | one parser state, the split being filled, a growing buffer | one reaction per YAML event | nesting tracked by one variable and a fall-through |
| Driver | `src/ps2_rc/main.c`, `rc_config.c` | units, `failed_jumps` | load, emit, write section and lookup tables | duplicate and missing table entries |
| ELF and XFF readers | `src/elf/elf.c`, `src/ps2_rc/xff.c` | headers, symbols, relocations | read; `xff_find_splits` is not called | |
| Memory map | `kernel/ps2_init.c`, `sce/sif/Sif.c` | the RAM regions in `mem` | `FindRam`, `RecompilationInit`, SIF transfer | address ranges, the fallback to main RAM, overlapping stacks |
| Host services | `sce/disk/*.c`, `sce/patches/convert_path.c`, `common/logging.c` | files, one log buffer | wrappers of stdio | shared buffer |
| Hand-written game functions | `src/decomp` | none | replacements of a few functions of one game | |

How they meet: the driver reads a config, an ELF or XFF unit and its splits file, and calls
the emitter once per split. The emitted functions run on the host: they read and write `ctx`
through the macros, reach game memory through `FindRam`, call each other through generated
names, `FunctionLookup` and `jalr`, and call the kernel through `EESyscall`, which calls the
thread and semaphore functions. Host threads share everything: `mem`, `ctx`, `EEThreadID`,
the thread table and the semaphores, which are part of the register context `ctx` points to.

## Modules

| Module | Models | Kind |
|---|---|---|
| `EESemaphore` | semaphor.c | component |
| `BinaryLock` | what the semaphores amount to | abstract specification |
| `EESemaphoreProofs` | | proofs |
| `MCSemLock` | | instances of EESemaphore |
| `EEThreads` | threading.c and the globals it sets | component |
| `EEThreadsProofs` | | proofs |
| `MCThreads` | | an instance of EEThreads |
| `EEKernel` | ee_syscall.c over threads and semaphores | composition |
| `EEKernelProofs` | | proofs |
| `MCKernel` | | instances of EEKernel |
| `Emitter` | cemitter.c's branch pass and emission loop, the branch and jump macros | component |
| `R5900` | what the processor does with the same instructions | abstract specification |
| `EmitterProofs` | | proofs |
| `MCEmitter` | | instances of Emitter |
| `Linker` | main.c's driver and tables, section types of elf.c and xff.c, the relocation pass, find_jump_to_function | component |
| `LinkerProofs` | | proofs |
| `MCLinker` | | instances of Linker |
| `EEMemory` | ps2_init.c, the SIF calls, loads and stores | component |
| `GuestMemory` | the memory a game is to see: one cell per address, each access to its own | abstract specification |
| `EEMemoryProofs` | | proofs |
| `MCMemory` | | instances of EEMemory |
| `SplitParser` | split_read_from_yaml | component |
| `SplitParserProofs` | | proofs |
| `MCSplits` | | instances of SplitParser |
| `Lanes` | the multimedia macros of asm_macros.h that move or combine lanes | component |
| `Scalars` | most scalar macros, beside the processor whose instructions they stand for | component |
| `MacroProofs` | | proofs about Lanes and Scalars |
| `MCMacros` | | instances of Lanes and Scalars |

Operators called *Faulty* in a module are wrong variants of the definition that follows
them. They are part of no specification; each breaks one property and so shows that the
property depends on that piece of code.

### EESemaphore

An action is one load or one store of a shared field, or one operation on the mutex, in the
order of the source: `wait_threads++` is `EnterLoad` and `EnterStore`, `count--` is
`DecLoad` and `DecStore`, and so on. `pc`, `op`, `id` and `reg` are a host thread's
position, its call, its argument and the register a load filled. The fields of a record are
functions of the id. `max_count` and `option`, which the code copies and never consults, are
left out. Loads and stores interleave sequentially; the reordering of stores that the host's
memory model allows is not modelled.

The callers are games, and `usage` says how the games at hand use their semaphores (`Usages`
are the ways an instance considers). As a *lock*: a signal comes from who has waited.
*Ahead*: a semaphore that nobody has waited for yet may be signalled, too. *Free*: any
client signals, polls and waits for any live semaphore at any time, as producers and
consumers do. Whatever the usage, calls are on ids that were given out and are not deleted
yet, and a semaphore is deleted only when nobody is using it (`MayCall`). `SerialTable` adds
that CreateSema and DeleteSema are not called at the same time by two threads; without it
the scan and the marks of two calls mix, and two clients get one id. `live` and `holding`
record what the games know and exist only in the model. The table is the one of a single
register context: `EEKernel` has the starts that replace it.

What the code offers is less than a counting semaphore. A wait takes the mutex whatever the
count is and a signal releases it only if it reads a count of zero, so if the count is
anything else at that moment the semaphore is *jammed*: nobody holds it and it stays taken.
Where nobody signals what another has waited for, that is all there is: `BinaryLock` says
exactly that, and `ImplementsBinaryLock` is the refinement. In free use a jam at a positive
count is not the end: polls and waits may lower the count to zero, and the next signal, of
anybody, unlocks, also while another thread is entitled to think that it holds the
semaphore. A count that has sunk below zero, because two calls both saw the last unit
(semaphor.c:60-61, 72-73), is the end in any use.

 - `MutualExclusion`: in uses other than free, two waiters never both return without a signal in between.
 - `NoRaiseOnceWaited`: in the same uses, lost updates of `wait_threads` never lose the fact that somebody waited. (In free use they do: a signal may read the counter before a first wait increments it.)
 - `SunkIsLost`: in every use, once a count is below zero, its waiter is counted and no raise of it is pending, the semaphore stays taken, whatever anybody calls, until DeleteSema.
 - `ZeroNeverJams`: a semaphore created with count 0 and used as a lock never jams.
 - `LiveIdsAreFresh`: CreateSema never fills a slot whose id somebody has.
 - `WaitersProgress`: a waiter is never left behind by idle peers.

### EEThreads

An action is one access to a global. A host thread that runs game code is at `game`; the
points of `Starting` are the lines of `_StartThread`, read through the pointer `data(h)`
into the parent's stack frame. `gp` and `sp` are linear in the id they are computed from, so
the id stands for them. The entry function is called by the starter first (`DirectCall`) and
by the new thread later, as in the code. `ReuseFrame` is what the host does to a stack frame
that its function has left, or uses for its next call of StartThread: it may happen at any
time, also while a child still reads. `dangling` are the threads whose parent's frame has
changed while they were starting, `overlapped` those that were starting while another was;
both exist only in the model.

`discipline` is what a game observes, a subset of `Rules`: creators take turns
(`serial_create`), no more threads are created than the table holds (`fits`), no thread is
started twice (`each_once`), all are created first and started in order (`in_order`), not
all host threads are used (`few`), only one start goes on at a time (`serial_start`), and
`quiet`, of which below. The code enforces none of these; each property says which it needs.
`TableSize` is 256 in the code, which does not look at it: one creation more writes behind
the table (`overrun`), and the model ends there, since what that destroys is up to the
layout of the globals. Instances have a table of 2, so that this happens.

 - `HandlesKept`: with creators that take turns, a handle goes on naming the function it was created for, no other handle shares it, no entry of the table is wasted, and the table is overrun only when all its entries are in use.
 - `StartsWhatWasAsked`: however many starts go on at once, a thread about to call its function has the function and id it was started with, unless the frame has changed under it; then it has those of another child of its starter, or garbage. Calling garbage is the only crash.
 - `ContextMatchesID`: when no start is going on, the register file in use is a cleared one with the gp and sp of the current id, if the thread that installed it neither overlapped another start nor lost its data, whatever starts before it did. Nothing is assumed of the game.
 - `StartsFinish`: every host thread made gets to its function, unless one has crashed on lost data.
 - `ThreadLocal` (refuted): the header marks `ctx` and `EEThreadID` as `/* thread_local */`; the code shares them.

The entry function is called a first time in the starting thread, before the thread is made
(threading.c:41); a function that never returns keeps its thread from being made. In the
model the call returns.

### EEKernel

The composition: `EESyscall` with the actions of `EEThreads` and the semaphore calls. The
semaphore table is a member of the register context, a start replaces the context, and every
statement of a call reads the global `ctx` anew, so `sema` has a table per context and one
action is one statement (single loads and stores within one table are in `EESemaphore`).
`addr` is a pointer a call has already computed: the argument of `pthread_mutex_lock` before
it blocks, the record CreateSema fills. A context is `Junk` when it comes from malloc, and
`ClearTable` empties it.

What a call returns or reports is left out; of the calls that do nothing else,
ReferSemaStatus is there because it reads a table and SleepThread because it blocks,
GetThreadId and ReferThreadStatus are not.

Calls are made by *quiet* games: they make a call, or let StartThread make a thread, when
all their other threads are in game code or blocked, as on the EE, which runs one thread at
a time; their starts go on one at a time as well. Starts at the same time, and starters that
return early, are explored too, for games that are not quiet and use no semaphores. `ids`,
`held` and `stale` record what games know: `stale` are semaphores used by an id, or released
by a hold, that comes from another context.

 - `CallsUntorn`: a call that can go on is in the register file it began in, and that file has been cleared.
 - `ExclusionPerContext`: two threads hold one semaphore only after an id or a hold was carried over a start.
 - `StrandedForever`: a thread that sleeps in WaitSema while a start replaces the context sleeps forever.
 - `WaitersServed`: who waits on a semaphore of count 0 is served unless a start strands it.

### Emitter and R5900

`Emitter` has two phases. First the emission loop: `i` is its index, one action per kind of
instruction, `Write` is what a turn of the loop does (the label in front, the statement, the
label inside a macro, the advance past a delay slot). Then the emitted function runs: `at`
is a line and a place in its statement. `Macro` and the actions `Test`, `TakeBranch`,
`RunLabel` are the expansions in asm_macros.h. Registers are abstract: `Exec`, `Holds`,
`Pointee`, `Leads` (where the register of a `jr` leads), `V0` and `Typed` (what C makes of
v0 in the function's return type) are constants. `valued` says whether the signature has a
return type, which chooses between the two return macros; `result` is what the emitted
function returns. A `j` out of the function is emitted as a call, after which control runs
into the closing brace (`ReachBrace`); a function with a return type then returns any value.

`R5900` is the processor: a branch and its slot are one step, its condition and a register
target are read before the slot, a likely branch that is not taken skips it, and `jr` goes
where its register leads. `ImplementsR5900` says that running the emitted C is running the
machine code, with the patched lines replaced, at every instruction boundary: registers,
position and calls. `LabelsResolve` says that the C compiles. `HandsBackV0` says that what a
function with a return type returns is v0 as the processor leaves it, the slot of the return
included; functions that end in a tail call are excepted, since their value is lost.

`WellFormed` lists what is assumed of a function. Some of it any compiler guarantees (slots
are inside the function and hold no jump). The rest the emitter takes for granted and a
function could break: no branch into the slot of a jump (its label would not exist), no
write to the target register in the slot of `jalr` (read too late), no tail call before the
end (it is emitted as a call that returns), and no jump table: every `jr` leads out of the
function, because the emitter makes a return of it whatever its register is
(cemitter.c:376-388). `Visible` excludes patches on delay slots, which the loop never looks
at.

Left out: the bc1 branches and the linking branches, which are stubs; jump resolution;
relocations; operand formatting.

### Linker

`Load` reads a unit's section headers and relocations; an XFF's headers get the type that
their names imply (`TypeOf`, `HeaderType`, `FromXff`), so that a section of unknown name has
none. `PassSection` and `EnterSection` are `process_section`: only `.text` is processed. Its
splits are emitted one after the other, and the next unit follows, as in `main`. A split is
relocated in place (`Relocate`) and then emitted instruction by instruction; what an
instruction becomes is of no interest here, only which function a `jal` calls (`calls`),
where a pointer to section data is put (`injected`), and which jumps are not found
(`failed`). `AtTarget`, `BySymbol` and `Anywhere` are the three searches of
`find_jump_to_function`; `Static` is `find_static_address`, with the sections of the units
loaded so far. `Crash` is the comparison of the empty split's return type. `WriteTables` is
the end of `main`: `cases` are those of `FunctionLookup` and `jalr`, which are the same;
`indices` are the constants of `sections.h`, `blobs` the table of `sections.c`. The code
goes through the sections in two loops, and so does the model: one numbers what it meets
(`Loaded`, `Number`, `Indices`; main.c:138-149), the other lists it (`Listed`, `Listing`,
`Blobs`; main.c:182-203). The constant `Ident` is `section_name_to_index`, the replacement
of dots in names. The counters of a unit that is not loaded yet come from memory the config
parser does not clear (rc_config.c:20, copied over the cleared one at main.c:63); they are
taken to be zero. Addresses and offsets count instructions; an immediate has `HalfBits` bits
and a register's word twice as many. The host puts the data of a section at an address of
its own, `Host`, which may need more bits than that: `Cast` is the `(u32)` of
cemitter.c:464, which keeps the low word. What `FindRam` later guesses of the upper half of
such an address is not modelled. `FailJump` writes a `__mips_asm_jal` of no function, which
does not compile, and goes on.

 - `CallsResolved`: each emitted call goes to a function that is at its target.
 - `DirectAndIndirectAgree`: `jal` and `jalr` to one address reach one function.
 - `PointersReach`: in an emitted function, each upper half of a data address gets a pointer, except in the slot of a call, where the code looks the relocation up at the call and never finds it; the pointer names a constant that is defined once and is the index of the right section in the table of another file; and the two halves add up to the low word of the host's address of the data exactly if relocating has added no bit of the symbol's value to either immediate (`Untouched`).
 - `StopsOnlyAtUnknown`: the recompiler dies only at a call to an absolute symbol that is the address of no function of the units loaded so far.
 - `ImportsReached` (refuted): a call by name to a function of another unit reaches it.

`IsUnit` says what a file read without an error holds: splits that are not empty and have
the slots of their transfers, in functions of their own; one relocation at most at a place,
one of a jump where a `jal` is, and none of an upper half at another transfer; relocations,
and the symbols a unit defines, are of sections it has.

The searches compare offsets and addresses with one number, so much of this is true only of
projects in which no such number means two things. `WellFormed` says exactly which: splits
in order and apart, one executable, no stray jumps, no offset left by a relocation that is
another function's, absolute symbols that name one function, symbols of calls that name the
function they are the offset of and no other (`SymbolsNamed`), no imports by name (refuted
separately); and for data: no relocation of another section at an offset of a function
(`RelocationsApart`; the code merges all sections' relocations and matches by offset),
sections with constants of their own (`ConstantsApart`), and relocations of sections of
known type (`DataKnown`). Pointers in the slots of calls and symbols with a value are not
excluded: the code drops the former, and merges the value into both halves and then adds it
once more to the pointer, which is right only for the zero of a section symbol, or a value
already contained in the immediates; `PointersReach` says both. A relocation adds bytes to a
field that counts words (`Word`); the search by symbol makes up for it. The third search can
only find something wrong when there is one executable, but it is modelled and, under
`WellFormed`, finds nothing.

Left out: relocation types that do what one of the four modelled does, or nothing, the
layout of ELF and XFF files, the bytes of sections (those of `.bss` are copied from the
file, too), the text of calls and prototypes.

### EEMemory and GuestMemory

`FindRam` is the chain of comparisons in ps2_init.c, windows in the same order, with the one
`<=` among them as a window one quadword larger. `cells` is host memory by buffer and
offset. Loads and stores go through `FindRam`, SIF registers through `RegisterAt`, and a
transfer copies as the code does, from its destination to its source, and does only the
first of a list of transfers. Addresses count quadwords; parts of a quadword are not told
apart. `did` is the last operation of the game, with the value it moved; `GuestMemory` has
it too, so that an implementation must give each load the value of that very cell, and
change that cell and no other with each store.

 - `ImplementsGuestMemory`: each address is a cell of its own, holding what was stored last, from a section, or zero; each load and each register read gives what its cell holds, the register that announces the IOP excepted. A transfer is backwards in the specification too (`TransferBack`; Sif.c:8): it is what games get, not what they ask for.

It holds for games that keep to the map (`KeepsToMap`): addresses in `MemoryMap`, the
windows without the quadword at the start of vu1 data memory, which the vu1 code window
takes (`FirstVuDataOutside`), and SIF registers below `Ports`, the number of them that lie
in the window of registers. Beyond the map FindRam answers the start of main memory, and the
stacks `_StartThread` gives to the first thirty threads are beyond it.

### SplitParser

The file is written event by event (`where`, `draft`, `file`), in the format the comment in
splits.h documents, and the parser reacts in the same step to what it can see of the event:
its type and a scalar's text. The reactions (`StartMapping`, `EndMapping`, `EndSequence`,
`Scalar`, `SwitchToPatches`) are the arms of the switch. A key and its value are one step,
as in the code, which parses twice. `Finish` is the end of the stream or a syntax error
anywhere.

 - `StateFollowsNesting`: the parser's state is always the nesting of the file.
 - `ParsedAsWritten`: the splits returned are the splits written, complete and in order, with what the code makes of three things a file can say.
 - `InsideBuffer`: up to twice the initial size the buffer is large enough.

The three things are part of the statement (`InA0`, `WrittenPatches`). A parameter keeps its
Type and Name, but its Register, which splits.h documents, is recognised and ignored, and
every parameter is in `A0` (rc_splits.c:205). The keys of a patch may come in either order,
and its Value and place are kept; but its Index only if it comes first: that of a *late*
patch goes to the next slot, where it stays if the next patch is late as well and is
overwritten if it is not (`IndexKept`). And after a late patch that is the last, and for a
`Patches` list without entries, one slot too many is counted, without a value (`Extent`;
rc_splits.c:104-111), which the emitter writes as `NULL` (cemitter.c:246-253).

### Lanes

A register is sixteen opaque bytes; `program` is a sequence of calls of macros, `Begin`
starts the next one and `Assign` is one assignment of it, to the lane `k` of the target. A
macro is its width, the source it declares first and, for each lane of the target, the
operand and lane it is given (`from`). Macros that combine two lanes arithmetically apply
the constant `Combine`, or `Merge` where the order of the two is nothing to the operation.
Nothing is assumed of these: what matters here is which lanes are read, and when. What an
operation computes is not compared with the processor (`psubuh`, which adds, and `paddsh`,
which does not saturate, go unnoticed). `before` remembers the registers at the start of a
macro and exists only in the model.

Operands are bound by position (`Operand`): instructions have their sources in the order rs,
rt, the emitter passes them on in that order (cemitter.c:415, 439), and some macros declare
(rd, rs, rt), others (rd, rt, rs). Of the latter, `pextl`, `ppac`, `psubsw` and `psubsh` are
not symmetric and so have their sources swapped; `pextuw` takes one lane of each operand
twice. `AsProcessor` is what the processor does with the same operands (`Meant`, `Takes`),
reading before it writes. `$zero` is never a target: a macro would write the global that
stands for it.

 - `InPlaceExact`: a macro that does not swap its sources (`Swaps`), or is given one register for both, does what the processor does, in place too wherever the order of its assignments allows that (`Safe`).
 - `OthersWrong`: every other instruction that moves lanes goes wrong, if its sources are two and all bytes but those of `$zero` are different: it is swapped or torn. No more than `InPlaceExact` can be relied on.
 - `NothingLost`: `pextl` and then `pextu`, of bytes or halfwords, the second in place or not, keep every lane of their sources, in order; but of the lower halves rs has the even lanes and of the upper ones rt, since the two macros declare their sources in different orders.

Left out: macros that combine lanes exactly as the ones modelled do (`paddw`, `paddh`,
`paddb`, `pmaxw`, `pminw`, `pceqw`, `pceqb`, and, with swapped sources, `psubh`, `padsbh`,
`pcgtb`); those with one operand and an operation (`pext5`, `pabsh`, shifts by an
immediate); those that cannot be compiled (`paddsb`, `psubsb`, `psubb`, `psubuw`, `pceqh`,
`pminh`, `pcgth`, `pmaxh`, `pmfhlsh`) or expand to nothing; those with a wrong operand
(`pcgtw`, `psubw`, `pabsw`, `psllw`); and those that change `hi` and `lo`.

### Scalars

Two machines run the same instructions side by side: `rc` are the registers of the
recompiled program, `ee` the processor's. A register is two words. Most macros assign the
low word of their target and leave the upper one, where the processor writes the sign
extension, so the two machines drift apart and the question is what can be relied on.
`promise` answers it as far as the instructions tell: the machines agree on the low word, on
all 64 bits, the processor's value is a sign-extended word, the program's upper word is
zero. The rules (`LowPromised`, `AllPromised`, `ExtendedPromised`) are the claim; the
definitions of the macros are translated from asm_macros.h, those of the processor from what
the instructions are (sign-extended words, 64-bit logic and comparison). Words are numbers,
and the logic of words goes bit by bit: `WordOf` is the word that has given bits. `Codes` is
what is run, `Prepared` what a load can leave in a register, with what is promised of it
(`PreparedAssumption`: these promises hold).

 - `PromisesKept`: whatever mixture of word and doubleword instructions has run, what is promised holds.
 - `BranchesAgree`: on registers promised to be words, the comparisons of branches, which see low words, decide as the processor's, which see 64 bits.
 - `ExactlyPromised`: for each instruction that computes a result, nothing is promised of its low word exactly if some sign-extended operands, on which the machines agree in every bit, give different low words: `sra`, `srav`, `slti` and `dsrl32`. (Upper words, `hi` after `mult` and the loads are not covered.)

What follows for games: word arithmetic, logic, shifts left, loads and stores keep the low
word whatever the upper ones are; `dsll32` and then `dsra32` restores all 64 bits; `sd`
followed by `ld` keeps sign-extended words, in a base whose upper word is zero, since `sd`
computes its address in 64 bits. `$zero` is a global (`ZeroRegister`) that instructions with
it as a target write; after that only its being zero on the processor is promised. `mfhi`
and `mflo` with `$zero` as a target write `ee_registers[0]` instead, which nothing modelled
here reads. `RecompilationContext_GetRegister` gives a register through a conditional
expression that C does not allow to be assigned to; the model follows what gcc makes of it,
which is an assignment to the register named. Shifts by a register of the width of a word or
more, and products that overflow, are undefined in C: any result, or either of the two a
build can give, is possible.

Left out: floating point, COP0, traps (which do not compile), unaligned accesses, loads and
stores of bytes and quadwords, stores of halfwords, `dsllv`, `dsrlv`, `dsrav`, `mthi`,
`mtlo`, the second multiplier, `divu` and the three-operand multiplications (`mult_return`,
`mult1`, `multu1` never write their target).

## Runs

| Run | Question | Instance |
|---|---|---|
| `SemAll` | Does the table implement jammable binary locks, for every call, with slots recycled? Do waits exclude each other? Is a sunk count the end, in free use too? | 2 threads, 2 slots, counts created 0..2; usages ahead and free, the latter one slot at a time |
| `SemLive` | Is a semaphore of count 0 a working lock, and do waiters progress? | 3 threads, 1 slot, usage lock, fair |
| `Kernel` | Do handles, functions, ids and semaphores go where they belong, with starts at once, starters that return, a full table, and with every call of quiet games across starts? | 4 host threads, a table of 2, 3 disciplines, 1 slot per context |
| `KernelLive` | Do all threads get going, and is who waits served? | the same, no overrun, three calls, fair |
| `ThreadsLocal` | Are ctx and EEThreadID per thread? Refuted | 3 host threads |
| `EmitMachine` | Does the emitted C compile, do what the processor does and return what it should? | every well-formed function of 5 instructions, one patch |
| `EmitLikely` | Are aliased likely branches likely? Refuted | functions of 4 instructions |
| `Link` | Do jumps go where they should, directly and through tables, and do data addresses reach their section? | an executable and a module, 3 functions each, one call of every form or one address of two halves of 2 bits, in a slot or not |
| `LinkImports` | Do calls by name reach other modules? Refuted | 2 modules |
| `Memory` | Does each access through FindRam's windows reach the cell it names? | 7 addresses at ends of windows, 4 registers |
| `SplitsNested` | Does the parser return what the file says? | 2 splits, 2 parameters, 2 patches, buffer of 1 |
| `Macros` | Which multimedia macros do what the processor does, on which overlaps of target and sources? What do scalar macros keep? | every multimedia macro on 3 registers, pairs on 4, all bytes different; every scalar instruction modelled and idioms of two on 3 registers of two words of 2 bits |

Why the bounds are enough to be interesting: two threads are two waiters that race for
`wait_threads` and `count`, or a holder and a waiter; three, in `SemLive`, a holder and two
waiters; two slots let one be recycled while the other is used; counts 0, 1 and 2 are the
working, the racing and the always jamming case. `Cap` bounds `wait_threads`, which the code
never decrements, and the count at which a signal is still begun. In free use `Small` adds
that one slot is valid at a time and that counts stay between -2 and one above the cap: a
count that racing polls and signals drive is not followed further. Four host threads are two
starters and two children at once, or a waiter that is stranded, its heir in a new context,
and one more to wait for it; one slot per table makes the ids of all contexts clash; a table
of two threads is overrun by the third creation. `MaxWaits` and `MaxIds` bound the waits and
the semaphores of a game. Five instructions hold a branch, its slot, a second branch back
into that slot, and a slot of its own. Two units of three functions, at offset 0, at one
that is also the executable's address and at one beyond it, make every confusion of offsets
and addresses possible; all fields, symbols, subsets of functions and both orders of the
units are tried. The memory addresses are ends of windows next to each other. Two splits
with two patches each show anything left over from one split in the next, and an initial
buffer of one makes it grow. Macros read two registers and write one, so that three show
every overlap; with all bytes different a misplaced one is seen. Words of two bits have a
sign, a carry, a half and shifts by less than, exactly and more than a width; the registers
scalars start from have zero, negative and foreign upper words. Immediates of two bits have
every pair of halves, with and without a borrow.

`CHECK_DEADLOCK FALSE` appears where the system may stop: a jammed semaphore stops every
client, and a game whose threads are all started and whose caps are reached does nothing
more. A link that is done or has crashed has nothing more to do, nor has a sequence of
macros that has run. In `SemAll` the view leaves out the values that calls return, which
nothing reads again; in `Memory` the last operation, and in `SplitsNested` the splits
collected before the last, which no step reads. Threads are symmetric in `SemAll` only.

Fairness: `SemLive` assumes that the host schedules each thread that can move and that a
game that holds a semaphore signals it in the end. `KernelLive` assumes the same: `HostStep`
of each host thread is a step of a start or of a call, or the signal of what it holds. No
game is assumed to make any other call. Both are weak: no thread is promised a mutex that
others keep taking.

## Proofs

Every safety invariant and action property that a run checks is also a theorem, for
constants of any size, and so are the refinements. For each of them the run shows it on a
small instance, with mutants of the code that break it, and the theorem shows that nothing
depends on the size of that instance. What the theorems assume is said here; the modules
name it in an `ASSUME` (which TLC evaluates for the instances) or in the theorem itself.

### Semaphores (`EESemaphoreProofs`)

For any set of threads, any number of slots, any initial counts and any cap, assuming
`SerialTable`: `TypeCorrect`, `WaitExcludes`, `CreateIsFresh`, `RaiseOnlyUnwaited`,
`SunkPersists`, `ZeroWorks` and `TableRefines`, the last being the refinement of
`BinaryLock`. `SunkPersists` and `CreateIsFresh` hold for every usage; the others that say
something of locks say it for the usages lock and ahead, as the properties do.

They rest on one inductive invariant, `IInv`. Mutual exclusion alone is not inductive: a
thread may be about to unlock, to delete or to reinitialise a mutex. The conjuncts are
`Control` (which points belong to which call), `TableInv` (one creator or deleter at a time,
and what it has done so far to the slot it works on; a slot of a live id is valid), `UseInv`
(calls in progress are on live ids, so nobody is inside a call on a slot being deleted or
filled), `WaitInv` (a semaphore whose mutex is taken has been waited on), and, in usages
other than free, `HoldInv` (who holds a semaphore has its mutex, and nobody else does) and
`NoRaiseOnceWaited`. `SunkPersists` goes through the actions: a signal
reads the count once, and finds it below zero, so it can neither raise nor
unlock. Each action has a lemma per group of conjuncts it can disturb. The refinement proof
shows that create, delete, acquire, release and jam are single steps of `BinaryLock` and all
others stutter. `ZeroWorks` adds `ZeroInv`: while counts start at zero and only holders
signal, no count ever leaves zero, nobody is between a load and a store of one, and every
taken mutex has a holder.

### Threads and system calls (`EEThreadsProofs`, `EEKernelProofs`)

For any host threads, functions, table size and disciplines: `TypeCorrect`,
`HandlesAreKept`, `StartsAsAsked`, `ContextsMatch`. Only the first assumes anything of the
game: that creators take turns. The invariant `ThreadsInv` has three parts. `Table`: the
creator in CreateThread has filled the entry the counter names (`CreatorAlone`), so handles
name their functions, and who has looked one up has the right one (`LookedUp`). `Frames`:
through the pointer into its parent's frame, a child reads the id and function it was
started with as long as the frame is as it was (`IdsKept`, `FunctionsKept`), what a changed
frame holds is garbage or of another child (`FramesFilled`), and crashes come from changed
frames (`CrashesDangle`). `Contexts`: two threads that are starting together both count as
overlapped (`Together`), one that is not owns `ctx` from its malloc on (`CtxOwner`), and
what it has set so far is known at each of its points (`ContextFilled`).

`KernelRefinesThreads` shows that each step of `EEKernel` is a step of `EEThreads` or leaves
its variables alone; all that was proved of threads holds in the composition. Games that are
not quiet make no calls of semaphores (`LoudGames`). In quiet games, `CallsInv` says that a
creation or a start and a call that can go on exclude each other (`OneMaking`,
`MakingAlone`), that a register file in use has been cleared, or is just being
(`FilesCleared`), that a call which can go on is at home and points there (`CallsAtHome`),
and that two calls go on together only when one has woken the other and returns
(`OneAwake`). `CallsStayHome` and `StrandedStay` follow. `SemasInv` adds what each point of
a call works on and what games hold (`PointOK`, `IdsValid`, `HoldsLocked`) for
`ExclusionKept`.

### Emitter (`EmitterProofs`)

For functions of any length, any set of patches and any meaning of instructions, conditions
and register targets, assuming `WellFormed` functions, which have no jump tables:
`TypeCorrect`, `LabelsExistOnce`, `ReturnsV0`, and `RunsAsTheMachine`, the refinement of
`R5900`, which assumes in addition that no branch is one of the aliased likely ones
(`NoAlias`; with one it is false, as `EmitLikely` shows). `EmitterInv` has two halves. Of
the emission loop: each statement was written for an instruction of its kind (`Faithful`),
the lines without one are the delay slots (`Swallowed`), a line has a label where something
goes to it (`Labelling`). Of the function that runs: the statement it is in has the place it
is at, and where a branch is being taken its condition held (`Placed`). `ReturnsV0` adds
what is known of the end of a function (`Returned`): the closing brace is reached only after
a tail call. A delay slot is one step of the processor with its branch but several of the C;
the proof maps the step that leaves the macro to the machine's step.

### Linker (`LinkerProofs`)

For any number of units, sections, splits and relocations in which each project is
`WellFormed`: `TypeCorrect`, `CallsReach`, `DirectAndIndirect`, `StopsAtUnknown`,
`PointersGetThere`. First what each of the searches finds: a first element is one of least
index, which exists by the well-foundedness of the naturals (`WFMin`). Then a case for each
form of call: which of the three searches answers, and that its answer is in `Meaning`. The
invariant says that the headers of the units so far are loaded (`HeadersKept`), that code is
relocated once, just before it is emitted (`ImagesKept`, which is where splits that do not
overlap are needed), where the loops stand (`Position`, `Places`), and that cases are
functions at their address (`CasesKnown`). `HalfAssumption` and `WordAssumption` are about
the sizes of an immediate and an instruction.

Pointers need a second invariant, `PointersInv`: code is changed only by its own
relocations, once (`CodeMoved`, with `Aligned`), each upper half the emitter has passed was
injected, unless it was in the slot of a call (`UppersInjected`; `Passed` is where an
instruction is before the emitter's place among units, sections, splits and instructions),
nothing else was (`InjectedKnown`), and the tables are those of the sections loaded
(`TablesWritten`). That the two loops of the tables number a section alike is counting: each
numbers a section by those up to it; there are finitely many, a later one has a greater
number, so a number is that of one section. The rest is arithmetic of low words (`Cast`):
the halves give the host's low word exactly if relocation has added nothing to them.

### Splits parser (`SplitParserProofs`)

For files of any size. `Nested` (the state is the nesting; the buffer is twice its first
size as soon as it is full) is inductive for patches written in either order, and gives
`StateFollows`, and `BufferHolds` for files of up to twice the initial number of splits.
`Drafted` says what the parser has of the split that is being written at every point of it,
field by field: parameters are counted when they are closed (`ParametersKept`), the count of
patches moves on with the next patch's first key (`PatchesWhole`, `PatchesKept`), in either
order of keys, and between splits nothing is left of the one before. `TypeCorrect` and
`ParsedAsWrittenAlways` follow from it; nothing is assumed of the file.

### Memory (`EEMemoryProofs`)

For any addresses, registers, values and image: no two addresses of the map share a place
(`Apart`), each is inside its buffer (`WindowsFit`), `TypeCorrect`, and from them a game
which keeps to the map (`KeepsToMap`) sees `GuestMemory`, operation by operation
(`MemoryRefines`). `Steps` reduces the actions to the four things they do to memory.
`FirstVuDataOutside` and `StacksCollapse` show why the assumption is needed: the first
quadword of vu1 data memory is one of the code memory, and the stacks of threads 0 to 29 all
begin at the first quadword of main memory.

### Macros (`MacroProofs`)

Multimedia, for any registers, contents, programs and operation on lanes: `TypeCorrect`,
`InPlaceIsExact`, `OthersAreWrong`, `NoLaneLost`. `MacrosProper` goes through the macros:
each lane is given one there is, and one of the target itself, where that is tolerated, is
not below it. The invariant `Progress` says that the lanes below `k` hold what the macro
makes of `before`, and all else is as before; `ReadsBefore` is why an assignment keeps it
so. For the overlaps that are not tolerated, `Chained` says instead what a lane holds when
its source was overwritten before it was read, and for each macro there is a lane that is
(`TornAt`), or one that comes from the wrong source. For `NoLaneLost`, the lane of a source
that each lane of the two targets holds is computed.

Scalars, for words of any even number of bits: `ScalarTypeCorrect`, `PromisesAreKept`,
`BranchesDecideAlike`, `ExactlyThese`. `PromisesKept` is almost inductive; with types and
the processor's `$zero` it is (`ScalarInv`). The work is arithmetic, in layers: powers of
two, quotients and remainders; words, their signs and their sign extension; words and their
bits; then one lemma per group of macros and per action (`...Keeps`). `ExactlyThese` has two
halves: the lemmas of the groups show that the other macros agree with the processor on
extended operands, and for each macro that promises nothing, operands are named on which it
differs. `PowersAssumption` says what `^` is, which the provers do not know.

### Only model-checked

 - `WaitersProgress`, `StartsFinish`, `WaitersServed`: liveness under fairness is outside this prover.
 - The three refuted properties, of which a counterexample is all there is to show.

## Plan

Modelled: semaphores, threads, the kernel they make together, the emitter's control flow,
the linker, memory, the splits parser, the multimedia and the scalar macros. Proved: every
safety property that is checked. Next, in order:

1. The unaligned accesses `ldl`/`ldr`, `sdl`/`sdr`, as parts of a doubleword in `Scalars`.
2. `convert_path`, as a bounded check of its loops.

## Not modelled

Logging and the stdio wrappers (`sceOpen`, `sceRead` and the like) pass their arguments on.
The hand-written functions are clients of the kernel from one game. The config parser reads
four strings per unit; it has one hazard, a buffer sized by the wrong type and counters it
does not initialise (rc_config.c:20). Floating point is the host's. Traps and a number of
multimedia macros do not compile, so there is no behaviour to model. The host's memory model
is taken to be sequentially consistent.
