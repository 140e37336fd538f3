# A TLA+ model of uasm

uasm is an assembler, virtual machine and native compiler for a portable
instruction set (`spec/ISA.md`).  This directory models the
interpreter's memory, frames and instructions, scalar and vector, the calls a
program makes to its host, the assembler and disassembler with their command
line, the object files, the linker, the threaded native compiler and the code it
makes.  TLC checks the models on small instances; TLAPS proves, for every value
of the constants, what matters most about the heap, frames and their allocas,
the VM stack, integer and vector instructions, the threaded compiler, the
linker, object files and the hosts of a program.

Paths below are relative to `src/src/` unless they say otherwise
(`interpreter.cpp` is `src/src/vm/interpreter.cpp`).

## 1. The system

A program goes through these parts; each names its state, its operations and
what makes it correct.

    text --parser--> objects --link--> Program --writeUo/readUo--> file.uo
                                          |
                        +-----------------+--------------------+
                        v                                      v
                  Interpreter (run)              compileProgram[Parallel] (run --jit, build)
             frames, VM stack, heap, memory        arm64 encoder, layout, patches

### Interpreter (`vm/interpreter.cpp`)

One `Interpreter` object executes one program on the calling thread.  Its
state is shared by all frames: `memory_` (flat bytes), `heapBlocks_` and
`heapBumpPtr_` (the allocator), `stack_` and `stackPointer_`, counters.  A
`Frame` has registers, a compare flag, a carry flag, an overflow flag and the
list of its allocas.  `call()` is recursive: a uasm call is a host call.  A
`RuntimeError` thrown anywhere ends the run.

| part | state | operations | what makes it correct |
|---|---|---|---|
| Heap allocator and flat memory | `heapBlocks_`, `heapBumpPtr_`, `memory_` | alloc, free, realloc, store, mem* | live blocks are disjoint, in memory, and keep their bytes until written; the table tiles the memory |
| Call frames and allocas | `Frame::allocas` | alloca, stackfree, call, tailcall, ret | a frame gives back exactly its own blocks, callers keep theirs |
| VM stack and flags | `stack_`, `stackPointer_`, the flags of a frame | push, pop, pushf, popf, setsp, stackrestore, cmp and the carry/overflow instructions | last in, first out across calls; saved flags come back; never out of `stack_` |
| Control flow and registers | registers, block, program counter, flags, `memory_` | mov, arithmetic, conditions, conversions, pointers, loads and stores, branches, switch, calls, ret, trap | what native code has to reproduce; linked calls resolve; every way to ask for a relation agrees; a load gives what was stored |
| Integer and bit instructions | one destination register and the flags | about 130 opcodes | each agrees with its definition on unbounded integers or sets of bits, at every width |
| Floating point | registers | IEEE arithmetic of the host | not modelled: no floating point in TLC |
| Vector instructions (`vm/vector_ops.cpp`) | vector registers, memory | lanewise arithmetic, masks, shuffles, packing, reductions, gather and scatter | a lane is a scalar; a masked instruction touches the lanes of its mask; codes with an inverse give their lanes back |
| Strings, buffers, UTF-8 | `memory_` | str*, mem*, utf8* | a copy writes what was read, or throws; encoder, decoder and validator agree |
| Syscalls (`vm/syscall.cpp`, `vm/*/syscall.cpp`) | open directories, the host | files, directories, environment; sockets, clocks and terminals are not modelled | a program cannot tell the hosts apart, up to the differences of section 6 |

Hard here: which sequence of allocations, frees and splits reaches which table;
what a frame frees after others have reused addresses; flags that outlive
calls; widths and borders of 130 arithmetic opcodes; copies that overlap;
masks of instructions that load, store and exchange lanes.

### Toolchain

| part | state | operations | what makes it correct |
|---|---|---|---|
| Lexer and parser (`frontend/`) | the text | text to objects | reads a text in one way, or refuses it; reads what the disassembler prints |
| Extensions and opcode table (`core/`) | enabled extensions | gate on each opcode and type | refuses exactly the texts that need what is not enabled |
| Linker (`linker/linker.cpp`) | none | merge, find duplicates, unresolved calls, `main` | what it lets through never meets an unresolved call |
| `.uo` files (`format/serializer.cpp`) | a file | writeUo, readUo | no prefix of a file is taken for a program; a whole file reads back; success is success |
| Disassembler (`format/disassemble.cpp`) | none | program to text | what it prints assembles to what was printed |
| Native codegen driver (`codegen/codegen.cpp`) | `compiled`, `errors`, threads | compile n functions on t threads, lay out, patch calls | no data race, same result as one thread, patched calls reach callees, it ends |
| arm64 encoder (`codegen/arm64/encoder.cpp`) | words of a function | one case per opcode, prologue, epilogue, branch patches | compiled code does what the interpreter does, or the program is rejected |
| Mach-O writer (`codegen/macos/writer.cpp`) | none | fixed load commands, codesign | not modelled: a format without state |
| JIT (`vm/jit.cpp`, `util/*/jit_memory.cpp`) | executable memory | map, call with up to eight arguments, result | as the encoder |
| Command line (`cli/main.cpp`) | files | compile, run, run --jit, dump, build | the output is made of the sources the patterns mean, whoever edits them; build is not modelled |
| Glob (`util/*glob.cpp`) | none | expand `*` and `**` | the files that match, each once |

Hard here: threads that share two vectors without a lock; a host that refuses a
thread; a process that dies or a disk that fills up inside a write; a
flag register that is not saved over calls; patched offsets that are signed and
cut to 26 or 19 bits.

`PROJECT.json` lists every component with its status, and 40 hazards at the
lines where they bite, with the properties that cover them.

## 2. The modules

Every module opens with a comment that says what it is about; `PROJECT.json`,
"map", gives for each definition the lines it models.  Operators named after a
C++ function model that function.  Definitions marked `Fault:` are plausible
bugs, used to check that each property can fail; no specification uses them.

### Heap

* `HeapBlocks`: the block table as a record `[blocks, bump]` and `heapAlloc`,
  `heapFree`, `heapBlockSize` as functions of it: the rounding of size 0 to 1,
  first fit, the split, the bump pointer with its sum modulo 2^64 (`Word`).
  `Tiled` says what the table should be.
* `Heap`: the state machine: alloc, free, realloc, memset (and a store, which
  is a memset of equal bytes), memmove and memcpy, each with its error paths.
  An error ends the run (`status`).
* `HeapSpec`: what a program may rely on: a set of objects, each an extent of
  memory of its own, whose bytes only a write to them changes.  `Heap`
  implements it with the live blocks and their bytes as the objects
  (`ImplementsObjects`).
* `CallFrames`: frames with their lists of allocas over the same `HeapBlocks`,
  mixed with the program's own alloc, free and realloc.  `freeAllocas` walks
  the list from its end and stops at the first block that is not live.
* `BasicLemmas`, which every module of proofs uses, and `HeapProofs` (the block
  table, then the state machines `Heap` and `CallFrames`, whose specification is
  `FramesSpec`): the proofs (section 4).

An access whose end passes 2^64 passes `checkRange` and is undefined behaviour;
`HeapAssumption` leaves it out.

### VM stack

* `VmStack`: bytes of `stack_`, the pointer, and the flags of every frame.  A
  push moves the pointer by the size of the *value's* type, a pop by that of the
  *instruction's* type, as in the code.  setsp and stackrestore look at a number
  that is not negative modulo `Sizes`, which is 2^64: an i128 of 2^64 + k goes to
  k.  `saved` is a history variable: where a pushf wrote which flags.
* `StackDiscipline`: programs that pop what they pushed, with its type;
  history variables `pushed` and `popped`.
* `StackDisciplineProofs`: the proofs about both modules.

A program whose pops do not match the types of its pushes leaves the stack
misaligned; that is what the code does and no document promises otherwise, so it
is a hazard in the list and not a property.

### Instructions

* `Words`: two's complement words, with `Wide` the width of `Int128` (128):
  every operation is done at that width and cut afterwards.
* `IntegerOps`: one operator per family of opcodes (basic, bit, rotate,
  checked, saturating, carrying, widening, divisions, roots and powers, bit
  fields, funnel shifts, pointers), case by case as in `call()`, and next to each the
  conditions under which it throws.  Most checks of an amount or an index cut it
  to size_t first (`SizeT`, `BadIndex`): 2^64 + k passes for k.  shl and shr compare
  the whole number, as `shift` does.
* `IntegerUnit`: executes a job of instructions and keeps the carry and
  overflow flags; its properties define every opcode a second time, on
  unbounded integers and on sets of bit positions.
* `ByteStrings`, `TextUnit`: the same for the buffer, text and UTF-8
  instructions on flat memory.  Left out: the cut of a result to the type of
  the instruction, and memcmp, whose number is the host's.
* `VectorOps`: one operator per family of vector opcodes, on functions from lane
  indices to numbers: lanewise, mask words, comparisons, moves and shuffles,
  packing and widening, reductions.  `VectorUnit` executes short codes of them,
  with vector registers, numbers and flat memory (plain, masked and indexed
  loads and stores).  An access whose end passes 2^64 gets by `checkRange`, which
  sees the end modulo 2^64, and goes to what the host has beside the memory
  (`LoadAstray`, `StoreAstray`): a load finds any number there, and of a store
  what reaches the memory is seen.  Its properties compare a lane with the scalar
  instruction, a masked code with the unmasked one, pairs of codes that should
  undo or equal one another, and mask words with sets of lanes.
* `MCInstructions` puts the three units in one instance: the initial state
  says which.
* `IntegerProofs`: the proofs about chains of limbs, overflow and saturation, and
  about lanes and masks.

What the code does at 128 bits is modelled, and is not what the properties
ask of shorter types: addc and subb lose the carry of a limb whose operand is
the largest u128, addo, subo, addsat and subsat never see an overflow, a
product of two u64 taken as signed wraps `Int128`.  A u128 from 2^127 on is read
as a negative number, by cmp, div, shr and min too.  nextpow2 of a u128 above
2^127 never ends; the model has no step there.  vshl and vshr of i128 lanes run
with an amount of 2^64 + k, where shl and shr throw: `LanesAreScalars` gives the
scalar what is left of the amount (`Amount`).

### Toolchain

* `UoFormat`: the `.uo` format byte for byte, both versions, writer and reader
  with every early failure.  A number is its two low bytes and two zeros
  (`Limit` = 2^16 bounds every count and length); one that is larger, which only
  the sentinel is, reads as `Limit`.  `UoFile`: the file under a writer whose
  bytes reach it one at a time, that may die anywhere, with a disk that may
  fill up.  `UoFileProofs`: the proofs (section 4).
* `Linker`: `link()` on objects, with its errors in their order.
* `Values`, `Interpreter`: frames, registers, flags and control flow of
  `call()`, one action per kind of instruction, every trap: copies and
  arithmetic (by `IntegerOps`, which it extends), compares, flag setters,
  selects and branches, conversions and casts, pointers, loads and stores in
  their plain, field and array forms.  The memory is one for all frames.  An
  access whose end wraps at 2^64 gets by `checkRange`; what happens then is the
  host's, and the run ends as "undefined".
* `CodeImage`: layout and patches of `linkCompiledFunctions`.
  `ParallelCodegen`: the threads of `compileProgramParallel`;
  `CodegenSpec`: what compiling promises whatever the number of threads, which
  `ParallelCodegen` implements.
* `Arm64Encoder`: the words of a function, operation by operation, with
  immediates cut to their fields.  The size of a frame is put into a field of 12
  bits (`FieldRange` = 4096 values) and a slot into one like it: from 4096 bytes on, a bit
  of the frame's size is the one that shifts the field, or the word is another
  instruction (`MoveSp`, `SlotAccess`).  `Arm64`: a processor that executes those
  words, with registers, condition flags and the host's stack.
* `Toolchain`: the composition: link, interpret, compile, execute, on the same
  program and arguments.  `stores` is a history variable: what was stored where.
  Some programs are polls: they ask for one relation of two numbers in every way
  there is and count the ways that say yes.
* `CodegenProofs`, `ToolchainProofs`: the proofs.

`Toolchain` calls a run *plain* (a history variable) while it stays in what
ISA.md, section 11, says native code is for: i64 operands and instructions, as
many arguments as there are registers, and no branch but on a cmp of the same
frame since its last call.  Native code must reproduce plain runs that return
the entry's type.  Not plain, and different in native code: unsigned and narrow
types (compiled as signed 64-bit), more than eight arguments (zeros), slots
never written, mismatched return types.  Left out of the encoder: syscalls and
float operands.

### Files and commands

* `Parsing`: readers as operators: a position in, a value and the position
  after it out, or a failure that gives up everything (an exception).  The
  reader of `.uo` files is written with them too.
* `Assembly`: the parser on texts that are sequences of tokens, with the gate of
  the extensions and the checks of operands, and the disassembler that prints a
  program as such a text.  The opcode table has one opcode of every shape that
  flags and extensions tell apart.
* `Globbing`: `expandGlob`, with the walk over directories, on paths of a few
  characters.
* `CommandLine`: compile and dump over files that somebody edits meanwhile:
  patterns expanded one by one, files read and parsed one by one, then link,
  then the output.  `had` is a history variable: the texts each file had since
  the command began.
* `Syscalls`: the calls for files, directories, environment and arguments, of
  `vm/posix/syscall.cpp` and of `vm/windows/syscall.cpp`, on the same disk; a
  program makes the same calls on both.  posix is Linux here.  The flags of open
  are a set of bits that each host reads as its own, and on Windows a file that
  was not opened with O_BINARY is translated: LF is written as CR LF, CR LF is read as LF, a Ctrl-Z ends
  what is read, and open removes one at the end.  `Portable` names the calls the
  hosts are known to treat otherwise (section 6); it says nothing of what else a
  call does, so that two codes for one call have to agree.
* `CommandProofs`: the proofs about `Syscalls`.
* `MCCommands` puts `UoFile`, `CommandLine` and `Syscalls` in one instance.

## 3. What is checked

| run | states | what it shows |
|---|---|---|
| `Heap` | 6 160 | any sequence of alloc, free, realloc, memset, memmove: `HeapTiled`, `LiveAllocationsDisjoint`, `BlockStartsAreForever`, and that the allocator implements `HeapSpec` |
| `CallFrames` | 76 842 | `BlocksHaveOneOwner`: a live block is one alloca or one allocation, never two; `FreeingNeverTraps`; `CallersKeepTheirAllocas` |
| `VmStack` | 1 500 560 | the pointer stays in the stack; `SavedFlagsIntact` |
| `StackDiscipline` | 782 189 | `StackHoldsPushed`, `PopReturnsPushed` across calls and restores |
| `Instructions` | 646 311 | integers: `CarryChains`, `OverflowIsExact`, `SaturatesToNearest`, `QuotientsAndRoots`, `BitsMove`; text: `SearchesReadTexts`, `CopiesAreWhole`, `Utf8Agrees`; vectors: `LanesAreScalars`, `MaskedLanesOnly`, `LanesComeBack`, `MasksAreSets` |
| `UoFile` | 125 152 | `.uo` files: `OnlyWholeFilesRead`, `WholeFilesReadBack`; commands: `BuildIsTheSources`, `GatesAreExact`, `Reassembles`; syscalls: `HostsAgree` |
| `ParallelCodegen` | 10 481 | `NoDataRace`, `CallsReachCallees`, refinement of `CodegenSpec`, `Terminates` |
| `Toolchain` | 48 078 | `LinkedCallsResolve`, `NativeAgrees`, `HostLeftIntact`, `NativeReturns`; in the interpreter alone `ConditionsAgree`, `LoadsReadStores` |

`Heap` and `VmStack` also check their type invariants, which are parts of the
inductive invariants of section 4.

Four runs show where the code and what the repository says of it disagree
("findings" in `PROJECT.json` quotes the lines):

* `HeapHugeSizes`: `heapBumpPtr_ + size` wraps at 2^64, so that an allocation
  of 2^64 - 1 bytes succeeds once something was allocated, moves the bump
  pointer back and shares bytes with live blocks.
* `HeapForeignWrites`: ISA.md says that the mem* family refuses addresses the
  allocator did not hand out; only free and realloc look.
* `UoDiskFull`: writeUo looks at the stream before its destructor flushes the
  last buffer: a disk that is full then goes unreported.
* `NativeFlags`: interpreted, each call has a compare flag of its own; compiled,
  all calls share the processor's, so a branch after a call follows the
  callee's cmp, in a program the encoder accepts.

### Bounds, and why they are enough

* `Heap`: 4 bytes of memory, sizes 0 to 3, every address, bytes 0 and 1,
  `Word` = 16.  Three blocks fit, so that a first fit can pass over a block, a
  split can happen between two blocks, and a free block can be too small.
  `HeapHugeSizes`: 3 bytes, `Word` = 8, and a size that is `Word` - 1.
* `CallFrames`: 5 bytes, sizes 0 to 2, calls to depth 3: a caller, a callee and
  its callee can each hold a block and reuse one another's.  Programs release
  only what they own; what happens to the others is in the hazards.
* `VmStack`: 5 bytes of stack hold a flag word and one byte, so that every push
  can overflow, and i16 pushes with i8 pops reach every alignment; setsp goes
  to -1, 1, 5 and 6, inside and on both sides of the border, and to 257 and 262,
  which are cut to 1 and 6; depth 2.
* `StackDiscipline`: 9 bytes, values of 1, 2 and 4 bytes, depth 2.
* `Instructions`: `Int128` has 16 bits, i64, u64 and ptr 8, i32 and u32 4, and a
  byte 2; the relations between the widths are those of the code.  All pairs of
  4-bit numbers, out-of-range ones included (a register may come from another
  type), the numbers around the limits of the longer types, amounts of 256 and
  259, which a size_t of 8 bits cuts to 0 and 3, and chains of three limbs.  Texts on 5 bytes: every memory over {0, 'A', 'a'}, eleven UTF-8
  memories with whole, overlong and broken sequences, code points on every
  border of the forms.  Vectors: a v128 has 16 bits, a v256 32 and a v512 64,
  that is four lanes of i32, two of i64 or one of i128, as in the code, and a
  mask word has a bit for every lane of a v256; 20 bytes of memory, so that a
  v256 fits beside its neighbours and an index can leave it.  Every lanewise
  opcode on every pair of 4-bit numbers, every mask of four lanes, and codes of
  up to a few instructions for the others.
* `UoFile`: 42 programs of at most two functions of four shapes (nothing in
  it; one instruction; every kind of operand; empty names), every prefix of
  each file, and a writer that may follow any other.  A reader is atomic, which
  is right for files within one stream buffer.
  Commands: texts of one file, each of three heads with two of 29 lines, right
  and wrong, so that a line meets every other; three trees of
  three files with fourteen pattern lists and five lists of flags, two commands
  and two edits at any moment.  Syscalls: any three calls with addresses inside
  and on the border of nine bytes of memory, two descriptors, three names, a
  disk of three bytes and one of nine, flags of open that mean something on one
  host, on both or on none, and LF, CR and Ctrl-Z in files and memory.
* `ParallelCodegen`: 1, 2 and 4 functions, each supported or not, with calls
  forward, backward, to itself and to nowhere; 0, 2, 3 and 9 threads asked for
  (clamped to 1 and to the functions); a host that may refuse any thread.
* `Toolchain`: about sixteen hundred programs: every operation with every branch
  on numbers that wrap, loops, recursion through two objects, missing results,
  too many arguments, errors of the linker; polls of six relations signed and
  four unsigned, of carry, overflow and borrow, of conversions and pointers;
  stores that overlap, arrays and fields, and every edge of the memory.  A byte
  has one bit, i32 two, i64 and ptr four, i128 eight, and there are eight bytes
  of memory; a movz or movk sets a quarter of an i64; two argument registers,
  five registers.  A frame has a field of 64 (`FieldRange`), which five
  registers stay below.  `MaxCalls` = 5 bounds the depth of the interpreter's calls;
  the recursion of the run reaches it.  Native branches have fields wide enough
  for the programs.

### Deadlock and fairness

`CHECK_DEADLOCK FALSE` stands where a run of the system ends: a RuntimeError or
a return ends a program, a compilation returns, a job is finished, and a
command line or a program has made its last command or call.

Liveness is stated twice.  `ParallelCodegen!Terminates` assumes weak fairness of
the caller and of each worker: they are host threads that wait for nothing but
`join`, and the host schedules every runnable thread.  A refused thread ends
the process (`std::terminate` on a vector of joinable threads), which the
specification of the outcome admits.  `Toolchain!NativeReturns` assumes weak
fairness of `Execute` alone: a processor executes the next instruction.

## 4. What is proved

Each theorem holds for every value of the constants that satisfies the
assumptions of the modules and the hypothesis named here.

| module | theorem | hypothesis |
|---|---|---|
| `HeapProofs` | `TypeCorrect`, `StaysTiled` (`[]HeapTiled`), `AllocationsStayDisjoint` (`[]LiveAllocationsDisjoint`), `StartsStay` (`BlockStartsAreForever`), `AllocatorKeepsObjects` (`Heap` implements `HeapSpec`) | `SizesFit` |
| `HeapProofs` | `EachBlockHasItsOwner` (`[]BlocksHaveOneOwner`), `ReturnsAlwaysFree` (`[]FreeingNeverTraps`), `CallersKeepAllocas` (`CallersKeepTheirAllocas`), of `CallFrames` | `SizesFit` |
| `StackDisciplineProofs` | `TypeCorrect`, `SavedFlagsStay` (`[]SavedFlagsIntact`) of `VmStack` | none |
| `StackDisciplineProofs` | `StackIsWhatWasPushed` (`[]StackHoldsPushed`), `PopsReturnPushes` (`PopReturnsPushed`) | `Typed` |
| `IntegerProofs` | `ChainsAreExact` (`[]CarryChains`), `OverflowsAreExact` (`[]OverflowIsExact`), `SaturationIsNearest` (`[]SaturatesToNearest`) | none |
| `IntegerProofs` | `LanesGiveScalars` (`[]LanesAreScalars`) of `VectorUnit` | `VectorsFit`, `SumsFit` |
| `IntegerProofs` | `MasksSelectLanes` (`[]MaskedLanesOnly`) of `VectorUnit` | `VectorsFit` |
| `IntegerProofs` | `MasksComputeSets` (`[]MasksAreSets`) of `VectorUnit` | `VectorsFit`, `MasksFit` |
| `CodegenProofs` | `NeverRaces` (`[]NoDataRace`), `ThreadsMakeNoDifference` (`ParallelCodegen` implements `CodegenSpec`) | none |
| `CodegenProofs` | `CallsAlwaysLand` (`[]CallsReachCallees`) | `ProgramsFit` |
| `ToolchainProofs` | `LinkingResolves` (`[]LinkedCallsResolve`) | none |
| `ToolchainProofs` | `LoadsGiveStores` (`LoadsReadStores`) | `InputsFit` |
| `ToolchainProofs` | `HostStaysIntact` (`[]HostLeftIntact`) | `InputsFit`, `BranchesReach`, `FramesReach` |
| `UoFileProofs` | `FilesReadBack` (`[]WholeFilesReadBack`), `PartsAreRefused` (`[]OnlyWholeFilesRead`) | `CountsFit` |
| `CommandProofs` | `HostsIndistinguishable` (`[]HostsAgree`) | `HostsFit` |

The hypotheses:

* `SizesFit`: no size a program asks for wraps when it is added to an address of
  the memory.  The code does not check it: `HeapHugeSizes` shows that without it
  the theorems are false.
* `Typed`: each push has the suffix of the type of its value; for other programs
  the stack does not hold what a pop expects (section 2).
* `ProgramsFit`: functions have names of their own, which link() sees to, their
  calls are inside them, and a branch spans the code of the program: 128 MB.
  The code does not check the length; TLC evaluates the hypothesis on the
  programs of its run.
* `CountsFit`: the programs are values of the C++ types whose counts fit their
  fields: fewer than 256 operands and parameters, written as one byte, and fewer
  than `Limit` of everything else.  The code checks neither: an instruction with
  256 operands is written as one with none, and what follows is read wrongly.
  TLC evaluates the hypothesis on the programs of its run.
* `HostsFit`: the worlds a run begins in are worlds (`IsWorld`: texts of bytes,
  names and descriptors of nodes that are there, no node with two names) and the
  calls are calls the model has, with numbers for the buffer and any bits for
  the flags of open.  Nothing is said of
  the addresses, the flags, the descriptors or the sizes a call gives.  TLC
  evaluates it on the worlds and calls of its run.
* `InputsFit`: the instructions are of the integer types and have the operands
  they read, and registers that frames have; loads, mov and arithmetic have a
  destination; arguments are numbers or nothing.  Nothing is said of their
  opcodes, symbols, numbers, addresses or order, nor of the blocks.  The parser
  lets an instruction with too few operands or no destination through, and the
  interpreter and the encoder then read what is not there.  TLC evaluates the
  hypothesis on the programs of its run.
* `BranchesReach`: in the native code of a program that can be compiled, a bl
  spans the whole and a conditional branch its function: 128 MB and 1 MB.  The
  encoder cuts a distance to its field without looking.  TLC evaluates the
  hypothesis on the programs of its run.
* `FramesReach`: the size of a frame fits its field: less than 4096 bytes, 510
  registers.  The encoder does not look, and without it the theorem is false: the
  prologue takes nothing of the stack for a frame of 4096 bytes, and a slot
  overwrites the saved link register.  TLC evaluates it on the programs of its
  run.
* `VectorsFit`: registers hold what a register can, numbers of the lane type, an
  instruction has the operands it reads, and lanes are whole bytes.  Nothing is
  said of opcodes, addresses, masks, indices, the width or the number of lanes.
  `SumsFit`: unsigned lanes are shorter than `Int128`, in which a sum of two of
  them is halved and bits that differ are compared.  `MasksFit`: a mask word has a
  bit for each lane, an i32 a number for all of them, and the instructions on
  masks have their operands.  TLC evaluates them on the codes of its run.
* `InputsAssumption` of `Toolchain`: what the C++ holds in vectors are finite
  sequences.  It says nothing of the instructions: any opcode, any operand, any
  name, blocks without labels or without end.
* `OperandsAssumption` of `IntegerUnit`: operands are numbers of registers, any
  numbers, in the type of the instruction or not.  `HalvesAssumption`: a type is
  as long as `Int128` or at most half as long, which 8, 16, 32, 64 and 128 bits
  are; with a type in between, a product could wrap.

### Heap

Disjointness of the live blocks is not inductive: when a free block is split,
nothing in it says that the free block was disjoint from the live ones, nor that
the bump pointer is past them all.  The inductive invariant is
`IInv == TypeOK /\ HeapTiled`: every block, free or not, ends where the next
one starts, and the last at the bump pointer.  The argument goes by operation of
the allocator: `CarveElements` says index by index what first fit with a split
leaves of the table (on `InsertAtElements` of `BasicLemmas`, about a sequence
with one element inserted), `CarveKeepsTable`, `ExtendKeepsTable` and
`FreeKeepsTable` keep it tiled, `AllocKeepsTracked` says that the block realloc
frees last is still live after the new one was allocated.  `TiledIsDisjoint`
is the consequence.  `CarveKeepsStarts`, `FreeKeepsStarts` and
`AllocKeepsStarts` give the action property.

For the refinement the objects are a function of the table and the memory (the
bytes of each live block under its offset).  An operation of the allocator
changes that function at one offset: the same lemmas say which blocks are live
after it, disjointness says that a write to one object is none to another, and
`ReallocView` that the bytes are copied before the block they come from is given
back.

### Frames and allocas

`BlocksHaveOneOwner` relates the table to the lists of the frames and to what the
program allocated; that a frame's list has no block twice is what makes
`freeAllocas` safe, and it follows from the same relation.  The inductive
invariant has the tiling of the table besides, so that first fit never hands out
an offset that is live.  `freeAllocas` is a fold over a list of any length:
`FreeingFrees` shows, by induction on the position in the list
(`IntervalInduction` of `BasicLemmas`, from the well-foundedness of the natural
numbers), that it frees the blocks of the list, all of them and no other.

### VM stack

The invariant of `VmStack` is the conjunction of its two theorems: that a
saved word lies between the stack pointer and the end of the stack (in `TypeOK`)
is why a push, which writes below the pointer, does not touch it, and
`UnpackedPacked` (three flags go through four bytes and come back, the sign of
the compare flag included) is why the word means what it did.

`StackDisciplineProofs` shows that the bytes from the stack pointer up are the
bytes of the pushes, one after the other.  `ContentsGrow` and `ContentsShrink`
say what a push and a pop do to the contents, `PushBytesSplit` cuts the bytes of
a sequence of pushes in two: a restore drops any number of them at once.

### Integer instructions

The solvers know nothing of 2^n with n a constant of the model.  `PowerCounts`
of `BasicLemmas` says that 2^n is the number of subsets of 1..n, whence
`PowerDoubles`, `PowerSum` and `PowersGrow`; `ModSame` and `ModIsSame` are about
remainders.  On them rest the conversions: two numbers that are the same modulo
2^w are read as the same by `AsSigned` and `AsUnsigned` (`SameWords`,
`ReadBack`), and an operation on numbers of a type below 128 bits does not wrap
`Int128` (`SignedExact`, `UnsignedExact`, `Unwrapped`), so that what
`computeWithOverflow` compares with the limits of the type is the exact result.

`CarryChains` is about the results of all steps of a job.  `ChainInv`
remembers that every result so far is one limb and that nothing threw;
`ChainHolds` is the arithmetic of one more limb, `LimbsGrow` that the value of a
chain is a sum in which the new limb is the last term.  `OverflowIsExact` and
`SaturatesToNearest` speak of a job's first result, so each is shown for the step
that writes it (`FlagStep`, `CheckStep`, `DivchkStep`, `WideStep`,
`SaturatedStep`, `ClampedStep`); the other steps change nothing they look at
(`FirstOrNot`).  At 128 bits the properties say nothing of addo and its like (section 2) and
divchk is proved all the same (`QuotientFits`).

### Vectors

`LanesAreScalars` and `MaskedLanesOnly` look at jobs of one instruction, so the
invariant is small: until the first step the registers and the memory are those
the job began with (`VInv`), and a job that ends after one step has made no other
(`SingleStep`).  What is left is arithmetic, opcode by opcode.  `LaneIsScalar` and
`ThrowsAsScalar` compare what `VectorOps` computes on a lane with what
`IntegerOps` computes on registers.  They differ in how often a number is cut to
the type on the way (`SameThrough`: it does not matter), in how far a shift goes
(`ShiftedLane`) and in how an order is found: `LanesCompare` derives it from min
and from the borrow of a subtraction.  xor is a sum over bits in the model, and
that it is zero only for equal numbers takes an induction over the bits
(`SharedBits`, `XorZero`).

Loads and stores are about bytes.  `LaneAtIs` says what number the bytes at an
address are, and that a lane is loaded from bytes the memory has or is zero
(`OutsideIs`).  A store goes lane by lane and stops at the first that is out of
range.  In the model it is a fold; `StepStores` follows it by induction on the
number of lanes: a byte holds the last lane written over it, which matters to a
scatter whose lanes overlap.  `MaskedLanesOnly` is about accesses of which no
lane ends past 2^64, and says so.

`MasksAreSets` is about the bits of words.  `BitsOfSum` says that a number that
is built bit by bit has those bits, by induction over them, whence the bits of
and, or, xor and not (`WordsAreSets`); a shift moves the set (`ShiftsAreMoves`), and
what is counted or found is what the set has (`CountOfLanes`, `StepCount`).

### Threads

Worker t of n threads does functions t, t + n, t + 2n and so on.  `NeverRaces`
needs that two workers are never at the same function: the invariant keeps each
worker's position congruent to its number modulo the number of threads, and
`StridesDisjoint` does the rest; that the caller reads only after every join is
the other half.  `ThreadsMakeNoDifference` adds what each worker has assigned
so far, so that after the joins every function that no error names was compiled.

`CallsAlwaysLand` is about the layout: starts of functions are sums of sizes
(a fold), distances are cut to the branch field and taken as signed again; with
`ProgramsFit` nothing is lost.

### Linking

`LinkedCallsResolve` is about three programs that look for calls in their own
ways: `link()` flattens the blocks of every object, the interpreter reads the
instruction its top frame is at, and the encoder emits words, collects the `bl`
among them and looks their callees up.  The inductive invariant `LInv` says that
the program is linked (every call of its code names a function, `CallsAreNamed`)
and that every frame is at an instruction of it (`FramesFit`): functions and
blocks are those of the program through every jump, call, return and tailcall.
`FlattenElements` says that flattening keeps the elements, `CalleesAreCalled`
that no word but a call's branches with link.

### Loads and stores

`LoadsReadStores` compares the register a load has written with the list of all
stores so far, of any types, forms of address and functions.  The inductive
invariant `VInv` says that each byte of the memory is the one that the last
store over it left, or zero (`MemoryHolds`), that memory holds bytes, and that
registers hold numbers of the types there are (`FramesHold`), without which a
store would write no bytes at all.  The step by step part is a lemma for each
kind of instruction, that it keeps the registers so and leaves the memory alone,
and `StoreHolds`: a store writes the bytes it covers, and every other byte keeps
its last store (`LeftByOneMore`).
`OneOfEach` says that an instruction is of one kind: a step at a load is a load's.
A load adds its bytes up, each with its weight, and reads the sum as signed or
not; that the bytes of that number are the bytes of the memory is the arithmetic
of `BasicLemmas`: `BytesBelow` and `BytesAbove` cut the sum at a byte, what is
below is less than the byte's weight and what is above is a multiple of the next
(`IsByteSum`, by induction over the bytes).

### The host's stack under native code

`HostLeftIntact` is about the run of the processor, of which the program's text
says nothing at once: where the stack pointer is depends on every call that is
under way.  The argument goes from the encoder to the processor in four steps.

How much of the stack a function has taken depends on the word it is at alone
(`DepthAt`): nothing before its `stp` and after its `ldp`, its frame and two words
in its body.  `Flows` says of a sequence of words that each leads to a word at
the depth it leaves, that none moves the stack pointer by another amount, stores
outside of the frame or writes the frame pointer or the link register.
`InstructionEmits` shows it of what `Emitted` makes of every kind of instruction,
`BlockFlows` and `PartsFlow` of the blocks and the prologue (`FlowsFlatten`: the
words of parts that flow do), `CompiledFlows` of a function once its branches
are patched: `BlockStarts` says that a label leads to the first word of a block.
That a slot is inside the frame (`FrameHasRoom`) is why the encoder counts every
register an instruction names.

`ImageFlows` puts the functions one after the other: `FlatteningPlaces` says
where each word is, `PlacesAreOne` that it is in one function, `OffsetIsDistance`
that a field read as signed is the distance it was cut from, which is where
`BranchesReach` comes in.  `ProgramIsCode` is `linkCompiledFunctions`: every bl
has the distance to the first word of a function, since the functions link() lets
through have names of their own (`LinkedIsLinked`).  The result is `CodeFlows`.

The inductive invariant `NInv` says that native code runs as it flows: there
are calls under way (`Active`), the host's the first, each of which began where
the one below has its whole frame, has its way back in the link register or, once
past its `stp`, on the stack, and goes back into the body of the one below.
The calls are a witness, not a variable of the model: how many there are and
where they began is all that the invariant needs to know of a run.  `ActiveGoes`
shows it for a step of the processor, a lemma for each kind of word: `StpGoes`
saves, `BlGoes` adds a call, `RetGoes` removes one, `CmpOrStrGoes` stores into the
frame and so into no saved word, since frames of different calls do not overlap.  When the last call has gone back, the stack pointer is where the
host had it.  A fault, when the stack has no room, leaves it even.

### Object files

The invariant says that the file is a part, from the start, of what its program
is written as (`IsPart`): the writer empties the file and appends the next byte.
The rest is about the format.  A reader at a position where the file agrees, as
far as it goes, with the bytes of a value gives that value if the file reaches to
the end of those bytes, and fails otherwise (`Upto`).  This one statement is shown
of a byte, a number and a text, of operands, instructions, blocks and functions,
and of a list of each: `FlatteningJoins` takes the bytes of a list apart and
`RepeatReads` reads them item by item, however many there are.  Both theorems
follow: a whole file reads back, and a part that ends anywhere fails at the field
it ends in.  The one part that needs an argument of its own ends before the
version field, which makes it a file of version 0 whose count of functions is
the sentinel: `NoVersionNoProgram` shows that there are too few bytes left for
the first of them.

### Hosts

The inductive invariant `HostsInv` has the two worlds equal and well formed,
while every call was portable.  Equal worlds make most calls equal at once; what
is left is what the hosts do in two ways: file_size, which one
host asks and the other finds by a seek to the end and back (`SizesAgree`);
copy_file, which posix does byte by byte after it has emptied the target
(`CopiesAgree`); open, whose flags each reads as its own (`OpensAgree`); and
read and write, which Windows may translate (`TransfersAgree`).  Both need well-formed worlds, so each call has to leave one:
a lemma for each, of which `WriteKeeps` is the largest, since a write cuts
its bytes to the room the disk has left.  The room is a sum over the files in
use: `SetSumExists` and its neighbours in `BasicLemmas` say that the recursion
behind `MapThenSumSet` is defined, natural, and gives the same whichever element
is taken first.

### What is left to TLC

* Liveness under fairness (`Terminates`, `NativeReturns`) and ENABLED, which the
  prover does not handle.
* `NativeAgrees`: a simulation between the interpreter and the processor,
  instruction by instruction.  `HostStaysIntact` has the part of it that is about
  the processor alone.
* `ConditionsAgree`, where the program itself counts the answers: what it
  states is about the programs of the run.
* Of `Instructions`: `QuotientsAndRoots` and `BitsMove`, where roots, powers,
  divisors and the loops over bits are folds whose result is a matter of
  induction over data; the texts; `LanesComeBack`, which relates the results of
  several instructions.
* `SuccessMeansWritten` of `UoFile`, which is false; `CommandLine`.

## 5. What is not modelled, and the plan

Not modelled:

* floating point, scalar, in lanes and in native code: TLC has no IEEE numbers;
* syscalls for sockets, clocks, terminals, memory pages, permissions and the
  other numbers of the host, which a model could only repeat; a text that runs
  past the end of the memory (`cstrAt` looks at its first byte only);
* the Mach-O writer, a fixed layout handed to the system's codesign, and `build`
  around it; the JSON and YAML layouts of dump, which nothing reads; the
  mapping of executable memory;
* the characters of a token.  The lexer lets an integer saturate in `strtoll`
  and cuts register numbers to 32 bits;
* two compiles to one output at a time, beyond the writers of `UoFile`;
* enter, leave, getfp, setfp, getpc and framesize, counters that nothing else
  reads; memcmp, whose number is the host's; valign by a negative count, which
  reads outside of the register;
* an instruction with fewer operands than it reads, which the parser accepts and
  the interpreter indexes past: undefined.

Done, in this order: the heap with its proofs, the VM stack with its proofs,
frames and allocas, the parallel driver, object files, linker with interpreter,
encoder and processor, integer and text instructions, vectors, assembler,
disassembler, globbing and command line, syscalls, and the interpreter's
conditions, conversions, loads and stores.

Proved, in this order: the heap's invariants, the VM stack, the threaded
compiler, the allocator's refinement, frames and allocas, the stack discipline,
the linker, the object files, the hosts, loads and stores, the host's stack
under native code, lanes, masked lanes and masks.

Next, proving:

1. `CommandLine`: that the texts a compile has read are in `had`.
2. `Toolchain`: `NativeAgrees`, on the invariant of `HostStaysIntact`: that the
   slots of an active frame hold the registers of the interpreter's.

## 6. What the models had to say of the code

These are things the models reproduce and the properties therefore leave out,
each where the definition it is about says so.  A reader who expects otherwise
should look here first.

Assembler and command line:

* A program of two modules is dumped as one text that cannot be assembled again.
  A float of 10^6 or more, or below 10^-4, is printed with an exponent the lexer
  does not know, and others are cut to six digits.
* A pattern is matched on the last name of a path alone, and what is before the
  last slash (with `**`, the last slash before it) is a directory: `*/x.uasm`
  looks for a directory `*`, `src/**/x.uasm` for a name with a slash in it, and
  `/**` lists the working directory.
* A file named by a path without stars and by a pattern besides is parsed
  twice, and its functions are duplicates.
* The gate looks at instructions: parameters and results of a vector type need
  no extension.

Hosts (`Portable` leaves these calls out):

* open takes the host's own flags, and Windows translates a file that was not
  opened with O_BINARY: with the bits O_RDWR and O_CREAT of Linux, open makes a
  file there and fails on Windows, although ISA.md, section 12, promises that a
  call means the same on every host.  Not modelled of them: the other flags, the
  mode of a new file, that the bit of Linux' O_CREAT has Windows remove the file
  when it is closed, that a read after a Ctrl-Z finds nothing more, and the
  descriptors 0 to 2.
* rename and remove of files in use, and rename over a file, fail on Windows;
  so does a copy onto a file in use.  A file copied to itself, a copy of a
  directory and a copy to a full disk end in different files.
* dir_open of an address out of memory gives -1 on posix and 0 on Windows, where
  the first entry of a directory is lost; getenv differs on a buffer that is too small and on an empty
  value; file_lock does nothing on Windows.
* Both leave no final 0 when a result fills its buffer.

Native code: a frame of 4096 bytes or more is accepted and does not come back
(`MoveSp`), although ISA.md, section 11, says that nothing is silently
miscompiled.

Amounts and indices: an i128 of 2^64 + k passes for k in most checks, although
ISA.md, line 338, wants the amount of a rotation in [0, bit-width); ptralign by a multiple of 2^64 divides by 0, which is 0 on
arm64, as in the model, and the end of the process on x86-64; a bit field may
begin past the width when start + len passes 2^64, and the shift is then
undefined in C++ (the model takes it modulo 128, as both processors do).

Searches give 0 for what is not found and for what is found at address 0.

Vectors: an immediate mask is cut to the lane's type; vbitmask of i32 loses
lanes from 32; the index of a gather wraps; vaddsat of u128 wraps; vpacks
saturates to lanes of the same size; vreduce4 of fewer than four lanes is 0;
vdeinterleave128 is vinterleave128; ten opcodes of simd512 are assembled
and throw.

Interpreter: a store writes the bytes of the value's own type, so that an
immediate passed by a call, an i64, overwrites the neighbours of an i32; cmp
compares registers by their own types, so that an i64 stays signed under
cmp.u64; a pointer is read as the raw bits of whatever type the register has.
