# A verification of LLVM360

LLVM360 has two programs. `Naive+` (src/llvm360/Naive+) reads an Xbox 360
executable and writes LLVM IR and a metadata file, `MD.tss`. `Emulator`
(src/llvm360/Emulator) is a Windows DLL that the compiled program loads: it
reserves the guest's memory, fills it from `MD.tss`, gives the imported
variables their structures and answers the guest's kernel calls.

This directory holds TLA+ modules translated from that code, TLC
configurations that check them on small instances, and proofs that TLAPS
checks. `PROJECT.json` lists, per definition, the lines it models.

## Inventory

### The recompiler, Naive+

| part | state | operations | what is hard | what makes it correct |
|---|---|---|---|---|
| XEX loader (`Xex/XexLoader.cpp`) | image bytes, sections, imports | load headers, decrypt, expand blocks (basic only), find sections, patch imports | sizes and offsets taken from the file; a cipher chained over the blocks; a result main ignores | every block lands where the image says; each import has the name of its own library's table |
| Decoder (`Decoder/`) | `instrsList`, address to instruction | one call per word | nested switches over fields that overlap; a section that fails | no bit is lost, the operands the emitter reads are there and in its order, a failure reaches main |
| Flow passes (`Util.h`, `pass_Flow`) | `m_function_map`, start to function; `end_address`, `is_promotion`, `jumpTables` | eleven passes over the code and over the map | passes depend on each other's order and on the order of an unordered_map; erasure while iterating; open-ended searches | every function gets an end; functions do not overlap; every call target is in the map |
| Emission (`IRFunc.cpp`, `pass_Emit`) | per function `codeBlocks`, `emission_done`; three loops with their cursors | find leaders, find ends, emit, close blocks | loops that only move at a leader; ends found one block late; terminators added behind terminators | blocks tile the function; control flow is kept; the pass ends |
| Instruction emitters (`InstructionEmitter.h`) | the IR builder | one function per mnemonic | stores of 32 bits to registers of 64, carries, masks, CR fields | the IR computes what the instruction does |
| Jump tables (`JumpTables.h`) | targets of a table | `ComputeTargets` for four shapes | a target count read from a compare | the targets are those of the program's switch |
| Metadata export (`exportMetadata`) | a file | write header, imports, sections | the reader is another program | what is written is what is read |

### The runtime, Emulator

| part | state | operations | what is hard | what makes it correct |
|---|---|---|---|---|
| Memory manager (`MemoryManager.h`) | `freeBlocks`, a sorted vector; pages committed in the host | `allocate`, `free`, `write32To` | splitting, merging, preferred offsets, commits that fail, rounding by the host | ranges are disjoint and committed, no address is forgotten, a request is refused only when nothing fits |
| Start-up (`Runtime.cpp`) | `m_metadata`, the structures of imported variables, the main thread's state | `init`: import, sections, variables, thread | results used unchecked, sizes that leave out the last section, 64-bit stores of 32-bit words | imports are resolved, the image is whole |
| Kernel memory calls (`XboxKrnl_Entry.h`, `XboxKrnl_Impl.h`) | none of their own | `NtAllocateVirtualMemory`, `NtFreeVirtualMemory` (a stub) | big-endian words, 32-bit wrap, flags | a guest holds what it is told it holds |
| Other kernel and XAM entry points | none | stubs that log | nothing | nothing is promised |
| Indirect calls (`HandleBcctrl`) | the exported function array | linear search by CTR | a miss is logged and skipped | a function that is exported is found; a miss returns |
| Debug call back (`XenUtils.h`) | `currentState`, `prevState`, `stepOverPoints` | `DebugCallBack`, `HaltState` | a choice overwritten on return, points never cleared | step-over stops behind the call, continue continues |
| Threads, kernel objects (`Kernel/`) | declarations only | none | nothing at this commit | nothing |
| Graphics, ImGui | Direct3D objects | draw | I/O | not a matter of this model |

How the parts meet. The recompiler is one thread that runs decode, flow and
emit one after another over shared maps. The program it produces is linked with
the Emulator; `DllMain` runs `XRuntime::init` before any guest code does, and
the guest then calls kernel functions, which call the memory manager. At this
commit one thread runs all guest code: there is no lock to reason about, and
the hazards are order, partial failure, boundaries and termination.

## What is modelled

    Loader ---- MD.tss ----> Boot          the executable, and what the
      |                                    runtime gets of it
    Decoder -> Flow -> EmitPass, Emitters -> Guest     the code, pass by pass
                \        /        |                    and when it runs
                 Handover      PowerPC

    AddressSpace          what a client of the memory manager may rely on
      ^ implemented by
    XAlloc                allocate and free over the set of free blocks
      ^ implemented by       ^ extended by
    XAllocVec                Boot          XRuntime::init
    the vector of the          ^ extended by
    code (FreeVector)        NtMemory      the guest's memory calls

| module | models | proved in |
|---|---|---|
| Loader | `XexImage::LoadXex`, `exportMetadata`, `importMetadata` | LoaderProofs |
| Decoder | `DecodeInstruction`, `pass_Decode` | DecoderProofs |
| Flow | `pass_Flow` and its passes, jump tables | FlowProofs |
| Handover | what `pass_Flow` leaves and `pass_Emit` assumes | FlowProofs |
| EmitPass | `pass_Emit`, `IRFunc::EmitFunction`, the emitters of branches | EmitPassProofs |
| Words, Emitters | the IR of the integer emitters, executed | |
| PowerPC | nothing of the code: the architecture, which Emitters is checked against | |
| Guest | the emitted program under `DebugCallBack` and `HandleBcctrl` | GuestProofs |
| AddressSpace, XAlloc, XAllocVec | the memory manager, three ways | XAllocProofs |
| FreeVector | the vector of free blocks: its order, and what holds of it | XAllocProofs |
| Boot, NtMemory | start-up and the kernel's memory calls | NtMemoryProofs |

The MC modules only give the constants their values. FoldLemmas holds what the
proofs need of induction and of folds.

**XAlloc** models class `XAlloc`. Addresses are offsets from the base of the
region. `freeBlocks` is a set of `[offset, size]`, since the code sorts the
vector after each change; `live` is what clients hold, `lost` what a failed
commit took out of the list (the code throws and never puts it back),
`committed` the pages the host has committed. `Allocate` is one action with the
three ways the code ends: a pointer (`AllocateOK`), the exception of line 77
(`AllocateThrows`), `nullptr` (`AllocateNull`). A request of no bytes finds a
block and then always throws, because `VirtualAlloc` refuses to commit nothing.
`Free` and `FreeThrows` are the two ways of `free`. `VirtualAlloc` is external:
it rounds the address down to a page and acts on every page the range touches
(`RoundDown`, `PagesOf`).

`MergeFreeBlocks` is stated without order: a merged block runs from an offset
where no block ends to the first end where no block begins. **XAllocVec** has
the loop of the code (sort, then glue to the last merged block), erasure and
`push_back` included, and is checked to be a refinement of XAlloc. **FreeVector**
is the vector itself: how it is sorted, where a loop over it stops, and `SortedAndApart`.

**Boot** models `XRuntime::init` up to the graphics backend. One action is
one allocation or one group of stores, because each allocation can fail on its
own. An address stands for one 32-bit word, so the 64-bit store of `write32To`
sets a word and zeroes the next, and offset 0x58 of the module handle becomes
two words along (the fields are disjoint in both). `AllocationSize` is the
size computation of `allocateSectionsData`, which keeps the offset of the last
section in ascending order. Leaving `init` by an exception, a null pointer or
an access to a page that is not committed is `pc = "dead"`. Two things are
taken for granted: the executable exports `moduleBase` and `getXCtxAddress`
(the constructor of `XAlloc` dereferences the former unchecked), and the region
is reserved at 2^32 as first asked, so that a null host pointer becomes guest
address 0.

**NtMemory** adds the guest. `Swap` is the byte order of `BeField` with two
digits for four bytes. `NtAllocateVirtualMemory_X` reads the size swapped and
the base unswapped, and the model does too. `call` records what the guest was
told. Alignment wraps at the word (`AlignWord`).

**EmitPass** models the loop of `pass_Emit`, the three loops of
`IRFunc::EmitFunction` with one action per iteration, and the emitters of
branches, calls and returns. Addresses count instructions. The body of a block
is a sequence of items (which instruction, what kind, which blocks), and a
block runs up to its first terminator: the loop closes blocks with a branch
even behind a `bc` or a `bcctr`, and what stands behind a terminator is dead.
(LLVM's verifier would reject it; the project runs no verifier.) Anything that throws or breaks is `pc = "dead"`,
and so is a `bcctr` in a table without targets, of which `bcctr_e` takes the first
(`targets[0]`, InstructionEmitter.h:398).
`findTargetsSize` leaves a table empty when no `bc` is in its window, and Flow hands such
tables over: `WellMade` allows them, and `Acceptable` does not. The debug break at
function 0x82014DA8 (IRFunc.cpp:28) is left out. The outer loop over sections
runs the same walk again, finding every function done; it is left out too.

**Handover** is where two passes meet. `CallsKnown` says that `bl` targets are in
the map; `WellMade` what instructions and tables are made of, and that two tables
about one `bcctr` lead to the same targets: the pattern of a table ends at its
`bcctr`, so they are one table, found in two functions that overlap; `AllDecoded` that
no function with a body runs over an address without an instruction. EmitPass
assumes the first two of its programs (`CallAssumption`, `ProgramAssumption`) and
the third of the acceptable ones; `HandsOver` of Flow says all three of
`HandedOver`, the program that the flow passes leave.

**Flow** models `pass_Flow`: one action per pass, since the passes before
`flow_demoteInBounds` do the same for each function whatever the order of the
map. `flow_demoteInBounds` erases from the map it walks, and takes a step per
function, in any order; an erased element may end the recompiler, since the
loop reads a freed node. `funcs` is `m_function_map` with the end, the flags and
the tables of a function. `None` is the 0 that `end_address` starts with.
Distances that the code wraps (24-bit and 14-bit displacements) wrap at
constants. `Dead` is a look-up that throws; `broken` the debug break of
`flow_detectIncomplete`. Instructions are the mnemonics and words that some pass
looks for; `Seen` is what the emitters take of one, its target computed by them
as by the passes. The passes run per section and see the functions of the
sections before. `FlowAssumption` says of programs, among the ranges of their
fields, that a `bl` stands in a section: `pass_Decode` decodes nothing else.

**Decoder** models every case of `DecodeInstruction` as tables from mnemonic to
field value, in the order of the switches: `Else` is a nested switch that is left
without a match. Its result is a set, empty where the code returns size 0.
`DecodeWord`, `Fails`, `SectionDone`, `Breaks` and `PassDone` are the two loops
of `pass_Decode` and main's reaction. `Emitters` and `WithRc` are the keys of
the emitter's `instructionMap` with the operands that each emitter reads.

**Emitters** executes the emitted IR: `ctx` is the `XenonState`, and a step is what
one instruction was translated to. A 32-bit store to a 64-bit register keeps the
upper half (`StoreLow`), which the code does for `mullw`, `cntlzw`, `mfcr`,
`rlwimi`, CTR and the special registers. `Poison` is the outcome of an IR shift by
the whole width; a division that traps has no step. **PowerPC** is written
from the architecture, for 64 and for 32 bits, and Emitters instantiates it twice
with a mapping of its state: CR, kept the other way round in the code, bit by bit, and
for the 32-bit machine the lower halves of the registers.

**Loader** has the steps of `LoadXex` in the order of the code, with its failing
ways. A cell stands for the 16 bytes the cipher takes at once; a record of an import
is a cell. The chain of the cipher is `ivec`, the source cell it expects: a cell
decrypted with the wrong key or state is `Junk`. `Dead` covers the null dereference
for an import the table does not know, the read at the very end of the image, and
main going on without an image. `MD.tss` is the sequence of fields; a name is
written as its length and itself, and the reader finds each field from those it
has read. What a loop with a condition pushes back is `Kept`, what a loop adds
up is `Total`.
The sums of header fields are `uint32_t`s that nobody checks: the size of the image, the end
of a section and the end of its raw data are cut off at `Wrap`, the number of cells that 32
bits count, while the pointers of the block loop are not. So an image can be smaller than its
blocks, and a section can be kept outside the image or the file. Where a copy then leads out
of the buffer, the program goes on or ends: `CopyBlock`, `LoadPEImage` and
`ExportMetadata` have both outcomes. What is read from outside is `Junk`; what is written
outside is not followed. Raw sections are copied from the file as it is (`Stored`): in an
encrypted file that is ciphertext, `Sealed(k)` for the k-th cell, which is neither the cell
that decryption would give nor `Junk`.

**Guest** runs a program of emitted instructions with the debug call back in
front of each. `phase` is where the guest stands; the user chooses a key at each
halt; `Debugger` attaches and detaches. `asked` and `behind` are history: what the user asked for
last and where a step over shall end. At a step-over point `DebugCallBack` puts
the previous state back after `HaltState` returned, and what was asked there is `"lost"`.

## The runs

| run | module | bounds | shows |
|---|---|---|---|
| `xalloc` | XAlloc | 12 addresses, pages of 2, preferred 0, 4, 8, sizes 0, 1, 3, 6, free called | invariants of the allocator; it implements AddressSpace |
| `xalloc_vec` | XAllocVec | the same | the vector stays sorted and apart; it implements XAlloc |
| `ntmem` | MCNtMemory | 64 words, pages of 4, six images, three bases, four sizes, all 16 sets of flags | boot and the guest's calls |
| `ntmem_commit` | MCNtMemory | the same | finding: SUCCESS without allocation |
| `emit` | MCEmitPass | all programs of 3 instructions over 4 layouts of functions, all of 4 in one function, 8 with jump tables (one without targets, one with the default alone) and errors | blocks, control flow, termination, and that each step leaves less to do |
| `emit_return` | MCEmitPass | the same | finding: conditional returns |
| `flow` | MCFlow | every section of four instructions before a return; of three, with prologues, `.pdata` and addresses; two sections with an import, or with a gap between them and lengths in `.pdata` that cross it; tables of up to three cases, and one without a `bc` in its window; save routines | which functions are found, where they end, where tables lead, and that the result is what `emit` assumes |
| `decode` | MCDecoder | every extended opcode and every primary one with two choices of registers; two sections of up to two words | decoder and emitters agree; failures reach main |
| `emitters` | MCEmitters | words of 8 bits, 246 instructions, 16 contexts, two steps | the IR computes what the architecture says |
| `emitters_ca` | MCEmitters | contexts with CA clear | finding: CA is not cleared |
| `loader` | MCLoader | images up to 10 cells, three shapes of blocks and more, five import headers, a name under two ordinals, every failing header; `Wrap` is 32 cells, with blocks and sections whose ends are past it | image, sections, imports and metadata |
| `guest` | MCGuest | two functions of 11 instructions, calls three deep, one break point | the debugger halts when it should and not else |

Why the bounds are enough. Six pages hold up to six blocks or ranges, so a
range can be freed with neighbours on both sides, on one and on none, preferred
requests hit the start, the middle and the end of blocks, and the region fills
up. In `ntmem` the image lies in the middle, at the end (where its sections run
out of the region) or is missing, imported words are apart, in order or in the
wrong order, a base swaps to an offset off a page boundary, and size 62 wraps to
zero. Three instructions are enough for a branch over, into and out of each
block, for a function behind a call and for a function inside another; four add
blocks split twice. In `flow` four instructions hold a jump, what follows it and
the function behind; both sections call and jump into each other; `Window` and
`TailDistance` are crossed by programs on both sides, and a function can reach into
the addresses between two sections, where nothing is decoded. `decode` goes through all
2048 values of the last 11 bits, where every extended opcode lies, and the primary
opcodes; `EveryBitCounts` then flips each of the 32 bits of a word. The registers of
`decode` are chosen so that their bits differ.

All widths of **Words** scale with `H`, 16 in the source and 4 here (a word has
8 bits, a double word 16), because TLC's own integers have 32 bits and a product
of two 32-bit words does not fit. A byte has then 2 bits, and a mask, a
displacement, a shift amount and an immediate are scaled with them; the extremes
(all ones, the sign bit, a shift by none and by all but one, a mask around the
end) are all there. `MaxSteps` is 2: the first instruction leaves stale halves, a
carry or a byte in memory, the second uses it. In `loader` three blocks, one of them
without data and one without zeros, are enough for the chain to pass over both;
`MaxImage` is the 128 MB limit of the code. `Wrap`
is 2^28 cells of 16 bytes there and 32 here, more than any image and file of the run
together: what wraps are the sums of fields, as in the code. In `guest` `MaxDepth` 3 lets
function 10 recurse into itself once from either call.

Only `MaxSteps` and `MaxDepth` bound something that the code does not.

`CHECK_DEADLOCK FALSE` is given where the process really stops: NtMemory after
`pc = "dead"`, EmitPass and Flow when they are done or the recompiler has died,
Decoder when main goes on, Loader when the runtime has its metadata, Guest when the
guest has returned from its first function, Emitters at `MaxSteps`.

Fairness. Only EmitPass states it, `WF_vars(Next)`: one thread runs the pass,
nothing blocks, so an iteration that can run does. The emit loop at an address
that is no leader is a spin in the code and no enabled action in the model;
`PassEnds` is violated by either.

## What the properties say

* `NoOverlap`, `HeldIsCommitted`: two clients never share an address, and
  what one holds can be touched until it frees it, whatever others free.
* `Conservation`, `Coalesced`: each address is free, booked or lost, in one
  of the three, and free blocks are as long as they can be.
* `ImplementsAddressSpace`: a request gets the preferred stretch whenever that
  is free, and is refused only when no free stretch is long enough.
* `ImportsResolved`, `ImageIntact`: the guest starts with its imported
  variables pointing at structures of their own (but for a module handle whose word
  stands behind the hardware info's, which a 64-bit store zeroes), and with each
  section inside the image's allocation. The latter holds although the size asked for leaves
  out the last section, because the rounding to a page covers it or the copy
  faults.
* `ToldWhatItHolds`, `FailureIsHonest`: what the guest is told matches
  what the heap did, and it is told that memory is out only when no stretch fits.
* `NeverStuck`, `StepsCount`: the emit loop finds the leader it needs to move on, and no
  step of the pass goes round: it finishes a function or leaves less of the one at work.
  With `PassEnds`, these are the two ways in which the loops of the code could spin.
* `EmittedOnce`, `FlowPreserved`, `PassEnds`: blocks tile the function, each
  reachable instruction goes on where it goes on the PowerPC, and the pass ends
  for every acceptable program: all of it decoded, its mnemonics known, and each `bcctr` in a
  table of its function with targets. What a `bcctr` means is taken from the
  recompiler's own table, so a case that the table lacks is not seen here but by
  `TablesLeadToCases`. `FlowPreserved` speaks of functions that stay
  inside the bounds the flow passes gave them (`Closed`) and have no
  conditional return (`ReturnsAlways`). A conditional branch out of the
  function makes an empty block; such functions are excluded by `Closed`.
* `KnownStartsKept`: what is called, imported, listed in `.pdata` or the entry is
  in the map when `pass_Emit` starts. The one exception is `PromotedBefore`: the
  flag of a promotion is never cleared, so a target that the round of an earlier
  section may have promoted can be demoted although a later one calls it.
* `PromotedOutside`: no promotion is left inside another function, in whatever
  order the map was walked. `EndsBeforeNext`: an end does not run into the
  next function behind a jump or return. `BreaksOnlyOutside`: the recompiler stops for a
  function without an end only when that starts behind the section.
* `HandsOver`: what the flow passes leave is what `pass_Emit` takes for granted. An end taken
  from `.pdata` or found behind the section would give a function addresses without an
  instruction; that the search for tables looks up each address is all that stops it.
  The calls are known but for the one exception of `KnownStartsKept`.
* `TablesLeadToCases`: a table leads to its default, to no address that is not a case, and
  to every case but the first, given a bounds check in the window and a default behind
  it. The comment "index 0 is always the default case" (JumpTables.h:36) goes with loops
  that start at 1, so case 0 of the program is not among the targets, and the switch
  sends it to the default.
* `EveryBitCounts`, `EnoughOperands`, `TargetFirst`: the hand-written tables of the
  decoder lose no bit, and give each emitter the operands it reads, the target
  first. `AllOrNothing`: the flow passes start only on a full decode.
* `AsPowerPC`: each step of the IR is one of the 64-bit architecture, for the
  instructions and registers `Within64` names, which are those the emitters get right (the
  others are listed below); `WordsAsPowerPC`: the lower halves take a
  step of the 32-bit machine, whatever is in the upper ones. `MasksAreRanges`:
  `XEMASK`, `DMASK` and `QMASK` are the masks their comments describe.
* `ImageAsDescribed`: the image is the blocks' data, decrypted, and zeros, where the sizes of
  the blocks add up to a number of 32 bits (`AddsUp`); behind it stand the raw sections as
  the file has them, ciphertext if it is encrypted. `SectionsInside`: every
  section whose end is a number of 32 bits lies in the image; one whose end wraps
  is kept and may not. `ImportsAsRecorded`: an
  import is looked up in its own library, where no library has an empty
  name. `MetadataSurvives`: the runtime reads what the
  recompiler had, the cells of a section where it lies in the image. `VariablesOfNoFunction`: it gets exactly the variables that are not called,
  where names tell the imports of the file apart (`NamesTellApart`). The condition is needed:
  `exportMetadata` looks for the function of a variable by its name, and in
  `ImportTable.h` five names stand under several ordinals of a library: `Refresh`,
  `XDebugWarning` and `EnumerateMediaObjects` of Xam, `RtlFreeAnsiString` and
  `KiApcNormalRoutineNop` of XboxKrnl.
* `HaltsForAReason`, `StepsAreKept`: the debug call back halts the guest only at a
  break point, behind a branch once stepped over, or where asked to, and a step never
  runs past its end. An indirect call that misses leaves the debugger's state alone, so
  neither property tells it from one that was made.

## Findings

1. `NtAllocateVirtualMemory` with `XMEM_COMMIT` is answered with success
   under the comment "allocation was OK" and allocates nothing (`ntmem_commit`).
2. Every `bclr` is emitted as an unconditional return, conditional ones too, while
   main's comment calls the emitted code equivalent (`emit_return`).
3. `StoreCA` ORs, so XER[CA] stays set once it is; `srawi_e` says that it clears it
   (`emitters_ca`).

## Where the emitters differ from the architecture

`Within` in Emitters says where the two agree. What it leaves out, by reading
and by runs:

* `nor` emits a negation instead of a complement; `subfe` adds CA to a
  difference without subtracting one; `adde`, `subfe` set no CA; the dot form of `subfe`
  compares before the carry is added.
* `addic`, `addze`, `subfic`, `srawi` never clear CA.
* `mulli` takes its immediate unsigned. `cmplwi`, `cmpldi` assign their test and
  compare signed; `cmpld` compares signed.
* `rlwinm` with a mask around the end uses bits 3 to 31; rotates of words are
  done on 64 bits, so a register with something in its upper half rotates it in.
* `slw` tests the whole register instead of its low six bits. `rldicl` by 0
  shifts right by 64, which is poison.
* `lwa` does not scale its displacement; `ld` and `std` add register 0 where they
  mean zero. `mullw`, `cntlzw`, `mfcr`, `rlwimi` leave the upper half of their target as it
  was, `mfcr` in reversed bit order.
* `divw` and `divwu` trap for quotients the architecture leaves undefined;
  branch hints and the remaining forms of BO, and special registers other than
  XER, LR and CTR, stop the recompiler. `stfd_e` is under no mnemonic.

The code documents none of these otherwise, so they are not findings. In the
other parts: a tail call or branch of more than 8 MB gets the wrong sign
(`signExtend` of 24 bits, in Flow's `Target`); `ldx` is decoded without its last
operand and `fmul` with another one than the architecture's; main reads
argv[1] as a list of paths whenever it can be opened, which an executable can;
when `MD.tss` cannot be written the runtime reads the one of an earlier run.

## What is proved

In **XAllocProofs**, for every region size, page
size, set of preferred offsets and set of sizes:

* `TypeCorrect`, `Disjointness`, `Conserved`, `AlwaysCoalesced`,
  `AlwaysCommitted`: the five invariants of run `xalloc`;
* `Implementation`: `Spec => ImplementsAddressSpace`;
* `VectorSorted` (`SortedAndApart`), `VectorImplements`: the two properties of run
  `xalloc_vec`, of XAllocVec's specification.

Assumptions: `SpaceAssumption` (the region is a whole number of pages),
`CallerAssumption` (offsets and sizes are natural numbers) and
`FreeAssumption` (where `free` is called, preferred offsets are page
boundaries). The last is needed: with an offset off a boundary the pointer
`free` gets is in front of what was booked, so it would return addresses
that somebody else may hold. At this commit only `NtAllocateVirtualMemory`
passes such offsets, and nothing frees its ranges.

The argument. None of the five invariants is inductive alone. `IInv` joins
them: free blocks are non-empty, inside the region and apart; allocations are
inside the region, a whole number of pages long, and where `free` is called on
page boundaries; `Conservation` ties the two together; what is committed covers
what is held. The lemmas `MergeApart`, `MergeOne` and `Split` say what merging
and splitting do to the set of addresses; `RoundDown...`, `Multiple...` and
`AlignSizeIs` are the arithmetic of pages. Disjointness of what clients hold,
as opposed to what was booked, follows because ranges are whole pages: rounding
two disjoint bookings of whole pages down cannot make them meet
(`RoundDownApart`). The refinement takes each action to one of the abstract
space; `AllocateNull` needs `Coalesced`, since a stretch made of several free
blocks would be one the abstract space could still give.

For the vector, `VectorInv` says that it is a sequence of non-empty blocks, each behind
the one before and not touching it (`Rising`), and, where `free` is called, that
what clients hold lies on page boundaries and outside the blocks (`KeptOut`). The last is
what makes a block given back meet no other, and it is why the merge is proved of
any vector of blocks that do not meet (`Separate`): two remainders of a split touch when no bytes
were taken, and a block given back may touch both neighbours. `ByOffset` is any
permutation in order; `OrderExists` shows that there is one, by induction, and `SortIs`
that it puts the blocks in a row. `GlueStep` is the invariant of the single pass: what
has been glued begins where blocks begin and none ends, and ends where blocks end
and none begins. With `MergeApart` that makes it, as a set, what `MergeFreeBlocks` of XAlloc
gives (`VectorMerge`). `LoopsChoose` and `FirstIsFirst` say that the first position at
which a loop of `allocate` may stop is the block of lowest offset.

In **GuestProofs**, for every program, set of break points, set of functions and
depth of calls: `StatesGoWithAsked`, `HaltsTheorem` and `StepsTheorem`. The code does
not record what the user asked for, so neither property is inductive. `IInv` ties
the history to the two states the code keeps: a step asked for is a stepping
`currentState`; a step over a branch is `RUNNING` after `STEP_OVER` with its point in
the list; a stepping state was asked for, at that halt or at one where it was lost. Its only
assumption is `CodeAssumption`.

In **DecoderProofs**, for every image (`ProgramsAssumption`: sections are sequences
of words of 32 bits): `DecodeTheorem`, `BitsTheorem`, `OperandsTheorem` and
`TargetTheorem`. The code records a failure only in `ret`; the
invariant says that the words of the sections passed are in instrsList as long as `ret`
is true, that one of them is missing once it is false, and, so that the
missing one stays missing, that nothing ahead of the cursor is in the map; and that each
entry was decoded from the word at its place (`Entered`). The other three are about the
tables, and there run `decode` tries some words of each case where the proof takes all 2^32.
The argument: what the switches give of the names that the emitter knows has one of five
forms (`FormIs`), each of which names the fields its operands and its case came from;
a name has one form (`OneForm`); and a field, read bit by bit (`FieldIs`), tells its bits
(`FieldTells`), also when it has a sign, is added to another or becomes a suffix. So two
words of one instruction differ in reserved bits at most (`SameWord`).

In **NtMemoryProofs**, for every set of images and every call of the guest:

* `NtInvariance` (the inductive invariant), `ImageStays`, `ImportsAreResolved`,
  `ToldTrue` and `FailuresHonest`: what run `ntmem` checks of its own;
* `UsesXAlloc`: `SpecNt => Spec`, each step of start-up and of the guest is a step of
  the allocator or leaves it alone. So what XAllocProofs shows holds of the guest's
  memory: `UsesAddressSpace`, `NtNoOverlap`, `NtConservation`.

Assumptions: `ParameterAssumption` (a caller may pass any word. Preferred offsets may
then be off page boundaries, where `FreeAssumption` lets nobody call `free`, and nobody
does), `ImageAssumption` (an image begins at a page boundary, at least three pages up;
the words of its imports are apart, behind its base; a page has at least four words),
`WordAssumption` (a word is two digits) and `PageAssumption` (large pages are whole
pages). `NtInv` is the allocator's invariant, `BootInv` and `ToldWhatItHolds`.
`BootInv` says what is untouched at each step of `Course`, that the image's
allocation holds its sections, where the structures are and what the words hold.
The argument: the image is never on the first pages, so first fit puts each
structure of start-up on the lowest page still free (`Low`, `Place`), memory
is never out before the guest runs, and every imported word is written once, by its
own step, except where `Overwritten` says otherwise.

In **FlowProofs**, for every program: `StartsKept`, `PromotionsOutside`,
`BreaksOutside`, `EndsStop`, `CasesOfTables` and `FlowHandsOver`, from `Invariant`. `IInv` has a part for
each phase of the pass: `Typed`, `Known` and `CalledKept` (a start that is called, imported
or listed is in the map from its pass on, and is a promotion only if `PromotedBefore`
allows it), `Promoted`, `Ended` (which functions have ends, as the cursor goes over them)
and `Demoted` (the functions still to be visited are the only promotions that
may lie inside another). Assumptions: `FlowAssumption` (addresses are in range, and a `bl`
is in a section) and
`TablesAssumption` (the pattern of a jump table does not begin with the `bc` or `cmplwi`
looked for in front of it and ends with its only `bcctr`, as the patterns of
`JumpTables.h` do; a `bc` does not reach `BcWrap`, and a table has as many cases
as its compare allows).

`FlowHandsOver` is what joins this proof to the next. `Checked` says that behind the search
for tables each function that has a body is decoded to its end. `SearchInTurn` says what the loop
of `findTargetsSize` has found after each instruction, so that the targets of a table are
integers (`TargetsAre`). Two patterns that start apart cannot cover one `bcctr` (`TablesApart`,
`OneTable`), since each has it only at its end. So what `EmitPassProofs` shows of every
program that is `WellMade` with `CallsKnown`, it shows of what the flow passes leave, unless a
later section calls what an earlier one may have promoted.

In **EmitPassProofs**, for every program: `EmittedExactlyOnce`, `FlowIsPreserved`,
`PassIsNeverStuck` and `PassStepsCount`, from `EmitInvariant`. `IInv` says, phase by phase,
which leaders have been found (`FindingLeaders`), which blocks have an end, the instruction
in front of the next block (`FindingEnds`), and which have their instructions, in order and
one for each address (`Emitting`, `InBlock`). Its parts name the program, the function and
the map they speak of, so that what holds of a function still holds when the pass goes on to
the next. For `FlowPreserved`, a reachable instruction lies in a block, has no instruction
in front of it that breaks the block off, and the first terminator from there on, or the end
of the block, goes where the PowerPC goes, nops aside. That the loops end has two parts.
`PassIsNeverStuck`: the emit loop stands at a leader whenever it looks for one, because each
block ends right before the next (`FindingEnds`), and no acceptable program is thrown away.
`PassStepsCount`: each step goes down in a lexicographic order, of functions not yet done,
then loops, then instructions left. `DescentEnds` shows that nothing goes down in it for
ever (with finitely many functions, by the library's theorems on strict inclusion and on
lexicographic orders), and `PassDescends` that each step does. So the pass takes finitely
many steps; that it takes the next one is the fairness of `PassEnds`. Assumptions:
`CallAssumption` and `ProgramAssumption`, which are predicates of Handover, so that
`FlowHandsOver` shows them of what the flow passes hand over.

In **LoaderProofs**, for every set of executables: `ImageIsDescribed`,
`SectionsLieInside`, `ImportsAreRecorded`, `MetadataIsRead` and `VariablesAreOfNoFunction`,
from `LoaderInvariance`. They hold for sums that wrap, too, with the exceptions that the
properties name. The copy loop is described by where block n begins in the image and in
the file; the chained decryption expects the cell behind what is consumed,
so a block is read right exactly when the key is, and each block stands where those before
it end as long as no sum of sizes wraps (`PlacedIs`, `CopiedTo`, `CopiedBlocks`).
What stands behind the blocks does not depend on that (`Extended`, `CopiedIs`). The import names
kept are those of the headers passed, joined (`Named`, `Imported`). For the metadata,
`VariablesStand` and `SectionsStand` say at which position each field was
written, and the recursive functions of `importMetadata` are shown to read
there. For the variables, `Recorded` says that each import comes from a record, with the name its
word has in the table, `Taken` that no record but a skipped one has been left out, and
`KeptAre` what the filtering loop keeps; a variable that is kept has no function of its name, and under
`NamesTellApart` that is none of its library and ordinal. Assumptions: `WrapAssumption`, `FileAssumption` and `TableAssumption` (the types
of a file and of the table, fields being numbers of 32 bits; the image begins in the file,
whose size is one, too) and `HeaderAssumption` (the first cell of a PE image is neither
zero nor what a wrong key makes, so that a PE header that can be read means a right key).

**FoldLemmas** is what these share. The library's induction theorems take a predicate as
a parameter, which no installed prover can instantiate; `Induction` states induction over
the naturals of a set instead, and follows from the well-foundedness of strict
inclusion on the subsets of a finite set. From it come least and greatest
elements and, with `FoldExists` and `FoldInTurn`, what a fold of the community modules computes,
element after element.

Only model-checked:

* Emitters: `AsPowerPC`, `WordsAsPowerPC`, `MasksAreRanges`. Its words are built with recursive and
  bitwise operators, which the prover does not take, and its masks with powers of two whose
  exponents vary, of which the provers know no law, not even 2^(n+1) = 2 * 2^n.
* Liveness under fairness: `PassEnds`, whose safety half is proved.

## Not modelled

* AES and the table of import names are third-party code and data. Loader takes a
  cell to be decrypted right or wrong, and the table as a constant.
* Graphics, the ImGui debugger and printing are I/O. Threads and kernel objects are
  declarations; the kernel and XAM stubs log their names.
* The unit-test harness is off at this commit. `serializeDBMapData`
  writes the instructions for a debugger that reads them elsewhere. `saveSection` writes one section as it is.
* `twi` and `tdi` emit a debug break; floating point and vector operations have
  no emitter.
* The layout of a PE header: `LoadPEImage` checks it field by field, and the model takes
  the answer (`pe.valid`). Optional headers that are only stored.

## Plan

1. Of the programs Flow may hand over, run `emit` checks shapes of its own. The theorems of
   both meet in Handover; a run that goes on from one module to the other would need one
   kind of instruction for both.
2. Words without recursion, as functions of bits, so that the masks could be proved
   about.
