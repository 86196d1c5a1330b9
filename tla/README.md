# NESSE in TLA+

Specifications, model checks, and proofs for NESSE, a NES emulator in Rust
(`src/nesse_lib`, with the executable in `src/nesse`). Everything here is
translated from the Rust source; `PROJECT.json` maps each definition to the
lines it stands for.

## The system

NESSE is a single-threaded interpreter. A `NES` value owns an `IOBus`, which
owns the CPU, the memory, the PPU, and the APU. Nothing runs concurrently within
the program and nothing is persisted; the one thing it shares with others is the
cartridge file it reads. What makes the code hard to test is its long sequences of
calls: an instruction handler runs in whatever state tens of earlier
instructions left, the program it interprets is data that it may overwrite, and
nearly every operation can fail in two ways, by returning `Err` or by a panic
that depends on the build.

| Component | State | Operations | Interaction |
|---|---|---|---|
| `nes.rs` console | `cycles_left`, `cycles_per_frame`, bus | `reset`, `get_instruction_at`, `execute`, `run`, `next_frame`, `insert_rom` | fetches from memory, calls a handler, then advances `pc`; `run` calls `reset` and then `execute` until one fails |
| `cpu.rs` CPU | `a x y p pc sp`, a set of flags | `reset`, one setter per flag, getters, `get_opcode_size` | changed by handlers and by `execute` |
| `opcodes.rs` | the table `OPCODES` | 42 handlers, 40 of them in the table | each takes `&mut NES` and reads or writes CPU and memory |
| `mnemonics.rs` | the table `MNEMONICS` | lookup | gives the length of an instruction, independently of `OPCODES` |
| `memory.rs` | four byte arrays | `write<T>`, `write_slice`, `read<T>` | called by every other part |
| `ppu.rs` | one byte array | `write<T>`, `write_slice` | filled by the loader; no instruction reaches it |
| `loader.rs`, `file.rs` | none of their own | `load_rom`, `NESFile::new`, `is_valid` | read a file, then write PRG data to memory at 0xC000 and CHR data to the PPU |
| `apu.rs`, `iobus.rs`, `debugger.rs` | none | constructors | |
| `main.rs` | none | load one cartridge, `run` | |
| `old_cpp/` | the emulator this one was ported from | | not built |

What makes each component correct:

* **CPU and handlers.** Registers keep their width; a call that fails leaves no
  half-executed instruction; memory changes only where an instruction aims; a
  return finds what its call pushed and leads to a definite place; the two
  copies of the status register (`p` and `flags`) are told apart.
* **Memory.** A byte written is the byte read, through the mirror as well, and
  no other address is affected; a failed write has stored a prefix at most; the
  outcome of each access is determined by the address.
* **Tables.** Every opcode has the handler and the length the tables give it.
* **Tables and handlers.** A handler runs only on operands that were fetched.
* **Console.** `run` ends exactly when an instruction fails; `next_frame` should end
  when the frame's cycles are used up. A program that waits gets on in the end.
* **Loader.** Every load ends; a console is left as it was, holds the whole
  cartridge, or holds its PRG data alone and has told an error.

The hazards are listed, each at its line, in `PROJECT.json`.

## Modules

| Module | Models | Uses |
|---|---|---|
| `Words` | `u8` and `u16` arithmetic, casts, the bit operations the handlers use | |
| `Memory` | `struct Memory`: address decoding, outcome and effect of one access | `Words` |
| `OpcodeTable` | `OPCODES`, `MNEMONICS`, `get_opcode_size` for all 256 opcodes | |
| `Cpu` | `reset` and `execute`, one action per handler | `Memory`, `OpcodeTable` |
| `CallStack` | calls and interrupts across the instructions of `Cpu` | `Cpu` |
| `ByteStore` | what a memory promises: the abstract specification | |
| `MemoryApi` | `write`, `write_slice`, and `read` as calls in any order | `Memory`, `ByteStore` |
| `CartridgeFile` | cartridge files and what the sizes in their headers decide | |
| `CartridgeSlot` | loading as one step: the abstract specification | `CartridgeFile` |
| `RomLoader` | `insert_rom` read by read, with files that change meanwhile | `CartridgeSlot` |
| `Console` | the calls of a using program: loading, `reset`, `execute`, and the loops of `run` and `next_frame` | `Cpu`, `CartridgeFile` |
| `MCCpu`, `MCCallStack`, `MCMemoryApi`, `MCRomLoader`, `MCConsole` | programs, addresses, values, and files for TLC | |
| `MemoryProofs` | theorems on addresses and cells | `Memory` |
| `MemoryApiProofs` | theorems on the memory's calls, the refinement of `ByteStore` | `MemoryApi`, `MemoryProofs` |
| `CpuProofs`, `FlagProofs`, `InstructionProofs` | theorems on single instructions: types, errors, flags, operands, stores | `Cpu`, `MemoryProofs` |
| `CallProofs` | theorems on calls and interrupts | `CallStack`, `InstructionProofs` |
| `LoaderProofs` | theorems on loading, the refinement of `CartridgeSlot` | `RomLoader` |
| `ConsoleProofs` | theorems on the console | `Console`, `CpuProofs` |

### Correspondence with the code

**Memory.** The four arrays are one partial function from *cells* to bytes. A
cell is named by the lowest address that selects it, and a cell outside the
function's domain holds the 0 that `Memory::new` puts there, so that states stay
small. `Cell`, `Hole`, and `BeyondRam` are the `if`/`else if` chain that `write`,
`write_slice`, and `read` share. `ReadOutcome` and `WriteOutcome` say whether an
access returns `Ok`, returns `Err`, or panics: a slice beyond its array, a
misaligned `u16`, `dst += 1` past 0xFFFF.

**Builds.** Two constants stand for what the source leaves to the build.
`OverflowChecks` is true where `+` panics on overflow (debug) and false where it
wraps (release). `BaseParity` is the parity of the address the arrays start at,
on which the alignment test of `bytemuck::from_bytes` depends; the sizes of the
four arrays are even, so they share it.

**Cpu.** An action is one whole call of `execute`: fetching the opcode and its
operands, the handler with every read and write it makes, and `pc += len`
behind it. `FetchOutcome` is the fetch; `Finish` is the end of a handler that
returned `Ok`; `Reading` and `Storing` are handlers that access memory once and
change the CPU only if that succeeded; the handlers that do more are spelled
out in the order of their statements. `FetchFails` is an `execute` that ends
before its handler. `Reset` may happen between any two instructions. `outcome`
is how the last call ended; a panic ends the program (`Panicked`), while after
an `Err` the caller may call again, as any user of the library can.

The flags are a set, as in the code, where they are a bit set of their own, not
part of `p`. Operators named as faulty variants in a comment are used only to
show that a property can fail; no action refers to them.

**CallStack.** `frames` and `disciplined` are history variables: they observe
`Cpu` and never restrict it. A frame records the address of a JSR or BRK and the
`sp` and `p` before it. `KeepsDiscipline` says what a well-behaved program does
with the stack: no store into the part in use, no TXS, no push that wraps, no
pull of what a call pushed, and RTS or RTI only on a frame of its kind.

**MemoryApi.** `reply` is the value a call returned and `last` is the call. The
loops over bytes are modelled by how far they get (`Before`) and by the bytes
stored up to there (`StoredFirst`). A value given to `write` has a size;
`to_be_bytes` and `from_bytes` are the two conversions, the second in the byte
order of a little-endian machine.

**RomLoader.** `stage` is the statement of `NESFile::new` the load is at. Each
`read_exact` is one action (`read_header`, `read_prg`, `read_chr`), because the
file may be rewritten in place between two of them (`Rewrite`); what follows the
last read touches the console only and is one action, `copy`: `is_valid`, and
the two `write_slice` with their bounds checks. A section is represented by the
content it was read from and its length. A `read_exact` of no bytes succeeds
everywhere, also behind the end of a file that was cut off (`Holds`), and an empty
slice copies nothing. `Refuse` is every `?` before the first copy.

**Console.** `Cpu`'s `Reset` and `Execute` are used as they are. `call` is the
loop the thread is in; while it is in one, nothing else is called. `run` is the
call up to its loop and `run_loop` one turn of it, `next_frame` and `frame_loop`
likewise. `insert_rom` is the atomic load of `CartridgeSlot`, on the memory of
`Cpu`, which `RomLoader` is shown to implement when nobody rewrites files.
`CyclesReturned` is the `Ok(0)` of `execute`.

## Runs

| Run | Result | Question |
|---|---|---|
| `cpu_programs` | holds | What can instructions do to registers, flags, and memory, and what do failed calls leave? (debug build) |
| `cpu_edge` | holds | The same where `pc` and operands cross 0xFFFF in a release build |
| `call_stack` | holds | What do RTS and RTI find, and where do they lead? |
| `memory_store` | holds | Do `write`, `write_slice`, and `read` implement `ByteStore`? |
| `loader_race` | holds | What reaches the console while a file is rewritten, and does every load end? |
| `loader_alone` | holds | Does an undisturbed load implement `CartridgeSlot`? |
| `console_waits` | holds | How do `run` and `next_frame` end, and which waiting programs get on? |
| `memory_mirror` | violated | RAM mirrored up to 0x1FFF, as `memory.rs:6` says |
| `rts_increment` | violated | RTS is "Pull PC from stack, then PC++", as `opcodes.rs:416` says |
| `flag_clearing` | violated | CLC is "Clear Carry", and BIT copies bits 7 and 6 "into N and V flags", as `opcodes.rs:354` and `375` say |
| `indexed_handlers` | violated | 0x1D is ORA Absolute,X and 0x1E ASL Absolute,X, as `opcodes.rs:245` and `301` say |
| `indirect_x` | violated | ORA (indirect,X) "ORs that value with A", as `opcodes.rs:176` says |

**Properties of `cpu_programs`**, of which `cpu_edge` checks `TypeOK` and the two
about errors. `TypeOK` (widths and cells);
`FailedCallChangesNothing` (an `Err` leaves registers and memory alone);
`RetryFailsAgain` (after an `Err` only a reset helps); `FlagsStayUntilBrk`
(a flag other than Negative, once set, outlives every instruction, CLC and BIT
included, until a BRK, which leaves no flag at all, or a reset);
`UnusedFlagsStayClear` (BRK does not set Break); `StatusCopiesNeverMeet` (no
call changes `p` and `flags` together); `StoresLandWhereAimed` (a changed cell is
one of those below `sp` that the instruction pushes, or the target of its store); `OraIndirectXNeverCompletes`
(opcode 0x01 always panics); `HandlersGetTheirOperands` (the length one table
gives an instruction is what the handler in the other table needs, except for
the NOPs, whose operand bytes are executed).

**Properties of `call_stack`.** `FramesIntact`: as long as the program runs and
keeps the discipline, the frames lie one below the other above `sp` and hold
what was pushed. (A panic may leave it false: an RTS back to a JSR at address 0
has popped its frame when `execute` panics on `pc += len`, in a debug build.) `ReturnRepeatsTheCall`: RTS leads back to the JSR itself, since JSR
pushes `pc - 2`, RTS adds 1, and `execute` adds the length 1. A subroutine
therefore never returns to the instruction behind the call.
`InterruptResumesBehindBrk`: RTI leads behind the BRK with `sp` and `p` restored
and with the handler's flags.

**Properties of `memory_store`.** `ImplementsByteStore` is the refinement:
`ByteStore` with `store <- mem`. It states locations by arithmetic
(`addr % 0x800` below 0x2000) and says that a failed call has stored some first
bytes of its data and nothing else. `WriteErrorStoresNothing` is stronger for
`write`, whose one error is found before the first byte; it is false of
`write_slice`. `WordsComeBackSwapped`: a `u16` written and read back at the same
address has its bytes exchanged, since one is big-endian and the other is not.

**Properties of `loader_race`.** `LoaderTypeOK`. `SlotsHoldWholeUnits`: whatever
happens to the file between the reads, memory and PPU only ever get whole units,
each of them read in full behind the header of one content. It does not follow that
the unit is the one that content's own header describes: with the header of one
content and the data of another, the console may get the first half of a PRG of
two units, or PRG bytes as CHR data.
`ErrorLeavesAllButPrg`: an error leaves the CHR data, and the PRG data unless it
was the CHR data that was too big. `LoadsEnd`: every load ends, also of a file
that keeps changing.

**Properties of `loader_alone`.** `ImplementsSlot` is the refinement of
`CartridgeSlot`: reads are invisible, and one step stores what the sizes decide
in whole units (0 or 1 of each, PRG first). `CartridgesMixOnlyInPart`: PRG and CHR
data of two cartridges meet only where one of them lacks a part or its CHR data
was refused.

**Properties of `console_waits`.** `ConsoleTypeOK`. `LoopsEndOnlyInFailure`: `run`
and `next_frame` give control back with an error only; `next_frame` sets
`cycles_left` and never counts it down, so no frame is ever complete.
`WaitsEnd`: a countdown of X ends, also the second one, where Zero is still set
from the first, and so does a poll of the status register by LDA and BPL as long
as the register is 0. It holds because `update_register!` sets Negative for a zero;
with the sign bit instead it fails. `BitPollNeverEnds`: the same poll with BIT,
which takes the sign bit, loops for ever, as nothing changes the register.
`EmptyConsoleEnds`: without PRG data BRK pushes over the code itself until
another opcode stands there and panics.

**What the violations show.** The mirror is folded once, so 0x1000 to 0x1FFF
index past the array. `execute` adds an instruction's length to the `pc` the
handler left, also when the handler assigned `pc`; this moves RTS by one from
its documentation, and in the same way JSR, BRK, and RTI. `set_carry`, like
`set_zero`, `set_overflow`, and `set_decimal`, has no branch for `false`, so CLC
leaves Carry set, which is what `flag_clearing` runs into, and BIT leaves Overflow
set when bit 6 is clear, which it runs into with the conjunct on CLC taken out. The
handlers `ora_absolute_x` and `asl_absolute_x` stand in no entry of the table, and
opcode 0x01 reads its pointer as two `u16` values of which one is misaligned.

### Bounds

* `BaseParity` is 0 in every run: with 1 each reset panics on its vector, and little
  else can be reached. The proofs cover both.
* `MaxResets`: 2 in `cpu_programs` and `cpu_edge` (a reset from any state, and one
  after it), 1 in `call_stack`. `Cpu` has no other counter.
* Programs of `cpu_programs`: LDA or LDX immediate, then any two of 46
  instructions, which between them are every handler and every kind of operand:
  RAM, mirror, both holes, cartridge, the program itself, the last byte, the
  mirror beyond the array. JSR, BRK, and taken branches make loops out of them,
  so behaviours are longer than the programs. Two arbitrary instructions
  are enough for one to set up what the next misuses: set a flag and test it,
  push and pull, store into code and run it.
* Programs of `cpu_edge`: a jump to 0xFFFE with seven choices of the last two
  bytes, executed as instructions whose operands or successors lie behind 0xFFFF.
  They are also part of `cpu_programs`, with overflow checks.
* Programs of `call_stack`: two of 7 steps in the main program, 6 routines and 5
  handlers, with calls in handlers and interrupts in routines, and four endless
  recursions that fill the zero page. States without discipline are checked but
  not explored (`WhileDisciplined`), since nothing is claimed of them.
* `memory_store`: addresses on both sides of the ends of RAM, its mirror, the PPU
  registers, and the address space, and the last even address of RAM, where a word
  can be written and read back; values of one and two bytes, slices of none and two.
* `loader_race`: one file and eleven contents it may be given, `MaxRewrites` 3: one
  rewriting before each of the three reads. Contents: complete with zero, one, and two
  units, with bytes behind the data, a bad magic number, and cut off by one byte in
  the header, the PRG, and the CHR data. `loader_alone` has a file of each kind.
* `console_waits`: seven cartridges and a missing file, `MaxCalls` 4: two loads and
  two runs, so that the second program meets what the first left. `MaxResets` is as
  large and never binds.

No bound cuts a counter of the program itself: registers, addresses, and the
stack have their real width.

### Fairness

Safety properties need none. Two specifications state weak fairness:

* `RomLoader`: `WF(Step)`. A load in progress takes its next step, since no step
  waits for anything; at the end of a file `read_exact` returns an error. Calls of
  `insert_rom` and rewritings are not fair: they may never happen, or happen
  between any two steps.
* `Console`: `WF(run_loop)` and `WF(frame_loop)`. There is one thread, and while it is
  in a loop it does nothing else, so it takes the next turn. Whether the using
  program makes another call is up to it.

## Proofs

TLAPS checks the following for all values of the constants: every build, every
set of cartridge images or files, any number of resets, calls, and rewritings.

| Theorem | States |
|---|---|
| `TypesHold` | `Spec => []TypeOK` |
| `FailureIsAtomic` | `Spec => FailedCallChangesNothing` |
| `IndirectXAlwaysPanics` | `Spec => OraIndirectXNeverCompletes` |
| `FlagsAreSticky` | `Spec => FlagsStayUntilBrk` |
| `UnusedFlags` | `Spec => []UnusedFlagsStayClear` |
| `StatusCopies` | `Spec => StatusCopiesNeverMeet` |
| `OperandsAreFetched` | `Spec => []HandlersGetTheirOperands` |
| `StoresAreAimed` | `Spec => StoresLandWhereAimed` |
| `RetriesFail` | `Spec => RetryFailsAgain` |
| `CallTypes` | `CallSpec => []CallTypeOK` |
| `FramesStayIntact` | `CallSpec => []FramesIntact` |
| `ReturnsRepeat` | `CallSpec => ReturnRepeatsTheCall` |
| `InterruptsResume` | `CallSpec => InterruptResumesBehindBrk` |
| `WriteReadsBack` | a stored byte is read through every address of its cell, other cells are unaffected |
| `MirrorIsTheOnlyAlias` | two mapped addresses share a cell only 0x800 apart, across RAM and mirror |
| `NeighbouringWordsMisaligned` | of two zero page words one address apart, one cannot be read |
| `ApiTypes` | `Spec => []ApiTypeOK` |
| `WriteErrors` | `Spec => WriteErrorStoresNothing` |
| `WordsSwap` | `Spec => WordsComeBackSwapped` |
| `MemoryImplementsByteStore` | `Spec => ImplementsByteStore` |
| `SliceReadsBack` | a slice written from 0x4020 on is stored whole and read back byte by byte |
| `LoaderTypes` | `Spec => []LoaderTypeOK` |
| `WholeUnits` | `Spec => []SlotsHoldWholeUnits` |
| `ErrorsLeaveAllButPrg` | `Spec => ErrorLeavesAllButPrg` |
| `LoaderImplementsSlot` | `MaxRewrites = 0 => (Spec => ImplementsSlot)` |
| `CartridgesMix` | `MaxRewrites = 0 => (Spec => []CartridgesMixOnlyInPart)` |
| `ConsoleTypes` | `ConsoleSpec => []ConsoleTypeOK` |
| `LoopsOnlyFail` | `ConsoleSpec => LoopsEndOnlyInFailure` |

Assumptions: `BuildAssumption` (the two build constants have a sensible value),
`ImagesAssumption` (a cartridge image is a memory), `ResetsAssumption`,
`ApiAssumption` (addresses are words, values have one or two bytes, and slices are
bytes, of any length), `LoaderAssumption` and `DiskAssumption` (files have a length, and
sizes of one byte), and `ConsoleAssumption` (PRG data lies from 0xC000 on). TLC evaluates all of them
on the runs.

`TypeOK` is inductive as it stands. `NextType` has one lemma per group of
handlers; below them are lemmas on how a call ends (`FinishType`, `ReadingType`,
`StoringType`), on the setters, and on assignments to registers. `WrittenType`
rests on `CellExists`: every mapped address selects a cell that exists.

`FailureIsAtomic` needs no invariant. `Finish` and `Storing` never end in an
error, `Reading` ends in one only with the CPU unchanged, and BRK, which has
already pushed when it reads its vector, reads a word that ends the cartridge,
where `CartridgeWords` excludes an error.

`IndirectXAlwaysPanics` uses `TypeOK` for the index and the arithmetic lemma
`NeighbouringWordsMisaligned`: the two words start at addresses of different
parity (255 wraps to 0), and whatever `BaseParity` is one of them is misaligned.

The flag theorems share one argument: each handler ends with a processor that
either `Follows` from the current one by setters (and has the same `p`) or
`Keeps` its flags; what BRK and a reset leave is `WholesaleStatus`. `UnusedFlagsStayClear` then is inductive together with
`TypeOK`: setters add only `Settable` flags, BRK leaves none, and a reset one.

`OperandsAreFetched` is a fact about two tables: `LowOpcodes` and `HighOpcodes`
invert `OPCODES`, `Sizes` reads `MNEMONICS` at the opcodes found, and `TablesAgree`
joins them for all opcodes but the NOPs. `StoresAreAimed` follows each handler to
its writes; a cell differs only if it was written (`WrittenCell`, `PushedCell`).
It is proved of all cells, which is more than the property says.

`RetryFailsAgain` is not inductive: that an outcome was `Err` says nothing of the
next one. `ErrInv` adds why it was: the state is `Stuck`, in that the fetch or the
one load of the handler is refused at its address. `StuckFails` shows that
`execute` fails in exactly these states, and an `Err` leaves registers and memory
alone, so they stay stuck.

`FramesIntact` speaks of neighbouring frames and of the top one. Its inductive
form `Stacked` says of every frame that it lies above `sp` and below every frame
that encloses it, so that a return, which removes the top frame, needs no
argument through the frames in between. The proof has one lemma for each thing
that can happen to the stack (`StackedStays`, `StackedPops`, `StackedOpens`,
`StackedCloses`), and every instruction is one of these: `StoresAreAimed`'s lemmas
say which cells it changes, the discipline that they are not in use.
`ReturnsRepeat` then reads the pushed halves back (`JoinHalves`) and cancels -2, +1
and +1 in 16 bits (`ReturnAddress`).

The theorems about `MemoryApi` rest on how far a loop over bytes gets. `LoopStops`
says that `Before` is the number of bytes before the first one that fails; that
there is a first one is the least-number principle, taken from the well-foundedness
of `<` (`SmallestOf`). A slice that reaches from RAM into its mirror meets a cell
twice; `LastByte` says that the cell then holds a byte of the slice, the last one
that has this cell. `Effect` sums up a `write` or `write_slice`: some first bytes are
stored, none of them beyond RAM, and all of them if the answer is `Ok`. The
refinement maps it to `Write` or `FailedWrite`: `Locations` shows that for the
addresses the loop gets to `Cell` is the abstract `Location`, and `StoredByLocation`
that both memories are then the same. The runs have slices of two bytes at most;
that longer ones store what they should is shown by the proof alone. For those the
loader writes `SliceReadsBack` says it in full: PRG data copied to 0xC000 is what the
processor fetches there, which `Console` takes for granted in `WithPrg`. A read that is answered `Ok` stays within one array
(`ReadStaysWithin`), hence its bytes are in the cells of consecutive addresses.
`WordsSwap` needs this too, and `WordInv`: until the next call, the bytes of the
word are in the cells of their addresses, where these have one.

The loader theorems rest on `IInv`: at each stage the sections read so far are as
long as the header says, and, unless they are empty, the content each came from
holds that much behind its header (`RomInv`, `ReadIsHeld`). That is what makes `SlotsHoldWholeUnits` inductive: a slot changes only to a section of
`n` units that passed the bounds check, and there is room for one.
`LoaderImplementsSlot` adds `AloneInv`, that all sections come from one content,
which is as long as the reads so far required; a read that fails then refutes
`Accepted`, and `copy` is the `Load` step case by case.

`CartridgesMixOnlyInPart` compares a console with the past: a CHR slot may be of
another cartridge because the last load had none. `MixInv` records what a load with
both parts leaves, and that only cartridges without PRG data change it afterwards.

`LoopsOnlyFail` needs that a frame in progress has all its cycles left
(`FrameInv`); `ConsoleTypes` takes the steps of the processor from `TypesHold`'s
lemmas and adds `LoadedType` for the memory a load leaves.

Model-checked only: `LoadsEnd`, `WaitsEnd`, and `EmptyConsoleEnds`, as liveness is out
of the proof system's reach, and `BitPollNeverEnds`, which is about one program.
The five violated properties are refuted by a run and have no theorem but
`IndirectXAlwaysPanics`, which is the general form of the last.

## Not modelled

* `PPU::write`, which has no caller, and the contents of the PPU's array, which
  nothing reads; the APU and the debugger, which have no behaviour.
* Logging, error texts, mnemonic names, and the cycle counts in `OPCODES`, which
  nothing reads.
* `set_break`, `mapper_lower`, and the flag getters other than `negative` and `zero`,
  which nothing calls. `ora_absolute_x` and `asl_absolute_x` are operators that
  `IndexedHandlersAreReached` compares the table with; no action runs them.
* A `read_exact` that is itself interrupted by a rewriting, and files that are removed
  while open: each read sees one content of the file.
* Big-endian machines, on which `from_bytes` would give back the word written.
* The test `cpu_balloon_fight.rs`, whose cartridge file is not in the repository.
* The former C++ emulator in `old_cpp`, which is not built.

## Plan

Order of work, most important first; the first seven are done.

1. `Words`, `Memory`, `OpcodeTable`, `Cpu`, with `TypeOK` and the instruction-level
   properties.
2. `MemoryApi` against `ByteStore`.
3. `CallStack`.
4. `MemoryProofs`, `CpuProofs`, `FlagProofs`.
5. `CartridgeFile`, `CartridgeSlot`, `RomLoader`, `LoaderProofs`.
6. `Console` with its waiting programs, `ConsoleProofs`.
7. `InstructionProofs`, `CallProofs`, `MemoryApiProofs` with the refinement of
   `ByteStore` step by step, `CartridgesMix`.
8. Proofs: every step of `Console` that loads is a `Load` of `CartridgeSlot`, and
   `BitPollNeverEnds` for any program with such a loop.
9. A comparison with the C++ emulator on the instructions both have.
