# Verification of NativeNeuralNetwork

TLA+ modules, TLC runs and TLAPS proofs kept beside the Rust code of the crates
`nnn-base`, `nnn-hal` and `nnn-parser`. Every definition is translated from the
source; `PROJECT.json` maps each one to its lines.

- [The system](#the-system)
- [Modules](#modules)
- [Runs](#runs)
- [What the checks found](#what-the-checks-found)
- [Proofs](#proofs)
- [What is not modelled](#what-is-not-modelled)
- [Plan](#plan)

## The system

The repository is a `no_std` workspace without an allocator. `nnn-base` holds the
memory (`scratch`), the tensors and the numerics; `nnn-hal` talks to kernels and
devices by raw system calls and registers; `nnn-parser` reads and writes files in
eight formats through the HAL; `nnn-logger` collects events. `nnn-config` and
`nnn-bmk`, which the manifests name, are not in the repository; the top-level
README and the guides describe an engine that is not in it either. Paths below
are relative to `src/crates/`.

### Memory: `nnn-base/src/scratch`

| Component | State | Operations | Correct when |
|---|---|---|---|
| `SlotArena` (`slot.rs`) | `used`, `live_lo`, `live_hi` in `Cell`s; the storage | `acquire`, `carve_handle`, `carve_slot`, `get_mut`, `release` | a slot is lent to one borrower; slots come back last first; the live range covers every carved slot |
| `Scratch` (`arena.rs`) | `base`, `total`, `cursor`, `storage` | `carve_apply` (and `carve_bytes`, `carve_align`, `carve`), `mark`, `release`, `reset`, `reuse` | live carves are disjoint and aligned; cursor and storage agree; a rewind never moves forwards |
| `Carve`, `check_split` (`carve.rs`, `align.rs`) | none (arithmetic) | validation, alignment, spans | a span fits the region it was checked against |
| `Pool` (`pool.rs`) | an arena and `last_class` | `carve_bytes`, `carve`, `carve_class`, `mark`, `release`, `reset` | blocks are whole classes; marks and the last class agree with the arena |
| `Frame` (`frame.rs`) | the mark it opened at, alive or released | `carve*`, `release` | its release is accepted once and gives back what was carved through it |
| `LmlpScratch` (`helpers.rs`), `ScratchDesc` (`descriptor.rs`) | an arena | some twenty methods, each a short program of arena operations with `?` in between | what an early return leaves carved is still accounted for; no method rewinds below something live |
| views and planners (`typed`, `logbuf`, `layout`, `bytes`) | borrowed bytes | plans, copies, casts, a log that counts what it drops | what is given lies inside what there is, and parts stay apart |

The backends are stacked: a facade method opens a frame, a pool or a slot arena
over memory it has just carved from its arena; the pool is itself a policy over an
arena. There are no threads here. What is hard is the *order of calls*: handles
and marks are `Copy` and outlive what they name; a `Carve` has no `Drop`, so the
arena never hears of its end; two counters stand in for a list; the rewinds are
`unsafe` and the caller's obligation is written in a comment; and a method that
returns early in the middle leaves the first half of its work behind.

### Devices: `nnn-hal`

| Component | State | Operations | Hard because |
|---|---|---|---|
| Radeon dispatch (`x86/linux/mod.rs`, `x86/linux/gpu/amd`) | open render node, buffers created, mapped, bound; a job on the device | `radeon_matmul`, `radeon_gemm`, two self-tests, `radeon_probe` | up to twenty kernel calls, each of which may be refused; the device works on its own |
| Guardian (`guardian`) | limits, budgets, readers and the time of the last activity, in atomics | `initialize`, `authorize_syscall` in front of every system call | limits replaced while other threads read them; a refusal in the middle of a clean-up |
| LPU and TPU drivers (`arm/macos`, `x86/macos`) | bases and flags of the device, offset and base of a DMA region, a table of streams, in atomics | configure, probe (reset, streams, region), allocate, set attributes, submit | lock-free counters with a roll-back; a bring-up of a dozen stores that other threads watch |
| `SwapBatch`, system calls (`syscall.rs`) | a shared mapping | `new`, `get_sample`, `release` | refused unmapping |
| Probing, vendors, SIMD | tables written once | reads of `/proc`, `/sys`, `cpuid` | - |

### Files and formats: `nnn-parser`

| Component | State | Operations | Hard because |
|---|---|---|---|
| File store (`fs.rs`) | files and descriptors of the kernel | `read_file`, `write_file`, `append_file`, `ensure_dir` | every system call may be refused or do less than asked, and other processes interleave at each |
| Parsers (`json`, `csv`, `txt`, `ini`, `toml`, `xml`, `html`, `yaml`) | a cursor, a depth (the recursion), counters | `parse`, `validate`, `strict_validate_*`, `write_ini` | a limit per construct, compared in a place of its own; eight lexers; strict checks that look at the text a second time |

### Numbers, tensors and the graph: `nnn-base`

| Component | State | Operations | Hard because |
|---|---|---|---|
| Soft floats (`math/float.rs`, `math/helpers.rs`) | a word | conversions, arithmetic, `sqrt`, `exp`, `tanh`, `sigmoid`, `round`, softmax | one code for five layouts, with and without an infinity |
| Linear algebra (`tensor/linalg.rs`, `tensor/decompose.rs`) | flat slices | product, transposition, triangular systems, LU, Cholesky, determinant, inverse | indices by sides that tests make equal; zero pivots |
| Cache (`tensor/cache_tensor.rs`) | a ring of tokens | `push`, `token`, `copy_tokens_into`, `cache_push` | the moment at which the ring is full |
| Signals, edges, routing, node memory | payloads and their metadata; slices | `validate`, `reinterpret_lmlp_signals`, `transport_law`, `aggregate_inbox`, `split`, `weights` | nothing may be written before everything is checked |

## Modules

```
Loans            a byte is lent to at most one borrower   (abstract)
  ^  ^
  |  +-- SlotArena ---------- SlotArenaProofs
  |
  +----- Scratch (Carving) -- MCScratch, ScratchProofs
            ^    ^
            |    +-- Pool (SizeClasses) -- MCPool, PoolProofs
            |
            +------- LmlpScratch (SizeClasses, SlotArena) -- MCLmlpScratch,
                                                             LmlpScratchProofs

MatmulLayout <- Radeon -- MCRadeon, RadeonProofs

Accelerator <- Lpu, Tpu  --+
Guardian <- FileStore -----+-- MCThreads, ThreadsProofs

Parsing <- Json Csv Txt Ini Toml Xml Html Yaml --+
SoftFloat <- FloatProperties --------------------+
Matrices <- MatrixProperties --------------------+-- MCLibrary, LibraryProofs
Buffers, Signals, Views (Carving) ---------------+
       +-- SequentialProofs <- LibraryProofs
```

An arrow from `Loans` or `Scratch` is a refinement: the lower module instantiates
the upper one and states its `Spec` as a property (`LendsExclusively`,
`ArenaSteps`).

**Loans.** One variable, the bytes each borrower holds. `Lend` gives a borrower
with nothing bytes that nobody holds; `GiveBack` takes them away. How a backend
picks bytes does not appear.

**SlotArena.** The variables `used`, `live_lo`, `live_hi` are the cells. `carves`
and `excl` are the borrows the caller holds, `carved` is history. The borrow
checker is part of the model: `Shared` guards the `&self` operations and
`Exclusive` the `&mut self` ones, because those are the only calls a program that
compiles can make. Handles are arbitrary, stale or forged, since they are `Copy`
with public fields. A refused call returns an error and changes nothing, so it is
a stuttering step, except `carve_slot`, whose reservation stays (`CarveSlot`).

**Carving.** `align.rs` and `check_split` as operators that return a set: `{}` for
an `Err` or `None`, one element otherwise. `usize` ends at `UsizeMax`, and the
powers of two that fit it are `Alignments`.

**Scratch.** `cursor` is the field, `remaining` is `storage.len()`. `Advance` is
the end of `carve_apply`, which updates the two from different quantities.
`Reuse`, `Release` and `Reset` rewind. Each is `unsafe`; its contract is the guard
`Ended`, and the constant `Contract` selects which contract: `"ends"` (no live
carve *ends* above the new cursor), under which everything is checked and proved,
or `"starts"` (none *starts* at or above it), which is what the documentation of
`reuse` asks and is refuted by `scratch_contract`.

**SizeClasses, Pool.** The class table is a sequence; `CapacityClass` returns the
first class that fits, in table order, skipping holes. `Pool` adds `last_class`
to an arena it instantiates; `Release` changes it also when the arena refuses the
mark, as the code does. `blocks` is history: class and end of each block below
the cursor.

**LmlpScratch.** A facade call is a sequence of instructions (`Take`, `Give`,
`ReuseBy`, `OpenFrame`, ...), `call` says what is left of it, and each
instruction is one step of the arena. `Fail` is the `?`: the rest of the body is
replaced by the drops of what goes out of scope. The facade borrows the arena
mutably, so `Free` guards the start of a call and, while a frame lives, only
operations through the frame are possible. The nested backends of `pool_carve`
and `slot_carve` live and die inside one call, and are evaluated with the
operators of `SizeClasses` and `SlotArena` instead of being stepped through.
`desc` is the eight carves of a `ScratchDesc` behind the two checks made before
them.

**MatmulLayout, Radeon.** `MatmulLayout` is the arithmetic: which shapes are
accepted, where the rows of a result lie in the device's buffer and in the
caller's slice, where buffers are bound, and which sizes survive the packing into
words. `Radeon` is the protocol: look for a node (`open`, `name`), run the body, a
sequence of instructions that are one kernel call each, then `unwind`. Every
instruction has an action for the kernel's yes and one for its no (`Refused`, or
`RefusedAndIgnored` where the code goes on). `JobDone` is the device. External
and modelled from use: the kernel's check of a binding (`Bindable`: pages, no
overlap), what closing a node gives back (`CloseNode`), and `JobDone`.

**Accelerator, Lpu, Tpu.** The drivers keep everything in atomics and take no
lock, so a call is the list of atomic accesses and register writes it has left
(`todo`) with its local variables (`reg`), each a step, and any number of threads
interleave. `Accelerator` has the variables and the steps that both drivers
share, `Lpu` and `Tpu` what differs: the roll-back of a refused request
(`GiveBack`) and the reset of the offset (`RewindRegion`) exist on the LPU only,
the ids of streams and the order of a bring-up (`BringUp`) differ, and so do arm
and x86 in what a new stream writes. Offsets wrap at `Word`. `buffers`, `lent`,
`held` and the three flags `squeezed`, `raced`, `turned_away` are history. Callers
are taken to ask `is_region_initialized` before they allocate, and the
attributes of a stream to be set by the thread that was given it.

**Guardian.** `Initialize` is one step per store, `Authorize` two steps per
system call, one for each pair of a limit and what is measured; the module says
why a pair can be read at once. `late` is history: the authorization began after
`initialize` had returned.

**FileStore.** Every system call of `fs.rs` is a step that the guardian may
refuse and the kernel too; reads and writes move any number of bytes from one to
what is left. The kernel's files are external: one path for files, one for
directories. A callback of `read_file` is taken to want all of the file.

**MCThreads** composes them: it extends `Lpu` and has `T == INSTANCE Tpu` over the
same variables, chosen by `card`, and the store over the guardian, chosen by
`scene`. What is said of the drivers is stated where they are defined:
`BuffersAreDisjoint` in `Accelerator`, what holds of the LPU only in `Lpu`. They share nothing in the code, so a behaviour
is about one of them.

**Parsing and the formats.** A parser reads one text, chosen token by token,
where a token is what its lexer hands over in one piece. The stack is the
recursion of the code with the counters of each level, `mode` what it expects
next, `verdict` the answer. Each module then has the texts of its grammar, built
from the grammar alone and within the limits; `MCLibrary` compares.

**SoftFloat.** The integer code of the formats below `F32`, on packed words, for
the five layouts as they are: no width is scaled down. `FloatProperties` relates
words to the numbers they stand for, by whole-number arithmetic.

**Matrices** computes with rational numbers, so that what is checked is the
order of steps, indices and tests; **MatrixProperties** states products,
transposition and the determinant as a textbook does. **Buffers**, **Views** and
**Signals** are the ring and the log, the parts of slices that callers are given,
and the inbox.

**MCLibrary** composes them the same way, by `about`: sequential code that shares
no state.

## Runs

| Run | Module, cfg | Checks | Distinct states |
|---|---|---|---|
| `slot_arena` | `SlotArena`, `SlotArena.cfg` | live range, one borrow per slot, last-first release, refinement of `Loans` | 1.7 thousand |
| `scratch` | `MCScratch`, `Scratch.cfg` | type, cursor against storage, nothing held above the cursor, alignment, rewinds, refinement of `Loans` | 1.1 million |
| `pool` | `MCPool`, `Pool.cfg` | every position can be marked, whole classes, refinement of `Scratch` | 20 thousand |
| `lmlp_scratch` | `MCLmlpScratch`, `LmlpScratch.cfg` | frames, `frame_carve`, `desc`, refinement of `Scratch` | 250 thousand |
| `radeon` | `MCRadeon`, `Radeon.cfg` | no leak, the two answers, addresses, rows, every call returns | 6 thousand |
| `threads` | `MCThreads`, `Threads.cfg` | buffers apart, refusals taken back, commands after a bring-up, streams keep their slot, an Ok means done, descriptors closed | 1.9 million |
| `library` | `MCLibrary`, `Library.cfg` | parsers against grammars, limits, what is written is read; conversions, arithmetic and functions in reach; solutions solve; buffers, views and the inbox | 2.2 million |
| `slot_release`, `scratch_contract`, `pool_mark`, `slot_carve`, `rounding` | | one documented statement each, refuted | |

Deadlock is checked in every run except `threads`, `library` and `rounding`,
which is about a part of `library`, where a behaviour ends by design: the calls of the threads and processes are
bounded, a text is accepted or refused once, and one operation is asked of a
matrix, a view or an inbox. In the others a caller may always make another call.
Every property of a passing run has a mutant, an operator that
changes one definition the way a plausible bug would, defined just before the
definition and commented as its mutant; TLC refutes the property with it.

**Bounds, and why they are enough.**

- `SlotArena.cfg`: five slots, three carves held. Two live carves with
  reservations below, between and above them need five slots; the counters relate
  at most three positions to each other.
- `Scratch.cfg`: nine bytes at address 3, three carves. The odd address makes
  every alignment above one cost a prefix; nine bytes hold three carves with
  padding; a `usize` of five bits makes some requests overflow. The requests cover
  each family (`from`, `head`, `tail`, `middle`, `marked`, `last`, `reset`), valid
  and invalid. `MaxMarks` bounds the marks kept at once, not their age.
- `Pool.cfg`: ten bytes, classes `<<0, 4, 2, 5>>`: a hole, no order, and a class
  that does not divide the region. Two blocks and one mark suffice for a mark that
  is stale in both directions.
- `LmlpScratch.cfg`: eight bytes, elements of one and two bytes, one slice held
  by the caller. Each method can succeed and can be refused at each of its steps.
- `Radeon.cfg`: two nodes (the search repeats one step), pages of four bytes and
  fields of two bits, so that sizes that do and do not fit are a few elements
  apart; slices exactly long enough and one byte short; strides below, at and
  above the sizes.
- `Threads.cfg`: two threads, seven calls between them, a region of three
  granules with requests for one and three, two streams. A refusal needs one
  buffer and one request for everything; two overlapping requests, of which either
  or both are refused, and a bring-up under an allocation or a submission take
  five calls at most. `Word` is 16: the first two calls configure and probe, so
  five requests remain, and an offset of the TPU, which is never taken back, grows
  to five times the region but not past a word (see the exceptions). Two processes make two file calls, one each
  or both by one, of two bytes, and one of them may be anywhere in `initialize`.
  Threads and processes are symmetric.
- `Library.cfg`: the limits of the parsers on depth and items are 2, on nodes 4,
  on an untyped text 6, and on the keys and values of INI 2. What is limited in
  length and read in one piece, as the strings and keys of JSON and TOML, the
  attributes of XML and HTML and the CDATA of XML, is a token that is within the
  limit or one that is not. A text has enough tokens (`MCMaxRead`) to open one construct more than
  `MaxDepth`, or put one thing more than `MaxItems` in one, and to close it. The
  words of the narrow formats are those around zero, one and the largest, of the
  wide ones those around the boundaries between binades; `Partners` are the
  special words and those next to one; the `F32`s to narrow are the halfway points
  and their neighbours, and, far below the smallest word, those whose bits are
  shifted by 25, 26, 40, 63, 64 and 65. A YAML line has at most three blank lines
  before it. Matrices go to three by three with small elements,
  capacities of rings and logs from one to three, `usize` ends at 15, an inbox has
  at most two signals.

**Fairness.** Only `Radeon` states any. `WF_vars(Working)`: a call is straight-line
code of one thread, so it goes on as long as the kernel answers; the answer itself
is free, so no call is assumed to succeed. A wait that is refused ends, too, so
`EveryCallReturns` holds by this alone. `WF_vars(JobDone)`: the device ends a job
it was given. That is how the hardware is, not what the property needs: with it a
wait that is never refused returns with the job. Nobody is assumed to make a call. The scratch modules
and those of `MCLibrary` are a passive library with nothing that must happen, and
state none; nor do the drivers and the store, which wait for nobody: their only
loops end by a counter or by the kernel.

## What the checks found

Five runs end in a counterexample to something the repository says of itself.

- `slot_release`: `release` accepts a slot that was only reserved, once it is the
  top of a live range that spans it. `nnn-base/src/tests/scratch.rs:301`: "a
  reserved slot is not a carved one and has nothing to release".
- `scratch_contract`: `reuse` with `Marked` accepts a position inside a live carve
  that began before it. The documented condition, "no `Carve` carved at or after
  the new cursor is still live" (`arena.rs:178-180`), holds, and the next carve
  overlaps the live one, against "one region has at most one owner"
  (`arena.rs:242`). The condition that is sufficient speaks of the *end* of a carve.
- `pool_mark`: after a carve, a mark and a reset, a release of the stale mark is
  refused by the arena, but has set `last_class` before it asked (`pool.rs:236`);
  so the pool can be marked at position 0. `nnn-base/src/tests/pool.rs:20`: "There
  is no mark for the very beginning of the pool".
- `slot_carve`: the method acquires two slots and then carves the first, which
  `carve_handle` always refuses, so it never "Carves and returns a `T` block"
  (`helpers.rs:420`).
- `rounding`: `Float::round` of the formats below `F32` drops as many low bits as
  the exponent says, and below one these are more than the fraction has. In `F16`,
  0.0625 and 0.125 give 2, 0.25 gives 0.125, 0.5 and 0.75 give 0.5, against
  "Round to nearest, ties away from zero — the rule `roundf` follows for f32"
  (`math/float.rs:1296`).

Three more faults came up while the model was brought to the code. The model has
them, and the passing properties name them as exceptions; without the exception
each is a counterexample of that property in `library`.

- `round_shift_right` answers 0 for a shift of 65 and more; a shift of 64 is executed
  on a word of 64 bits (`math/helpers.rs:148-155`), which panics in a build with
  overflow checks and shifts by nothing in any other. It is asked for by the `F32`s
  of one binade: from 2^-65 for `F16`, 2^-50 for `E4M3`, 2^-57 for `E5M2`. The model
  takes the build without checks, in which they become what the format's bits are of
  the 24-bit significand, against "a shift wider than `value` drops all of it"
  (`helpers.rs:138`). Excepted in `ConversionsRoundOnce` (`ShiftsByTheWordSize`).
- `strict_validate_toml` looks whether the *line* ends in a brace
  (`toml/parser.rs:380`), so `k = {} # note` is an inline table that was "opened but
  never closed" (`toml/error.rs:26`). For the same reason a header with a comment is
  none, and the keys of two tables are taken for one's. Excepted in
  `RefusesOnlyNonDocuments`.
- `strict_validate_html` takes what a comment holds for tags (`html/parser.rs:436`), so
  `<!-- <a x x> -->` is "the same attribute [...] more than once on a single
  element" (`html/error.rs:22`). `strict_validate_xml` does the same in comments and
  CDATA, and looks for entities in comments. Excepted in `RefusesOnlyNonDocuments`.

### Exceptions the properties make

Where the code does something its text does not exclude, the property excepts it
and says so, instead of claiming less of everything.

*Drivers.* `BuffersAreDisjoint` excepts two interleavings of the LPU. *Squeezed*:
two refused requests overlap, and a third is granted between their `fetch_sub`s,
at an offset that the second `fetch_sub` then takes back below its end; the next
request is lent its bytes. *Raced*: a second bring-up resets the offset while a
request is under way or a buffer is in use. Nothing in the drivers says that
either may not happen, and nothing promises what happens then. An offset of the
TPU that wraps a machine word would lend the region again. A request made before
the LPU's region is set up gets an address below it; callers are taken to ask
first. `StreamsKeepTheirSlot` is stated of the LPU while no stream was turned
away: the TPU asks for the id `0x200` at every probe, so that later attributes go
to the first slot, and a stream that was refused has id 0, which matches a slot
that is not yet filled. A TPU takes a command once its base is stored, which is
before its reset.

*File store.* `OkMeansDone` speaks of calls during which nobody else changed the
file, and excepts an append that was *misled*: its question whether the file
exists was refused or failed, so it took the existing file for absent and
rewrote it.

*Parsers.* An end tag where none is open, and in XML also a lone `<` or an
unfinished `<!` at the end, ends a text that is accepted with its rest unparsed. A
YAML line is read again for each blank line before it; `parse_yaml` ignores what
follows the document; a sequence at the indentation of its key is refused, as are
some scalars that look like dates. In HTML's raw text a `</` before the end tag
hides that tag. The strict checks of HTML and XML take comments, CDATA and raw text
for markup, and those of TOML take the comment on a line for a part of it:
`RefusesOnlyNonDocuments` does not count such texts
as good ones, and it asks of TOML only texts of one statement on each line, where a
comment follows a pair that assigns no inline table, while `AcceptsOnlyDocuments`
asks that lines of this kind with a repeated name or a date that does not exist are
refused. An unstrict TOML text may have a statement follow another on its line. INI
bounds no section name and TOML no text at the outermost level. What is written
with `write_ini` is asked to be read back if nothing begins or ends with white
space, a key begins with no comment mark or bracket and has no separator in it, and
a name has no bracket; the writer sees to none of this.

What tokens leave out: the names, strings and attribute values of TOML, XML and HTML
have no punctuation in them, so a `#` or a brace within a string, which the strict
scan of TOML would take for one outside, is not modelled; in TOML a blank separates
a scalar from a comment.

*Numbers.* In the top binade of `E4M3`, which has no infinity, conversions and
arithmetic saturate although the words exist (256 to 448 become 448).
`ConversionsRoundOnce` excepts the `F32`s whose shift is 64. Products
and quotients are compared if both operands are normal and the result is not below
the normal numbers, where the code drops bits without rounding; sums are compared
when they are not below the normal numbers. `max` of two negative numbers is the
lesser, and `max` and `min` make a number of a number and a NaN. `round` of a number
that is so small that it shifts by a machine word or more (below 2^-56 for `BF16`
and `TF32`) depends on the build, too, and gives 0 in the model; no
run asks for more than that it is not the nearest number. Softmax is checked for
values at most two apart: the series of `exp` diverges for large negative numbers,
and weights above one and below zero come out. `exact` of a number with more bits
than the fraction is another number.

*Matrices.* There is no pivoting: with a zero pivot on the way, LU and the
determinant answer, and wrongly (the determinant of `[[0, 1], [1, 0]]` is given as
0). They are checked where no leading minor but the last is zero.

*Views.* The sizes of a node's regions are added without a check
(`NodeMemory::total`): where the sum wraps, `split` panics or gives the last
region less than it asked for. A view with a zero in its shape is refused where
the product of the others overflows. `plan_slot` takes any alignment: where it does
not divide the size of a slot, it may give two indices overlapping slots, so the
property, like `SlotsStayApart`, asks them to be apart where it does.
`write_fmt` of the log stops at the first piece that is cut, so later pieces are
not counted as dropped. `cache_push` ignores an incomplete token at the end.

## Proofs

The theorems hold for every value of the constants that satisfies the assumptions
named in the modules (the region fits the address space, alignments are positive and, for `LmlpScratch`,
divide the size of the address space, a class table is a sequence of numbers, the
data of a file are bytes, and so on; for `ScratchProofs`, also `Contract = "ends"`).
Every theorem that states a property is about the specification that a run checks.

**SlotArenaProofs.** `IInv` is the conjunction of the type invariant, the live-range
invariant and the borrow invariant. None
is inductive alone: `MarkLive` keeps the range over all carved slots only because
a slot that can be carved is at `used - 1`, above the old `live_hi`; and a carve
takes a slot nobody holds only because the range covers every carved slot.
`ReleasesAreLifo` follows because the released slot is `live_hi - 1`.
`ImplementsLoans` maps `carve_handle`, `carve_slot` and `get_mut` to `Lend`, the
end of a borrow to `GiveBack` and the rest to stuttering.

**ScratchProofs.** `IInv` adds `Disjoint` to the type invariant, `StorageIsTheRest`
and `HeldBelowCursor`. A new carve lies between the old and the new cursor because
`CheckSplit` bounds the span by what remains, and `StorageIsTheRest` turns that into
a bound by the region; it is disjoint from the others because they lie below the
old cursor. A rewind keeps `HeldBelowCursor` by its contract, which is why
"starts" is not enough. `StartsAligned` is separate: `AlignUp` returns a multiple of
the alignment. The lemmas about `AlignUp` are at the head of this module and,
where they are needed too, of `SequentialProofs`.

**PoolProofs.** Each action of a pool, accepted or refused, is a step of
`Scratch!Next` or leaves the arena alone, so `Spec => Arena!Spec`; the theorems of
`ScratchProofs` then apply (`PoolLendsExclusively`). What a pool adds is
`ClassesInv`: the two properties of the run with the types and `NoBlockIsAHole`. The
cursor is a position that can be marked because every block is one class long
(`PositionsCanBeMarked`); a block that is held stays one class long although a
release of an old mark rewinds below it, because the rewind forgets exactly the
blocks above the new cursor (`HeldBlocksKeepTheirClass`).

**LmlpScratchProofs.** The invariant is about the frame, what is left of a call and
the arena together. A call, refused or not, is `InRegion` (no frame, any
instruction but those of frames), `Dropping` (only drops are left), `Unwinding` (a
frame, drops, and its end last) or, in a `frame_carve` so
far successful, one of the eight shapes that
`InFrameCarve` lists from the end to the beginning, each with the frame and cursor it
goes with. `FrameHoldsItsStart` is inductive beside it, since a rewind is left to a
call only while there is no frame. Under it every step is a step of a `Scratch` with
contract "ends" (`FacadeImplementsArena`): no method rewinds below a slice that is
still held. The theorems of `ScratchProofs` carry over (`FacadeLendsExclusively`), and
`FrameCarvesGiveBack` is what `InFrameCarve` says of the last shape. `desc` has an
invariant of its own (`DescInv`): the steps left are the last carves of the plan, and
what was taken before them is the total that `plan_bytes` has after as many
requirements. That total is a recursive function over the eight regions, so
`PlanTotalUnrolled` evaluates it by a witness and needs no induction. What
`plan_bytes` takes from offset zero is what the arena takes from an aligned address
(`AlignedAddressesRound`); at the top of the address space this uses
`PowersAssumption`, that an alignment divides 2^w.

**RadeonProofs.** `RowsAreInside` is arithmetic over all sizes: a stride of at least
the row length keeps rows apart, and the last row ends where the slice does.
`CallsAreTidy` rests on `Tidy`: a node is open exactly in the phases `name`, `body`
and `unwind`, and it is the current one; outside the last two nothing else exists.
`BindingsAreFree`: the shape of a call at work was accepted (`AtWork`), `NextVa` of
a buffer's end is the first page after it, so the four buffers of a product are
pages apart (`BuffersInARow`) whichever of them are bound already.
`RefusalsLeaveTheOutput` rests on `Quiet`: a copy is the last instruction of a
product's body (`ProductCopiesLast`), so after it nothing can be refused any more.
`AnswersAreDelivered` rests on `Delivers`: whatever is left of a product's body
prepares, waits for the job and copies, in that order (`EndsWithTheJob`), the job was
given the inputs of the call, and a copy made after the wait finds what the device
computes of these inputs. The theorem is about every shape: that is the product if
`DeviceReads` holds of the shape, and something else if it does not.
`TypeCorrect` says more than types in one place: what is mapped or bound was created on
the node. It needs that every body creates a buffer before it maps or binds it
(`CreatedFirst`), which joins over the parts a body is put together from
(`CreatedFirstJoins`).

**ThreadsProofs** has three parts: the guardian with the store, the LPU, and the TPU.
The first is about `MCSpec`; the other two are about one driver alone (`LpuSpec`,
`TpuSpec`) and are brought together at the end.

*The guardian and the store.* `initialize` installs the CPU reader before the memory reader and
both before it returns (`ReadersAreSet`), and what it installs answers 0, which every
limit admits; so an authorization that begins after it has returned passes both
gates (`LatePasses`, `GuardianInv`). `NothingLateIsRefused` is that, for any number of processes and
any limits and loads. In the store, only a close that is refused changes `leaked`
(`OnlyRefusedClosesLeak`), hence `ClosesAreRefusedEarlyOnly`: every descriptor that is
left open was asked to be closed before `initialize` had returned.
`CallsDoWhatTheyAnswer` rests on `StoreInv`, a promise for each place a call can be
at: the descriptor stands where the data moved so far ends, and while nobody else
has changed the file, its contents are what was there or nothing, as the way it was
opened has it, with the data written so far (`Progress`). A call that was disturbed
promises only types and the descriptor's place.

*The LPU*, for any finite number of threads and calls. Its first invariant, `IInv`,
speaks of the steps a call still has to
make. `SetUpInOrder`: a call that is going to store `LPU_INITIALIZED` has reset the
device, set up the region and claimed a slot, or is going to do it before; with
`AskedFirst`, a command implies all three (`LpuCommandsFollow`).
`CountIsRestored`: the stream count less the refused streams not yet put back never
falls, stays within the table, and is its length while there are any. So a
`fetch_sub` never gives away a slot that was claimed, and no slot is claimed twice
(`SlotsAreClaimedOnce`). `ProgramsAreOrdered` is what makes the set of steps left
enough to know: a slot is published before anything else, a refused stream is put
back at once, and nothing follows the last step.

Two more invariants stand on it. `StreamInv` follows one stream through the tables:
`ProgramsAreStaged` says at which stage of claiming, publishing and setting
attributes each list of remaining steps is, and the invariant what the slot, the
register and the thread's own record hold at that stage. A search for an id finds
the claimed slot because no other slot below it has that id
(`LpuStreamsAreKept`). `RequestInv` counts bytes: the offset is what was lent, plus what
was granted and not yet handed out, plus what was refused and not yet taken back
(`OffsetIsTheSum`), and what is lent or granted lies side by side below the first two
(`LoansAreApart`). The sums over threads are cardinalities of sets of units, a
thread and a number up to its size each (`Total`), so that a step of one thread
changes them by what `FiniteSetTheorems` says, without an induction over threads. From it follow
`LpuRefusalsAreTakenBack` and `LpuBuffersAreDisjoint`, with the exceptions named above.
Both have the hypothesis `WordHoldsRequests`: a machine word is larger than the region
plus the largest request of every thread at once. The code adds without a check and
relies on it: where `fetch_add` or the sum that is compared wraps, a request is
granted bytes that are lent. For a region of 4 MiB and a word of 64 bits only sizes
that exceed any memory break it; the run satisfies it with 16 > 3 + 2 * 3.

*The TPU* never takes a refused request back, and neither does a set-up, so nothing
but the number of calls keeps its offset from wrapping. `WordHoldsCalls` is the
hypothesis that it does: the word is larger than the largest request times all calls
but two. Those two are the calls without which no request reaches the `fetch_add`:
one that configures the device and one that brings it up. `TpuInv` counts them:
`Before` is how many of the two must have been made, `Spare` the calls made without
them and without the requests not yet at their `fetch_add` (`Takers`), and the offset
is at most `Spare` times any bound of the sizes. Buffers then lie side by side below
the offset. The run satisfies the hypothesis with 16 > 3 * 5; with a word of 64 bits
it takes more calls than a machine makes.

`OneOfTheDrivers` shows that a behaviour of `MCSpec` is one of `LpuSpec` or one of
`TpuSpec`, since no step changes `card`. So `CommandsFollowSetUp`, `StreamsAreKept`,
`RefusalsAreTakenBack` and `LentBuffersAreDisjoint` hold of the very specification
that the run `threads` checks, the last one of both accelerators.

**SequentialProofs** is about `Buffers`, `Signals` and `Views`, for every capacity,
stride, `usize::MAX`, size and element. Three techniques replace what the provers
cannot do, which is to take an operator as a parameter:

- induction over the naturals is the existence of a least element in a set of
  naturals (`LeastNatural`, `UpTo`), which follows from the one theorem of
  `WellFoundedInduction` that takes no operator;
- a fold over a sequence is its sequence of intermediate results: `FoldOfPushes`
  and `FoldOfSignals` build it up to each length, and show that `FoldLeft`
  returns its last element;
- a sum over a set in the arbitrary order that `CHOOSE` gives is the sum in every
  order (`SumInAnyOrder`).

*Buffers.* `BuffersHold` says of a ring that it holds the last `capacity` of the
whole tokens it was given, each at its place modulo the capacity (`Pushed`), and of
the log that it holds the start of what it was offered, counts the rest, and counts
nothing unless it is full (`LogHolds`). The property alone is not inductive: it
speaks of what is copied out, and of `head` and `len`, not of the bytes of the ring.
*Signals.* `SignalsHold` says that the buffer is what the fold over the delivered
signals makes of it, which is the sum in any order. *Views* keeps nothing between
calls, so `ViewsStayInside` is inductive by itself, and the work is in what each
call gives: products that are checked step by step (`ShapeFits`), the place of an
element in row-major order, which is inside and tells its index (`PlaceIsInside`,
`PlaceTellsIndex`), and the regions of a split. The theorems about single operators
are here, too: `SlotsStayApart` (if the alignment divides the size of a slot,
`align_up` moves nothing, so slot `i` starts at `i` slots), `RegionsShareTheBuffer`,
and `MovesTakeWhatWasThere`, `copy_within` byte by byte.

The assumptions these proofs need are named in the modules, and the code justifies
them: a stride and the capacities are positive, since `CacheTensor` refuses a capacity, a
number of heads or a dimension of zero and `LogBuf` an empty carve
(`StrideAssumption`, `CapacitiesAssumption`); what is written are integers
(`WrittenAssumption`, `ElementsAssumption`); what is asked for is a `usize`
(`AmountsAssumption`).

**LibraryProofs** is about `MCSpec` of `MCLibrary`: `BuffersKeep`, `ViewsAreInside`
and `InboxFolds` carry over what `SequentialProofs` shows, and two more are about
the formats.

- `LimitsHold`: whatever tokens a text is made of, every parser stays within its
  limits at every token, for every value of the limits. The invariant is
  `WithinLimits`. It is stronger than the property in two ways: a table of CSV and a
  line of INI always have their three frames, since a step that counts up a frame by
  its number would otherwise count up one that is not there; and in HTML a tag
  being read is allowed one frame more than the content, which its end takes away
  again, so the limit of the content is one tighter than the property asks.
- `RoundTripsHold`: a section or entry that `write_ini` wrote is read as itself, for
  names and values of any length within the limits, with separators, comment marks
  and white space inside the values. The invariant `LineInv` says what the line read
  so far means. The work is in what is left of a text between white space
  (`TrimmedIs`: the trims are a choice of the first and the last byte that is none,
  and `PlainIsTrimmed` turns that into what the reader needs), in `EntriesAreTrimmed`
  (an empty value takes the blank after the separator with it) and in
  `EntriesAreRead`: the *first* separator ends the key, because a key has none, and
  what the value has of them stays in the value.

One operator of the linear algebra has a theorem, for every number of rows and columns:
`TransposesTurnOver`, since no two elements go to one place (`TurnedPlacesDiffer`).

**Only model-checked.** `TypeOK` is an invariant of the run `scratch` alone;
`SlotArenaProofs`, `ScratchProofs`, `RadeonProofs` and `LmlpScratchProofs` prove
theirs. These stay with TLC:

- `EveryCallReturns`, because liveness under fairness and `ENABLED` are out of the
  prover's reach;
- `AcceptsOnlyDocuments` and `RefusesOnlyNonDocuments`. They compare a parser with the
  texts of its grammar, which the model enumerates up to the length of the run: a
  theorem would need a grammar of texts of every length and an induction over
  derivations, which cannot be stated to the prover. For one format and one kind of
  line, what is read is proved (`RoundTripsHold`);
- `ConversionsRoundOnce`, `ArithmeticIsInReach` and `FunctionsStayInRange`: case
  analyses over words of five fixed layouts, with powers of two whose exponents
  depend on the word. There is no constant to generalise over, and the run enumerates
  what a proof would have to;
- `SolutionsSolve`: it compares an elimination, which is a fold over columns of folds
  over rows of rationals, with a determinant that is a sum over permutations; each
  step is nonlinear arithmetic that the SMT solver does not find. Of its parts,
  `TransposesTurnOver` is proved;
- the five statements that are refuted.

No module declares a `RECURSIVE` operator.

## What is not modelled

In the modelled components: which `CarveError` a refusal carries (no caller tells
them apart), zero-sized types, the contents of memory, overflow of the products in
`radeon_matmul` (in a release build they wrap; `MatmulLayout` takes sizes whose
products fit), the half-precision early return, the register values of the command
stream, and the measurements the self-tests report.

In the components of `threads`: the power, clock and interrupt registers, the
diagnostics and the counter of mapped bytes of the drivers; the polls of a reset,
which end either way; the guardian's budgets, which no system call draws on, its
idle timer and its swap reader, whose answers nothing uses; error kinds of the
store, and paths, which are one file and one directory.

In those of `library`: the values of strings and numbers that a parser returns,
the names of entities, the writers other than `write_ini`; `F32` and `F64`, whose
arithmetic is the machine's, `ln`, `sin`, `cos`, `powf`, rounding inside the linear
algebra, QR and eigenvalues, initializers and activations (formulas over the
modelled operations without a branch that could be wrong); softmax of rows longer
than two; the traits of the graph that have no body.

Not modelled at all, with the reasons in `PROJECT.json`: hardware probing (input
without a protocol), the Windows back ends (wrappers), the facade (re-exports) and
the logger (one owner, no protocol).

## Plan

Done: every module above, its runs and the proofs above.

What would come next:

1. Liveness of the drivers: a request that is refused because of another's
   reservation, which is then taken back, may be refused again for ever; which
   callers retry is not in the repository.
2. The scheduler of the LPU (`backend`, `scheduler`), once something calls it.
3. Theorems: `SolutionsSolve` for two by two, where the elimination is one step;
   `SlotsStayApart` for the other plans of a layout.
