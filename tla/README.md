# Verification of ANC216

TLA+ models of the ANC216 system: a 16-bit processor, its emulator and debugger,
the kernel that runs on it, the tool that edits its memory cards, and the
assembler and disassembler its programs are made with. The modules are checked
with TLC on small instances and the most important facts are proved with TLAPS
for every value of the constants. Paths below are relative to `src/`.

* [The system](#the-system) - inventory of the components
* [The models](#the-models) - which module stands for which code
* [The runs](#the-runs) - what TLC checks, the bounds, the fairness
* [The proofs](#the-proofs)
* [Where code and documents disagree](#where-code-and-documents-disagree)
* [What is not modelled](#what-is-not-modelled) and [the plan](#the-plan)

## The system

| Component | State | Operations | Interacts with | Modules |
| --- | --- | --- | --- | --- |
| Processor (`emulator/src/cpu.cc`) | R0..R7, PC, SP, BP, SR, the six MTU bounds, 64 KiB of memory, timer, pins, `killed` | `execute()`: pins, keyboard, timer, breakpoint test, one instruction; `interrupt()`, `restore_status()` | host threads under one mutex; devices through `EmemMapper` | `Machine`, `Cpu` |
| Run control (`cpu.cc`, `debug.cc`) | `running`, breakpoints, `breakpoint_hit`, `resume_breakpoint`, temporary target, worker thread | start, stop, step, until, next, finish, edit, reset, quit | worker thread and console thread; condition variable | `RunControl` |
| Keyboard (`keyboard.cc`, `emem.cc`) | event queue of 64, dropped counter | input, pending, consume, READ, WRITE, REQ | SDL thread queues, processor thread delivers | `Keyboard`, `EventChannel` |
| Kernel filesystem (`os/kernel/fs_*`, `storage`) | the card: allocation table, directory records, clusters; the descriptor; the redirection's private cursor | mount, open, directory, read, write, rewind, touch, mkdir, remove, redct | system calls; the card is persistent | `Volume`, `KernelFs`, `FileTree` |
| Kernel entry, loader, session (`boot`, `kernel.anc216`, `loader`, `syscalls`, `syscall_*`) | the loader's and the session's words, permissions, current volume and directory | power on, entry, exec, run, exit, fault, mount, chdir, redct, reset, shutdown | processor, volumes, programs | `Session`, `Processes` |
| AFS tool (`cardreader/`) | an image of 64 KiB in memory, the current directory, `dirty` | load, mkdir, touch, cd, set, put, get, rm, save | the same cards as the kernel, while no emulator runs | `Afs`, `HostTree`, `Card` |
| Encoding (`common/encoding.hh`) | none | addressing byte, opcode table, validity | processor, assembler, disassembler | `Encoding` |
| Assembler (`assembler/`) | token list, module lists, conditionals, labels, output | tokenize, preprocess, parse, two passes, header | source files, options, output file | `Tokenizer`, `Preprocessor`, `Grammar`, `Analyzer`, `Assembler`, `Toolchain` |
| Disassembler (`disassembler/`) | none that outlives a run | header, symbols, listing | binary files | `Disassembler`, `Toolchain` |
| External memory mapper (`emem.cc`) | ROM pages, page table of the MPME | mapped reads and writes | processor, host image file | in `Card`, `Keyboard` |
| Text display (`avc64.cc`), window (`video.hh`, `gpu.hh`) | character memory, cursor, colours | WRITE, HWRITE, REQ | processor, SDL | not modelled |
| LLVM backend, user programs | none | | | not modelled |

What is hard, and what makes each part right:

* **Processor.** Several interrupts may be due at one boundary but there is one
  pair of context slots; user code can put any value into SR, PC, SP and BP;
  addresses are rebased between logical and physical and wrap at 16 bits; a
  fault may be found after half of an instruction. Right means: user code is
  confined, a handler finds the context of the program it interrupted, pins are
  served.
* **Run control.** Two threads, a mutex, two condition waits, and
  `resume_breakpoint`, a licence to pass one breakpoint once. Right means:
  breakpoints stop before execution, no start or shutdown is lost, joins return.
* **Keyboard.** A delivery is three calls, each with its own lock, and input may
  come between them. Right means: a FIFO channel that drops the newest event.
* **Filesystem.** Every byte is persistent as soon as it is written; a soft reset
  (an NMI) cuts a service off after any of them. Two cursors cache pieces of the
  same volume. Right means: files are what the interface says, and whatever a
  reset leaves, no file runs into another one's clusters.
* **Two hands on one card.** The kernel writes a byte at a time and checks a chain
  when it opens it; the tool checks the whole image when it loads it and replaces
  it whole. Right means: what one writes the other reads, a session neither
  loses nor leaves half of a command, and a card that a reset has torn is either
  refused or whole.
* **Loader and session.** A program is read over the kernel's own staging words
  and may be rejected half way; the caller's grants, volume and descriptor have
  been touched by then. Right means: one program at a time with its own grants,
  a failed launch leaves its caller running, and init comes back when it is owed.
* **Toolchain.** Addresses are fixed by sizes the first pass predicts, and the
  second pass computes them again; the preprocessor erases and splices the list it
  is iterating over; comments are stripped with another idea of a string than the
  scanner's. Right means: labels, jumps and symbols lead where they say, an
  import stands for its lines, and what the disassembler prints assembles to the
  same bytes.

The complete list of hazards, each at its line, is in `PROJECT.json`.

## The models

### Processor: `Machine`, `Cpu`

`Machine` holds the registers and memory of one processor as a record
(`m.pc`, `m.sp`, `m.bp`, `m.sr`, `m.mtu`, `m.mem`) and the operators of
`cpu.cc:197-339`: translation and bounds (`Mapped`, `ReadOk`, `WriteOk`), the
stack (`Push`, `Popped`), `RestoreStatus` and `Interrupt`. `SR` is the set of its
control flags; the arithmetic flags and R0..R7 are data and are not kept. Memory
is kept for the `Tracked` addresses; a byte is a number, a saved status or
`Opaque` (any value).

`Cpu` is `CPU::execute`. `stage` names the part that runs next: `pins`
(`ShutdownPin`, `ResetPin`), `keys` (`KeyIrq`), `timer` (`TimerExpires`) and
`exec`, one action per kind of instruction. The guest program is a *set* of
possible instructions for every address with any operand of `Data`, so a run
covers all programs of that shape. Opcodes that differ only in data share a name;
`Privileged` and `Unprivileged` are the split of `common/encoding.hh`. The host's
`RequestReset` and `RequestShutdown` come in only between instructions, because
they take the mutex that `execute()` holds.

### Keyboard: `EventChannel`, `Keyboard`

`Keyboard` is the device with its two users. `Input` is the SDL thread;
`Pending`, `Deliver`/`Refuse`/`Crash` and `Consume` are the three calls of
`pump_keyboard`; `Read`, `Write`, `Request`, `RequestStatus` and `Other` are
what an instruction of the guest can do to the device, the flag I and the vector.
`EventChannel` is the abstract promise: a bounded FIFO queue that drops what it
has no room for. `Waiting` is the refinement mapping: an event that `einr` has
handed over counts as gone although `consume()` has not yet removed it. `Enter` is what
`einr` leaves: with an invalid system stack pointer it kills the processor, in a
delivery (`Crash`) and in a `REQ` alike.

### Run control: `RunControl`

The worker of `CPU::cycle` (`WorkerTop`, `WorkerWakes`, `WorkerHits`,
`WorkerExecutes`, `WorkerBatchEnds`, `WorkerPaced`, `WorkerKilled`) and the main
thread's calls (`Start`, `Until`, `NextOverCall`, `Finish`, `Stop`, `Step`,
`DebugSet`, `SetBreakpoint`, `RemoveBreakpoint`, `Reset`, `Quit`). `LockFree` says
who holds the mutex. The guest is its PC, mode and SP; an instruction may go
anywhere and an interrupt may be entered at any boundary, before the breakpoints
are looked at. `owed` is a history variable.

### Filesystem: `Volume`, `KernelFs`, `FileTree`

`Volume` is the card (`table`, `dirs`, `cluster`) and what is read from it: path
lookup (`Walk`, `FileAt`), chain validation (`ChainOf`, `Valid`), the outcomes of
`fs_open` and `fs_directory` (`Opens`, `OpenFails`, `DirectoryFails`), and the card
reader's own test of an image (`HostValid`, `AFS::validate`).

`KernelFs` is every service that changes the card or a cursor. Interrupts are
masked in a system call, so services do not overlap: `work` says which step of
which service runs, and a service is its first action (`Touch`, `Write`,
`RemovePath`, ...) followed by one action per byte written (`HeadOwner`,
`HeadType`, `LengthHi`, `LengthLo`, `ContOwner`, `ContType`, `ContLink`,
`FreeOwner`, `FreeType`, `DirName`, `DirUpper`, `ZeroUpper`, `ZeroName`). `Reset` may
come between any two. What is abstracted:

* Writes to a cluster that nothing refers to yet (its name, link and length
  before its owner and use) are one step: no state between them can be told
  apart by anything that reads the card.
* Lookups only read; they are evaluated in the step that uses their result.
* Cursor offsets count from the first payload byte, so `fs_base` disappears.
  `fs_allocated` and `fs_size` feed only `fstat` and `size` and are left out.
* `result` keeps the status and, for transfers, the byte count. It is cleared
  while a service runs.
* One volume is mounted. Paths are sequences of names that are already parsed.

`Shared` says whether programs may open, remove or re-redirect the file that
their output is redirected to. With `FALSE` they leave it alone until the
redirection is switched off. With `TRUE` a cursor may be stale; where its cluster has
come to have the other role, head or continuation, the code reads and writes one layout
through the other, and the model stops (`InRole`): the layouts are not overlaid.

`FileTree` is the abstract specification: a tree of named files and directories,
a descriptor and a redirection (each a file and a position), and services that
happen at once, as `os/SYSCALLS.md` describes them. It does not know clusters,
directory records or caches. A volume may be full at any time. In `MCFs` the
history variable `seen` remembers the tree as the last service left it, and
`Tree` maps it onto `FileTree`; steps in the middle of a service stutter.

### One card in two hands: `VolumeTree`, `Afs`, `HostTree`, `Card`

`VolumeTree` reads a volume as a tree of named files. `Afs` is a session of the
card reader on a copy of the image: `Load` accepts what `HostValid` accepts
(`AFS::validate`), `Run` is one command (`MakeDir`, `HostTouch`, `SetContent`,
`Put`, `HostRemove`, `ChangeDirectory`, `GetContent`, each with its error codes
in the order of the code), `Exit` saves if `dirty`, `Abort` is a session that is
killed or whose save fails. Saving is one step: the tool writes a new file and
renames it. While a session is open the variables of `Volume` are its copy, and
`session.image` is the card.

`Card` composes it with `KernelFs`: `InMachine` is any step of the kernel,
including a reset after any byte; `PutInReader` stops the emulator after any
byte and hands the card to the reader; `InReader` is the session. The two do
not run at once.

`HostTree` is the abstract session: commands on a tree of files that happen whole
or fail with their code, and a card that holds the old tree until the session
ends with the new one. `MCCard` maps onto it through the history variable `seen`.

### Loader and session: `Session`, `Processes`

`Session` is the kernel from power on. `mode` says what the processor does
(`off`, `entry`, `user`, `idle`); `kernel` holds the loader's and the
session's words (device, cwd, grants, what run has requested, what the loader has
staged), `fs` the mounted device and the open file, `user` the program in memory
with its argument bytes and length. Interrupts are masked in the kernel and a reset
discards its words, so an action is a whole service: `PowerOn`, `Entry` (which
mounts the boot volume and launches init, or idles), `Exec`, `Run`, `ProcessFinish`
(exit and fault), `Mount`, `Chdir`, `Open`, `CloseFile`, `Write`, `Look`, `Create`,
`Remove`, `Video`, `Redirect`, `RedirectOff`, `PrintText`, `SoftReset`, `Shutdown`.
`Launch` is `fs_open` and `exec_open_file` with each of their refusals in order: the
path, the header, the permissions staged from it, the symbols; `Fails` is what its
caller does then. A file is what the loader can
tell apart: nothing, a folder, rubbish, a damaged file whose chain the kernel refuses,
or an executable with its permissions and sound or torn symbol records. `Create`, `Write` and `Remove` change only the
`Volatile` places, so that the boot volume can lose its init while programs run.

`Processes` is the promise: a power state, one process or nobody, and a session
that outlives it. It has no staging words and no pending launch. `TheProcess` and
`TheSession` are the refinement mapping.

### Toolchain: `Encoding` to `Toolchain`

`Encoding` is the addressing-byte decoder, the opcode table with the operand
families each opcode supports, and the validity rules. `Tokenizer` is the scanner:
a source text is a sequence of symbols, one per character except that a word is
one symbol. `Preprocessor` is the machine of `Parser::preprocessor`: a stack of
frames, one per nested import, each a token list that is rewritten in place
(`use`, `use ... as`, `if`/`elif`/`endif`, `import`), with the list of modules
already above it. `Grammar` is the recursive descent parser as functions from
token list and cursor to tree, cursor and error. `Analyzer` is the first pass,
which sizes every statement and fixes the labels; `Assembler` the second, which
emits, and the UALf header. `Disassembler` turns bytes into the tokens its text
is read back as.

`Toolchain` puts them together: `stage` runs through reading the command line,
preprocessing (one step per directive), parsing, one step per statement of the
first pass, one per item of the second, to a file, a refusal, a crash or an
unreadable file. A written file is disassembled and its text assembled again
(`round` 2). Stated as the code does it, including what looks wrong: a missing
operand that crashes, a scanner that resumes one character off after an escape.

## The runs

`MCCpu`, `MCKeyboard`, `MCRun`, `MCFs`, `MCCard`, `MCSession` and `MCToolchain`
instantiate the models. Definitions marked "Mutant" or "wrong on purpose" in the
modules are seeded faults: with one in the place of the original, the property
listed for it in `PROJECT.json` fails.

| Run | What it checks | What it shows |
| --- | --- | --- |
| `MCCpu_user` | `UserConfined` | Unprivileged instructions under a limit below the ROM and one that reaches into it |
| `MCCpu_traps` | `TypeOK`, `HandlerSeesContext`, `ContextSaved`, `ResetServed` | Faults, SYSCALL, REQ, key, timer and reset together; firmware that moves every bound |
| `MCCpu_timer` | `TimerExpiryDelivered` (violated) | An expiry that meets another interrupt is lost |
| `MCKeyboard` | `TypeOK`, `PeekedInFront`, `InOrder`, `ImplementsChannel`, `Served` | Input between the calls of a delivery |
| `MCRun` | `TypeOK`, `NeverRunsPast` (system mode), `JoinReturns`, `StartedRuns` | Console commands against the worker |
| `MCRun_continue` | `ContinueExecutesOnce` (violated) | An interrupt spends the licence |
| `MCRun_physical` | `StopsAtPhysical` (violated) | Breakpoints in user code |
| `MCFs` | `IdleVolumeValid`, `CursorsFresh`, `ImplementsFileTree` | Every service, with files that grow under both cursors until the volume is full |
| `MCFs_shared` | `FilesNeverShrink` (violated) | The redirection target opened and written |
| `MCCard` | `TypeOK`, `ChainsSound`, `NoneStranded`, `SessionSound`, `NothingUnmarked`, `KernelOpensAccepted`, `WholeFilesKeepBytes`, `OrphansInert`, `ImplementsHostTree` | Kernel and card reader in turn, with two resets, power-offs or sessions at any byte |
| `MCSession` | `TypeOK`, `SessionHeld`, `ImplementsProcesses` | Launches that succeed and fail, on volumes that are missing, broken or lose their init |
| `MCToolchain` | `TypeOK`, `TakenBranch`, `ImportChainAcyclic`, `IncludedInPlace`, `NoHoles`, `StringsKept`, `LabelsAgree`, `JumpsLand`, `SymbolsLand`, `RoundTrip` | 11040 sources, command lines and images, through both passes and back |

**Bounds.** Memory of 40 or 46 bytes, of which four or a dozen are tracked, keeps the
layout of the real machine (vectors, system stack, slots, user window, ROM) and
every boundary between its parts; operands in `Data` lie inside, at and beyond
them. `MCCpu_user` confines the program in two ways: to a limit with free memory between
it and the ROM, so that only the MTU bound refuses what lies beyond, and to one that
includes the first byte of the ROM, so that only the ROM check does. The tracked bytes are a
vector, the byte below the window, the one above the first limit and the first of the ROM;
a word access across either edge that is checked by its first byte only changes one of them. The keyboard queue holds two events, with four inputs, so it fills
during a delivery, drops twice and saturates the counter. The run control has
two program counters and a user base under which a user address coincides with
another physical one, a batch of two instructions. The volume has two or three
clusters and at most two directory records, so that directories nest and a
removed one is reused; a head holds one byte and a continuation one (`MCFs`) or two (`MCCard`), so that
every byte or two written allocate, fill and link clusters, and `RADIX` is 2
so that a length of two needs both bytes and a torn one shows. Names
are of two characters, one of them beyond what a directory record holds.
`MaxResets`, `MaxCommands`, `MaxInputs` and `MaxRead` are the bounds on counters.
`MCFs` and `MCCard` explore states that differ only in what the last service returned
once (`MCView`): no action reads it, and the one property about it,
`ImplementsFileTree`, is checked on every step whether or not its end was seen before.
Two resets or power-offs suffice to tear the service that cleans up after, or trips
over, a torn one, and to bring a card from the kernel to the reader and back. The
session has three addresses, one without a volume, seven boot volumes (absent, without
init, with a torn init, and four with a shell beside a second file that is sound with
other grants, torn or damaged) and four programs with different grants; argument
texts have length one and two and the capacity is two, so that one fits and one is
refused, and `BadBuffer` is a path whose buffer the program may not read. The toolchain runs on bounded *inputs*
rather than bounded state: all texts of up to four symbols over quotes, comments,
escapes and ends of line; all conditionals of up to three lines, and those of four
lines inside an `if` and of two inside one that is taken; imports in a line, a diamond, a cycle, through a library and through
an option; every operand form of every family under a label with jumps across it,
with and without a header; all command lines of the option parser; every addressing
byte with an opcode of each family, cut at every length.

**Deadlock.** Checking is off where the system may stop: a killed processor, a
console that was left, a kernel that was shut down. It is on for the filesystem
and the card, where a service or a command can always be called, and for the
toolchain, whose last stages stutter, and whose parser would stop at a statement
that nests deeper than `Depth`: none of the sources does.

**Fairness.** `FairMCSpec` and `FairSpec` assume weak fairness of the processor's
own steps (the worker thread is scheduled), and in `RunControl` of the main
thread's return from `wait()`. Nothing is assumed of the user, the SDL thread or
the guest; `Served` is stated for a guest that is interruptible with a handler
again and again. The filesystem, the session and the toolchain have no liveness
property: their services are finite loops and the interesting part is where they
stop.

**Properties worth a remark.**

* `HandlerSeesContext` relates the slots and the frame at a handler's first
  instruction with the registers the previous instruction left, across up to
  three pending interrupts.
* `ContextSaved` includes the half-finished CALL: when SR does not fit, PC stays
  on the user stack and the saved SP is two higher. (The program of `MCCpu_traps` makes
  no CALL; the theorem is about every program.)
* `ChainsSound` is deliberately weaker than a valid volume. After a reset a
  half-freed chain leaves continuations without a head, and the card reader then
  rejects the card; what must never happen is a file that runs into clusters
  that are free or someone else's. `IdleVolumeValid`, the card reader's test, is
  checked between services of runs without resets.
* `OrphansInert` is about those continuations: nothing reclaims them, and nothing
  may write them, link to them or free them again either, whatever the service
  that runs does to the chain it has in hand.
* `WholeFilesKeepBytes` is why the high byte of a length is written first: torn
  across a carry the length exceeds the capacity and is refused. In the other
  order it would be a shorter length that passes.
* `KernelOpensAccepted` has one exception, `HalfRemoved`; see below.
* `NoneStranded` is why an interrupted `rmdir` moves an entry to the root rather
  than leaving it below a directory that is gone: the upper directory is
  cleared first, and a directory with children is never removed.
* `CursorsFresh` is about the descriptor and the redirection, both of which
  cache the link and the rest of the length of the cluster they stand in.
* `SessionHeld` includes that no launch is half requested while a program runs: a
  failed `run` must not turn the caller's next `exec` into a `run`.
* `ImplementsFileTree` takes callers that never ask for a directory where a file is
  (`Sensible`): the kernel then leaves that file open, which `FileTree` does not promise.
* `ImplementsProcesses` compares the argument length of programs that `run` started.
  What R2 holds after `exec` is not part of the promise; see below.
* `NeverRunsPast` is about system code, whose PC is a physical address.
* `LabelsAgree` excludes two forms for which the passes disagree; see below.
* `RoundTrip` is over every addressing byte, also the invalid ones, which are
  printed as data.

## The proofs

| Theorem | States | Argument |
| --- | --- | --- |
| `CpuProofs!TypeInvariant` | `[]TypeOK` | sixteen-bit arithmetic, one lemma per instruction |
| `CpuProofs!Confined` | `UserConfined` | below, *Confinement* |
| `CpuProofs!ContextAlwaysSaved`, `HandlerAlwaysSeesContext` | `ContextSaved`, `[]HandlerSeesContext` | below, *Context* |
| `KeyboardProofs!TypeCorrect`, `PeekIsStable`, `NothingReordered` | `[]TypeOK`, `[]PeekedInFront`, `[]InOrder` | below, *Keyboard* |
| `KeyboardProofs!KeyboardIsChannel` | `ImplementsChannel` | from the same invariant |
| `RunProofs!TypeCorrect` | `[]TypeOK` | inductive as it stands |
| `RunProofs!BreakpointsHold` | `NeverRunsPast`, of system code | below, *Breakpoints* |
| `FsProofs!TypeCorrect`, `ChainsAlwaysSound` | `[]TypeOK`, `[]ChainsSound` unless programs share the target | below, *Chains* |
| `FsProofs!NothingStranded` | `[]NoneStranded` unless programs share the target | below, *Stranding* |
| `FsProofs!CursorsAlwaysFresh` | `[]CursorsFresh` unless programs share the target | below, *Cursors* |
| `FsValidProofs!VolumeStaysValid` | `[]IdleVolumeValid` unless programs share the target | below, *Valid volumes* |
| `CardProofs!CardTypeCorrect`, `CardChainsSound`, `CardNothingStranded` | `[]TypeOK`, `[]ChainsSound`, `[]NoneStranded`, with the card reader, unless programs share the target | below, *Card* |
| `CardProofs!SessionStaysSound` | `[]SessionSound` unless programs share the target | below, *Card* |
| `CardProofs!ChangesMarked` | `[]NothingUnmarked` | below, *Card* |
| `CardProofs!OrphansStayInert` | `OrphansInert` unless programs share the target | below, *What resets leave* |
| `CardProofs!WholeFilesGrow` | `WholeFilesKeepBytes` unless programs share the target | below, *Torn lengths* |
| `CardProofs!AcceptedIsOpened` | `[]KernelOpensAccepted` unless programs share the target | below, *What resets leave* |
| `SessionProofs!TypeCorrect`, `SessionAlwaysHeld` | `[]TypeOK`, `[]SessionHeld` | below, *Session* |
| `SessionProofs!SessionRunsProcesses` | `ImplementsProcesses` | from the same invariant |
| `ToolchainProofs!ImportsNeverCircular` | `[]ImportChainAcyclic` | below, *Imports* |
| `ToolchainProofs!LabelsMeetTheirCode` | `[]LabelsAgree`, for the programs without its two forms | below, *Layout* |
| `ToolchainProofs!JumpsGoToTheirLabel` | `JumpsLand` for the programs of `LabelsAgree` | below, *Jumps* |
| `ToolchainProofs!SymbolsLeadToTheirCode` | `[]SymbolsLand` for the programs of `LabelsAgree` | below, *Symbols* |

They hold for every value of the constants that satisfies the named assumptions:
`LayoutAssumption` (the parts of memory lie in the order `cpu.hh` gives them),
`RoomAssumption` (a program and its stack fit between the context slots and the ROM), `ProgramAssumption` (every
opcode is one of the two kinds), `KeyboardAssumption` and
`RunAssumption` (sizes are numbers, a key is not 0, a program's addresses lie in the
memory), `FormatAssumption` (a head holds no more than a continuation, a length has
two digits), `LengthAssumption` (a length with its carry in the high byte only is more than a
cluster holds), `ServiceAssumption`, `HostAssumption` (paths are names, contents are bytes), `SessionAssumption` (names and markers differ), `DepthAssumption` (the bound on the
depth of syntax trees is a number), `WordsAssumption` (four literals are strings, which
the provers do not know of any literal) and `SpellingAssumption` (no two labels are spelled
alike, and no spelling is empty or has a zero in it). TLC evaluates each of them in a run.

* **Confinement.** `Harmless(t)` says that a state differs from the current one in
  nothing user code may not touch. Every operator an instruction is built from keeps
  its argument harmless or enters an interrupt; an access is inside the window because
  its logical address was tested against the same bound it is rebased with.
* **Context.** The two theorems suppose that the model tracks the bytes of the system
  stack and of the slots (`SystemArea \subseteq Tracked`, as `MCCpu_traps` does); what is
  not tracked has no value to compare. Every step from user to system mode enters a
  vector from a `Resumable` state and saves the context in the slots and the frame
  (`InterruptSaves`). `BoundaryInv` says that this is the only entry of its boundary,
  because the entry masks I and T before the later sources are looked at, and that
  until the next boundary nothing writes there.
* **Keyboard.** `Safety` adds `InOrder` to the two other invariants: the queue is what
  has been accepted less what has been removed. Input only appends, and all removals
  are the processor thread's own, so the event it peeked stays in front between its
  calls. The refinement maps an event that is being handed over to one that is gone.
* **Breakpoints.** `Licence`: the licence to pass a breakpoint is held, if at all, for
  the address at which the last `start()` found the program. A licence left over from
  an earlier stop would let a run pass an enabled breakpoint.
* **Sharing.** The theorems about the card are for programs that leave the file alone
  that the redirection writes (`~ Shared`). In the code a head and a continuation are two
  layouts of the same bytes: a name, a link and a length in one are payload in the other.
  Through a stale cursor a payload byte can land in the name, the link or the length of a
  cluster that now has the other role, and neither the types nor the chains survive that. The
  model keeps the parts of a cluster apart and does not follow such an access (`InRole`),
  which takes a shared target; the proofs of types, chains and stranding would go through
  without `~ Shared`, and would then say nothing of the code.
* **Chains.** `ChainsSound` is not inductive: between two bytes it rests on what the
  service has prepared. `StepOK` says it: a cluster being prepared is free and ends its
  chain, nothing leads to it until it is linked, and the next cluster to be freed has
  lost the only link to it. `IInv == TypeOK /\ ChainsSound /\ StepOK` is preserved by each
  step that writes a byte, and by a reset because it holds after each of them.
* **Stranding.** `TreeInv` adds two facts to `NoneStranded`: a free directory record
  stands at the root (`BlankAtRoot`), since its name is begun before its upper directory
  is written, and what a running service has prepared (`Prepared`) - the directory it
  makes an entry in exists, the record it clears has no children. That `mkdir` and
  `touch` only enter directories that exist is a fact about `Walk`, a recursive
  function over the path. The library's induction theorems are out of the provers'
  reach, so its values are unfolded by a least-number argument (`WalkExists`,
  `WalkUnfolds`): if a prefix had no walk, there would be a shortest one, and the
  prefix before it has one that extends.
* **Cursors.** The theorem is for programs that leave the target of a redirection alone
  (`~ Shared`); `MCFs_shared` shows what happens otherwise. `CursorInv` gives each cursor a
  set of clusters of its own, closed under links, with the head of its file as the only
  head. The two sets are disjoint: two chains could meet only in a link they share, which
  `ChainsSound` excludes. A write through one cursor is then outside the other's set. The
  chain that `fs_open` validates is a recursive function and is unfolded like `Walk`.
* **Valid volumes.** `HostValid` speaks of complete chains and names; between two bytes
  of a service neither is complete, so `ValidInv` says what holds meanwhile. `Covered`
  replaces the chains: every continuation in use is linked to and the links climb, one
  generation each, to the head that owns it, or to the cluster about to be linked or
  freed. `LengthsFit` leaves out the length whose second byte is missing. `NamesApart`
  leaves out the record that is being named or cleared; `Coming` says that its name is
  still to be had, as the lookups before it found, and that nothing is in it yet. `Nested`
  gives each directory a depth. At rest the chain of a head is what `Covered` gives it: each
  of its clusters is a generation above the one before, so none comes twice, and a chain
  that the bound on its length cuts short would need more clusters than there are
  (`ChainWhole`). The depths become ranks of at most `D` by counting. An abandoned
  service breaks the invariant for good, hence `NoneAbandoned`: it is about `resets = 0`.
* **Card.** The kernel's invariants hold in the composition because a session starts only
  where no service runs, and ends with a card that satisfies them. What a session keeps is
  `Accepted`: what the validation of the tool says, with its complete chains replaced by
  links that climb, one generation each, to a head (`Chained`), and its ranks by depths
  (`Nested`). `HostAccepts` gets it from `HostValid` when an image is loaded;
  `AcceptedValid` gets `HostValid` back, through `ValidInv`. Between the two, every command is one of
  three changes: the clusters of some files are replaced (`ReplacedAccepted`, for `set`,
  `put` and `rm`), a head or a directory record is added (`TouchedAccepted`, `MadeAccepted`),
  a subtree is removed (`DirectoryFreed`). Which clusters `set_content` takes is a matter of counting
  the usable ones below each (`RanksOrder`, `PlacesOrder`). For `rm` of a directory, the walk of
  `AFS::remove` from an entry up to the root has at most `D` steps: a longer one would
  have passed more depths than there are (`UpwardClimbs`). `SoundVolume` keeps the
  image that an abandoned session leaves on the card.
* **What resets leave.** Both theorems are for programs that leave the target of a
  redirection alone, as those of *Cursors*. `Reached` is the least set that contains the
  roots - the heads and the cluster the running service has in hand - and what its clusters
  link to; it is the union of their chains (`ReachedChains`), because a chain that
  `ChainOf` cuts short would need more clusters than there are. Every step of the kernel is
  one of four changes of roots and links (`KernelStep`): none, a cluster put to use, the
  prepared one tied to the last of a file, the first of what is left of a file freed. None
  makes a cluster reached that was in use and was not. `FileInv` puts the cursors in
  reached files, so that nothing else is written (`OrphansStay`). For
  `KernelOpensAccepted` the owners are added: a cluster and the one it links to are in the
  same directory, except past a head, or what a removal has left, that was given to the root (`Agree`), and an open file is in the
  directory its cursor says (`OwnersInv`). The commands of a session keep `Agree` in the
  copy, and `ImageAgrees` keeps it in the image that an abandoned session leaves.
* **Torn lengths.** `TornLow` says that between its two bytes a length still has the low
  byte of the old one; the high one is already that of the new one. So either the high
  byte stays and the length grows by one with the low one, or there is a carry, and then the torn
  length is at least `2 * RADIX - 1`, more than any cluster holds: the file is not whole
  (`LengthsGrow`). A step never writes the link of a cluster that has one (`NextStays`), so
  that the chain of a file is the beginning of what it is after the step (`ChainsExtend`). The bytes of a file are
  read along its chain by a recursive function; unfolded, it makes the size of the file the sum of
  the lengths on the chain (`FilesCounting`), and the sums are compared term by term (`SumsGrow`).
* **Session.** `SessionHeld` needs `Grounded`: the words are fresh whenever the kernel
  starts, and a program only runs on a machine with its boot volume and the volume of
  its session attached. Every launch ends in one of two ways (`LaunchOrFails`): the program of the
  path starts, or the words come back with at most the staged permissions and the
  pending request changed. The refinement is proved action by action from these two.
* **Imports.** `StackInv` says what each nested parser knows (`Knows`): the canonical path of its own file
  and of every file below it in the stack. A file is read only if its path is not among
  them, and a directive rewrites the tokens of the top frame and nothing it knows.
  That the files are then different (`Apart`) needs every path searched to be canonical;
  without it a file has two paths, and the code compares paths.
* **Layout.** `LayoutInv` says, with a sequence of sums, where the first pass puts each
  item of the program: `sums[j + 1]` is `sums[j]` and the size the pass predicted for
  the `j`-th, a label has the sum of the item it precedes, and the current address is the last sum. In
  the second pass the code emitted has exactly the length of the sum it has come to
  (`AtItem`), so that a prediction that differs from the bytes dumped would show at
  the next item. Every statement the analyzer handles has a lemma that
  it appends items, sizes and labels consistently, and every way an item is dumped
  one that its bytes are as many as predicted. Evaluation, the walk over a
  structure's fields and the search for a label are recursive functions over trees
  of bounded depth; they are unfolded by a least-number argument, as the paths of the
  filesystem are.
* **Jumps.** From `LayoutInv`, the second pass is at the address `pos` when it emits a jump,
  and the byte it writes is the label's address less that of the end of the
  instruction, refused unless it fits a signed byte.
* **Symbols.** The assembler gathers the public labels, adds up the size of the table and
  writes its entries in three recursive functions, which are unfolded (`PublicUnfolds`,
  `TotalsUnfold`, `BytesUnfold`); each entry then begins where the ones before it end,
  and the last ends at the size in the header (`TableListed`). A word that is too big is refused, so that
  what is written is read back (`WordsBack`). The disassembler's loop is unfolded from the
  last byte of the table back: from where an entry begins, it finds the end of the name at the first zero,
  which no spelling contains, and takes the word four bytes on (`SymbolRead`); no two entries have one
  name, so none hides another (`Behind`). The theorem is for the programs of `LabelsAgree`,
  in which `LayoutInv` makes every address of a label a number. In the others one
  would have to know that the parser gives a structure its fields; TLC checks
  `SymbolsLand` for them too.

Only model-checked are: liveness (`ResetServed`, `Served`, `JoinReturns`,
`StartedRuns`), because the prover does not treat `ENABLED`; the refinements of `FileTree` and of
`HostTree`, where a step must be matched with what the whole tree of files becomes, bytes included;
and, of the toolchain, `TypeOK`, `TakenBranch`, `IncludedInPlace`, `NoHoles`, `StringsKept` and
`RoundTrip`: they say what the scanner, the parser or the disassembler compute
for an input, which is an induction over the input for each of some fifty rules.

## Where code and documents disagree

Four runs end in a counterexample to a sentence of the documentation.

* **A timer expiry is lost** (`MCCpu_timer`). When the timer expires at the boundary
  at which the reset pin or a key is served, T has just been masked, and
  `update_timer` clears `timer_running` all the same (`emulator/src/cpu.cc:353`).
  `doc/IMPLEMENTATION.md:18`: "Expiry invokes vector `0x0008` when T is enabled."
* **Continuing does not execute the instruction** (`MCRun_continue`). The first
  instruction of a handler that is entered at this boundary spends the licence
  (`cpu.cc:412`); after its return the breakpoint hits again. `doc/DEBUGGER.md:41`:
  "Continuing from a hit executes that instruction once".
* **Redirected output damages files** (`MCFs_shared`). `print` writes through a copy of
  the cursor that nothing refreshes (`os/kernel/syscall_console.anc216:53`). In the trace
  the target is empty when it is opened; two bytes are written through the descriptor, and a
  printed one sets the length to one, because the copy still says that nothing is there.
  After a removal the cluster belongs to whoever took it. `os/SYSCALLS.md:57`: "Writes
  overwrite from the current cursor and grow the file at EOF".
* **User code runs past a breakpoint** (`MCRun_physical`). The debugger's addresses are
  physical (`doc/DEBUGGER.md:67`: "For user code, add the MTU IMEM base"), and the worker
  compares them with PC, which in user mode is an offset from that base (`cpu.cc:395`). The
  instruction at the address is executed, and one at the offset of that value is stopped at.

The promises of the next four are those of the documents, or leave the point open, and
the runs pass because of what is said with each.

* **`mkdir` of a file's name leaves that file open** (`MCFs`). It refuses the name, and the
  descriptor stands at the start of the file (`os/kernel/fs_namespace.anc216:272`).
  `os/SYSCALLS.md:77`: "namespace mutations close the current file descriptor". `FileTree`
  closes it; the callers of `MCFs` do not make this call, those of `MCCard` do.
* **Touched files can be extended** (`MCFs`). `os/SYSCALLS.md:83`: "Writes still cannot
  extend an empty file created with `touch`". Line 57 says that writes grow the file at its
  end, and so does the kernel; `FileTree` follows line 57.
* **`exec` hands over a length** (`MCSession`). A program it starts finds the argument length
  of the last `run` in R2 (`os/kernel/loader.anc216:205`), although "Only run(1a) requests an
  argument handoff" (line 179). In `Processes` its length is 0, and `TheProcess` takes R2 for
  a length only if `run` started the program.
* **A failed launch costs the caller its file** (`MCSession`). A rejected `exec` leaves the
  rejected file open in its place, and a failed `run` mounts two volumes and leaves none
  (`os/kernel/syscall_session.anc216:96`). `os/SYSCALLS.md:92`: "Failed launches return the
  ordinary error and preserve the caller". In `Processes` the caller goes on, without its file:
  "opening replaces it" (line 57).

Met while reading, with no run of their own:

* Processor. `REQ` is not privileged (`common/encoding.hh:210`), against
  `doc/IMPLEMENTATION.md:16`. PC, BP and SP are logical in user mode as
  `doc/ANC216_DIFFERENCES.md:29` says, not physical as `doc/IMPLEMENTATION.md:12` does.
* Debugger. `next` over a call passes the logical address after it to `run_until`
  (`debug.cc:481`), which subtracts the base again (`cpu.cc:900`): in user mode it does
  not stop after the call.
* Filesystem. Removing a missing
  name with an extension reports "invalid" and not "not found". A reset inside `mkdir` or `rmdir`
  can leave its record in the root. The carry test of the chain length
  (`fs_chain.anc216:122`) cannot be reached: the count of clusters bounds it first.
* Card. A reset in the removal of a file of several clusters, after the owner of its
  head was cleared and before its type (`HalfRemoved`), leaves a file in the root whose
  continuations belong to its old directory. The tool accepts it; the kernel refuses it as
  corrupt and so cannot remove it. A file with a torn length can neither be opened nor
  removed. A reset may leave a card the tool refuses as a whole (orphans, a torn length,
  a half-written name that equals another). The tool makes names the
  kernel cannot address: directories with dots, bases with dots, bytes from 127.
* Loader. The session's directory may be one that was removed.
  Every key that interrupts the idle loop inside its return stub leaves two bytes more
  on the stack, bounded by the 64 events of the queue.
* Assembler. `-i path` is looked at again and becomes the source file
  (`assembler/src/main.cc:211-243`, against its usage text at 330). After an
  empty array or structure the labels are off by the bytes that are counted and not
  emitted, or emitted and not counted (`analyzer.hh:221-227`); `LabelsAgree` is stated for the
  programs without one. With a `--stdlib` path that is not canonical a file can be
  imported inside itself once. `'c'` constants and escapes resume the scanner one
  character off. `store x , r0` and `load & 5,` crash. `push g - 1` emits its placeholder.
  A relative jump whose target is not a label is truncated silently. A comment after
  the string `"\\"` is stripped from the wrong place. `load r0, -x` reads `x` as a variable,
  `read * l0, r1` drops `r1`. An imported file without a last end of line glues its last
  line to the next one, and a file imported on two ways is included twice.

## What is not modelled

* The values R0..R7, memory outside the tracked bytes, and the arithmetic flags: an
  instruction may produce any value of `Data`. Arithmetic itself is a sequential
  function that the unit tests reach.
* The text display, the video window, terminal editing and host I/O. They are pictures
  and device drivers; the display is a sequential function of the bytes sent.
* The window of the paged device: its address register, lazily allocated pages and the
  ROMs. One processor writes through one window, so a read gives what was last written.
* In the kernel: the results of `fs_stat` and `fs_list` (they change only the
  descriptor), the line editor of `getl`, the frames that system calls keep on the stacks, the
  panic screens.
* In the tool: boot bytes, `ls`, `find`, `du`, help and `--format`. That the tool and the
  emulator run on one image at once: nothing in the code handles it, the later save wins.
* In the assembler: how words are spelled and numbers written, the wording of errors,
  warnings and hints of similar names.
* User programs and libraries: the models let a program make any call at any time, which includes theirs.
  The LLVM backend: code generation inside a foreign framework.

## The plan

In the order of what each would add:

1. `KernelTrap`: the frames of system calls and of the return stub, on the stacks of
   `Cpu`, to connect `Session` with the processor.
2. `Avc64` and the window of the paged device as modules of their own.
