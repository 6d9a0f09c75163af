# Ceres VM in TLA+

Ceres VM is a fantasy computer in C++: a 32-bit CPU interpreted an instruction at a time
(`libs/vm`), the devices around it (`libs/devices`), the driver that runs a machine in real time
under a window, a terminal or a debugger (`libs/driver`, `libs/sdl`, `libs/debug`), and the
assembler and linker of its programs (`libs/core`, `libs/asm`). Paths below are relative to
`src/Ceres/` unless they start with `src/`.

This directory holds TLA+ models of the parts whose correctness depends on an order of events:
TLC checks them on small instances, and TLAPS proves the most important properties for every
value of the constants. `PROJECT.json` maps every definition that models code to the lines it
models; this file says how to read the whole.

    tlc -workers 2 -config Engine.cfg MCExecutionEngine      # a run: table below
    tlapm ExecutionEngineProofs.tla                          # a proof module

## 1. The system

### 1.1 Components

| component | where | state | operations |
|---|---|---|---|
| Execution engine | `libs/vm/.../execution_engine.{h,cpp}` | registers, pc, flags, sp, interrupt depth and the saved sp, interrupt shadow, cycles, the raise count it last consumed | `step`, `haltedStep`, `triggerInterrupt`, `leaveInterrupt`, `reset`, one handler per opcode |
| Interrupt controller | `libs/vm/.../interrupt_controller.{h,cpp}` | pending mask, raise and poke counts, sleepers, a mutex and condition variable or an event | `raise`, `poke`, `takePending`, `waitForRaise`, `clearAll` |
| Scheduler | `libs/vm/.../scheduler.{h,cpp}` | at most 64 (device, tag, cycle) events and the cached earliest cycle | `schedule`, `cancel`, `cancelAll`, `service` |
| MMU and TLB | `libs/vm/.../mmu.h` | PTBR, the TLB and its round-robin victim, the fault address | `translate`, `invalidate`, `invalidateAll`, `setPtbr`, `reset` |
| Memory, VRAM, MMIO bus | `libs/vm/.../memory.h`, `vram.h`, `mmio_bus.h` | bytes; the devices by page | `read`, `write`, `reset` |
| Machine lifecycle | `libs/vm/.../ceresvm.{h,cpp}`, `bios.h` | the power (the stop signal), the reset request, the program and the pending program, each with its arguments | `run`, `shutdown`, `requestReset`, `requestLoad`, `restartIfRequested`, `loadProgram` |
| Timer, DMA, system control, debug log | `libs/devices/src/system/` | a countdown, an alarm with a two-word register; a pending transfer; the exit status | register accesses, `onEvent`, `reset` |
| Keyboard, mouse, gamepad | `libs/devices/src/input/` | key state, a ring of 64 events | `inject`, register reads |
| Terminal | `libs/devices/src/terminal/` | input buffer, line discipline with its history, screen, scrollback | characters in and out, register accesses |
| Storage | `libs/devices/src/storage/` | a disk image, a command in progress; open host files | commands, `onEvent` |
| GPU, copy engine, blitter | `libs/devices/src/video/` | mode, planes, the line scanned up to; busy commands | register accesses, vblank and line events |
| Audio | `libs/devices/src/audio/` | voices, a ring of samples | register accesses, pulls by the host |
| Runner, pacer | `libs/driver/src/machine_runner.cpp`, `pacer.cpp` | whether the shell runs, the session kept over a restart, the frame's real time | slices of 1 ms, restart, back to the shell, quit |
| Input hub, recordings | `libs/driver/src/input_journal.cpp` | posted events, the journal | `post`, `apply`, `inject` |
| Debug session, history | `libs/debug/src/debug_session.cpp`, `history.cpp` | breakpoints and a watch, the reconstructed call stack, snapshots of the machine, the input recorded since | step, continue, step back, run to a tick |
| Debug server | `libs/debug/src/debug_server.cpp` | a queue of requests between a reading thread and the main one | an editor's requests, `pause`, the end |
| Assembler | `libs/asm/src/translation_unit.cpp`, `symbol_table.cpp`, `linker.cpp`, `binary_emitter.cpp`, `instruction_info.cpp` | units with their names and imports, the layout, the addresses | statements to a program or an object |
| Object linker, formats | `libs/asm/src/object_linker.cpp`, `object_file.cpp`, `libs/core/src/format/` | what is reached, where it goes; files of bytes | objects and archives to a program; debug tables merged |
| Front ends | `libs/driver/src/driver.cpp`, `libs/sdl/`, `debug_cli.cpp`, `src/editors/` | | command lines, windows, text and JSON |

### 1.2 How they interact

* **Calls.** The driver calls `step()` (through `run()` or its own loop). A step services due
  events, polls the interrupt controller, and executes one instruction, whose loads and stores of
  device registers call the devices on the same thread. Devices call the scheduler to be called
  back at a cycle and the interrupt controller to raise. The system control device calls
  `shutdown`, `requestReset` and, through the driver's callback, `requestLoad`.
* **Shared state between threads.** In the machine: the interrupt controller (any thread may raise
  or poke, the machine's thread polls and sleeps) and two atomics, the power and the reset request.
  In the devices: the events of the storage ports, queued under a lock by the host's thread, and the
  sound, which the host's audio thread plays while the machine's commands it. Around them: input is
  posted under a lock and applied by the machine's thread between slices, and the debug server's
  requests go from its reading thread to the main one through a queue.
* **Time.** The machine's clock is the number of cycles executed. A halted machine jumps to the
  next event, or sleeps in `waitForRaise` when there is none.
* **Restart.** Nothing is persisted; a reset or a load rebuilds the machine in place, piece by
  piece, on the thread of the step loop.

### 1.3 What is hard, and what makes each part correct

* **Dispatch and return.** Handlers run on a system stack at the top of memory; the switch there
  and back happens once per nest of interrupts. The program must get its stack pointer back
  whatever handlers, faults inside handlers and exhausted stacks do in between, and no frame may be
  overwritten. Properties: `StackSeparation`, `FramesIntact`, `IretResumes`; theorems:
  `StackPointerComesBack`, `StoppedStaysStopped`.
* **Halt and wake.** A `HALT` that follows a look at a device must not sleep through a request
  raised in between; the machine counts raises and remembers the count it last consumed. The sleep
  is a lock-free handshake with whatever thread raises. Properties: `NoRaiseLost`,
  `StiHoldsOneInstruction`, `RaiseEndsHalt`, `NoLostWake`, and the refinement `WakeUpSpec`.
* **Events.** The CPU looks only at a cached number; every device keeps its deadline twice, in
  itself and in the table. Instants in nanoseconds are turned into cycles and back, rounding.
  Properties: `ClockIsKept`, `TimersAreExact`, `ServiceEnds`.
* **Translation.** The TLB may be stale by design; what it must never be is another page's, another
  address space's, or older than the page's last flush. Property: `AnswersFromTables`.
* **Restartable instructions.** A block instruction goes a chunk at a time, may be interrupted between
  two and may fault in any; a 64-bit access may fault in its second half. Properties:
  `AccessesAreSound`, `FaultsLeaveNoTrace`.
* **Arithmetic.** Carries through chains of words, shifts by everything, signs of divisions, unordered
  floats: whether two ways the instruction set offers to one number agree. Property:
  `ArithmeticAgrees`.
* **Restart.** A reset, a load and a shutdown, from the program and from another thread, cross at
  every atomic access. Properties: `RestartIsSound`, `RunGoesOn`.
* **The shell.** `ceres run --shell` goes back to the shell when a program ends, with its status and
  environment, and keeps the terminal's session across. Properties: `ShellResumes`,
  `RunEndsWithShell`, `RunGoesOn`.
* **Input.** The host posts while the injection has the mutex free; text is cut where the terminal
  is full; a recording injects by cycle what the recorded run injected by the host's time.
  Properties: `InputIsKept`, `ReplayIsTheRun`, `InputGoesIn`.
* **Time travel.** A snapshot, the call stack kept with it and a replay of the input must give back
  the machine that was; a search backwards must find the last breakpoint. The call stack is inferred
  from the instructions that go past. Properties: `RewindIsExact`, `ReverseFindsTheLast`,
  `SessionIsTrue`.
* **The debug server.** Two threads, a queue, and two mutexes; one thread outlives the other.
  Property: `ServerListens`.
* **The assembler.** Two layouts with relaxation between them, and an emitter that computes padding by
  itself; one name with five possible meanings. Properties: `LayoutIsSound`, `OneMeaning`.
* **Encoding and linking.** A displacement that fits is decided by the assembler and again by the
  linker; code nothing reaches is left out; tables are merged and renumbered; files end early.
  Properties: `EncodingIsFaithful`, `LinkIsSound`, `FilesAreWhole`, `TablesAgree`.
* **The screen.** The scan is caught up lazily, when a register is written; flips wait for the blank;
  planes and sprites are put over each other by priority. Properties: `BeamIsFollowed`,
  `PictureIsAsOrdered`, `BlitIsAsAsked`.
* **The terminal's output.** Echo and two streams share one cursor; rows scroll into a ring.
  Property: `TerminalKeepsTheSession`.
* **Storage.** The host may refuse a write at any flush, media come and go, several of them under one
  pending interrupt, a reset clears the interrupt and keeps the queue, and a write to a host file may
  fail when part of it is done. Properties:
  `MediaKeepWhatIsWritten`, `EventsAreSeen`, `HostFilesAreSafe`.
* **Sound.** Two threads, two locks, and a host that waits for its callback. Property: `SoundGoesOn`.

## 2. The modules

| module | models | kind |
|---|---|---|
| `ExecutionEngine` | `step()`, dispatch, IRET, HALT, every instruction that moves sp | machine, one action per instruction or phase of the step |
| `ExecutionEngineProofs` | | nine theorems |
| `WakeUp` | what the interrupt controller promises | abstract specification |
| `InterruptController` | `raise`, `poke`, `waitForRaise`, the engine's use of them | one action per atomic operation |
| `InterruptControllerProofs` | | four theorems |
| `Scheduler` | the event table | operators on a table |
| `DeviceClock` | the scheduler driven by timer, DMA and copy engine, and by the CPU's clock | one action per event, register write or kind of step |
| `DeviceClockProofs` | | three theorems, and the lemmas on the table and on instants |
| `CeresVM` | the machine's lifecycle | one action per atomic access |
| `MachineRunner` | the driver's loop; EXTENDS `CeresVM` and conjoins the driver's variables to its actions | composition |
| `LifecycleProofs` | `CeresVM` and `MachineRunner` | seven theorems |
| `Mmu` | the MMU, the TLB and the program that edits the tables | one action per access, store or instruction |
| `InputHub` | the input hub, the terminal's input and the loop that feeds one to the other, recorded and replayed | one action per step of the runner that another thread can come between |
| `InputHubProofs` | | four theorems, the lemmas on what keeps sequences of keystrokes in order, and those on the way a recorded run and its replay share |
| `Floats` | the host's floating point in a small format | operators |
| `Alu` | the instructions that compute, on words, pairs, floats and doubles | one action per instruction of a program |
| `MemoryAccess` | loads, stores and block instructions, from the virtual address to the byte | one action per access or chunk, and the kernel |
| `MemoryProofs` | `Mmu` and `MemoryAccess` | eight theorems, and the lemmas on addresses, runs of bytes and faults |
| `DebugSession` | the debug session with breakpoints, call stack, history and going back | one action per instruction of the machine under it and per decision |
| `DebugServer` | the server's two threads; EXTENDS `DebugSession` | composition, one action per step of a thread |
| `DebugServerProofs` | `DebugServer` | nine theorems, and the lemmas on the machine's step, snapshots and frames |
| `Assembler` | units, names, layout, relaxation and what the emitter places | one action per statement or pass |
| `InstructionTable` | every row of the table of instructions | operators |
| `Encoding` | the words of a statement, their relocations, and a machine that runs them | one action per word |
| `ObjectLinker` | the link of objects and archives, with the removal of unused code | one action per input, piece or pass |
| `BinaryFormats` | programs, objects, archives and debug sections as bytes | operators, and a file cut short |
| `DebugTables` | the tables of lines and symbols, built, merged and asked | one action per unit merged |
| `Storage` | the disk, the ports and their media, the event queue | one action per command, per act of the host's thread |
| `HostFs` | the host file device | one action per command |
| `VideoScan` | the frame, the lines and their table, the line interrupt, the bitmap's flips | one action per instruction and event |
| `Scanout` | what a frame is composed of | operators, a line at a time |
| `Blitter` | the 2D blitter's operations | one action per command |
| `TerminalScreen` | the line editor, the output parser, the grid and the scrollback | one action per key and per byte |
| `Audio` | the tone, the channels, their envelopes and both locks | one action per step of a thread |
| `DevicesProofs` | `Storage`, `Audio`, `HostFs` and `VideoScan` | five theorems |
| `MC...` | the values of the constants for TLC, and the compositions that are checked | |

Mutants are plausible bugs of the code, written next to what they mutate (`...Mutant`): each
property of a passing run fails when the definition named in `PROJECT.json` is replaced by its
mutant. They are not part of the specification.

### 2.1 ExecutionEngine

The variable `cpu` is a record of the engine's fields: `pc`, `flags` (the set of `Interrupt` and
`Halting` that are set), `sp`, `limit` (`StackLimit`), `depth` (`_interruptDepth`), `saved`
(the program's sp), `shadow` (`_interruptShadow`), `stopped` (`_stoppedForGood`), `faulted`
(`_faulted`), and the words of the system stack at and above sp. `pending` and `raises` are the
controller's, `consumed` is `_raisesConsumed`. `ctx` and `own` are history: the contexts that the
dispatches interrupted, which the machine has only as words on its stack.

A step is cut where another thread can come between, by `phase`: `poll` (the shadow is spent and the
raise count read), `deliver` (the lowest pending request is taken), `wake`, and `run` (one
instruction) or `halted` (the sleep). An instruction is one action; the interleaving with `Raise`
happens between phases. What text holds is left open: at every step every instruction is possible,
so the runs quantify over all programs of the bounded size. Instructions that touch neither the
stack, the flags nor an interrupt are `Jump` to the next address.

Addresses are counted in words, and sub-word layout, registers and the words of the program's own
stack are abstracted: a word popped from there may hold anything, as a program may write anything
there. The word of a frame remembers what it was written as, so that a frame read back in the wrong
order is seen.

`Balanced` restricts handlers to popping what they pushed before `IRET`; with `Balanced = FALSE` a
handler may pop its own frame. `UnmappedStack` allows a push of the program to page-fault, and
`UnbackedCompare` the double fault of `MCMP`. They are constants so that each property can say under
which of these it holds.

### 2.2 InterruptController and WakeUp

`at[c]` is where thread c is in `raise()`, `poke()` and `wakeSleepers()`; `pc` is where the
machine's thread is in `step()` and `waitForRaise()`. The operations on the counts are
`memory_order_seq_cst` in the code and the mask is published before the count, so interleaving is
the right memory model for them. The variable `windows` chooses, at the start, between the condition
variable with its mutex and the auto-reset event with a waitable timer. A condition variable may
wake for nothing and Windows' timer early: `WakesUnasked`. The deadline may pass at any point of a
wait or never.

`WakeUp` is the promise: an event count. `InterruptController` implements it under the mapping
`waiting <- pc \in {"test", "block", "asleep", "relock"}`; the fairness of `WakeUp` says that a wait
that was raised or poked ends without its deadline.

### 2.3 Scheduler and DeviceClock

`Scheduler` has the table as a record of a sequence and the cached next cycle; `SwapRemove` keeps the
order the code's swap-with-last leaves, because the order breaks ties. `DeviceClock` puts on it the
countdown (one-shot and periodic), the alarm with its latched low word, one DMA transfer and the copy
engine; the engine's cycle counter, `service()` one event at a time, and the jump of a halted machine
to the next event. `rate` is the clock's frequency and the number of nanoseconds in a second, both
small; a word holds `Word` values, so that the two-word instant has its carries. `Never` is
`NoScheduledEvent`, reached by instants past the counter.

### 2.4 CeresVM and MachineRunner

`at` is where the thread of `run()` is. Every load, store and exchange of `_isPoweredOn` and
`_resetRequested` is an action, and another thread calls `requestReset()` and `shutdown()` between
any two. `image`, `vectors`, `pending` and `devicesFresh` stand for what `restartIfRequested()`
rebuilds: memory, the vectors of the null page, the controller and the devices. `Fits` is `check()`.

`MachineRunner` replaces `run()` by the loop of `machine_runner.cpp`: its `Loop` actions go through
the same `Restart` actions, and its `Slice` actions are `CeresVM`'s steps with what they do to the
exit status, the terminal and `runningShell`.

### 2.5 Mmu

`directory` and `leaf` are the tables in memory, which `StoreLeaf` and `StoreDirectory` change behind
the MMU's back; `tlb`, `victim`, `ptbr` and `fault` are its fields. A virtual page is a pair of
indices. `seen[v]` is history: everything the tables said of v since v was last flushed (by `INVLPG`,
`FLPG`, `MTP`, a reset, or a walk that found nothing). `restored` is history: cached pages whose leaf
was stored to since they were cached.

### 2.6 InputHub

`box` is the machine with its terminal: a program of a few operations of one cycle each, a timer, the
halted flag, whether anything was raised since the last wake (`raised` stands for `raiseCount()`
differing from `_raisesConsumed`, which `ExecutionEngine` has in full), and `ring`, `line` and `ahead`
for `_input`, the discipline's `_line` and `_typeahead`. `saw` is history: what each read of the
program gave, and at which cycle. `queue`, `scripted`, `log` and `next` are the hub's; `inhand` is the
event `inject()` holds while it has released the mutex, when the host may post. A run is recorded
(`pc` from `top` to `ended`), then the same program is run on the recording (`StartReplay`), with other
pacing, and compared with `original`.

A keystroke is a character or an Enter and one byte long, so that a cut never splits a character.
`post()` is documented as callable from any thread, and the model posts at any moment, though every
caller of the driver is on the runner's thread today. `TerminalBytes` is posted by nobody and is left
out. The operation `restart` stands for a load: what follows it is the program that replaces the first.

### 2.7 Alu, Floats and MemoryAccess

`Alu` runs short programs of its instructions on words of `Width` bits: what each leaves in its
destination and in the four flags, division by zero with its two switches, pairs, conversions. It is
checked by programs that reach one number in two ways (`MCInstructions`), because a second definition
of an addition would only repeat the first: `ABS` against shifts, a 64-bit sum against two with carry,
a division against its product and remainder, a comparison against the jumps that read it. `Floats`
is IEEE 754 with a single exponent: signed zeros, subnormals, infinities, NaN and one rounding.

`MemoryAccess` follows an access through alignment, the program's own text, the page tables and what
lies behind: RAM, the VRAM with its gate and its page marks, a device register, nothing. `job` is the
instruction with the registers it keeps its progress in; between two chunks of a block instruction the
kernel (`Steal`) takes pages away, and a fault brings them back. In the runs a page is a word, so that
every 64-bit access crosses two. `AccessesAreSound` is `BlockIsByteLoop` and `UnmarkedIsUntouched`. What
the jobs and the maps may be is assumed by name (`JobsAssumption`, `MapsAssumption`): registers that are
addresses hold addresses, a store has as many bytes as it says, and a map keeps a program's pages in the
machine's memory.

### 2.8 DebugSession and DebugServer

`mach` is what the session can tell of the machine: the count of instructions (the tick), the clock
with one device event, pc, both stacks, what was read of the keyboard. Each step of the session's
loops is an action (`cmd` is the loop it is in): the look at breakpoints with their conditions,
counts and log messages, the instruction, what the step says of the call stack, and the history's
snapshot. `snaps` and `stacks` are the snapshots and the call stacks kept with them, `typed` the
recorded input. `past` is history: the machine and its frames at each tick the first time.
`faithful` is history: false once something the history does not promise to bring back was done.

`DebugServer` puts the server around it: the pipe, the reading thread, the queue with its mutex and
condition variable, `readerControl`, and the main thread, one action per lock, wait and notification.
The client is an editor that waits for its answers but for `pause`, `disconnect` and closing the pipe.

### 2.9 The toolchain

`Assembler` builds units statement by statement (an import builds another in the middle), lays them
out, resolves every operand, relaxes, puts the operands back, lays out again and emits. Bytes are
counted; an emitted item records where it went and which address it encodes. Parsing is left out:
statements are records. `InstructionTable` has all rows of `instruction_info.cpp`, written as families
that share their words. `Encoding` makes the words of a statement, with relocations for an object,
reads them back as the disassembler does, and runs pseudo instructions on a small machine.
`ObjectLinker` selects members of archives, marks the pieces of code something reaches, sweeps, places,
names and patches. `BinaryFormats` is bytes; each file is loaded whole and cut at every length.
`DebugTables` builds each unit's tables, merges them and asks them both ways.

### 2.10 The devices

Each of these keeps to itself, so that `MCDevices` lets one work at a time.

`Storage` has the disk's image with its dirty flag and the host's refusals of a write, and the ports
with the host's thread, which queues an event and raises the interrupt in two steps. A handler reads
as many events as it likes before it returns, and a reset of the machine clears the interrupt and keeps
the queue (`MachineReset`); `lastRead` and `passedOver` are history. `HostFs` is a directory with its
files, two names of which may have open handles on one inode. The host may refuse an open, fail a read,
and take any part of a write; the stream then holds the bytes (`held`) and writes them when it is next
used or closed. A reset closes the open files one after another (`closing`).
`VideoScan` keeps the stretches of lines that share their registers, as the code does, and composes at
the blank; `ideal` is history: a display that looks at the registers at the start of every line.
`look` stands for every register the scanout reads, and what lies behind it is `Scanout`: the
background, the bitmap, tile layers, affine layer and sprites by priority, palette banks, the text and
the limit of sprites. `Blitter` is one operation on memory, row by row, with its refusals; its clamp of
widths and heights to 4096 and its checks of formats are left out, and no property depends on them.
`TerminalScreen` has the editor of lines with its history, a parser for each stream, the grid, and the
scrollback ring; bytes stand for themselves. `Audio` has the device and the host's audio thread, an
action per lock taken, with `closing` for the host that leaves while a callback is in flight.

### 2.11 The compositions that are checked

`MachineRunner` and `DebugServer` compose by extension, and conjoin to the inner actions what the outer
layer does. The modules a run checks side by side (`MCWaits`, `MCProcessor`, `MCTools`, `MCDevices`)
do not interact in the code through anything modelled: a behaviour is of one of them, a variable says
which, and the others stand still. `MCLifecycle` is different: `CeresVM`'s `run()` with another thread,
or `MachineRunner`'s loop around the same machine, by who owns the step loop.

A property of a run that gathers several facts about one hazard is a conjunction of named parts (for
example `RestartIsSound == AcceptedLoadRuns /\ RestartIsClean /\ LoneResetKeepsRunning`), each with
its own comment in its module.

## 3. The runs

All passing runs are exhaustive. Times are with two workers.

| run | module | shows | states | time |
|---|---|---|---|---|
| `Engine` | `MCExecutionEngine` | any program with balanced handlers: stacks apart, frames intact, returns exact | 518 k | 20 s |
| `EngineWake` | `MCExecutionEngine` | raises at every point of `step()`, unbalanced handlers, page-faulting pushes and double faults: no raise lost, a halt ends, STI holds one instruction | 871 k | 1 min |
| `Waits` | `MCWaits` | two threads raise and poke against both implementations of the sleep: no lost wake-up, and the refinement of `WakeUp`; every order of arming, moving, disarming and restarting timers, a transfer and a copy, at two clock rates | 321 k | 1.5 min |
| `Input` | `MCInputHub` | four programs typed at in every order and at every moment, then replayed | 569 k | 2.5 min |
| `Lifecycle` | `MCLifecycle` | resets, loads and shutdowns cross at every atomic access of `run()`; ends, faults, resets and loads in every order under the driver, with a shell that may not fit | 453 k | 2 min |
| `Processor` | `MCProcessor` | two ways to each number over all words and small floats; loads, stores and blocks under page tables a kernel takes pages from; accesses, stores to tables and flushes against a TLB | 1,327 k | 1.5 min |
| `Tools` | `MCTools` | small programs assembled, every row of the table encoded, objects and archives linked, files cut short, tables merged; an editor's requests in every order to a debugger | 1,331 k | 2 min |
| `Devices` | `MCDevices` | media that come and go and hosts that refuse, host files, the scan and the composed frame, the terminal's screen, the blitter, the sound with its thread | 546 k | 2 min |
| `EngineUnmapped`, `StopDuringReset`, `ToolchainCollect`, `AudioReplaced` | | one finding each (section 6) | | |

### 3.1 Bounds, and why they are enough

* `Engine`: a system stack of four words, the frames of two dispatches, with pushes of up to two
  words, so that a dispatch fits exactly or is refused with one or two words missing, and a push
  overflows by one or by two; two addresses of text, so that a wrong pc is told from the right one;
  two program stack limits, one below the image's end, which the code clamps. `EngineWake` has room
  for one dispatch, so that every second one stops the machine for good; devices raise three times,
  one more than the two that a dispatch and a wake-up can consume, and one number has no handler.
* `Waits`: two callers, because a wake-up can be lost only between a caller and the machine, and the
  second caller can hold the mutex or have its own notification on the way; two raises and one poke.
  The clock: 3 cycles in 2 ns rounds one way and 2 cycles in 5 ns the other; it stops at cycle 6, after
  full periods of every countdown, and `Never` is 12, within reach of an alarm.
* `Input`: three keystrokes, each text or key, character or Enter, on a ring of two bytes and a line of
  one, so that text is cut, a line overflows and a key finds the ring full; slices of two cycles and a
  timer of three, so that events fall inside and between slices; programs that poll, that sleep, that
  turn to raw keys with a line unfinished, and that are replaced.
* `Lifecycle`: two calls of the program and one of another thread, each two stores, so that a call
  straddles a restart; two shutdowns or ends; two programs and the shell, of which one does not fit with
  one of two sets of arguments: enough to leave the shell, fail to come back, and come back.
* `Processor`: words of four bits, where a byte is one bit, so that all pairs of operands of each way are
  tried; a float format whose numbers can all be paired. Seven pages of a word, so that two
  blocks overlap from either side, end in the text, in VRAM, at a device or nowhere, with two thefts of a
  page: one before and one after a chunk. Two address spaces over two tables, two pages and a TLB of
  two: the second page fills it and a third walk evicts; one store to a table behind its back.
* `Tools`: main file and two it may import, so that an import can be of an import and two modules can
  export one name; loads within and beyond a reach of 20 bytes, so that shortening one brings another
  near; numbers, displacements and distances at both ends of each field, and one beyond (for the
  distances of a jump, in bytes: -8388612, -8388608, 8388604, and then 8388608, 16777212 and 16777216,
  because what the field takes as positive goes on to 16 MiB); links of three objects with an archive whose member needs another; every length of each file; tables of two units
  that share a file. The debugged program calls, unwinds by hand, is interrupted in the middle, sleeps
  and faults; snapshots every three instructions and two kept, so that the oldest are dropped; four
  requests, enough to run, go back, go on and go back.
* `Devices`: one port and one sector, since sectors are copied one by one; two handles on one file, with
  four commands, for two opens, the other's write and an appending one, or for a write that fails and
  what comes after it; frames of 7 and 8 cycles in turn, lines that do not divide them, heights of two and
  three; grids of two rows and a ring of one to three; a picture of 4 by 3 pixels over tiles of 2; tones
  of up to two callbacks and two channels.

`CHECK_DEADLOCK FALSE` is set where the model really stops: a clock at its last cycle, a run that has
returned, a replay that has ended, a program that is linked, a client that asked all it may. The
engine runs have no such line: the engine never stops stepping.

### 3.2 Fairness

* `EngineWake`: weak fairness of what `step()` does by itself (`EngineStep`): the loop around it
  keeps calling it. Nothing is assumed of the program, of devices, or of the end of a wait with
  nothing raised, so that `RaiseEndsHalt` does not rest on the 10 ms deadline.
* `Waits`: weak fairness of the machine's thread and of each caller inside a call: a thread that can
  run does. Nothing about the deadline, spurious wake-ups, or when anything is raised. The mutex is
  taken by weak fairness because each holder gives it up in one step. Weak fairness of `Service`, the
  body of the loop of `service()`.
* `Lifecycle`: weak fairness of the step loop of whoever owns it, and that a call of `requestReset()`
  by another thread gets to its second store.
* `Input`: weak fairness of the runner's thread. The sleep of a halted machine with nothing scheduled
  ends by itself (`MaxHaltedWait`), so input goes in even when its poke came too early to be seen.
* `Processor`, `Tools` and `Devices` state no fairness and check no liveness.

## 4. What is proved

All from the named assumptions on the constants alone (`TextAssumption`, `StackAssumption`, ...),
which TLC evaluates on each run. Each module's invariant `IInv` is proved inductive action by action;
the theorems are read off it.

**`ExecutionEngineProofs`.** `IInv` says of the machine (`Good`): its types; `Separate`: in a handler
sp is on the system stack, outside on the program's, and the saved sp is the one of the outermost
context; `FramesOK`: the frames lie one below the other with each level's own words between, so
nothing written below sp touches one. It needs two facts no property states: an instruction that has
faulted has left `Interrupt` off (otherwise a pending request could be dispatched with `faulted`
still set, and the words of its frame would not lower sp), and a stopped machine is halted inside a
handler with no room for a frame (so that a request that arrives later meets the same lack of room).
From it:

* `TypeCorrect`: `[]TypeOK`;
* `StacksSeparated`: `[]StackSeparation` when the program's stack is mapped, even with unbalanced
  handlers and double faults;
* `FramesStayIntact`, `IretIsExact`: `[]FramesIntact` and `IretResumes` for balanced handlers without
  double faults (`Undisturbed`), to any depth of nesting;
* `StackPointerComesBack`: `ProgramStackRestored` when the program's stack is mapped;
* `StoppedStaysStopped`: `StoppedIsFinal`, unconditionally;
* `NoRaiseIsLost`: `[]NoRaiseLost`. Its strengthening compares three counts, the controller's, the one
  `step()` read when it began and the one last consumed, by where in the step the machine is;
* `StiProtectsOne`: `StiHoldsOneInstruction`. The shadow is first in the machine and, once `step()` has
  spent it, in the step's own copy; and a machine between an `STI` and the next instruction does not sleep,
  so that no step without an instruction uses the shadow up.

**`InterruptControllerProofs`.** The strengthening of `NoLostWake` is `Owed`: from the moment the
machine has tested the counts, what comes after is owed to it by a caller on its way or an event that
is set. It is inductive only with the count of sleepers tied to the machine's place, and on POSIX
with the mutex tied to it: a caller between the lock and the notification keeps the machine from
blocking. `WakeUpsArrive` is `[]NoLostWake`, `KeepsPromise` the safety half of the refinement of
`WakeUp`, for any number of callers and for either sleep.

**`LifecycleProofs`, the machine.** What is pending fits; the image is the machine's pair except between the step
that takes a pending pair and the one that places it; and the machine is off while it restarts, which
is why `loadProgram` cannot refuse there. `LoadsArrive` is `[]AcceptedLoadRuns`, for any number of
calls from both threads. `RestartsAreSound` adds what each step of a restart has done by the time
the next begins (`Cleaned`), with which all three parts of `RestartIsSound` hold, `RestartIsClean` and
`LoneResetKeepsRunning` among them.

**`LifecycleProofs`, the driver.** The driver's loop, with `CeresVM`'s restart inside it: `RunnerInductive`,
and from it `ShellComesBack` (`[]ShellResumes`) and `RunEndsRight` (`[]RunEndsWithShell`), for any
programs, environments and statuses. The invariant follows one restart through the loop: with one
thread the place tells whether the power is on (`Powered`) and whether something still waits to be
taken (`Waits`); what the program that ended or asked left is in its place until the loop looks
(`AfterEnd`, `AfterAsk`), then in the session kept (`KeepsSession`), and what is to start is the shell
with that status and environment when it was an end (`GoesToShell`). `KnowsShell` ties the driver's flag
`runningShell` to the program that runs or is about to; without it, the end of the shell and the end of
a program could not be told apart.

**`DeviceClockProofs`.** `TableTold`: the table holds one event for each thing a device waits for and
no other, on the cycle that device computes from its own registers. It is inductive because a device's
every operation cancels or moves its own key and nothing else (`Dropped`, `Moved`), and because the table
never is full: its four keys fit `MaxEvents`, so `schedule()` does not refuse (`Room`). `ClockKept` is
`[]ClockIsKept`. With `Armed` (a countdown's deadline is a whole number of periods after it was armed,
less than one of them ahead of the last) and the arithmetic of `cycleAtNanos` and `nanosAt`, whose two
roundings never make an alarm early or leave one behind (`NotYet`), `TimersExact` is `[]TimersAreExact`:
for any clock rate, word width, costs and lengths. Below them are the lemmas on `Scheduler`'s operators:
what `schedule`, `cancel`, `cancelAll`'s loop and the removal by swap leave of a table as a set of events
(`ScheduleFacts`, `CancelFacts`, `CancelAllFacts`, `SwapRemoveFacts`), and that the cached cycle is the least. The
loop of `cancelAll` needs an induction; it is had without an operator as a parameter, from the least
element of a set of counterexamples (`Least`, from the well-foundedness of the finite subsets).

**`MemoryProofs`, the MMU.** `EntriesSeen`: every entry shows what the tables said of its page at some time since
the page's last flush; `NowSeen`: what they say now is among that. `INVLPG` keeps it only because no
page has two entries (`PagesHaveOneEntry`), a store to a leaf keeps `DirtyMirrors` only because the
search stops at the one entry of the page. `AnswersAreTheTables` is `[]AnswersFromTables` for tables,
address spaces and TLBs of any size.

**`MemoryProofs`, accesses.** For any page size, kinds of pages, maps, registers, contents and number of
interruptions. `AccessInductive` is the invariant `MemoryInv`: besides `AccessesAreSound` it says that
the instruction is still the one that began, with as much left of its count as its registers say
(`JobGoes`), and that the memory holds bytes where memory is (`Backed`). `BlocksAreByteLoops` is
`[]AccessesAreSound`. The heart of it is that a chunk goes as the loop would: it lies in one page, so its
physical addresses follow one another (`Window`); stored at once, or byte by byte where the destination
lies over the source, it is the run of its single bytes (`CopyRuns`, `SetRuns`); and a run may be cut
anywhere and gone on with (`RunsFollow`, `RunsTail`, `FollowRuns`). That wants recursive functions and an
induction over how far they go, which is had from `Least` here too. `FaultsAreRestartable` is
`FaultsLeaveNoTrace`. Its proof failed at first: a 64-bit access in the last word of the address space has
its second half at address 0, as in the code, and the property had said `job.at + 4` without the wrap. In
the runs the first page is never mapped away, so that TLC had seen no fault there.

**`InputHubProofs`.** For any programs, scripts, buffers, slices and number of keystrokes, and the host posting
at any moment. `InputInductive` is the invariant `IInv`, in three parts. `BoxOK` is the machine's: its types,
and that of what the program has read, the ring, the line and what is typed ahead, each is in order and
all of one comes before all of the next. `Made` says how the two runs come from their set-up. `Hub` puts the
event in hand and the queue behind the machine (`Waiting`), and says that what the machine was given, what is
in hand and what waits are together the keystrokes posted, none twice; an end that was posted is the last of
the queue (`EndWaits`). Two facts that no property states are needed. What is typed ahead comes after everything else in the
machine, what was dropped included: otherwise a line that is entered could overtake what waits for it.
And a machine on raw keys has in its line only what has lost its place (`box.left`): otherwise a raw key would
overtake the line. The order is proved once of pieces of sequences, then carried through the terminal's calls,
the machine's step and the hub's actions, one lemma each. `InputKept` is `[]InputIsKept`. Its part
`EndComesLast` speaks of scripts that do not close (`ScriptKeepsOpen`), for the reason given under the
findings.

`ReplayKept` is `[]ReplayIsTheRun`, for any programs, scripts and slices. It compares two runs in one behaviour,
and needs no function from recordings to machines: `OneWay` says that there is a trail of `Point`s
(a machine, how much of the recording it has been given, and the end of its slice), each of which follows from the one
before and the recording (`Moves`). While a run is recorded its machine stands at the last point; the trail
it leaves is what the replay finds its points on. `Moves` fixes the next point, so the replay cannot leave the
trail. What must be shown is that the trail of the run so far stays one when the recording grows: a
point that went on because nothing was due must still have nothing due. That is `Settled`: a machine
that was given all there was and went on has gone on in time, and what is recorded later bears a later cycle.
It holds only because a step moves the clock, with one exception: a machine that sleeps with nothing
scheduled. Such a step changes nothing at all, adds no point, and ends the slice at
once, so the replay may take any number of them. The timer must never lie behind the clock for this
(`Clocked`), and no one but the thread itself may record a reset or the end (`Speaks`).

**`DevicesProofs`, storage.** `EventsReachTheProgram` is `[]EventsAreSeen`, for any number of ports and any
media. Its first half, that what is queued is announced or was passed over, holds because the host
pushes before it raises and the interrupt is dropped before the queue is read. The second says that the
program reads all the comings and goings of a port in order: the kinds of the last event read, of those
queued and of the medium's presence alternate (`ToldInOrder`). It is inductive for one port at a time,
since what plugs or pulls a medium queues the event in the same step (`ChangeIsQueued`), and a read takes
one from the front and makes it the last (`FrontIsRead`); resets and handlers that return early touch
neither. `MediaAreKept` is
`[]MediaKeepWhatIsWritten`, for images of any sectors and length: what is in a port is what the
program wrote to it (`Mirrored`), a disk that is not dirty is what the host's file would be opened as
(`DiskKept`), and so is a medium that is settled, in a port whose host refused nothing (`PortsKept`).

**`DevicesProofs`, sound.** `SoundNeverSticks` is `[]SoundGoesOn`, for any channels, durations and envelopes.
The strengthening says what holds in the middle of a command: a busy device has a tone in the host's
hands or is about to give it one; the steps that silence the host come after the busy bit was cleared;
a channel about to be keyed as rendered has an open stream; and the machine's thread keeps neither
lock from one of its steps to the next, which is what rules out a circle.

**`DevicesProofs`, host files and pictures.** `HostFilesStaySafe` is `HostFilesAreSafe`, both its
action properties, for any names, any number of files open at once and files of any length. `FsInv` says
that what has a name is a directory or has a content, that every open file has one too, named or not, and
a place in it, and that only one opened to write holds bytes; with it each command is shown to answer only,
to move one handle, to write one content or to move names. Wherever the host breaks a write off, the
content before its place is as it was and nothing is cut off, also for the bytes held that are written
again later. `PicturesAreShownWhole` is `[]NeverDrawnWhereShown`, for any program: the pictures that take
turns are different ones until a flip is dropped, in every order of presenting and vertical blanks.

**`DebugServerProofs`.** `ServerInductive` is the invariant of the two threads: which of them holds which
mutex is told by where it is, the main thread that goes to sleep looked at an empty queue and has kept
the mutex since (`LookedAtNothing`), and a server that is gone left nobody inside its control
(`GoneForGood`). `ServerKeepsListening` is `[]ServerListens`, for any requests in any number and order.
`BreakpointsStop` is `[]NoBreakpointRunOver`, the second half of `SessionIsTrue`, for any program: a
command is in progress only while the main thread carries it out (`CarriedOut`), hits are counted
(`HitsCounted`), and the loop executes only what `ShouldStopAt` refused to stop at or the place it set
out from, whatever another request, a watch or the history did in between. `BreakpointsInductive` is its
invariant.

**`DebugServerProofs`, going back.** `RewindExact` is `RewindIsExact` and `ReverseExact` is
`ReverseFindsTheLast`, for any program, breakpoints, interval between snapshots and number of them kept.
Both rest on `HistoryInductive`, of a session that is faithful and was not typed into (`Recalls`):

* `Told`: the history variable `past` is a run of the program. Each moment is what `Step` makes of the one
  before it, or, when the machine waits at that one, of the machine a device's event has woken (`Rested`);
  the session stands at a moment or at that waking (`Stands`).
* `Snapped` and `TakenInTime`: each snapshot is `past` at its tick, but for what a snapshot leaves
  out; with it is kept the call stack of that moment; their ticks grow and none is younger than the present.
* `Aims`: a replay is between the snapshot it set out from and the tick it was asked for, which the program
  did reach. As the machine's step is a function of the machine, the replay stands at `past` at every tick.
* `OnTheWay` and `Found`: a scan has found the greatest matching tick among those it stepped to.

That `Nearest` names the last snapshot not after a tick, where the code walks the list backwards, is an
induction over the number of snapshots (`Greatest`, by way of `Least`).

**`DebugServerProofs`, the call stack.** `SessionStaysTrue` is `[]SessionIsTrue`, given `[]ProgramIsTidy`.
The debugger infers frames from the instructions that go past, so what it shows is right only of a program
that behaves. `Tidy` says what that is, of the instruction about to run:

* what a return, a dropped word or an IRET takes off the stack in use is there: a return or a drop
  within a handler leaves the frame of its interrupt, and the outermost IRET finds nothing but that frame;
* a CALL does not call the address after its own;
* the instruction run in the very step that delivers an interrupt or wakes a halted machine, which
  the debugger sees as one step, is no CALL, RET, IRET or drop, and the handler's first does not fault.

`CInv` is its invariant: `Follows` says that there is one frame for each return address on both stacks, with the
stack pointer it was pushed at, of the session and of every snapshot with the frames kept with it; `Reaches` that
going back aims at a snapshot there is. It holds with typed input too. `ProgramIsTidy` is an assumption on the
program, and the programs of `Tools` satisfy it: TLC finds it true when it is added to that run's invariants.

## 5. What is only model-checked

* Liveness (`RaiseEndsHalt`, `ServiceEnds`, `RunGoesOn`, `InputGoesIn`, the fairness of `WakeUp`): the
  prover has no rule for fairness.
* Behaviours not proved yet: of the devices the first two parts of
  `BeamIsFollowed`, and `TerminalKeepsTheSession`, which speak of folds over lines and bytes.
* `Alu`, `Assembler`, `Encoding`, `ObjectLinker`, `BinaryFormats`, `DebugTables`, `Scanout`, `Blitter`:
  what a computation over sequences yields for every input is an induction over data, and the theorems of
  the library that state one take an operator as a parameter, which the installed provers cannot
  instantiate. `Least` gives an induction over one number, as for `cancelAll`'s loop and the loop over a
  block's bytes; here the data are programs, files and pictures, most of their operators are recursive or
  fold over sequences, and `Floats` rests on the search of a nearest number.

## 6. Findings

Each of the first four is a run that TLC ends with a counterexample.

* **A push that page-faults runs its handler on the program's stack** (`EngineUnmapped`).
  `push<T>` (`execution_engine.h:672`) puts sp back after a write that faulted, but by then
  `triggerInterrupt` has moved sp to the system stack: depth is 1 and sp the program's.
  `execution_engine.cpp:95` says that the handler runs on the system stack. `src/docs/27` warns of
  `PUSHM` stopping in the middle, not of this.
* **A shutdown during a restart is lost** (`StopDuringReset`). `restartIfRequested()` stores the power
  on over it (`ceresvm.cpp:182`).
* **Leaving out unused code drops what a function runs on into** (`ToolchainCollect`): `endsControl()`
  takes the zero words at the end of a piece for padding, and a `NOP` is the zero word. A function that
  ends in a jump and, behind a label, a `NOP` runs on into the next piece, which is left out.
* **A tone replaced as it ends raises its interrupt** (`AudioReplaced`), and clears the busy bit of
  the tone that replaced it, whose own end then raises nothing (`audio.cpp:122`).

Seen while modelling, and described here rather than kept as runs.

**The CPU.**

* `RESET` (the instruction) dispatches vector 0 like a fault; depth is not put back to 0 by it.
* A request raised after `step()` read the raise count and taken by that very step's dispatch is not
  consumed by it: the next `HALT` goes on once although what was raised has been taken. This errs
  towards waking; `NoRaiseLost` and `RaiseEndsHalt` hold.
* `MCMP` reads both sides of a byte before it looks for a fault, so two unbacked blocks dispatch two
  memory faults in one instruction; the second frame's pc is the first handler's address.
* `ADDC` and `SUBC` add the carry to the operand in 32 bits (`execution_engine.h:1317`), so that an
  operand of all ones leaves Carry clear; `src/docs/05:69` and `src/docs/03:107` promise a chain of any
  length. `ArithmeticAgrees` states chains of two words, whose sum does not read that flag.
* A 32-bit shift tests its amount for zero before it masks it (`execution_engine.h:1096`), a 64-bit one
  after. `FTOI` of what does not fit is undefined in C++. `ENTER` goes on after a push that failed.

**The machine's life.**

* Two resets that cross: when the restart of the first takes the request of both, the second caller's
  power-off stops the restarted machine and `run()` returns although nobody called `shutdown()`; when
  the second's two stores both come between the restart's exchange and its power-on, the power-on
  overwrites the power-off and the request waits until something else stops the machine. This is why
  the two `Lone...` properties speak of a reset that no other crosses.
* A loaded program inherits vectors: those above 16 that only the program before it bound still name
  that program's handlers (`ceresvm.cpp:142`; the defaults below are written again at 138).
* With both `--type` and `--keys` and no window, the end of the input is the last event of the `--keys`
  script (`machine_runner.cpp:673`), and `inject()` takes the script before the queue
  (`input_journal.cpp:286`). When `--type` has more than the terminal holds (`InputBufferCapacity`), what
  still waits in the hub goes in after the end: the program is told that the input is over and then
  reads on, although `machine_runner.cpp:641` says that the input ends "once they are done". This is why
  `EndComesLast` speaks of scripts that keep the input open.
* A line left unfinished when a program turns to raw keys stays in the discipline: the keys after it
  reach the program first (`box.left` in `InputHub`).
* A recording holds what the host injected. What a program reads of the host otherwise - the clock
  without `--rtc`, files of `--host-dir` - is not in it, and is not in the model of a replay.

**The devices.**

* The copy engine's registers can be written while it is busy, and `finish()` moves what they name then
  (`copy_engine.cpp:46`), checked or not; `copy_engine.h:6` speaks of the run that was started.
* A port's interrupt tells of several events at once, because one pending bit stands for all raises:
  `peripherals.h:56-58` says that a handler which reads one event per interrupt still sees them all, and
  such a handler falls behind. A machine reset (`ceresvm.cpp:180`) clears the pending interrupt, and
  `PeripheralDevice`, which has no `reset()`, keeps the events queued. Nothing announces what is left
  over in these two ways until another medium comes or goes. This is why `EventsAreSeen` has
  `passedOver`; that no event is lost or read out of order holds without exception.
* A write to a host file that fails answers `-ErrIo` when part of it may be in the file and the position
  has moved (`host_fs.cpp:173-179`), and the stream of the C++ library keeps the bytes: they are written
  again, from where the host stopped, when the file is next used or closed, by any command and
  whatever it answers. A failed read answers `-ErrIo` and has moved the position (`host_fs.cpp:153-157`).
  These are the exceptions `HostFilesAreSafe` names.
* `flushPort` ignores a write that fails and a detach then discards what was not written: this is why
  `MediaKeepWhatIsWritten` speaks only of ports whose host never refused.
* Opening a host file that may be written and not read, with truncation, empties it and then answers
  with an error. Rewriting `IrqEnable` or `LineCompare` with the value it has loses that frame's line
  interrupt. Writing `Buffers` while a flip waits makes two of the three bases one.
* The blitter's copies with unlike strides, and of indexed pictures, are not safe against overlap
  (`blitter.cpp:130`; `blitter.h:8` speaks of all): `BlitIsAsAsked` speaks of the others. A width of zero
  is an error where a height of zero is not.
* An attack or release of many minutes never moves its envelope: the step is smaller than the level's
  last digit. Releasing a key twice starts the release's time again.
* The echo at the screen's right edge, of a backspace over a tab, and after the screen was made smaller
  does not draw where the line is. `OSC` that ends in `ESC ESC \` never ends. `\r`, a named key and
  `\n` lose the `\n`.

**The debugger.**

* A replay of a machine that sleeps never returns: only `runUntil` asks whether it does
  (`debug_session.cpp:868` against 1159); `debug_session.h:212` says that nothing loops forever.
* A replay gives all recorded input at once and not at its ticks (`debug_session.cpp:431`), and the search backwards
  gives none; a snapshot leaves out the interrupt depth, the saved sp, the shadow, PTBR and the TLB,
  the keyboard, the mouse and the GPU. `RewindIsExact` and `ReverseFindsTheLast` speak of runs without
  typed input (`typed = <<>>`) whose history is not abandoned (`faithful`).
* `readLoop()` stores `_inputClosed` and notifies without `_queueMutex` (`debug_server.cpp:304`). Between
  the main thread's look at the condition and its sleep (375) the notification is lost, and the server
  waits for a client that is gone, although `debug_server.h:69` says of `run()` "Runs until the client
  disconnects or asks to terminate". `ServerListens` speaks of requests, which are pushed under the mutex.
* A `pause` that comes right after a `continue` may be lost; a breakpoint at the entry is missed; the
  first instruction of an interrupt's handler runs within the step that delivers it; a search backwards
  does not find a breakpoint at the oldest tick, unless the machine slept through that moment (the scan
  looks after each step, `debug_session.cpp:950`), and stops at log points. A machine that a masked
  request wakes executes its next instruction in the same step, and when that is a `CALL` the call stack
  gets no frame: `updateCallStack` takes a halted machine to execute nothing.

**The toolchain.**

* `relayoutText()` forgets the padding that relaxation made necessary (`translation_unit.cpp:361`,
  `binary_emitter.cpp:340`, `src/docs/10:165`): an aligned label may be out of place after it.
* A name that `src/docs/23:239` and `src/docs/15:170` promise across an import is refused by
  `lookupBeyond` (`symbol_table.cpp:97`). A second import hides that the first made a name ambiguous.
  Two units' `global let` of one name clash at the link; the first exporter is taken without asking for
  another. `%%label` becomes the parent of the local labels after it.
* Initialisers of structs lose the high word of 64-bit fields; a jump of 8 to 16 MiB ahead
  passes `fitsInBits` (`binary_emitter.cpp:1035`, `object_linker.cpp:431`), although the comment at
  `binary_emitter.cpp:1033` says that a target out of reach is an error, and lands 16 MiB lower: this is
  why `EncodingIsFaithful` has `Reaches`; `cmp r1, 40000` compares with -25536, and
  `mov r1, -1` moves 65535; `stv v, r13` stores the address; `swap r1, r1` clears r1.
* A program loaded from memory whose table of vectors is cut short (`program.cpp:107-122`) leaves the offset
  of the next where it was, so that the vectors' count is read as the length of the debug section, and
  the first n bytes of n vectors may be taken for it (38-57), against the comments at 8-10 and 59-63.
  This is why `FilesAreWhole` has `MistakenForDebug`. A merge of debug tables
  repeats files, of which the first is found (`debug_info.cpp:294`); constants have address 0 and a
  size, so that the symbol at address 0 to 3 is one.

## 7. What is not modelled, and why

* The assembler's lexer and parser, the evaluation of constant expressions, the command line, the
  debugger's text front end and JSON, the editor extension: text in and text out, one line after the
  other, which the repository's tests compare whole.
* SDL3 with its windows and its queue of events, real time (the pacer): calls into a library, and
  properties that would have to state real time.
* The rings of 64 events of keyboard, mouse and gamepad beyond the keystrokes of `InputHub`; the bytes
  a DMA transfer moves; the timer's registers that are only read; the debugger's capture and
  restore of single devices: state that nothing else in the models meets.
* The waveforms' samples and the noise, palettes beyond banks, glyphs: tables.
* Memory ordering weaker than sequential consistency: the atomics that meet between threads are
  `seq_cst` or are published by one that is.
* `hasStackRoom()` adds in 32 bits (`execution_engine.h:636`), and the model's addresses are unbounded;
  `reset()` of the engine reads the count of raises before the pending set is cleared
  (`execution_engine.cpp:16`), and `CeresVM` does not keep the count. No property covers these two.

## 8. Plan

The parts whose order of events matters are modelled. What is left, in order:

1. `ContextStack`: the abstract stack of interrupted contexts that `ExecutionEngine` implements, and
   the refinement as a theorem.
2. The count of raises in `CeresVM`, so that a raise during a restart is seen; 32-bit addresses in
   `ExecutionEngine` at the wrap.
3. The rings of the keyboard and the mouse with the interrupt they share.
