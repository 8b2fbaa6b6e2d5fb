# Verification of exec09

exec09 simulates Motorola 6809 machines: a CPU, a bus with devices, four
boards (simple, EON, EON2, WPC) and a debugger in the style of gdb. It is one
single-threaded C program; what makes it hard is that interrupts, device
updates, debugger stops, signals and the mapping hardware all cut into the same
instruction loop, and that most tables are reused without being cleared.

## Inventory

| Part | Source | State | Operations | Interacts with | Modules |
|---|---|---|---|---|---|
| CPU interrupt core | 6809.c | registers, S stack, `irqs_pending`, `firqs_pending`, `cc_changed` | `irq`, `firq`, `swi*`, `rti`, `pshs`, `puls`, `tfr`, `exg`, `andcc`, `orcc`, `request_irq` and the like, `cc_modified`, `cpu_reset` | devices call `request_irq` from inside a store; the debugger writes registers | CpuOps, Cpu, CpuProofs |
| ALU and decoding | 6809.c, monitor.c | accumulators, the lazy flags `H`, `N`, `Z`, `OV`, `C`, `EFI` | some 270 opcodes on three pages, addressing modes, cycle counts; the tables of `dasm` | bus; `next` relies on `dasm` | Bits, Alu, Decode, Insn, InsnProofs |
| Bus, memory maps, EON MMU | machine.c, eon.c | `busmaps`, `device_table`, `mmu_regs` | `bus_map`, reads, writes, faults, `mmu_write`, `mmu_reset_complete`, the init functions of the machines | CPU, debugger, loader | BusOps, Machines, BusProofs |
| Small MMU, I/O expander | mmu.c, ioexpand.c | slots, windows | register writes, dispatch | bus | Machines |
| WPC mapping | wpc.c | bank, RAM lock, display pages | `wpc_asic_write`, `wpc_update_ram` | bus | Machines |
| Disk | disk.c | offset register, RAM pointer, file position, the host file and its buffer | the register protocol, creation and formatting | RAM, host | SectorStore, Disk, DiskProofs |
| Timer, oscillator | timer.c | `count`, `reload`, `flags`, `prev_cycles` | `hwtimer_update`, `oscillator_reset` | `machine_update` calls it, it pulses the multiplexer | TimerOps, Oscillator, MainLoopProofs |
| Interrupt multiplexer | imux.c | `enabled`, `pending` | `imux_write`, `imux_assert`, `imux_refresh`, `imux_reset` | the program's stores, the oscillator, the CPU's IRQ | Eon2, Eon2Guest, Eon2Proofs |
| Main loop | main.c, wpc.c | `total`, the static variables of `idle_loop`, `max_cycles`, the switch that is pressed | one turn with and without `-I`/`-F`, `idle_loop`, `wpc_periodic`, `command_periodic` | oscillator, board, debugger | MainLoop, MainLoopProofs |
| Debugger | command.c, monitor.c | `breaktab`, `active_break_count`, `monitor_on`, `auto_break_insn_count`, `stop_after_ms` | three hooks, `breakpoint_hit`, the commands, `command_periodic`, SIGINT | hooks run inside every instruction and every bus access | BreakOps, Debugger, DebuggerProofs |
| Command input | command.c | input file, last command, trace buffer | `command_exec`, `cmd_source`, `cmd_set`, `cmd_symbol_file`, `command_trace_insn` | symbol table, program | Session, SessionProofs |
| Symbol table | symtab.c, monitor.c | hash chains by name and by value | `sym_add`, `sym_set`, `sym_find`, `sym_lookup`, `load_map_file` | debugger | Symtab, SessionProofs |
| Serial port, loaders' text, options, disassembler's text, build | | | | | not modelled, see below |

Hard behaviours: an interrupt taken in the middle of a store; requests that
stay pending while masked; handlers nested in any order on one stack; a clock
that is updated late; pages remapped one register at a time, over units that
must keep their place; a simulator killed with sectors in its buffer; a
breakpoint table whose slots are reused without being cleared; several
watchpoints hit by one instruction; signals and timeouts that meet a stop;
command files that run programs and other command files. PROJECT.json lists
them as hazards, each at its line.

## What is modelled

**CpuOps, Cpu.** CpuOps has one operator per C function, on a record that is
the CPU. A byte is the set of its bits, so a byte the program pushed and pulls
into CC really changes the masks; a word is a pair of bytes; the stack is the
sequence of bytes from S upwards. `saved` is history: the context each
interrupt frame on the stack suspended. In Cpu each kind of instruction that
touches the masks, the stack or a device is an action; all others are
`Ordinary`, which leaves any of the given register files and never changes E,
F or I. Each instruction ends with `EndInsn`, the test of `cc_changed` at the
bottom of the loop. `Store` and `StoreWord` are stores to a device that moves
its line before the instruction has ended, once or after each byte.

**Bits, Alu, Decode, Insn.** Bits has `&`, `|` and `^` on at most 17 bits, a
word and its carry, with the bits written out: those of the library are
recursive, which the prover cannot use. Alu has the arithmetic functions and the flags as the
code keeps them: not as bits but as the values to read them from later, which
`get_cc` packs and `cond` interprets. Decode has the two decoders, the switch
of `cpu_execute` (for each opcode its function, its operand and the cycles its
case takes) and the tables from which `dasm` finds the length, and `indexed`
with the addresses it computes. Both are tables by row and column of the
opcode map, and numbers are integers with the code's masks. Insn runs one turn
of the loop: opcode, prefix and post byte are chosen freely, and length, cycles
and bytes on the bus are summed up as the code does; when the instruction has
an arithmetic function, that is then applied to operands chosen freely.
Registers and memory are not kept from one instruction to the next: what an
instruction does to masks, stack and requests is Cpu's.

**BusOps, Machines.** BusOps is the bus: `bus_map` with its rounding to units
and its respect for `MAP_FIXED`, `find_map`, and the two ways a word goes over
it, which differ (`cpu_read16` takes both bytes through the map of the first).
Machines builds the four memory maps from the `device_define` calls of the init
functions and lets the loader, the program and the debugger store and load. A
store is one action: the fault, the device it reaches (`mmu_write`,
`small_mmu_write` behind the expander, `wpc_asic_write`, the console's exit
register, an empty slot of the expander), and what that does to the maps.
`programmed` is history: which pages the program itself has mapped; so is
`file_bank`, the bank of the WPC that a map file selected, at the start or by
`sym` at the prompt of a running program, after the register was last stored.

**SectorStore, Disk.** SectorStore is what the drive promises: a store of whole
sectors that survives the simulator. Disk is the drive: four registers, of
which the sector register is also the scaled offset, a file position that every
transfer moves on, transfers between RAM and file, the stdio buffer between
file and host, and a simulator that may exit or be killed at any time, also
while it formats a new disk. The refinement maps `store` to `file` and hides
the registers: whatever the register protocol has been, a transfer after a high
and a low byte goes to the sector they name.

**TimerOps, Oscillator, MainLoop.** `hwtimer_decrement` in three parts: the
interrupt, the reload and the count it leaves. A slice is any number of cycles
up to one period (on EON2: 1024 cycles plus the overrun of one instruction, in
a period of 2048). MainLoop puts the slices into the turns of `main`, with
devices (EON2, WPC) or with the interrupts of `-I` and `-F`, and `idle_loop`
after each: simulated time in whole milliseconds, one periodic call at a time,
the board's switches and the timed stop of `runfor`, SIGINT between two turns,
and the limit on cycles. The slices of `-I` and `-F` are of any length the
command line gives (`IrqSlices`), unrelated to the oscillator. `RunForTime` is
stated with the bounds that the code gives. Exactly: when `runfor` stops the
program, the milliseconds that have gone into periodic calls since are its time,
rounded up to whole periods. In cycles: if a look covers no more than a period,
the stop may be early by a whole period (what was left of the last one before
`runfor` counts) and the turns that no look had covered yet, and late by less
than a period, a look and the fractions of milliseconds that `idle_loop` drops.
With longer slices of `-I` the calls fall behind, and only the exact part holds.

**Eon2** composes the CPU, the multiplexer and the oscillator as `eon2_init`
wires them: instructions spend the slice's budget, `MachineUpdate` runs when it
is spent. `CpuRefined` states that every step of this machine is, for the CPU,
a step of Cpu: the detailed specification implements the abstract one under
the identity mapping on `cpu`. **Eon2Guest** runs one program on the same
machine: enable the line, loop over a section with interrupts masked,
acknowledge in the handler.

**BreakOps, Debugger.** BreakOps is the table: `brk_enable`, `brkalloc`,
`brkfree`, `brkfind_by_addr`, `breakpoint_hit`, with everything a freed slot
keeps. Debugger is the loop around an arbitrary program: `Fetch` (the hook,
`check_break`, the way to the prompt), `Read`, `Write`, `Finish`, one action
per command, `command_periodic` between slices, `monitor_signal` at any time,
and the end of input. `measure` pushes its return address through the write
hook, so it is modelled with both of its writes. A condition compares one
program byte with zero; evaluating it cuts its string, as `match_binary` does.
When no slot is free `brkalloc` returns NULL and the caller writes through it:
the model goes to a final state. The copy of the program's thread that the write hook keeps is left out: only a
breakpoint with `threaded` set would compare with it, and no command sets that.
History variables record what each slot was
asked for, whether a stop is due, the last command, and the instructions run
since.

**Symtab, Session.** Symtab has the tables with their two sets of hash chains.
Session is what surrounds the debugger's commands: where a line comes from
(keyboard, `.dbinit`, a file run by `so`), what a blank line repeats, the
symbols and variables, and the trace of instructions fetched.

## Runs

| Run | Shows | Bounds |
|---|---|---|
| `cpu` | handlers nested in any way respect the masks, defer nothing, and RTI gives back the suspended context, also with pushed bytes and return addresses between the frames and CC written by TFR, EXG and the debugger | two frames, or one frame and one byte; every register with a value of its own; the registers moved are CC and A |
| `insn` | the two decoders agree on lengths; cycles cover bus accesses; indexed addresses, results, flags and branch conditions are those of the numbers; CC can be stacked between any two instructions | every opcode, prefix and post byte, all bytes as operands; 13 words at the boundaries; CC with the arithmetic bits clear and set |
| `machines` | the bus shows device, offset and flags as the mapping registers say, in whichever order they were stored, and the bank as the register or the last map file says; fixed units stay; the program keeps its control registers and cannot change its ROM unnoticed; words are read as they are written | the four machines at their real sizes; for each mapping register two to five values; two banks in map files |
| `disk` | flushed sectors survive a kill; a formatted disk stays readable; the drive implements SectorStore | two sectors and one beyond the end, bytes of two values, three contents |
| `mainloop` | the oscillator neither drifts nor, while it is updated, misses a period; every millisecond is accounted for; a pressed switch opens again; `runfor` stops at its time, as `idle_loop` counts it; a rogue program ends | period 5, slices 1, 3 and 5, with `-I` 2 and 9, a look at the time every second turn, milliseconds of 2 cycles, periods of 6 ms, `runfor` of 8 and 12 ms, 60 cycles |
| `eon2` | requests match enabled pending lines; the machine refines Cpu; an unacknowledged line interrupts again | two lines, period 4, slices of 2 |
| `eon2_guest` | no pulse is lost wherever it falls; each is acknowledged; the main loop is not starved | period 16, slices of 8, instructions of 1 or 3 cycles |
| `debugger` | the count of active breakpoints, temporary breakpoints, single steps, silence of deleted breakpoints, every stop that a watchpoint asks for and no print-only one takes back, and `runfor` comes back to the prompt | two slots, two addresses, two accesses per instruction, ignore counts 0 and 1, stopping and print-only watchpoints on reads and writes without conditions, runfor for one period |
| `session` | names and values are found as last defined; command files give the keyboard back | three command files, two symbol files, all names on one chain, three typed lines, four instructions, a trace of three |
| `debugger_shadow` | **violated**: a freed slot hides a live breakpoint | two slots |
| `debugger_condition` | **violated**: a condition is right only the first time | one slot |
| `session_so` | **violated**: a command file run from another does not return to it | as `session` |

Why the bounds are enough: two slots cover every way a slot can be reused or
hide another; two frames every pair of nested handlers, and one byte between
them every misalignment of a frame; two slices per period is the ratio of the
real machine, and the cost of an instruction makes slices overrun; two sectors
with bytes of two values are a sector register of which both halves matter;
slices, milliseconds and periods of `mainloop` do not divide each other, so
every remainder occurs, and two slices of 9 are a look of more than a period, so
that calls fall behind. The CPU's bounds are the guard `Bounded`: a state
outside is reached but only left by reset. Each violated property quotes the
line of the documentation that it states; PROJECT.json gives the finding.

What the properties had to leave room for is as much a result as what they
show:

- `insn`: SYNC and CWAI call `sim_error` and RESET has no case, so for these
  `dasm` knows an instruction that the CPU rejects; `LengthAgrees` names the
  three. `ClockCoversBus` also gives the most an instruction takes, 20 cycles
  (`irq` and `firq` themselves take none), so a slice of 1024 on EON2 stays
  below the period of 2048 (`SlicesAssumption`, `CostsAssumption`).
  `ArithmeticRight` states where `daa` is right and where not: when both digits
  of the binary sum exceed nine without a carry (0x55 + 0x55, for one) two of
  its three tests add 0x60.
- `machines`: `WordReadBack` is about words inside one region where a device is
  mapped, since a word across two devices is read from the first alone. Slots of
  the small MMU from 16 on map nothing in the model. `RegistersDescribe` leaves
  out the pages of EON that the program has not mapped, whose registers
  `mmu_reset_complete` samples from one unit, and slot 15 of EON2 until it is
  mapped. On the WPC the bank and display registers map devices 2 and 3, which are
  the RAM and the ROM, and `RegistersDescribe` says so: the bank shows RAM, the
  display pages show the ROM, writable. A map file selects the bank without the
  register, also under a running program; the property follows the one that was
  last. Nothing enforces the locked RAM or the ROM of the WPC, because
  `wpc_fault` is empty, so `RomKept` leaves that machine out. On the others a
  store to the ROM faults; with a debugger `sim_error` returns and the store is
  done all the same, although eon.h calls the ROM read-only: `RomKept` says that
  the prompt follows. Mapping slot 15 of EON2 takes the ROM and the expander
  away, which `ControlKept` leaves out. The simple machine maps its whole address
  space, so it never faults.
- `disk`: a simulator killed while it formats leaves a short file that the next
  start takes for a disk (`cut`).
- `mainloop`: a slice that ends exactly at count zero pulses, and so does the
  next one, so there may be more pulses than periods; never fewer. A second key
  pressed while a switch is closed leaves the first closed for ever
  (`overlapped`). With `-I` and `-F` the devices get no update and the oscillator
  of EON2 stands still, so `PulsesKept` is about the turns without them. Slices of
  `-I` so long that a look covers more than a period let the periodic calls fall
  behind for good: without `LookMs <= PeriodicMs` the absolute bounds of
  `RunForTime` are violated.
- `debugger`: README says of a watchpoint that the CPU "will break", and the
  code does not keep it when a print-only watchpoint is hit afterwards:
  `breakpoint_hit` assigns `!keep_running` to `monitor_on`, so a later hit in the
  same instruction takes the stop back. `WatchHonoured` says that this, and
  nothing else, loses a stop. A watchpoint in a slot
  that was a breakpoint also answers on execution, since `cmd_watch1` leaves
  `on_execute`; `ExecuteStopsAsked` counts it as asked for both, and a print-only
  one there takes back stops at the next fetch, those of `runfor` and of SIGINT
  too (`PrintsHere`, `StopTakenBack`). `measure` uses up ignore counts from the
  prompt; no property is about that.
- `session`: README says that `td` dumps the last 256 instructions; it shows 255,
  since `cmd_trace_dump` starts after the oldest entry. `TraceRight`, which is
  proved, states what it shows. The last line of a
  command file is dropped when it has no newline; a blank line repeats the word
  of a command without its argument, and `set` alone dereferences a null
  pointer (phase `crash`); after the end of the keyboard's input the
  instruction is fetched and traced again.

### Fairness

Instructions and `MachineUpdate` (Eon2), `Fetch` and `Finish` (Debugger) and the
prompt (MainLoop) are weakly fair: the loops of `cpu_execute` and `main` have no
exit but `quit`, and whoever is at the prompt is taken to continue the program.
The turns of MainLoop are strongly fair: a prompt that is left is followed by
an instruction, so signals cannot keep the loop from a turn for ever. `command_periodic` is strongly fair in Debugger: it is
enabled only between slices, and `idle_loop` calls it whenever more than 100 ms
of simulated time have gone by, which the loop's progress guarantees (MainLoop
models that). In Session only the reading of a command file is fair; the user
need not type. `MainRuns` needs the handler to be shorter than a slice.

## Proofs

Each theorem is about every value of the constants that the named assumptions
allow; the bounds of the runs are guards, and no proof uses them.

- **CpuProofs** proves `TypeCorrect`, `NoInterruptDeferred` and
  `MasksAreRespected` for every set of bits, sources, registers and any stack.
  The invariant `Sound` is the conjunction of the three: entering a handler
  respects the masks only because nothing was deliverable before. There is one
  lemma per operator of CpuOps. `RtiAlwaysResumes` is about handlers nested in
  any order and to any depth. Its invariant is `FramesHold`: each remembered
  context is on the stack byte for byte (`FastFrame`, `WholeFrame`), at its
  depth counted from the bottom, and no two are at one depth. Counting from the
  bottom is what makes it inductive: pushes and pulls above a frame leave its
  depth alone.
- **Eon2Proofs** proves `MachineImplementsCpu`, the refinement of Cpu by Eon2
  with both of the multiplexer's refreshes in a word store, so that the theorems
  of CpuProofs hold of the machine; `RequestsAreJustified`, whose induction
  needs `Sound`, which it has through the refinement, because the end of the
  storing instruction may enter a handler; and `OscillatorNeverOverruns` from
  `CostsAssumption`: no instruction costs more than a period has beyond a slice.
  `PulsesUnstick` is the step on which `ReInterrupts` rests: every store to the
  multiplexer and every pulse leaves no active line that the CPU neither masks
  nor has a request for; that pulses keep coming is fairness. Of the guest it proves `TicksAreKept` and `HandlerNeverNests` for any period,
  slice, costs and lines. The invariant `GuestInv` says where the program is (in
  the main loop with nothing suspended, or in the handler with one frame of a
  context that the loop was interrupted in) and that multiplexer and CPU agree;
  it needs `FramesHold`, since the RTI must return to the loop, and
  `LabelAssumption`: the labels of the program are different addresses and the
  IRQ vector is the handler.
- **MainLoopProofs** proves `OscillatorPhase` and `NoPeriodMissed` for every
  period and all slices no longer than it (`SlicesAssumption`, without which
  one reload is not enough: the code then calls `sim_error`). The invariant
  adds that pulses are at least reloads, plus one when the count is zero. It
  carries both into the loop of `main` (`LoopKeepsPhase`, and
  `LoopMissesNoPulse` for the turns that update the devices), and proves
  `TimeIsAccounted`, `ClosedSwitchIsTimed` and `RunForIsTimely`, for slices of
  `-I` of any length. Its invariant follows the accounts from the `runfor`
  (`begun`): the calls since and what is left of `stop_after_ms` are the time
  given. The bounds in cycles hold if a look covers no more than a period
  (`LookMs <= PeriodicMs`), which is part of the property. Without `-I` it does:
  30 turns of at most 2048 cycles at 2000 cycles per millisecond, against 100 ms.
- **InsnProofs** proves the five properties of Insn for every set of words and
  every set of values of CC, where the run has 13 and 2; with all of them
  (`Words = 0 .. 65535`, `CCs = 0 .. 255`) they are about every operand. The
  invariant `Inv` is `LengthAgrees` and `ClockCoversBus` with what each stage
  knows of the instruction (`StageOk`: the length, cycles and bus accesses
  counted so far are those of the decoded prefix and opcode) and of the function
  (`AluOk`). `LengthAgreesHolds` and `ClockCoversBusHolds` compare the two
  decoders row by row of the opcode map, and `indexed` and the register lists
  post byte by post byte. `IndexedRightHolds` is arithmetic modulo 65536.
  `ArithmeticRightHolds` and `FlagsRightHolds` rest on lemmas that say what bit
  7, 8, 15, 16 or 4 of the values kept for V, C, N and H is (a carry or a borrow
  of the numbers, never a bit pattern); DAA goes by the two digit sums of the
  binary sum; and CC survives being stacked because each flag is one bit of CC,
  read back at the place it was packed from.
- **DebuggerProofs** proves `CountIsRight` for every `MAX_BREAKS`: the count is
  the number of enabled slots and these are the ones in use. The invariant
  adds the table's type and that the program counter is an address, since
  `measure` stores it. The searches return the least slot, whose existence
  comes from the well-foundedness of the naturals. `TempsNeverShown`,
  `StopsAreAsked` and `StepRunsOne` are about any sequence of commands, hits and
  signals; their invariants follow the temporary breakpoint from the command
  that sets it to the stop that frees it, what each slot was asked for, and the
  counter of single steps. `WatchpointsStop` is about any mix of stopping and
  print-only watchpoints; its invariant is that `monitor_on` is set while a stop
  is due.
- **DiskProofs** proves `FlushedDataSurvives`, `DiskStaysReadable` and the
  refinement `DriveImplementsStore`, for every size of bytes, sectors, disk and
  RAM. The invariant adds what the registers remember (`RegistersHold`: after a
  high byte the offset register is that byte, after both the position is the
  sector named) and what the host has before the first start and after it
  (`FilesHold`).
- **BusProofs** proves `FixedMapsStay` for every size of the bus and every set
  of stores: `bus_map` keeps fixed units, the keeping is transitive (the RAM
  lock of the WPC maps twice), and every write to a device is a `bus_map` or
  none. The other results are about the sizes that the `#define`s give
  (`RealSizes`), for all stores: `MapsAreAccounted` is the invariant `BusInv`,
  which says of every unit of the four machines what the init function defined
  there and what the mapping hardware has put there since. A call of `bus_map`
  is reduced to the units it sets (`Puts`), a step to the call it makes
  (`MapStep`, which has the bank of a map file in `FileStep`), and what the WPC's
  registers map is kept by calls elsewhere (`PutsKeepsPart`). From the invariant
  follow `RegistersAreShown`,
  `WordsAreReadBack`, `ControlIsKept` and `RomIsKept`.
- **SessionProofs** proves `TraceIsRight` (the buffer, read backwards from the
  offset, holds the last instructions, `TraceHolds`) and `SymbolsAreLatest`. For the last, a search is the first
  hit in a chain (`Hit`), `sym_add` puts a symbol in front of two chains and
  changes no other search (`AddTable`), and a table says of every name and every
  value what the last line said (`Says`). `load_map_file` is a recursion over
  lines: that its function exists (`ReadExists`) and keeps `Says` (`LoadSays`)
  is shown by a least counterexample. `LineAssumption` says that what lines and
  maps give are numbers, and `HashAssumption` that hashes are buckets.

Two things the proofs brought out about the model. `CASE` in TLA+ is a choice
among the arms that are true, where TLC takes the first: the arms of Decode's
tables that overlapped were made disjoint, so that the definitions say what the
order of the C tests says. And `CcTransparent` was stated for five second
operands; it now ranges over the same words as the rest.

Every invariant and every action property of the passing runs is a theorem. Only
model-checked is liveness (`ReInterrupts`, `TickServed`, `MainRuns`,
`RunForStops`, `RogueEnds`, `KeyboardRegained`), since the prover has no rules
for fairness here. The theorems about the four machines are for the sizes that
the code has (`RealSizes`).

## Plan

The CPU's interrupt core, the oscillator, EON2's interrupt path, the
breakpoints, and the arithmetic and decoding came first, since every machine and
every debugging session goes through them; then the bus with its machines, the
disk, the main loop and the session around the debugger. Left:

1. The rest of the WPC's ASIC, if a property of it is found that the repository
   states.

Eon2 is not shown to refine Oscillator: it uses the same operators of TimerOps
but keeps no history of time and pulses, which would be unbounded in a run with
fairness. What carries over is proved of each: `OscillatorNeverOverruns` is the
assumption on slices, and MainLoop runs Oscillator in the loop of `main`.

## Not modelled

- The serial port and the host file: their status follows `select()` and
  `read()` of host files, and nothing in the program depends on it.
- Of the WPC the shift registers, the column-select logic, and lamps, sounds,
  solenoids and the display, which only store bytes and send datagrams.
- Option parsing and the text of S-records and hex files (their stores are
  `Machines!Loader`; hex files are loaded before any machine exists, which no
  modelled path does), displays, `print`, `examine` and the text of the
  disassembler: sequential text processing. Of expressions, only the evaluation
  of a condition.
- `hwtimer_read`, `hwtimer_write`, `bus_unmap`, the call stack and the 6309 code
  are not reached by any machine or are compiled out.
- Accesses outside the tables: slot numbers of the small MMU above 15, offsets
  past the end of a device, and a program counter above 0xffff.
