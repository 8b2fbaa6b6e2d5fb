------------------------------ MODULE Machines ------------------------------
(***************************************************************************)
(* The four machines on the bus: their memory maps, what their mapping     *)
(* hardware does to the bus (the EON MMU of machine.c, the small MMU of    *)
(* mmu.c behind the I/O expander, the WPC ASIC), and the faults.  The      *)
(* loader, the program and the debugger store and load at any of a set of  *)
(* addresses.                                                              *)
(***************************************************************************)
EXTENDS BusOps, Sequences

CONSTANTS
  Stores, \* by machine: the pairs of an address and a byte the program may store
  Loads,  \* by machine: the addresses it may load from
  Words   \* units of the bus whose last byte is the first of a word

Names == {"simple", "eon", "eon2", "wpc"}

Addresses == 0..65535
Bytes == 0..255

\* The words end on the bus.
ASSUME ProgramAssumption ==
  /\ \A m \in Names : Stores[m] \subseteq Addresses \X Bytes /\ Loads[m] \subseteq Addresses
  /\ Words \subseteq 0..(NUM_BUS_MAPS - 2)

VARIABLES
  machine,     \* the machine that is run
  debug,       \* debug_enabled
  running,     \* system_running
  alive,       \* the process has not ended
  monitor_on,
  busmaps,
  mmu_regs,    \* EON: the registers of the MMU
  small,       \* EON2: the registers of the small MMU
  asic,        \* WPC: the registers that map memory
  rom,         \* "image", or "changed" once something has stored into it
  programmed,  \* history: the pages, slots and regions that the program has mapped
  file_bank    \* history: WPC: the bank that a map file has selected since the
               \* register was stored, or NoBank

vars == <<machine, debug, running, alive, monitor_on, busmaps, mmu_regs, small, asic, rom,
          programmed, file_bank>>
regs == <<mmu_regs, small, asic, programmed, file_bank>>

NoBank == 256                     \* not a byte, so not a bank

Pages == 0..15
PAGESIZE == 4096                  \* MMU_PAGESIZE, SMR_PAGESIZE
UnitsPerPage == PAGESIZE \div BUS_MAP_SIZE

\* The devices in the order in which they are attached; the first has number 0.
device_table ==
  [simple |-> <<"null", "ram", "console">>,
   eon |-> <<"null", "mmu", "ram", "rom", "console", "disk">>,
   eon2 |-> <<"null", "ram", "small_mmu", "rom", "ioexpand", "serial", "disk", "imux", "hostfile",
              "oscillator">>,
   wpc |-> <<"null", "asic", "ram", "rom", "dmd">>]

\* The devices behind the I/O expander of EON2, by slot.
ios == [s \in 0..15 |->
          CASE s = 0 -> "serial" [] s = 1 -> "disk" [] s = 2 -> "small_mmu" [] s = 3 -> "imux"
            [] s = 9 -> "hostfile" [] OTHER -> "none"]

\* The number of a device of a machine.
Id(m, class) == (CHOOSE i \in DOMAIN device_table[m] : device_table[m][i] = class) - 1

Def(m, class, offset, addr, len, flags) ==
  [devid |-> Id(m, class), offset |-> offset, addr |-> addr, len |-> len, flags |-> flags]

\* A fault if the device does not exist; the access then goes to the null device.
find_device(devid) ==
  IF devid = INVALID_DEVID \/ devid >= Len(device_table[machine])
    THEN "null" ELSE device_table[machine][devid + 1]

(***************************************************************************)
(* The memory maps.                                                        *)
(***************************************************************************)
MMU_ADDR == 57344       \* 0xE000

\* The maps when the first device is defined: those of the reset of an MMU.
ResetMaps(m) ==
  CASE m = "eon" ->
         [u \in Units |-> [devid |-> 0, offset |-> (u % UnitsPerPage) * BUS_MAP_SIZE, flags |-> MAP_READWRITE]]
    [] m = "eon2" ->
         [u \in Units |-> [devid |-> Id("eon2", "ram"), offset |-> u * BUS_MAP_SIZE, flags |-> MAP_READWRITE]]
    [] OTHER -> NoMaps

\* The device_define calls of the machine's init function.
Defines ==
  [simple |-> <<Def("simple", "ram", 0, 0, 65536, MAP_READWRITE),
                Def("simple", "console", 0, 65280, 128, MAP_READWRITE)>>,
   eon |-> <<Def("eon", "mmu", 0, MMU_ADDR, 128, MAP_READWRITE + MAP_FIXED),
             Def("eon", "ram", 0, 0, 65536, MAP_READWRITE),
             Def("eon", "rom", 0, 58368, 7168, MAP_READABLE),
             Def("eon", "console", 0, 57600, 128, MAP_READWRITE),
             Def("eon", "console", 0, 65280, 128, MAP_READWRITE),
             Def("eon", "disk", 0, 57856, 128, MAP_READWRITE)>>,
   eon2 |-> <<Def("eon2", "rom", 0, 63488, 2048, MAP_READABLE),
              Def("eon2", "ioexpand", 0, 65280, 128, MAP_READWRITE)>>,
   wpc |-> <<Def("wpc", "asic", 0, 15360, 1024, MAP_READWRITE),
             Def("wpc", "ram", 0, 0, 8192, MAP_READWRITE),
             Def("wpc", "rom", 0, 16384, 16384, MAP_READABLE),
             Def("wpc", "rom", 1048576 - 32768, 32768, 32768, MAP_READABLE),
             Def("wpc", "dmd", 0, 14336, 1024, MAP_READWRITE)>>]

\* The maps once the machine is set up: the calls in their order.
DefinedMaps(m) ==
  LET Call(maps, i) == device_define(maps, Defines[m][i])
      two == Call(Call(ResetMaps(m), 1), 2)
      five == Call(Call(Call(two, 3), 4), 5)
  IN  CASE m = "eon" -> Call(five, 6) [] m = "wpc" -> five [] OTHER -> two

\* mmu_reset_complete: the registers of EON follow the maps, of which one unit
\* stands for a page.
Sampled(maps) ==
  [p \in Pages |->
     LET m == maps[4 + p * UnitsPerPage]
     IN  <<m.devid, m.offset \div PAGESIZE, m.flags % 4, 0>>]

-----------------------------------------------------------------------------
(***************************************************************************)
(* The mapping hardware.                                                   *)
(***************************************************************************)
\* Mutant: a page is mapped over its fixed units as well.
MappedPage_always(maps, page, devid, frame, flags) ==
  bus_map_always(maps, page * PAGESIZE, devid, frame * PAGESIZE, PAGESIZE, flags % 4)

\* A page of the address space shows a page of a device.
MappedPage(maps, page, devid, frame, flags) ==
  bus_map(maps, page * PAGESIZE, devid, frame * PAGESIZE, PAGESIZE, flags % 4)

mmu_write(addr, val) ==
  LET page == (addr \div 4) % 16
      new == [mmu_regs[page] EXCEPT ![1 + (addr % 4)] = val]
  IN  /\ mmu_regs' = [mmu_regs EXCEPT ![page] = new]
      /\ busmaps' = MappedPage(busmaps, page, new[1], new[2], new[3])
      /\ programmed' = programmed \cup {page}
      /\ UNCHANGED <<small, asic, file_bank>>

small_mmu_write(addr, val) ==
  /\ IF addr < 6
       THEN /\ small' = IF addr = 0 THEN [small EXCEPT !.slot = val] ELSE small
            /\ UNCHANGED <<busmaps, programmed>>
       ELSE LET slot == small.slot
                page == IF addr = 6 THEN val ELSE small.page[slot]
                flags == IF addr = 7 THEN val ELSE small.flags[slot]
            IN  /\ small' = [small EXCEPT !.page[slot] = page, !.flags[slot] = flags]
                /\ busmaps' = MappedPage(busmaps, slot, Id("eon2", "ram"), page, flags)
                /\ programmed' = programmed \cup {slot}
  /\ UNCHANGED <<mmu_regs, asic, file_bank>>

WPC_RAM_SIZE == 8192

\* The bytes at the end of the RAM that a lock size protects.
Locked(size) ==
  CASE size = 15 -> 256 [] size = 7 -> 1536 [] size = 3 -> 1024 [] size = 1 -> 2048 [] size = 0 -> 4096
    [] OTHER -> 0

wpc_update_ram(maps, a) ==
  LET writable == WPC_RAM_SIZE - (IF a.ram_unlocked # 0 THEN 0 ELSE Locked(a.ram_lock_size))
      ram == Id("wpc", "ram")
      open == bus_map(maps, 0, ram, 0, writable, MAP_READWRITE)
  IN  bus_map(open, writable, ram, writable, WPC_RAM_SIZE - writable, MAP_READABLE)

\* The device is given by a number, not by wpc->rom_dev.
wpc_set_rom_page(maps, val) == bus_map(maps, 16384, 2, val * 16384, 16384, MAP_READABLE)

\* Mutant: both halves of the display are mapped at once.
wpc_set_dmd_page_long(maps, i, val) == bus_map(maps, 14336 + i * 512, 3, val * 512, 1024, MAP_READWRITE)

wpc_set_dmd_page(maps, i, val) == bus_map(maps, 14336 + i * 512, 3, val * 512, 512, MAP_READWRITE)

\* The registers of the ASIC that map memory, at their addresses.
wpc_asic_write(addr, val) ==
  LET Set(a, maps, region) ==
        /\ asic' = a /\ busmaps' = maps /\ programmed' = programmed \cup {region}
        /\ file_bank' = IF region = "rom" THEN NoBank ELSE file_bank
      Ram(a) == Set(a, wpc_update_ram(busmaps, a), "ram")
  IN  /\ CASE addr + 15360 = 16316 ->
                Set([asic EXCEPT !.dmd_maps[1] = val], wpc_set_dmd_page(busmaps, 1, val), "dmd1")
           [] addr + 15360 = 16318 ->
                Set([asic EXCEPT !.dmd_maps[0] = val], wpc_set_dmd_page(busmaps, 0, val), "dmd0")
           [] addr + 15360 = 16380 ->
                Set([asic EXCEPT !.rombank = val], wpc_set_rom_page(busmaps, val), "rom")
           [] addr + 15360 = 16381 -> Ram([asic EXCEPT !.ram_unlocked = val])
           [] addr + 15360 = 16382 -> Ram([asic EXCEPT !.ram_lock_size = val])
           [] OTHER -> UNCHANGED <<busmaps, asic, programmed, file_bank>>
      /\ UNCHANGED <<mmu_regs, small>>

Init ==
  /\ machine \in Names
  /\ debug \in BOOLEAN /\ running = FALSE /\ alive = TRUE /\ monitor_on = FALSE
  /\ small = [slot |-> 15, page |-> [s \in Pages |-> s], flags |-> [s \in Pages |-> MAP_READWRITE]]
  /\ asic = [rombank |-> 0, ram_unlocked |-> 0, ram_lock_size |-> 0, dmd_maps |-> [i \in {0, 1} |-> 0]]
  /\ LET maps == DefinedMaps(machine)
     IN  busmaps = IF machine = "wpc" THEN wpc_update_ram(maps, asic) ELSE maps
  /\ mmu_regs = Sampled(busmaps)
  /\ rom = "image" /\ programmed = {} /\ file_bank = NoBank

-----------------------------------------------------------------------------
(***************************************************************************)
(* The access.                                                             *)
(***************************************************************************)
\* Mutant: the permissions of the map are not looked at.
Faulty_permitted(m, allowed) == running /\ m.devid >= Len(device_table[machine])

\* An access faults once the CPU is running, if no device answers or the map
\* does not allow it.
Faulty(m, allowed) == running /\ (m.devid >= Len(device_table[machine]) \/ ~allowed)

\* sim_error ends the simulator unless it has a debugger; the fault handler of
\* WPC does nothing.
Reported(faulty) == faulty /\ machine # "wpc"
Halts(faulty) == Reported(faulty) /\ ~debug

\* A slot of the expander without a device: sim_error, and then a call through
\* a null pointer.
NoBackingDevice(class, offset) == class = "ioexpand" /\ ios[offset \div 8] = "none"

\* The end of the simulator (CON_EXIT of the console, an empty slot, a fault)
\* and the prompt.
Outcome(faulty, class, offset, exit) ==
  /\ alive' = ~(Halts(faulty) \/ exit \/ NoBackingDevice(class, offset))
  /\ monitor_on' = (monitor_on \/ (debug /\ (Reported(faulty) \/ NoBackingDevice(class, offset))))

\* What the class of the device does with a byte.
DeviceWrite(class, offset, val) ==
  LET small_regs == class = "ioexpand" /\ ios[offset \div 8] = "small_mmu"
  IN  \/ class = "mmu" /\ mmu_write(offset, val) /\ rom' = rom
      \/ small_regs /\ small_mmu_write(offset % 8, val) /\ rom' = rom
      \/ class = "asic" /\ wpc_asic_write(offset, val) /\ rom' = rom
      \/ class = "rom" /\ rom' = "changed" /\ UNCHANGED <<busmaps, regs>>
      \/ /\ class \notin {"mmu", "asic", "rom"} /\ ~small_regs
         /\ UNCHANGED <<busmaps, regs, rom>>

cpu_write8(addr, val) ==
  LET m == find_map(busmaps, addr)
      class == find_device(m.devid)
      offset == m.offset + (addr % BUS_MAP_SIZE)
      faulty == Faulty(m, Writable(m.flags))
  IN  /\ Outcome(faulty, class, offset, class = "console" /\ offset = 1)
      /\ IF Halts(faulty) THEN UNCHANGED <<busmaps, regs, rom>> ELSE DeviceWrite(class, offset, val)

\* Before the CPU runs, the loader fills the memory.
Loader ==
  /\ alive /\ ~running
  /\ \E s \in Stores[machine] : cpu_write8(s[1], s[2])
  /\ UNCHANGED <<machine, debug, running>>

\* Reading a map file, before the CPU runs or with "sym" at the prompt, selects
\* the banks it names and leaves the last one; the register stays as it is.
load_map_file ==
  /\ alive /\ (~running \/ (debug /\ monitor_on)) /\ machine = "wpc"
  /\ \E page \in {0, 1} : busmaps' = wpc_set_rom_page(busmaps, page) /\ file_bank' = page
  /\ UNCHANGED <<machine, debug, running, alive, monitor_on, mmu_regs, small, asic, rom, programmed>>

\* The CPU starts, at the prompt if there is a debugger; later the debugger may
\* reset it again.
cpu_reset ==
  /\ alive /\ (~running \/ monitor_on)
  /\ running' = TRUE /\ monitor_on' = debug
  /\ UNCHANGED <<machine, debug, alive, busmaps, regs, rom>>

\* Without a program the debugger starts on a CPU that was never reset.
monitor_init ==
  /\ alive /\ ~running /\ debug /\ monitor_on' = TRUE
  /\ UNCHANGED <<machine, debug, running, alive, busmaps, regs, rom>>

Store ==
  /\ alive /\ running
  /\ \E s \in Stores[machine] : cpu_write8(s[1], s[2])
  /\ UNCHANGED <<machine, debug, running>>

\* A load has no effect on the maps; it may fault or name an empty slot.
cpu_read8 ==
  /\ alive /\ running
  /\ \E addr \in Loads[machine] :
       LET m == find_map(busmaps, addr)
       IN  Outcome(Faulty(m, Readable(m.flags)), find_device(m.devid), m.offset + (addr % BUS_MAP_SIZE), FALSE)
  /\ UNCHANGED <<machine, debug, running, busmaps, regs, rom>>

\* The debugger stores past the maps' flags, and not where no device is.
abs_write8 ==
  /\ alive /\ debug /\ monitor_on
  /\ \E s \in Stores[machine] :
       LET a == to_absolute(busmaps, s[1])
           class == find_device(a.devid)
       IN  /\ a.devid < Len(device_table[machine])
           /\ Outcome(FALSE, class, a.offset, class = "console" /\ a.offset = 1)
           /\ DeviceWrite(class, a.offset, s[2])
  /\ UNCHANGED <<machine, debug, running>>

\* The prompt is left.
Continue ==
  /\ alive /\ monitor_on /\ monitor_on' = FALSE
  /\ UNCHANGED <<machine, debug, running, alive, busmaps, regs, rom>>

Ended == ~alive /\ UNCHANGED vars

Next == Loader \/ load_map_file \/ cpu_reset \/ monitor_init \/ Store \/ cpu_read8 \/ abs_write8 \/ Continue \/ Ended

Spec == Init /\ [][Next]_vars
-----------------------------------------------------------------------------
\* The part of the address space a unit belongs to, if one register or one call
\* has mapped it as a whole.
Region(u) ==
  LET page == u \div UnitsPerPage
  IN  CASE machine = "simple" -> IF u < 510 THEN 0 ELSE u
        [] machine = "eon" -> IF page < 14 \/ page \in programmed THEN page ELSE 16 + u
        [] machine = "eon2" -> IF page < 15 \/ page \in programmed THEN page ELSE 16 + u
        [] machine = "wpc" -> CASE u < 64 -> "ram" [] u \in 112..115 -> "dmd0" [] u \in 116..119 -> "dmd1"
                                [] u \in 120..127 -> "asic" [] u \in 128..255 -> "rom"
                                [] u >= 256 -> "fixed" [] OTHER -> "none"

\* A word that lies in one region, where a device is, is read as it was written, although
\* cpu_read16 takes its second byte through the map of the first ("it implies
\* that no reads will ever occur across a device boundary", machine.c) and
\* WRMEM16 writes each byte through its own.
WordReadBack ==
  \A u \in Words :
    LET a == u * BUS_MAP_SIZE + (BUS_MAP_SIZE - 1)
    IN  /\ ~Fixed(busmaps[u].flags) /\ ~Fixed(busmaps[u + 1].flags) /\ Region(u) = Region(u + 1)
        /\ (machine = "wpc" => Region(u) # "none")
        => ReadWord(busmaps, a) = WrittenWord(busmaps, a)

\* Unit u is the i-th of what offset, of the device, is mapped there.
Shows(u, i, devid, offset, flags) ==
  \/ Fixed(busmaps[u].flags)
  \/ busmaps[u] = [devid |-> devid, offset |-> offset + i * BUS_MAP_SIZE, flags |-> flags]

\* WPC: the bank that was selected last, by a map file or by the register.
Selected == IF file_bank # NoBank THEN file_bank ELSE asic.rombank

\* The bus shows what the registers say, whatever was stored to them before and
\* in whichever order: for EON the pages the program has mapped (the registers of
\* the others are sampled from one unit, mmu_reset_complete), for EON2 all slots
\* but the one it shares with the ROM, for WPC the locked part of the RAM, the
\* bank and the pages of the display (mmu_write, small_mmu_write, wpc_asic_write).
\* Where WPC departs from what its registers are for, this is what it does: the
\* numbers 2 and 3 in wpc_set_rom_page and wpc_set_dmd_page are those of the RAM
\* and the ROM, so the bank shows RAM and the display pages show the ROM, which
\* can be written there; and after a map file the bank is the one the file named
\* last, also under a running program, until the register is stored again.
RegistersDescribe ==
  \A u \in Units :
    LET page == u \div UnitsPerPage
        i == u % UnitsPerPage
        protected == IF asic.ram_unlocked # 0 THEN 0 ELSE Locked(asic.ram_lock_size)
    IN  CASE machine = "eon" /\ page \in programmed ->
               Shows(u, i, mmu_regs[page][1], mmu_regs[page][2] * PAGESIZE, mmu_regs[page][3] % 4)
          [] machine = "eon2" /\ (page # 15 \/ 15 \in programmed) ->
               Shows(u, i, Id("eon2", "ram"), small.page[page] * PAGESIZE, small.flags[page] % 4)
          [] machine = "wpc" /\ Region(u) = "ram" ->
               Shows(u, u, Id("wpc", "ram"), 0,
                     IF u * BUS_MAP_SIZE < WPC_RAM_SIZE - protected THEN MAP_READWRITE ELSE MAP_READABLE)
          [] machine = "wpc" /\ Region(u) = "rom" /\ ("rom" \in programmed \/ file_bank # NoBank) ->
               Shows(u, u - 128, Id("wpc", "ram"), Selected * 16384, MAP_READABLE)
          [] machine = "wpc" /\ Region(u) \in programmed \cap {"dmd0", "dmd1"} ->
               Shows(u, u % 4, Id("wpc", "rom"),
                     asic.dmd_maps[IF Region(u) = "dmd0" THEN 0 ELSE 1] * 512, MAP_READWRITE)
          [] OTHER -> TRUE

\* "A fixed map cannot be reprogrammed. Attempts to bus_map something
\* differently will silently be ignored." (machine.h)
FixedKept ==
  [][\A u \in Units : Fixed(busmaps[u].flags) => busmaps'[u] = busmaps[u]]_vars

\* The program cannot lose the registers that map its memory: the ASIC of WPC,
\* and the expander of EON2 until slot 15 is mapped, which covers it.
ControlKept ==
  [][\A u \in Units :
       \/ machine = "wpc" /\ Region(u) = "asic"
       \/ machine = "eon2" /\ u = 510 /\ 15 \notin programmed'
       => busmaps'[u] = busmaps[u]]_vars

\* The ROM of a running machine never changes unnoticed.  It changes by the
\* debugger at its prompt or, with a debugger, by a store that faults and brings
\* the prompt: sim_error returns and cpu_write8 goes on to write, although eon.h
\* calls the ROM read-only.  It changes without notice only on the WPC, whose
\* fault handler is empty, or if the registers of EON's MMU show it as writable.
RomKept ==
  [][rom' # rom =>
       \/ ~running \/ monitor_on' \/ machine = "wpc"
       \/ \E p \in Pages : mmu_regs[p][1] = Id("eon", "rom") /\ Writable(mmu_regs[p][3])]_vars
=============================================================================
