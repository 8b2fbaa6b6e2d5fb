------------------------------- MODULE BusOps -------------------------------
(***************************************************************************)
(* The bus of machine.c: for every unit of BUS_MAP_SIZE bytes of the CPU's *)
(* address space, the device mapped there, the offset into it and flags.   *)
(***************************************************************************)
EXTENDS Naturals

CONSTANTS
  BUS_MAP_SIZE, \* 128
  NUM_BUS_MAPS  \* 512

ASSUME BusAssumption == BUS_MAP_SIZE \in Nat \ {0} /\ NUM_BUS_MAPS \in Nat \ {0}

Units == 0..(NUM_BUS_MAPS - 1)

INVALID_DEVID == 255
MAP_READABLE == 1
MAP_WRITABLE == 2
MAP_READWRITE == 3
MAP_FIXED == 4

\* The bits of a flags byte.
Readable(flags) == flags % 2 = 1
Writable(flags) == (flags \div 2) % 2 = 1
Fixed(flags) == (flags \div 4) % 2 = 1

BusMap == [devid: Nat, offset: Nat, flags: Nat]

\* "Default maps will trigger faults at runtime" (machine_init).
NoMaps == [u \in Units |-> [devid |-> INVALID_DEVID, offset |-> 0, flags |-> 0]]

\* Rounded up to a number of units.
UnitCount(n) == (n + BUS_MAP_SIZE - 1) \div BUS_MAP_SIZE

\* What a unit holds after a call: u is in the range that the call maps, and a
\* fixed map is passed over.
Mapped(maps, u, start, count) == u >= start /\ u < start + count /\ ~Fixed(maps[u].flags)

\* For a mutant: a fixed map is reprogrammed like any other.
bus_map_always(maps, addr, devid, offset, len, flags) ==
  [u \in Units |->
     IF u >= UnitCount(addr) /\ u < UnitCount(addr) + UnitCount(len)
       THEN [devid |-> devid, flags |-> flags,
             offset |-> (UnitCount(offset) + (u - UnitCount(addr))) * BUS_MAP_SIZE]
       ELSE maps[u]]

\* Mutant: the offset does not advance past a unit that is fixed.
bus_map_stuck(maps, addr, devid, offset, len, flags) ==
  LET start == UnitCount(addr)
      Skipped(u) == IF \E t \in start..u : t < u /\ Fixed(maps[t].flags) THEN 1 ELSE 0
  IN  [u \in Units |->
         IF Mapped(maps, u, start, UnitCount(len))
           THEN [devid |-> devid, flags |-> flags,
                 offset |-> (UnitCount(offset) + ((u - start) - Skipped(u))) * BUS_MAP_SIZE]
           ELSE maps[u]]

\* Mutant: every unit shows the start of the page.
bus_map_flat(maps, addr, devid, offset, len, flags) ==
  [u \in Units |->
     IF Mapped(maps, u, UnitCount(addr), UnitCount(len))
       THEN [devid |-> devid, flags |-> flags, offset |-> UnitCount(offset) * BUS_MAP_SIZE]
       ELSE maps[u]]

\* Addresses, lengths and offsets are rounded up to whole units.
bus_map(maps, addr, devid, offset, len, flags) ==
  LET start == UnitCount(addr)
  IN  [u \in Units |->
         IF Mapped(maps, u, start, UnitCount(len))
           THEN [devid |-> devid, flags |-> flags,
                 offset |-> (UnitCount(offset) + (u - start)) * BUS_MAP_SIZE]
           ELSE maps[u]]

\* One call of device_define.
device_define(maps, d) == bus_map(maps, d.addr, d.devid, d.offset, d.len, d.flags)

find_map(maps, addr) == maps[addr \div BUS_MAP_SIZE]

\* The device and the offset into it that a byte of the address space stands for.
to_absolute(maps, addr) ==
  LET m == find_map(maps, addr)
  IN  [devid |-> m.devid, offset |-> m.offset + (addr % BUS_MAP_SIZE)]

\* The two bytes cpu_read16 reads: both through the map of the first.
ReadWord(maps, addr) ==
  LET first == to_absolute(maps, addr)
  IN  <<first, [first EXCEPT !.offset = @ + 1]>>

\* The two bytes that a word store writes, each through its own map; the second
\* of the last address is at address 0 (WRMEM16).
WrittenWord(maps, addr) ==
  <<to_absolute(maps, addr), to_absolute(maps, (addr + 1) % (BUS_MAP_SIZE * NUM_BUS_MAPS))>>
=============================================================================
