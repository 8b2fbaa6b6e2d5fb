------------------------------ MODULE BusProofs ------------------------------
(***************************************************************************)
(* Proofs about Machines.  For every size of the bus and every set of      *)
(* stores: a fixed map stays.  At the sizes of machine.h, for every        *)
(* program: the registers of the mapping hardware describe the bus, a word *)
(* that is mapped as a whole is read as it is written, the mapping         *)
(* hardware stays reachable, and the ROM changes only as it may.           *)
(*                                                                         *)
(* A call of bus_map is reduced to what it puts in each unit (Puts), the   *)
(* init functions and the registers to such calls (DefinedMaps, MapStep),  *)
(* and the invariant BusInv says for each machine what they have left.     *)
(***************************************************************************)
EXTENDS Machines, TLAPS

\* Every unit that is fixed in old is the same in new.
Keeps(old, new) == \A u \in Units : Fixed(old[u].flags) => new[u] = old[u]

-----------------------------------------------------------------------------
(***************************************************************************)
(* The maps.                                                               *)
(***************************************************************************)
\* bus_map passes over the fixed units, wherever the range lies.
LEMMA BusMapKeeps ==
  ASSUME NEW maps, NEW addr, NEW devid, NEW offset, NEW len, NEW flags
  PROVE  Keeps(maps, bus_map(maps, addr, devid, offset, len, flags))
BY DEF Keeps, bus_map, Mapped

\* Two calls one after the other keep what each keeps.
LEMMA KeepsTransitive ==
  ASSUME NEW a, NEW b, NEW c, Keeps(a, b), Keeps(b, c)
  PROVE  Keeps(a, c)
BY DEF Keeps

\* wpc_update_ram maps the open and then the locked part of the RAM.
LEMMA UpdateRamKeeps ==
  ASSUME NEW maps, NEW a
  PROVE  Keeps(maps, wpc_update_ram(maps, a))
<1> DEFINE writable == WPC_RAM_SIZE - (IF a.ram_unlocked # 0 THEN 0 ELSE Locked(a.ram_lock_size))
           ram == Id("wpc", "ram")
           open == bus_map(maps, 0, ram, 0, writable, MAP_READWRITE)
           both == bus_map(open, writable, ram, writable, WPC_RAM_SIZE - writable, MAP_READABLE)
<1>1. Keeps(maps, open)
  BY BusMapKeeps
<1>2. Keeps(open, both)
  BY BusMapKeeps
<1>3. wpc_update_ram(maps, a) = both
  BY DEF wpc_update_ram
<1> QED
  BY <1>1, <1>2, <1>3, KeepsTransitive

\* The bank of ROM is mapped by one call.
LEMMA RomPageKeeps ==
  ASSUME NEW maps, NEW val
  PROVE  Keeps(maps, wpc_set_rom_page(maps, val))
BY BusMapKeeps DEF wpc_set_rom_page

\* So is a page of the display.
LEMMA DmdPageKeeps ==
  ASSUME NEW maps, NEW i, NEW val
  PROVE  Keeps(maps, wpc_set_dmd_page(maps, i, val))
BY BusMapKeeps DEF wpc_set_dmd_page

\* And a page of an MMU.
LEMMA MappedPageKeeps ==
  ASSUME NEW maps, NEW page, NEW devid, NEW frame, NEW flags
  PROVE  Keeps(maps, MappedPage(maps, page, devid, frame, flags))
BY BusMapKeeps DEF MappedPage

\* A step that maps nothing keeps everything.
LEMMA UnchangedKeeps ==
  ASSUME UNCHANGED busmaps
  PROVE  Keeps(busmaps, busmaps')
BY DEF Keeps

-----------------------------------------------------------------------------
(***************************************************************************)
(* The mapping hardware.                                                   *)
(***************************************************************************)
LEMMA MmuWriteKeeps ==
  ASSUME NEW addr, NEW val, mmu_write(addr, val)
  PROVE  Keeps(busmaps, busmaps')
BY MappedPageKeeps DEF mmu_write

\* The registers below 6 map nothing, the others a slot.
LEMMA SmallMmuWriteKeeps ==
  ASSUME NEW addr, NEW val, small_mmu_write(addr, val)
  PROVE  Keeps(busmaps, busmaps')
<1>1. CASE addr < 6
  BY <1>1, UnchangedKeeps DEF small_mmu_write
<1>2. CASE ~(addr < 6)
  BY <1>2, MappedPageKeeps DEF small_mmu_write
<1> QED
  BY <1>1, <1>2

\* Every register of the ASIC that maps memory does it by bus_map.
LEMMA AsicWriteKeeps ==
  ASSUME NEW addr, NEW val, wpc_asic_write(addr, val)
  PROVE  Keeps(busmaps, busmaps')
<1>1. \/ busmaps' = wpc_set_dmd_page(busmaps, 1, val)
      \/ busmaps' = wpc_set_dmd_page(busmaps, 0, val)
      \/ busmaps' = wpc_set_rom_page(busmaps, val)
      \/ busmaps' = wpc_update_ram(busmaps, [asic EXCEPT !.ram_unlocked = val])
      \/ busmaps' = wpc_update_ram(busmaps, [asic EXCEPT !.ram_lock_size = val])
      \/ UNCHANGED busmaps
  BY DEF wpc_asic_write
<1> QED
  BY <1>1, DmdPageKeeps, RomPageKeeps, UpdateRamKeeps, UnchangedKeeps

\* No other device maps anything.
LEMMA DeviceWriteKeeps ==
  ASSUME NEW class, NEW offset, NEW val, DeviceWrite(class, offset, val)
  PROVE  Keeps(busmaps, busmaps')
<1>1. \/ mmu_write(offset, val)
      \/ small_mmu_write(offset % 8, val)
      \/ wpc_asic_write(offset, val)
      \/ UNCHANGED busmaps
  BY DEF DeviceWrite
<1> QED
  BY <1>1, MmuWriteKeeps, SmallMmuWriteKeeps, AsicWriteKeeps, UnchangedKeeps

\* A store, also one that faults and one that ends the simulator.
LEMMA WriteKeeps ==
  ASSUME NEW addr, NEW val, cpu_write8(addr, val)
  PROVE  Keeps(busmaps, busmaps')
<1> DEFINE m == find_map(busmaps, addr)
           class == find_device(m.devid)
           offset == m.offset + (addr % BUS_MAP_SIZE)
<1>1. UNCHANGED busmaps \/ DeviceWrite(class, offset, val)
  BY DEF cpu_write8
<1> HIDE DEF m, class, offset
<1> QED
  BY <1>1, DeviceWriteKeeps, UnchangedKeeps

-----------------------------------------------------------------------------
(***************************************************************************)
(* The steps.                                                              *)
(***************************************************************************)
LEMMA StepKeeps ==
  ASSUME [Next]_vars
  PROVE  Keeps(busmaps, busmaps')
<1>1. CASE Loader
  BY <1>1, WriteKeeps DEF Loader
<1>2. CASE load_map_file
  BY <1>2, RomPageKeeps DEF load_map_file
<1>3. CASE cpu_reset
  BY <1>3, UnchangedKeeps DEF cpu_reset
<1>4. CASE monitor_init
  BY <1>4, UnchangedKeeps DEF monitor_init
<1>5. CASE Store
  BY <1>5, WriteKeeps DEF Store
<1>6. CASE cpu_read8
  BY <1>6, UnchangedKeeps DEF cpu_read8
<1>7. CASE abs_write8
  <2>1. PICK s \in Stores[machine] :
          DeviceWrite(find_device(to_absolute(busmaps, s[1]).devid), to_absolute(busmaps, s[1]).offset, s[2])
    BY <1>7 DEF abs_write8
  <2> QED
    BY <2>1, DeviceWriteKeeps
<1>8. CASE Continue
  BY <1>8, UnchangedKeeps DEF Continue
<1>9. CASE Ended
  BY <1>9, UnchangedKeeps DEF Ended, vars
<1>10. CASE UNCHANGED vars
  BY <1>10, UnchangedKeeps DEF vars
<1> QED
  BY <1>1, <1>2, <1>3, <1>4, <1>5, <1>6, <1>7, <1>8, <1>9, <1>10 DEF Next

\* "A fixed map cannot be reprogrammed" (machine.h): no step of the loader, the
\* program or the debugger changes a unit whose map is fixed, on any machine.
THEOREM FixedMapsStay == Spec => FixedKept
<1>1. [Next]_vars => [\A u \in Units : Fixed(busmaps[u].flags) => busmaps'[u] = busmaps[u]]_vars
  BY StepKeeps DEF Keeps
<1> QED
  BY <1>1, PTL DEF Spec, FixedKept

-----------------------------------------------------------------------------
(***************************************************************************)
(* The maps of the machines, at the sizes of machine.h.                    *)
(***************************************************************************)
RealSizes == BUS_MAP_SIZE = 128 /\ NUM_BUS_MAPS = 512

Maps == [0..511 -> BusMap]

\* What a call leaves in every unit: l units from unit a on show the device
\* from its unit o on.
MapUnits(maps, a, devid, o, l, flags) ==
  [u \in 0..511 |->
     IF u >= a /\ u < a + l /\ ~Fixed(maps[u].flags)
       THEN [devid |-> devid, flags |-> flags, offset |-> (o + (u - a)) * 128]
       ELSE maps[u]]

\* 512 units, of which a page has 32.
LEMMA RealUnits == RealSizes => Units = 0..511 /\ UnitsPerPage = 32
BY DEF RealSizes, Units, UnitsPerPage, PAGESIZE

\* Whole units are not rounded.
LEMMA WholeUnits ==
  ASSUME RealSizes, NEW k \in Nat
  PROVE  UnitCount(k * 128) = k
BY DEF RealSizes, UnitCount

\* bus_map, called with whole units.
LEMMA BusMapUnits ==
  ASSUME RealSizes, NEW maps, NEW a \in Nat, NEW devid, NEW o \in Nat, NEW l \in Nat, NEW flags
  PROVE  bus_map(maps, a * 128, devid, o * 128, l * 128, flags) = MapUnits(maps, a, devid, o, l, flags)
<1>1. UnitCount(a * 128) = a /\ UnitCount(o * 128) = o /\ UnitCount(l * 128) = l  BY WholeUnits
<1> HIDE DEF UnitCount
<1>2. Units = 0..511  BY RealUnits
<1> QED  BY <1>1, <1>2 DEF bus_map, Mapped, MapUnits, RealSizes

\* Whether such a call maps unit u.
Covers(maps, u, a, l) == u >= a /\ u < a + l /\ ~Fixed(maps[u].flags)

\* What a call leaves: well-typed maps that show the device in the units it
\* covers, and the maps of before in the others.
Puts(maps, a, devid, o, l, flags, new) ==
  /\ new \in Maps
  /\ \A u \in 0..511 :
       /\ Covers(maps, u, a, l) =>
            new[u].devid = devid /\ new[u].offset = (o + (u - a)) * 128 /\ new[u].flags = flags
       /\ ~Covers(maps, u, a, l) => new[u] = maps[u]

\* MapUnits is such a call.
LEMMA MapUnitsIs ==
  ASSUME NEW maps \in Maps, NEW a \in Nat, NEW devid \in Nat, NEW o \in Nat, NEW l \in Nat,
         NEW flags \in Nat, NEW new, new = MapUnits(maps, a, devid, o, l, flags)
  PROVE  Puts(maps, a, devid, o, l, flags, new)
<1>1. ASSUME NEW u \in 0..511, Covers(maps, u, a, l)
      PROVE  /\ new[u] \in BusMap
             /\ new[u].devid = devid /\ new[u].offset = (o + (u - a)) * 128 /\ new[u].flags = flags
  <2>1. (o + (u - a)) * 128 \in Nat  BY <1>1 DEF Covers
  <2>2. new[u] = [devid |-> devid, flags |-> flags, offset |-> (o + (u - a)) * 128]
    BY <1>1 DEF MapUnits, Covers
  <2> QED  BY <2>1, <2>2 DEF BusMap
<1>2. ASSUME NEW u \in 0..511, ~Covers(maps, u, a, l)
      PROVE  new[u] = maps[u] /\ new[u] \in BusMap
  <2>1. new[u] = maps[u]  BY <1>2 DEF MapUnits, Covers
  <2> QED  BY <2>1 DEF Maps
<1>3. new = [u \in 0..511 |-> new[u]]
  BY DEF MapUnits
<1>4. \A u \in 0..511 : new[u] \in BusMap  BY <1>1, <1>2
<1>5. new \in Maps
  BY <1>3, <1>4 DEF Maps
<1> QED  BY <1>1, <1>2, <1>5 DEF Puts

\* Of the flags that an MMU is given only two bits reach the bus, so what it
\* maps is never fixed, and writable if and only if the flags say so.
LEMMA TwoBits ==
  ASSUME NEW f \in Nat
  PROVE  f % 4 \in Nat /\ ~Fixed(f % 4) /\ (Writable(f % 4) <=> Writable(f))
BY DEF Fixed, Writable

\* The flags that the machines use.
LEMMA FlagBits ==
  /\ ~Fixed(MAP_READABLE) /\ ~Fixed(MAP_READWRITE) /\ Fixed(MAP_READWRITE + MAP_FIXED)
  /\ ~Writable(MAP_READABLE) /\ ~Fixed(0)
  /\ MAP_READABLE \in Nat /\ MAP_READWRITE \in Nat /\ MAP_READWRITE + MAP_FIXED \in Nat
BY DEF Fixed, Writable, MAP_READABLE, MAP_READWRITE, MAP_FIXED

\* A page of the address space.
LEMMA PageUnits ==
  ASSUME RealSizes, NEW maps, NEW page \in Nat, NEW devid, NEW frame \in Nat, NEW flags
  PROVE  MappedPage(maps, page, devid, frame, flags)
           = MapUnits(maps, page * 32, devid, frame * 32, 32, flags % 4)
<1>1. page * PAGESIZE = (page * 32) * 128 /\ frame * PAGESIZE = (frame * 32) * 128 /\ PAGESIZE = 32 * 128
  BY DEF PAGESIZE
<1>2. page * 32 \in Nat /\ frame * 32 \in Nat  OBVIOUS
<1>3. bus_map(maps, (page * 32) * 128, devid, (frame * 32) * 128, 32 * 128, flags % 4)
        = MapUnits(maps, page * 32, devid, frame * 32, 32, flags % 4)
  BY <1>2, BusMapUnits
<1> QED  BY <1>1, <1>3 DEF MappedPage

\* wpc_set_rom_page maps the 128 units of the bank.
LEMMA RomPageUnits ==
  ASSUME RealSizes, NEW maps, NEW val \in Nat
  PROVE  wpc_set_rom_page(maps, val) = MapUnits(maps, 128, 2, val * 128, 128, MAP_READABLE)
<1>1. 16384 = 128 * 128 /\ val * 16384 = (val * 128) * 128 /\ val * 128 \in Nat  OBVIOUS
<1>2. bus_map(maps, 128 * 128, 2, (val * 128) * 128, 128 * 128, MAP_READABLE)
        = MapUnits(maps, 128, 2, val * 128, 128, MAP_READABLE)
  BY <1>1, BusMapUnits
<1> QED  BY <1>1, <1>2 DEF wpc_set_rom_page

\* wpc_set_dmd_page maps four units, of the first or the second half.
LEMMA DmdPageUnits ==
  ASSUME RealSizes, NEW maps, NEW i \in {0, 1}, NEW val \in Nat
  PROVE  wpc_set_dmd_page(maps, i, val) = MapUnits(maps, 112 + i * 4, 3, val * 4, 4, MAP_READWRITE)
<1>1. 14336 + i * 512 = (112 + i * 4) * 128 /\ val * 512 = (val * 4) * 128 /\ 512 = 4 * 128
      /\ val * 4 \in Nat /\ 112 + i * 4 \in Nat
  OBVIOUS
<1>2. bus_map(maps, (112 + i * 4) * 128, 3, (val * 4) * 128, 4 * 128, MAP_READWRITE)
        = MapUnits(maps, 112 + i * 4, 3, val * 4, 4, MAP_READWRITE)
  BY <1>1, BusMapUnits
<1> QED  BY <1>1, <1>2 DEF wpc_set_dmd_page

\* The first unit of the protected part of the RAM.
Open(a) == IF a.ram_unlocked # 0 THEN 64 ELSE 64 - (Locked(a.ram_lock_size) \div 128)

\* A lock size protects whole units, at most half of the RAM.
LEMMA LockedUnits ==
  ASSUME NEW size
  PROVE  Locked(size) \in {0, 256, 1536, 1024, 2048, 4096}
BY DEF Locked

\* So between 32 and all 64 units of the RAM are open.
LEMMA OpenRange ==
  ASSUME NEW a
  PROVE  Open(a) \in 32..64
<1>1. Locked(a.ram_lock_size) \in {0, 256, 1536, 1024, 2048, 4096}  BY LockedUnits
<1> QED  BY <1>1 DEF Open

\* wpc_update_ram maps the open units and then the locked ones.
LEMMA UpdateRamUnits ==
  ASSUME RealSizes, NEW maps, NEW a
  PROVE  /\ Open(a) \in 32..64
         /\ wpc_update_ram(maps, a)
              = MapUnits(MapUnits(maps, 0, Id("wpc", "ram"), 0, Open(a), MAP_READWRITE),
                         Open(a), Id("wpc", "ram"), Open(a), 64 - Open(a), MAP_READABLE)
<1> DEFINE writable == WPC_RAM_SIZE - (IF a.ram_unlocked # 0 THEN 0 ELSE Locked(a.ram_lock_size))
           ram == Id("wpc", "ram")
           first == MapUnits(maps, 0, ram, 0, Open(a), MAP_READWRITE)
<1>1. Locked(a.ram_lock_size) \in {0, 256, 1536, 1024, 2048, 4096}  BY LockedUnits
<1>2. Open(a) \in 32..64 /\ writable = Open(a) * 128 /\ WPC_RAM_SIZE - writable = (64 - Open(a)) * 128
  BY <1>1 DEF Open, WPC_RAM_SIZE
<1>3. wpc_update_ram(maps, a)
        = bus_map(bus_map(maps, 0, ram, 0, writable, MAP_READWRITE),
                  writable, ram, writable, WPC_RAM_SIZE - writable, MAP_READABLE)
  BY DEF wpc_update_ram
<1> HIDE DEF writable, ram
<1>4. bus_map(maps, 0 * 128, ram, 0 * 128, Open(a) * 128, MAP_READWRITE) = first
  BY <1>2, BusMapUnits
<1>5. bus_map(maps, 0, ram, 0, writable, MAP_READWRITE) = first
  BY <1>2, <1>4
<1> HIDE DEF first
<1>6. bus_map(first, Open(a) * 128, ram, Open(a) * 128, (64 - Open(a)) * 128, MAP_READABLE)
        = MapUnits(first, Open(a), ram, Open(a), 64 - Open(a), MAP_READABLE)
  BY <1>2, BusMapUnits
<1>7. wpc_update_ram(maps, a) = MapUnits(first, Open(a), ram, Open(a), 64 - Open(a), MAP_READABLE)
  BY <1>2, <1>3, <1>5, <1>6
<1> QED  BY <1>2, <1>7 DEF first, ram

-----------------------------------------------------------------------------
(***************************************************************************)
(* The devices.                                                            *)
(***************************************************************************)
\* The tables, one by one.
LEMMA Tables ==
  /\ device_table["simple"] = <<"null", "ram", "console">>
  /\ device_table["eon"] = <<"null", "mmu", "ram", "rom", "console", "disk">>
  /\ device_table["eon2"] = <<"null", "ram", "small_mmu", "rom", "ioexpand", "serial", "disk", "imux",
                              "hostfile", "oscillator">>
  /\ device_table["wpc"] = <<"null", "asic", "ram", "rom", "dmd">>
BY DEF device_table

\* The numbers of the devices are their places in the tables.
LEMMA SimpleIds ==
  /\ Id("simple", "ram") = 1
  /\ Id("simple", "console") = 2
<1>1. (CHOOSE j \in DOMAIN device_table["simple"] : device_table["simple"][j] = "ram") = 2  BY Tables
<1>2. (CHOOSE j \in DOMAIN device_table["simple"] : device_table["simple"][j] = "console") = 3  BY Tables
<1> QED  BY <1>1, <1>2 DEF Id

\* The numbers of the devices of EON.
LEMMA EonIds ==
  /\ Id("eon", "mmu") = 1
  /\ Id("eon", "ram") = 2
  /\ Id("eon", "rom") = 3
  /\ Id("eon", "console") = 4
  /\ Id("eon", "disk") = 5
<1>1. (CHOOSE j \in DOMAIN device_table["eon"] : device_table["eon"][j] = "mmu") = 2  BY Tables
<1>2. (CHOOSE j \in DOMAIN device_table["eon"] : device_table["eon"][j] = "ram") = 3  BY Tables
<1>3. (CHOOSE j \in DOMAIN device_table["eon"] : device_table["eon"][j] = "rom") = 4  BY Tables
<1>4. (CHOOSE j \in DOMAIN device_table["eon"] : device_table["eon"][j] = "console") = 5  BY Tables
<1>5. (CHOOSE j \in DOMAIN device_table["eon"] : device_table["eon"][j] = "disk") = 6  BY Tables
<1> QED  BY <1>1, <1>2, <1>3, <1>4, <1>5 DEF Id

\* The numbers of the devices of EON2.
LEMMA Eon2Ids ==
  /\ Id("eon2", "ram") = 1
  /\ Id("eon2", "rom") = 3
  /\ Id("eon2", "ioexpand") = 4
<1>1. (CHOOSE j \in DOMAIN device_table["eon2"] : device_table["eon2"][j] = "ram") = 2  BY Tables
<1>2. (CHOOSE j \in DOMAIN device_table["eon2"] : device_table["eon2"][j] = "rom") = 4  BY Tables
<1>3. (CHOOSE j \in DOMAIN device_table["eon2"] : device_table["eon2"][j] = "ioexpand") = 5  BY Tables
<1> QED  BY <1>1, <1>2, <1>3 DEF Id

\* The numbers of the devices of WPC.
LEMMA WpcIds ==
  /\ Id("wpc", "asic") = 1
  /\ Id("wpc", "ram") = 2
  /\ Id("wpc", "rom") = 3
  /\ Id("wpc", "dmd") = 4
<1>1. (CHOOSE j \in DOMAIN device_table["wpc"] : device_table["wpc"][j] = "asic") = 2  BY Tables
<1>2. (CHOOSE j \in DOMAIN device_table["wpc"] : device_table["wpc"][j] = "ram") = 3  BY Tables
<1>3. (CHOOSE j \in DOMAIN device_table["wpc"] : device_table["wpc"][j] = "rom") = 4  BY Tables
<1>4. (CHOOSE j \in DOMAIN device_table["wpc"] : device_table["wpc"][j] = "dmd") = 5  BY Tables
<1> QED  BY <1>1, <1>2, <1>3, <1>4 DEF Id

\* The mapping hardware that each machine has, and where its ROM is.
LEMMA Classes ==
  ASSUME machine \in Names, NEW d \in Nat
  PROVE  /\ machine = "simple" => find_device(d) \notin {"mmu", "ioexpand", "asic", "rom"}
         /\ machine = "eon" => find_device(d) \notin {"ioexpand", "asic"}
         /\ machine = "eon2" => find_device(d) \notin {"mmu", "asic"}
         /\ machine = "wpc" => find_device(d) \notin {"mmu", "ioexpand"}
         /\ machine \in {"eon", "eon2"} /\ find_device(d) = "rom" => d = 3
<1>1. CASE d = INVALID_DEVID \/ d >= Len(device_table[machine])
  BY <1>1 DEF find_device
<1>2. CASE ~(d = INVALID_DEVID \/ d >= Len(device_table[machine]))
  <2>1. find_device(d) = device_table[machine][d + 1]  BY <1>2 DEF find_device
  <2>2. CASE machine = "simple"
    <3>1. d + 1 \in 1..3  BY <1>2, <2>2, Tables
    <3> QED  BY <2>1, <2>2, <3>1, Tables
  <2>3. CASE machine = "eon"
    <3>1. d + 1 \in 1..6  BY <1>2, <2>3, Tables
    <3> QED  BY <2>1, <2>3, <3>1, Tables
  <2>4. CASE machine = "eon2"
    <3>1. d + 1 \in 1..10  BY <1>2, <2>4, Tables
    <3> QED  BY <2>1, <2>4, <3>1, Tables
  <2>5. CASE machine = "wpc"
    <3>1. d + 1 \in 1..5  BY <1>2, <2>5, Tables
    <3> QED  BY <2>1, <2>5, <3>1, Tables
  <2> QED  BY <2>2, <2>3, <2>4, <2>5 DEF Names
<1> QED  BY <1>1, <1>2

-----------------------------------------------------------------------------
(***************************************************************************)
(* The maps once the machine is set up.                                    *)
(***************************************************************************)
\* A call of device_define with whole units.
LEMMA DefineUnits ==
  ASSUME RealSizes, NEW maps, NEW devid, NEW o \in Nat, NEW a \in Nat, NEW l \in Nat, NEW flags,
         NEW d, d = [devid |-> devid, offset |-> o * 128, addr |-> a * 128, len |-> l * 128, flags |-> flags]
  PROVE  device_define(maps, d) = MapUnits(maps, a, devid, o, l, flags)
<1>1. device_define(maps, d) = bus_map(maps, a * 128, devid, o * 128, l * 128, flags)
  BY DEF device_define
<1> QED  BY <1>1, BusMapUnits

\* What every call keeps: the typing, that no map is fixed, that the ROM is
\* locked.
LEMMA PutsTyped ==
  ASSUME NEW maps, NEW a, NEW devid, NEW o, NEW l, NEW flags, NEW new, Puts(maps, a, devid, o, l, flags, new)
  PROVE  new \in Maps
BY DEF Puts

\* No map is fixed.
NoneFixed(maps) == \A u \in 0..511 : ~Fixed(maps[u].flags)

\* A call whose flags are not fixed fixes nothing.
LEMMA PutsNoneFixed ==
  ASSUME NEW maps, NEW a, NEW devid, NEW o, NEW l, NEW flags, NEW new,
         Puts(maps, a, devid, o, l, flags, new), NoneFixed(maps), ~Fixed(flags)
  PROVE  NoneFixed(new)
<1> SUFFICES ASSUME NEW u \in 0..511 PROVE ~Fixed(new[u].flags)  BY DEF NoneFixed
<1>1. CASE Covers(maps, u, a, l)
  <2>1. new[u].flags = flags  BY <1>1 DEF Puts
  <2> QED  BY <2>1
<1>2. CASE ~Covers(maps, u, a, l)
  <2>1. new[u] = maps[u]  BY <1>2 DEF Puts
  <2> QED  BY <2>1 DEF NoneFixed
<1> QED  BY <1>1, <1>2

\* Nothing may be stored into device 3, the ROM of EON and EON2, through a map
\* that allows it or is fixed.
RomLocked(maps) ==
  \A u \in 0..511 : maps[u].devid = 3 => ~Fixed(maps[u].flags) /\ ~Writable(maps[u].flags)

\* The ROM stays locked if a call maps something else, or maps it to be read.
LEMMA PutsRomLocked ==
  ASSUME NEW maps, NEW a, NEW devid \in Nat, NEW o, NEW l, NEW flags, NEW new,
         Puts(maps, a, devid, o, l, flags, new), RomLocked(maps), devid # 3 \/ flags = MAP_READABLE
  PROVE  RomLocked(new)
<1> SUFFICES ASSUME NEW u \in 0..511, new[u].devid = 3
             PROVE  ~Fixed(new[u].flags) /\ ~Writable(new[u].flags)
  BY DEF RomLocked
<1>1. CASE Covers(maps, u, a, l)
  <2>1. new[u].flags = flags /\ new[u].devid = devid  BY <1>1 DEF Puts
  <2> QED  BY <2>1, FlagBits
<1>2. CASE ~Covers(maps, u, a, l)
  <2>1. new[u] = maps[u]  BY <1>2 DEF Puts
  <2> QED  BY <2>1 DEF RomLocked
<1> QED  BY <1>1, <1>2

\* From unit lo up to unit hi the bus shows a device from its unit o on.
Linear(maps, lo, hi, devid, o) ==
  \A u \in 0..511 : u >= lo /\ u < hi => maps[u].devid = devid /\ maps[u].offset = (o + (u - lo)) * 128

\* A call makes the units it names show the device, unless one is fixed.
LEMMA PutsLinear ==
  ASSUME NEW maps, NEW a \in Nat, NEW devid, NEW o, NEW l \in Nat, NEW flags, NEW new, NEW hi, hi = a + l,
         Puts(maps, a, devid, o, l, flags, new), NoneFixed(maps)
  PROVE  Linear(new, a, hi, devid, o)
<1> SUFFICES ASSUME NEW u \in 0..511, u >= a, u < hi
             PROVE  new[u].devid = devid /\ new[u].offset = (o + (u - a)) * 128
  BY Zenon DEF Linear
<1>1. ~Fixed(maps[u].flags)  BY Zenon DEF NoneFixed
<1>2. Covers(maps, u, a, l)  BY <1>1 DEF Covers
<1> QED  BY <1>2, Zenon DEF Puts

\* What the bus shows elsewhere stays.
LEMMA PutsKeepsLinear ==
  ASSUME NEW maps, NEW a \in Nat, NEW devid, NEW o, NEW l \in Nat, NEW flags, NEW new,
         Puts(maps, a, devid, o, l, flags, new),
         NEW lo \in Nat, NEW hi \in Nat, NEW d, NEW p, Linear(maps, lo, hi, d, p), hi <= a \/ a + l <= lo
  PROVE  Linear(new, lo, hi, d, p)
<1> SUFFICES ASSUME NEW u \in 0..511, u >= lo, u < hi
             PROVE  new[u].devid = d /\ new[u].offset = (p + (u - lo)) * 128
  BY Zenon DEF Linear
<1>1. ~Covers(maps, u, a, l)  BY DEF Covers
<1>2. new[u] = maps[u]  BY <1>1, Zenon DEF Puts
<1>3. maps[u].devid = d /\ maps[u].offset = (p + (u - lo)) * 128  BY Zenon DEF Linear
<1> QED  BY <1>2, <1>3, Zenon

\* No unit of the bus is mapped before the first call.
LEMMA NoMapsTyped ==
  ASSUME RealSizes
  PROVE  NoMaps \in Maps /\ NoneFixed(NoMaps)
<1>1. NoMaps \in Maps /\ \A u \in 0..511 : NoMaps[u].flags = 0
  BY RealUnits DEF NoMaps, Maps, BusMap, INVALID_DEVID
<1> QED  BY <1>1, FlagBits DEF NoneFixed

\* The simple machine: RAM, and the console in unit 510.
LEMMA SimpleStart ==
  ASSUME RealSizes
  PROVE  LET maps == DefinedMaps("simple")
         IN  /\ maps \in Maps
             /\ \A u \in 0..511 : u < 510 => maps[u].devid = 1 /\ maps[u].offset = u * 128
<1> DEFINE d1 == Defines["simple"][1]
           d2 == Defines["simple"][2]
           m1 == device_define(NoMaps, d1)
           m2 == device_define(m1, d2)
<1>1. /\ d1 = [devid |-> 1, offset |-> 0 * 128, addr |-> 0 * 128, len |-> 512 * 128, flags |-> MAP_READWRITE]
      /\ d2 = [devid |-> 2, offset |-> 0 * 128, addr |-> 510 * 128, len |-> 1 * 128, flags |-> MAP_READWRITE]
  BY SimpleIds DEF Defines, Def
<1>2. DefinedMaps("simple") = m2
  BY DEF DefinedMaps, ResetMaps
<1> HIDE DEF d1, d2
<1>3. Puts(NoMaps, 0, 1, 0, 512, MAP_READWRITE, m1)
  <2>1. m1 = MapUnits(NoMaps, 0, 1, 0, 512, MAP_READWRITE)  BY <1>1, DefineUnits
  <2> QED  BY <2>1, NoMapsTyped, FlagBits, MapUnitsIs
<1> HIDE DEF m1
<1>4. m1 \in Maps  BY <1>3, PutsTyped
<1>5. Puts(m1, 510, 2, 0, 1, MAP_READWRITE, m2)
  <2>1. m2 = MapUnits(m1, 510, 2, 0, 1, MAP_READWRITE)  BY <1>1, DefineUnits
  <2> QED  BY <2>1, <1>4, FlagBits, MapUnitsIs
<1> HIDE DEF m2
<1>6. m2 \in Maps  BY <1>5, PutsTyped
<1>7. ASSUME NEW u \in 0..511, u < 510
      PROVE  m2[u].devid = 1 /\ m2[u].offset = u * 128
  <2>1. ~Fixed(NoMaps[u].flags)  BY NoMapsTyped DEF NoneFixed
  <2>2. Covers(NoMaps, u, 0, 512)  BY <2>1 DEF Covers
  <2>3. m1[u].devid = 1 /\ m1[u].offset = (0 + (u - 0)) * 128  BY <1>3, <2>2, Zenon DEF Puts
  <2>4. m2[u] = m1[u]  BY <1>5, <1>7 DEF Puts, Covers
  <2> QED  BY <2>3, <2>4
<1> QED  BY <1>2, <1>6, <1>7

\* EON: before the first call every page shows page 0 of the null device.
LEMMA EonReset ==
  ASSUME RealSizes
  PROVE  LET maps == ResetMaps("eon") IN maps \in Maps /\ NoneFixed(maps) /\ RomLocked(maps)
<1> DEFINE maps == ResetMaps("eon")
<1>1. maps = [u \in 0..511 |-> [devid |-> 0, offset |-> (u % 32) * 128, flags |-> MAP_READWRITE]]
  BY RealUnits DEF ResetMaps, RealSizes
<1>2. ASSUME NEW u \in 0..511
      PROVE  maps[u] \in BusMap /\ maps[u].devid = 0 /\ maps[u].flags = MAP_READWRITE
  <2>1. maps[u] = [devid |-> 0, offset |-> (u % 32) * 128, flags |-> MAP_READWRITE]  BY <1>1
  <2>2. (u % 32) * 128 \in Nat  OBVIOUS
  <2> QED  BY <2>1, <2>2, FlagBits DEF BusMap
<1> HIDE DEF maps
<1>3. maps \in Maps  BY <1>1, <1>2 DEF Maps
<1>4. NoneFixed(maps)  BY <1>2, FlagBits DEF NoneFixed
<1>5. RomLocked(maps)
  <2>1. ASSUME NEW u \in 0..511 PROVE maps[u].devid # 3
    <3>1. maps[u].devid \in {0, 1}  BY <1>2
    <3> QED  BY <3>1
  <2> QED  BY <2>1, Zenon DEF RomLocked
<1> QED  BY <1>3, <1>4, <1>5 DEF maps

\* EON: RAM below the MMU, which is fixed, and a ROM that is only readable.
LEMMA EonStart ==
  ASSUME RealSizes
  PROVE  LET maps == DefinedMaps("eon")
         IN  /\ maps \in Maps /\ RomLocked(maps)
             /\ \A u \in 0..511 : u < 448 => maps[u].devid = 2 /\ maps[u].offset = u * 128
<1> DEFINE d1 == Defines["eon"][1]
           d2 == Defines["eon"][2]
           d3 == Defines["eon"][3]
           d4 == Defines["eon"][4]
           d5 == Defines["eon"][5]
           d6 == Defines["eon"][6]
           m0 == ResetMaps("eon")
           m1 == device_define(m0, d1)
           m2 == device_define(m1, d2)
           m3 == device_define(m2, d3)
           m4 == device_define(m3, d4)
           m5 == device_define(m4, d5)
           m6 == device_define(m5, d6)
<1>1. /\ d1 = [devid |-> 1, offset |-> 0 * 128, addr |-> 448 * 128, len |-> 1 * 128,
               flags |-> MAP_READWRITE + MAP_FIXED]
      /\ d2 = [devid |-> 2, offset |-> 0 * 128, addr |-> 0 * 128, len |-> 512 * 128,
               flags |-> MAP_READWRITE]
      /\ d3 = [devid |-> 3, offset |-> 0 * 128, addr |-> 456 * 128, len |-> 56 * 128,
               flags |-> MAP_READABLE]
      /\ d4 = [devid |-> 4, offset |-> 0 * 128, addr |-> 450 * 128, len |-> 1 * 128,
               flags |-> MAP_READWRITE]
      /\ d5 = [devid |-> 4, offset |-> 0 * 128, addr |-> 510 * 128, len |-> 1 * 128,
               flags |-> MAP_READWRITE]
      /\ d6 = [devid |-> 5, offset |-> 0 * 128, addr |-> 452 * 128, len |-> 1 * 128,
               flags |-> MAP_READWRITE]
  BY EonIds DEF Defines, Def, MMU_ADDR
<1>2. DefinedMaps("eon") = m6  BY DEF DefinedMaps, ResetMaps
<1> HIDE DEF d1, d2, d3, d4, d5, d6
<1>3. m0 \in Maps /\ NoneFixed(m0) /\ RomLocked(m0)  BY EonReset
<1> HIDE DEF m0
<1>4. Puts(m0, 448, 1, 0, 1, MAP_READWRITE + MAP_FIXED, m1)
  <2>1. m1 = MapUnits(m0, 448, 1, 0, 1, MAP_READWRITE + MAP_FIXED)  BY <1>1, DefineUnits
  <2> QED  BY <1>3, <2>1, FlagBits, MapUnitsIs
<1> HIDE DEF m1
<1>5. m1 \in Maps  BY <1>4, PutsTyped
<1>6. Puts(m1, 0, 2, 0, 512, MAP_READWRITE, m2)
  <2>1. m2 = MapUnits(m1, 0, 2, 0, 512, MAP_READWRITE)  BY <1>1, DefineUnits
  <2> QED  BY <1>5, <2>1, FlagBits, MapUnitsIs
<1> HIDE DEF m2
<1>7. m2 \in Maps  BY <1>6, PutsTyped
<1>8. Puts(m2, 456, 3, 0, 56, MAP_READABLE, m3)
  <2>1. m3 = MapUnits(m2, 456, 3, 0, 56, MAP_READABLE)  BY <1>1, DefineUnits
  <2> QED  BY <1>7, <2>1, FlagBits, MapUnitsIs
<1> HIDE DEF m3
<1>9. m3 \in Maps  BY <1>8, PutsTyped
<1>10. Puts(m3, 450, 4, 0, 1, MAP_READWRITE, m4)
  <2>1. m4 = MapUnits(m3, 450, 4, 0, 1, MAP_READWRITE)  BY <1>1, DefineUnits
  <2> QED  BY <1>9, <2>1, FlagBits, MapUnitsIs
<1> HIDE DEF m4
<1>11. m4 \in Maps  BY <1>10, PutsTyped
<1>12. Puts(m4, 510, 4, 0, 1, MAP_READWRITE, m5)
  <2>1. m5 = MapUnits(m4, 510, 4, 0, 1, MAP_READWRITE)  BY <1>1, DefineUnits
  <2> QED  BY <1>11, <2>1, FlagBits, MapUnitsIs
<1> HIDE DEF m5
<1>13. m5 \in Maps  BY <1>12, PutsTyped
<1>14. Puts(m5, 452, 5, 0, 1, MAP_READWRITE, m6)
  <2>1. m6 = MapUnits(m5, 452, 5, 0, 1, MAP_READWRITE)  BY <1>1, DefineUnits
  <2> QED  BY <1>13, <2>1, FlagBits, MapUnitsIs
<1> HIDE DEF m6
<1>15. m6 \in Maps  BY <1>14, PutsTyped
<1>16. RomLocked(m6)
  <2>1. RomLocked(m1)  BY <1>3, <1>4, PutsRomLocked
  <2>2. RomLocked(m2)  BY <2>1, <1>6, PutsRomLocked
  <2>3. RomLocked(m3)  BY <2>2, <1>8, PutsRomLocked
  <2>4. RomLocked(m4)  BY <2>3, <1>10, PutsRomLocked
  <2>5. RomLocked(m5)  BY <2>4, <1>12, PutsRomLocked
  <2>6. RomLocked(m6)  BY <2>5, <1>14, PutsRomLocked
  <2> QED  BY <2>6
<1>17. ASSUME NEW u \in 0..511, u < 448
      PROVE  m6[u].devid = 2 /\ m6[u].offset = u * 128
  <2>1. m1[u] = m0[u]
    <3>1. ~Covers(m0, u, 448, 1)  BY <1>17 DEF Covers
    <3> QED  BY <1>4, <3>1, Zenon DEF Puts
  <2>2. ~Fixed(m1[u].flags)  BY <2>1, <1>3 DEF NoneFixed
  <2>3. Covers(m1, u, 0, 512)  BY <2>2 DEF Covers
  <2>4. m2[u].devid = 2 /\ m2[u].offset = (0 + (u - 0)) * 128  BY <1>6, <2>3, Zenon DEF Puts
  <2>5. m3[u] = m2[u]
    <3>1. ~Covers(m2, u, 456, 56)  BY <1>17 DEF Covers
    <3> QED  BY <1>8, <3>1, Zenon DEF Puts
  <2>6. m4[u] = m3[u]
    <3>1. ~Covers(m3, u, 450, 1)  BY <1>17 DEF Covers
    <3> QED  BY <1>10, <3>1, Zenon DEF Puts
  <2>7. m5[u] = m4[u]
    <3>1. ~Covers(m4, u, 510, 1)  BY <1>17 DEF Covers
    <3> QED  BY <1>12, <3>1, Zenon DEF Puts
  <2>8. m6[u] = m5[u]
    <3>1. ~Covers(m5, u, 452, 1)  BY <1>17 DEF Covers
    <3> QED  BY <1>14, <3>1, Zenon DEF Puts
  <2> QED  BY <2>4, <2>5, <2>6, <2>7, <2>8
<1> QED  BY <1>2, <1>15, <1>16, <1>17

\* EON2: before the first call the small MMU shows the RAM, page by page.
LEMMA Eon2Reset ==
  ASSUME RealSizes
  PROVE  LET maps == ResetMaps("eon2")
         IN  /\ maps \in Maps /\ RomLocked(maps)
             /\ \A u \in 0..511 :
                  maps[u].devid = 1 /\ maps[u].offset = u * 128 /\ maps[u].flags = MAP_READWRITE
<1> DEFINE maps == ResetMaps("eon2")
<1>1. maps = [u \in 0..511 |-> [devid |-> 1, offset |-> u * 128, flags |-> MAP_READWRITE]]
  BY RealUnits, Eon2Ids DEF ResetMaps, RealSizes
<1>2. ASSUME NEW u \in 0..511
      PROVE  maps[u] \in BusMap /\ maps[u].devid = 1 /\ maps[u].offset = u * 128 /\ maps[u].flags = MAP_READWRITE
  <2>1. maps[u] = [devid |-> 1, offset |-> u * 128, flags |-> MAP_READWRITE]  BY <1>1
  <2>2. u * 128 \in Nat  OBVIOUS
  <2> QED  BY <2>1, <2>2, FlagBits DEF BusMap
<1> HIDE DEF maps
<1>3. maps \in Maps  BY <1>1, <1>2 DEF Maps
<1>4. RomLocked(maps)
  <2>1. ASSUME NEW u \in 0..511 PROVE maps[u].devid # 3
    <3>1. maps[u].devid \in {0, 1}  BY <1>2
    <3> QED  BY <3>1
  <2> QED  BY <2>1, Zenon DEF RomLocked
<1> QED  BY <1>2, <1>3, <1>4 DEF maps

\* EON2: RAM below the ROM, which is only readable.
LEMMA Eon2Start ==
  ASSUME RealSizes
  PROVE  LET maps == DefinedMaps("eon2")
         IN  /\ maps \in Maps /\ RomLocked(maps)
             /\ \A u \in 0..511 : u < 480 =>
                  maps[u].devid = 1 /\ maps[u].offset = u * 128 /\ maps[u].flags = MAP_READWRITE
<1> DEFINE d1 == Defines["eon2"][1]
           d2 == Defines["eon2"][2]
           m0 == ResetMaps("eon2")
           m1 == device_define(m0, d1)
           m2 == device_define(m1, d2)
<1>1. /\ d1 = [devid |-> 3, offset |-> 0 * 128, addr |-> 496 * 128, len |-> 16 * 128,
               flags |-> MAP_READABLE]
      /\ d2 = [devid |-> 4, offset |-> 0 * 128, addr |-> 510 * 128, len |-> 1 * 128,
               flags |-> MAP_READWRITE]
  BY Eon2Ids DEF Defines, Def
<1>2. DefinedMaps("eon2") = m2  BY DEF DefinedMaps, ResetMaps
<1> HIDE DEF d1, d2
<1>3. m0 \in Maps /\ RomLocked(m0)  BY Eon2Reset
<1> HIDE DEF m0
<1>4. Puts(m0, 496, 3, 0, 16, MAP_READABLE, m1)
  <2>1. m1 = MapUnits(m0, 496, 3, 0, 16, MAP_READABLE)  BY <1>1, DefineUnits
  <2> QED  BY <1>3, <2>1, FlagBits, MapUnitsIs
<1> HIDE DEF m1
<1>5. m1 \in Maps  BY <1>4, PutsTyped
<1>6. Puts(m1, 510, 4, 0, 1, MAP_READWRITE, m2)
  <2>1. m2 = MapUnits(m1, 510, 4, 0, 1, MAP_READWRITE)  BY <1>1, DefineUnits
  <2> QED  BY <1>5, <2>1, FlagBits, MapUnitsIs
<1> HIDE DEF m2
<1>7. m2 \in Maps  BY <1>6, PutsTyped
<1>8. RomLocked(m2)
  <2>1. RomLocked(m1)  BY <1>3, <1>4, PutsRomLocked
  <2> QED  BY <2>1, <1>6, PutsRomLocked
<1>9. ASSUME NEW u \in 0..511, u < 480
      PROVE  m2[u].devid = 1 /\ m2[u].offset = u * 128 /\ m2[u].flags = MAP_READWRITE
  <2>1. m0[u].devid = 1 /\ m0[u].offset = u * 128 /\ m0[u].flags = MAP_READWRITE  BY Eon2Reset DEF m0
  <2>2. m1[u] = m0[u]
    <3>1. ~Covers(m0, u, 496, 16)  BY <1>9 DEF Covers
    <3> QED  BY <1>4, <3>1, Zenon DEF Puts
  <2>3. m2[u] = m1[u]
    <3>1. ~Covers(m1, u, 510, 1)  BY <1>9 DEF Covers
    <3> QED  BY <1>6, <3>1, Zenon DEF Puts
  <2> QED  BY <2>1, <2>2, <2>3
<1> QED  BY <1>2, <1>7, <1>8, <1>9

\* The last 32K of the ROM of WPC start at this unit of it.
TopUnit == 7936

\* The first unit of the last 32 KB of the ROM is a number.
LEMMA TopUnitTyped == TopUnit \in Nat
BY DEF TopUnit

\* WPC: where the devices are, before the RAM is locked.  No map is fixed.
LEMMA WpcStart ==
  ASSUME RealSizes
  PROVE  LET maps == DefinedMaps("wpc")
         IN  /\ maps \in Maps /\ NoneFixed(maps)
             /\ Linear(maps, 112, 120, 4, 0) /\ Linear(maps, 120, 128, 1, 0)
             /\ Linear(maps, 128, 256, 3, 0) /\ Linear(maps, 256, 512, 3, TopUnit)
<1> DEFINE d1 == Defines["wpc"][1]
           d2 == Defines["wpc"][2]
           d3 == Defines["wpc"][3]
           d4 == Defines["wpc"][4]
           d5 == Defines["wpc"][5]
           m0 == NoMaps
           m1 == device_define(m0, d1)
           m2 == device_define(m1, d2)
           m3 == device_define(m2, d3)
           m4 == device_define(m3, d4)
           m5 == device_define(m4, d5)
<1>1. /\ d1 = [devid |-> 1, offset |-> 0 * 128, addr |-> 120 * 128, len |-> 8 * 128,
               flags |-> MAP_READWRITE]
      /\ d2 = [devid |-> 2, offset |-> 0 * 128, addr |-> 0 * 128, len |-> 64 * 128,
               flags |-> MAP_READWRITE]
      /\ d3 = [devid |-> 3, offset |-> 0 * 128, addr |-> 128 * 128, len |-> 128 * 128,
               flags |-> MAP_READABLE]
      /\ d4 = [devid |-> 3, offset |-> TopUnit * 128, addr |-> 256 * 128, len |-> 256 * 128,
               flags |-> MAP_READABLE]
      /\ d5 = [devid |-> 4, offset |-> 0 * 128, addr |-> 112 * 128, len |-> 8 * 128,
               flags |-> MAP_READWRITE]
  BY WpcIds DEF Defines, Def, TopUnit
<1>2. DefinedMaps("wpc") = m5  BY DEF DefinedMaps, ResetMaps
<1> HIDE DEF d1, d2, d3, d4, d5
<1>3. m0 \in Maps /\ NoneFixed(m0)  BY NoMapsTyped
<1> HIDE DEF m0
<1>4. Puts(m0, 120, 1, 0, 8, MAP_READWRITE, m1)
  <2>1. m1 = MapUnits(m0, 120, 1, 0, 8, MAP_READWRITE)  BY <1>1, DefineUnits
  <2> QED  BY <1>3, <2>1, FlagBits, MapUnitsIs
<1> HIDE DEF m1
<1>5. m1 \in Maps  BY <1>4, PutsTyped
<1>6. Puts(m1, 0, 2, 0, 64, MAP_READWRITE, m2)
  <2>1. m2 = MapUnits(m1, 0, 2, 0, 64, MAP_READWRITE)  BY <1>1, DefineUnits
  <2> QED  BY <1>5, <2>1, FlagBits, MapUnitsIs
<1> HIDE DEF m2
<1>7. m2 \in Maps  BY <1>6, PutsTyped
<1>8. Puts(m2, 128, 3, 0, 128, MAP_READABLE, m3)
  <2>1. m3 = MapUnits(m2, 128, 3, 0, 128, MAP_READABLE)  BY <1>1, DefineUnits
  <2> QED  BY <1>7, <2>1, FlagBits, MapUnitsIs
<1> HIDE DEF m3
<1>9. m3 \in Maps  BY <1>8, PutsTyped
<1>10. Puts(m3, 256, 3, TopUnit, 256, MAP_READABLE, m4)
  <2>1. m4 = MapUnits(m3, 256, 3, TopUnit, 256, MAP_READABLE)  BY <1>1, TopUnitTyped, DefineUnits
  <2> QED  BY <1>9, <2>1, TopUnitTyped, FlagBits, MapUnitsIs
<1> HIDE DEF m4
<1>11. m4 \in Maps  BY <1>10, PutsTyped
<1>12. Puts(m4, 112, 4, 0, 8, MAP_READWRITE, m5)
  <2>1. m5 = MapUnits(m4, 112, 4, 0, 8, MAP_READWRITE)  BY <1>1, DefineUnits
  <2> QED  BY <1>11, <2>1, FlagBits, MapUnitsIs
<1> HIDE DEF m5
<1>13. m5 \in Maps  BY <1>12, PutsTyped
<1>14. NoneFixed(m1)  BY <1>3, <1>4, FlagBits, PutsNoneFixed
<1>15. NoneFixed(m2)  BY <1>14, <1>6, FlagBits, PutsNoneFixed
<1>16. NoneFixed(m3)  BY <1>15, <1>8, FlagBits, PutsNoneFixed
<1>17. NoneFixed(m4)  BY <1>16, <1>10, FlagBits, PutsNoneFixed
<1>18. NoneFixed(m5)  BY <1>17, <1>12, FlagBits, PutsNoneFixed
<1>19. Linear(m5, 112, 120, 4, 0)  BY <1>12, <1>17, PutsLinear
<1>20. Linear(m5, 120, 128, 1, 0)
  <2>1. Linear(m1, 120, 128, 1, 0)  BY <1>3, <1>4, PutsLinear
  <2>2. Linear(m2, 120, 128, 1, 0)  BY <1>6, <2>1, PutsKeepsLinear
  <2>3. Linear(m3, 120, 128, 1, 0)  BY <1>8, <2>2, PutsKeepsLinear
  <2>4. Linear(m4, 120, 128, 1, 0)  BY <1>10, <2>3, PutsKeepsLinear
  <2> QED  BY <1>12, <2>4, PutsKeepsLinear
<1>21. Linear(m5, 128, 256, 3, 0)
  <2>1. Linear(m3, 128, 256, 3, 0)  BY <1>8, <1>15, PutsLinear
  <2>2. Linear(m4, 128, 256, 3, 0)  BY <1>10, <2>1, PutsKeepsLinear
  <2> QED  BY <1>12, <2>2, PutsKeepsLinear
<1>22. Linear(m5, 256, 512, 3, TopUnit)
  <2>1. Linear(m4, 256, 512, 3, TopUnit)  BY <1>10, <1>16, PutsLinear
  <2> QED  BY <1>12, <2>1, PutsKeepsLinear
<1> HIDE DEF m5
<1> QED  BY <1>2, <1>13, <1>18, <1>19, <1>20, <1>21, <1>22, Zenon

-----------------------------------------------------------------------------
(***************************************************************************)
(* What a step does to the maps and to the registers behind them.          *)
(***************************************************************************)
SmallRegs == [slot: Nat, page: [Pages -> Nat], flags: [Pages -> Nat]]
AsicRegs == [rombank: Nat, ram_unlocked: Nat, ram_lock_size: Nat, dmd_maps: [{0, 1} -> Nat]]

\* Type correctness of what the proofs are about.
Typed ==
  /\ machine \in Names
  /\ busmaps \in Maps
  /\ mmu_regs \in [Pages -> [1..4 -> Nat]]
  /\ small \in SmallRegs
  /\ asic \in AsicRegs
  /\ file_bank \in Nat

\* A page of the address space is mapped.
PagePuts(maps, page, devid, frame, f, new) ==
  Puts(maps, page * 32, devid, frame * 32, 32, f % 4, new)

\* A register of EON's MMU is stored, and its page mapped again.
MmuStep ==
  \E page \in Pages, r \in [1..4 -> Nat] :
    /\ mmu_regs' = [mmu_regs EXCEPT ![page] = r]
    /\ PagePuts(busmaps, page, r[1], r[2], r[3], busmaps')
    /\ programmed' = programmed \cup {page}
    /\ UNCHANGED <<small, asic, file_bank>>

\* mmu_write is such a step: the register changes, and then its page is mapped.
LEMMA MmuWriteIs ==
  ASSUME RealSizes, Typed, NEW addr \in Nat, NEW val \in Nat, mmu_write(addr, val)
  PROVE  MmuStep
<1> DEFINE page == (addr \div 4) % 16
           r == [mmu_regs[page] EXCEPT ![1 + (addr % 4)] = val]
<1>1. page \in Pages /\ 1 + (addr % 4) \in 1..4  BY DEF Pages
<1>2. /\ mmu_regs' = [mmu_regs EXCEPT ![page] = r]
      /\ busmaps' = MappedPage(busmaps, page, r[1], r[2], r[3])
      /\ programmed' = programmed \cup {page}
      /\ UNCHANGED <<small, asic, file_bank>>
  BY DEF mmu_write
<1> HIDE DEF page
<1>3. r \in [1..4 -> Nat]
  <2>1. mmu_regs[page] \in [1..4 -> Nat]  BY <1>1 DEF Typed
  <2> QED  BY <1>1, <2>1
<1> HIDE DEF r
<1>4. page \in Nat /\ r[1] \in Nat /\ r[2] \in Nat /\ r[3] \in Nat  BY <1>1, <1>3 DEF Pages
<1>5. busmaps' = MapUnits(busmaps, page * 32, r[1], r[2] * 32, 32, r[3] % 4)
  BY <1>2, <1>4, PageUnits
<1>6. page * 32 \in Nat /\ r[2] * 32 \in Nat /\ r[3] % 4 \in Nat /\ busmaps \in Maps
  BY <1>4 DEF Typed
<1>7. Puts(busmaps, page * 32, r[1], r[2] * 32, 32, r[3] % 4, busmaps')
  BY <1>4, <1>5, <1>6, MapUnitsIs
<1> QED  BY <1>1, <1>2, <1>3, <1>7 DEF MmuStep, PagePuts

\* A register of the small MMU is stored: the slot that is selected, or a slot's
\* page and flags, which maps it again.  A slot that does not exist maps nothing.
SmallStep ==
  /\ UNCHANGED <<mmu_regs, asic, file_bank>>
  /\ small' \in SmallRegs
  /\ \/ /\ small'.page = small.page /\ small'.flags = small.flags /\ UNCHANGED busmaps
        /\ programmed' = programmed \/ \E s \in Nat \ Pages : programmed' = programmed \cup {s}
     \/ \E slot \in Pages, page \in Nat, flags \in Nat :
          /\ small'.page = [small.page EXCEPT ![slot] = page]
          /\ small'.flags = [small.flags EXCEPT ![slot] = flags]
          /\ PagePuts(busmaps, slot, 1, page, flags, busmaps')
          /\ programmed' = programmed \cup {slot}

\* A slot past the last page lies beyond the bus, and mapping it changes nothing.
LEMMA BeyondThePages ==
  ASSUME RealSizes, NEW maps \in Maps, NEW slot \in Nat \ Pages, NEW devid, NEW frame, NEW flags
  PROVE  MappedPage(maps, slot, devid, frame, flags) = maps
<1> DEFINE new == MappedPage(maps, slot, devid, frame, flags)
<1>1. UnitCount(slot * PAGESIZE) = slot * 32
  <2>1. slot * PAGESIZE = (slot * 32) * 128 /\ slot * 32 \in Nat  BY DEF PAGESIZE
  <2> QED  BY <2>1, WholeUnits
<1>2. slot * 32 >= 512  BY DEF Pages
<1>3. new = [u \in 0..511 |-> maps[u]]
  <2>1. \A u \in 0..511 : ~Mapped(maps, u, slot * 32, UnitCount(PAGESIZE))  BY <1>2 DEF Mapped
  <2> QED  BY <1>1, <2>1, RealUnits DEF MappedPage, bus_map
<1> QED  BY <1>3 DEF Maps

\* small_mmu_write is such a step, whichever slot is selected.
LEMMA SmallWriteIs ==
  ASSUME RealSizes, Typed, NEW addr \in Nat, NEW val \in Nat, small_mmu_write(addr, val)
  PROVE  SmallStep
<1>0. UNCHANGED <<mmu_regs, asic, file_bank>>  BY DEF small_mmu_write
<1>t. /\ small \in SmallRegs /\ small.page \in [Pages -> Nat] /\ small.flags \in [Pages -> Nat]
      /\ small.slot \in Nat
  BY DEF Typed, SmallRegs
<1>1. CASE addr < 6
  <2>1. UNCHANGED <<busmaps, programmed>> /\ (small' = [small EXCEPT !.slot = val] \/ small' = small)
    BY <1>1 DEF small_mmu_write
  <2>2. small' \in SmallRegs /\ small'.page = small.page /\ small'.flags = small.flags
    BY <1>t, <2>1 DEF SmallRegs
  <2> QED  BY <1>0, <2>1, <2>2 DEF SmallStep
<1>2. CASE ~(addr < 6)
  <2> DEFINE slot == small.slot
             page == IF addr = 6 THEN val ELSE small.page[slot]
             flags == IF addr = 7 THEN val ELSE small.flags[slot]
  <2>1. /\ small' = [small EXCEPT !.page[slot] = page, !.flags[slot] = flags]
        /\ busmaps' = MappedPage(busmaps, slot, Id("eon2", "ram"), page, flags)
        /\ programmed' = programmed \cup {slot}
    BY <1>2 DEF small_mmu_write
  <2>2. slot \in Pages => page \in Nat /\ flags \in Nat
    BY <1>t
  <2>3. slot \in Nat  BY <1>t
  <2> HIDE DEF page, flags
  <2>4. /\ small'.page = [small.page EXCEPT ![slot] = page]
        /\ small'.flags = [small.flags EXCEPT ![slot] = flags]
        /\ small' = [slot |-> small.slot, page |-> [small.page EXCEPT ![slot] = page],
                     flags |-> [small.flags EXCEPT ![slot] = flags]]
    BY <1>t, <2>1 DEF SmallRegs
  <2> HIDE DEF slot
  <2>5. CASE slot \in Pages
    <3>1. page \in Nat /\ flags \in Nat /\ slot \in Nat  BY <2>2, <2>3, <2>5
    <3>2. [small.page EXCEPT ![slot] = page] \in [Pages -> Nat]
      BY <1>t, <2>5, <3>1
    <3>3. [small.flags EXCEPT ![slot] = flags] \in [Pages -> Nat]
      BY <1>t, <2>5, <3>1
    <3>4. small' \in SmallRegs
      BY <1>t, <2>4, <3>2, <3>3 DEF SmallRegs
    <3>5. busmaps' = MapUnits(busmaps, slot * 32, 1, page * 32, 32, flags % 4)
      BY <2>1, <3>1, PageUnits, Eon2Ids
    <3>6. slot * 32 \in Nat /\ page * 32 \in Nat /\ flags % 4 \in Nat /\ busmaps \in Maps
      BY <3>1 DEF Typed
    <3>7. Puts(busmaps, slot * 32, 1, page * 32, 32, flags % 4, busmaps')
      BY <3>5, <3>6, MapUnitsIs
    <3> QED  BY <1>0, <2>1, <2>4, <2>5, <3>1, <3>4, <3>7 DEF SmallStep, PagePuts
  <2>6. CASE slot \notin Pages
    <3>1. [small.page EXCEPT ![slot] = page] = small.page  BY <1>t, <2>6
    <3>2. [small.flags EXCEPT ![slot] = flags] = small.flags  BY <1>t, <2>6
    <3>3. small' \in SmallRegs /\ small'.page = small.page /\ small'.flags = small.flags
      BY <1>t, <2>4, <3>1, <3>2 DEF SmallRegs
    <3>4. slot \in Nat \ Pages /\ busmaps \in Maps  BY <2>3, <2>6 DEF Typed
    <3>5. busmaps' = busmaps  BY <2>1, <3>4, BeyondThePages
    <3> QED  BY <1>0, <2>1, <3>3, <3>4, <3>5 DEF SmallStep
  <2> QED  BY <2>5, <2>6
<1> QED  BY <1>1, <1>2

\* The bank, or a page of the display, is mapped.
BankStep(val) == Puts(busmaps, 128, 2, val * 128, 128, MAP_READABLE, busmaps')
DmdStep(a, val) == Puts(busmaps, a, 3, val * 4, 4, MAP_READWRITE, busmaps')

\* The RAM is mapped, its open part and then its locked part.
RamStep(a) ==
  \E maps :
    /\ Puts(busmaps, 0, 2, 0, Open(a), MAP_READWRITE, maps)
    /\ Puts(maps, Open(a), 2, Open(a), 64 - Open(a), MAP_READABLE, busmaps')

\* wpc_set_rom_page maps the bank.
LEMMA BankIs ==
  ASSUME RealSizes, Typed, NEW val \in Nat, busmaps' = wpc_set_rom_page(busmaps, val)
  PROVE  BankStep(val)
<1>1. busmaps' = MapUnits(busmaps, 128, 2, val * 128, 128, MAP_READABLE)  BY RomPageUnits
<1>2. val * 128 \in Nat /\ busmaps \in Maps  BY DEF Typed
<1> QED  BY <1>1, <1>2, FlagBits, MapUnitsIs DEF BankStep

\* wpc_set_dmd_page maps a page of the display.
LEMMA DmdIs ==
  ASSUME RealSizes, Typed, NEW val \in Nat, NEW i \in {0, 1}, busmaps' = wpc_set_dmd_page(busmaps, i, val)
  PROVE  DmdStep(112 + i * 4, val)
<1>1. busmaps' = MapUnits(busmaps, 112 + i * 4, 3, val * 4, 4, MAP_READWRITE)  BY DmdPageUnits
<1>2. val * 4 \in Nat /\ busmaps \in Maps /\ 112 + i * 4 \in Nat  BY DEF Typed
<1> QED  BY <1>1, <1>2, FlagBits, MapUnitsIs DEF DmdStep

\* wpc_update_ram maps the RAM in two calls.
LEMMA UpdateRamPuts ==
  ASSUME RealSizes, NEW before \in Maps, NEW a
  PROVE  \E maps :
           /\ Puts(before, 0, 2, 0, Open(a), MAP_READWRITE, maps)
           /\ Puts(maps, Open(a), 2, Open(a), 64 - Open(a), MAP_READABLE, wpc_update_ram(before, a))
<1> DEFINE first == MapUnits(before, 0, 2, 0, Open(a), MAP_READWRITE)
<1>1. Open(a) \in 32..64
      /\ wpc_update_ram(before, a) = MapUnits(first, Open(a), 2, Open(a), 64 - Open(a), MAP_READABLE)
  BY UpdateRamUnits, WpcIds
<1>2. Open(a) \in Nat /\ 64 - Open(a) \in Nat  BY <1>1
<1>3. Puts(before, 0, 2, 0, Open(a), MAP_READWRITE, first)
  BY <1>2, FlagBits, MapUnitsIs
<1> HIDE DEF first
<1>4. first \in Maps  BY <1>3, PutsTyped
<1>5. Puts(first, Open(a), 2, Open(a), 64 - Open(a), MAP_READABLE, wpc_update_ram(before, a))
  BY <1>1, <1>2, <1>4, FlagBits, MapUnitsIs
<1> QED  BY <1>3, <1>5

\* A register of the ASIC is stored.
AsicStep ==
  /\ UNCHANGED <<mmu_regs, small>>
  /\ asic' \in AsicRegs
  /\ \/ UNCHANGED <<busmaps, asic, programmed, file_bank>>
     \/ /\ BankStep(asic'.rombank) /\ programmed' = programmed \cup {"rom"} /\ file_bank' = NoBank
        /\ asic'.dmd_maps = asic.dmd_maps /\ Open(asic') = Open(asic)
     \/ /\ DmdStep(112, asic'.dmd_maps[0]) /\ programmed' = programmed \cup {"dmd0"} /\ UNCHANGED file_bank
        /\ asic'.rombank = asic.rombank /\ asic'.dmd_maps[1] = asic.dmd_maps[1] /\ Open(asic') = Open(asic)
     \/ /\ DmdStep(116, asic'.dmd_maps[1]) /\ programmed' = programmed \cup {"dmd1"} /\ UNCHANGED file_bank
        /\ asic'.rombank = asic.rombank /\ asic'.dmd_maps[0] = asic.dmd_maps[0] /\ Open(asic') = Open(asic)
     \/ /\ RamStep(asic') /\ programmed' = programmed \cup {"ram"} /\ UNCHANGED file_bank
        /\ asic'.rombank = asic.rombank /\ asic'.dmd_maps = asic.dmd_maps

\* Storing one register leaves the others.
LEMMA AsicFields ==
  ASSUME NEW a \in AsicRegs, NEW v \in Nat
  PROVE  /\ LET b == [a EXCEPT !.rombank = v]
            IN  b \in AsicRegs /\ b.rombank = v /\ b.dmd_maps = a.dmd_maps /\ Open(b) = Open(a)
         /\ \A i \in {0, 1} :
              LET b == [a EXCEPT !.dmd_maps[i] = v]
              IN  /\ b \in AsicRegs /\ b.dmd_maps[i] = v /\ b.dmd_maps[1 - i] = a.dmd_maps[1 - i]
                  /\ b.rombank = a.rombank /\ Open(b) = Open(a)
         /\ LET b == [a EXCEPT !.ram_unlocked = v]
            IN  b \in AsicRegs /\ b.rombank = a.rombank /\ b.dmd_maps = a.dmd_maps
         /\ LET b == [a EXCEPT !.ram_lock_size = v]
            IN  b \in AsicRegs /\ b.rombank = a.rombank /\ b.dmd_maps = a.dmd_maps
<1>1. LET b == [a EXCEPT !.rombank = v]
      IN  b \in AsicRegs /\ b.rombank = v /\ b.dmd_maps = a.dmd_maps /\ Open(b) = Open(a)
  BY DEF AsicRegs, Open
<1>2. ASSUME NEW i \in {0, 1}
      PROVE  LET b == [a EXCEPT !.dmd_maps[i] = v]
             IN  /\ b \in AsicRegs /\ b.dmd_maps[i] = v /\ b.dmd_maps[1 - i] = a.dmd_maps[1 - i]
                 /\ b.rombank = a.rombank /\ Open(b) = Open(a)
  <2> DEFINE d == [a.dmd_maps EXCEPT ![i] = v]
             b == [a EXCEPT !.dmd_maps[i] = v]
  <2>1. a.dmd_maps \in [{0, 1} -> Nat]  BY DEF AsicRegs
  <2>2. d \in [{0, 1} -> Nat] /\ d[i] = v /\ d[1 - i] = a.dmd_maps[1 - i]  BY <2>1
  <2>3. b = [a EXCEPT !.dmd_maps = d]  OBVIOUS
  <2> HIDE DEF d
  <2>4. /\ [a EXCEPT !.dmd_maps = d] \in AsicRegs /\ [a EXCEPT !.dmd_maps = d].dmd_maps = d
        /\ [a EXCEPT !.dmd_maps = d].rombank = a.rombank /\ Open([a EXCEPT !.dmd_maps = d]) = Open(a)
    BY <2>2 DEF AsicRegs, Open
  <2> QED  BY <2>2, <2>3, <2>4
<1>3. LET b == [a EXCEPT !.ram_unlocked = v]
      IN  b \in AsicRegs /\ b.rombank = a.rombank /\ b.dmd_maps = a.dmd_maps
  BY DEF AsicRegs
<1>4. LET b == [a EXCEPT !.ram_lock_size = v]
      IN  b \in AsicRegs /\ b.rombank = a.rombank /\ b.dmd_maps = a.dmd_maps
  BY DEF AsicRegs
<1> QED  BY <1>1, <1>2, <1>3, <1>4

\* wpc_asic_write is such a step.
LEMMA AsicWriteIs ==
  ASSUME RealSizes, Typed, NEW addr \in Nat, NEW val \in Nat, wpc_asic_write(addr, val)
  PROVE  AsicStep
<1>0. UNCHANGED <<mmu_regs, small>>  BY DEF wpc_asic_write
<1>t. asic \in AsicRegs /\ busmaps \in Maps  BY DEF Typed
<1>1. \/ /\ asic' = [asic EXCEPT !.dmd_maps[1] = val] /\ busmaps' = wpc_set_dmd_page(busmaps, 1, val)
         /\ programmed' = programmed \cup {"dmd1"} /\ UNCHANGED file_bank
      \/ /\ asic' = [asic EXCEPT !.dmd_maps[0] = val] /\ busmaps' = wpc_set_dmd_page(busmaps, 0, val)
         /\ programmed' = programmed \cup {"dmd0"} /\ UNCHANGED file_bank
      \/ /\ asic' = [asic EXCEPT !.rombank = val] /\ busmaps' = wpc_set_rom_page(busmaps, val)
         /\ programmed' = programmed \cup {"rom"} /\ file_bank' = NoBank
      \/ /\ asic' = [asic EXCEPT !.ram_unlocked = val] \/ asic' = [asic EXCEPT !.ram_lock_size = val]
         /\ busmaps' = wpc_update_ram(busmaps, asic') /\ programmed' = programmed \cup {"ram"} /\ UNCHANGED file_bank
      \/ UNCHANGED <<busmaps, asic, programmed, file_bank>>
  BY DEF wpc_asic_write
<1>2. CASE /\ asic' = [asic EXCEPT !.dmd_maps[1] = val] /\ busmaps' = wpc_set_dmd_page(busmaps, 1, val)
           /\ programmed' = programmed \cup {"dmd1"} /\ UNCHANGED file_bank
  <2>1. DmdStep(112 + 1 * 4, val)  BY <1>2, DmdIs
  <2>2. /\ asic' \in AsicRegs /\ asic'.dmd_maps[1] = val /\ asic'.dmd_maps[1 - 1] = asic.dmd_maps[1 - 1]
        /\ asic'.rombank = asic.rombank /\ Open(asic') = Open(asic)
    BY <1>2, <1>t, AsicFields
  <2>3. DmdStep(116, asic'.dmd_maps[1]) /\ asic'.dmd_maps[0] = asic.dmd_maps[0]
    BY <2>1, <2>2
  <2> QED  BY <1>0, <1>2, <2>2, <2>3 DEF AsicStep
<1>3. CASE /\ asic' = [asic EXCEPT !.dmd_maps[0] = val] /\ busmaps' = wpc_set_dmd_page(busmaps, 0, val)
           /\ programmed' = programmed \cup {"dmd0"} /\ UNCHANGED file_bank
  <2>1. DmdStep(112 + 0 * 4, val)  BY <1>3, DmdIs
  <2>2. /\ asic' \in AsicRegs /\ asic'.dmd_maps[0] = val /\ asic'.dmd_maps[1 - 0] = asic.dmd_maps[1 - 0]
        /\ asic'.rombank = asic.rombank /\ Open(asic') = Open(asic)
    BY <1>3, <1>t, AsicFields
  <2>3. DmdStep(112, asic'.dmd_maps[0]) /\ asic'.dmd_maps[1] = asic.dmd_maps[1]
    BY <2>1, <2>2
  <2> QED  BY <1>0, <1>3, <2>2, <2>3 DEF AsicStep
<1>4. CASE /\ asic' = [asic EXCEPT !.rombank = val] /\ busmaps' = wpc_set_rom_page(busmaps, val)
           /\ programmed' = programmed \cup {"rom"} /\ file_bank' = NoBank
  <2>1. BankStep(val)  BY <1>4, BankIs
  <2>2. asic' \in AsicRegs /\ asic'.rombank = val /\ asic'.dmd_maps = asic.dmd_maps /\ Open(asic') = Open(asic)
    BY <1>4, <1>t, AsicFields
  <2> QED  BY <1>0, <1>4, <2>1, <2>2 DEF AsicStep
<1>5. CASE /\ asic' = [asic EXCEPT !.ram_unlocked = val] \/ asic' = [asic EXCEPT !.ram_lock_size = val]
           /\ busmaps' = wpc_update_ram(busmaps, asic') /\ programmed' = programmed \cup {"ram"} /\ UNCHANGED file_bank
  <2>1. RamStep(asic')  BY <1>5, <1>t, UpdateRamPuts DEF RamStep
  <2>2. asic' \in AsicRegs /\ asic'.rombank = asic.rombank /\ asic'.dmd_maps = asic.dmd_maps
    <3>1. CASE asic' = [asic EXCEPT !.ram_unlocked = val]  BY <3>1, <1>t, AsicFields
    <3>2. CASE asic' = [asic EXCEPT !.ram_lock_size = val]  BY <3>2, <1>t, AsicFields
    <3> QED  BY <1>5, <3>1, <3>2
  <2> QED  BY <1>0, <1>5, <2>1, <2>2 DEF AsicStep
<1>6. CASE UNCHANGED <<busmaps, asic, programmed, file_bank>>
  BY <1>0, <1>6, <1>t DEF AsicStep
<1> QED  BY <1>1, <1>2, <1>3, <1>4, <1>5, <1>6

\* Loading a map file selects banks of the WPC without the register.
FileStep ==
  /\ UNCHANGED <<mmu_regs, small, asic, programmed>>
  /\ file_bank' \in Nat \ {NoBank} /\ BankStep(file_bank')

\* What a step may do to the maps, by machine.
MapStep ==
  \/ UNCHANGED <<busmaps, regs>>
  \/ machine = "eon" /\ MmuStep
  \/ machine = "eon2" /\ SmallStep
  \/ machine = "wpc" /\ AsicStep
  \/ machine = "wpc" /\ FileStep

\* What a device does with a byte: one of these steps, and only the ROM changes the ROM.
LEMMA DeviceWriteIs ==
  ASSUME RealSizes, Typed, NEW d \in Nat, NEW offset \in Nat, NEW val \in Nat,
         DeviceWrite(find_device(d), offset, val)
  PROVE  MapStep /\ (rom' # rom => find_device(d) = "rom")
<1> DEFINE class == find_device(d)
<1>1. machine \in Names  BY DEF Typed
<1>2. \/ class = "mmu" /\ mmu_write(offset, val) /\ rom' = rom
      \/ class = "ioexpand" /\ small_mmu_write(offset % 8, val) /\ rom' = rom
      \/ class = "asic" /\ wpc_asic_write(offset, val) /\ rom' = rom
      \/ class = "rom" /\ UNCHANGED <<busmaps, regs>>
      \/ UNCHANGED <<busmaps, regs, rom>>
  BY DEF DeviceWrite
<1>3. /\ class = "mmu" => machine = "eon"
      /\ class = "ioexpand" => machine = "eon2"
      /\ class = "asic" => machine = "wpc"
  BY <1>1, Classes DEF Names
<1> HIDE DEF class
<1>4. offset % 8 \in Nat  OBVIOUS
<1>5. CASE class = "mmu" /\ mmu_write(offset, val) /\ rom' = rom
  BY <1>3, <1>5, MmuWriteIs DEF MapStep
<1>6. CASE class = "ioexpand" /\ small_mmu_write(offset % 8, val) /\ rom' = rom
  <2>1. SmallStep  BY <1>4, <1>6, SmallWriteIs
  <2> QED  BY <1>3, <1>6, <2>1 DEF MapStep
<1>7. CASE class = "asic" /\ wpc_asic_write(offset, val) /\ rom' = rom
  BY <1>3, <1>7, AsicWriteIs DEF MapStep
<1>8. CASE class = "rom" /\ UNCHANGED <<busmaps, regs>>
  BY <1>8 DEF MapStep, class
<1>9. CASE UNCHANGED <<busmaps, regs, rom>>
  BY <1>9 DEF MapStep
<1> QED  BY <1>2, <1>5, <1>6, <1>7, <1>8, <1>9

\* A byte of the address space has a unit, and a place in its device.
Unit(addr) == addr \div 128

\* An address has a unit of the bus, whose map says where in its device it is.
LEMMA Decoded ==
  ASSUME RealSizes, Typed, NEW addr \in Addresses
  PROVE  /\ Unit(addr) \in 0..511 /\ find_map(busmaps, addr) = busmaps[Unit(addr)]
         /\ find_map(busmaps, addr).devid \in Nat
         /\ find_map(busmaps, addr).offset + (addr % BUS_MAP_SIZE) \in Nat
<1>1. Unit(addr) \in 0..511 /\ addr % 128 \in Nat  BY DEF Unit, Addresses
<1>2. find_map(busmaps, addr) = busmaps[Unit(addr)]  BY DEF find_map, RealSizes, Unit
<1>3. busmaps[Unit(addr)] \in BusMap  BY <1>1 DEF Typed, Maps
<1> QED  BY <1>1, <1>2, <1>3 DEF BusMap, RealSizes

\* A store of the program, through the flags of the map if the CPU runs.
LEMMA WriteIs ==
  ASSUME RealSizes, Typed, NEW addr \in Addresses, NEW val \in Nat, cpu_write8(addr, val)
  PROVE  /\ MapStep
         /\ rom' # rom =>
              /\ find_device(find_map(busmaps, addr).devid) = "rom"
              /\ ~running \/ monitor_on' \/ machine = "wpc" \/ Writable(find_map(busmaps, addr).flags)
<1> DEFINE m == find_map(busmaps, addr)
           class == find_device(m.devid)
           offset == m.offset + (addr % BUS_MAP_SIZE)
           faulty == Faulty(m, Writable(m.flags))
<1>1. m.devid \in Nat /\ offset \in Nat  BY Decoded, Zenon
<1>2. IF Halts(faulty) THEN UNCHANGED <<busmaps, regs, rom>> ELSE DeviceWrite(class, offset, val)
  BY Zenon DEF cpu_write8
<1>o. Outcome(faulty, class, offset, class = "console" /\ offset = 1)
  BY Zenon DEF cpu_write8
<1>3. ~Halts(faulty) => ~running \/ monitor_on' \/ machine = "wpc" \/ Writable(m.flags)
  <2>1. Reported(faulty) /\ debug => monitor_on'  BY <1>o, Zenon DEF Outcome
  <2>2. ~Halts(faulty) => ~Reported(faulty) \/ debug  BY Zenon DEF Halts
  <2>3. ~Reported(faulty) => ~running \/ machine = "wpc" \/ Writable(m.flags)
    BY Zenon DEF Reported, Faulty
  <2> QED  BY <2>1, <2>2, <2>3, Zenon
<1> HIDE DEF m, offset, faulty
<1>4. CASE Halts(faulty)
  <2>1. UNCHANGED <<busmaps, regs, rom>>  BY <1>2, <1>4, Zenon
  <2> QED  BY <2>1 DEF MapStep
<1>5. CASE ~Halts(faulty)
  <2>1. DeviceWrite(find_device(m.devid), offset, val)  BY <1>2, <1>5, Zenon
  <2>2. MapStep /\ (rom' # rom => find_device(m.devid) = "rom")  BY <1>1, <2>1, DeviceWriteIs
  <2> QED  BY <1>3, <1>5, <2>2, Zenon DEF m
<1> QED  BY <1>4, <1>5

\* Every step is one of these, and the ROM changes only as a store through its
\* map changes it.
LEMMA StepIs ==
  ASSUME RealSizes, Typed, [Next]_vars
  PROVE  /\ machine' = machine
         /\ MapStep
         /\ rom' # rom =>
              \/ ~running \/ monitor_on' \/ machine = "wpc"
              \/ \E u \in 0..511 : find_device(busmaps[u].devid) = "rom" /\ Writable(busmaps[u].flags)
<1>p. ASSUME NEW s \in Stores[machine]
      PROVE  s[1] \in Addresses /\ s[2] \in Nat
  <2>1. s \in Addresses \X Bytes  BY ProgramAssumption, Zenon DEF Typed
  <2> QED  BY <2>1 DEF Bytes
<1>1. CASE Loader \/ Store
  <2>1. PICK s \in Stores[machine] : cpu_write8(s[1], s[2])  BY <1>1 DEF Loader, Store
  <2> DEFINE addr == s[1]
             val == s[2]
             m == find_map(busmaps, addr)
  <2>2. addr \in Addresses /\ val \in Nat /\ cpu_write8(addr, val)  BY <1>p, <2>1
  <2> HIDE DEF addr, val
  <2>3. machine' = machine  BY <1>1 DEF Loader, Store
  <2>4. /\ MapStep
        /\ rom' # rom =>
             /\ find_device(m.devid) = "rom" 
             /\ ~running \/ monitor_on' \/ machine = "wpc" \/ Writable(m.flags)
    BY <2>2, WriteIs
  <2>5. Unit(addr) \in 0..511 /\ m = busmaps[Unit(addr)]  BY <2>2, Decoded
  <2> HIDE DEF m
  <2> QED  BY <2>3, <2>4, <2>5
<1>2. CASE load_map_file
  <2>1. PICK page \in {0, 1} : busmaps' = wpc_set_rom_page(busmaps, page) /\ file_bank' = page
    BY <1>2 DEF load_map_file
  <2>2. BankStep(page)  BY <2>1, BankIs
  <2>3. file_bank' \in Nat \ {NoBank}  BY <2>1 DEF NoBank
  <2> QED  BY <1>2, <2>1, <2>2, <2>3 DEF load_map_file, MapStep, FileStep
<1>3. CASE abs_write8
  <2>1. PICK s \in Stores[machine] :
          DeviceWrite(find_device(to_absolute(busmaps, s[1]).devid), to_absolute(busmaps, s[1]).offset, s[2])
    BY <1>3 DEF abs_write8
  <2> DEFINE addr == s[1]
             val == s[2]
             a == to_absolute(busmaps, addr)
  <2>2. addr \in Addresses /\ val \in Nat  BY <1>p
  <2>3. DeviceWrite(find_device(a.devid), a.offset, val)  BY <2>1
  <2> HIDE DEF addr, val
  <2>4. a.devid \in Nat /\ a.offset \in Nat
    <3>1. /\ find_map(busmaps, addr).devid \in Nat
          /\ find_map(busmaps, addr).offset + (addr % BUS_MAP_SIZE) \in Nat
      BY <2>2, Decoded
    <3> QED  BY <3>1 DEF to_absolute
  <2> HIDE DEF a
  <2>5. MapStep  BY <2>2, <2>3, <2>4, DeviceWriteIs
  <2>6. monitor_on'  BY <1>3 DEF abs_write8, Outcome
  <2> QED  BY <1>3, <2>5, <2>6 DEF abs_write8
<1>4. CASE cpu_reset \/ monitor_init \/ cpu_read8 \/ Continue \/ Ended \/ UNCHANGED vars
  BY <1>4 DEF cpu_reset, monitor_init, cpu_read8, Continue, Ended, vars, regs, MapStep
<1> QED  BY <1>1, <1>2, <1>3, <1>4 DEF Next

-----------------------------------------------------------------------------
(***************************************************************************)
(* EON.                                                                    *)
(***************************************************************************)
Page(u) == u \div 32

\* Unit u is the one of its page that a map of the page puts there.
Holds(m, u, devid, frame, flags) ==
  m.devid = devid /\ m.offset = (frame * 32 + (u - Page(u) * 32)) * 128 /\ m.flags = flags

\* The units of a page, and no others.
LEMMA PageRange ==
  ASSUME NEW u \in 0..511, NEW page \in Pages
  PROVE  /\ Page(u) \in Pages
         /\ Page(u) = page <=> u >= page * 32 /\ u < page * 32 + 32
BY DEF Page, Pages

\* What mapping a page does to a unit: nothing if it lies in another page or is
\* fixed, and else it holds the page; no unit becomes fixed.
LEMMA PagePut ==
  ASSUME NEW maps, NEW page \in Pages, NEW devid, NEW frame \in Nat, NEW f \in Nat, NEW new,
         PagePuts(maps, page, devid, frame, f, new), NEW u \in 0..511
  PROVE  /\ Page(u) # page \/ Fixed(maps[u].flags) => new[u] = maps[u]
         /\ Page(u) = page /\ ~Fixed(maps[u].flags) =>
              Holds(new[u], u, devid, frame, f % 4) /\ ~Fixed(new[u].flags)
<1>1. CASE Page(u) = page /\ ~Fixed(maps[u].flags)
  <2>1. Covers(maps, u, page * 32, 32)  BY <1>1, PageRange DEF Covers
  <2>2. /\ new[u].devid = devid /\ new[u].offset = (frame * 32 + (u - page * 32)) * 128
        /\ new[u].flags = f % 4
    BY <2>1, Zenon DEF Puts, PagePuts
  <2>3. ~Fixed(f % 4)  BY TwoBits
  <2> QED  BY <1>1, <2>2, <2>3, Zenon DEF Holds
<1>2. CASE Page(u) # page \/ Fixed(maps[u].flags)
  <2>1. ~Covers(maps, u, page * 32, 32)  BY <1>2, PageRange DEF Covers
  <2>2. new[u] = maps[u]  BY <2>1, Zenon DEF Puts, PagePuts
  <2> QED  BY <1>2, <2>2, Zenon
<1> QED  BY <1>1, <1>2, Zenon

\* A page that the program has mapped holds what its registers say.
EonShown ==
  \A u \in 0..511 :
    Page(u) \in programmed =>
      \/ Fixed(busmaps[u].flags)
      \/ Holds(busmaps[u], u, mmu_regs[Page(u)][1], mmu_regs[Page(u)][2], mmu_regs[Page(u)][3] % 4)

\* Storing a register of the MMU keeps it so.
LEMMA EonShownStep ==
  ASSUME Typed, MmuStep, EonShown
  PROVE  EonShown'
<1>1. PICK page \in Pages, r \in [1..4 -> Nat] :
        /\ mmu_regs' = [mmu_regs EXCEPT ![page] = r]
        /\ PagePuts(busmaps, page, r[1], r[2], r[3], busmaps')
        /\ programmed' = programmed \cup {page}
  BY DEF MmuStep
<1>2. r[1] \in Nat /\ r[2] \in Nat /\ r[3] \in Nat  OBVIOUS
<1> SUFFICES ASSUME NEW u \in 0..511, Page(u) \in programmed'
             PROVE  \/ Fixed(busmaps'[u].flags)
                    \/ Holds(busmaps'[u], u, mmu_regs'[Page(u)][1], mmu_regs'[Page(u)][2],
                             mmu_regs'[Page(u)][3] % 4)
  BY Zenon DEF EonShown
<1>3. /\ Page(u) # page \/ Fixed(busmaps[u].flags) => busmaps'[u] = busmaps[u]
      /\ Page(u) = page /\ ~Fixed(busmaps[u].flags) =>
           Holds(busmaps'[u], u, r[1], r[2], r[3] % 4) /\ ~Fixed(busmaps'[u].flags)
  BY <1>1, <1>2, PagePut
<1>4. Page(u) \in Pages  BY PageRange
<1>5. mmu_regs'[Page(u)] = IF Page(u) = page THEN r ELSE mmu_regs[Page(u)]
  BY <1>1, <1>4 DEF Typed
<1>6. CASE Page(u) = page
  BY <1>3, <1>5, <1>6, Zenon
<1>7. CASE Page(u) # page
  <2>1. Page(u) \in programmed  BY <1>1, <1>7
  <2> QED  BY <1>3, <1>5, <1>7, <2>1, Zenon DEF EonShown
<1> QED  BY <1>6, <1>7

\* The ROM can be stored into only where the registers show it as writable.
EonRom ==
  \A u \in 0..511 :
    busmaps[u].devid = 3 =>
      /\ ~Fixed(busmaps[u].flags)
      /\ Writable(busmaps[u].flags) => mmu_regs[Page(u)][1] = 3 /\ Writable(mmu_regs[Page(u)][3])

\* The MMU keeps it so: only the two low bits of its flags reach the bus.
LEMMA EonRomStep ==
  ASSUME Typed, MmuStep, EonRom
  PROVE  EonRom'
<1>1. PICK page \in Pages, r \in [1..4 -> Nat] :
        /\ mmu_regs' = [mmu_regs EXCEPT ![page] = r]
        /\ PagePuts(busmaps, page, r[1], r[2], r[3], busmaps')
  BY DEF MmuStep
<1>2. r[1] \in Nat /\ r[2] \in Nat /\ r[3] \in Nat  OBVIOUS
<1> SUFFICES ASSUME NEW u \in 0..511, busmaps'[u].devid = 3
             PROVE  /\ ~Fixed(busmaps'[u].flags)
                    /\ Writable(busmaps'[u].flags) =>
                         mmu_regs'[Page(u)][1] = 3 /\ Writable(mmu_regs'[Page(u)][3])
  BY Zenon DEF EonRom
<1>3. /\ Page(u) # page \/ Fixed(busmaps[u].flags) => busmaps'[u] = busmaps[u]
      /\ Page(u) = page /\ ~Fixed(busmaps[u].flags) =>
           Holds(busmaps'[u], u, r[1], r[2], r[3] % 4) /\ ~Fixed(busmaps'[u].flags)
  BY <1>1, <1>2, PagePut
<1>4. Page(u) \in Pages  BY PageRange
<1>5. mmu_regs'[Page(u)] = IF Page(u) = page THEN r ELSE mmu_regs[Page(u)]
  BY <1>1, <1>4 DEF Typed
<1>6. CASE Page(u) = page /\ ~Fixed(busmaps[u].flags)
  <2>1. Holds(busmaps'[u], u, r[1], r[2], r[3] % 4) /\ ~Fixed(busmaps'[u].flags)  BY <1>3, <1>6, Zenon
  <2>2. r[1] = 3 /\ busmaps'[u].flags = r[3] % 4  BY <2>1 DEF Holds
  <2>3. Writable(r[3] % 4) <=> Writable(r[3])  BY <1>2, TwoBits
  <2>4. mmu_regs'[Page(u)] = r  BY <1>5, <1>6
  <2> QED  BY <2>1, <2>2, <2>3, <2>4
<1>7. CASE Page(u) # page \/ Fixed(busmaps[u].flags)
  <2>1. busmaps'[u] = busmaps[u]  BY <1>3, <1>7, Zenon
  <2>2. /\ ~Fixed(busmaps[u].flags)
        /\ Writable(busmaps[u].flags) => mmu_regs[Page(u)][1] = 3 /\ Writable(mmu_regs[Page(u)][3])
    BY <2>1, Zenon DEF EonRom
  <2>3. mmu_regs'[Page(u)] = mmu_regs[Page(u)]  BY <1>5, <1>7, <2>2
  <2> QED  BY <2>1, <2>2, <2>3, Zenon
<1> QED  BY <1>6, <1>7

\* Unit u + 1 goes on where unit u ends.
Contig(maps, u) == maps[u + 1].devid = maps[u].devid /\ maps[u + 1].offset = maps[u].offset + 128

\* Two units of a page that hold the same go on.
LEMMA HoldsContig ==
  ASSUME NEW maps, NEW u \in 0..510, Page(u + 1) = Page(u), NEW devid, NEW frame \in Nat, NEW f,
         Holds(maps[u], u, devid, frame, f), Holds(maps[u + 1], u + 1, devid, frame, f)
  PROVE  Contig(maps, u)
<1>1. Page(u) \in Nat  BY DEF Page
<1>2. maps[u].devid = devid /\ maps[u].offset = (frame * 32 + (u - Page(u) * 32)) * 128
  BY DEF Holds
<1>3. maps[u + 1].devid = devid /\ maps[u + 1].offset = (frame * 32 + ((u + 1) - Page(u) * 32)) * 128
  BY DEF Holds
<1> QED  BY <1>1, <1>2, <1>3 DEF Contig

\* Two units of a part of the bus that shows one part of a device go on.
LEMMA LinearContig ==
  ASSUME NEW maps, NEW lo \in Nat, NEW hi \in Nat, NEW d, NEW o \in Nat, Linear(maps, lo, hi, d, o),
         NEW u \in 0..510, u >= lo, u + 1 < hi
  PROVE  Contig(maps, u)
<1>1. u \in 0..511 /\ u + 1 \in 0..511 /\ u < hi /\ u + 1 >= lo  OBVIOUS
<1>2. maps[u].devid = d /\ maps[u].offset = (o + (u - lo)) * 128  BY <1>1, Zenon DEF Linear
<1>3. maps[u + 1].devid = d /\ maps[u + 1].offset = (o + ((u + 1) - lo)) * 128  BY <1>1, Zenon DEF Linear
<1> QED  BY <1>2, <1>3 DEF Contig

\* On a page of RAM that was never mapped, or was mapped by its registers, one
\* unit goes on where the last one ends.
EonPairs ==
  \A u \in 0..510 :
    /\ Page(u + 1) = Page(u) /\ (Page(u) < 14 \/ Page(u) \in programmed)
    /\ ~Fixed(busmaps[u].flags) /\ ~Fixed(busmaps[u + 1].flags)
    => Contig(busmaps, u)

\* The MMU maps a page as a whole, past its fixed units.
LEMMA EonPairsStep ==
  ASSUME Typed, MmuStep, EonPairs
  PROVE  EonPairs'
<1>1. PICK page \in Pages, r \in [1..4 -> Nat] :
        /\ mmu_regs' = [mmu_regs EXCEPT ![page] = r]
        /\ PagePuts(busmaps, page, r[1], r[2], r[3], busmaps')
        /\ programmed' = programmed \cup {page}
  BY DEF MmuStep
<1>2. r[1] \in Nat /\ r[2] \in Nat /\ r[3] \in Nat  OBVIOUS
<1>3. ASSUME NEW w \in 0..511
      PROVE  /\ Page(w) # page \/ Fixed(busmaps[w].flags) => busmaps'[w] = busmaps[w]
             /\ Page(w) = page /\ ~Fixed(busmaps[w].flags) =>
                  Holds(busmaps'[w], w, r[1], r[2], r[3] % 4) /\ ~Fixed(busmaps'[w].flags)
  BY <1>1, <1>2, PagePut
<1> SUFFICES ASSUME NEW u \in 0..510, Page(u + 1) = Page(u), Page(u) < 14 \/ Page(u) \in programmed',
                    ~Fixed(busmaps'[u].flags), ~Fixed(busmaps'[u + 1].flags)
             PROVE  Contig(busmaps', u)
  BY Zenon DEF EonPairs
<1> DEFINE v == u + 1
<1>u. u \in 0..511 /\ v \in 0..511  OBVIOUS
<1> HIDE DEF v
<1>4. /\ Page(u) # page \/ Fixed(busmaps[u].flags) => busmaps'[u] = busmaps[u]
      /\ Page(u) = page /\ ~Fixed(busmaps[u].flags) =>
           Holds(busmaps'[u], u, r[1], r[2], r[3] % 4) /\ ~Fixed(busmaps'[u].flags)
  BY <1>3, <1>u, Zenon
<1>5. /\ Page(v) # page \/ Fixed(busmaps[v].flags) => busmaps'[v] = busmaps[v]
      /\ Page(v) = page /\ ~Fixed(busmaps[v].flags) =>
           Holds(busmaps'[v], v, r[1], r[2], r[3] % 4) /\ ~Fixed(busmaps'[v].flags)
  BY <1>3, <1>u, Zenon
<1>6. CASE Page(u) = page
  <2>1. Holds(busmaps'[u], u, r[1], r[2], r[3] % 4)
    BY <1>4, <1>6
  <2>2. Holds(busmaps'[u + 1], u + 1, r[1], r[2], r[3] % 4)
    BY <1>5, <1>6 DEF v
  <2> QED  BY <1>2, <2>1, <2>2, HoldsContig
<1>7. CASE Page(u) # page
  <2>1. busmaps'[u] = busmaps[u] /\ busmaps'[u + 1] = busmaps[u + 1]
    BY <1>4, <1>5, <1>7 DEF v
  <2>2. Page(u) < 14 \/ Page(u) \in programmed  BY <1>1, <1>7
  <2>3. Contig(busmaps, u)  BY <2>1, <2>2, Zenon DEF EonPairs
  <2> QED  BY <2>1, <2>3, Zenon DEF Contig
<1> QED  BY <1>6, <1>7

-----------------------------------------------------------------------------
(***************************************************************************)
(* EON2.                                                                   *)
(***************************************************************************)
\* A slot holds what its registers say; slot 15, which the ROM shares, once the
\* program has mapped it.
Eon2Shown ==
  \A u \in 0..511 :
    Page(u) # 15 \/ 15 \in programmed =>
      \/ Fixed(busmaps[u].flags)
      \/ Holds(busmaps[u], u, 1, small.page[Page(u)], small.flags[Page(u)] % 4)

\* The small MMU keeps it so, and maps no ROM.
LEMMA Eon2ShownStep ==
  ASSUME Typed, SmallStep, Eon2Shown
  PROVE  Eon2Shown' /\ (RomLocked(busmaps) => RomLocked(busmaps'))
<1>1. CASE /\ small'.page = small.page /\ small'.flags = small.flags /\ UNCHANGED busmaps
           /\ programmed' = programmed \/ \E s \in Nat \ Pages : programmed' = programmed \cup {s}
  <2>1. 15 \in programmed' => 15 \in programmed  BY <1>1 DEF Pages
  <2> QED  BY <1>1, <2>1, Zenon DEF Eon2Shown
<1>2. ASSUME NEW slot \in Pages, NEW page \in Nat, NEW flags \in Nat,
             small'.page = [small.page EXCEPT ![slot] = page],
             small'.flags = [small.flags EXCEPT ![slot] = flags],
             PagePuts(busmaps, slot, 1, page, flags, busmaps'),
             programmed' = programmed \cup {slot}
      PROVE  Eon2Shown' /\ (RomLocked(busmaps) => RomLocked(busmaps'))
  <2>1. ASSUME NEW u \in 0..511, Page(u) # 15 \/ 15 \in programmed'
        PROVE  \/ Fixed(busmaps'[u].flags)
               \/ Holds(busmaps'[u], u, 1, small'.page[Page(u)], small'.flags[Page(u)] % 4)
    <3>1. /\ Page(u) # slot \/ Fixed(busmaps[u].flags) => busmaps'[u] = busmaps[u]
          /\ Page(u) = slot /\ ~Fixed(busmaps[u].flags) =>
               Holds(busmaps'[u], u, 1, page, flags % 4) /\ ~Fixed(busmaps'[u].flags)
      BY <1>2, PagePut
    <3>2. Page(u) \in Pages  BY PageRange
    <3>3. small.page \in [Pages -> Nat] /\ small.flags \in [Pages -> Nat]  BY DEF Typed, SmallRegs
    <3>4. /\ small'.page[Page(u)] = IF Page(u) = slot THEN page ELSE small.page[Page(u)]
          /\ small'.flags[Page(u)] = IF Page(u) = slot THEN flags ELSE small.flags[Page(u)]
      BY <1>2, <3>2, <3>3
    <3>5. CASE Page(u) = slot
      BY <3>1, <3>4, <3>5, Zenon
    <3>6. CASE Page(u) # slot
      <4>1. Page(u) # 15 \/ 15 \in programmed
        BY <1>2, <2>1, <3>6
      <4>2. busmaps'[u] = busmaps[u]  BY <3>1, <3>6, Zenon
      <4>3. small'.page[Page(u)] = small.page[Page(u)] /\ small'.flags[Page(u)] = small.flags[Page(u)]
        BY <3>4, <3>6, Zenon
      <4> QED  BY <4>1, <4>2, <4>3, Zenon DEF Eon2Shown
    <3> QED  BY <3>5, <3>6
  <2>2. RomLocked(busmaps) => RomLocked(busmaps')
    <3>1. Puts(busmaps, slot * 32, 1, page * 32, 32, flags % 4, busmaps')  BY <1>2 DEF PagePuts
    <3> QED  BY <3>1, PutsRomLocked
  <2> QED  BY <2>1, <2>2, Zenon DEF Eon2Shown
<1> QED  BY <1>1, <1>2 DEF SmallStep

-----------------------------------------------------------------------------
(***************************************************************************)
(* WPC.                                                                    *)
(***************************************************************************)
\* The RAM, of which the units from unit k on are locked.
RamShown(maps, k) ==
  \A u \in 0..511 : u < 64 =>
    /\ maps[u].devid = 2 /\ maps[u].offset = u * 128
    /\ maps[u].flags = IF u < k THEN MAP_READWRITE ELSE MAP_READABLE

\* A call above the RAM leaves the RAM.
LEMMA PutsKeepsRam ==
  ASSUME NEW maps, NEW a \in Nat, a >= 64, NEW devid, NEW o, NEW l \in Nat, NEW flags, NEW new, NEW k,
         Puts(maps, a, devid, o, l, flags, new), RamShown(maps, k)
  PROVE  RamShown(new, k)
<1> SUFFICES ASSUME NEW u \in 0..511, u < 64
             PROVE  /\ new[u].devid = 2 /\ new[u].offset = u * 128
                    /\ new[u].flags = IF u < k THEN MAP_READWRITE ELSE MAP_READABLE
  BY Zenon DEF RamShown
<1>1. ~Covers(maps, u, a, l)  BY DEF Covers
<1>2. new[u] = maps[u]  BY <1>1, Zenon DEF Puts
<1>3. /\ maps[u].devid = 2 /\ maps[u].offset = u * 128
      /\ maps[u].flags = IF u < k THEN MAP_READWRITE ELSE MAP_READABLE
  BY Zenon DEF RamShown
<1> QED  BY <1>2, <1>3

\* What lies above the RAM is the same.
SameAbove(before, new) == \A u \in 0..511 : u >= 64 => new[u] = before[u]

\* wpc_update_ram, on maps of which none is fixed: the RAM is shown, the rest
\* stays, and none is fixed.
LEMMA RamPut ==
  ASSUME NEW before, NEW maps, NEW new, NEW k \in 32..64, NoneFixed(before),
         Puts(before, 0, 2, 0, k, MAP_READWRITE, maps), Puts(maps, k, 2, k, 64 - k, MAP_READABLE, new)
  PROVE  /\ NoneFixed(new) /\ RamShown(new, k) /\ new \in Maps
         /\ SameAbove(before, new)
<1>1. NoneFixed(maps)  BY FlagBits, PutsNoneFixed
<1>2. NoneFixed(new)  BY <1>1, FlagBits, PutsNoneFixed
<1>3. ASSUME NEW u \in 0..511, u < 64
      PROVE  /\ new[u].devid = 2 /\ new[u].offset = u * 128
             /\ new[u].flags = IF u < k THEN MAP_READWRITE ELSE MAP_READABLE
  <2>1. CASE u < k
    <3>1. ~Fixed(before[u].flags)  BY Zenon DEF NoneFixed
    <3>2. Covers(before, u, 0, k)  BY <2>1, <3>1 DEF Covers
    <3>3. maps[u].devid = 2 /\ maps[u].offset = (0 + (u - 0)) * 128 /\ maps[u].flags = MAP_READWRITE
      BY <3>2, Zenon DEF Puts
    <3>4. ~Covers(maps, u, k, 64 - k)  BY <2>1 DEF Covers
    <3>5. new[u] = maps[u]  BY <3>4, Zenon DEF Puts
    <3> QED  BY <2>1, <3>3, <3>5
  <2>2. CASE ~(u < k)
    <3>1. ~Fixed(maps[u].flags)  BY <1>1, Zenon DEF NoneFixed
    <3>2. Covers(maps, u, k, 64 - k)  BY <1>3, <2>2, <3>1 DEF Covers
    <3>3. new[u].devid = 2 /\ new[u].offset = (k + (u - k)) * 128 /\ new[u].flags = MAP_READABLE
      BY <3>2, Zenon DEF Puts
    <3> QED  BY <2>2, <3>3
  <2> QED  BY <2>1, <2>2
<1>4. ASSUME NEW u \in 0..511, u >= 64
      PROVE  new[u] = before[u]
  <2>1. ~Covers(before, u, 0, k) /\ ~Covers(maps, u, k, 64 - k)  BY <1>4 DEF Covers
  <2> QED  BY <2>1, Zenon DEF Puts
<1>5. RamShown(new, k)  BY <1>3, Zenon DEF RamShown
<1>6. new \in Maps  BY PutsTyped
<1> QED  BY <1>2, <1>4, <1>5, <1>6 DEF SameAbove

\* A part of the address space that shows one part of a device.
Window(maps, lo, hi) == \E d \in Nat, o \in Nat : Linear(maps, lo, hi, d, o)

\* From unit lo up to unit hi the bus shows a device from its unit o on, with
\* these flags.
Part(maps, lo, hi, devid, o, flags) ==
  \A u \in 0..511 : u >= lo /\ u < hi =>
    maps[u].devid = devid /\ maps[u].offset = (o + (u - lo)) * 128 /\ maps[u].flags = flags

\* A part is mapped by a call, unless a unit is fixed.
LEMMA PutsPart ==
  ASSUME NEW maps, NEW a \in Nat, NEW devid, NEW o, NEW l \in Nat, NEW flags, NEW new, NEW hi, hi = a + l,
         Puts(maps, a, devid, o, l, flags, new), NoneFixed(maps)
  PROVE  Part(new, a, hi, devid, o, flags)
<1> SUFFICES ASSUME NEW u \in 0..511, u >= a, u < hi
             PROVE  new[u].devid = devid /\ new[u].offset = (o + (u - a)) * 128 /\ new[u].flags = flags
  BY Zenon DEF Part
<1>1. ~Fixed(maps[u].flags)  BY Zenon DEF NoneFixed
<1>2. Covers(maps, u, a, l)  BY <1>1 DEF Covers
<1> QED  BY <1>2, Zenon DEF Puts

\* A call elsewhere leaves a part.
LEMMA PutsKeepsPart ==
  ASSUME NEW maps, NEW a \in Nat, NEW devid, NEW o, NEW l \in Nat, NEW flags, NEW new,
         Puts(maps, a, devid, o, l, flags, new),
         NEW lo \in Nat, NEW hi \in Nat, NEW d, NEW p, NEW f, Part(maps, lo, hi, d, p, f), hi <= a \/ a + l <= lo
  PROVE  Part(new, lo, hi, d, p, f)
<1> SUFFICES ASSUME NEW u \in 0..511, u >= lo, u < hi
             PROVE  new[u].devid = d /\ new[u].offset = (p + (u - lo)) * 128 /\ new[u].flags = f
  BY Zenon DEF Part
<1>1. ~Covers(maps, u, a, l)  BY DEF Covers
<1>2. new[u] = maps[u]  BY <1>1, Zenon DEF Puts
<1>3. maps[u].devid = d /\ maps[u].offset = (p + (u - lo)) * 128 /\ maps[u].flags = f  BY Zenon DEF Part
<1> QED  BY <1>2, <1>3, Zenon

\* Mapping the RAM leaves the parts above it.
LEMMA AboveRamPart ==
  ASSUME NEW before, NEW new, SameAbove(before, new),
         NEW lo \in Nat, lo >= 64, NEW hi \in Nat, NEW d, NEW o, NEW f, Part(before, lo, hi, d, o, f)
  PROVE  Part(new, lo, hi, d, o, f)
<1> SUFFICES ASSUME NEW u \in 0..511, u >= lo, u < hi
             PROVE  new[u].devid = d /\ new[u].offset = (o + (u - lo)) * 128 /\ new[u].flags = f
  BY Zenon DEF Part
<1>1. u >= 64  OBVIOUS
<1>2. new[u] = before[u]  BY <1>1, Zenon DEF SameAbove
<1> QED  BY <1>2, Zenon DEF Part

\* No map is fixed; the RAM is locked as the registers say, the registers and the
\* top of the ROM are where they were, the bank and the display show something,
\* and what the registers say once they have been stored.
WpcShown ==
  /\ NoneFixed(busmaps)
  /\ RamShown(busmaps, Open(asic))
  /\ Linear(busmaps, 120, 128, 1, 0) /\ Linear(busmaps, 256, 512, 3, TopUnit)
  /\ Window(busmaps, 128, 256) /\ Window(busmaps, 112, 116) /\ Window(busmaps, 116, 120)
  /\ "rom" \in programmed \/ file_bank # NoBank => Part(busmaps, 128, 256, 2, Selected * 128, MAP_READABLE)
  /\ "dmd0" \in programmed => Part(busmaps, 112, 116, 3, asic.dmd_maps[0] * 4, MAP_READWRITE)
  /\ "dmd1" \in programmed => Part(busmaps, 116, 120, 3, asic.dmd_maps[1] * 4, MAP_READWRITE)

\* What lies above the RAM stays when the RAM is mapped.
LEMMA AboveRam ==
  ASSUME NEW before, NEW new, SameAbove(before, new),
         NEW lo \in Nat, lo >= 64, NEW hi \in Nat, NEW d, NEW o, Linear(before, lo, hi, d, o)
  PROVE  Linear(new, lo, hi, d, o)
<1> SUFFICES ASSUME NEW u \in 0..511, u >= lo, u < hi
             PROVE  new[u].devid = d /\ new[u].offset = (o + (u - lo)) * 128
  BY Zenon DEF Linear
<1>1. u >= 64  OBVIOUS
<1>2. new[u] = before[u]  BY <1>1, Zenon DEF SameAbove
<1> QED  BY <1>2, Zenon DEF Linear

\* A call elsewhere leaves a window.
LEMMA PutsKeepsWindow ==
  ASSUME NEW maps, NEW a \in Nat, NEW devid, NEW o, NEW l \in Nat, NEW flags, NEW new,
         Puts(maps, a, devid, o, l, flags, new),
         NEW lo \in Nat, NEW hi \in Nat, Window(maps, lo, hi), hi <= a \/ a + l <= lo
  PROVE  Window(new, lo, hi)
<1>1. PICK d \in Nat, p \in Nat : Linear(maps, lo, hi, d, p)  BY DEF Window
<1>2. Linear(new, lo, hi, d, p)  BY <1>1, PutsKeepsLinear
<1> QED  BY <1>2 DEF Window

\* Mapping the RAM leaves the windows above it.
LEMMA AboveRamWindow ==
  ASSUME NEW before, NEW new, SameAbove(before, new),
         NEW lo \in Nat, lo >= 64, NEW hi \in Nat, Window(before, lo, hi)
  PROVE  Window(new, lo, hi)
<1>1. PICK d \in Nat, p \in Nat : Linear(before, lo, hi, d, p)  BY DEF Window
<1>2. Linear(new, lo, hi, d, p)  BY <1>1, AboveRam
<1> QED  BY <1>2 DEF Window

\* The bank is mapped.
LEMMA WpcBank ==
  ASSUME WpcShown, NEW val \in Nat, BankStep(val)
  PROVE  /\ NoneFixed(busmaps') /\ RamShown(busmaps', Open(asic))
         /\ Linear(busmaps', 120, 128, 1, 0) /\ Linear(busmaps', 256, 512, 3, TopUnit)
         /\ Window(busmaps', 128, 256) /\ Window(busmaps', 112, 116) /\ Window(busmaps', 116, 120)
         /\ Part(busmaps', 128, 256, 2, val * 128, MAP_READABLE)
         /\ \A o : Part(busmaps, 112, 116, 3, o, MAP_READWRITE) => Part(busmaps', 112, 116, 3, o, MAP_READWRITE)
         /\ \A o : Part(busmaps, 116, 120, 3, o, MAP_READWRITE) => Part(busmaps', 116, 120, 3, o, MAP_READWRITE)
<1> DEFINE w == val * 128
<1>0. Puts(busmaps, 128, 2, w, 128, MAP_READABLE, busmaps') /\ w \in Nat  BY DEF BankStep
<1> HIDE DEF w
<1>s. NoneFixed(busmaps) /\ RamShown(busmaps, Open(asic)) /\ Linear(busmaps, 120, 128, 1, 0)
      /\ Linear(busmaps, 256, 512, 3, TopUnit) /\ Window(busmaps, 112, 116) /\ Window(busmaps, 116, 120)
  BY DEF WpcShown
<1>1. NoneFixed(busmaps')  BY <1>0, <1>s, FlagBits, PutsNoneFixed
<1>2. RamShown(busmaps', Open(asic))  BY <1>0, <1>s, PutsKeepsRam
<1>3. Linear(busmaps', 120, 128, 1, 0)  BY <1>0, <1>s, PutsKeepsLinear
<1>4. Linear(busmaps', 256, 512, 3, TopUnit)  BY <1>0, <1>s, PutsKeepsLinear
<1>5. Part(busmaps', 128, 256, 2, w, MAP_READABLE)  BY <1>0, <1>s, PutsPart
<1>l. Linear(busmaps', 128, 256, 2, w)  BY <1>0, <1>s, PutsLinear
<1>6. Window(busmaps', 128, 256)  BY <1>0, <1>l DEF Window
<1>7. Window(busmaps', 112, 116)  BY <1>0, <1>s, PutsKeepsWindow
<1>8. Window(busmaps', 116, 120)  BY <1>0, <1>s, PutsKeepsWindow
<1>9. ASSUME NEW o, Part(busmaps, 112, 116, 3, o, MAP_READWRITE) PROVE Part(busmaps', 112, 116, 3, o, MAP_READWRITE)
  BY <1>0, <1>9, PutsKeepsPart
<1>10. ASSUME NEW o, Part(busmaps, 116, 120, 3, o, MAP_READWRITE) PROVE Part(busmaps', 116, 120, 3, o, MAP_READWRITE)
  BY <1>0, <1>10, PutsKeepsPart
<1> QED  BY <1>1, <1>2, <1>3, <1>4, <1>5, <1>6, <1>7, <1>8, <1>9, <1>10 DEF w

\* A page of the display is mapped, the first or the second.
LEMMA WpcDmd ==
  ASSUME WpcShown, NEW a \in {112, 116}, NEW val \in Nat, DmdStep(a, val)
  PROVE  /\ NoneFixed(busmaps') /\ RamShown(busmaps', Open(asic))
         /\ Linear(busmaps', 120, 128, 1, 0) /\ Linear(busmaps', 256, 512, 3, TopUnit)
         /\ Window(busmaps', 128, 256) /\ Window(busmaps', 112, 116) /\ Window(busmaps', 116, 120)
         /\ Part(busmaps', a, a + 4, 3, val * 4, MAP_READWRITE)
         /\ \A o : Part(busmaps, 128, 256, 2, o, MAP_READABLE) => Part(busmaps', 128, 256, 2, o, MAP_READABLE)
         /\ a # 112 => \A o : Part(busmaps, 112, 116, 3, o, MAP_READWRITE) => Part(busmaps', 112, 116, 3, o, MAP_READWRITE)
         /\ a # 116 => \A o : Part(busmaps, 116, 120, 3, o, MAP_READWRITE) => Part(busmaps', 116, 120, 3, o, MAP_READWRITE)
<1> DEFINE w == val * 4
           hi == a + 4
<1>0. Puts(busmaps, a, 3, w, 4, MAP_READWRITE, busmaps') /\ w \in Nat /\ a \in Nat /\ a >= 64  BY DEF DmdStep
<1>h. hi = a + 4 /\ (a = 112 => hi = 116) /\ (a = 116 => hi = 120)  OBVIOUS
<1> HIDE DEF w, hi
<1>s. NoneFixed(busmaps) /\ RamShown(busmaps, Open(asic)) /\ Linear(busmaps, 120, 128, 1, 0)
      /\ Linear(busmaps, 256, 512, 3, TopUnit) /\ Window(busmaps, 128, 256)
      /\ Window(busmaps, 112, 116) /\ Window(busmaps, 116, 120)
  BY DEF WpcShown
<1>1. NoneFixed(busmaps')  BY <1>0, <1>s, FlagBits, PutsNoneFixed
<1>2. RamShown(busmaps', Open(asic))  BY <1>0, <1>s, PutsKeepsRam
<1>3. Linear(busmaps', 120, 128, 1, 0)  BY <1>0, <1>s, PutsKeepsLinear
<1>4. Linear(busmaps', 256, 512, 3, TopUnit)  BY <1>0, <1>s, PutsKeepsLinear
<1>5. Part(busmaps', a, hi, 3, w, MAP_READWRITE)  BY <1>0, <1>h, <1>s, PutsPart
<1>l. Linear(busmaps', a, hi, 3, w)  BY <1>0, <1>h, <1>s, PutsLinear
<1>6. Window(busmaps', a, hi)  BY <1>0, <1>l DEF Window
<1>7. Window(busmaps', 128, 256)  BY <1>0, <1>s, PutsKeepsWindow
<1>8. a # 112 => Window(busmaps', 112, 116)  BY <1>0, <1>s, PutsKeepsWindow
<1>9. a # 116 => Window(busmaps', 116, 120)  BY <1>0, <1>s, PutsKeepsWindow
<1>10. ASSUME NEW o, Part(busmaps, 128, 256, 2, o, MAP_READABLE) PROVE Part(busmaps', 128, 256, 2, o, MAP_READABLE)
  BY <1>0, <1>10, PutsKeepsPart
<1>11. ASSUME NEW o, a # 112, Part(busmaps, 112, 116, 3, o, MAP_READWRITE) PROVE Part(busmaps', 112, 116, 3, o, MAP_READWRITE)
  BY <1>0, <1>11, PutsKeepsPart
<1>12. ASSUME NEW o, a # 116, Part(busmaps, 116, 120, 3, o, MAP_READWRITE) PROVE Part(busmaps', 116, 120, 3, o, MAP_READWRITE)
  BY <1>0, <1>12, PutsKeepsPart
<1>13. Window(busmaps', 112, 116) /\ Window(busmaps', 116, 120)
  BY <1>6, <1>8, <1>9, <1>h
<1>14. Part(busmaps', a, a + 4, 3, val * 4, MAP_READWRITE)  BY <1>5 DEF w, hi
<1> QED  BY <1>1, <1>2, <1>3, <1>4, <1>7, <1>10, <1>11, <1>12, <1>13, <1>14

\* A register of the ASIC is stored, or a bank is selected by a map file.
LEMMA WpcStep ==
  ASSUME Typed, WpcShown,
         \/ AsicStep
         \/ FileStep
  PROVE  WpcShown'
<1>0. /\ "rom" \in programmed \/ file_bank # NoBank => Part(busmaps, 128, 256, 2, Selected * 128, MAP_READABLE)
      /\ "dmd0" \in programmed => Part(busmaps, 112, 116, 3, asic.dmd_maps[0] * 4, MAP_READWRITE)
      /\ "dmd1" \in programmed => Part(busmaps, 116, 120, 3, asic.dmd_maps[1] * 4, MAP_READWRITE)
  BY DEF WpcShown
<1>1. CASE UNCHANGED <<busmaps, asic, programmed, file_bank>>
  BY <1>1 DEF WpcShown, Selected
<1>2. CASE /\ BankStep(asic'.rombank) /\ programmed' = programmed \cup {"rom"} /\ asic' \in AsicRegs
           /\ file_bank' = NoBank
           /\ asic'.dmd_maps = asic.dmd_maps /\ Open(asic') = Open(asic)
  <2>1. asic'.rombank \in Nat  BY <1>2 DEF AsicRegs
  <2>2. ("dmd0" \in programmed' => "dmd0" \in programmed) /\ ("dmd1" \in programmed' => "dmd1" \in programmed)
    BY <1>2
  <2>3. Selected' = asic'.rombank  BY <1>2 DEF Selected
  <2> QED  BY <1>0, <1>2, <2>1, <2>2, <2>3, WpcBank DEF WpcShown
<1>3. CASE /\ DmdStep(112, asic'.dmd_maps[0]) /\ programmed' = programmed \cup {"dmd0"} /\ asic' \in AsicRegs
           /\ UNCHANGED file_bank
           /\ asic'.rombank = asic.rombank /\ asic'.dmd_maps[1] = asic.dmd_maps[1] /\ Open(asic') = Open(asic)
  <2>1. asic'.dmd_maps[0] \in Nat  BY <1>3 DEF AsicRegs
  <2>2. ("rom" \in programmed' => "rom" \in programmed) /\ ("dmd1" \in programmed' => "dmd1" \in programmed)
    BY <1>3
  <2>3. /\ NoneFixed(busmaps') /\ RamShown(busmaps', Open(asic))
        /\ Linear(busmaps', 120, 128, 1, 0) /\ Linear(busmaps', 256, 512, 3, TopUnit)
        /\ Window(busmaps', 128, 256) /\ Window(busmaps', 112, 116) /\ Window(busmaps', 116, 120)
        /\ Part(busmaps', 112, 112 + 4, 3, asic'.dmd_maps[0] * 4, MAP_READWRITE)
        /\ \A o : Part(busmaps, 128, 256, 2, o, MAP_READABLE) => Part(busmaps', 128, 256, 2, o, MAP_READABLE)
        /\ \A o : Part(busmaps, 116, 120, 3, o, MAP_READWRITE) => Part(busmaps', 116, 120, 3, o, MAP_READWRITE)
    BY <1>3, <2>1, WpcDmd
  <2>4. Part(busmaps', 112, 116, 3, asic'.dmd_maps[0] * 4, MAP_READWRITE)  BY <2>3
  <2>5. Selected' = Selected  BY <1>3 DEF Selected
  <2> QED  BY <1>0, <1>3, <2>2, <2>3, <2>4, <2>5 DEF WpcShown
<1>4. CASE /\ DmdStep(116, asic'.dmd_maps[1]) /\ programmed' = programmed \cup {"dmd1"} /\ asic' \in AsicRegs
           /\ UNCHANGED file_bank
           /\ asic'.rombank = asic.rombank /\ asic'.dmd_maps[0] = asic.dmd_maps[0] /\ Open(asic') = Open(asic)
  <2>1. asic'.dmd_maps[1] \in Nat  BY <1>4 DEF AsicRegs
  <2>2. ("rom" \in programmed' => "rom" \in programmed) /\ ("dmd0" \in programmed' => "dmd0" \in programmed)
    BY <1>4
  <2>3. /\ NoneFixed(busmaps') /\ RamShown(busmaps', Open(asic))
        /\ Linear(busmaps', 120, 128, 1, 0) /\ Linear(busmaps', 256, 512, 3, TopUnit)
        /\ Window(busmaps', 128, 256) /\ Window(busmaps', 112, 116) /\ Window(busmaps', 116, 120)
        /\ Part(busmaps', 116, 116 + 4, 3, asic'.dmd_maps[1] * 4, MAP_READWRITE)
        /\ \A o : Part(busmaps, 128, 256, 2, o, MAP_READABLE) => Part(busmaps', 128, 256, 2, o, MAP_READABLE)
        /\ \A o : Part(busmaps, 112, 116, 3, o, MAP_READWRITE) => Part(busmaps', 112, 116, 3, o, MAP_READWRITE)
    BY <1>4, <2>1, WpcDmd
  <2>4. Part(busmaps', 116, 120, 3, asic'.dmd_maps[1] * 4, MAP_READWRITE)  BY <2>3
  <2>5. Selected' = Selected  BY <1>4 DEF Selected
  <2> QED  BY <1>0, <1>4, <2>2, <2>3, <2>4, <2>5 DEF WpcShown
<1>5. CASE /\ RamStep(asic') /\ programmed' = programmed \cup {"ram"} /\ UNCHANGED file_bank
           /\ asic'.rombank = asic.rombank /\ asic'.dmd_maps = asic.dmd_maps
  <2> DEFINE k == Open(asic')
  <2>1. PICK maps :
          /\ Puts(busmaps, 0, 2, 0, k, MAP_READWRITE, maps)
          /\ Puts(maps, k, 2, k, 64 - k, MAP_READABLE, busmaps')
    BY <1>5 DEF RamStep
  <2>2. k \in 32..64  BY OpenRange
  <2> HIDE DEF k
  <2>3. /\ NoneFixed(busmaps') /\ RamShown(busmaps', k)
        /\ SameAbove(busmaps, busmaps')
    BY <2>1, <2>2, RamPut DEF WpcShown
  <2>4. \A o : Part(busmaps, 128, 256, 2, o, MAP_READABLE) => Part(busmaps', 128, 256, 2, o, MAP_READABLE)
    BY <2>3, AboveRamPart
  <2>5. \A o : Part(busmaps, 112, 116, 3, o, MAP_READWRITE) => Part(busmaps', 112, 116, 3, o, MAP_READWRITE)
    BY <2>3, AboveRamPart
  <2>6. \A o : Part(busmaps, 116, 120, 3, o, MAP_READWRITE) => Part(busmaps', 116, 120, 3, o, MAP_READWRITE)
    BY <2>3, AboveRamPart
  <2>7. Linear(busmaps', 120, 128, 1, 0)  BY <2>3, AboveRam DEF WpcShown
  <2>8. Linear(busmaps', 256, 512, 3, TopUnit)  BY <2>3, AboveRam DEF WpcShown
  <2>9. Window(busmaps', 128, 256)  BY <2>3, AboveRamWindow DEF WpcShown
  <2>10. Window(busmaps', 112, 116)  BY <2>3, AboveRamWindow DEF WpcShown
  <2>11. Window(busmaps', 116, 120)  BY <2>3, AboveRamWindow DEF WpcShown
  <2>12. /\ "rom" \in programmed' => "rom" \in programmed
         /\ "dmd0" \in programmed' => "dmd0" \in programmed
         /\ "dmd1" \in programmed' => "dmd1" \in programmed
    BY <1>5
  <2>13. Selected' = Selected  BY <1>5 DEF Selected
  <2> QED  BY <1>0, <1>5, <2>3, <2>4, <2>5, <2>6, <2>7, <2>8, <2>9, <2>10, <2>11, <2>12, <2>13 DEF WpcShown, k
<1>6. CASE FileStep
  <2> DEFINE val == file_bank'
  <2>1. val \in Nat /\ val # NoBank /\ BankStep(val) /\ UNCHANGED <<asic, programmed>>
    BY <1>6 DEF FileStep
  <2>2. Selected' = val  BY <2>1 DEF Selected
  <2> HIDE DEF val
  <2>3. /\ NoneFixed(busmaps') /\ RamShown(busmaps', Open(asic))
        /\ Linear(busmaps', 120, 128, 1, 0) /\ Linear(busmaps', 256, 512, 3, TopUnit)
        /\ Window(busmaps', 128, 256) /\ Window(busmaps', 112, 116) /\ Window(busmaps', 116, 120)
        /\ Part(busmaps', 128, 256, 2, val * 128, MAP_READABLE)
        /\ \A o : Part(busmaps, 112, 116, 3, o, MAP_READWRITE) => Part(busmaps', 112, 116, 3, o, MAP_READWRITE)
        /\ \A o : Part(busmaps, 116, 120, 3, o, MAP_READWRITE) => Part(busmaps', 116, 120, 3, o, MAP_READWRITE)
    BY <2>1, WpcBank
  <2> QED  BY <1>0, <2>1, <2>2, <2>3 DEF WpcShown
<1> QED  BY <1>1, <1>2, <1>3, <1>4, <1>5, <1>6 DEF AsicStep

-----------------------------------------------------------------------------
(***************************************************************************)
(* The inductive invariant.                                                *)
(***************************************************************************)
BusInv ==
  /\ Typed
  /\ machine = "simple" => Linear(busmaps, 0, 510, 1, 0)
  /\ machine = "eon" => EonShown /\ EonRom /\ EonPairs
  /\ machine = "eon2" => Eon2Shown /\ RomLocked(busmaps)
  /\ machine = "wpc" => WpcShown

\* Every step of the loader, the program and the debugger preserves it.
LEMMA BusInvStep ==
  ASSUME RealSizes, BusInv, [Next]_vars
  PROVE  BusInv'
<1>t. Typed  BY DEF BusInv
<1>1. machine' = machine /\ MapStep  BY <1>t, StepIs
<1>2. CASE UNCHANGED <<busmaps, regs>>
  <2>1. UNCHANGED <<machine, busmaps, mmu_regs, small, asic, programmed, file_bank>>  BY <1>1, <1>2 DEF regs
  <2>2. Typed'  BY <1>t, <2>1 DEF Typed
  <2>3. EonShown => EonShown'  BY <2>1 DEF EonShown
  <2>4. EonRom => EonRom'  BY <2>1 DEF EonRom
  <2>5. EonPairs => EonPairs'  BY <2>1 DEF EonPairs
  <2>6. Eon2Shown => Eon2Shown'  BY <2>1 DEF Eon2Shown
  <2>7. WpcShown => WpcShown'  BY <2>1 DEF WpcShown, Selected
  <2> QED  BY <2>1, <2>2, <2>3, <2>4, <2>5, <2>6, <2>7 DEF BusInv
<1>3. CASE machine = "eon" /\ MmuStep
  <2>1. EonShown' /\ EonRom' /\ EonPairs'
    BY <1>3, <1>t, EonShownStep, EonRomStep, EonPairsStep DEF BusInv
  <2>2. Typed'
    <3>1. PICK page \in Pages, r \in [1..4 -> Nat] :
            /\ mmu_regs' = [mmu_regs EXCEPT ![page] = r]
            /\ PagePuts(busmaps, page, r[1], r[2], r[3], busmaps')
      BY <1>3 DEF MmuStep
    <3>2. busmaps' \in Maps  BY <3>1, PutsTyped DEF PagePuts
    <3>3. mmu_regs' \in [Pages -> [1..4 -> Nat]]  BY <1>t, <3>1 DEF Typed
    <3> QED  BY <1>1, <1>3, <1>t, <3>2, <3>3 DEF Typed, MmuStep
  <2> QED  BY <1>1, <1>3, <2>1, <2>2 DEF BusInv
<1>4. CASE machine = "eon2" /\ SmallStep
  <2>1. Eon2Shown' /\ RomLocked(busmaps')
    BY <1>4, <1>t, Eon2ShownStep DEF BusInv
  <2>2. Typed'
    <3>1. busmaps' \in Maps  BY <1>4, <1>t, PutsTyped DEF SmallStep, PagePuts, Typed
    <3> QED  BY <1>1, <1>4, <1>t, <3>1 DEF Typed, SmallStep
  <2> QED  BY <1>1, <1>4, <2>1, <2>2 DEF BusInv
<1>5. CASE machine = "wpc" /\ AsicStep
  <2>1. WpcShown'  BY <1>5, <1>t, WpcStep DEF BusInv
  <2>2. Typed'
    <3>1. busmaps' \in Maps
      BY <1>5, <1>t, PutsTyped DEF AsicStep, BankStep, DmdStep, RamStep, Typed
    <3>2. file_bank' \in Nat  BY <1>5, <1>t DEF AsicStep, Typed, NoBank
    <3> QED  BY <1>1, <1>5, <1>t, <3>1, <3>2 DEF Typed, AsicStep
  <2> QED  BY <1>1, <1>5, <2>1, <2>2 DEF BusInv
<1>6. CASE machine = "wpc" /\ FileStep
  <2>1. WpcShown'  BY <1>6, <1>t, WpcStep DEF BusInv
  <2>2. busmaps' \in Maps  BY <1>6, PutsTyped DEF FileStep, BankStep
  <2>3. Typed'  BY <1>1, <1>6, <1>t, <2>2 DEF Typed, FileStep
  <2> QED  BY <1>1, <1>6, <2>1, <2>3 DEF BusInv
<1> QED  BY <1>1, <1>2, <1>3, <1>4, <1>5, <1>6 DEF MapStep

\* A machine that has been set up satisfies it.
LEMMA BusInvInit ==
  ASSUME RealSizes, Init
  PROVE  BusInv
<1> DEFINE maps == DefinedMaps(machine)
<1>1. /\ machine \in Names /\ programmed = {} /\ file_bank = NoBank /\ mmu_regs = Sampled(busmaps)
      /\ small = [slot |-> 15, page |-> [s \in Pages |-> s], flags |-> [s \in Pages |-> MAP_READWRITE]]
      /\ asic = [rombank |-> 0, ram_unlocked |-> 0, ram_lock_size |-> 0, dmd_maps |-> [i \in {0, 1} |-> 0]]
      /\ busmaps = IF machine = "wpc" THEN wpc_update_ram(maps, asic) ELSE maps
  BY DEF Init
<1>2. small \in SmallRegs /\ asic \in AsicRegs
  <2>1. [s \in Pages |-> s] \in [Pages -> Nat] /\ [s \in Pages |-> MAP_READWRITE] \in [Pages -> Nat]
    BY FlagBits DEF Pages
  <2>2. [i \in {0, 1} |-> 0] \in [{0, 1} -> Nat]  OBVIOUS
  <2> QED  BY <1>1, <2>1, <2>2 DEF SmallRegs, AsicRegs
<1>3. ASSUME busmaps \in Maps
      PROVE  Typed
  <2>1. ASSUME NEW p \in Pages
        PROVE  Sampled(busmaps)[p] \in [1..4 -> Nat]
    <3> DEFINE u == 4 + p * 32
    <3>1. u \in 0..511  BY DEF Pages
    <3>2. busmaps[u] \in BusMap  BY <1>3, <3>1 DEF Maps
    <3>3. Sampled(busmaps)[p] = <<busmaps[u].devid, busmaps[u].offset \div PAGESIZE, busmaps[u].flags % 4, 0>>
      BY RealUnits DEF Sampled
    <3> HIDE DEF u
    <3>4. /\ busmaps[u].devid \in Nat /\ busmaps[u].offset \div PAGESIZE \in Nat
          /\ busmaps[u].flags % 4 \in Nat
      BY <3>2 DEF BusMap, PAGESIZE
    <3> QED  BY <3>3, <3>4
  <2>2. Sampled(busmaps) \in [Pages -> [1..4 -> Nat]]  BY <2>1 DEF Sampled
  <2>3. file_bank \in Nat  BY <1>1 DEF NoBank
  <2> QED  BY <1>1, <1>2, <1>3, <2>2, <2>3 DEF Typed
<1>4. CASE machine = "simple"
  <2>1. busmaps = DefinedMaps("simple")  BY <1>1, <1>4
  <2>2. busmaps \in Maps /\ \A u \in 0..511 : u < 510 => busmaps[u].devid = 1 /\ busmaps[u].offset = u * 128
    BY <2>1, SimpleStart
  <2>3. ASSUME NEW u \in 0..511, u >= 0, u < 510
        PROVE  busmaps[u].devid = 1 /\ busmaps[u].offset = (0 + (u - 0)) * 128
    <3>1. busmaps[u].devid = 1 /\ busmaps[u].offset = u * 128  BY <2>2, <2>3, Zenon
    <3> QED  BY <3>1
  <2>4. Linear(busmaps, 0, 510, 1, 0)  BY <2>3, Zenon DEF Linear
  <2> QED  BY <1>3, <1>4, <2>2, <2>4 DEF BusInv
<1>5. CASE machine = "eon"
  <2>1. busmaps = DefinedMaps("eon")  BY <1>1, <1>5
  <2>2. /\ busmaps \in Maps /\ RomLocked(busmaps)
        /\ \A u \in 0..511 : u < 448 => busmaps[u].devid = 2 /\ busmaps[u].offset = u * 128
    BY <2>1, EonStart
  <2>3. EonShown  BY <1>1 DEF EonShown
  <2>4. EonRom  BY <2>2, Zenon DEF EonRom, RomLocked
  <2>5. EonPairs
    <3> SUFFICES ASSUME NEW u \in 0..510, Page(u + 1) = Page(u), Page(u) < 14 \/ Page(u) \in programmed
                 PROVE  Contig(busmaps, u)
      BY Zenon DEF EonPairs
    <3>1. Page(u) < 14  BY <1>1
    <3>2. u \in 0..511 /\ u + 1 \in 0..511 /\ u < 448 /\ u + 1 < 448  BY <3>1 DEF Page
    <3>3. busmaps[u].devid = 2 /\ busmaps[u].offset = u * 128  BY <2>2, <3>2
    <3>4. busmaps[u + 1].devid = 2 /\ busmaps[u + 1].offset = (u + 1) * 128  BY <2>2, <3>2
    <3> QED  BY <3>3, <3>4 DEF Contig
  <2> QED  BY <1>3, <1>5, <2>2, <2>3, <2>4, <2>5 DEF BusInv
<1>6. CASE machine = "eon2"
  <2>1. busmaps = DefinedMaps("eon2")  BY <1>1, <1>6
  <2>2. /\ busmaps \in Maps /\ RomLocked(busmaps)
        /\ \A u \in 0..511 : u < 480 =>
             busmaps[u].devid = 1 /\ busmaps[u].offset = u * 128 /\ busmaps[u].flags = MAP_READWRITE
    BY <2>1, Eon2Start
  <2>3. Eon2Shown
    <3> SUFFICES ASSUME NEW u \in 0..511, Page(u) # 15 \/ 15 \in programmed
                 PROVE  Holds(busmaps[u], u, 1, small.page[Page(u)], small.flags[Page(u)] % 4)
      BY Zenon DEF Eon2Shown
    <3>0. 15 \notin programmed  BY <1>1
    <3>1. Page(u) # 15 /\ Page(u) \in Pages  BY <3>0 DEF Page, Pages
    <3>2. small.page[Page(u)] = Page(u) /\ small.flags[Page(u)] = MAP_READWRITE  BY <1>1, <3>1
    <3>3. u < 480 /\ Page(u) \in Nat  BY <3>1 DEF Page, Pages
    <3>4. busmaps[u].devid = 1 /\ busmaps[u].offset = u * 128 /\ busmaps[u].flags = MAP_READWRITE
      BY <2>2, <3>3
    <3>5. (Page(u) * 32 + (u - Page(u) * 32)) * 128 = u * 128  BY <3>3
    <3>6. MAP_READWRITE % 4 = MAP_READWRITE  BY DEF MAP_READWRITE
    <3> QED  BY <3>2, <3>4, <3>5, <3>6 DEF Holds
  <2> QED  BY <1>3, <1>6, <2>2, <2>3 DEF BusInv
<1>7. CASE machine = "wpc"
  <2> DEFINE before == DefinedMaps("wpc")
             k == Open(asic)
  <2>1. busmaps = wpc_update_ram(before, asic)  BY <1>1, <1>7
  <2>2. /\ before \in Maps /\ NoneFixed(before)
        /\ Linear(before, 112, 120, 4, 0) /\ Linear(before, 120, 128, 1, 0)
        /\ Linear(before, 128, 256, 3, 0) /\ Linear(before, 256, 512, 3, TopUnit)
    BY WpcStart
  <2> HIDE DEF before
  <2>3. PICK first :
          /\ Puts(before, 0, 2, 0, k, MAP_READWRITE, first)
          /\ Puts(first, k, 2, k, 64 - k, MAP_READABLE, busmaps)
    BY <2>1, <2>2, UpdateRamPuts
  <2>4. k \in 32..64  BY OpenRange
  <2> HIDE DEF k
  <2>5. NoneFixed(busmaps) /\ RamShown(busmaps, k) /\ busmaps \in Maps /\ SameAbove(before, busmaps)
    BY <2>2, <2>3, <2>4, RamPut
  <2>6. Linear(busmaps, 112, 120, 4, 0)  BY <2>2, <2>5, AboveRam
  <2>7. Linear(busmaps, 120, 128, 1, 0)  BY <2>2, <2>5, AboveRam
  <2>8. Linear(busmaps, 128, 256, 3, 0)  BY <2>2, <2>5, AboveRam
  <2>9. Linear(busmaps, 256, 512, 3, TopUnit)  BY <2>2, <2>5, AboveRam
  <2>10. Window(busmaps, 128, 256)  BY <2>8 DEF Window
  <2>11. Window(busmaps, 112, 116) /\ Window(busmaps, 116, 120)
    <3>1. ASSUME NEW u \in 0..511, u >= 112, u < 116
          PROVE  busmaps[u].devid = 4 /\ busmaps[u].offset = (0 + (u - 112)) * 128
      BY <2>6, <3>1 DEF Linear
    <3>2. ASSUME NEW u \in 0..511, u >= 116, u < 120
          PROVE  busmaps[u].devid = 4 /\ busmaps[u].offset = (4 + (u - 116)) * 128
      BY <2>6, <3>2 DEF Linear
    <3>3. Linear(busmaps, 112, 116, 4, 0)  BY <3>1, Zenon DEF Linear
    <3>4. Linear(busmaps, 116, 120, 4, 4)  BY <3>2, Zenon DEF Linear
    <3> QED  BY <3>3, <3>4 DEF Window
  <2>12. WpcShown  BY <1>1, <2>5, <2>7, <2>9, <2>10, <2>11 DEF WpcShown, k
  <2> QED  BY <1>3, <1>7, <2>5, <2>12 DEF BusInv
<1> QED  BY <1>1, <1>4, <1>5, <1>6, <1>7 DEF Names

\* On each machine the maps are what its init function defined and its mapping
\* hardware has put there since, whatever is stored: the inductive invariant
\* from which the properties below follow.
THEOREM MapsAreAccounted == ASSUME RealSizes PROVE Spec => []BusInv
<1>1. Init => BusInv  BY BusInvInit
<1>2. BusInv /\ [Next]_vars => BusInv'  BY BusInvStep
<1> QED  BY <1>1, <1>2, PTL DEF Spec

-----------------------------------------------------------------------------
(***************************************************************************)
(* The properties.                                                         *)
(***************************************************************************)
\* The regions of WPC.
LEMMA WpcRegions ==
  ASSUME machine = "wpc", NEW u \in 0..511
  PROVE  /\ Region(u) = "ram" <=> u < 64
         /\ Region(u) = "dmd0" <=> u >= 112 /\ u < 116
         /\ Region(u) = "dmd1" <=> u >= 116 /\ u < 120
         /\ Region(u) = "asic" <=> u >= 120 /\ u < 128
         /\ Region(u) = "rom" <=> u >= 128 /\ u < 256
         /\ Region(u) = "fixed" <=> u >= 256
         /\ Region(u) \in {"ram", "dmd0", "dmd1", "asic", "rom", "fixed", "none"}
<1> DEFINE r == CASE u < 64 -> "ram" [] u \in 112..115 -> "dmd0" [] u \in 116..119 -> "dmd1"
                  [] u \in 120..127 -> "asic" [] u \in 128..255 -> "rom"
                  [] u >= 256 -> "fixed" [] OTHER -> "none"
<1>1. Region(u) = r  BY DEF Region
<1>2. \/ (u < 64 /\ r = "ram")
      \/ (u >= 64 /\ u < 112 /\ r = "none")
      \/ (u >= 112 /\ u < 116 /\ r = "dmd0")
      \/ (u >= 116 /\ u < 120 /\ r = "dmd1")
      \/ (u >= 120 /\ u < 128 /\ r = "asic")
      \/ (u >= 128 /\ u < 256 /\ r = "rom")
      \/ (u >= 256 /\ r = "fixed")
  OBVIOUS
<1> HIDE DEF r
<1> QED  BY <1>1, <1>2

\* A unit that holds what a page of a device puts there shows it.
LEMMA HoldsShows ==
  ASSUME RealSizes, Typed, NEW u \in 0..511, NEW devid, NEW frame \in Nat, NEW flags,
         Fixed(busmaps[u].flags) \/ Holds(busmaps[u], u, devid, frame, flags)
  PROVE  Shows(u, u % UnitsPerPage, devid, frame * PAGESIZE, flags)
<1>1. CASE Fixed(busmaps[u].flags)
  BY <1>1 DEF Shows
<1>2. CASE Holds(busmaps[u], u, devid, frame, flags)
  <2>1. busmaps[u] \in BusMap  BY DEF Typed, Maps
  <2>2. (frame * 32 + (u - Page(u) * 32)) * 128 = frame * PAGESIZE + (u % UnitsPerPage) * BUS_MAP_SIZE
    BY RealUnits DEF Page, PAGESIZE, RealSizes
  <2>3. /\ busmaps[u].devid = devid /\ busmaps[u].flags = flags
        /\ busmaps[u].offset = frame * PAGESIZE + (u % UnitsPerPage) * BUS_MAP_SIZE
    BY <1>2, <2>2 DEF Holds
  <2>4. busmaps[u] = [devid |-> devid, offset |-> frame * PAGESIZE + (u % UnitsPerPage) * BUS_MAP_SIZE,
                      flags |-> flags]
    BY <2>1, <2>3 DEF BusMap
  <2> QED  BY <2>4 DEF Shows
<1> QED  BY <1>1, <1>2

\* The registers say what the bus shows.
LEMMA InvDescribes ==
  ASSUME RealSizes, BusInv
  PROVE  RegistersDescribe
<1>t. Typed  BY DEF BusInv
<1>u. Units = 0..511 /\ UnitsPerPage = 32  BY RealUnits
<1>1. ASSUME NEW u \in 0..511, machine = "eon", Page(u) \in programmed
      PROVE  Shows(u, u % UnitsPerPage, mmu_regs[Page(u)][1], mmu_regs[Page(u)][2] * PAGESIZE,
                   mmu_regs[Page(u)][3] % 4)
  <2>1. Page(u) \in Pages  BY DEF Page, Pages
  <2>2. mmu_regs[Page(u)] \in [1..4 -> Nat]  BY <1>t, <2>1 DEF Typed
  <2>3. mmu_regs[Page(u)][2] \in Nat  BY <2>2
  <2>4. EonShown  BY <1>1 DEF BusInv
  <2>5. \/ Fixed(busmaps[u].flags)
        \/ Holds(busmaps[u], u, mmu_regs[Page(u)][1], mmu_regs[Page(u)][2], mmu_regs[Page(u)][3] % 4)
    BY <1>1, <2>4, Zenon DEF EonShown
  <2> QED  BY <1>t, <2>3, <2>5, HoldsShows
<1>2. ASSUME NEW u \in 0..511, machine = "eon2", Page(u) # 15 \/ 15 \in programmed
      PROVE  Shows(u, u % UnitsPerPage, Id("eon2", "ram"), small.page[Page(u)] * PAGESIZE,
                   small.flags[Page(u)] % 4)
  <2>1. Page(u) \in Pages  BY DEF Page, Pages
  <2>2. small.page[Page(u)] \in Nat  BY <1>t, <2>1 DEF Typed, SmallRegs
  <2>3. Eon2Shown  BY <1>2 DEF BusInv
  <2>4. \/ Fixed(busmaps[u].flags)
        \/ Holds(busmaps[u], u, 1, small.page[Page(u)], small.flags[Page(u)] % 4)
    BY <1>2, <2>3, Zenon DEF Eon2Shown
  <2>5. Shows(u, u % UnitsPerPage, 1, small.page[Page(u)] * PAGESIZE, small.flags[Page(u)] % 4)
    BY <1>t, <2>2, <2>4, HoldsShows
  <2> QED  BY <2>5, Eon2Ids
<1> DEFINE protected == IF asic.ram_unlocked # 0 THEN 0 ELSE Locked(asic.ram_lock_size)
<1>3. ASSUME NEW u \in 0..511, machine = "wpc", Region(u) = "ram"
      PROVE  Shows(u, u, Id("wpc", "ram"), 0,
                   IF u * BUS_MAP_SIZE < WPC_RAM_SIZE - protected THEN MAP_READWRITE ELSE MAP_READABLE)
  <2>1. u < 64  BY <1>3, WpcRegions
  <2>2. RamShown(busmaps, Open(asic))  BY <1>3 DEF BusInv, WpcShown
  <2>3. /\ busmaps[u].devid = 2 /\ busmaps[u].offset = u * 128
        /\ busmaps[u].flags = IF u < Open(asic) THEN MAP_READWRITE ELSE MAP_READABLE
    BY <2>1, <2>2, Zenon DEF RamShown
  <2>4. u < Open(asic) <=> u * BUS_MAP_SIZE < WPC_RAM_SIZE - protected
    <3>1. Locked(asic.ram_lock_size) \in {0, 256, 1536, 1024, 2048, 4096}  BY LockedUnits
    <3> QED  BY <3>1 DEF Open, WPC_RAM_SIZE, RealSizes
  <2> HIDE DEF protected
  <2>5. busmaps[u] \in BusMap  BY <1>t DEF Typed, Maps
  <2>6. 0 + u * BUS_MAP_SIZE = u * 128  BY DEF RealSizes
  <2>7. busmaps[u] = [devid |-> 2, offset |-> 0 + u * BUS_MAP_SIZE,
                      flags |-> IF u * BUS_MAP_SIZE < WPC_RAM_SIZE - protected THEN MAP_READWRITE ELSE MAP_READABLE]
    BY <2>3, <2>4, <2>5, <2>6 DEF BusMap
  <2> QED  BY <2>7, WpcIds DEF Shows
<1>b. ASSUME NEW u \in 0..511, NEW i \in Nat, NEW devid, NEW offset, NEW flags,
             busmaps[u].devid = devid, busmaps[u].flags = flags, busmaps[u].offset = offset + i * 128
      PROVE  Shows(u, i, devid, offset, flags)
  <2>1. busmaps[u] \in BusMap  BY <1>t DEF Typed, Maps
  <2>2. i * BUS_MAP_SIZE = i * 128  BY DEF RealSizes
  <2>3. busmaps[u] = [devid |-> devid, offset |-> offset + i * BUS_MAP_SIZE, flags |-> flags]
    BY <1>b, <2>1, <2>2 DEF BusMap
  <2> QED  BY <2>3 DEF Shows
<1>4. ASSUME NEW u \in 0..511, machine = "wpc", Region(u) = "rom", "rom" \in programmed \/ file_bank # NoBank
      PROVE  Shows(u, u - 128, Id("wpc", "ram"), Selected * 16384, MAP_READABLE)
  <2>1. u >= 128 /\ u < 256 /\ u - 128 \in Nat  BY <1>4, WpcRegions
  <2>2. Part(busmaps, 128, 256, 2, Selected * 128, MAP_READABLE)  BY <1>4 DEF BusInv, WpcShown
  <2>3. /\ busmaps[u].devid = 2 /\ busmaps[u].flags = MAP_READABLE
        /\ busmaps[u].offset = (Selected * 128 + (u - 128)) * 128
    BY <2>1, <2>2, Zenon DEF Part
  <2>4. Selected \in Nat  BY <1>t DEF Typed, AsicRegs, Selected
  <2>5. busmaps[u].offset = Selected * 16384 + (u - 128) * 128  BY <2>3, <2>4
  <2> DEFINE i == u - 128
             w == Selected * 16384
  <2>6. i \in Nat /\ busmaps[u].offset = w + i * 128  BY <2>1, <2>5
  <2> HIDE DEF i, w
  <2>7. Shows(u, i, 2, w, MAP_READABLE)  BY <1>b, <2>3, <2>6
  <2> QED  BY <2>7, WpcIds DEF i, w
<1>5. ASSUME NEW u \in 0..511, machine = "wpc", Region(u) \in programmed \cap {"dmd0", "dmd1"}
      PROVE  Shows(u, u % 4, Id("wpc", "rom"), asic.dmd_maps[IF Region(u) = "dmd0" THEN 0 ELSE 1] * 512,
                   MAP_READWRITE)
  <2>0. asic.dmd_maps[0] \in Nat /\ asic.dmd_maps[1] \in Nat  BY <1>t DEF Typed, AsicRegs
  <2>p. u % 4 \in Nat  OBVIOUS
  <2>1. CASE Region(u) = "dmd0"
    <3>1. u >= 112 /\ u < 116  BY <1>5, <2>1, WpcRegions
    <3>2. Part(busmaps, 112, 116, 3, asic.dmd_maps[0] * 4, MAP_READWRITE)  BY <1>5, <2>1 DEF BusInv, WpcShown
    <3>3. /\ busmaps[u].devid = 3 /\ busmaps[u].flags = MAP_READWRITE
          /\ busmaps[u].offset = (asic.dmd_maps[0] * 4 + (u - 112)) * 128
      BY <3>1, <3>2, Zenon DEF Part
    <3>4. (u - 112) * 128 = (u % 4) * 128  BY <3>1
    <3>5. busmaps[u].offset = asic.dmd_maps[0] * 512 + (u % 4) * 128  BY <2>0, <3>3, <3>4
    <3>6. Shows(u, u % 4, 3, asic.dmd_maps[0] * 512, MAP_READWRITE)  BY <1>b, <2>p, <3>3, <3>5
    <3> QED  BY <2>1, <3>6, WpcIds
  <2>2. CASE Region(u) # "dmd0"
    <3>1. u >= 116 /\ u < 120 /\ "dmd1" \in programmed  BY <1>5, <2>2, WpcRegions
    <3>2. Part(busmaps, 116, 120, 3, asic.dmd_maps[1] * 4, MAP_READWRITE)  BY <1>5, <3>1 DEF BusInv, WpcShown
    <3>3. /\ busmaps[u].devid = 3 /\ busmaps[u].flags = MAP_READWRITE
          /\ busmaps[u].offset = (asic.dmd_maps[1] * 4 + (u - 116)) * 128
      BY <3>1, <3>2, Zenon DEF Part
    <3>4. (u - 116) * 128 = (u % 4) * 128  BY <3>1
    <3>5. busmaps[u].offset = asic.dmd_maps[1] * 512 + (u % 4) * 128  BY <2>0, <3>3, <3>4
    <3>6. Shows(u, u % 4, 3, asic.dmd_maps[1] * 512, MAP_READWRITE)  BY <1>b, <2>p, <3>3, <3>5
    <3> QED  BY <2>2, <3>6, WpcIds
  <2> QED  BY <2>1, <2>2
<1> DEFINE said(u, page) ==
             CASE machine = "eon" /\ page \in programmed ->
                    Shows(u, u % UnitsPerPage, mmu_regs[page][1], mmu_regs[page][2] * PAGESIZE, mmu_regs[page][3] % 4)
               [] machine = "eon2" /\ (page # 15 \/ 15 \in programmed) ->
                    Shows(u, u % UnitsPerPage, Id("eon2", "ram"), small.page[page] * PAGESIZE,
                          small.flags[page] % 4)
               [] machine = "wpc" /\ Region(u) = "ram" ->
                    Shows(u, u, Id("wpc", "ram"), 0,
                          IF u * BUS_MAP_SIZE < WPC_RAM_SIZE - protected THEN MAP_READWRITE ELSE MAP_READABLE)
               [] machine = "wpc" /\ Region(u) = "rom" /\ ("rom" \in programmed \/ file_bank # NoBank) ->
                    Shows(u, u - 128, Id("wpc", "ram"), Selected * 16384, MAP_READABLE)
               [] machine = "wpc" /\ Region(u) \in programmed \cap {"dmd0", "dmd1"} ->
                    Shows(u, u % 4, Id("wpc", "rom"), asic.dmd_maps[IF Region(u) = "dmd0" THEN 0 ELSE 1] * 512,
                          MAP_READWRITE)
               [] OTHER -> TRUE
<1>6. ASSUME NEW u \in 0..511
      PROVE  said(u, Page(u))
  <2> HIDE DEF protected
  <2>1. machine = "eon" /\ Page(u) \in programmed =>
          Shows(u, u % UnitsPerPage, mmu_regs[Page(u)][1], mmu_regs[Page(u)][2] * PAGESIZE,
                mmu_regs[Page(u)][3] % 4)
    BY <1>1
  <2>2. machine = "eon2" /\ (Page(u) # 15 \/ 15 \in programmed) =>
          Shows(u, u % UnitsPerPage, Id("eon2", "ram"), small.page[Page(u)] * PAGESIZE, small.flags[Page(u)] % 4)
    BY <1>2
  <2>3. machine = "wpc" /\ Region(u) = "ram" =>
          Shows(u, u, Id("wpc", "ram"), 0,
                IF u * BUS_MAP_SIZE < WPC_RAM_SIZE - protected THEN MAP_READWRITE ELSE MAP_READABLE)
    BY <1>3
  <2>4. machine = "wpc" /\ Region(u) = "rom" /\ ("rom" \in programmed \/ file_bank # NoBank) =>
          Shows(u, u - 128, Id("wpc", "ram"), Selected * 16384, MAP_READABLE)
    BY <1>4
  <2>5. machine = "wpc" /\ Region(u) \in programmed \cap {"dmd0", "dmd1"} =>
          Shows(u, u % 4, Id("wpc", "rom"), asic.dmd_maps[IF Region(u) = "dmd0" THEN 0 ELSE 1] * 512,
                MAP_READWRITE)
    BY <1>5
  <2> QED  BY <2>1, <2>2, <2>3, <2>4, <2>5
<1> SUFFICES ASSUME NEW u \in Units
             PROVE  said(u, u \div UnitsPerPage)
  BY DEF RegistersDescribe
<1>7. u \in 0..511 /\ Page(u) = u \div UnitsPerPage  BY <1>u DEF Page
<1> HIDE DEF said
<1> QED  BY <1>6, <1>7

\* The registers describe the bus (mmu_write, small_mmu_write,
\* wpc_asic_write): whatever the loader, the program and the debugger store to
\* them and in whichever order, the pages, slots and the locked part of the RAM
\* that they name are what the CPU sees, and on WPC the bank and the display pages,
\* by device, offset and flags, as wpc_set_rom_page and wpc_set_dmd_page map them;
\* a map file read since (load_map_file, also at the prompt) overrides the bank.
THEOREM RegistersAreShown == ASSUME RealSizes PROVE Spec => []RegistersDescribe
<1>1. BusInv => RegistersDescribe  BY InvDescribes
<1> QED  BY <1>1, MapsAreAccounted, PTL

-----------------------------------------------------------------------------
\* Two units of one region go on, on each machine.
LEMMA RegionContig ==
  ASSUME BusInv, RealSizes, NEW u \in 0..510, ~Fixed(busmaps[u].flags), ~Fixed(busmaps[u + 1].flags),
         Region(u) = Region(u + 1), machine = "wpc" => Region(u) # "none"
  PROVE  Contig(busmaps, u)
<1> DEFINE v == u + 1
<1>0. u \in 0..511 /\ v \in 0..511 /\ v = u + 1  OBVIOUS
<1>p. UnitsPerPage = 32  BY RealUnits
<1>w. ASSUME NEW lo \in Nat, NEW hi \in Nat, Window(busmaps, lo, hi), u >= lo, u + 1 < hi
      PROVE  Contig(busmaps, u)
  <2>1. PICK d \in Nat, o \in Nat : Linear(busmaps, lo, hi, d, o)  BY <1>w DEF Window
  <2> QED  BY <1>w, <2>1, LinearContig
<1>1. CASE machine = "simple"
  <2>1. u >= 0 /\ u + 1 < 510  BY <1>1 DEF Region
  <2>2. Linear(busmaps, 0, 510, 1, 0)  BY <1>1 DEF BusInv
  <2>3. Window(busmaps, 0, 510)  BY <2>2 DEF Window
  <2> QED  BY <1>w, <2>1, <2>3
<1>2. CASE machine = "eon"
  <2>1. /\ Region(u) = IF Page(u) < 14 \/ Page(u) \in programmed THEN Page(u) ELSE 16 + u
        /\ Region(v) = IF Page(v) < 14 \/ Page(v) \in programmed THEN Page(v) ELSE 16 + v
    BY <1>2, <1>p DEF Region, Page
  <2>2. Page(u) \in 0..15 /\ Page(v) \in 0..15  BY <1>0 DEF Page
  <2>3. Page(u + 1) = Page(u) /\ (Page(u) < 14 \/ Page(u) \in programmed)
    BY <2>1, <2>2
  <2>4. EonPairs  BY <1>2 DEF BusInv
  <2> QED  BY <2>3, <2>4, Zenon DEF EonPairs
<1>3. CASE machine = "eon2"
  <2>1. /\ Region(u) = IF Page(u) < 15 \/ Page(u) \in programmed THEN Page(u) ELSE 16 + u
        /\ Region(v) = IF Page(v) < 15 \/ Page(v) \in programmed THEN Page(v) ELSE 16 + v
    BY <1>3, <1>p DEF Region, Page
  <2>2. Page(u) \in 0..15 /\ Page(v) \in 0..15  BY <1>0 DEF Page
  <2>3. Page(v) = Page(u) /\ (Page(u) # 15 \/ 15 \in programmed)
    BY <2>1, <2>2
  <2>4. Eon2Shown  BY <1>3 DEF BusInv
  <2>5. Holds(busmaps[u], u, 1, small.page[Page(u)], small.flags[Page(u)] % 4)
    BY <1>0, <2>3, <2>4, Zenon DEF Eon2Shown
  <2>6. Holds(busmaps[v], v, 1, small.page[Page(v)], small.flags[Page(v)] % 4)
    BY <1>0, <2>3, <2>4, Zenon DEF Eon2Shown
  <2>7. small.page[Page(u)] \in Nat  BY <2>2 DEF BusInv, Typed, SmallRegs, Pages
  <2> QED  BY <2>3, <2>5, <2>6, <2>7, HoldsContig
<1>4. CASE machine = "wpc"
  <2>s. WpcShown  BY <1>4 DEF BusInv
  <2>1. /\ Region(u) = "ram" <=> u < 64
        /\ Region(u) = "dmd0" <=> u >= 112 /\ u < 116
        /\ Region(u) = "dmd1" <=> u >= 116 /\ u < 120
        /\ Region(u) = "asic" <=> u >= 120 /\ u < 128
        /\ Region(u) = "rom" <=> u >= 128 /\ u < 256
        /\ Region(u) = "fixed" <=> u >= 256
        /\ Region(u) \in {"ram", "dmd0", "dmd1", "asic", "rom", "fixed", "none"}
    BY <1>0, <1>4, WpcRegions
  <2>2. /\ Region(v) = "ram" <=> v < 64
        /\ Region(v) = "dmd0" <=> v >= 112 /\ v < 116
        /\ Region(v) = "dmd1" <=> v >= 116 /\ v < 120
        /\ Region(v) = "asic" <=> v >= 120 /\ v < 128
        /\ Region(v) = "rom" <=> v >= 128 /\ v < 256
        /\ Region(v) = "fixed" <=> v >= 256
        /\ Region(v) \in {"ram", "dmd0", "dmd1", "asic", "rom", "fixed", "none"}
    BY <1>0, <1>4, WpcRegions
  <2>3. Region(u) = Region(v) /\ Region(u) # "none"  BY <1>4
  <2>4. CASE Region(u) = "ram"
    <3>1. u < 64 /\ v < 64  BY <2>1, <2>2, <2>3, <2>4
    <3>2. RamShown(busmaps, Open(asic))  BY <2>s DEF WpcShown
    <3>3. busmaps[u].devid = 2 /\ busmaps[u].offset = u * 128  BY <1>0, <3>1, <3>2, Zenon DEF RamShown
    <3>4. busmaps[v].devid = 2 /\ busmaps[v].offset = v * 128  BY <1>0, <3>1, <3>2, Zenon DEF RamShown
    <3> QED  BY <3>3, <3>4 DEF Contig
  <2>5. CASE Region(u) = "dmd0"
    <3>1. u >= 112 /\ u + 1 < 116  BY <2>1, <2>2, <2>3, <2>5
    <3> QED  BY <1>w, <2>s, <3>1 DEF WpcShown
  <2>6. CASE Region(u) = "dmd1"
    <3>1. u >= 116 /\ u + 1 < 120  BY <2>1, <2>2, <2>3, <2>6
    <3> QED  BY <1>w, <2>s, <3>1 DEF WpcShown
  <2>7. CASE Region(u) = "asic"
    <3>1. u >= 120 /\ u + 1 < 128  BY <2>1, <2>2, <2>3, <2>7
    <3>2. Window(busmaps, 120, 128)  BY <2>s DEF WpcShown, Window
    <3> QED  BY <1>w, <3>1, <3>2
  <2>8. CASE Region(u) = "rom"
    <3>1. u >= 128 /\ u + 1 < 256  BY <2>1, <2>2, <2>3, <2>8
    <3> QED  BY <1>w, <2>s, <3>1 DEF WpcShown
  <2>9. CASE Region(u) = "fixed"
    <3>1. u >= 256 /\ u + 1 < 512  BY <2>1, <2>9
    <3>2. Window(busmaps, 256, 512)  BY <2>s, TopUnitTyped DEF WpcShown, Window
    <3> QED  BY <1>w, <3>1, <3>2
  <2> QED  BY <2>1, <2>3, <2>4, <2>5, <2>6, <2>7, <2>8, <2>9
<1> QED  BY <1>1, <1>2, <1>3, <1>4 DEF BusInv, Typed, Names

\* Where one unit goes on where the last one ends, both ways to reach the second
\* byte of a word reach the same byte.
LEMMA ContigReads ==
  ASSUME RealSizes, Typed, NEW u \in 0..510, Contig(busmaps, u)
  PROVE  LET a == u * BUS_MAP_SIZE + (BUS_MAP_SIZE - 1)
         IN  ReadWord(busmaps, a) = WrittenWord(busmaps, a)
<1> DEFINE a == u * 128 + 127
           b == (a + 1) % 65536
<1>1. a \div 128 = u /\ a % 128 = 127  OBVIOUS
<1>2. b = (u + 1) * 128  OBVIOUS
<1>3. b \div 128 = u + 1 /\ b % 128 = 0  BY <1>2
<1>4. u * BUS_MAP_SIZE + (BUS_MAP_SIZE - 1) = a /\ (a + 1) % (BUS_MAP_SIZE * NUM_BUS_MAPS) = b
  BY DEF RealSizes
<1> HIDE DEF a, b
<1>5. to_absolute(busmaps, a) = [devid |-> busmaps[u].devid, offset |-> busmaps[u].offset + 127]
  BY <1>1 DEF to_absolute, find_map, RealSizes
<1>6. to_absolute(busmaps, b) = [devid |-> busmaps[u + 1].devid, offset |-> busmaps[u + 1].offset + 0]
  BY <1>3 DEF to_absolute, find_map, RealSizes
<1>7. busmaps[u].offset \in Nat
  <2>1. busmaps[u] \in BusMap  BY DEF Typed, Maps
  <2> QED  BY <2>1 DEF BusMap
<1>8. to_absolute(busmaps, b) = [devid |-> busmaps[u].devid, offset |-> (busmaps[u].offset + 127) + 1]
  BY <1>6, <1>7 DEF Contig
<1>9. [to_absolute(busmaps, a) EXCEPT !.offset = @ + 1] = to_absolute(busmaps, b)
  BY <1>5, <1>8
<1> QED  BY <1>4, <1>9 DEF ReadWord, WrittenWord

\* "it implies that no reads will ever occur across a device boundary" (cpu_read16
\* of machine.c): on every machine, and whatever has been mapped, a word that one
\* register or one call has mapped as a whole is read as it is written.
THEOREM WordsAreReadBack == ASSUME RealSizes PROVE Spec => []WordReadBack
<1>1. ASSUME BusInv PROVE WordReadBack
  <2> SUFFICES ASSUME NEW u \in Words, ~Fixed(busmaps[u].flags), ~Fixed(busmaps[u + 1].flags),
                      Region(u) = Region(u + 1), machine = "wpc" => Region(u) # "none"
               PROVE  LET a == u * BUS_MAP_SIZE + (BUS_MAP_SIZE - 1)
                      IN  ReadWord(busmaps, a) = WrittenWord(busmaps, a)
    BY DEF WordReadBack
  <2>1. u \in 0..510  BY ProgramAssumption DEF RealSizes
  <2>2. Typed  BY <1>1 DEF BusInv
  <2>3. Contig(busmaps, u)  BY <1>1, <2>1, RegionContig
  <2> QED  BY <2>1, <2>2, <2>3, ContigReads
<1> QED  BY <1>1, MapsAreAccounted, PTL

-----------------------------------------------------------------------------
\* No register of the ASIC, and no map file, maps the units of the ASIC.
LEMMA AsicStays ==
  ASSUME Typed, NEW u \in 0..511, u >= 120, u < 128,
         AsicStep \/ FileStep
  PROVE  busmaps'[u] = busmaps[u]
<1>1. ASSUME NEW w, Puts(busmaps, 128, 2, w, 128, MAP_READABLE, busmaps')
      PROVE  busmaps'[u] = busmaps[u]
  <2>1. ~Covers(busmaps, u, 128, 128)  BY DEF Covers
  <2> QED  BY <1>1, <2>1, Zenon DEF Puts
<1>2. ASSUME NEW a \in {112, 116}, NEW w, Puts(busmaps, a, 3, w, 4, MAP_READWRITE, busmaps')
      PROVE  busmaps'[u] = busmaps[u]
  <2>1. ~Covers(busmaps, u, a, 4)  BY DEF Covers
  <2> QED  BY <1>2, <2>1, Zenon DEF Puts
<1>3. ASSUME RamStep(asic')
      PROVE  busmaps'[u] = busmaps[u]
  <2> DEFINE k == Open(asic')
  <2>1. PICK maps :
          /\ Puts(busmaps, 0, 2, 0, k, MAP_READWRITE, maps)
          /\ Puts(maps, k, 2, k, 64 - k, MAP_READABLE, busmaps')
    BY <1>3 DEF RamStep
  <2>2. k \in 32..64  BY OpenRange
  <2> HIDE DEF k
  <2>3. ~Covers(busmaps, u, 0, k) /\ ~Covers(maps, u, k, 64 - k)  BY <2>2 DEF Covers
  <2>4. maps[u] = busmaps[u]  BY <2>1, <2>3, Zenon DEF Puts
  <2>5. busmaps'[u] = maps[u]  BY <2>1, <2>3, Zenon DEF Puts
  <2> QED  BY <2>4, <2>5
<1> QED  BY <1>1, <1>2, <1>3 DEF AsicStep, FileStep, BankStep, DmdStep

\* No slot but slot 15 maps the unit of the expander.
LEMMA ExpanderStays ==
  ASSUME SmallStep, 15 \notin programmed', NEW u \in 0..511, u = 510
  PROVE  busmaps'[u] = busmaps[u]
<1>1. CASE UNCHANGED busmaps
  BY <1>1
<1>2. ASSUME NEW slot \in Pages, NEW page \in Nat, NEW flags \in Nat,
             PagePuts(busmaps, slot, 1, page, flags, busmaps'), programmed' = programmed \cup {slot}
      PROVE  busmaps'[u] = busmaps[u]
  <2>1. slot # 15  BY <1>2
  <2>2. ~Covers(busmaps, u, slot * 32, 32)  BY <2>1 DEF Covers, Pages
  <2> QED  BY <1>2, <2>2, Zenon DEF Puts, PagePuts
<1> QED  BY <1>1, <1>2 DEF SmallStep

\* The program cannot lose the registers that map its memory: the ASIC of WPC
\* stays at 0x3c00..0x3fff whatever is stored to it, and the I/O expander of EON2
\* stays in unit 510 until the program maps slot 15 over it.
THEOREM ControlIsKept == ASSUME RealSizes PROVE Spec => ControlKept
<1>1. ASSUME BusInv, [Next]_vars
      PROVE  [\A u \in Units :
                \/ machine = "wpc" /\ Region(u) = "asic"
                \/ machine = "eon2" /\ u = 510 /\ 15 \notin programmed'
                => busmaps'[u] = busmaps[u]]_vars
  <2>t. Typed  BY <1>1 DEF BusInv
  <2>1. MapStep  BY <1>1, <2>t, StepIs
  <2> SUFFICES ASSUME NEW u \in Units,
                      \/ machine = "wpc" /\ Region(u) = "asic"
                      \/ machine = "eon2" /\ u = 510 /\ 15 \notin programmed'
               PROVE  busmaps'[u] = busmaps[u]
    OBVIOUS
  <2>u. u \in 0..511  BY RealUnits
  <2>2. CASE UNCHANGED <<busmaps, regs>>
    BY <2>2
  <2>3. CASE machine = "wpc" /\ (AsicStep \/ FileStep)
    <3>1. Region(u) = "asic"  BY <2>3
    <3>2. u >= 120 /\ u < 128  BY <2>3, <2>u, <3>1, WpcRegions
    <3> QED  BY <2>3, <2>t, <2>u, <3>2, AsicStays
  <2>4. CASE machine = "eon2" /\ SmallStep
    <3>1. u = 510 /\ 15 \notin programmed'  BY <2>4
    <3> QED  BY <2>4, <2>u, <3>1, ExpanderStays
  <2> QED  BY <2>1, <2>2, <2>3, <2>4 DEF MapStep
<1> QED  BY <1>1, MapsAreAccounted, PTL DEF Spec, ControlKept

\* The ROM of a running machine changes unnoticed only on the WPC, whose fault
\* handler does nothing, or through a page that the registers of EON's MMU show
\* as writable; every other store to it ends the simulator or brings the prompt:
\* no fault is missed, and no map of the ROM is left writable by anything else
\* (Faulty, sim_error, mmu_write, the maps of the machines).
THEOREM RomIsKept == ASSUME RealSizes PROVE Spec => RomKept
<1>1. ASSUME BusInv, [Next]_vars
      PROVE  [rom' # rom =>
                \/ ~running \/ monitor_on' \/ machine = "wpc"
                \/ \E p \in Pages : mmu_regs[p][1] = Id("eon", "rom") /\ Writable(mmu_regs[p][3])]_vars
  <2>t. Typed  BY <1>1 DEF BusInv
  <2> SUFFICES ASSUME rom' # rom, ~(~running \/ monitor_on' \/ machine = "wpc")
               PROVE  \E p \in Pages : mmu_regs[p][1] = Id("eon", "rom") /\ Writable(mmu_regs[p][3])
    OBVIOUS
  <2>1. PICK u \in 0..511 : find_device(busmaps[u].devid) = "rom" /\ Writable(busmaps[u].flags)
    BY <1>1, <2>t, StepIs
  <2>2. machine \in Names /\ busmaps[u].devid \in Nat
    <3>1. busmaps[u] \in BusMap  BY <2>t DEF Typed, Maps
    <3> QED  BY <2>t, <3>1 DEF Typed, BusMap
  <2>3. machine # "simple" /\ busmaps[u].devid = 3
    <3> DEFINE d == busmaps[u].devid
    <3> HIDE DEF d
    <3>1. machine \in Names /\ d \in Nat /\ find_device(d) = "rom"  BY <2>1, <2>2 DEF d
    <3>2. /\ machine = "simple" => find_device(d) \notin {"mmu", "ioexpand", "asic", "rom"}
          /\ machine \in {"eon", "eon2"} /\ find_device(d) = "rom" => d = 3
      BY <3>1, Classes
    <3> QED  BY <3>1, <3>2 DEF d, Names
  <2>4. machine # "eon2"
    <3>1. machine = "eon2" => RomLocked(busmaps)  BY <1>1 DEF BusInv
    <3> QED  BY <2>1, <2>3, <3>1, Zenon DEF RomLocked
  <2>5. machine = "eon"  BY <2>2, <2>3, <2>4 DEF Names
  <2>6. EonRom  BY <1>1, <2>5 DEF BusInv
  <2>7. mmu_regs[Page(u)][1] = 3 /\ Writable(mmu_regs[Page(u)][3])
    BY <2>1, <2>3, <2>6, Zenon DEF EonRom
  <2>8. Page(u) \in Pages  BY DEF Page, Pages
  <2> QED  BY <2>7, <2>8, EonIds
<1> QED  BY <1>1, MapsAreAccounted, PTL DEF Spec, RomKept
=============================================================================
