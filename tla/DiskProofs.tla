---------------------------- MODULE DiskProofs -----------------------------
(***************************************************************************)
(* For disks and memories of any size, and without the bound on dirty      *)
(* sectors: what was flushed survives, a formatted disk stays readable,    *)
(* and the drive implements the store of sectors.                          *)
(***************************************************************************)
EXTENDS Disk, TLAPS

\* The registers hold what the program has stored last: the high byte, and
\* after the low byte the position of the file.
RegistersHold ==
  /\ half # None => offset = half
  /\ asked # None => pos = asked

\* The file in the host's hands and the program's view of it, between the
\* first start and the present one.
FilesHold ==
  /\ ~exists => ~up /\ stable = Empty
  /\ exists /\ ~cut => \A s \in 0..(DISK_SECTOR_COUNT - 1) : file[s] # Absent /\ stable[s] # Absent

Inv == TypeOK /\ RegistersHold /\ FlushedSurvives /\ FilesHold

-----------------------------------------------------------------------------
\* fwrite leaves a file, and takes no sector away.
LEMMA WrittenIsFile ==
  ASSUME NEW f \in [Positions -> Contents], NEW s \in Positions, NEW d \in Data
  PROVE  /\ Written(f, s, d) \in [Positions -> Contents]
         /\ \A t \in Positions : f[t] # Absent => Written(f, s, d)[t] # Absent
BY DataAssumption DEF Written, Contents

\* A disk formatted in part or in full is a file.
LEMMA FormattedIsFile == ASSUME NEW n PROVE Formatted(n) \in [Positions -> Contents]
BY DataAssumption DEF Formatted, Contents

\* The sectors of a formatted disk are among those of the host file.
LEMMA SectorsFit == 0..(DISK_SECTOR_COUNT - 1) \subseteq Positions /\ DISK_SECTOR_COUNT \in Positions
BY CountAssumption, BoundAssumption DEF Positions

\* A disk that has just been attached.
LEMMA InitInv == Init => Inv
<1> SUFFICES ASSUME Init PROVE Inv
  OBVIOUS
<1>1. TypeOK
  <2>1. Zero \in Data /\ 0 \in Positions /\ 0 \in Frames /\ 0 \in Nat
    BY DataAssumption, RadixAssumption, BoundAssumption DEF Frames, Bytes, Positions
  <2>2. file \in [Positions -> Contents] /\ stable \in [Positions -> Contents]
    BY DEF Init, Empty, Contents
  <2>3. ram \in [Frames -> Data]  BY <2>1 DEF Init
  <2> QED  BY <2>1, <2>2, <2>3 DEF Init, TypeOK
<1>2. RegistersHold /\ FlushedSurvives /\ FilesHold
  BY DEF Init, RegistersHold, FlushedSurvives, FilesHold
<1> QED  BY <1>1, <1>2 DEF Inv

\* A start of the simulator.
LEMMA CreateInv == ASSUME Inv, disk_create PROVE Inv'
<1> USE DEF Inv
<1>1. TypeOK'
  <2>1. file' \in [Positions -> Contents] /\ stable' \in [Positions -> Contents]
    BY FormattedIsFile DEF disk_create, TypeOK
  <2>2. pos' \in Positions /\ offset' \in Nat /\ frame' \in Frames
    BY SectorsFit, SizeAssumption, CountAssumption, BoundAssumption, RadixAssumption
    DEF disk_create, Positions, Frames, Bytes
  <2>3. ram' \in [Frames -> Data]
    BY DataAssumption DEF disk_create
  <2> QED  BY <2>1, <2>2, <2>3 DEF disk_create, TypeOK
<1>2. RegistersHold'  BY DEF disk_create, RegistersHold
<1>3. FlushedSurvives'  BY DEF disk_create, FlushedSurvives
<1>4. FilesHold'
  <2>1. \A s \in 0..(DISK_SECTOR_COUNT - 1) : Formatted(DISK_SECTOR_COUNT)[s] # Absent
    BY SectorsFit, CountAssumption, DataAssumption DEF Formatted
  <2> QED  BY <2>1 DEF disk_create, FilesHold
<1> QED  BY <1>1, <1>2, <1>3, <1>4

\* A start that is killed while it formats.
LEMMA KilledInFormatInv == ASSUME Inv, KilledInFormat PROVE Inv'
<1> USE DEF Inv
<1>1. TypeOK'  BY FormattedIsFile DEF KilledInFormat, TypeOK
<1>2. RegistersHold' /\ FlushedSurvives' /\ FilesHold'
  BY DEF KilledInFormat, RegistersHold, FlushedSurvives, FilesHold
<1> QED  BY <1>1, <1>2

\* A store to one of the three address registers.
LEMMA AddressInv ==
  ASSUME Inv, NEW val \in Bytes, WriteAddr(val) \/ WriteSectorHigh(val) \/ WriteSectorLow(val)
  PROVE  Inv'
<1> USE DEF Inv
<1>1. UNCHANGED <<file, stable, exists, up, dirty, cut, ram>>
  BY DEF WriteAddr, WriteSectorHigh, WriteSectorLow
<1>2. FlushedSurvives' /\ FilesHold'
  BY <1>1 DEF FlushedSurvives, FilesHold
<1>3. val \in Nat /\ Radix \in Nat /\ SECTOR_SIZE \in Nat /\ Bytes \subseteq Nat /\ Positions \subseteq Nat
  BY RadixAssumption, SizeAssumption, BoundAssumption DEF Bytes, Positions
<1>4. CASE WriteAddr(val)
  <2>1. TypeOK' /\ RegistersHold'  BY <1>4 DEF WriteAddr, TypeOK, RegistersHold, Frames
  <2> QED  BY <2>1, <1>2
<1>5. CASE WriteSectorHigh(val)
  <2>1. TypeOK' /\ RegistersHold'  BY <1>3, <1>5 DEF WriteSectorHigh, TypeOK, RegistersHold
  <2> QED  BY <2>1, <1>2
<1>6. CASE WriteSectorLow(val)
  <2>1. RegistersHold'  BY <1>6 DEF WriteSectorLow, RegistersHold, Sector
  <2>2. pos' \in Positions /\ offset' = pos' * SECTOR_SIZE /\ half' = None
    BY <1>6 DEF WriteSectorLow
  <2>3. offset' \in Nat
    <3>1. \A a, b \in Nat : a * b \in Nat  OBVIOUS
    <3> QED  BY <3>1, <2>2, <1>3
  <2>4. asked' \in Positions \cup {None}  BY <2>1, <2>2 DEF RegistersHold
  <2>5. TypeOK'  BY <1>1, <1>6, <2>2, <2>3, <2>4 DEF WriteSectorLow, TypeOK
  <2> QED  BY <2>1, <2>5, <1>2
<1> QED  BY <1>4, <1>5, <1>6

\* A command moves a sector, flushes, or does both.
LEMMA CtrlInv ==
  ASSUME Inv, NEW ctrl \in SUBSET {"READ", "WRITE", "ERASE", "FLUSH"}, WriteCtrl(ctrl)
  PROVE  Inv'
<1> USE DEF Inv
<1>1. /\ FileAfter(ctrl) \in [Positions -> Contents]
      /\ \A s \in Positions : file[s] # Absent => FileAfter(ctrl)[s] # Absent
  <2>1. ram[frame] \in Data /\ Erased \in Data /\ pos \in Positions /\ file \in [Positions -> Contents]
    BY DataAssumption DEF TypeOK
  <2> QED  BY <2>1, WrittenIsFile DEF FileAfter
<1>2. RamAfter(ctrl) \in [Frames -> Data]
  BY DEF RamAfter, TypeOK, Contents
<1>3. StableAfter(ctrl) \in [Positions -> Contents]
  BY <1>1 DEF StableAfter, TypeOK
<1>4. (IF Moves(ctrl) THEN pos + 1 ELSE pos) \in Positions
  BY BoundAssumption DEF WriteCtrl, TypeOK, Positions
<1>5. TypeOK'
  BY <1>1, <1>2, <1>3, <1>4 DEF WriteCtrl, TypeOK
<1>6. RegistersHold'
  <2>1. CASE ctrl \cap {"READ", "WRITE", "ERASE"} = {}
    <3>1. ~Moves(ctrl)  BY <2>1 DEF Moves
    <3> QED  BY <2>1, <3>1 DEF WriteCtrl, RegistersHold
  <2>2. CASE ctrl \cap {"READ", "WRITE", "ERASE"} # {}
    BY <2>2 DEF WriteCtrl, RegistersHold
  <2> QED  BY <2>1, <2>2
<1>7. FlushedSurvives'
  BY DEF WriteCtrl, FlushedSurvives, StableAfter
<1>8. FilesHold'
  <2>1. CASE ~exists  BY <2>1 DEF WriteCtrl, FilesHold
  <2>2. CASE cut  BY <2>2, <2>1 DEF WriteCtrl, FilesHold
  <2>3. CASE exists /\ ~cut
    <3>1. \A s \in 0..(DISK_SECTOR_COUNT - 1) : FileAfter(ctrl)[s] # Absent /\ stable[s] # Absent
      BY <2>3, <1>1, SectorsFit DEF FilesHold
    <3> QED  BY <2>3, <3>1 DEF WriteCtrl, FilesHold, StableAfter
  <2> QED  BY <2>1, <2>2, <2>3 DEF TypeOK
<1> QED  BY <1>5, <1>6, <1>7, <1>8

\* The program, the host's buffers, and the two ends of the simulator.
LEMMA RestInv == ASSUME Inv, ram_write \/ Drain \/ sim_exit \/ Killed PROVE Inv'
<1> USE DEF Inv
<1>1. CASE ram_write
  BY <1>1 DEF ram_write, TypeOK, RegistersHold, FlushedSurvives, FilesHold
<1>2. CASE Drain
  BY <1>2 DEF Drain, TypeOK, RegistersHold, FlushedSurvives, FilesHold
<1>3. CASE sim_exit
  BY <1>3 DEF sim_exit, TypeOK, RegistersHold, FlushedSurvives, FilesHold
<1>4. CASE Killed
  BY <1>4 DEF Killed, TypeOK, RegistersHold, FlushedSurvives, FilesHold
<1> QED  BY <1>1, <1>2, <1>3, <1>4

\* No step breaks the invariant.
LEMMA StepInv == ASSUME Inv, [Next]_vars PROVE Inv'
<1>1. CASE disk_create  BY <1>1, CreateInv
<1>2. CASE KilledInFormat  BY <1>2, KilledInFormatInv
<1>3. CASE disk_write  BY <1>3, AddressInv, CtrlInv DEF disk_write
<1>4. CASE ram_write \/ Drain \/ sim_exit \/ Killed  BY <1>4, RestInv
<1>5. CASE UNCHANGED vars
  BY <1>5 DEF vars, Inv, TypeOK, RegistersHold, FlushedSurvives, FilesHold
<1> QED  BY <1>1, <1>2, <1>3, <1>4, <1>5 DEF Next

\* The invariant holds throughout.
LEMMA Invariance == Spec => []Inv
<1>1. Inv /\ [Next]_vars => Inv'  BY StepInv
<1> QED  BY InitInv, <1>1, PTL DEF Spec

-----------------------------------------------------------------------------
\* A sector not changed since the last command to flush is on the host,
\* whatever the program stores and whenever the simulator is killed.
THEOREM FlushedDataSurvives == Spec => []FlushedSurvives
<1>1. Inv => FlushedSurvives  BY DEF Inv
<1> QED  BY Invariance, <1>1, PTL

\* A disk that was formatted in full stays readable in full.
THEOREM DiskStaysReadable == Spec => []SectorsReadable
<1>1. Inv => SectorsReadable  BY DEF Inv, TypeOK, FilesHold, SectorsReadable
<1> QED  BY Invariance, <1>1, PTL

-----------------------------------------------------------------------------
\* The first start of the drive is a first start of the store.
LEMMA StoreInit == Init => Store!Init
BY DEF Init, Store!Init, Empty

\* A start, complete or killed, is a start of the store.
LEMMA StoreStarts == ASSUME Inv, disk_create \/ KilledInFormat PROVE Store!PowerUp \/ Store!Interrupted
<1> USE DEF Inv
<1>1. \A n : \A s \in Positions : Formatted(n)[s] \in {Erased, Absent}
  BY DEF Formatted
<1>2. ~exists => \A s \in Positions : stable[s] = Absent
  BY DEF FilesHold, Empty
<1>3. CASE disk_create /\ exists  BY <1>3 DEF disk_create, Store!PowerUp
<1>4. CASE disk_create /\ ~exists
  <2>1. \A s \in Positions : stable[s] = Absent /\ file'[s] \in {Erased, Absent}
    BY <1>1, <1>2, <1>4 DEF disk_create
  <2> QED  BY <1>4, <2>1 DEF disk_create, Store!PowerUp
<1>5. CASE KilledInFormat
  <2>1. \A s \in Positions : stable[s] = Absent /\ file'[s] \in {Erased, Absent}
    BY <1>1, <1>2, <1>5 DEF KilledInFormat
  <2> QED  BY <1>5, <2>1 DEF KilledInFormat, Store!Interrupted
<1> QED  BY <1>3, <1>4, <1>5

\* A command that transfers moves the sector at the position of the file,
\* which is the one the program named if it named one.
LEMMA StoreMoves ==
  ASSUME Inv, NEW ctrl \in SUBSET {"READ", "WRITE", "ERASE", "FLUSH"}, WriteCtrl(ctrl),
         ctrl \cap {"READ", "WRITE", "ERASE"} # {}
  PROVE  Store!Move
<1> USE DEF Inv
<1>1. pos \in Store!Reach /\ pos \in Positions /\ frame \in Frames
  BY DEF RegistersHold, TypeOK, Store!Reach
<1>2. stable' = file' \/ stable' = stable
  BY DEF WriteCtrl, StableAfter
<1>3. Store!Saved(pos)  BY <1>2 DEF Store!Saved
<1>4. CASE "READ" \in ctrl
  <2>1. Store!Load
    BY <1>1, <1>3, <1>4 DEF WriteCtrl, FileAfter, RamAfter, Store!Load
  <2> QED  BY <2>1 DEF WriteCtrl, Store!Move
<1>5. CASE "READ" \notin ctrl
  <2>1. PICK d \in {ram[f] : f \in Frames} \cup {Erased} : file' = Written(file, pos, d)
    BY <1>1, <1>5 DEF WriteCtrl, FileAfter
  <2>2. file' = Store!Put(file, pos, d)  BY <2>1 DEF Written, Store!Put
  <2>3. ram' = ram  BY <1>5 DEF WriteCtrl, RamAfter
  <2>4. Store!Save  BY <1>1, <1>3, <2>2, <2>3 DEF Store!Save
  <2> QED  BY <2>4 DEF WriteCtrl, Store!Move
<1> QED  BY <1>4, <1>5

\* Every step of the drive is a step of the store, or changes nothing of it.
LEMMA StoreStep == ASSUME Inv, Inv', [Next]_vars PROVE [Store!Next]_(Store!vars)
<1>1. CASE disk_create \/ KilledInFormat  BY <1>1, StoreStarts DEF Store!Next
<1>2. ASSUME NEW val \in Bytes, WriteAddr(val) \/ WriteSectorHigh(val) \/ WriteSectorLow(val)
      PROVE  [Store!Next]_(Store!vars)
  <2>1. UNCHANGED <<file, stable, ram, up>> /\ up
    BY <1>2 DEF WriteAddr, WriteSectorHigh, WriteSectorLow
  <2>2. asked' \in Positions \cup {None}  BY DEF Inv, TypeOK
  <2> QED  BY <2>1, <2>2 DEF Store!Address, Store!Next
<1>3. ASSUME NEW ctrl \in SUBSET {"READ", "WRITE", "ERASE", "FLUSH"}, WriteCtrl(ctrl)
      PROVE  [Store!Next]_(Store!vars)
  <2>1. CASE ctrl \cap {"READ", "WRITE", "ERASE"} # {}
    BY <1>3, <2>1, StoreMoves DEF Store!Next
  <2>2. CASE ctrl \cap {"READ", "WRITE", "ERASE"} = {}
    <3>1. UNCHANGED <<file, ram, up, asked>> /\ up
      BY <1>3, <2>2 DEF WriteCtrl, FileAfter, RamAfter
    <3>2. stable' = file \/ stable' = stable
      BY <1>3, <2>2 DEF WriteCtrl, StableAfter, FileAfter
    <3> QED  BY <3>1, <3>2 DEF Store!Sync, Store!Next, Store!vars
  <2> QED  BY <2>1, <2>2
<1>4. CASE disk_write  BY <1>2, <1>3, <1>4 DEF disk_write
<1>5. CASE ram_write
  BY <1>5 DEF ram_write, Store!Poke, Store!Next
<1>6. CASE Drain  BY <1>6 DEF Drain, Store!Sync, Store!Next
<1>7. CASE sim_exit \/ Killed
  BY <1>7 DEF sim_exit, Killed, Store!PowerDown, Store!Next
<1>8. CASE UNCHANGED vars  BY <1>8 DEF vars, Store!vars
<1> QED  BY <1>1, <1>4, <1>5, <1>6, <1>7, <1>8 DEF Next

\* The drive implements the store of sectors: registers, positions and
\* buffers of disk.c never show in what the program finds on its disk.
THEOREM DriveImplementsStore == Spec => StoreImplemented
<1>1. Inv /\ Inv' /\ [Next]_vars => [Store!Next]_(Store!vars)  BY StoreStep
<1> QED  BY Invariance, StoreInit, <1>1, PTL DEF Spec, StoreImplemented, Store!Spec
=============================================================================
