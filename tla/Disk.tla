-------------------------------- MODULE Disk --------------------------------
(***************************************************************************)
(* The disk drive of disk.c: four byte-wide registers, a host file with a  *)
(* position of its own, and transfers that go past the CPU to the RAM.     *)
(* The program is arbitrary: it stores any byte to any register at any     *)
(* time.  The host's stdio may write its buffer back whenever it likes,    *)
(* and the simulator may be killed at any time.                            *)
(***************************************************************************)
EXTENDS Naturals, FiniteSets

CONSTANTS
  Radix,             \* values of a byte (256)
  SECTOR_SIZE,       \* bytes in a sector (512)
  DISK_SECTOR_COUNT, \* sectors of a formatted disk (65536)
  MaxPos,            \* bound on the sectors of the host file
  MaxDirty,          \* bound on the sectors written since the last flush
  Data,              \* contents of a sector
  Zero, Erased,      \* the contents of fresh RAM, and of an erased sector
  Absent,            \* a sector past the end of the file
  None               \* no sector, in the history of the program's addresses

Positions == 0..MaxPos
Bytes == 0..(Radix - 1)
Frames == Bytes

ASSUME RadixAssumption == Radix \in Nat \ {0}
ASSUME SizeAssumption == SECTOR_SIZE \in Nat \ {0}
ASSUME CountAssumption == DISK_SECTOR_COUNT \in Nat \ {0} /\ DISK_SECTOR_COUNT <= MaxPos
ASSUME BoundAssumption == MaxPos \in Nat /\ MaxDirty \in Nat
ASSUME DataAssumption == {Zero, Erased} \subseteq Data /\ Absent \notin Data /\ None \notin Nat

VARIABLES
  file,   \* the host file through disk->fp, by sectors
  stable, \* the host file as the kernel has it
  pos,    \* the position of disk->fp, in sectors
  offset, \* disk->offset
  frame,  \* disk->ram, as a number of sectors from the start of the RAM
  ram,    \* the contents of the RAM, by sectors
  exists, \* the host has the file disk.bin
  up,     \* the simulator is running
  half,   \* history: the high byte stored since the last low byte or transfer, or None
  asked,  \* history: the sector named by a high and then a low byte since the last transfer, or None
  dirty,  \* history: sectors changed since the last flush
  cut     \* history: a start was killed while it formatted the disk

vars == <<file, stable, pos, offset, frame, ram, exists, up, half, asked, dirty, cut>>

Contents == Data \cup {Absent}
Empty == [s \in Positions |-> Absent]

\* fwrite of one sector; a hole before it reads as zeros.
Written(f, s, d) ==
  [t \in Positions |-> IF t = s THEN d ELSE IF t < s /\ f[t] = Absent THEN Zero ELSE f[t]]

Init ==
  /\ file = Empty /\ stable = Empty /\ dirty = {}
  /\ pos = 0 /\ offset = 0 /\ frame = 0
  /\ ram = [f \in Frames |-> Zero] /\ exists = FALSE /\ up = FALSE /\ cut = FALSE
  /\ half = None /\ asked = None

\* Mutant: a new disk is left as it was created.
Formatted_none(n) == Empty

\* A disk of which the first n sectors are formatted.
Formatted(n) == [s \in Positions |-> IF s < n THEN Erased ELSE Absent]

\* disk_create.  An existing file is used as it is, and disk_reset leaves its
\* position at sector 0; a new one is formatted, which leaves it at the end.
disk_create ==
  /\ ~up /\ up' = TRUE
  /\ ram' = [f \in Frames |-> Zero] /\ frame' = 0
  /\ half' = None /\ asked' = None /\ dirty' = {}
  /\ exists' = TRUE /\ cut' = cut
  /\ \/ /\ exists
        /\ file' = stable /\ pos' = 0 /\ offset' = 0
     \/ /\ ~exists
        /\ file' = Formatted(DISK_SECTOR_COUNT)
        /\ pos' = DISK_SECTOR_COUNT
        /\ offset' = (DISK_SECTOR_COUNT - 1) * SECTOR_SIZE
  /\ stable' = file'

\* The simulator is killed while disk_format is at sector n; the next start
\* finds a file and does not format it again.
KilledInFormat ==
  /\ ~up /\ ~exists /\ exists' = TRUE /\ cut' = TRUE
  /\ \E n \in 0..DISK_SECTOR_COUNT : file' = Formatted(n)
  /\ stable' = file'
  /\ UNCHANGED <<pos, offset, frame, ram, up, half, asked, dirty>>

(***************************************************************************)
(* disk_write, one action per register.                                    *)
(***************************************************************************)
WriteAddr(val) ==
  /\ up /\ frame' = val
  /\ UNCHANGED <<file, stable, pos, offset, ram, up, half, asked, dirty, exists, cut>>

WriteSectorHigh(val) ==
  /\ up /\ offset' = val /\ half' = val /\ asked' = None
  /\ UNCHANGED <<file, stable, pos, frame, ram, up, dirty, exists, cut>>

\* Mutant: the high byte is not shifted.
Sector_unshifted(off, val) == off + val

\* The sector that a store of the low byte seeks to: the low byte below whatever
\* the offset register holds, a high byte or what an earlier seek left of it.
Sector(off, val) == off * Radix + val

WriteSectorLow(val) ==
  /\ up /\ Sector(offset, val) \in Positions
  /\ pos' = Sector(offset, val)
  /\ offset' = Sector(offset, val) * SECTOR_SIZE
  /\ asked' = IF half = None THEN None ELSE half * Radix + val
  /\ half' = None
  /\ UNCHANGED <<file, stable, frame, ram, up, dirty, exists, cut>>

\* What a command leaves in the file, and in the RAM.
FileAfter(ctrl) ==
  IF "READ" \in ctrl THEN file
  ELSE IF "WRITE" \in ctrl THEN Written(file, pos, ram[frame])
  ELSE IF "ERASE" \in ctrl THEN Written(file, pos, Erased)
  ELSE file

RamAfter(ctrl) ==
  IF "READ" \in ctrl /\ file[pos] # Absent THEN [ram EXCEPT ![frame] = file[pos]] ELSE ram

\* A read at the end of the file moves neither data nor the position.
Moves(ctrl) ==
  \/ "READ" \in ctrl /\ file[pos] # Absent
  \/ "READ" \notin ctrl /\ ctrl \cap {"WRITE", "ERASE"} # {}

\* Mutant: the flush comes before the transfer.
StableAfter_early(ctrl) == IF "FLUSH" \in ctrl THEN file ELSE stable

\* The flush comes after the transfer of the same command.
StableAfter(ctrl) == IF "FLUSH" \in ctrl THEN FileAfter(ctrl) ELSE stable

WriteCtrl(ctrl) ==
  /\ up /\ pos < MaxPos /\ Cardinality(dirty) <= MaxDirty
  /\ file' = FileAfter(ctrl) /\ ram' = RamAfter(ctrl) /\ stable' = StableAfter(ctrl)
  /\ pos' = IF Moves(ctrl) THEN pos + 1 ELSE pos
  /\ dirty' = IF "FLUSH" \in ctrl THEN {} ELSE dirty \cup {s \in Positions : file'[s] # file[s]}
  /\ IF ctrl \cap {"READ", "WRITE", "ERASE"} = {}
       THEN UNCHANGED <<half, asked>> ELSE half' = None /\ asked' = None
  /\ UNCHANGED <<offset, frame, up, exists, cut>>

disk_write ==
  \/ \E val \in Bytes : WriteAddr(val) \/ WriteSectorHigh(val) \/ WriteSectorLow(val)
  \/ \E ctrl \in SUBSET {"READ", "WRITE", "ERASE", "FLUSH"} : WriteCtrl(ctrl)

(***************************************************************************)
(* The rest of the machine and the host.                                   *)
(***************************************************************************)
\* The program fills a sector of the RAM.
ram_write ==
  /\ up /\ \E f \in Frames, d \in Data : ram' = [ram EXCEPT ![f] = d]
  /\ UNCHANGED <<file, stable, pos, offset, frame, up, half, asked, dirty, exists, cut>>

\* stdio writes its buffer back of its own accord.
Drain ==
  /\ up /\ stable' = file
  /\ UNCHANGED <<file, pos, offset, frame, ram, up, half, asked, dirty, exists, cut>>

\* sim_exit: exit() writes the buffers back.
sim_exit ==
  /\ up /\ up' = FALSE /\ stable' = file /\ dirty' = {}
  /\ UNCHANGED <<file, pos, offset, frame, ram, half, asked, exists, cut>>

\* The process is killed: what was still in its buffer is lost.
Killed ==
  /\ up /\ up' = FALSE /\ file' = stable /\ dirty' = {}
  /\ UNCHANGED <<stable, pos, offset, frame, ram, half, asked, exists, cut>>

Next == disk_create \/ KilledInFormat \/ disk_write \/ ram_write \/ Drain \/ sim_exit \/ Killed

Spec == Init /\ [][Next]_vars

-----------------------------------------------------------------------------
\* The registers, the files and the histories are well typed.
TypeOK ==
  /\ file \in [Positions -> Contents] /\ stable \in [Positions -> Contents]
  /\ pos \in Positions /\ offset \in Nat /\ frame \in Frames
  /\ ram \in [Frames -> Data] /\ {up, exists, cut} \subseteq BOOLEAN
  /\ half \in Bytes \cup {None} /\ asked \in Positions \cup {None}
  /\ dirty \subseteq Positions

\* The drive is a store of sectors: every command moves one whole sector or
\* none, and once the program has stored the high and the low byte of a sector
\* the next transfer goes to that sector, whatever the offset register was
\* left at by earlier transfers (disk_write).
Store == INSTANCE SectorStore WITH store <- file
StoreImplemented == Store!Spec

\* A sector that was not changed since the last command to flush is what the
\* next start of the simulator will find, even if this one is killed: "its
\* contents are actually persistent" (eon.h).
FlushedSurvives == \A s \in Positions \ dirty : stable[s] = file[s]

\* Every sector of the disk can be read, however the simulator has ended
\* before, unless it was killed while it formatted the disk: the file it left
\* is then taken for a formatted one (disk_create).
SectorsReadable == up /\ ~cut => \A s \in 0..(DISK_SECTOR_COUNT - 1) : file[s] # Absent
=============================================================================
