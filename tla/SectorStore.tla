---------------------------- MODULE SectorStore ----------------------------
(***************************************************************************)
(* What the disk of disk.c promises: a store of sectors that survives the  *)
(* simulator, from and to which whole sectors move, one at a time, to and  *)
(* from frames of the RAM.  The program addresses a sector and then moves  *)
(* it; a move without an address goes to some sector or other.             *)
(***************************************************************************)
EXTENDS Naturals

CONSTANTS
  Positions, \* sectors the host file may hold
  Frames,    \* places in the RAM a sector may be moved to
  Data,      \* contents of a sector
  Zero,      \* the contents of fresh RAM and of a hole in the file
  Erased,    \* the contents of an erased sector
  Absent,    \* a sector past the end of the file
  None       \* no sector

VARIABLES
  store,  \* the sectors as the program sees them
  stable, \* the sectors as the next start of the simulator will find them
  ram,    \* the frames of the RAM
  asked,  \* the sector the next move must go to, if the program has named one
  up      \* the simulator is running

vars == <<store, stable, ram, asked, up>>

Contents == Data \cup {Absent}

Init ==
  /\ store = [s \in Positions |-> Absent] /\ stable = store
  /\ ram = [f \in Frames |-> Zero] /\ asked = None /\ up = FALSE

\* Storing past the end makes the sectors in between readable, as zeros.
Put(sectors, s, d) ==
  [t \in Positions |->
     IF t = s THEN d ELSE IF t < s /\ sectors[t] = Absent THEN Zero ELSE sectors[t]]

\* The simulator starts on the disk as it was left; it may format it first.
PowerUp ==
  /\ ~up /\ up' = TRUE /\ asked' = None
  /\ ram' = [f \in Frames |-> Zero]
  /\ stable' = store'
  /\ \/ store' = stable
     \/ \A s \in Positions : stable[s] = Absent /\ store'[s] \in {Erased, Absent}

\* The sectors a move may go to.
Reach == IF asked = None THEN Positions ELSE {asked}

\* What a move, a command to flush or the host may leave in the file.
Saved(s) == stable' = store' \/ stable' = stable

Load ==
  \E s \in Reach, f \in Frames :
    /\ ram' = IF store[s] = Absent THEN ram ELSE [ram EXCEPT ![f] = store[s]]
    /\ store' = store /\ Saved(s)

Save ==
  \E s \in Reach :
    /\ \E d \in {ram[f] : f \in Frames} \cup {Erased} : store' = Put(store, s, d)
    /\ ram' = ram /\ Saved(s)

Move == up /\ asked' = None /\ up' = up /\ (Load \/ Save)

Address == up /\ asked' \in Positions \cup {None} /\ UNCHANGED <<store, stable, ram, up>>

\* The program stores into the RAM.
Poke ==
  /\ up /\ \E f \in Frames, d \in Data : ram' = [ram EXCEPT ![f] = d]
  /\ UNCHANGED <<store, stable, asked, up>>

Sync == up /\ stable' = store /\ UNCHANGED <<store, ram, asked, up>>

\* The simulator ends, with or without having written everything.
PowerDown == up /\ up' = FALSE /\ store' \in {store, stable} /\ stable' = store' /\ UNCHANGED <<ram, asked>>

\* A simulator that is stopped while it formats a new disk leaves part of it.
Interrupted ==
  /\ ~up /\ \A s \in Positions : stable[s] = Absent /\ store'[s] \in {Erased, Absent}
  /\ stable' = store' /\ UNCHANGED <<ram, asked, up>>

Next == PowerUp \/ Move \/ Address \/ Poke \/ Sync \/ PowerDown \/ Interrupted

Spec == Init /\ [][Next]_vars
=============================================================================
