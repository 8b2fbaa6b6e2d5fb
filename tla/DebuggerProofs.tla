--------------------------- MODULE DebuggerProofs ---------------------------
(***************************************************************************)
(* For a breakpoint table of any size: active_break_count is the number of *)
(* enabled slots and the enabled slots are the ones in use; no temporary   *)
(* breakpoint outlives the stop it was set for; the program is stopped on  *)
(* execution only where a command asked for it; a step runs one            *)
(* instruction; and only a print-only watchpoint takes back the stop of    *)
(* another.  The first invariant is inductive once the table is known to   *)
(* be well typed; the argument is one lemma per operation of the table,    *)
(* which says both that the table stays consistent and what becomes of its *)
(* slots.                                                                  *)
(***************************************************************************)
EXTENDS Debugger, FiniteSetTheorems, WellFoundedInduction, TLAPS

Table == [tab: [Slots -> Breakpoint], active: Int]

\* What every operation on the table preserves.
Consistent(b) ==
  /\ b \in Table
  /\ b.active = Cardinality(Enabled(b))
  /\ Enabled(b) = Slots \ FreeSlots(b)

\* One entry after brkfree, as brkalloc sets it up, and after brk_enable.
Freed(br) == [br EXCEPT !.used = FALSE, !.enabled = FALSE]
Taken(br) ==
  [br EXCEPT !.used = TRUE, !.condition = "none", !.keep_running = FALSE, !.ignore_count = 0,
             !.temp = FALSE]
TurnedOn(br) == [br EXCEPT !.enabled = TRUE]

\* The table has finitely many slots, numbered from zero.
LEMMA SlotsFinite == Slots \subseteq Nat /\ IsFiniteSet(Slots)
<1>1. MAX_BREAKS - 1 \in Int  BY TableAssumption
<1>2. IsFiniteSet(0..(MAX_BREAKS - 1))  BY <1>1, FS_Interval
<1> QED  BY <1>1, <1>2 DEF Slots

\* A set of slots that is not empty has a first one, so the search loops of
\* brkalloc and brkfind_by_addr return a slot of the set.
LEMMA LeastSlot ==
  ASSUME NEW S \in SUBSET Slots, S # {}
  PROVE  \E n \in S : \A m \in S : n <= m
<1>1. S \subseteq Nat  BY SlotsFinite
<1>2. PICK n \in S : \A m \in S : <<m, n>> \notin OpToRel(<, Nat)
  BY <1>1, WFMin, NatLessThanWellFounded, Zenon
<1>3. \A m \in S : ~(m < n)  BY <1>1, <1>2, Zenon DEF OpToRel
<1>4. \A m \in S : n <= m  BY <1>1, <1>3
<1> QED  BY <1>4

\* brkalloc returns a free slot when there is one.
LEMMA FirstFreeIsFree ==
  ASSUME NEW b, ~Full(b)
  PROVE  FirstFree(b) \in FreeSlots(b) /\ FirstFree(b) \in Slots
<1>1. FreeSlots(b) \in SUBSET Slots /\ FreeSlots(b) # {}  BY DEF FreeSlots, Full
<1>2. \E n \in FreeSlots(b) : \A m \in FreeSlots(b) : n <= m  BY <1>1, LeastSlot
<1>3. FirstFree(b) \in FreeSlots(b)  BY <1>2 DEF FirstFree
<1> QED  BY <1>1, <1>3

\* The enabled slots are finitely many.
LEMMA EnabledFinite ==
  ASSUME NEW b
  PROVE  Enabled(b) \subseteq Slots /\ IsFiniteSet(Enabled(b)) /\ Cardinality(Enabled(b)) \in Nat
<1>1. Enabled(b) \subseteq Slots  BY DEF Enabled
<1>2. IsFiniteSet(Enabled(b))  BY <1>1, SlotsFinite, FS_Subset
<1> QED  BY <1>1, <1>2, FS_CardinalityType

\* Two entries that differ at most in what breakpoint_hit writes: the condition,
\* the ignore count and the value last written.
Alike(br, e) ==
  /\ e.used = br.used /\ e.enabled = br.enabled /\ e.temp = br.temp
  /\ e.on = br.on /\ e.keep_running = br.keep_running

\* breakpoint_hit leaves the flags of the entry alone.
LEMMA HitKeeps ==
  ASSUME NEW br \in Breakpoint, NEW c, NEW on
  PROVE  /\ breakpoint_hit(br, c, on).br \in Breakpoint
         /\ Alike(br, breakpoint_hit(br, c, on).br)
<1>1. AfterEval(br) \in Breakpoint /\ Alike(br, AfterEval(br))
      /\ AfterEval(br).ignore_count = br.ignore_count
  BY DEF AfterEval, Alike, Breakpoint, Conditions
<1>2. br.ignore_count > 0 =>
        /\ [AfterEval(br) EXCEPT !.ignore_count = @ - 1] \in Breakpoint
        /\ Alike(br, [AfterEval(br) EXCEPT !.ignore_count = @ - 1])
  BY <1>1 DEF Alike, Breakpoint
<1> QED  BY <1>1, <1>2 DEF breakpoint_hit

\* What brkfree, brkalloc and brk_enable make of one entry.
LEMMA EntryUpdates ==
  ASSUME NEW br \in Breakpoint
  PROVE  /\ Freed(br) \in Breakpoint /\ ~Freed(br).used /\ ~Freed(br).enabled
         /\ Freed(br).keep_running = br.keep_running
         /\ Taken(br) \in Breakpoint /\ Taken(br).used /\ Taken(br).enabled = br.enabled
         /\ ~Taken(br).temp /\ ~Taken(br).keep_running
         /\ TurnedOn(br) \in Breakpoint /\ TurnedOn(br).used = br.used /\ TurnedOn(br).enabled
         /\ TurnedOn(br).temp = br.temp /\ TurnedOn(br).keep_running = br.keep_running
<1>1. Freed(br) \in Breakpoint /\ ~Freed(br).used /\ ~Freed(br).enabled
      /\ Freed(br).keep_running = br.keep_running
  BY DEF Freed, Breakpoint
<1>2. Taken(br) \in Breakpoint /\ Taken(br).used /\ Taken(br).enabled = br.enabled
      /\ ~Taken(br).temp /\ ~Taken(br).keep_running
  BY DEF Taken, Breakpoint, Conditions
<1>3. TurnedOn(br) \in Breakpoint /\ TurnedOn(br).used = br.used /\ TurnedOn(br).enabled
      /\ TurnedOn(br).temp = br.temp /\ TurnedOn(br).keep_running = br.keep_running
  BY DEF TurnedOn, Breakpoint
<1> QED  BY <1>1, <1>2, <1>3

\* Replacing an entry by one with the same flags keeps the table consistent;
\* the slot may be none of the table's, and then nothing is replaced.
LEMMA ReplaceConsistent ==
  ASSUME NEW b, Consistent(b), NEW n, NEW e \in Breakpoint,
         n \in Slots => e.used = b.tab[n].used /\ e.enabled = b.tab[n].enabled
  PROVE  /\ Consistent([b EXCEPT !.tab[n] = e])
         /\ FreeSlots([b EXCEPT !.tab[n] = e]) = FreeSlots(b)
<1> DEFINE c == [b EXCEPT !.tab[n] = e]
<1>1. c \in Table /\ c.active = b.active
      /\ \A m \in Slots : c.tab[m] = IF m = n THEN e ELSE b.tab[m]
  BY DEF Consistent, Table
<1>2. \A m \in Slots : c.tab[m].used = b.tab[m].used /\ c.tab[m].enabled = b.tab[m].enabled
  BY <1>1
<1> HIDE DEF c
<1>3. Enabled(c) = Enabled(b) /\ FreeSlots(c) = FreeSlots(b)
  BY <1>2 DEF Enabled, FreeSlots
<1> QED  BY <1>1, <1>3 DEF Consistent, c

\* brkfree of any slots.
LEMMA FreeConsistent ==
  ASSUME NEW b, Consistent(b), NEW S
  PROVE  Consistent(brkfree(b, S))
<1> DEFINE c == brkfree(b, S)
<1>1. \A m \in Slots : b.tab[m] \in Breakpoint  BY DEF Consistent, Table
<1>2. c.tab = [m \in Slots |-> IF m \in S THEN Freed(b.tab[m]) ELSE b.tab[m]]
  BY DEF brkfree, Freed
<1>3. /\ c.tab \in [Slots -> Breakpoint]
      /\ \A m \in Slots : m \in S => ~c.tab[m].used /\ ~c.tab[m].enabled
      /\ \A m \in Slots : m \notin S => c.tab[m] = b.tab[m]
  BY <1>1, <1>2, EntryUpdates
<1>4. c = [tab |-> c.tab, active |-> c.active]  BY DEF brkfree
<1>5. c.active = b.active - Cardinality(S \cap Enabled(b))  BY DEF brkfree
<1> HIDE DEF c
<1>6. Enabled(c) = Enabled(b) \ S  BY <1>3 DEF Enabled
<1>7. FreeSlots(c) = FreeSlots(b) \cup (S \cap Slots)  BY <1>3 DEF FreeSlots
<1>8. Cardinality(Enabled(b) \ S) = Cardinality(Enabled(b)) - Cardinality(Enabled(b) \cap S)
  BY EnabledFinite, FS_Difference
<1>9. Enabled(b) \cap S = S \cap Enabled(b)  OBVIOUS
<1>10. c.active = Cardinality(Enabled(c))
  BY <1>5, <1>6, <1>8, <1>9 DEF Consistent
<1>11. Cardinality(Enabled(c)) \in Nat  BY EnabledFinite
<1>12. c \in Table  BY <1>3, <1>4, <1>10, <1>11 DEF Table
<1>13. Enabled(c) = Slots \ FreeSlots(c)  BY <1>6, <1>7 DEF Consistent
<1> QED  BY <1>10, <1>12, <1>13 DEF Consistent, c

\* brkalloc enables the slot it hands out and counts it.
LEMMA AllocConsistent ==
  ASSUME NEW b, Consistent(b), ~Full(b)
  PROVE  /\ Consistent(brkalloc(b))
         /\ brkalloc(b).tab[FirstFree(b)] \in Breakpoint
         /\ brkalloc(b).tab[FirstFree(b)].used
         /\ brkalloc(b).tab[FirstFree(b)].enabled
         /\ ~brkalloc(b).tab[FirstFree(b)].temp
         /\ ~brkalloc(b).tab[FirstFree(b)].keep_running
         /\ \A m \in Slots \ {FirstFree(b)} : brkalloc(b).tab[m] = b.tab[m]
<1> DEFINE n == FirstFree(b)
           d == [b EXCEPT !.tab[n] = Taken(b.tab[n])]
           c == brkalloc(b)
<1>1. n \in Slots /\ n \in FreeSlots(b)  BY FirstFreeIsFree
<1>2. n \notin Enabled(b)  BY <1>1 DEF Consistent
<1>3. b.tab[n] \in Breakpoint /\ ~b.tab[n].enabled
  BY <1>1, <1>2 DEF Enabled, Consistent, Table
<1>4. d \in Table /\ d.active = b.active /\ d.tab[n] = Taken(b.tab[n])
      /\ \A m \in Slots \ {n} : d.tab[m] = b.tab[m]
  BY <1>1, <1>3, EntryUpdates DEF Consistent, Table
<1>5. c = brk_enable(d, n, TRUE)  BY DEF brkalloc, Taken
<1> HIDE DEF d, n, c
<1>6. d.tab[n] \in Breakpoint /\ d.tab[n].used /\ ~d.tab[n].enabled
      /\ ~d.tab[n].temp /\ ~d.tab[n].keep_running
  BY <1>3, <1>4, EntryUpdates
<1>7. c = [d EXCEPT !.tab[n].enabled = TRUE, !.active = @ + 1]
  BY <1>5, <1>6 DEF brk_enable
<1> DEFINE e == TurnedOn(d.tab[n])
<1>8. c.tab = [d.tab EXCEPT ![n] = e] /\ c.active = d.active + 1
      /\ c = [tab |-> c.tab, active |-> c.active]
  BY <1>4, <1>7 DEF TurnedOn, Table
<1>9. e \in Breakpoint /\ e.used /\ e.enabled /\ ~e.temp /\ ~e.keep_running
  BY <1>6, EntryUpdates
<1> HIDE DEF e
<1>10. /\ c \in Table /\ c.active = b.active + 1
       /\ \A m \in Slots \ {n} : c.tab[m] = b.tab[m]
       /\ c.tab[n] = e
  BY <1>1, <1>4, <1>8, <1>9 DEF Table
<1>11. c.tab[n] \in Breakpoint /\ c.tab[n].used /\ c.tab[n].enabled
       /\ ~c.tab[n].temp /\ ~c.tab[n].keep_running
  BY <1>9, <1>10
<1>12. Enabled(c) = Enabled(b) \cup {n}  BY <1>1, <1>10, <1>11 DEF Enabled
<1>13. FreeSlots(c) = FreeSlots(b) \ {n}  BY <1>1, <1>10, <1>11 DEF FreeSlots
<1>14. Cardinality(Enabled(b) \cup {n}) = Cardinality(Enabled(b)) + 1
  BY <1>2, EnabledFinite, FS_AddElement
<1>15. Consistent(c)  BY <1>1, <1>12, <1>13, <1>14, <1>10 DEF Consistent
<1> QED  BY <1>15, <1>10, <1>11 DEF c, n

\* A slot handed out and filled in by a command.
LEMMA SetConsistent ==
  ASSUME NEW b, Consistent(b), ~Full(b),
         NEW e \in Breakpoint, e.used, e.enabled
  PROVE  Consistent([brkalloc(b) EXCEPT !.tab[FirstFree(b)] = e])
<1>1. /\ Consistent(brkalloc(b))
      /\ brkalloc(b).tab[FirstFree(b)] \in Breakpoint
      /\ brkalloc(b).tab[FirstFree(b)].used
      /\ brkalloc(b).tab[FirstFree(b)].enabled
  BY AllocConsistent
<1>2. /\ e.used = brkalloc(b).tab[FirstFree(b)].used
      /\ e.enabled = brkalloc(b).tab[FirstFree(b)].enabled
  BY <1>1 DEF Breakpoint
<1> QED  BY <1>1, <1>2, ReplaceConsistent

\* brkfind_by_addr returns a slot when some slot has the address.
LEMMA FoundIsSlot ==
  ASSUME NEW b, NEW a, Matches(b, a) # {}
  PROVE  brkfind_by_addr(b, a) \in Slots /\ b.tab[brkfind_by_addr(b, a)].addr = a
<1>1. Matches(b, a) \in SUBSET Slots  BY DEF Matches
<1>2. \E n \in Matches(b, a) : \A m \in Matches(b, a) : n <= m  BY <1>1, LeastSlot
<1>3. brkfind_by_addr(b, a) \in Matches(b, a)  BY <1>2 DEF brkfind_by_addr
<1> QED  BY <1>1, <1>3 DEF Matches

\* A hook that reaches breakpoint_hit.
LEMMA HitConsistent ==
  ASSUME NEW b, Consistent(b), NEW n \in Slots, NEW c, NEW on
  PROVE  /\ breakpoint_hit(b.tab[n], c, on).br \in Breakpoint
         /\ Consistent([b EXCEPT !.tab[n] = breakpoint_hit(b.tab[n], c, on).br])
         /\ FreeSlots([b EXCEPT !.tab[n] = breakpoint_hit(b.tab[n], c, on).br]) = FreeSlots(b)
<1>1. b.tab[n] \in Breakpoint  BY DEF Consistent, Table
<1> DEFINE e == breakpoint_hit(b.tab[n], c, on).br
<1>2. e \in Breakpoint /\ e.used = b.tab[n].used /\ e.enabled = b.tab[n].enabled
  BY <1>1, HitKeeps DEF Alike
<1> HIDE DEF e
<1>3. Consistent([b EXCEPT !.tab[n] = e]) /\ FreeSlots([b EXCEPT !.tab[n] = e]) = FreeSlots(b)
  BY <1>2, ReplaceConsistent
<1> QED  BY <1>2, <1>3 DEF e

\* command_insn_hook, which may free a temporary breakpoint.
LEMMA InsnHookConsistent ==
  ASSUME Consistent(brk)
  PROVE  Consistent(command_insn_hook.brk)
<1>1. CASE ~Answers(brk, pc, "execute")  BY <1>1 DEF command_insn_hook
<1>2. CASE Answers(brk, pc, "execute")
  <2> DEFINE n == brkfind_by_addr(brk, pc)
             hit == breakpoint_hit(brk.tab[n], cell, monitor_on)
             b == [brk EXCEPT !.tab[n] = hit.br]
  <2>1. n \in Slots  BY <1>2, FoundIsSlot DEF Answers
  <2>2. Consistent(b)  BY <2>1, HitConsistent
  <2>3. Consistent(brkfree(b, {n}))  BY <2>2, FreeConsistent
  <2>4. command_insn_hook.brk = IF hit.monitor_on /\ hit.br.temp THEN brkfree(b, {n}) ELSE b
    BY <1>2 DEF command_insn_hook
  <2> QED  BY <2>2, <2>3, <2>4
<1> QED  BY <1>1, <1>2

\* command_read_hook.
LEMMA ReadHookConsistent ==
  ASSUME NEW b, Consistent(b), NEW on, NEW a, NEW c
  PROVE  Consistent(command_read_hook(b, on, a, c).brk)
<1>1. CASE ~Answers(b, a, "read")  BY <1>1 DEF command_read_hook, NoHit
<1>2. CASE Answers(b, a, "read")
  <2> DEFINE n == brkfind_by_addr(b, a)
  <2>1. n \in Slots  BY <1>2, FoundIsSlot DEF Answers
  <2>2. Consistent([b EXCEPT !.tab[n] = breakpoint_hit(b.tab[n], c, on).br])
    BY <2>1, HitConsistent
  <2> QED  BY <1>2, <2>2 DEF command_read_hook
<1> QED  BY <1>1, <1>2

\* command_write_hook, which takes no slot and frees none.
LEMMA WriteHookConsistent ==
  ASSUME NEW b, Consistent(b), NEW on, NEW a, NEW val \in {0, 1}, NEW c
  PROVE  /\ Consistent(command_write_hook(b, on, a, val, c).brk)
         /\ FreeSlots(command_write_hook(b, on, a, val, c).brk) = FreeSlots(b)
<1> DEFINE n == brkfind_by_addr(b, a)
           br == b.tab[n]
           hit == breakpoint_hit(br, c, on)
           written == IF br.write_mask # 0 THEN val ELSE br.last_write
           e == [hit.br EXCEPT !.last_write = written]
<1>1. CASE ~Answers(b, a, "write") \/ (br.write_mask # 0 /\ br.last_write = val)
  BY <1>1 DEF command_write_hook, NoHit
<1>2. CASE ~(~Answers(b, a, "write") \/ (br.write_mask # 0 /\ br.last_write = val))
  <2>1. n \in Slots  BY <1>2, FoundIsSlot DEF Answers
  <2>2. br \in Breakpoint  BY <2>1 DEF Consistent, Table
  <2>3. written \in {0, 1}  BY <2>2 DEF Breakpoint
  <2>4. hit.br \in Breakpoint /\ hit.br.used = br.used /\ hit.br.enabled = br.enabled
    BY <2>2, HitKeeps DEF Alike
  <2>5. command_write_hook(b, on, a, val, c).brk = [b EXCEPT !.tab[n] = e]
    BY <1>2 DEF command_write_hook
  <2> HIDE DEF hit, written
  <2>6. e \in Breakpoint /\ e.used = br.used /\ e.enabled = br.enabled
    BY <2>3, <2>4 DEF Breakpoint
  <2> HIDE DEF e
  <2>7. Consistent([b EXCEPT !.tab[n] = e]) /\ FreeSlots([b EXCEPT !.tab[n] = e]) = FreeSlots(b)
    BY <2>1, <2>6, ReplaceConsistent
  <2> QED  BY <2>5, <2>7
<1> QED  BY <1>1, <1>2

\* A command that fills in the slot it was given.
LEMMA SetSlotConsistent ==
  ASSUME Consistent(brk), ~Full(brk), NEW e \in Breakpoint, e.used, e.enabled,
         NEW events, SetSlot(brk, e, events)
  PROVE  Consistent(brk')
<1>1. brk' = [brkalloc(brk) EXCEPT !.tab[FirstFree(brk)] = e]  BY DEF SetSlot
<1>2. Consistent([brkalloc(brk) EXCEPT !.tab[FirstFree(brk)] = e])  BY SetConsistent
<1> QED  BY <1>1, <1>2

\* The entry a command is given is in use and enabled (brkalloc).
LEMMA FreshEntry ==
  ASSUME Consistent(brk), ~Full(brk)
  PROVE  /\ Fresh(brk) \in Breakpoint /\ Fresh(brk).used /\ Fresh(brk).enabled
         /\ ~Fresh(brk).temp /\ ~Fresh(brk).keep_running
BY AllocConsistent DEF Fresh

-----------------------------------------------------------------------------
\* The inductive invariant: the program counter is what "measure" puts in the table.
IInv == Consistent(brk) /\ pc \in Addrs

\* The table is all zeros at the start.
LEMMA InitIInv == Init => IInv
<1> SUFFICES ASSUME Init PROVE IInv  OBVIOUS
<1>1. brk \in Table
  BY DEF Init, NoBreaks, Table, Breakpoint, Conditions
<1>2. brk.active = 0 /\ \A n \in Slots : ~brk.tab[n].used /\ ~brk.tab[n].enabled
  BY DEF Init, NoBreaks
<1>3. Enabled(brk) = {} /\ FreeSlots(brk) = Slots  BY <1>2 DEF Enabled, FreeSlots
<1>4. Cardinality({}) = 0  BY FS_EmptySet
<1> QED  BY <1>1, <1>2, <1>3, <1>4 DEF IInv, Consistent, Init

\* One lemma per action that writes the table: the top of the instruction loop.
LEMMA FetchStep == ASSUME IInv, Fetch PROVE IInv'
<1>1. Consistent(command_insn_hook.brk)  BY InsnHookConsistent DEF IInv
<1>2. Consistent(brkfree_temps(command_insn_hook.brk))
  BY <1>1, FreeConsistent DEF brkfree_temps
<1>3. brk' \in {command_insn_hook.brk, brkfree_temps(command_insn_hook.brk)} /\ pc' = pc
  BY DEF Fetch
<1>4. Consistent(brk')  BY <1>1, <1>2, <1>3
<1> QED  BY <1>3, <1>4 DEF IInv, Consistent, Table, Enabled, FreeSlots

\* "break" takes a slot.
LEMMA BreakStep == ASSUME IInv, cmd_break PROVE IInv'
<1>1. PICK a \in Addrs, c \in Conds, i \in Ignores :
        SetSlot(brk, [Fresh(brk) EXCEPT !.addr = a, !.on = @ \cup {"execute"}, !.condition = c,
                              !.ignore_count = i], {"execute"})
  BY DEF cmd_break
<1>2. ~Full(brk) /\ pc' = pc  BY DEF cmd_break
<1>3. Fresh(brk) \in Breakpoint /\ Fresh(brk).used /\ Fresh(brk).enabled
  BY <1>2, FreshEntry DEF IInv
<1> DEFINE e == [Fresh(brk) EXCEPT !.addr = a, !.on = @ \cup {"execute"}, !.condition = c,
                              !.ignore_count = i]
<1>4. e \in Breakpoint /\ e.used /\ e.enabled
  BY <1>3, UserAssumption DEF Breakpoint, Events, Conditions
<1> HIDE DEF e
<1>5. SetSlot(brk, e, {"execute"})  BY <1>1 DEF e
<1>6. Consistent(brk')  BY <1>2, <1>4, <1>5, SetSlotConsistent DEF IInv
<1> QED  BY <1>2, <1>6 DEF IInv, Consistent, Table, Enabled, FreeSlots

\* "watch", "rwatch" and "awatch" take a slot.
LEMMA WatchStep == ASSUME IInv, cmd_watch1 PROVE IInv'
<1>1. PICK a \in Addrs, w \in Watches, p \in PrintOnly, c \in Conds, m \in Masks :
        LET events == (Fresh(brk).on \cap {"execute"}) \cup w
        IN  SetSlot(brk, [Fresh(brk) EXCEPT !.addr = a, !.on = events,
                              !.keep_running = p, !.condition = c,
                              !.write_mask = IF m = 0 THEN @ ELSE m], events)
  BY DEF cmd_watch1
<1>2. ~Full(brk) /\ pc' = pc  BY DEF cmd_watch1
<1>3. Fresh(brk) \in Breakpoint /\ Fresh(brk).used /\ Fresh(brk).enabled
  BY <1>2, FreshEntry DEF IInv
<1> DEFINE events == (Fresh(brk).on \cap {"execute"}) \cup w
           e == [Fresh(brk) EXCEPT !.addr = a, !.on = events,
                              !.keep_running = p, !.condition = c,
                              !.write_mask = IF m = 0 THEN @ ELSE m]
<1>4. e \in Breakpoint /\ e.used /\ e.enabled
  BY <1>3, UserAssumption DEF Breakpoint, Events, Conditions
<1>5. SetSlot(brk, e, events)  BY <1>1
<1> HIDE DEF e, events
<1>6. Consistent(brk')  BY <1>2, <1>4, <1>5, SetSlotConsistent DEF IInv
<1> QED  BY <1>2, <1>6 DEF IInv, Consistent, Table, Enabled, FreeSlots

\* "delete" frees one slot or all.
LEMMA DeleteStep == ASSUME IInv, cmd_delete PROVE IInv'
<1>1. PICK S : brk' = brkfree(brk, S)  BY DEF cmd_delete
<1>2. Consistent(brk')  BY <1>1, FreeConsistent DEF IInv
<1>3. pc' = pc  BY DEF cmd_delete
<1> QED  BY <1>2, <1>3 DEF IInv, Consistent, Table, Enabled, FreeSlots

\* "next" takes a slot for a temporary breakpoint.
LEMMA NextStep == ASSUME IInv, cmd_next PROVE IInv'
<1>1. PICK a \in Addrs :
        SetSlot(brk, TempAt(Fresh(brk), a), {"execute"})
  BY DEF cmd_next
<1>2. ~Full(brk) /\ pc' = pc  BY DEF cmd_next
<1>3. Fresh(brk) \in Breakpoint /\ Fresh(brk).used /\ Fresh(brk).enabled
  BY <1>2, FreshEntry DEF IInv
<1> DEFINE e == TempAt(Fresh(brk), a)
<1>4. e \in Breakpoint /\ e.used /\ e.enabled  BY <1>3 DEF TempAt, Breakpoint, Events
<1> HIDE DEF e
<1>5. SetSlot(brk, e, {"execute"})  BY <1>1 DEF e
<1>6. Consistent(brk')  BY <1>2, <1>4, <1>5, SetSlotConsistent DEF IInv
<1> QED  BY <1>2, <1>6 DEF IInv, Consistent, Table, Enabled, FreeSlots

\* "measure" goes through the write hook twice and then takes a slot.
LEMMA MeasureStep == ASSUME IInv, cmd_measure PROVE IInv'
<1>1. ~Full(brk) /\ pc' \in Addrs  BY DEF cmd_measure
<1>2. PICK low \in Addrs, high \in Addrs, v \in Values, w \in Values :
        LET first == command_write_hook(brk, monitor_on, low, v, Stored(low, v, cell))
            second == command_write_hook(first.brk, first.monitor_on, high, w, cell')
        IN  /\ v \in {0, 1} /\ w \in {0, 1}
            /\ SetSlot(second.brk, TempAt(Fresh(second.brk), pc), {"execute"})
  BY UserAssumption DEF cmd_measure
<1> DEFINE c == Stored(low, v, cell)
           first == command_write_hook(brk, monitor_on, low, v, c)
           second == command_write_hook(first.brk, first.monitor_on, high, w, cell')
           b == second.brk
           e == TempAt(Fresh(b), pc)
<1>3. brk' = [brkalloc(b) EXCEPT !.tab[FirstFree(b)] = e]  BY <1>2 DEF SetSlot
<1> HIDE DEF c
<1>4. Consistent(first.brk) /\ FreeSlots(first.brk) = FreeSlots(brk)
  BY <1>2, WriteHookConsistent DEF IInv
<1> HIDE DEF first
<1>5. Consistent(b) /\ FreeSlots(b) = FreeSlots(brk)  BY <1>2, <1>4, WriteHookConsistent
<1>6. ~Full(b)  BY <1>1, <1>5 DEF Full
<1> HIDE DEF b, second
<1>7. Fresh(b) \in Breakpoint /\ Fresh(b).used /\ Fresh(b).enabled
  BY <1>5, <1>6, AllocConsistent DEF Fresh
<1>8. e \in Breakpoint /\ e.used /\ e.enabled  BY <1>7 DEF TempAt, Breakpoint, Events, IInv
<1> HIDE DEF e
<1>9. Consistent([brkalloc(b) EXCEPT !.tab[FirstFree(b)] = e])
  BY <1>5, <1>6, <1>8, SetConsistent
<1>10. Consistent(brk')  BY <1>3, <1>9
<1> QED  BY <1>1, <1>10 DEF IInv, Consistent, Table, Enabled, FreeSlots

\* A read of the program.
LEMMA ReadStep == ASSUME IInv, Read PROVE IInv'
<1>1. PICK a \in Addrs : brk' = command_read_hook(brk, monitor_on, a, cell).brk  BY DEF Read, Hooked
<1>2. Consistent(brk')  BY <1>1, ReadHookConsistent DEF IInv
<1>3. pc' = pc  BY DEF Read
<1> QED  BY <1>2, <1>3 DEF IInv, Consistent, Table, Enabled, FreeSlots

\* A write of the program.
LEMMA WriteStep == ASSUME IInv, Write PROVE IInv'
<1>1. PICK a \in Addrs, val \in Values :
        /\ val \in {0, 1}
        /\ brk' = command_write_hook(brk, monitor_on, a, val, cell').brk
  BY UserAssumption DEF Write, Hooked
<1>2. Consistent(brk')  BY <1>1, WriteHookConsistent DEF IInv
<1>3. pc' = pc  BY DEF Write
<1> QED  BY <1>2, <1>3 DEF IInv, Consistent, Table, Enabled, FreeSlots

\* The other actions leave the table alone.
LEMMA OtherSteps ==
  ASSUME IInv, \/ cmd_set \/ NoSlot \/ cmd_continue \/ cmd_step \/ cmd_runfor \/ EndOfInput
               \/ cmd_quit \/ Finish \/ command_periodic \/ monitor_signal \/ Ended
               \/ UNCHANGED vars
  PROVE  IInv'
<1>1. brk' = brk /\ pc' \in Addrs
  BY DEF IInv, cmd_set, NoSlot, cmd_continue, cmd_step, cmd_runfor, EndOfInput, cmd_quit, Finish,
         command_periodic, monitor_signal, Ended, vars
<1> QED  BY <1>1 DEF IInv, Consistent, Table, Enabled, FreeSlots

\* Every step preserves the invariant.
LEMMA NextIInv == IInv /\ [Next]_vars => IInv'
BY FetchStep, BreakStep, WatchStep, DeleteStep, NextStep, MeasureStep, ReadStep, WriteStep,
   OtherSteps
   DEF Next, Prompt, Instruction

\* active_break_count is right for every size of the table, any addresses and
\* any sequence of commands and hits, so the early return of the three hooks
\* on a zero count never passes over an enabled breakpoint.
THEOREM CountIsRight == Spec => []ActiveCount
<1>1. IInv => ActiveCount  BY DEF IInv, Consistent, ActiveCount
<1> QED  BY <1>1, InitIInv, NextIInv, PTL DEF Spec

-----------------------------------------------------------------------------
(***************************************************************************)
(* What a step may do to the table, for the properties that relate it to   *)
(* what the user asked for.                                                *)
(***************************************************************************)
\* The same slots are in use, for the same events.
SameSlots(b, c) == \A n \in Slots : Alike(b.tab[n], c.tab[n])

\* The hooks of the program's accesses change no flag of any slot.
LEMMA ReplaceSame ==
  ASSUME NEW b, Consistent(b), NEW n \in Slots, NEW e \in Breakpoint, Alike(b.tab[n], e)
  PROVE  SameSlots(b, [b EXCEPT !.tab[n] = e])
<1> DEFINE c == [b EXCEPT !.tab[n] = e]
<1>1. \A m \in Slots : c.tab[m] = IF m = n THEN e ELSE b.tab[m]  BY DEF Consistent, Table
<1> HIDE DEF c
<1>2. SameSlots(b, c)  BY <1>1 DEF SameSlots, Alike
<1> QED  BY <1>2 DEF c

\* A table without a hit is the same.
LEMMA SameTable == ASSUME NEW b PROVE SameSlots(b, b)
BY DEF SameSlots, Alike

\* Sameness goes through two calls.
LEMMA SameTransitive ==
  ASSUME NEW b, NEW c, NEW d, SameSlots(b, c), SameSlots(c, d)
  PROVE  SameSlots(b, d)
BY DEF SameSlots, Alike

\* command_read_hook.
LEMMA ReadHookSame ==
  ASSUME NEW b, Consistent(b), NEW on, NEW a, NEW c
  PROVE  SameSlots(b, command_read_hook(b, on, a, c).brk)
<1>1. CASE ~Answers(b, a, "read")  BY <1>1, SameTable DEF command_read_hook, NoHit
<1>2. CASE Answers(b, a, "read")
  <2> DEFINE n == brkfind_by_addr(b, a)
             e == breakpoint_hit(b.tab[n], c, on).br
  <2>1. n \in Slots  BY <1>2, FoundIsSlot DEF Answers
  <2>2. b.tab[n] \in Breakpoint  BY <2>1 DEF Consistent, Table
  <2>3. e \in Breakpoint /\ Alike(b.tab[n], e)  BY <2>2, HitKeeps
  <2>4. command_read_hook(b, on, a, c).brk = [b EXCEPT !.tab[n] = e]
    BY <1>2 DEF command_read_hook
  <2> HIDE DEF n, e
  <2> QED  BY <2>1, <2>3, <2>4, ReplaceSame
<1> QED  BY <1>1, <1>2

\* command_write_hook.
LEMMA WriteHookSame ==
  ASSUME NEW b, Consistent(b), NEW on, NEW a, NEW val \in {0, 1}, NEW c
  PROVE  SameSlots(b, command_write_hook(b, on, a, val, c).brk)
<1> DEFINE n == brkfind_by_addr(b, a)
           br == b.tab[n]
           hit == breakpoint_hit(br, c, on)
           written == IF br.write_mask # 0 THEN val ELSE br.last_write
           e == [hit.br EXCEPT !.last_write = written]
<1>1. CASE ~Answers(b, a, "write") \/ (br.write_mask # 0 /\ br.last_write = val)
  BY <1>1, SameTable DEF command_write_hook, NoHit
<1>2. CASE ~(~Answers(b, a, "write") \/ (br.write_mask # 0 /\ br.last_write = val))
  <2>1. n \in Slots  BY <1>2, FoundIsSlot DEF Answers
  <2>2. br \in Breakpoint  BY <2>1 DEF Consistent, Table
  <2>3. written \in {0, 1}  BY <2>2 DEF Breakpoint
  <2>4. hit.br \in Breakpoint /\ Alike(br, hit.br)  BY <2>2, HitKeeps
  <2>5. command_write_hook(b, on, a, val, c).brk = [b EXCEPT !.tab[n] = e]
    BY <1>2 DEF command_write_hook
  <2> HIDE DEF hit, written
  <2>6. e \in Breakpoint /\ Alike(br, e)  BY <2>3, <2>4 DEF Breakpoint, Alike
  <2> HIDE DEF e, n
  <2> QED  BY <2>1, <2>5, <2>6, ReplaceSame
<1> QED  BY <1>1, <1>2

\* brkfree leaves the other slots as they are, and print-only ones print-only.
LEMMA FreeSlotsOf ==
  ASSUME NEW b, Consistent(b), NEW S
  PROVE  /\ \A n \in Slots : n \in S => /\ ~brkfree(b, S).tab[n].used
                                        /\ ~brkfree(b, S).tab[n].enabled
                                        /\ brkfree(b, S).tab[n].keep_running = b.tab[n].keep_running
         /\ \A n \in Slots : n \notin S => brkfree(b, S).tab[n] = b.tab[n]
<1>1. brkfree(b, S).tab = [m \in Slots |-> IF m \in S THEN Freed(b.tab[m]) ELSE b.tab[m]]
  BY DEF brkfree, Freed
<1>2. \A m \in Slots : b.tab[m] \in Breakpoint  BY DEF Consistent, Table
<1> QED  BY <1>1, <1>2, EntryUpdates

\* No slot of c is in use that is not in b, and the ones that are serve the same.
NoNewSlots(b, c) ==
  \A n \in Slots :
    \/ Alike(b.tab[n], c.tab[n])
    \/ ~c.tab[n].used /\ ~c.tab[n].enabled /\ c.tab[n].keep_running = b.tab[n].keep_running

\* brkfree takes none.
LEMMA FreeNoNew ==
  ASSUME NEW a, NEW b, Consistent(b), NoNewSlots(a, b), NEW S
  PROVE  NoNewSlots(a, brkfree(b, S))
<1> DEFINE c == brkfree(b, S)
<1>1. /\ \A n \in Slots : n \in S => /\ ~c.tab[n].used /\ ~c.tab[n].enabled
                                     /\ c.tab[n].keep_running = b.tab[n].keep_running
      /\ \A n \in Slots : n \notin S => c.tab[n] = b.tab[n]
  BY FreeSlotsOf
<1> HIDE DEF c
<1>2. NoNewSlots(a, c)  BY <1>1 DEF NoNewSlots, Alike
<1> QED  BY <1>2 DEF c

\* command_insn_hook takes none, and turns monitor_on on only where a slot of
\* the address answers; only a print-only one turns it off.
LEMMA InsnHookEffect ==
  ASSUME Consistent(brk)
  PROVE  /\ NoNewSlots(brk, command_insn_hook.brk)
         /\ command_insn_hook.monitor_on /\ ~monitor_on => Answers(brk, pc, "execute")
         /\ monitor_on /\ ~PrintsHere => command_insn_hook.monitor_on
<1>1. CASE ~Answers(brk, pc, "execute")
  BY <1>1, SameTable DEF command_insn_hook, NoNewSlots, SameSlots
<1>2. CASE Answers(brk, pc, "execute")
  <2> DEFINE n == brkfind_by_addr(brk, pc)
             hit == breakpoint_hit(brk.tab[n], cell, monitor_on)
             b == [brk EXCEPT !.tab[n] = hit.br]
  <2>1. n \in Slots  BY <1>2, FoundIsSlot DEF Answers
  <2>2. brk.tab[n] \in Breakpoint  BY <2>1 DEF Consistent, Table
  <2>3. hit.br \in Breakpoint /\ Alike(brk.tab[n], hit.br)  BY <2>2, HitKeeps
  <2>4. command_insn_hook.brk = IF hit.monitor_on /\ hit.br.temp THEN brkfree(b, {n}) ELSE b
    BY <1>2 DEF command_insn_hook
  <2>5. command_insn_hook.monitor_on = hit.monitor_on  BY <1>2 DEF command_insn_hook
  <2>6. monitor_on /\ ~PrintsHere => hit.monitor_on
    <3>1. brk.tab[n].addr = pc /\ brk.tab[n].enabled /\ "execute" \in brk.tab[n].on
      BY <1>2, FoundIsSlot DEF Answers
    <3>2. ~PrintsHere => ~brk.tab[n].keep_running  BY <2>1, <3>1 DEF PrintsHere
    <3> QED  BY <3>2 DEF breakpoint_hit
  <2>7. Consistent(b)  BY <2>1, HitConsistent
  <2> HIDE DEF n, hit
  <2>8. SameSlots(brk, b)  BY <2>1, <2>3, ReplaceSame
  <2> HIDE DEF b
  <2>9. NoNewSlots(brk, b)  BY <2>8 DEF NoNewSlots, SameSlots
  <2>10. NoNewSlots(brk, brkfree(b, {n}))  BY <2>7, <2>9, FreeNoNew
  <2> QED  BY <1>2, <2>1, <2>4, <2>5, <2>6, <2>9, <2>10
<1> QED  BY <1>1, <1>2

\* What the user asked of every slot is recorded.
AskedType == asked \in [Slots -> SUBSET Events]

\* The entry that a command takes: what it is set for is recorded, and it is
\* temporary only if the command lets the program run.
Takes(n, e) ==
  /\ n \in Slots /\ e \in Breakpoint
  /\ brk'.tab[n] = e
  /\ "execute" \in e.on => "execute" \in asked'[n]
  /\ phase = "prompt" /\ phase' \in {"prompt", "exec"}
  /\ e.temp => phase' = "exec"
  /\ \A m \in Slots \ {n} : Alike(brk.tab[m], brk'.tab[m]) /\ asked'[m] = asked[m]

\* SetSlot fills in one slot of a table that has the same slots as brk.
LEMMA SetSlotEffect ==
  ASSUME AskedType, NEW b, Consistent(b), SameSlots(brk, b), ~Full(b),
         NEW e \in Breakpoint, NEW events \in SUBSET Events, SetSlot(b, e, events)
  PROVE  /\ FirstFree(b) \in Slots /\ brk'.tab[FirstFree(b)] = e
         /\ asked'[FirstFree(b)] = events /\ AskedType'
         /\ \A m \in Slots \ {FirstFree(b)} :
              Alike(brk.tab[m], brk'.tab[m]) /\ asked'[m] = asked[m]
<1> DEFINE n == FirstFree(b)
           d == brkalloc(b)
<1>1. n \in Slots  BY FirstFreeIsFree
<1>2. Consistent(d) /\ \A m \in Slots \ {n} : d.tab[m] = b.tab[m]  BY AllocConsistent
<1>3. brk' = [d EXCEPT !.tab[n] = e] /\ asked' = [asked EXCEPT ![n] = events]  BY DEF SetSlot
<1> HIDE DEF n, d
<1>4. brk'.tab[n] = e /\ \A m \in Slots \ {n} : brk'.tab[m] = b.tab[m]
  BY <1>1, <1>2, <1>3 DEF Consistent, Table
<1>5. asked'[n] = events /\ AskedType' /\ \A m \in Slots \ {n} : asked'[m] = asked[m]
  BY <1>1, <1>3 DEF AskedType
<1> QED  BY <1>1, <1>4, <1>5 DEF n, SameSlots

\* "break" asks for a stop on execution.
LEMMA BreakTakes ==
  ASSUME IInv, AskedType, cmd_break
  PROVE  AskedType' /\ \E n, e : Takes(n, e)
<1>1. PICK a \in Addrs, c \in Conds, i \in Ignores :
        SetSlot(brk, [Fresh(brk) EXCEPT !.addr = a, !.on = @ \cup {"execute"}, !.condition = c,
                              !.ignore_count = i], {"execute"})
  BY DEF cmd_break
<1>2. ~Full(brk) /\ phase = "prompt" /\ phase' = phase  BY DEF cmd_break
<1>3. /\ Fresh(brk) \in Breakpoint /\ ~Fresh(brk).temp /\ ~Fresh(brk).keep_running
  BY <1>2, FreshEntry DEF IInv
<1> DEFINE e == [Fresh(brk) EXCEPT !.addr = a, !.on = @ \cup {"execute"}, !.condition = c,
                              !.ignore_count = i]
<1>4. e \in Breakpoint /\ ~e.temp /\ ~e.keep_running
  BY <1>3, UserAssumption DEF Breakpoint, Events, Conditions
<1> HIDE DEF e
<1>5. SetSlot(brk, e, {"execute"})  BY <1>1 DEF e
<1>6. {"execute"} \in SUBSET Events  BY DEF Events
<1>7. /\ FirstFree(brk) \in Slots /\ brk'.tab[FirstFree(brk)] = e
      /\ asked'[FirstFree(brk)] = {"execute"} /\ AskedType'
      /\ \A m \in Slots \ {FirstFree(brk)} :
           Alike(brk.tab[m], brk'.tab[m]) /\ asked'[m] = asked[m]
  BY <1>2, <1>4, <1>5, <1>6, SameTable, SetSlotEffect DEF IInv
<1>8. Takes(FirstFree(brk), e)  BY <1>2, <1>4, <1>7 DEF Takes
<1> QED  BY <1>7, <1>8

\* A watchpoint that still stops on execution counts as asked for both.
LEMMA WatchTakes ==
  ASSUME IInv, AskedType, cmd_watch1
  PROVE  AskedType' /\ \E n, e : Takes(n, e)
<1>1. PICK a \in Addrs, w \in Watches, p \in PrintOnly, c \in Conds, m \in Masks :
        LET events == (Fresh(brk).on \cap {"execute"}) \cup w
        IN  SetSlot(brk, [Fresh(brk) EXCEPT !.addr = a, !.on = events,
                              !.keep_running = p, !.condition = c,
                              !.write_mask = IF m = 0 THEN @ ELSE m], events)
  BY DEF cmd_watch1
<1>2. ~Full(brk) /\ phase = "prompt" /\ phase' = phase  BY DEF cmd_watch1
<1>3. Fresh(brk) \in Breakpoint /\ ~Fresh(brk).temp  BY <1>2, FreshEntry DEF IInv
<1> DEFINE events == (Fresh(brk).on \cap {"execute"}) \cup w
           e == [Fresh(brk) EXCEPT !.addr = a, !.on = events,
                              !.keep_running = p, !.condition = c,
                              !.write_mask = IF m = 0 THEN @ ELSE m]
<1>4. /\ e \in Breakpoint /\ ~e.temp /\ e.keep_running = p /\ e.on = events
      /\ events \in SUBSET Events
  BY <1>3, UserAssumption DEF Breakpoint, Events, Conditions
<1>5. SetSlot(brk, e, events)  BY <1>1
<1> HIDE DEF e, events
<1>6. /\ FirstFree(brk) \in Slots /\ brk'.tab[FirstFree(brk)] = e
      /\ asked'[FirstFree(brk)] = events /\ AskedType'
      /\ \A k \in Slots \ {FirstFree(brk)} :
           Alike(brk.tab[k], brk'.tab[k]) /\ asked'[k] = asked[k]
  BY <1>2, <1>4, <1>5, SameTable, SetSlotEffect DEF IInv
<1>7. Takes(FirstFree(brk), e)  BY <1>2, <1>4, <1>6 DEF Takes
<1> QED  BY <1>6, <1>7

\* A temporary breakpoint is taken on the way out of the prompt.
LEMMA TempTakes ==
  ASSUME AskedType, NEW b, Consistent(b), SameSlots(brk, b), ~Full(b), NEW a \in Addrs,
         SetSlot(b, TempAt(Fresh(b), a), {"execute"}), phase = "prompt", phase' = "exec"
  PROVE  AskedType' /\ \E n, e : Takes(n, e)
<1> DEFINE e == TempAt(Fresh(b), a)
<1>1. Fresh(b) \in Breakpoint /\ ~Fresh(b).keep_running  BY AllocConsistent DEF Fresh
<1>2. e \in Breakpoint /\ ~e.keep_running  BY <1>1 DEF TempAt, Breakpoint, Events
<1> HIDE DEF e
<1>3. SetSlot(b, e, {"execute"})  BY DEF e
<1>4. {"execute"} \in SUBSET Events  BY DEF Events
<1>5. /\ FirstFree(b) \in Slots /\ brk'.tab[FirstFree(b)] = e
      /\ asked'[FirstFree(b)] = {"execute"} /\ AskedType'
      /\ \A m \in Slots \ {FirstFree(b)} :
           Alike(brk.tab[m], brk'.tab[m]) /\ asked'[m] = asked[m]
  BY <1>2, <1>3, <1>4, SetSlotEffect
<1>6. Takes(FirstFree(b), e)  BY <1>2, <1>5 DEF Takes
<1> QED  BY <1>5, <1>6

\* "next".
LEMMA NextTakes ==
  ASSUME IInv, AskedType, cmd_next
  PROVE  AskedType' /\ \E n, e : Takes(n, e)
<1>1. PICK a \in Addrs : SetSlot(brk, TempAt(Fresh(brk), a), {"execute"})  BY DEF cmd_next
<1>2. ~Full(brk) /\ phase = "prompt" /\ phase' = "exec"  BY DEF cmd_next, Leave
<1> QED  BY <1>1, <1>2, SameTable, TempTakes DEF IInv

\* "measure", whose pushes go through the write hook first.
LEMMA MeasureTakes ==
  ASSUME IInv, AskedType, cmd_measure
  PROVE  AskedType' /\ \E n, e : Takes(n, e)
<1>1. ~Full(brk) /\ phase = "prompt" /\ phase' = "exec"  BY DEF cmd_measure
<1>2. PICK low \in Addrs, high \in Addrs, v \in Values, w \in Values :
        LET first == command_write_hook(brk, monitor_on, low, v, Stored(low, v, cell))
            second == command_write_hook(first.brk, first.monitor_on, high, w, cell')
        IN  /\ v \in {0, 1} /\ w \in {0, 1}
            /\ SetSlot(second.brk, TempAt(Fresh(second.brk), pc), {"execute"})
  BY UserAssumption DEF cmd_measure
<1> DEFINE c == Stored(low, v, cell)
           first == command_write_hook(brk, monitor_on, low, v, c)
           second == command_write_hook(first.brk, first.monitor_on, high, w, cell')
           b == second.brk
<1>3. SetSlot(b, TempAt(Fresh(b), pc), {"execute"})  BY <1>2
<1> HIDE DEF c
<1>4. Consistent(first.brk) /\ FreeSlots(first.brk) = FreeSlots(brk)
  BY <1>2, WriteHookConsistent DEF IInv
<1>5. SameSlots(brk, first.brk)  BY <1>2, WriteHookSame DEF IInv
<1> HIDE DEF first
<1>6. Consistent(b) /\ FreeSlots(b) = FreeSlots(brk)  BY <1>2, <1>4, WriteHookConsistent
<1>7. SameSlots(first.brk, b)  BY <1>2, <1>4, WriteHookSame
<1> HIDE DEF b, second
<1>8. ~Full(b) /\ SameSlots(brk, b)  BY <1>1, <1>5, <1>6, <1>7, SameTransitive DEF Full
<1> QED  BY <1>1, <1>3, <1>6, <1>8, TempTakes DEF IInv

\* The top of the instruction loop frees slots, and takes back what was asked of them.
Frees ==
  /\ NoNewSlots(brk, brk')
  /\ \A n \in Slots : asked'[n] = asked[n] \/ (~brk'.tab[n].enabled /\ asked'[n] = {})
  /\ phase' = "prompt" => phase = "prompt" \/ Temps(brk') = {}

\* A fetch sets no slot; one that stops frees the temporary ones.
LEMMA FetchFrees ==
  ASSUME IInv, AskedType, Fetch
  PROVE  AskedType' /\ Frees
<1> DEFINE h == command_insn_hook.brk
<1>1. Consistent(h) /\ NoNewSlots(brk, h)  BY InsnHookConsistent, InsnHookEffect DEF IInv
<1>2. brk' = (IF phase' = "prompt" THEN brkfree_temps(h) ELSE h)  BY DEF Fetch
<1>3. asked' = [n \in Slots |-> IF brk'.tab[n].used THEN asked[n] ELSE {}]  BY DEF Fetch
<1> HIDE DEF h
<1>4. Consistent(brkfree_temps(h)) /\ NoNewSlots(brk, brkfree_temps(h))
  BY <1>1, FreeConsistent, FreeNoNew DEF brkfree_temps
<1>5. Consistent(brk') /\ NoNewSlots(brk, brk')  BY <1>1, <1>2, <1>4
<1>6. \A n \in Slots : brk'.tab[n].enabled => brk'.tab[n].used
  BY <1>5 DEF Consistent, Enabled, FreeSlots
<1>7. AskedType'  BY <1>3 DEF AskedType
<1>8. \A n \in Slots : asked'[n] = asked[n] \/ (~brk'.tab[n].enabled /\ asked'[n] = {})
  BY <1>3, <1>6
<1>9. Temps(brkfree_temps(h)) = {}
  BY <1>1, FreeSlotsOf DEF brkfree_temps, Temps
<1>10. phase' = "prompt" => Temps(brk') = {}  BY <1>2, <1>9
<1> QED  BY <1>5, <1>7, <1>8, <1>10 DEF Frees

\* "delete" frees slots at the prompt.
LEMMA DeleteFrees ==
  ASSUME IInv, AskedType, cmd_delete
  PROVE  AskedType' /\ Frees
<1>1. PICK S : brk' = brkfree(brk, S) /\ asked' = [n \in Slots |-> IF n \in S THEN {} ELSE asked[n]]
  BY DEF cmd_delete
<1>2. NoNewSlots(brk, brk)  BY SameTable DEF NoNewSlots, SameSlots
<1>3. NoNewSlots(brk, brk')  BY <1>1, <1>2, FreeNoNew DEF IInv
<1>4. \A n \in Slots : n \in S => ~brk'.tab[n].enabled  BY <1>1, FreeSlotsOf DEF IInv
<1>5. AskedType'  BY <1>1 DEF AskedType
<1>6. \A n \in Slots : asked'[n] = asked[n] \/ (~brk'.tab[n].enabled /\ asked'[n] = {})
  BY <1>1, <1>4
<1>7. phase = "prompt"  BY DEF cmd_delete
<1> QED  BY <1>3, <1>5, <1>6, <1>7 DEF Frees

\* The program's accesses and the actions that do not touch the table.
LEMMA OtherFrees ==
  ASSUME IInv, AskedType,
         \/ Read \/ Write \/ cmd_set \/ NoSlot \/ cmd_continue \/ cmd_step \/ cmd_runfor
         \/ EndOfInput \/ cmd_quit \/ Finish \/ command_periodic \/ monitor_signal \/ Ended
         \/ UNCHANGED vars
  PROVE  AskedType' /\ Frees
<1>1. asked' = asked /\ (phase' = "prompt" => phase = "prompt")
  BY DEF Read, Write, Access, cmd_set, NoSlot, cmd_continue, cmd_step, cmd_runfor, Leave, EndOfInput,
         cmd_quit, Finish, command_periodic, monitor_signal, Ended, vars, history
<1>2. CASE Read
  <2>1. PICK a \in Addrs : brk' = command_read_hook(brk, monitor_on, a, cell).brk
    BY <1>2 DEF Read, Hooked
  <2>2. SameSlots(brk, brk')  BY <2>1, ReadHookSame DEF IInv
  <2> QED  BY <1>1, <2>2 DEF Frees, AskedType, NoNewSlots, SameSlots
<1>3. CASE Write
  <2>1. PICK a \in Addrs, val \in Values :
          /\ val \in {0, 1}
          /\ brk' = command_write_hook(brk, monitor_on, a, val, cell').brk
    BY <1>3, UserAssumption DEF Write, Hooked
  <2>2. SameSlots(brk, brk')  BY <2>1, WriteHookSame DEF IInv
  <2> QED  BY <1>1, <2>2 DEF Frees, AskedType, NoNewSlots, SameSlots
<1>4. CASE ~(Read \/ Write)
  <2>1. brk' = brk
    BY <1>4 DEF cmd_set, NoSlot, cmd_continue, cmd_step, cmd_runfor, EndOfInput, cmd_quit, Finish,
            command_periodic, monitor_signal, Ended, vars
  <2>2. SameSlots(brk, brk')  BY <2>1, SameTable
  <2> QED  BY <1>1, <2>2 DEF Frees, AskedType, NoNewSlots, SameSlots
<1> QED  BY <1>2, <1>3, <1>4

\* Every step either takes one slot at the prompt or takes none.
LEMMA TableSteps ==
  ASSUME IInv, AskedType, [Next]_vars
  PROVE  AskedType' /\ (Frees \/ \E n, e : Takes(n, e))
BY FetchFrees, BreakTakes, WatchTakes, DeleteFrees, NextTakes, MeasureTakes, OtherFrees
   DEF Next, Prompt, Instruction

-----------------------------------------------------------------------------
(***************************************************************************)
(* Temporary breakpoints.                                                  *)
(***************************************************************************)
TempInv ==
  /\ phase = "prompt" => Temps(brk) = {}
  /\ \A m, n \in Temps(brk) : m = n

\* A step that takes no slot makes no temporary breakpoint, and one that takes
\* a slot starts at the prompt, where there is none.
LEMMA NextTempInv ==
  ASSUME IInv, AskedType, TempInv, [Next]_vars
  PROVE  TempInv'
<1>1. CASE Frees
  <2>1. Temps(brk') \subseteq Temps(brk)  BY <1>1 DEF Frees, NoNewSlots, Alike, Temps
  <2>2. phase' = "prompt" => Temps(brk') = {}  BY <1>1, <2>1 DEF Frees, TempInv
  <2>3. \A m, n \in Temps(brk') : m = n  BY <2>1 DEF TempInv
  <2> QED  BY <2>2, <2>3 DEF TempInv, Temps
<1>2. CASE \E n, e : Takes(n, e)
  <2>1. PICK n, e : Takes(n, e)  BY <1>2
  <2>2. Temps(brk) = {}  BY <2>1 DEF Takes, TempInv
  <2>3. Temps(brk') \subseteq {n}  BY <2>1, <2>2 DEF Takes, Alike, Temps
  <2>4. phase' = "prompt" => n \notin Temps(brk')  BY <2>1 DEF Takes, Temps
  <2>5. phase' = "prompt" => Temps(brk') = {}  BY <2>3, <2>4
  <2>6. \A m, k \in Temps(brk') : m = k  BY <2>3
  <2> QED  BY <2>5, <2>6 DEF TempInv, Temps
<1> QED  BY <1>1, <1>2, TableSteps

\* The invariants at the start, when no slot is in use.
LEMMA InitSlots ==
  ASSUME Init
  PROVE  /\ AskedType /\ TempInv
         /\ \A n \in Slots : ~brk.tab[n].enabled
<1>1. \A n \in Slots : ~brk.tab[n].used /\ ~brk.tab[n].enabled
  BY DEF Init, NoBreaks
<1>2. AskedType  BY DEF Init, AskedType
<1>3. TempInv  BY <1>1 DEF TempInv, Temps
<1> QED  BY <1>1, <1>2, <1>3

\* At most one element, counted.
LEMMA AtMostOneTemp == TempInv => Cardinality(Temps(brk)) <= 1
<1>1. CASE Temps(brk) = {}  BY <1>1, FS_EmptySet
<1>2. CASE Temps(brk) # {}
  <2>1. PICK n : n \in Temps(brk)  BY <1>2
  <2>2. TempInv => Temps(brk) = {n}  BY <2>1 DEF TempInv
  <2> QED  BY <2>2, FS_Singleton
<1> QED  BY <1>1, <1>2

\* The prompt never shows a temporary breakpoint and there is never more than
\* one, for a table of any size and whatever stops the program first: "next"
\* and "measure" take theirs on the way out of the prompt, the hooks of the
\* program take none, and command_loop frees all of them on the way in.
THEOREM TempsNeverShown == Spec => []NoTempAtPrompt
<1> DEFINE Inv == IInv /\ AskedType /\ TempInv
<1>1. Init => Inv  BY InitIInv, InitSlots
<1>2. Inv /\ [Next]_vars => Inv'  BY NextIInv, TableSteps, NextTempInv
<1>3. Inv => NoTempAtPrompt  BY AtMostOneTemp DEF TempInv, NoTempAtPrompt
<1> QED  BY <1>1, <1>2, <1>3, PTL DEF Spec

-----------------------------------------------------------------------------
(***************************************************************************)
(* Breakpoints on execution.                                               *)
(***************************************************************************)
\* A slot that would stop the program on execution was set for it.
AskedInv ==
  \A n \in Slots : brk.tab[n].enabled /\ "execute" \in brk.tab[n].on => "execute" \in asked[n]

\* Every step keeps it: only a command sets what a slot stops on.
LEMMA NextAskedInv ==
  ASSUME IInv, AskedType, AskedInv, [Next]_vars
  PROVE  AskedInv'
<1>1. CASE Frees  BY <1>1 DEF Frees, NoNewSlots, Alike, AskedInv
<1>2. CASE \E n, e : Takes(n, e)
  <2>1. PICK n, e : Takes(n, e)  BY <1>2
  <2> QED  BY <2>1 DEF Takes, Alike, AskedInv
<1> QED  BY <1>1, <1>2, TableSteps

\* The top of the instruction loop is the only way from "fetch" to the prompt.
LEMMA OnlyFetchStops ==
  ASSUME [Next]_vars, phase = "fetch", phase' = "prompt"
  PROVE  Fetch
BY DEF Next, Prompt, Instruction, Read, Write, Access, cmd_break, cmd_watch1, cmd_delete, cmd_set, NoSlot,
       cmd_continue, cmd_step, cmd_runfor, cmd_next, cmd_measure, Leave, EndOfInput, cmd_quit,
       Finish, command_periodic, monitor_signal, Ended, vars

\* A stop that only the table explains is at an address where a slot answers.
LEMMA StopIsAsked ==
  ASSUME IInv, AskedInv, [Next]_vars, StoppedByTable
  PROVE  \E n \in Slots : brk.tab[n].addr = pc /\ "execute" \in asked[n]
<1>1. Fetch /\ ~monitor_on /\ auto_break = 0 /\ phase' = "prompt"
  BY OnlyFetchStops DEF StoppedByTable
<1>2. command_insn_hook.monitor_on \/ check_break(auto_break)  BY <1>1 DEF Fetch
<1>3. ~check_break(auto_break)  BY <1>1 DEF check_break
<1>4. Answers(brk, pc, "execute")  BY <1>1, <1>2, <1>3, InsnHookEffect DEF IInv
<1> DEFINE n == brkfind_by_addr(brk, pc)
<1>5. n \in Slots /\ brk.tab[n].addr = pc  BY <1>4, FoundIsSlot DEF Answers
<1>6. brk.tab[n].enabled /\ "execute" \in brk.tab[n].on  BY <1>4 DEF Answers
<1> HIDE DEF n
<1> QED  BY <1>5, <1>6 DEF AskedInv

\* A program that nothing else stops is stopped only where the user, "next" or
\* "measure" has asked for it and has not taken it back, although brkfree leaves
\* the old address and flags in the slot: a slot that answers is enabled, and
\* what is enabled was asked for.
THEOREM StopsAreAsked == Spec => ExecuteStopsAsked
<1> DEFINE Inv == IInv /\ AskedType /\ AskedInv
           Asked == StoppedByTable => \E n \in Slots : brk.tab[n].addr = pc /\ "execute" \in asked[n]
<1>1. Init => Inv  BY InitIInv, InitSlots DEF AskedInv
<1>2. Inv /\ [Next]_vars => Inv'  BY NextIInv, TableSteps, NextAskedInv
<1>3. Inv /\ [Next]_vars => [Asked]_vars  BY StopIsAsked
<1> QED  BY <1>1, <1>2, <1>3, PTL DEF Spec, ExecuteStopsAsked

-----------------------------------------------------------------------------
(***************************************************************************)
(* Stepping.                                                               *)
(***************************************************************************)
\* After "step", the instruction is still to run or has run, and until the
\* prompt comes back auto_break_insn_count is one.
StepInv ==
  left = "step" => /\ ran = IF phase = "exec" THEN 0 ELSE 1
                   /\ phase \in {"exec", "fetch"} => auto_break = 1

\* Every step keeps it: nothing but an instruction counts down to the stop.
LEMMA NextStepInv ==
  ASSUME StepInv, [Next]_vars
  PROVE  StepInv'
<1>1. CASE Fetch
  <2>1. left' = left /\ ran' = ran /\ phase = "fetch"  BY <1>1 DEF Fetch
  <2>2. auto_break = 1 => phase' = "prompt"  BY <1>1 DEF Fetch, check_break
  <2> QED  BY <2>1, <2>2 DEF StepInv
<1>2. CASE Prompt
  BY <1>2 DEF Prompt, StepInv, cmd_break, cmd_watch1, cmd_delete, cmd_set, NoSlot, cmd_continue,
          cmd_step, cmd_runfor, cmd_next, cmd_measure, Leave, EndOfInput, cmd_quit, history
<1>3. CASE Instruction
  BY <1>3 DEF Instruction, StepInv, Read, Write, Access, Finish
<1>4. CASE command_periodic \/ monitor_signal \/ Ended \/ UNCHANGED vars
  BY <1>4 DEF StepInv, command_periodic, monitor_signal, Ended, vars, history
<1> QED  BY <1>1, <1>2, <1>3, <1>4 DEF Next

\* "step" runs exactly one instruction, whatever breakpoints, watchpoints and
\* signals come in between.
THEOREM StepRunsOne == Spec => []StepsOnce
<1>1. Init => StepInv  BY DEF Init, StepInv
<1>2. StepInv /\ [Next]_vars => StepInv'  BY NextStepInv
<1>3. StepInv => StepsOnce  BY DEF StepInv, StepsOnce
<1> QED  BY <1>1, <1>2, <1>3, PTL DEF Spec

-----------------------------------------------------------------------------
(***************************************************************************)
(* Watchpoints.                                                            *)
(***************************************************************************)
\* A stop that is due is pending.
DueInv == due => phase \in {"exec", "fetch"} /\ monitor_on

\* breakpoint_hit: monitor_on is turned on by a hit that asks for a stop, and off
\* by a print-only one alone.
LEMMA HitStops ==
  ASSUME NEW br, NEW c, NEW on, br.keep_running \in BOOLEAN, br.ignore_count \in Nat,
         Breaks(br, c) \/ (on /\ ~Prints(br, c))
  PROVE  breakpoint_hit(br, c, on).monitor_on
<1>1. CASE Holds(br, c) /\ br.ignore_count = 0
  <2>1. (~br.keep_running) = TRUE  BY <1>1 DEF Breaks, Prints
  <2>2. breakpoint_hit(br, c, on) = [br |-> AfterEval(br), monitor_on |-> ~br.keep_running]
    BY <1>1 DEF breakpoint_hit
  <2>3. breakpoint_hit(br, c, on) = [br |-> AfterEval(br), monitor_on |-> TRUE]
    BY <2>1, <2>2, Zenon
  <2> QED  BY <2>3
<1>2. CASE ~(Holds(br, c) /\ br.ignore_count = 0)
  BY <1>2 DEF Breaks, breakpoint_hit
<1> QED  BY <1>1, <1>2

\* The hooks of the accesses keep a stop, unless what they hit is print-only.
LEMMA HooksKeepStop ==
  ASSUME NEW b, Consistent(b), NEW on, NEW a, NEW val, NEW c
  PROVE  /\ LET hook == command_read_hook(b, on, a, c)
            IN  hook.asks \/ (on /\ ~hook.prints) => hook.monitor_on
         /\ LET hook == command_write_hook(b, on, a, val, c)
            IN  hook.asks \/ (on /\ ~hook.prints) => hook.monitor_on
<1> DEFINE n == brkfind_by_addr(b, a)
           br == b.tab[n]
           hit == breakpoint_hit(br, c, on)
<1>1. Matches(b, a) # {} =>
        (Breaks(br, c) \/ (on /\ ~Prints(br, c)) => hit.monitor_on)
  <2> SUFFICES ASSUME Matches(b, a) # {} PROVE Breaks(br, c) \/ (on /\ ~Prints(br, c)) => hit.monitor_on
    OBVIOUS
  <2>1. n \in Slots  BY FoundIsSlot
  <2>2. br.keep_running \in BOOLEAN /\ br.ignore_count \in Nat
    BY <2>1 DEF Consistent, Table, Breakpoint
  <2> HIDE DEF br
  <2> QED  BY <2>2, HitStops
<1>2. LET hook == command_read_hook(b, on, a, c)
      IN  hook.asks \/ (on /\ ~hook.prints) => hook.monitor_on
  <2>1. CASE ~Answers(b, a, "read")  BY <2>1 DEF command_read_hook, NoHit
  <2>2. CASE Answers(b, a, "read")
    <3>1. Matches(b, a) # {}  BY <2>2 DEF Answers
    <3> QED  BY <1>1, <2>2, <3>1 DEF command_read_hook
  <2> QED  BY <2>1, <2>2
<1>3. LET hook == command_write_hook(b, on, a, val, c)
      IN  hook.asks \/ (on /\ ~hook.prints) => hook.monitor_on
  <2>1. CASE ~Answers(b, a, "write") \/ (br.write_mask # 0 /\ br.last_write = val)
    BY <2>1 DEF command_write_hook, NoHit
  <2>2. CASE ~(~Answers(b, a, "write") \/ (br.write_mask # 0 /\ br.last_write = val))
    <3>1. Matches(b, a) # {}  BY <2>2 DEF Answers
    <3>2. /\ command_write_hook(b, on, a, val, c).monitor_on = hit.monitor_on
          /\ command_write_hook(b, on, a, val, c).asks = Breaks(br, c)
          /\ command_write_hook(b, on, a, val, c).prints = Prints(br, c)
      BY <2>2 DEF command_write_hook
    <3> QED  BY <1>1, <3>1, <3>2
  <2> QED  BY <2>1, <2>2
<1> QED  BY <1>2, <1>3

\* Every step keeps it: what is due is left only for the prompt.
LEMMA NextDueInv ==
  ASSUME IInv, DueInv, [Next]_vars
  PROVE  DueInv'
<1> SUFFICES ASSUME due' PROVE phase' \in {"exec", "fetch"} /\ monitor_on'
  BY DEF DueInv
<1>1. CASE Fetch  BY <1>1 DEF Fetch
<1>2. CASE Prompt
  <2>1. ~due  BY <1>2 DEF DueInv, Prompt, cmd_break, cmd_watch1, cmd_delete, cmd_set, NoSlot,
              cmd_continue, cmd_step, cmd_runfor, cmd_next, cmd_measure, Leave, EndOfInput, cmd_quit
  <2>2. due' = due
    BY <1>2 DEF Prompt, cmd_break, cmd_watch1, cmd_delete, cmd_set, NoSlot, cmd_continue, cmd_step,
            cmd_runfor, cmd_next, cmd_measure, Leave, EndOfInput, cmd_quit, history
  <2> QED  BY <2>1, <2>2
<1>3. CASE Read
  <2>1. PICK a \in Addrs : Hooked(command_read_hook(brk, monitor_on, a, cell))  BY <1>3 DEF Read
  <2>2. phase' = "exec"  BY <1>3 DEF Read, Access
  <2> QED  BY <2>1, <2>2, HooksKeepStop DEF DueInv, Hooked, IInv
<1>4. CASE Write
  <2>1. PICK a \in Addrs, val \in Values :
          Hooked(command_write_hook(brk, monitor_on, a, val, cell'))
    BY <1>4 DEF Write
  <2>2. phase' = "exec"  BY <1>4 DEF Write, Access
  <2> QED  BY <2>1, <2>2, HooksKeepStop DEF DueInv, Hooked, IInv
<1>5. CASE Finish \/ command_periodic \/ monitor_signal \/ Ended \/ UNCHANGED vars
  BY <1>5 DEF DueInv, Finish, command_periodic, monitor_signal, Ended, vars, history
<1> QED  BY <1>1, <1>2, <1>3, <1>4, <1>5 DEF Next, Instruction

\* A stop that is due is made before the next instruction.
LEMMA DueStops ==
  ASSUME IInv, DueInv, [Next]_vars, phase = "fetch", due, ~PrintsHere
  PROVE  phase' # "exec"
<1>1. CASE Fetch
  <2>1. command_insn_hook.monitor_on  BY InsnHookEffect DEF IInv, DueInv
  <2> QED  BY <1>1, <2>1 DEF Fetch
<1>2. CASE ~Fetch
  BY <1>2 DEF Next, Prompt, Instruction, Read, Write, Access, cmd_break, cmd_watch1, cmd_delete, cmd_set,
       NoSlot, cmd_continue, cmd_step, cmd_runfor, cmd_next, cmd_measure, Leave, EndOfInput,
       cmd_quit, Finish, command_periodic, monitor_signal, Ended, vars
<1> QED  BY <1>1, <1>2

\* A watchpoint that asked for a stop gets it before the next instruction, whatever
\* else the instruction accesses and whatever breakpoint is there, unless a
\* print-only watchpoint is hit in between: breakpoint_hit assigns monitor_on, and
\* print-only watchpoints are the only ones to turn it off.
THEOREM WatchpointsStop == Spec => WatchHonoured
<1> DEFINE Inv == IInv /\ DueInv
           Honoured == phase = "fetch" /\ due /\ ~PrintsHere => phase' # "exec"
<1>1. Init => Inv  BY InitIInv DEF DueInv, Init
<1>2. Inv /\ [Next]_vars => Inv'  BY NextIInv, NextDueInv
<1>3. Inv /\ [Next]_vars => [Honoured]_vars  BY DueStops
<1> QED  BY <1>1, <1>2, <1>3, PTL DEF Spec, WatchHonoured
=============================================================================
