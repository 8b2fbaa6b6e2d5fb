------------------------------ MODULE Debugger ------------------------------
(***************************************************************************)
(* The debugger of command.c and monitor.c around the instruction loop of  *)
(* cpu_execute: breakpoints and watchpoints stop the program, the prompt   *)
(* takes commands, and a command lets the program run again.  The program  *)
(* is arbitrary: it goes to any address and reads and writes any.          *)
(***************************************************************************)
EXTENDS BreakOps

CONSTANTS
  Cell,       \* the address whose value conditions test
  Values,     \* the values of a byte that conditions and masks tell apart
  Ignores,    \* ignore counts the user gives
  Conds,      \* conditions the user gives: a subset of {"none", "whole"}
  Masks,      \* write masks the user gives
  PrintOnly,  \* whether watchpoints are print-only
  Watches,    \* the events of watchpoints: of wa, rwa and awa
  MaxAccess,  \* bound on the memory accesses of an instruction
  MaxTime     \* bound on the time given to runfor, in turns of command_periodic

ASSUME UserAssumption ==
  /\ Values \subseteq {0, 1} /\ Ignores \subseteq Nat
  /\ Conds \subseteq {"none", "whole"} /\ Masks \subseteq {0, 1}
  /\ PrintOnly \subseteq BOOLEAN /\ Watches \subseteq SUBSET {"read", "write"}
  /\ Cell \in Addrs /\ MaxAccess \in Nat /\ MaxTime \in Nat

VARIABLES
  brk,         \* breaktab and active_break_count
  monitor_on,  \* a stop is due at the next instruction
  auto_break,  \* auto_break_insn_count
  stop_after,  \* stop_after_ms, in turns of command_periodic
  phase,       \* where the instruction loop is
  pc, cell,    \* the program's counter, and the value at Cell
  accesses,    \* memory accesses of the current instruction
  asked,       \* history: the events each slot was set for
  left,        \* history: the command that last let the program run
  ran,         \* history: instructions completed since, 2 standing for more
  due          \* history: a watchpoint of this instruction asked for a stop, and
               \* no print-only watchpoint was hit after it

history == <<asked, left, ran, due>>
vars == <<brk, monitor_on, auto_break, stop_after, phase, pc, cell, accesses,
          asked, left, ran, due>>

Init ==
  /\ brk = NoBreaks /\ asked = [n \in Slots |-> {}]
  /\ monitor_on \in BOOLEAN /\ auto_break = 0 /\ stop_after = 0
  /\ phase = "fetch" /\ pc \in Addrs /\ accesses = 0
  /\ cell = 0
  /\ left = "start" /\ ran = 0 /\ due = FALSE

(***************************************************************************)
(* The top of the instruction loop: command_insn_hook, check_break and     *)
(* monitor6809.  On the way to the prompt command_loop frees the temporary *)
(* breakpoints.                                                            *)
(***************************************************************************)
\* Mutant: the count is tested before it is decremented.
check_break_post(count) == count > 0 /\ count = 0

check_break(count) == count > 0 /\ count - 1 = 0

command_insn_hook ==
  IF ~Answers(brk, pc, "execute") THEN [brk |-> brk, monitor_on |-> monitor_on]
  ELSE LET n == brkfind_by_addr(brk, pc)
           hit == breakpoint_hit(brk.tab[n], cell, monitor_on)
           b == [brk EXCEPT !.tab[n] = hit.br]
       IN  [brk |-> IF hit.monitor_on /\ hit.br.temp THEN brkfree(b, {n}) ELSE b,
            monitor_on |-> hit.monitor_on]

Fetch ==
  LET hook == command_insn_hook
      stop == hook.monitor_on \/ check_break(auto_break)
  IN  /\ phase = "fetch"
      /\ auto_break' = IF auto_break > 0 THEN auto_break - 1 ELSE 0
      /\ monitor_on' = stop
      /\ brk' = IF stop THEN brkfree_temps(hook.brk) ELSE hook.brk
      /\ phase' = IF stop THEN "prompt" ELSE "exec"
      /\ asked' = [n \in Slots |-> IF brk'.tab[n].used THEN asked[n] ELSE {}]
      /\ due' = FALSE
      /\ UNCHANGED <<stop_after, pc, cell, accesses, left, ran>>

(***************************************************************************)
(* command_read_hook and command_write_hook.  The write hook is called     *)
(* after the device has been written.  What follows its early returns only *)
(* prints, and keeps a copy of the program's thread, which only a threaded *)
(* breakpoint, that no command makes, would use.                           *)
(***************************************************************************)
Stored(a, val, c) == IF a = Cell THEN val ELSE c

NoHit(b, on) == [brk |-> b, monitor_on |-> on, asks |-> FALSE, prints |-> FALSE]

command_read_hook(b, on, a, c) ==
  IF ~Answers(b, a, "read") THEN NoHit(b, on)
  ELSE LET n == brkfind_by_addr(b, a)
           hit == breakpoint_hit(b.tab[n], c, on)
       IN  [brk |-> [b EXCEPT !.tab[n] = hit.br], monitor_on |-> hit.monitor_on,
            asks |-> Breaks(b.tab[n], c), prints |-> Prints(b.tab[n], c)]

command_write_hook(b, on, a, val, c) ==
  LET n == brkfind_by_addr(b, a)
      br == b.tab[n]
      hit == breakpoint_hit(br, c, on)
      written == IF br.write_mask # 0 THEN val ELSE br.last_write
  IN  IF ~Answers(b, a, "write")
           \/ (br.write_mask # 0 /\ br.last_write = val)
        THEN NoHit(b, on)
      ELSE [brk |-> [b EXCEPT !.tab[n] = [hit.br EXCEPT !.last_write = written]],
            monitor_on |-> hit.monitor_on,
            asks |-> Breaks(br, c), prints |-> Prints(br, c)]

(***************************************************************************)
(* The prompt.                                                             *)
(***************************************************************************)
\* The entry brkalloc hands out, its use for a breakpoint set for some events,
\* and as the temporary breakpoint of "next" and "measure".
Fresh(b) == brkalloc(b).tab[FirstFree(b)]

SetSlot(b, entry, events) ==
  /\ brk' = [brkalloc(b) EXCEPT !.tab[FirstFree(b)] = entry]
  /\ asked' = [asked EXCEPT ![FirstFree(b)] = events]

TempAt(entry, a) == [entry EXCEPT !.addr = a, !.on = @ \cup {"execute"}, !.temp = TRUE]

\* brkalloc returns NULL, and the command writes through it.
NoSlot ==
  /\ phase = "prompt" /\ Full(brk) /\ phase' = "crash"
  /\ UNCHANGED <<brk, monitor_on, auto_break, stop_after, pc, cell, accesses>>
  /\ UNCHANGED history

cmd_break ==
  /\ phase = "prompt" /\ ~Full(brk)
  /\ \E a \in Addrs, c \in Conds, i \in Ignores :
       /\ c = "none" \/ i = 0
       /\ SetSlot(brk, [Fresh(brk) EXCEPT !.addr = a, !.on = @ \cup {"execute"},
                                          !.condition = c, !.ignore_count = i], {"execute"})
  /\ UNCHANGED <<monitor_on, auto_break, stop_after, phase, pc, cell, accesses>>
  /\ UNCHANGED <<left, ran, due>>

\* A slot that once was a breakpoint still stops the program on execution.
cmd_watch1 ==
  /\ phase = "prompt" /\ ~Full(brk)
  /\ \E a \in Addrs, w \in Watches, p \in PrintOnly, c \in Conds, m \in Masks :
       LET events == (Fresh(brk).on \cap {"execute"}) \cup w
       IN  SetSlot(brk, [Fresh(brk) EXCEPT !.addr = a, !.on = events,
                                           !.keep_running = p, !.condition = c,
                                           !.write_mask = IF m = 0 THEN @ ELSE m], events)
  /\ UNCHANGED <<monitor_on, auto_break, stop_after, phase, pc, cell, accesses>>
  /\ UNCHANGED <<left, ran, due>>

\* One slot if it is in use, or every slot.
cmd_delete ==
  /\ phase = "prompt"
  /\ \E S \in {{n} : n \in Slots \ FreeSlots(brk)} \cup {Slots} :
       /\ brk' = brkfree(brk, S)
       /\ asked' = [n \in Slots |-> IF n \in S THEN {} ELSE asked[n]]
  /\ UNCHANGED <<monitor_on, auto_break, stop_after, phase, pc, cell, accesses>>
  /\ UNCHANGED <<left, ran, due>>

\* Registers and memory set from the prompt; memory is written past the hooks.
cmd_set ==
  /\ phase = "prompt"
  /\ pc' \in Addrs /\ cell' \in Values
  /\ UNCHANGED <<brk, monitor_on, auto_break, stop_after, phase, accesses>>
  /\ UNCHANGED history

\* The commands that end command_loop; monitor6809 then clears monitor_on.
Leave(command) ==
  /\ phase = "prompt" /\ phase' = "exec"
  /\ monitor_on' = FALSE /\ left' = command /\ ran' = 0
  /\ UNCHANGED <<cell, accesses, due>>

cmd_continue == Leave("continue") /\ UNCHANGED <<brk, auto_break, stop_after, pc, asked>>

cmd_step == Leave("step") /\ auto_break' = 1 /\ UNCHANGED <<brk, stop_after, pc, asked>>

cmd_runfor ==
  /\ Leave("runfor")
  /\ stop_after' \in 1..MaxTime
  /\ UNCHANGED <<brk, auto_break, pc, asked>>

\* A temporary breakpoint at the instruction that follows, wherever it is.
cmd_next ==
  /\ Leave("next") /\ ~Full(brk)
  /\ \E a \in Addrs :
       SetSlot(brk, TempAt(Fresh(brk), a), {"execute"})
  /\ UNCHANGED <<auto_break, stop_after, pc>>

\* A function is called with a temporary breakpoint at its return address,
\* which is pushed through the write hook, low byte first.
cmd_measure ==
  /\ phase = "prompt" /\ ~Full(brk)
  /\ \E low, high \in Addrs, v, w \in Values :
       LET first == command_write_hook(brk, monitor_on, low, v, Stored(low, v, cell))
           second == command_write_hook(first.brk, first.monitor_on, high, w, cell')
       IN  /\ low # high
           /\ cell' = Stored(high, w, Stored(low, v, cell))
           /\ SetSlot(second.brk, TempAt(Fresh(second.brk), pc), {"execute"})
  /\ phase' = "exec" /\ pc' \in Addrs
  /\ monitor_on' = FALSE /\ left' = "measure" /\ ran' = 0
  /\ UNCHANGED <<auto_break, stop_after, accesses, due>>

\* The input ends: command_loop returns -1, so cpu_execute ends its slice
\* before the instruction and the main loop comes back to it.
EndOfInput ==
  /\ phase = "prompt" /\ phase' = "fetch"
  /\ monitor_on' = FALSE /\ left' = "eof" /\ ran' = 0
  /\ UNCHANGED <<brk, auto_break, stop_after, pc, cell, accesses, asked, due>>

cmd_quit ==
  /\ phase = "prompt" /\ phase' = "done"
  /\ monitor_on' = FALSE
  /\ UNCHANGED <<brk, auto_break, stop_after, pc, cell, accesses>>
  /\ UNCHANGED history

(***************************************************************************)
(* The instruction.                                                        *)
(***************************************************************************)
Access == phase = "exec" /\ accesses < MaxAccess /\ accesses' = accesses + 1

Hooked(hook) ==
  /\ brk' = hook.brk /\ monitor_on' = hook.monitor_on
  /\ due' = (hook.asks \/ (due /\ ~hook.prints))

Read ==
  /\ Access
  /\ \E a \in Addrs :
       Hooked(command_read_hook(brk, monitor_on, a, cell))
  /\ UNCHANGED <<auto_break, stop_after, phase, pc, cell, asked, left, ran>>

Write ==
  /\ Access
  /\ \E a \in Addrs, val \in Values :
       /\ cell' = Stored(a, val, cell)
       /\ Hooked(command_write_hook(brk, monitor_on, a, val, cell'))
  /\ UNCHANGED <<auto_break, stop_after, phase, pc, asked, left, ran>>

Finish ==
  /\ phase = "exec" /\ phase' = "fetch"
  /\ pc' \in Addrs /\ accesses' = 0
  /\ ran' = IF ran < 2 THEN ran + 1 ELSE ran
  /\ UNCHANGED <<brk, monitor_on, auto_break, stop_after, cell, asked, left, due>>

(***************************************************************************)
(* Between slices, and asynchronously.                                     *)
(***************************************************************************)
\* Mutant: the last turn is not noticed.
TimeIsUp_below(time) == time - 1 < 0

TimeIsUp(time) == time - 1 <= 0

command_periodic ==
  /\ phase = "fetch" /\ stop_after > 0
  /\ stop_after' = stop_after - 1
  /\ monitor_on' = (monitor_on \/ TimeIsUp(stop_after))
  /\ UNCHANGED <<brk, auto_break, phase, pc, cell, accesses>>
  /\ UNCHANGED history

\* SIGINT, at any time.
monitor_signal ==
  /\ phase \notin {"done", "crash"}
  /\ monitor_on' = TRUE
  /\ UNCHANGED <<brk, auto_break, stop_after, phase, pc, cell, accesses>>
  /\ UNCHANGED history

\* The process has ended.
Ended == phase \in {"done", "crash"} /\ UNCHANGED vars

Prompt ==
  \/ cmd_break \/ cmd_watch1 \/ cmd_delete \/ cmd_set \/ NoSlot \/ cmd_continue \/ cmd_step
  \/ cmd_runfor \/ cmd_next \/ cmd_measure \/ EndOfInput \/ cmd_quit

Instruction == Read \/ Write \/ Finish

Next ==
  \/ Fetch \/ Prompt \/ Instruction \/ command_periodic \/ monitor_signal \/ Ended

Spec == Init /\ [][Next]_vars

\* The CPU and the main loop go on; command_periodic comes round again as the
\* simulated time goes by.
Fairness == WF_vars(Fetch) /\ WF_vars(Finish) /\ SF_vars(command_periodic)

LiveSpec == Spec /\ Fairness

-----------------------------------------------------------------------------
\* The table and the state of the debugger are well typed.
TypeOK ==
  /\ brk \in [tab: [Slots -> Breakpoint], active: 0..MAX_BREAKS]
  /\ monitor_on \in BOOLEAN /\ auto_break \in {0, 1} /\ stop_after \in 0..MaxTime
  /\ phase \in {"fetch", "prompt", "exec", "done", "crash"}
  /\ pc \in Addrs /\ cell \in {0, 1} /\ accesses \in 0..MaxAccess
  /\ asked \in [Slots -> SUBSET Events] /\ ran \in 0..2 /\ due \in BOOLEAN
  /\ left \in {"start", "continue", "step", "runfor", "next", "measure", "eof"}

\* active_break_count is the number of enabled slots, and the enabled slots
\* are the ones in use, so the hooks' early return on a zero count never
\* passes over a breakpoint (brk_enable, brkalloc, brkfree and its callers).
ActiveCount ==
  /\ brk.active = Cardinality(Enabled(brk))
  /\ Enabled(brk) = Slots \ FreeSlots(brk)

\* The prompt never shows a temporary breakpoint of "next" or "measure", and
\* there is never more than one, whatever stopped the program first.
NoTempAtPrompt ==
  /\ phase = "prompt" => Temps(brk) = {}
  /\ Cardinality(Temps(brk)) <= 1

\* "step" runs one instruction, no more and no less, whatever breakpoints,
\* watchpoints and signals come in between (auto_break_insn_count).
StepsOnce == left = "step" => ran <= 1 /\ (phase = "prompt" => ran = 1)

\* Nothing but the breakpoint table stops the program at this instruction.
StoppedByTable == phase = "fetch" /\ ~monitor_on /\ auto_break = 0 /\ phase' = "prompt"

\* A program that nothing else stops is stopped before an instruction where
\* the user, "next" or "measure" has asked for it, and the request is still
\* there: a deleted breakpoint is silent.  A watchpoint in a slot that was a
\* breakpoint before counts as a request for both, since cmd_watch1 leaves
\* on_execute as it is.
ExecuteStopsAsked ==
  [][StoppedByTable => \E n \in Slots : brk.tab[n].addr = pc /\ "execute" \in asked[n]]_vars

\* "Set a breakpoint at the given address" (README): an instruction that has
\* an unconditional breakpoint is not executed without stopping.
BreakpointHonoured ==
  [][phase = "fetch" /\ phase' = "exec" =>
       ~\E n \in Slots : /\ brk.tab[n].addr = pc /\ "execute" \in asked[n]
                         /\ brk.tab[n].condition = "none" /\ brk.tab[n].ignore_count = 0]_vars

\* A print-only watchpoint is hit on execution: its slot was a breakpoint before.
PrintsHere ==
  \E n \in Slots : /\ brk.tab[n].addr = pc /\ "execute" \in brk.tab[n].on
                   /\ brk.tab[n].enabled /\ brk.tab[n].keep_running

\* "The CPU will break when the memory given by <expr> is modified" (README): a
\* watchpoint that asked for a stop gets it before the next instruction, except
\* where the code breaks the promise: breakpoint_hit assigns !keep_running to
\* monitor_on, so the hit of a print-only watchpoint later in the instruction, or
\* at the top of the next one, takes the stop back.  Nothing else does.
WatchHonoured == [][phase = "fetch" /\ due /\ ~PrintsHere => phase' # "exec"]_vars

\* "The return is the value (rvalue) of the expression" (eval): a conditional
\* breakpoint stops the program only if its condition, as entered, holds.
ConditionHolds ==
  [][StoppedByTable =>
       \E n \in Slots : brk.tab[n].addr = pc /\ (brk.tab[n].condition = "none" \/ cell = 0)]_vars

\* The stop that command_periodic asked for is about to be taken back.
StopTakenBack == phase = "fetch" /\ stop_after = 0 /\ monitor_on /\ PrintsHere

\* "Continue but break after a certain period of (simulated) time" (README): a
\* program that runs under runfor comes back to the prompt, unless a print-only
\* watchpoint takes the stop back, as in WatchHonoured.
RunForStops ==
  stop_after > 0 /\ phase \in {"fetch", "exec"} ~> phase = "prompt" \/ StopTakenBack
=============================================================================
