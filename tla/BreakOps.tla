------------------------------ MODULE BreakOps ------------------------------
(***************************************************************************)
(* The breakpoint table of command.c as operators.  b is the pair of       *)
(* breaktab and active_break_count; a freed slot keeps what was last in    *)
(* it, since brkfree only clears used and enabled and brkalloc does not    *)
(* set addr, the three on_ flags, write_mask or last_write.                *)
(***************************************************************************)
EXTENDS Integers, FiniteSets

CONSTANTS
  MAX_BREAKS, \* slots of breaktab
  Addrs       \* absolute addresses the program and the user name

ASSUME TableAssumption == MAX_BREAKS \in Nat \ {0} /\ 0 \notin Addrs

Slots == 0..(MAX_BREAKS - 1)

\* Why a slot may be looked at: the on_execute, on_read and on_write flags.
Events == {"execute", "read", "write"}

\* A condition is absent, as it was entered, or cut short by an evaluation.
Conditions == {"none", "whole", "cut"}

Breakpoint ==
  [used: BOOLEAN, enabled: BOOLEAN, addr: Addrs \cup {0}, on: SUBSET Events,
   condition: Conditions, ignore_count: Nat, keep_running: BOOLEAN, temp: BOOLEAN,
   write_mask: {0, 1}, last_write: {0, 1}]

NoBreaks ==
  [tab |-> [n \in Slots |->
              [used |-> FALSE, enabled |-> FALSE, addr |-> 0, on |-> {}, condition |-> "none",
               ignore_count |-> 0, keep_running |-> FALSE, temp |-> FALSE,
               write_mask |-> 0, last_write |-> 0]],
   active |-> 0]

brk_enable(b, n, flag) ==
  IF b.tab[n].enabled = flag THEN b
  ELSE [b EXCEPT !.tab[n].enabled = flag, !.active = IF flag THEN @ + 1 ELSE @ - 1]

FreeSlots(b) == {n \in Slots : ~b.tab[n].used}

\* brkalloc: the first free slot, which is NULL when there is none.
Full(b) == FreeSlots(b) = {}
FirstFree(b) == CHOOSE n \in FreeSlots(b) : \A m \in FreeSlots(b) : n <= m

brkalloc(b) ==
  LET n == FirstFree(b)
  IN  brk_enable([b EXCEPT !.tab[n] = [@ EXCEPT !.used = TRUE, !.condition = "none",
                                                !.keep_running = FALSE, !.ignore_count = 0,
                                                !.temp = FALSE]], n, TRUE)

Enabled(b) == {n \in Slots : b.tab[n].enabled}

\* Mutant: the slots stay enabled.
brkfree_enabled(b, S) ==
  [b EXCEPT !.tab = [n \in Slots |-> IF n \in S THEN [@[n] EXCEPT !.used = FALSE] ELSE @[n]]]

\* brkfree of each slot of S; cmd_delete also frees slots that are not enabled.
brkfree(b, S) ==
  [tab |-> [n \in Slots |->
              IF n \in S THEN [b.tab[n] EXCEPT !.used = FALSE, !.enabled = FALSE] ELSE b.tab[n]],
   active |-> b.active - Cardinality(S \cap Enabled(b))]

Temps(b) == {n \in Slots : b.tab[n].used /\ b.tab[n].temp}

\* Mutant: temporary breakpoints stay.
brkfree_temps_none(b) == b

brkfree_temps(b) == brkfree(b, Temps(b))

\* brkfind_by_addr looks at the address alone, in every slot.
Matches(b, addr) == {n \in Slots : b.tab[n].addr = addr}
brkfind_by_addr(b, addr) == CHOOSE n \in Matches(b, addr) : \A m \in Matches(b, addr) : n <= m

\* Mutant: a slot that is not enabled answers.
Answers_disabled(b, addr, event) ==
  /\ b.active # 0 /\ Matches(b, addr) # {}
  /\ event \in b.tab[brkfind_by_addr(b, addr)].on

\* The slot that answers to an event, if any: command_insn_hook,
\* command_read_hook and command_write_hook up to breakpoint_hit.
Answers(b, addr, event) ==
  /\ b.active # 0 /\ Matches(b, addr) # {}
  /\ LET br == b.tab[brkfind_by_addr(b, addr)] IN br.enabled /\ event \in br.on

(***************************************************************************)
(* breakpoint_hit.  The condition compares a program variable with zero;   *)
(* eval writes a NUL over the operator of the stored string, so the next   *)
(* evaluation sees the variable alone.                                     *)
(***************************************************************************)
eval(condition, cell) == IF condition = "whole" THEN cell = 0 ELSE cell # 0

Holds(br, cell) == br.condition = "none" \/ eval(br.condition, cell)

AfterEval(br) == IF br.condition = "none" THEN br ELSE [br EXCEPT !.condition = "cut"]

\* The break is asked for: the condition holds and the ignore count is used up.
Breaks(br, cell) == Holds(br, cell) /\ br.ignore_count = 0 /\ ~br.keep_running

\* The hit of a print-only watchpoint gets as far as the assignment of monitor_on.
Prints(br, cell) == Holds(br, cell) /\ br.ignore_count = 0 /\ br.keep_running

\* Mutant: the negation is missing.
breakpoint_hit_inverted(br, cell, monitor_on) ==
  LET e == AfterEval(br)
  IN  IF ~Holds(br, cell) THEN [br |-> e, monitor_on |-> monitor_on]
      ELSE IF br.ignore_count > 0
        THEN [br |-> [e EXCEPT !.ignore_count = @ - 1], monitor_on |-> monitor_on]
      ELSE [br |-> e, monitor_on |-> br.keep_running]

breakpoint_hit(br, cell, monitor_on) ==
  LET e == AfterEval(br)
  IN  IF ~Holds(br, cell) THEN [br |-> e, monitor_on |-> monitor_on]
      ELSE IF br.ignore_count > 0
        THEN [br |-> [e EXCEPT !.ignore_count = @ - 1], monitor_on |-> monitor_on]
      ELSE [br |-> e, monitor_on |-> ~br.keep_running]
=============================================================================
