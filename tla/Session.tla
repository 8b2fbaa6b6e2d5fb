------------------------------ MODULE Session -------------------------------
(***************************************************************************)
(* A debugging session of command.c: the lines that command_exec takes     *)
(* from the keyboard or from a command file, what they do to the symbol    *)
(* tables, and the record that command_insn_hook keeps of the last         *)
(* instructions.                                                           *)
(***************************************************************************)
EXTENDS Symtab

CONSTANTS
  None,       \* no argument, no file, no address
  Script,     \* the command files: the lines of each
  Cut,        \* the files whose last line has no newline
  Maps,       \* the symbol files: the lines of each
  Typed,      \* the lines the user types
  Variables,  \* the names of the variables the lines set
  MAX_TRACE,  \* entries of trace_buffer (256 in command.c)
  PCs,        \* addresses of instructions
  MaxTyped,   \* bound on the lines typed
  MaxFetch    \* bound on the instructions fetched

ASSUME SessionAssumption ==
  /\ Cut \subseteq DOMAIN Script /\ MAX_TRACE \in Nat \ {0, 1}
  /\ MaxTyped \in Nat /\ MaxFetch \in Nat

\* All lines there are.
CommandLines == Typed \cup UNION {ToSet(Script[file]) : file \in DOMAIN Script}

\* The files are sequences of lines, None is no number, and what a line sets
\* a variable to is what eval returns, an unsigned number.  So is the value of
\* a line of a map, which strtoul reads.
ASSUME LineAssumption ==
  /\ \A file \in DOMAIN Script : Script[file] \in Seq(CommandLines)
  /\ None \notin Nat
  /\ \A line \in CommandLines :
       line # <<>> /\ line[1] = "set" /\ line[2] # None =>
         line[2].name \in Variables /\ line[2].value \in Nat
  /\ Variables \subseteq DOMAIN NameHash
  /\ \A file \in DOMAIN Maps :
       Maps[file] \in Seq({Page} \cup [name : DOMAIN NameHash, value : Nat])

Stdin == [file |-> None, line |-> 0]

VARIABLES
  command_input,            \* Stdin, or a file and the line to read next
  prev_buffer,              \* the last command word
  phase,                    \* "fetch", "prompt", "exec", "crash" or "done"
  program, internal,        \* program_symtab and internal_symtab
  trace_buffer, trace_offset,
  typed,                    \* lines typed
  callers,                  \* history: the places the open files were called from
  latest,                   \* history: what each variable was last set to
  loaded,                   \* history: the map lines read
  fetched                   \* history: the instructions fetched

input == <<command_input, prev_buffer, typed, callers>>
symbols == <<program, internal, latest, loaded>>
trace == <<trace_buffer, trace_offset, fetched>>
vars == <<input, phase, symbols, trace>>

\* command_init opens .dbinit if it is there.
command_init ==
  command_input = IF ".dbinit" \in DOMAIN Script THEN [file |-> ".dbinit", line |-> 1] ELSE Stdin

Init ==
  /\ command_init /\ prev_buffer = None /\ phase = "fetch"
  /\ program = EmptyTable /\ internal = EmptyTable
  /\ trace_buffer = [n \in 0..(MAX_TRACE - 1) |-> 0] /\ trace_offset = 0
  /\ typed = 0 /\ callers = <<>> /\ latest = [v \in Variables |-> None]
  /\ loaded = <<>> /\ fetched = <<>>

(***************************************************************************)
(* Reading a line.  fgets meets the end of a file inside a last line that  *)
(* has no newline, and the line is dropped.                                *)
(***************************************************************************)
Lines(file) == IF file \in Cut THEN Front(Script[file]) ELSE Script[file]

AtEnd == command_input # Stdin /\ command_input.line > Len(Lines(command_input.file))

Offered ==
  IF command_input = Stdin THEN IF typed < MaxTyped THEN Typed ELSE {}
  ELSE IF AtEnd THEN {} ELSE {Lines(command_input.file)[command_input.line]}

\* A blank line repeats the previous command's word, not its arguments.
Meant(line) == IF line = <<>> THEN <<prev_buffer, None>> ELSE line

Advanced ==
  IF command_input = Stdin THEN Stdin ELSE [command_input EXCEPT !.line = @ + 1]

\* command_exec, up to the call of the handler.
command_exec(word, arg) ==
  /\ phase = "prompt"
  /\ \E line \in Offered : Meant(line) = <<word, arg>>
  /\ prev_buffer' = IF word = "#" THEN prev_buffer ELSE word
  /\ typed' = IF command_input = Stdin THEN typed + 1 ELSE typed

Words(word) == {Meant(line)[2] : line \in {l \in Offered : Meant(l)[1] = word}}

\* so <file>
cmd_source ==
  /\ \E file \in Words("so") :
       /\ command_exec("so", file)
       /\ IF file \in DOMAIN Script
            THEN /\ command_input' = [file |-> file, line |-> 1]
                 /\ callers' = <<Advanced>> \o callers
            ELSE command_input' = Advanced /\ callers' = callers
  /\ UNCHANGED <<phase, symbols, trace>>

\* sym <file>
cmd_symbol_file ==
  /\ \E file \in Words("sym") :
       /\ command_exec("sym", file)
       /\ IF file \in DOMAIN Maps
            THEN /\ program' = load_map_file(program, Maps[file])
                 /\ loaded' = loaded \o Maps[file]
            ELSE UNCHANGED <<program, loaded>>
  /\ command_input' = Advanced
  /\ UNCHANGED <<callers, phase, internal, latest, trace>>

\* set $name=value, of any name but a register's.  Without an argument the command
\* compares a null pointer.
cmd_set ==
  /\ \E arg \in Words("set") :
       /\ command_exec("set", arg)
       /\ IF arg = None THEN phase' = "crash" /\ UNCHANGED <<internal, latest>>
          ELSE /\ phase' = phase
               /\ internal' = sym_set(internal, arg.name, arg.value)
               /\ latest' = [latest EXCEPT ![arg.name] = arg.value]
  /\ command_input' = Advanced
  /\ UNCHANGED <<callers, program, loaded, trace>>

\* A comment, a command that does not exist, one for the breakpoint table (module
\* Debugger), and a blank line before any command.
Ignored ==
  /\ \E word \in {"#", "?", "b", None} : \E arg \in Words(word) : command_exec(word, arg)
  /\ command_input' = Advanced
  /\ UNCHANGED <<callers, phase, symbols, trace>>

cmd_continue ==
  /\ \E arg \in Words("c") : command_exec("c", arg)
  /\ command_input' = Advanced /\ phase' = "exec"
  /\ UNCHANGED <<callers, symbols, trace>>

cmd_quit ==
  /\ \E arg \in Words("q") : command_exec("q", arg)
  /\ command_input' = Advanced /\ phase' = "done"
  /\ UNCHANGED <<callers, symbols, trace>>

\* The end of the keyboard's input ends the slice of the program before the
\* instruction, which is fetched again.
EndOfInput ==
  /\ phase = "prompt" /\ command_input = Stdin /\ phase' = "fetch"
  /\ UNCHANGED <<input, symbols, trace>>

\* Mutant: the file is closed and stays the input.
Closed_kept(source) == source

\* Where command_loop goes on after the end of a file.
Closed(source) == Stdin

EndOfFile ==
  /\ phase = "prompt" /\ AtEnd
  /\ command_input' = Closed(command_input)
  /\ callers' = IF callers = <<>> THEN callers ELSE Tail(callers)
  /\ UNCHANGED <<prev_buffer, typed, phase, symbols, trace>>

(***************************************************************************)
(* The program.  command_insn_hook records each instruction fetched, and   *)
(* the prompt may follow.                                                  *)
(***************************************************************************)
command_trace_insn(buffer, offset, pc) ==
  [buffer |-> [buffer EXCEPT ![offset] = pc], offset |-> (offset + 1) % MAX_TRACE]

Fetch ==
  /\ phase = "fetch" /\ Len(fetched) < MaxFetch
  /\ \E pc \in PCs :
       LET t == command_trace_insn(trace_buffer, trace_offset, pc)
       IN  /\ trace_buffer' = t.buffer /\ trace_offset' = t.offset
           /\ fetched' = Append(fetched, pc)
  /\ phase' \in {"exec", "prompt"}
  /\ UNCHANGED <<input, symbols>>

\* The rest of the instruction, whose stores the other modules follow.
Execute ==
  /\ phase = "exec" /\ phase' = "fetch"
  /\ UNCHANGED <<input, symbols, trace>>

\* The process has ended, or the bounds are reached.
Stopped ==
  /\ \/ phase \in {"crash", "done"}
     \/ phase = "fetch" /\ Len(fetched) = MaxFetch
     \/ phase = "prompt" /\ ~AtEnd /\ Offered = {}
  /\ UNCHANGED vars

Command ==
  \/ cmd_source \/ cmd_symbol_file \/ cmd_set \/ Ignored \/ cmd_continue
  \/ cmd_quit \/ EndOfFile

Next == Command \/ EndOfInput \/ Fetch \/ Execute \/ Stopped

\* The lines of a file are read without waiting for anyone.
Spec == Init /\ [][Next]_vars /\ WF_vars(command_input # Stdin /\ Command)

-----------------------------------------------------------------------------
\* The newest lines of the maps with a name and with a value.
NewestNamed(n) == SelectLastInSeq(loaded, LAMBDA line : line # Page /\ line.name = n)
NewestValued(v) == SelectLastInSeq(loaded, LAMBDA line : line # Page /\ line.value = v)

\* What the user finds under a name or at a value is what was last said of
\* it: sym_find of the program's table gives the value of the newest line of
\* the maps with the name, sym_lookup the name of the newest line with the
\* value, and a variable has the value it was last set to, whatever hash
\* chains the names share.
SymbolsLatest ==
  /\ \A n \in DOMAIN NameHash :
       LET i == sym_find1(program, n)
           k == NewestNamed(n)
       IN  IF i = 0 THEN k = 0 ELSE k # 0 /\ program.syms[i].value = loaded[k].value
  /\ \A v \in {line.value : line \in ToSet(loaded) \ {Page}} :
       LET i == sym_lookup(program, v)
       IN  i # 0 /\ program.syms[i].name = loaded[NewestValued(v)].name
  /\ \A n \in Variables :
       LET i == sym_find1(internal, n)
       IN  IF i = 0 THEN latest[n] = None ELSE internal.syms[i].value = latest[n]

\* The entries of trace_buffer that td prints, in order.
cmd_trace_dump ==
  [k \in 1..(MAX_TRACE - 1) |-> trace_buffer[(trace_offset + k) % MAX_TRACE]]

\* td prints the last MAX_TRACE - 1 instructions fetched, oldest first, one fewer
\* than the "last 256 instructions" of the README: trace_buffer holds MAX_TRACE, and
\* cmd_trace_dump starts after the oldest of them.
TraceRight ==
  \A k \in 1..(MAX_TRACE - 1) :
    LET back == (MAX_TRACE - 1) - k
    IN  cmd_trace_dump[k] = IF back < Len(fetched) THEN fetched[Len(fetched) - back] ELSE 0

\* A command file that is being read ends and gives the input back, or lets
\* the program run: the end of a file is never read again and again.
KeyboardRegained ==
  (phase = "prompt" /\ command_input # Stdin) ~> (command_input = Stdin \/ phase # "prompt")

\* "When the commands are finished, control returns to the previous input
\* source (the file that called it, or the keyboard.)" (README)
ReturnsToCaller ==
  [][phase = "prompt" /\ AtEnd => command_input' = (IF callers = <<>> THEN Stdin ELSE Head(callers))]_vars
=============================================================================
