------------------------------- MODULE Symtab -------------------------------
(***************************************************************************)
(* The symbol tables of symtab.c, as operators on a table: the symbols in  *)
(* the order in which they were added, and two hash tables of chains, the  *)
(* newest symbol first, by name and by value.                              *)
(***************************************************************************)
EXTENDS Integers, Sequences, SequencesExt

CONSTANTS
  NameHash,        \* sym_hash_name, by name
  Page,            \* the line of a map that starts a page
  MAX_SYMBOL_HASH  \* the number of chains (1009 in 6809.h)

Buckets == 0..(MAX_SYMBOL_HASH - 1)

\* sym_hash_name ends with a remainder.
ASSUME HashAssumption ==
  MAX_SYMBOL_HASH \in Nat \ {0} /\ NameHash \in [DOMAIN NameHash -> Buckets]

sym_hash_value(value) == value % MAX_SYMBOL_HASH

\* symtab_init
EmptyTable == [syms |-> <<>>, by_name |-> [b \in Buckets |-> <<>>], by_value |-> [b \in Buckets |-> <<>>]]

\* The symbol at a place of a chain, or 0 when the search of it found none.
Scan(chain, place) == IF place = 0 THEN 0 ELSE chain[place]

\* Mutant: the chain is not compared with the name.
sym_find1_any(tab, name) == LET chain == tab.by_name[NameHash[name]] IN IF chain = <<>> THEN 0 ELSE chain[1]

\* The symbol with a name, or 0.  No table has a parent, and the type asked for
\* is always 0, which matches every type.
sym_find1(tab, name) ==
  LET chain == tab.by_name[NameHash[name]]
  IN  Scan(chain, SelectInSeq(chain, LAMBDA i : tab.syms[i].name = name))

\* The symbol with a value, or 0.
sym_lookup(tab, value) ==
  LET chain == tab.by_value[sym_hash_value(value)]
  IN  Scan(chain, SelectInSeq(chain, LAMBDA i : tab.syms[i].value = value))

sym_add(tab, name, value) ==
  LET i == Len(tab.syms) + 1
  IN  [syms |-> Append(tab.syms, [name |-> name, value |-> value, size |-> 0]),
       by_name |-> [tab.by_name EXCEPT ![NameHash[name]] = <<i>> \o @],
       by_value |-> [tab.by_value EXCEPT ![sym_hash_value(value)] = <<i>> \o @]]

\* An existing symbol keeps its place in both chains.
sym_set(tab, name, value) ==
  LET i == sym_find1(tab, name)
  IN  IF i # 0 THEN [tab EXCEPT !.syms[i].value = value] ELSE sym_add(tab, name, value)

\* load_map_file: a symbol reaches up to the next one of the same page.  A line
\* is a symbol or the start of a page.
MapLine(state, line) ==
  IF line = Page THEN [state EXCEPT !.last = 0]
  ELSE LET sized == IF state.last = 0 THEN state.tab
                    ELSE [state.tab EXCEPT !.syms[state.last].size =
                                                 line.value - state.tab.syms[state.last].value]
       IN  [tab |-> sym_add(sized, line.name, line.value), last |-> Len(state.tab.syms) + 1]

load_map_file(tab, lines) ==
  LET read[n \in 0..Len(lines)] ==
        IF n = 0 THEN [tab |-> tab, last |-> 0] ELSE MapLine(read[n - 1], lines[n])
  IN  read[Len(lines)].tab
=============================================================================
