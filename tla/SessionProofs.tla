--------------------------- MODULE SessionProofs ----------------------------
(***************************************************************************)
(* Proofs about Session: the trace of instructions and the symbol tables   *)
(* are right, for every size of the trace buffer and the hash tables,      *)
(* whatever lines are typed and whatever is in the files.  load_map_file   *)
(* is a recursion over the lines of a map; its function is shown to exist, *)
(* and the table that it computes to be right, by the least line for which *)
(* it would not.                                                           *)
(***************************************************************************)
EXTENDS Session, WellFoundedInduction, TLAPS

(***************************************************************************)
(* The trace buffer.                                                       *)
(***************************************************************************)

\* The remainder of an offset that has gone once round at most.
LEMMA RoundOnce ==
  ASSUME NEW n \in Nat, NEW m \in Nat \ {0}, n < m + m
  PROVE  n % m = IF n < m THEN n ELSE n - m
<1>1. CASE n < m
  BY <1>1, SMT
<1>2. CASE n >= m
  BY <1>2, SMT
<1>. QED
  BY <1>1, <1>2

\* Where the instruction fetched so many steps ago was recorded.
Slot(offset, back) == IF back <= offset THEN offset - back ELSE offset - back + MAX_TRACE

\* The buffer holds the last MAX_TRACE instructions, backwards from the offset,
\* and zeros where there have been fewer.
TraceHolds ==
  /\ fetched \in Seq(PCs)
  /\ trace_offset \in 0..(MAX_TRACE - 1)
  /\ trace_buffer = [n \in 0..(MAX_TRACE - 1) |-> trace_buffer[n]]
  /\ \A back \in 1..MAX_TRACE :
       trace_buffer[Slot(trace_offset, back)] =
         IF back <= Len(fetched) THEN fetched[Len(fetched) - back + 1] ELSE 0

\* One more instruction: the oldest entry is overwritten (command_trace_insn).
LEMMA FetchTrace ==
  ASSUME TraceHolds, Fetch
  PROVE  TraceHolds'
<1>. DEFINE M == MAX_TRACE
<1>1. M \in Nat /\ M > 1
  BY SessionAssumption
<1>2. PICK pc \in PCs :
        /\ trace_buffer' = [trace_buffer EXCEPT ![trace_offset] = pc]
        /\ trace_offset' = (trace_offset + 1) % M
        /\ fetched' = Append(fetched, pc)
  BY DEF Fetch, command_trace_insn
<1>3. trace_offset' = IF trace_offset + 1 < M THEN trace_offset + 1 ELSE 0
  <2>1. trace_offset + 1 \in Nat /\ trace_offset + 1 < M + M /\ M \in Nat \ {0}
    BY <1>1 DEF TraceHolds
  <2>2. (trace_offset + 1) % M = IF trace_offset + 1 < M THEN trace_offset + 1 ELSE (trace_offset + 1) - M
    BY <2>1, RoundOnce
  <2>. QED
    BY <1>1, <1>2, <2>2 DEF TraceHolds
<1>4. /\ fetched' \in Seq(PCs) /\ Len(fetched') = Len(fetched) + 1
      /\ fetched'[Len(fetched) + 1] = pc
      /\ \A i \in 1..Len(fetched) : fetched'[i] = fetched[i]
      /\ Len(fetched) \in Nat
  BY <1>2 DEF TraceHolds
<1>5. /\ trace_offset' \in 0..(M - 1)
      /\ trace_buffer' = [n \in 0..(M - 1) |-> trace_buffer'[n]]
  <2>1. trace_offset' \in 0..(M - 1)
    BY <1>1, <1>3 DEF TraceHolds
  <2>2. trace_buffer' = [n \in 0..(M - 1) |-> trace_buffer'[n]]
    BY <1>2 DEF TraceHolds
  <2>. QED
    BY <2>1, <2>2
<1>6. ASSUME NEW back \in 1..M
      PROVE  trace_buffer'[Slot(trace_offset', back)] =
               IF back <= Len(fetched') THEN fetched'[Len(fetched') - back + 1] ELSE 0
  <2>1. CASE back = 1
    <3>1. Slot(trace_offset', back) = trace_offset
      BY <1>1, <1>3, <2>1 DEF Slot, TraceHolds
    <3>2. trace_buffer'[trace_offset] = pc
      BY <1>1, <1>2 DEF TraceHolds
    <3>3. back <= Len(fetched') /\ Len(fetched') - back + 1 = Len(fetched) + 1
      BY <1>4, <2>1
    <3>. QED
      BY <1>4, <3>1, <3>2, <3>3
  <2>2. CASE back > 1
    <3>1. back - 1 \in 1..M /\ back - 1 # M
      BY <1>1, <2>2
    <3>2. Slot(trace_offset', back) = Slot(trace_offset, back - 1)
      BY <1>1, <1>3, <2>2 DEF Slot, TraceHolds
    <3>3. Slot(trace_offset, back - 1) \in 0..(M - 1) /\ Slot(trace_offset, back - 1) # trace_offset
      BY <1>1, <3>1 DEF Slot, TraceHolds
    <3>4. trace_buffer'[Slot(trace_offset, back - 1)] = trace_buffer[Slot(trace_offset, back - 1)]
      BY <1>2, <3>3 DEF TraceHolds
    <3>5. trace_buffer[Slot(trace_offset, back - 1)] =
            IF back - 1 <= Len(fetched) THEN fetched[Len(fetched) - (back - 1) + 1] ELSE 0
      BY <3>1 DEF TraceHolds
    <3>6. back <= Len(fetched') <=> back - 1 <= Len(fetched)
      BY <1>4
    <3>7. ASSUME back - 1 <= Len(fetched)
          PROVE  fetched'[Len(fetched') - back + 1] = fetched[Len(fetched) - (back - 1) + 1]
      <4>1. Len(fetched') - back + 1 = Len(fetched) - (back - 1) + 1
        BY <1>4
      <4>2. Len(fetched) - (back - 1) + 1 \in 1..Len(fetched)
        BY <1>4, <3>7, <2>2
      <4>. QED
        BY <1>4, <4>1, <4>2
    <3>. QED
      BY <3>2, <3>4, <3>5, <3>6, <3>7
  <2>. QED
    BY <2>1, <2>2, <1>1
<1>. QED
  BY <1>4, <1>5, <1>6 DEF TraceHolds

\* Nothing but a fetch moves the trace.
LEMMA OtherTrace ==
  ASSUME TraceHolds, UNCHANGED trace
  PROVE  TraceHolds'
BY DEF TraceHolds, trace

\* Every step but a fetch leaves the trace alone.
LEMMA NextTrace ==
  ASSUME [Next]_vars
  PROVE  Fetch \/ UNCHANGED trace
<1>1. CASE Command
  BY <1>1 DEF Command, cmd_source, cmd_symbol_file, cmd_set, Ignored,
              cmd_continue, cmd_quit, EndOfFile
<1>2. CASE EndOfInput \/ Execute \/ Stopped \/ UNCHANGED vars
  BY <1>2 DEF EndOfInput, Execute, Stopped, vars
<1>. QED
  BY <1>1, <1>2 DEF Next

\* What td prints of a buffer that holds the trace is right.
LEMMA TraceShown == TraceHolds => TraceRight
<1>. SUFFICES ASSUME TraceHolds, NEW k \in 1..(MAX_TRACE - 1)
              PROVE  cmd_trace_dump[k] =
                       IF (MAX_TRACE - 1) - k < Len(fetched)
                         THEN fetched[Len(fetched) - ((MAX_TRACE - 1) - k)] ELSE 0
  BY DEF TraceRight
<1>. DEFINE back == MAX_TRACE - k
<1>1. MAX_TRACE \in Nat /\ MAX_TRACE > 1 /\ back \in 1..MAX_TRACE
  BY SessionAssumption
<1>2. (trace_offset + k) % MAX_TRACE = Slot(trace_offset, back)
  <2>1. /\ trace_offset + k \in Nat /\ trace_offset + k < MAX_TRACE + MAX_TRACE
        /\ MAX_TRACE \in Nat \ {0}
    BY <1>1 DEF TraceHolds
  <2>2. (trace_offset + k) % MAX_TRACE =
          IF trace_offset + k < MAX_TRACE THEN trace_offset + k ELSE (trace_offset + k) - MAX_TRACE
    BY <2>1, RoundOnce
  <2>. QED
    BY <1>1, <2>2 DEF TraceHolds, Slot
<1>3. cmd_trace_dump[k] = trace_buffer[Slot(trace_offset, back)]
  BY <1>2 DEF cmd_trace_dump
<1>4. trace_buffer[Slot(trace_offset, back)] =
        IF back <= Len(fetched) THEN fetched[Len(fetched) - back + 1] ELSE 0
  BY <1>1 DEF TraceHolds
<1>5. Len(fetched) \in Nat
  BY DEF TraceHolds
<1>6. /\ back <= Len(fetched) <=> (MAX_TRACE - 1) - k < Len(fetched)
      /\ Len(fetched) - back + 1 = Len(fetched) - ((MAX_TRACE - 1) - k)
  BY <1>1, <1>5
<1>. QED
  BY <1>3, <1>4, <1>6

\* td prints the last MAX_TRACE - 1 instructions in order, one fewer than the 256
\* of the README, for every size of the buffer and any number of instructions
\* (command_trace_insn, cmd_trace_dump).
THEOREM TraceIsRight == Spec => []TraceRight
<1>1. Init => TraceHolds
  <2>. SUFFICES ASSUME Init PROVE TraceHolds
    OBVIOUS
  <2>1. MAX_TRACE \in Nat /\ MAX_TRACE > 1
    BY SessionAssumption
  <2>2. fetched \in Seq(PCs) /\ Len(fetched) = 0
    BY DEF Init
  <2>3. /\ trace_offset = 0
        /\ trace_buffer = [n \in 0..(MAX_TRACE - 1) |-> 0]
    BY DEF Init
  <2>4. ASSUME NEW back \in 1..MAX_TRACE
        PROVE  Slot(trace_offset, back) \in 0..(MAX_TRACE - 1) /\ ~(back <= Len(fetched))
    BY <2>1, <2>2, <2>3 DEF Slot
  <2>. QED
    BY <2>1, <2>2, <2>3, <2>4 DEF TraceHolds
<1>2. TraceHolds /\ [Next]_vars => TraceHolds'
  BY NextTrace, FetchTrace, OtherTrace
<1>. QED
  BY <1>1, <1>2, TraceShown, PTL DEF Spec

(***************************************************************************)
(* The lines read.                                                         *)
(***************************************************************************)

\* Where the input can be: at the keyboard or at a line of a file there is.
Sources == {Stdin} \cup [file : DOMAIN Script, line : Nat \ {0}]

\* The lines offered are lines there are.
LEMMA OfferedLines ==
  ASSUME command_input \in Sources, NEW line \in Offered
  PROVE  line \in CommandLines
<1>1. CASE command_input = Stdin
  BY <1>1 DEF Offered, CommandLines
<1>2. CASE command_input # Stdin
  <2>. DEFINE file == command_input.file
              n == command_input.line
  <2>1. file \in DOMAIN Script /\ n \in Nat \ {0}
    BY <1>2 DEF Sources
  <2>2. Script[file] \in Seq(CommandLines)
    BY <2>1, LineAssumption
  <2>3. ~AtEnd /\ line = Lines(file)[n]
    BY <1>2 DEF Offered
  <2>4. ~(n > Len(Lines(file)))
    BY <1>2, <2>3 DEF AtEnd
  <2>5. CASE file \in Cut
    <3>1. Lines(file) = SubSeq(Script[file], 1, Len(Script[file]) - 1)
      BY <2>5 DEF Lines, Front
    <3>2. n \in 1..Len(Script[file]) /\ Lines(file)[n] = Script[file][n]
      BY <2>1, <2>2, <2>4, <3>1
    <3>. QED
      BY <2>2, <2>3, <3>2
  <2>6. CASE file \notin Cut
    BY <2>1, <2>2, <2>3, <2>4, <2>6 DEF Lines
  <2>. QED
    BY <2>5, <2>6
<1>. QED
  BY <1>1, <1>2

\* A line read leaves the input at a place where it can be.
LEMMA AdvancedSource ==
  ASSUME command_input \in Sources
  PROVE  Advanced \in Sources /\ Stdin \in Sources
BY DEF Advanced, Sources, Stdin

\* What is set is a variable, to a number.
LEMMA SetNumber ==
  ASSUME command_input \in Sources, NEW arg \in Words("set"), arg # None
  PROVE  arg.name \in Variables /\ arg.value \in Nat
<1>1. PICK line \in Offered : Meant(line)[1] = "set" /\ Meant(line)[2] = arg
  BY DEF Words
<1>2. line # <<>>
  BY <1>1 DEF Meant
<1>3. line[1] = "set" /\ line[2] = arg
  BY <1>1, <1>2 DEF Meant
<1>4. line \in CommandLines
  BY OfferedLines
<1>. QED
  BY <1>2, <1>3, <1>4, LineAssumption

\* The input stays at the keyboard or in a file there is (cmd_source, command_loop).
LEMMA NextSource ==
  ASSUME command_input \in Sources, [Next]_vars
  PROVE  command_input' \in Sources
<1>1. Advanced \in Sources /\ Stdin \in Sources
  BY AdvancedSource
<1>2. CASE cmd_source
  <2>1. PICK file \in Words("so") :
          \/ file \in DOMAIN Script /\ command_input' = [file |-> file, line |-> 1]
          \/ command_input' = Advanced
    BY <1>2 DEF cmd_source
  <2>. QED
    BY <1>1, <2>1 DEF Sources
<1>3. CASE cmd_symbol_file \/ cmd_set \/ Ignored \/ cmd_continue \/ cmd_quit
  BY <1>1, <1>3 DEF cmd_symbol_file, cmd_set, Ignored, cmd_continue, cmd_quit
<1>4. CASE EndOfFile
  BY <1>1, <1>4 DEF EndOfFile, Closed
<1>5. CASE EndOfInput \/ Fetch \/ Execute \/ Stopped \/ UNCHANGED vars
  BY <1>5 DEF EndOfInput, Fetch, Execute, Stopped, vars, input
<1>. QED
  BY <1>2, <1>3, <1>4, <1>5 DEF Next, Command

(***************************************************************************)
(* The symbol tables.                                                      *)
(***************************************************************************)

Symbols == [name : DOMAIN NameHash, value : Nat, size : Int]

Tables ==
  [syms : Seq(Symbols), by_name : [Buckets -> Seq(Nat)], by_value : [Buckets -> Seq(Nat)]]

\* A chain holds symbols of the table.
Inside(chain, count) == \A k \in 1..Len(chain) : chain[k] \in 1..count

\* A table as sym_add leaves it.
WellFormed(tab) ==
  /\ tab \in Tables
  /\ \A b \in Buckets :
       Inside(tab.by_name[b], Len(tab.syms)) /\ Inside(tab.by_value[b], Len(tab.syms))

\* The first symbol of a chain that is in a set, or 0.
Places(chain, wanted) == {k \in 1..Len(chain) : chain[k] \in wanted}
Hit(chain, wanted) ==
  IF Places(chain, wanted) # {} THEN chain[Min(Places(chain, wanted))] ELSE 0

Called(tab, name) == {i \in 1..Len(tab.syms) : tab.syms[i].name = name}
Worth(tab, value) == {i \in 1..Len(tab.syms) : tab.syms[i].value = value}

\* The least number of a set.
LEMMA LeastNumber ==
  ASSUME NEW S, S \subseteq Nat, S # {}
  PROVE  Min(S) \in S /\ \A m \in S : Min(S) <= m
<1>1. PICK n \in S : \A m \in S : <<m, n>> \notin OpToRel(<, Nat)
  BY WFMin, NatLessThanWellFounded, Zenon
<1>2. \A m \in S : ~(m < n)
  BY <1>1, Zenon DEF OpToRel
<1>3. \A m \in S : n <= m
  BY <1>2
<1>. QED
  BY <1>3 DEF Min

\* A hit is in the chain and wanted.
LEMMA HitIsWanted ==
  ASSUME NEW chain \in Seq(Nat), NEW wanted
  PROVE  \/ Hit(chain, wanted) = 0 /\ \A k \in 1..Len(chain) : chain[k] \notin wanted
         \/ Hit(chain, wanted) \in wanted /\ \E k \in 1..Len(chain) : Hit(chain, wanted) = chain[k]
<1>1. CASE Places(chain, wanted) = {}
  BY <1>1 DEF Hit, Places
<1>2. CASE Places(chain, wanted) # {}
  <2>1. Places(chain, wanted) \subseteq Nat
    BY DEF Places
  <2>2. Min(Places(chain, wanted)) \in Places(chain, wanted)
    BY <1>2, <2>1, LeastNumber
  <2>3. /\ Hit(chain, wanted) = chain[Min(Places(chain, wanted))]
        /\ Min(Places(chain, wanted)) \in 1..Len(chain)
        /\ chain[Min(Places(chain, wanted))] \in wanted
    BY <1>2, <2>2 DEF Hit, Places
  <2>. QED
    BY <2>3
<1>. QED
  BY <1>1, <1>2

\* A hit is found by its place.
LEMMA HitAt ==
  ASSUME NEW chain \in Seq(Nat), NEW wanted, NEW k \in 1..Len(chain), chain[k] \in wanted,
         \A j \in 1..Len(chain) : j < k => chain[j] \notin wanted
  PROVE  Hit(chain, wanted) = chain[k]
<1>. DEFINE S == Places(chain, wanted)
<1>1. k \in S /\ S \subseteq Nat
  BY DEF Places
<1>2. Min(S) \in S /\ \A m \in S : Min(S) <= m
  BY <1>1, LeastNumber
<1>3. Min(S) = k
  BY <1>1, <1>2 DEF Places
<1>. QED
  BY <1>1, <1>3 DEF Hit

\* What the first place of a hit is.
LEMMA HitPlace ==
  ASSUME NEW chain \in Seq(Nat), NEW wanted, NEW i \in 1..Len(chain), chain[i] \in wanted
  PROVE  \E k \in 1..Len(chain) :
           /\ chain[k] \in wanted /\ Hit(chain, wanted) = chain[k]
           /\ \A j \in 1..Len(chain) : j < k => chain[j] \notin wanted
<1>. DEFINE S == Places(chain, wanted)
<1>1. i \in S /\ S \subseteq Nat
  BY DEF Places
<1>2. Min(S) \in S /\ \A m \in S : Min(S) <= m
  BY <1>1, LeastNumber
<1>3. Min(S) \in 1..Len(chain) /\ chain[Min(S)] \in wanted
  BY <1>2 DEF Places
<1>4. ASSUME NEW j \in 1..Len(chain), j < Min(S)
      PROVE  chain[j] \notin wanted
  <2>1. j \notin S
    BY <1>2, <1>3, <1>4
  <2>. QED
    BY <2>1 DEF Places
<1>5. Hit(chain, wanted) = chain[Min(S)]
  BY <1>1 DEF Hit
<1>. QED
  BY <1>3, <1>4, <1>5

\* Only what of the chain is wanted matters.
LEMMA HitSame ==
  ASSUME NEW chain \in Seq(Nat), NEW wanted, NEW other,
         \A k \in 1..Len(chain) : chain[k] \in wanted <=> chain[k] \in other
  PROVE  Hit(chain, wanted) = Hit(chain, other)
<1>1. Places(chain, wanted) = Places(chain, other)
  BY DEF Places
<1>. QED
  BY <1>1 DEF Hit

\* A symbol put in front of a chain hides the others, or is passed over.
LEMMA HitInFront ==
  ASSUME NEW chain \in Seq(Nat), NEW i \in Nat, NEW wanted
  PROVE  /\ <<i>> \o chain \in Seq(Nat)
         /\ Hit(<<i>> \o chain, wanted) = IF i \in wanted THEN i ELSE Hit(chain, wanted)
<1>. DEFINE longer == <<i>> \o chain
<1>1. /\ longer \in Seq(Nat) /\ Len(longer) = Len(chain) + 1 /\ Len(chain) \in Nat
      /\ longer[1] = i
      /\ \A k \in 1..Len(chain) : longer[k + 1] = chain[k]
  OBVIOUS
<1>. HIDE DEF longer
<1>2. \A k \in 1..Len(longer) : k = 1 \/ (k - 1 \in 1..Len(chain) /\ longer[k] = chain[k - 1])
  <2>1. SUFFICES ASSUME NEW k \in 1..Len(longer), k # 1
                 PROVE  k - 1 \in 1..Len(chain) /\ longer[k] = chain[k - 1]
    OBVIOUS
  <2>2. k - 1 \in 1..Len(chain) /\ (k - 1) + 1 = k
    BY <1>1, <2>1
  <2>. QED
    BY <1>1, <2>2
<1>3. CASE i \in wanted
  <2>1. Hit(longer, wanted) = longer[1]
    BY <1>1, <1>3, HitAt
  <2>. QED
    BY <1>1, <1>3, <2>1 DEF longer
<1>4. CASE i \notin wanted /\ \A k \in 1..Len(chain) : chain[k] \notin wanted
  <2>1. Places(longer, wanted) = {} /\ Places(chain, wanted) = {}
    BY <1>1, <1>2, <1>4 DEF Places
  <2>. QED
    BY <1>1, <1>4, <2>1 DEF Hit, longer
<1>5. CASE i \notin wanted /\ \E k \in 1..Len(chain) : chain[k] \in wanted
  <2>1. PICK k \in 1..Len(chain) :
          /\ chain[k] \in wanted /\ Hit(chain, wanted) = chain[k]
          /\ \A j \in 1..Len(chain) : j < k => chain[j] \notin wanted
    BY <1>5, HitPlace
  <2>2. k + 1 \in 1..Len(longer) /\ longer[k + 1] = chain[k]
    BY <1>1
  <2>3. ASSUME NEW j \in 1..Len(longer), j < k + 1
        PROVE  longer[j] \notin wanted
    <3>1. CASE j = 1
      BY <1>1, <1>5, <3>1
    <3>2. CASE j # 1
      <4>1. j - 1 \in 1..Len(chain) /\ longer[j] = chain[j - 1] /\ j - 1 < k
        BY <1>2, <2>3, <3>2
      <4>. QED
        BY <2>1, <4>1
    <3>. QED
      BY <3>1, <3>2
  <2>4. Hit(longer, wanted) = longer[k + 1]
    <3>. DEFINE next == k + 1
    <3>1. next \in 1..Len(longer) /\ longer[next] \in wanted
          /\ \A j \in 1..Len(longer) : j < next => longer[j] \notin wanted
      BY <2>1, <2>2, <2>3
    <3>. HIDE DEF next
    <3>2. Hit(longer, wanted) = longer[next]
      BY <1>1, <3>1, HitAt
    <3>. QED
      BY <3>2 DEF next
  <2>. QED
    BY <1>1, <1>5, <2>1, <2>2, <2>4 DEF longer
<1>. QED
  BY <1>3, <1>4, <1>5

\* The two searches are hits in their chains.
LEMMA FindIsHit ==
  ASSUME NEW tab, WellFormed(tab), NEW name \in DOMAIN NameHash
  PROVE  /\ NameHash[name] \in Buckets
         /\ sym_find1(tab, name) = Hit(tab.by_name[NameHash[name]], Called(tab, name))
<1>. DEFINE chain == tab.by_name[NameHash[name]]
<1>1. NameHash[name] \in Buckets
  BY HashAssumption
<1>2. Inside(chain, Len(tab.syms))
  BY <1>1 DEF WellFormed
<1>3. {k \in 1..Len(chain) : tab.syms[chain[k]].name = name} = Places(chain, Called(tab, name))
  BY <1>2 DEF Inside, Places, Called
<1>4. sym_find1(tab, name) =
        Scan(chain, IF {k \in 1..Len(chain) : tab.syms[chain[k]].name = name} # {}
                      THEN Min({k \in 1..Len(chain) : tab.syms[chain[k]].name = name}) ELSE 0)
  BY DEF sym_find1, SelectInSeq
<1>5. Places(chain, Called(tab, name)) # {} => Min(Places(chain, Called(tab, name))) # 0
  <2>1. Places(chain, Called(tab, name)) \subseteq Nat /\ 0 \notin Places(chain, Called(tab, name))
    BY DEF Places
  <2>. QED
    BY <2>1, LeastNumber
<1>. HIDE DEF chain
<1>6. sym_find1(tab, name) = Hit(chain, Called(tab, name))
  BY <1>3, <1>4, <1>5 DEF Scan, Hit
<1>. QED
  BY <1>1, <1>6 DEF chain

\* The hash of a value is a bucket.
LEMMA ValueBucket ==
  ASSUME NEW value \in Nat
  PROVE  sym_hash_value(value) \in Buckets
BY HashAssumption DEF sym_hash_value, Buckets

\* The search of a value, in its chain.
LEMMA LookupIsHit ==
  ASSUME NEW tab, WellFormed(tab), NEW value \in Nat
  PROVE  sym_lookup(tab, value) = Hit(tab.by_value[sym_hash_value(value)], Worth(tab, value))
<1>. DEFINE chain == tab.by_value[sym_hash_value(value)]
<1>1. sym_hash_value(value) \in Buckets
  BY ValueBucket
<1>2. Inside(chain, Len(tab.syms))
  BY <1>1 DEF WellFormed
<1>3. {k \in 1..Len(chain) : tab.syms[chain[k]].value = value} = Places(chain, Worth(tab, value))
  BY <1>2 DEF Inside, Places, Worth
<1>4. sym_lookup(tab, value) =
        Scan(chain, IF {k \in 1..Len(chain) : tab.syms[chain[k]].value = value} # {}
                      THEN Min({k \in 1..Len(chain) : tab.syms[chain[k]].value = value}) ELSE 0)
  BY DEF sym_lookup, SelectInSeq
<1>5. Places(chain, Worth(tab, value)) # {} => Min(Places(chain, Worth(tab, value))) # 0
  <2>1. Places(chain, Worth(tab, value)) \subseteq Nat /\ 0 \notin Places(chain, Worth(tab, value))
    BY DEF Places
  <2>. QED
    BY <2>1, LeastNumber
<1>. HIDE DEF chain
<1>6. sym_lookup(tab, value) = Hit(chain, Worth(tab, value))
  BY <1>3, <1>4, <1>5 DEF Scan, Hit
<1>. QED
  BY <1>6 DEF chain

\* The symbol found has the name, and is in the table.
LEMMA FoundIsCalled ==
  ASSUME NEW tab, WellFormed(tab), NEW name \in DOMAIN NameHash
  PROVE  sym_find1(tab, name) = 0 \/ sym_find1(tab, name) \in Called(tab, name)
<1>. DEFINE chain == tab.by_name[NameHash[name]]
<1>1. /\ NameHash[name] \in Buckets
      /\ sym_find1(tab, name) = Hit(chain, Called(tab, name))
  BY FindIsHit
<1>2. chain \in Seq(Nat)
  BY <1>1 DEF WellFormed, Tables
<1>. HIDE DEF chain
<1>. QED
  BY <1>1, <1>2, HitIsWanted

\* The symbol looked up has the value, and is in the table.
LEMMA LookedUpIsWorth ==
  ASSUME NEW tab, WellFormed(tab), NEW value \in Nat
  PROVE  sym_lookup(tab, value) = 0 \/ sym_lookup(tab, value) \in Worth(tab, value)
<1>. DEFINE chain == tab.by_value[sym_hash_value(value)]
<1>1. /\ sym_hash_value(value) \in Buckets
      /\ sym_lookup(tab, value) = Hit(chain, Worth(tab, value))
  BY ValueBucket, LookupIsHit
<1>2. chain \in Seq(Nat)
  BY <1>1 DEF WellFormed, Tables
<1>. HIDE DEF chain
<1>. QED
  BY <1>1, <1>2, HitIsWanted

\* A new symbol in front of one of the chains, and the symbols wanted with it.
Grows(f, g, h, count, wanted, after) ==
  /\ count \in Nat /\ h \in Buckets
  /\ f \in [Buckets -> Seq(Nat)] /\ \A b \in Buckets : Inside(f[b], count)
  /\ g = [f EXCEPT ![h] = <<count + 1>> \o @]
  /\ \A i \in 1..count : i \in wanted <=> i \in after

Grown(f, g, h, count, b, wanted, after) ==
  /\ g \in [Buckets -> Seq(Nat)] /\ Inside(g[b], count + 1)
  /\ Hit(g[b], after) = IF b = h /\ count + 1 \in after THEN count + 1 ELSE Hit(f[b], wanted)

\* A search after it passes the new symbol over, or ends there.
LEMMA ChainGrows ==
  ASSUME NEW f, NEW g, NEW h, NEW count, NEW wanted, NEW after, Grows(f, g, h, count, wanted, after),
         NEW b \in Buckets
  PROVE  Grown(f, g, h, count, b, wanted, after)
<1>. DEFINE chain == f[b]
            front == f[h]
            new == count + 1
            longer == <<new>> \o front
<1>1. chain \in Seq(Nat) /\ front \in Seq(Nat) /\ new \in Nat /\ Len(front) \in Nat
      /\ count \in Nat
  BY DEF Grows
<1>2. Inside(chain, count) /\ Inside(front, count)
  BY DEF Grows
<1>3. g = [f EXCEPT ![h] = longer] /\ g[b] = IF b = h THEN longer ELSE chain
  BY DEF Grows
<1>4. /\ longer \in Seq(Nat) /\ Len(longer) = Len(front) + 1 /\ longer[1] = new
      /\ \A k \in 2..Len(longer) : k - 1 \in 1..Len(front) /\ longer[k] = front[k - 1]
  BY <1>1
<1>5. Hit(longer, after) = IF new \in after THEN new ELSE Hit(front, after)
  BY <1>1, HitInFront
<1>6. Inside(longer, new) /\ Inside(chain, new)
  <2>1. ASSUME NEW k \in 1..Len(longer)
        PROVE  longer[k] \in 1..new
    <3>1. CASE k = 1
      BY <1>1, <1>4, <3>1
    <3>2. CASE k # 1
      <4>1. k \in 2..Len(longer)
        BY <1>1, <1>4, <3>2
      <4>2. longer[k] \in 1..count
        BY <1>2, <1>4, <4>1 DEF Inside
      <4>. QED
        BY <1>1, <4>2
    <3>. QED
      BY <3>1, <3>2
  <2>2. ASSUME NEW k \in 1..Len(chain)
        PROVE  chain[k] \in 1..new
    <3>1. chain[k] \in 1..count
      BY <1>2 DEF Inside
    <3>. QED
      BY <1>1, <3>1
  <2>. QED
    BY <2>1, <2>2 DEF Inside
<1>7. \A k \in 1..Len(chain) : chain[k] \in wanted <=> chain[k] \in after
  BY <1>2 DEF Inside, Grows
<1>8. Hit(chain, after) = Hit(chain, wanted)
  BY <1>1, <1>7, HitSame
<1>9. g \in [Buckets -> Seq(Nat)]
  BY <1>3, <1>4 DEF Grows
<1>10. b = h => chain = front
  OBVIOUS
<1>. HIDE DEF chain, front, new, longer
<1>11. Hit(g[b], after) = IF b = h /\ new \in after THEN new ELSE Hit(chain, wanted)
  BY <1>3, <1>5, <1>8, <1>10
<1>12. Inside(g[b], new)
  BY <1>3, <1>6
<1>. QED
  BY <1>9, <1>11, <1>12 DEF new, chain, Grown

\* What sym_add leaves, and what the searches find then.
Added(tab, new, name, value) ==
  /\ WellFormed(new) /\ Len(new.syms) = Len(tab.syms) + 1
  /\ new.syms[Len(tab.syms) + 1].name = name /\ new.syms[Len(tab.syms) + 1].value = value
  /\ \A i \in 1..Len(tab.syms) : new.syms[i] = tab.syms[i]
  /\ \A n \in DOMAIN NameHash :
       sym_find1(new, n) = IF n = name THEN Len(tab.syms) + 1 ELSE sym_find1(tab, n)
  /\ \A v \in Nat :
       sym_lookup(new, v) = IF v = value THEN Len(tab.syms) + 1 ELSE sym_lookup(tab, v)

\* sym_add of a well-formed table.
LEMMA AddTable ==
  ASSUME NEW tab, WellFormed(tab), NEW name \in DOMAIN NameHash, NEW value \in Nat
  PROVE  Added(tab, sym_add(tab, name, value), name, value)
<1>. DEFINE new == sym_add(tab, name, value)
            count == Len(tab.syms)
            entry == [name |-> name, value |-> value, size |-> 0]
            h == NameHash[name]
            w == sym_hash_value(value)
<1>1. /\ tab.syms \in Seq(Symbols) /\ count \in Nat
      /\ tab.by_name \in [Buckets -> Seq(Nat)] /\ tab.by_value \in [Buckets -> Seq(Nat)]
      /\ \A b \in Buckets : Inside(tab.by_name[b], count) /\ Inside(tab.by_value[b], count)
  BY DEF WellFormed, Tables
<1>2. /\ new = [syms |-> new.syms, by_name |-> new.by_name, by_value |-> new.by_value]
      /\ new.syms = Append(tab.syms, entry)
      /\ new.by_name = [tab.by_name EXCEPT ![h] = <<count + 1>> \o @]
      /\ new.by_value = [tab.by_value EXCEPT ![w] = <<count + 1>> \o @]
  BY DEF sym_add
<1>3. h \in Buckets /\ w \in Buckets /\ entry \in Symbols
  BY HashAssumption, ValueBucket DEF Symbols
<1>4. /\ new.syms \in Seq(Symbols) /\ Len(new.syms) = count + 1 /\ new.syms[count + 1] = entry
      /\ \A i \in 1..count : new.syms[i] = tab.syms[i]
  BY <1>1, <1>2, <1>3
<1>. HIDE DEF new, count, h, w
<1>5. ASSUME NEW n
      PROVE  /\ \A i \in 1..count : i \in Called(tab, n) <=> i \in Called(new, n)
             /\ count + 1 \in Called(new, n) <=> n = name
  BY <1>1, <1>4 DEF Called, count
<1>6. ASSUME NEW v
      PROVE  /\ \A i \in 1..count : i \in Worth(tab, v) <=> i \in Worth(new, v)
             /\ count + 1 \in Worth(new, v) <=> v = value
  BY <1>1, <1>4 DEF Worth, count
<1>7. ASSUME NEW b \in Buckets, NEW n
      PROVE  /\ new.by_name \in [Buckets -> Seq(Nat)] /\ Inside(new.by_name[b], count + 1)
             /\ Hit(new.by_name[b], Called(new, n)) =
                  IF b = h /\ n = name THEN count + 1 ELSE Hit(tab.by_name[b], Called(tab, n))
  <2>1. Grows(tab.by_name, new.by_name, h, count, Called(tab, n), Called(new, n))
    BY <1>1, <1>2, <1>3, <1>5 DEF Grows
  <2>2. Grown(tab.by_name, new.by_name, h, count, b, Called(tab, n), Called(new, n))
    BY <2>1, ChainGrows, Zenon
  <2>. QED
    BY <1>5, <2>2 DEF Grown
<1>8. ASSUME NEW b \in Buckets, NEW v
      PROVE  /\ new.by_value \in [Buckets -> Seq(Nat)] /\ Inside(new.by_value[b], count + 1)
             /\ Hit(new.by_value[b], Worth(new, v)) =
                  IF b = w /\ v = value THEN count + 1 ELSE Hit(tab.by_value[b], Worth(tab, v))
  <2>1. Grows(tab.by_value, new.by_value, w, count, Worth(tab, v), Worth(new, v))
    BY <1>1, <1>2, <1>3, <1>6 DEF Grows
  <2>2. Grown(tab.by_value, new.by_value, w, count, b, Worth(tab, v), Worth(new, v))
    BY <2>1, ChainGrows, Zenon
  <2>. QED
    BY <1>6, <2>2 DEF Grown
<1>9. WellFormed(new)
  <2>1. new \in Tables
    BY <1>2, <1>3, <1>4, <1>7, <1>8 DEF Tables
  <2>. QED
    BY <1>4, <1>7, <1>8, <2>1 DEF WellFormed
<1>10. ASSUME NEW n \in DOMAIN NameHash
       PROVE  sym_find1(new, n) = IF n = name THEN count + 1 ELSE sym_find1(tab, n)
  <2>1. /\ NameHash[n] \in Buckets
        /\ sym_find1(new, n) = Hit(new.by_name[NameHash[n]], Called(new, n))
        /\ sym_find1(tab, n) = Hit(tab.by_name[NameHash[n]], Called(tab, n))
    BY <1>9, FindIsHit
  <2>2. n = name => NameHash[n] = h
    BY DEF h
  <2>. QED
    BY <1>7, <2>1, <2>2
<1>11. ASSUME NEW v \in Nat
       PROVE  sym_lookup(new, v) = IF v = value THEN count + 1 ELSE sym_lookup(tab, v)
  <2>1. /\ sym_hash_value(v) \in Buckets
        /\ sym_lookup(new, v) = Hit(new.by_value[sym_hash_value(v)], Worth(new, v))
        /\ sym_lookup(tab, v) = Hit(tab.by_value[sym_hash_value(v)], Worth(tab, v))
    BY <1>9, LookupIsHit, ValueBucket
  <2>2. v = value => sym_hash_value(v) = w
    BY DEF w
  <2>. QED
    BY <1>8, <2>1, <2>2
<1>12. new.syms[count + 1].name = name /\ new.syms[count + 1].value = value
  BY <1>4
<1>. QED
  BY <1>4, <1>9, <1>10, <1>11, <1>12 DEF Added, new, count

\* The searches go by names and values alone.
LEMMA SameNames ==
  ASSUME NEW tab, NEW new, WellFormed(tab), WellFormed(new), new.by_name = tab.by_name,
         Len(new.syms) = Len(tab.syms),
         \A i \in 1..Len(tab.syms) : new.syms[i].name = tab.syms[i].name,
         NEW n \in DOMAIN NameHash
  PROVE  sym_find1(new, n) = sym_find1(tab, n)
<1>1. Called(new, n) = Called(tab, n)
  BY DEF Called
<1>. QED
  BY <1>1, FindIsHit

\* The same for values.
LEMMA SameValues ==
  ASSUME NEW tab, NEW new, WellFormed(tab), WellFormed(new), new.by_value = tab.by_value,
         Len(new.syms) = Len(tab.syms),
         \A i \in 1..Len(tab.syms) : new.syms[i].value = tab.syms[i].value,
         NEW v \in Nat
  PROVE  sym_lookup(new, v) = sym_lookup(tab, v)
<1>1. Worth(new, v) = Worth(tab, v)
  BY DEF Worth
<1>. QED
  BY <1>1, LookupIsHit

\* One symbol of the table is given another value or size.
Gives(tab, new, i, symbol) == new = [tab EXCEPT !.syms = [@ EXCEPT ![i] = symbol]]

Given(tab, new, i, symbol) ==
  /\ WellFormed(new) /\ new.by_name = tab.by_name /\ new.by_value = tab.by_value
  /\ Len(new.syms) = Len(tab.syms) /\ new.syms[i] = symbol
  /\ \A j \in 1..Len(tab.syms) : j # i => new.syms[j] = tab.syms[j]

\* A symbol keeps its place in the chains when it is given another value.
LEMMA SymbolChanged ==
  ASSUME NEW tab, WellFormed(tab), NEW i \in 1..Len(tab.syms), NEW symbol \in Symbols,
         NEW new, Gives(tab, new, i, symbol)
  PROVE  Given(tab, new, i, symbol)
<1>. DEFINE changed == [tab.syms EXCEPT ![i] = symbol]
<1>1. tab \in Tables /\ tab.syms \in Seq(Symbols)
  BY DEF WellFormed, Tables
<1>2. new.syms = changed /\ new.by_name = tab.by_name /\ new.by_value = tab.by_value
  BY <1>1 DEF Tables, Gives
<1>3. /\ changed \in Seq(Symbols) /\ Len(changed) = Len(tab.syms) /\ changed[i] = symbol
      /\ \A j \in 1..Len(tab.syms) : j # i => changed[j] = tab.syms[j]
  BY <1>1
<1>4. new \in Tables
  BY <1>1, <1>3 DEF Tables, Gives
<1>5. WellFormed(new)
  BY <1>2, <1>3, <1>4 DEF WellFormed
<1>. QED
  BY <1>2, <1>3, <1>5 DEF Given

(***************************************************************************)
(* What a table says of the lines read.                                    *)
(***************************************************************************)
MapLines == {Page} \cup [name : DOMAIN NameHash, value : Nat]

Named(line, n) == line # Page /\ line.name = n
Valued(line, v) == line # Page /\ line.value = v

\* Of the first m lines the last with the name gave the symbol its value, and
\* the last with the value gave it its name.
LastNamed(all, m, k, n) == Named(all[k], n) /\ \A j \in 1..m : j > k => ~Named(all[j], n)
LastValued(all, m, k, v) == Valued(all[k], v) /\ \A j \in 1..m : j > k => ~Valued(all[j], v)

NameSaid(tab, all, m, n) ==
  LET i == sym_find1(tab, n)
  IN  \/ i = 0 /\ \A j \in 1..m : ~Named(all[j], n)
      \/ i # 0 /\ \E k \in 1..m : LastNamed(all, m, k, n) /\ tab.syms[i].value = all[k].value

ValueSaid(tab, all, m, v) ==
  LET i == sym_lookup(tab, v)
  IN  \/ i = 0 /\ \A j \in 1..m : ~Valued(all[j], v)
      \/ i # 0 /\ \E k \in 1..m : LastValued(all, m, k, v) /\ tab.syms[i].name = all[k].name

Says(tab, all, m) ==
  /\ WellFormed(tab)
  /\ \A n \in DOMAIN NameHash : NameSaid(tab, all, m, n)
  /\ \A v \in Nat : ValueSaid(tab, all, m, v)

\* A line that starts a page says nothing of symbols.
LEMMA PageSays ==
  ASSUME NEW tab, NEW all, NEW m \in Nat, Says(tab, all, m), all[m + 1] = Page
  PROVE  Says(tab, all, m + 1)
<1>. DEFINE next == m + 1
<1>1. \A j \in 1..next : j \in 1..m \/ j = next
  OBVIOUS
<1>2. 1..m \subseteq 1..next /\ next \in Nat
  OBVIOUS
<1>3. \A n : ~Named(all[next], n) /\ ~Valued(all[next], n)
  BY DEF Named, Valued
<1>. HIDE DEF next
<1>4. ASSUME NEW n \in DOMAIN NameHash
      PROVE  NameSaid(tab, all, next, n)
  <2>1. NameSaid(tab, all, m, n)
    BY DEF Says
  <2>. QED
    BY <1>1, <1>2, <1>3, <2>1 DEF NameSaid, LastNamed
<1>5. ASSUME NEW v \in Nat
      PROVE  ValueSaid(tab, all, next, v)
  <2>1. ValueSaid(tab, all, m, v)
    BY DEF Says
  <2>. QED
    BY <1>1, <1>2, <1>3, <2>1 DEF ValueSaid, LastValued
<1>6. Says(tab, all, next)
  BY <1>4, <1>5 DEF Says
<1>. QED
  BY <1>6 DEF next

\* The size of a symbol is nothing the searches look at.
LEMMA SizeSays ==
  ASSUME NEW tab, NEW all, NEW m \in Nat, Says(tab, all, m),
         NEW i \in 1..Len(tab.syms), NEW size \in Int,
         NEW new, new = [tab EXCEPT !.syms[i].size = size]
  PROVE  Says(new, all, m) /\ Len(new.syms) = Len(tab.syms)
<1>. DEFINE symbol == [tab.syms[i] EXCEPT !.size = size]
<1>1. WellFormed(tab) /\ tab.syms[i] \in Symbols
  BY DEF Says, WellFormed, Tables
<1>2. /\ symbol \in Symbols
      /\ symbol.name = tab.syms[i].name /\ symbol.value = tab.syms[i].value
  BY <1>1 DEF Symbols
<1>3. Gives(tab, new, i, symbol)
  BY DEF Gives
<1>. HIDE DEF symbol
<1>4. Given(tab, new, i, symbol)
  BY <1>1, <1>2, <1>3, SymbolChanged, Zenon
<1>5. /\ WellFormed(new) /\ new.by_name = tab.by_name /\ new.by_value = tab.by_value
      /\ Len(new.syms) = Len(tab.syms) /\ new.syms[i] = symbol
      /\ \A j \in 1..Len(tab.syms) : j # i => new.syms[j] = tab.syms[j]
  BY <1>4 DEF Given
<1>6. \A j \in 1..Len(tab.syms) :
        new.syms[j].name = tab.syms[j].name /\ new.syms[j].value = tab.syms[j].value
  BY <1>2, <1>5
<1>7. ASSUME NEW n \in DOMAIN NameHash
      PROVE  NameSaid(new, all, m, n)
  <2>1. NameSaid(tab, all, m, n)
    BY DEF Says
  <2>2. sym_find1(new, n) = sym_find1(tab, n)
    BY <1>1, <1>5, <1>6, SameNames
  <2>3. sym_find1(tab, n) # 0 => sym_find1(tab, n) \in 1..Len(tab.syms)
    BY <1>1, FoundIsCalled DEF Called
  <2>. QED
    BY <1>6, <2>1, <2>2, <2>3 DEF NameSaid
<1>8. ASSUME NEW v \in Nat
      PROVE  ValueSaid(new, all, m, v)
  <2>1. ValueSaid(tab, all, m, v)
    BY DEF Says
  <2>2. sym_lookup(new, v) = sym_lookup(tab, v)
    BY <1>1, <1>5, <1>6, SameValues
  <2>3. sym_lookup(tab, v) # 0 => sym_lookup(tab, v) \in 1..Len(tab.syms)
    BY <1>1, LookedUpIsWorth DEF Worth
  <2>. QED
    BY <1>6, <2>1, <2>2, <2>3 DEF ValueSaid
<1>. QED
  BY <1>5, <1>7, <1>8 DEF Says

\* A symbol added is what the newest line says.
LEMMA AddSays ==
  ASSUME NEW tab, NEW all, NEW m \in Nat, Says(tab, all, m), all[m + 1] # Page,
         all[m + 1] \in [name : DOMAIN NameHash, value : Nat]
  PROVE  /\ Says(sym_add(tab, all[m + 1].name, all[m + 1].value), all, m + 1)
         /\ Len(sym_add(tab, all[m + 1].name, all[m + 1].value).syms) = Len(tab.syms) + 1
<1>. DEFINE next == m + 1
            line == all[m + 1]
            new == sym_add(tab, line.name, line.value)
            count == Len(tab.syms)
<1>1. WellFormed(tab) /\ line.name \in DOMAIN NameHash /\ line.value \in Nat
  BY DEF Says
<1>2. Added(tab, new, line.name, line.value)
  BY <1>1, AddTable
<1>3. count \in Nat /\ next \in Nat /\ next \in 1..next /\ line = all[next] /\ line # Page
  BY <1>1 DEF WellFormed, Tables
<1>4. \A j \in 1..next : j \in 1..m \/ j = next
  OBVIOUS
<1>5. 1..m \subseteq 1..next /\ \A j \in 1..next : ~(j > next)
  OBVIOUS
<1>. HIDE DEF next, line, new
<1>6. /\ WellFormed(new) /\ Len(new.syms) = count + 1
      /\ new.syms[count + 1].name = line.name /\ new.syms[count + 1].value = line.value
      /\ \A i \in 1..count : new.syms[i] = tab.syms[i]
  BY <1>2 DEF Added
<1>7. ASSUME NEW n \in DOMAIN NameHash
      PROVE  NameSaid(new, all, next, n)
  <2>1. NameSaid(tab, all, m, n)
    BY DEF Says
  <2>2. sym_find1(new, n) = IF n = line.name THEN count + 1 ELSE sym_find1(tab, n)
    BY <1>2 DEF Added
  <2>3. CASE n = line.name
    <3>1. sym_find1(new, n) = count + 1 /\ count + 1 # 0
      BY <1>3, <2>2, <2>3
    <3>2. LastNamed(all, next, next, n)
      BY <1>3, <1>5, <2>3 DEF LastNamed, Named
    <3>3. new.syms[sym_find1(new, n)].value = all[next].value
      BY <1>3, <1>6, <3>1
    <3>. QED
      BY <1>3, <3>1, <3>2, <3>3 DEF NameSaid
  <2>4. CASE n # line.name
    <3>1. sym_find1(new, n) = sym_find1(tab, n) /\ ~Named(all[next], n)
      BY <1>3, <2>2, <2>4 DEF Named
    <3>2. sym_find1(tab, n) # 0 => sym_find1(tab, n) \in 1..count
      BY <1>1, FoundIsCalled DEF Called
    <3>3. CASE sym_find1(tab, n) = 0
      BY <1>4, <2>1, <3>1, <3>3 DEF NameSaid
    <3>4. CASE sym_find1(tab, n) # 0
      <4>1. PICK k \in 1..m :
              LastNamed(all, m, k, n) /\ tab.syms[sym_find1(tab, n)].value = all[k].value
        BY <2>1, <3>4 DEF NameSaid
      <4>2. k \in 1..next /\ LastNamed(all, next, k, n)
        BY <1>4, <1>5, <3>1, <4>1 DEF LastNamed
      <4>3. new.syms[sym_find1(new, n)].value = all[k].value
        BY <1>6, <3>1, <3>2, <3>4, <4>1
      <4>. QED
        BY <3>1, <3>4, <4>2, <4>3 DEF NameSaid
    <3>. QED
      BY <3>3, <3>4
  <2>. QED
    BY <2>3, <2>4
<1>8. ASSUME NEW v \in Nat
      PROVE  ValueSaid(new, all, next, v)
  <2>1. ValueSaid(tab, all, m, v)
    BY DEF Says
  <2>2. sym_lookup(new, v) = IF v = line.value THEN count + 1 ELSE sym_lookup(tab, v)
    BY <1>2 DEF Added
  <2>3. CASE v = line.value
    <3>1. sym_lookup(new, v) = count + 1 /\ count + 1 # 0
      BY <1>3, <2>2, <2>3
    <3>2. LastValued(all, next, next, v)
      BY <1>3, <1>5, <2>3 DEF LastValued, Valued
    <3>3. new.syms[sym_lookup(new, v)].name = all[next].name
      BY <1>3, <1>6, <3>1
    <3>. QED
      BY <1>3, <3>1, <3>2, <3>3 DEF ValueSaid
  <2>4. CASE v # line.value
    <3>1. sym_lookup(new, v) = sym_lookup(tab, v) /\ ~Valued(all[next], v)
      BY <1>3, <2>2, <2>4 DEF Valued
    <3>2. sym_lookup(tab, v) # 0 => sym_lookup(tab, v) \in 1..count
      BY <1>1, LookedUpIsWorth DEF Worth
    <3>3. CASE sym_lookup(tab, v) = 0
      BY <1>4, <2>1, <3>1, <3>3 DEF ValueSaid
    <3>4. CASE sym_lookup(tab, v) # 0
      <4>1. PICK k \in 1..m :
              LastValued(all, m, k, v) /\ tab.syms[sym_lookup(tab, v)].name = all[k].name
        BY <2>1, <3>4 DEF ValueSaid
      <4>2. k \in 1..next /\ LastValued(all, next, k, v)
        BY <1>4, <1>5, <3>1, <4>1 DEF LastValued
      <4>3. new.syms[sym_lookup(new, v)].name = all[k].name
        BY <1>6, <3>1, <3>2, <3>4, <4>1
      <4>. QED
        BY <3>1, <3>4, <4>2, <4>3 DEF ValueSaid
    <3>. QED
      BY <3>3, <3>4
  <2>. QED
    BY <2>3, <2>4
<1>9. Says(new, all, next) /\ Len(new.syms) = count + 1
  BY <1>6, <1>7, <1>8 DEF Says
<1>. QED
  BY <1>9 DEF next, line, new

\* load_map_file after m lines: the table, and the symbol whose size the next
\* line gives.
Reading(state, all, m) ==
  /\ state \in [tab : Tables, last : Nat]
  /\ state.last <= Len(state.tab.syms)
  /\ Says(state.tab, all, m)

\* One line of a map.
LEMMA LineSays ==
  ASSUME NEW state, NEW all, NEW m \in Nat, Reading(state, all, m), all[m + 1] \in MapLines
  PROVE  Reading(MapLine(state, all[m + 1]), all, m + 1)
<1>. DEFINE line == all[m + 1]
            sized == IF state.last = 0 THEN state.tab
                     ELSE [state.tab EXCEPT !.syms[state.last].size =
                                                  line.value - state.tab.syms[state.last].value]
            new == sym_add(sized, line.name, line.value)
<1>1. /\ state \in [tab : Tables, last : Nat] /\ state.tab \in Tables /\ state.last \in Nat
      /\ Says(state.tab, all, m) /\ state.tab.syms \in Seq(Symbols)
      /\ Len(state.tab.syms) \in Nat /\ state.last <= Len(state.tab.syms)
  BY DEF Reading, Tables
<1>2. CASE line = Page
  <2>1. MapLine(state, line) = [state EXCEPT !.last = 0]
    BY <1>2 DEF MapLine
  <2>2. MapLine(state, line) \in [tab : Tables, last : Nat]
        /\ MapLine(state, line).tab = state.tab /\ MapLine(state, line).last = 0
    BY <1>1, <2>1
  <2>3. Says(state.tab, all, m + 1)
    BY <1>1, <1>2, PageSays
  <2>. QED
    BY <1>1, <2>2, <2>3 DEF Reading
<1>3. CASE line # Page
  <2>1. line \in [name : DOMAIN NameHash, value : Nat]
    BY <1>3 DEF MapLines
  <2>2. Says(sized, all, m) /\ Len(sized.syms) = Len(state.tab.syms)
    <3>1. CASE state.last = 0
      BY <1>1, <3>1
    <3>2. CASE state.last # 0
      <4>1. state.last \in 1..Len(state.tab.syms)
        BY <1>1, <3>2
      <4>2. state.tab.syms[state.last] \in Symbols
        BY <1>1, <4>1
      <4>3. line.value - state.tab.syms[state.last].value \in Int
        BY <2>1, <4>2 DEF Symbols
      <4>4. sized = [state.tab EXCEPT !.syms[state.last].size =
                                            line.value - state.tab.syms[state.last].value]
        BY <3>2
      <4>. HIDE DEF sized
      <4>. QED
        BY <1>1, <4>1, <4>3, <4>4, SizeSays
    <3>. QED
      BY <3>1, <3>2
  <2>3. MapLine(state, line) = [tab |-> new, last |-> Len(state.tab.syms) + 1]
    BY <1>3 DEF MapLine
  <2>. HIDE DEF sized
  <2>4. Says(new, all, m + 1) /\ Len(new.syms) = Len(state.tab.syms) + 1
    BY <1>3, <2>1, <2>2, AddSays
  <2>5. new \in Tables
    BY <2>4 DEF Says, WellFormed
  <2>. HIDE DEF new
  <2>. QED
    BY <1>1, <2>3, <2>4, <2>5 DEF Reading
<1>. QED
  BY <1>2, <1>3

\* The recursion over the lines of a map is well founded: there is a function
\* that gives the state after each of them.
Read(tab, lines, f, n) ==
  IF n = 0 THEN [tab |-> tab, last |-> 0] ELSE MapLine(f[n - 1], lines[n])

\* By the least number of lines for which there is none.
LEMMA ReadExists ==
  ASSUME NEW tab, NEW lines, NEW count \in Nat
  PROVE  \E f : f = [n \in 0..count |-> Read(tab, lines, f, n)]
<1>. DEFINE Done(m) == \E f : f = [n \in 0..m |-> Read(tab, lines, f, n)]
            Bad == {m \in Nat : ~Done(m)}
<1>1. Done(0)
  <2>. DEFINE start == [tab |-> tab, last |-> 0]
              f == [n \in 0..0 |-> start]
  <2>1. \A n \in 0..0 : Read(tab, lines, f, n) = start
    BY DEF Read
  <2>2. f = [n \in 0..0 |-> Read(tab, lines, f, n)]
    BY <2>1
  <2>. QED
    BY <2>2
<1>2. ASSUME NEW m \in Nat, Done(m)
      PROVE  Done(m + 1)
  <2>. DEFINE next == m + 1
  <2>1. PICK f : f = [n \in 0..m |-> Read(tab, lines, f, n)]
    BY <1>2
  <2>. DEFINE g == [n \in 0..next |-> IF n = next THEN MapLine(f[m], lines[next]) ELSE f[n]]
  <2>2. ASSUME NEW n \in 0..next
        PROVE  g[n] = Read(tab, lines, g, n)
    <3>1. CASE n = 0
      BY <2>1, <3>1 DEF Read
    <3>2. CASE n # 0 /\ n # next
      <4>1. n \in 0..m /\ n - 1 \in 0..m /\ n - 1 \in 0..next /\ n - 1 # next
        BY <3>2
      <4>2. g[n] = f[n] /\ g[n - 1] = f[n - 1]
        BY <3>2, <4>1
      <4>3. f[n] = Read(tab, lines, f, n)
        BY <2>1, <4>1
      <4>. HIDE DEF g
      <4>. QED
        BY <3>2, <4>2, <4>3 DEF Read
    <3>3. CASE n = next
      <4>1. n # 0 /\ n - 1 = m /\ m \in 0..next /\ m # next
        BY <3>3
      <4>2. g[n] = MapLine(f[m], lines[next]) /\ g[m] = f[m]
        BY <3>3, <4>1
      <4>. HIDE DEF g, next
      <4>. QED
        BY <3>3, <4>1, <4>2 DEF Read
    <3>. QED
      BY <3>1, <3>2, <3>3
  <2>3. g = [n \in 0..next |-> g[n]]
    OBVIOUS
  <2>. HIDE DEF g, next
  <2>4. g = [n \in 0..next |-> Read(tab, lines, g, n)]
    BY <2>2, <2>3
  <2>5. Done(next)
    BY <2>4
  <2>. QED
    BY <2>5 DEF next
<1>. HIDE DEF Done
<1>3. Bad = {}
  <2>. SUFFICES ASSUME Bad # {} PROVE FALSE
    OBVIOUS
  <2>1. Bad \subseteq Nat
    OBVIOUS
  <2>2. Min(Bad) \in Bad /\ \A m \in Bad : Min(Bad) <= m
    BY <2>1, LeastNumber
  <2>3. PICK least \in Nat : ~Done(least) /\ \A m \in Nat : ~Done(m) => least <= m
    BY <2>2
  <2>4. least # 0
    BY <1>1, <2>3
  <2>5. least - 1 \in Nat /\ ~(least <= least - 1) /\ (least - 1) + 1 = least
    BY <2>4
  <2>6. Done(least - 1)
    BY <2>3, <2>5
  <2>7. Done((least - 1) + 1)
    BY <1>2, <2>5, <2>6
  <2>. QED
    BY <2>3, <2>5, <2>7
<1>4. Done(count)
  BY <1>3
<1>. QED
  BY <1>4 DEF Done

\* What load_map_file computes: the table after the last line.
LEMMA LoadIsRead ==
  ASSUME NEW tab, NEW lines, Len(lines) \in Nat
  PROVE  \E f : /\ f = [n \in 0..Len(lines) |-> Read(tab, lines, f, n)]
                /\ load_map_file(tab, lines) = f[Len(lines)].tab
<1>. DEFINE read == CHOOSE f : f = [n \in 0..Len(lines) |-> Read(tab, lines, f, n)]
<1>1. read = [n \in 0..Len(lines) |-> Read(tab, lines, read, n)]
  BY ReadExists
<1>2. load_map_file(tab, lines) = read[Len(lines)].tab
  BY DEF load_map_file, Read
<1>. QED
  BY <1>1, <1>2

\* All lines of a map, in order.
LEMMA LoadSays ==
  ASSUME NEW tab, NEW before \in Seq(MapLines), NEW lines \in Seq(MapLines),
         Says(tab, before, Len(before))
  PROVE  Says(load_map_file(tab, lines), before \o lines, Len(before \o lines))
<1>. DEFINE all == before \o lines
            m == Len(before)
            count == Len(lines)
<1>1. /\ m \in Nat /\ count \in Nat /\ Len(all) = m + count
      /\ \A k \in 1..m : all[k] = before[k]
      /\ \A k \in 1..count : all[m + k] = lines[k] /\ lines[k] \in MapLines
  OBVIOUS
<1>2. PICK f : /\ f = [n \in 0..count |-> Read(tab, lines, f, n)]
               /\ load_map_file(tab, lines) = f[count].tab
  BY <1>1, LoadIsRead
<1>. HIDE DEF all, m, count
<1>3. Says(tab, all, m)
  <2>1. Says(tab, before, m)
    BY DEF m
  <2>2. ASSUME NEW n \in DOMAIN NameHash
        PROVE  NameSaid(tab, all, m, n)
    <3>1. NameSaid(tab, before, m, n)
      BY <2>1 DEF Says
    <3>. QED
      BY <1>1, <3>1 DEF NameSaid, LastNamed
  <2>3. ASSUME NEW v \in Nat
        PROVE  ValueSaid(tab, all, m, v)
    <3>1. ValueSaid(tab, before, m, v)
      BY <2>1 DEF Says
    <3>. QED
      BY <1>1, <3>1 DEF ValueSaid, LastValued
  <2>. QED
    BY <2>1, <2>2, <2>3 DEF Says
<1>4. Reading(f[0], all, m)
  <2>1. f[0] = [tab |-> tab, last |-> 0]
    BY <1>1, <1>2 DEF Read
  <2>2. tab \in Tables /\ Len(tab.syms) \in Nat
    BY <1>3 DEF Says, WellFormed, Tables
  <2>. QED
    BY <1>3, <2>1, <2>2 DEF Reading
<1>5. ASSUME NEW n \in Nat, n < count, Reading(f[n], all, m + n)
      PROVE  Reading(f[n + 1], all, m + (n + 1))
  <2>. DEFINE next == n + 1
              at == m + n
  <2>1. next \in 0..count /\ next # 0 /\ next - 1 = n /\ next \in 1..count /\ at \in Nat
        /\ at + 1 = m + next
    BY <1>1, <1>5
  <2>. HIDE DEF next
  <2>2. f[next] = MapLine(f[n], lines[next])
    BY <1>2, <2>1 DEF Read
  <2>3. all[at + 1] = lines[next] /\ lines[next] \in MapLines
    BY <1>1, <2>1
  <2>4. Reading(f[n], all, at)
    BY <1>5
  <2>. HIDE DEF at
  <2>5. Reading(MapLine(f[n], all[at + 1]), all, at + 1)
    BY <2>1, <2>3, <2>4, LineSays
  <2>6. Reading(f[next], all, m + next)
    BY <2>1, <2>2, <2>3, <2>5
  <2>. QED
    BY <2>6 DEF next
<1>. DEFINE Fine(n) == Reading(f[n], all, m + n)
            Bad == {n \in Nat : n <= count /\ ~Fine(n)}
<1>6. Fine(0)
  BY <1>1, <1>4
<1>7. \A n \in Nat : n < count /\ Fine(n) => Fine(n + 1)
  BY <1>5
<1>. HIDE DEF Fine
<1>8. Bad = {}
  <2>. SUFFICES ASSUME Bad # {} PROVE FALSE
    OBVIOUS
  <2>1. Bad \subseteq Nat
    OBVIOUS
  <2>2. Min(Bad) \in Bad /\ \A n \in Bad : Min(Bad) <= n
    BY <2>1, LeastNumber
  <2>3. PICK least \in Nat :
          least <= count /\ ~Fine(least) /\ \A n \in Nat : n <= count /\ ~Fine(n) => least <= n
    BY <2>2
  <2>4. least # 0
    BY <1>6, <2>3
  <2>5. /\ least - 1 \in Nat /\ least - 1 <= count /\ least - 1 < count
        /\ ~(least <= least - 1) /\ (least - 1) + 1 = least
    BY <1>1, <2>3, <2>4
  <2>6. Fine(least - 1)
    BY <2>3, <2>5
  <2>7. Fine((least - 1) + 1)
    BY <1>7, <2>5, <2>6
  <2>. QED
    BY <2>3, <2>5, <2>7
<1>9. Fine(count)
  BY <1>1, <1>8
<1>10. Says(f[count].tab, all, m + count)
  BY <1>9 DEF Fine, Reading
<1>. QED
  BY <1>1, <1>2, <1>10 DEF all

(***************************************************************************)
(* The variables.                                                          *)
(***************************************************************************)

\* What a search of one name finds is not touched by set of another.
LEMMA SetTable ==
  ASSUME NEW tab, WellFormed(tab), NEW name \in DOMAIN NameHash, NEW value \in Nat,
         NEW new, new = sym_set(tab, name, value)
  PROVE  /\ WellFormed(new)
         /\ sym_find1(new, name) # 0 /\ new.syms[sym_find1(new, name)].value = value
         /\ \A n \in DOMAIN NameHash \ {name} :
              /\ sym_find1(new, n) = sym_find1(tab, n)
              /\ sym_find1(tab, n) # 0 =>
                   new.syms[sym_find1(tab, n)].value = tab.syms[sym_find1(tab, n)].value
<1>. DEFINE i == sym_find1(tab, name)
            count == Len(tab.syms)
<1>1. tab.syms \in Seq(Symbols) /\ count \in Nat
  BY DEF WellFormed, Tables
<1>2. ASSUME NEW n \in DOMAIN NameHash, sym_find1(tab, n) # 0
      PROVE  sym_find1(tab, n) \in 1..count /\ tab.syms[sym_find1(tab, n)].name = n
  BY <1>2, FoundIsCalled DEF Called
<1>3. CASE i = 0
  <2>1. new = sym_add(tab, name, value)
    BY <1>3 DEF sym_set
  <2>2. Added(tab, new, name, value)
    BY <2>1, AddTable
  <2>. QED
    BY <1>1, <1>2, <2>2 DEF Added
<1>4. CASE i # 0
  <2>. DEFINE symbol == [tab.syms[i] EXCEPT !.value = value]
  <2>1. i \in 1..count /\ tab.syms[i].name = name
    BY <1>2, <1>4
  <2>2. tab.syms[i] \in Symbols
    BY <1>1, <2>1
  <2>3. symbol \in Symbols /\ symbol.name = name /\ symbol.value = value
    BY <2>1, <2>2 DEF Symbols
  <2>4. new = [tab EXCEPT !.syms[i].value = value]
    BY <1>4 DEF sym_set
  <2>5. Gives(tab, new, i, symbol)
    BY <2>4 DEF Gives
  <2>. HIDE DEF symbol, i
  <2>6. Given(tab, new, i, symbol)
    BY <2>1, <2>3, <2>5, SymbolChanged, Zenon
  <2>7. /\ WellFormed(new) /\ new.by_name = tab.by_name
        /\ Len(new.syms) = Len(tab.syms) /\ new.syms[i] = symbol
        /\ \A j \in 1..count : j # i => new.syms[j] = tab.syms[j]
    BY <2>6 DEF Given
  <2>8. \A j \in 1..Len(tab.syms) : new.syms[j].name = tab.syms[j].name
    BY <2>1, <2>3, <2>7
  <2>9. \A n \in DOMAIN NameHash : sym_find1(new, n) = sym_find1(tab, n)
    BY <2>7, <2>8, SameNames
  <2>10. sym_find1(new, name) = i
    BY <2>9 DEF i
  <2>11. ASSUME NEW n \in DOMAIN NameHash \ {name}, sym_find1(tab, n) # 0
         PROVE  new.syms[sym_find1(tab, n)].value = tab.syms[sym_find1(tab, n)].value
    <3>1. sym_find1(tab, n) \in 1..count /\ tab.syms[sym_find1(tab, n)].name = n
      BY <1>2, <2>11
    <3>2. sym_find1(tab, n) # i
      BY <2>1, <3>1
    <3>. QED
      BY <2>7, <3>1, <3>2
  <2>. QED
    BY <1>4, <2>3, <2>7, <2>9, <2>10, <2>11
<1>. QED
  BY <1>3, <1>4

\* The variables have what they were last set to.
VariablesHold ==
  /\ WellFormed(internal) /\ latest \in [Variables -> Nat \cup {None}]
  /\ \A n \in Variables :
       LET i == sym_find1(internal, n)
       IN  IF i = 0 THEN latest[n] = None ELSE internal.syms[i].value = latest[n]

SymbolsHold ==
  /\ command_input \in Sources /\ loaded \in Seq(MapLines)
  /\ Says(program, loaded, Len(loaded))
  /\ VariablesHold

\* Nothing is found in an empty table.
LEMMA EmptySays ==
  /\ WellFormed(EmptyTable)
  /\ \A n \in DOMAIN NameHash : sym_find1(EmptyTable, n) = 0
  /\ \A v \in Nat : sym_lookup(EmptyTable, v) = 0
<1>1. /\ EmptyTable \in Tables
      /\ \A b \in Buckets : EmptyTable.by_name[b] = <<>> /\ EmptyTable.by_value[b] = <<>>
  BY DEF EmptyTable, Tables
<1>2. WellFormed(EmptyTable)
  BY <1>1 DEF WellFormed, Inside
<1>3. \A wanted : Hit(<<>>, wanted) = 0
  BY DEF Hit, Places
<1>. QED
  BY <1>1, <1>2, <1>3, FindIsHit, LookupIsHit, ValueBucket

\* set, whether or not the variable exists.
LEMMA SetSymbols ==
  ASSUME SymbolsHold, cmd_set
  PROVE  VariablesHold'
<1>1. VariablesHold
  BY DEF SymbolsHold
<1>2. PICK arg \in Words("set") :
        \/ UNCHANGED <<internal, latest>>
        \/ /\ arg # None /\ internal' = sym_set(internal, arg.name, arg.value)
           /\ latest' = [latest EXCEPT ![arg.name] = arg.value]
  BY DEF cmd_set
<1>3. CASE UNCHANGED <<internal, latest>>
  BY <1>1, <1>3 DEF VariablesHold
<1>4. CASE /\ arg # None /\ internal' = sym_set(internal, arg.name, arg.value)
           /\ latest' = [latest EXCEPT ![arg.name] = arg.value]
  <2>1. arg.name \in Variables /\ arg.value \in Nat /\ Variables \subseteq DOMAIN NameHash
    BY <1>4, SetNumber, LineAssumption DEF SymbolsHold
  <2>2. /\ WellFormed(internal')
        /\ sym_find1(internal', arg.name) # 0
        /\ internal'.syms[sym_find1(internal', arg.name)].value = arg.value
        /\ \A n \in DOMAIN NameHash \ {arg.name} :
             /\ sym_find1(internal', n) = sym_find1(internal, n)
             /\ sym_find1(internal, n) # 0 =>
                  internal'.syms[sym_find1(internal, n)].value =
                    internal.syms[sym_find1(internal, n)].value
    BY <1>1, <1>4, <2>1, SetTable DEF VariablesHold
  <2>3. latest' \in [Variables -> Nat \cup {None}]
    BY <1>1, <1>4, <2>1 DEF VariablesHold
  <2>4. ASSUME NEW n \in Variables
        PROVE  LET i == sym_find1(internal', n)
               IN  IF i = 0 THEN latest'[n] = None ELSE internal'.syms[i].value = latest'[n]
    <3>1. CASE n = arg.name
      <4>1. latest'[n] = arg.value
        BY <1>1, <1>4, <2>1, <3>1 DEF VariablesHold
      <4>. QED
        BY <2>2, <3>1, <4>1
    <3>2. CASE n # arg.name
      <4>1. latest'[n] = latest[n]
        BY <1>1, <1>4, <2>1, <3>2 DEF VariablesHold
      <4>2. n \in DOMAIN NameHash \ {arg.name}
        BY <2>1, <3>2
      <4>3. IF sym_find1(internal, n) = 0 THEN latest[n] = None
            ELSE internal.syms[sym_find1(internal, n)].value = latest[n]
        BY <1>1 DEF VariablesHold
      <4>. QED
        BY <2>2, <4>1, <4>2, <4>3
    <3>. QED
      BY <3>1, <3>2
  <2>. QED
    BY <2>2, <2>3, <2>4 DEF VariablesHold
<1>. QED
  BY <1>2, <1>3, <1>4

\* sym reads a map, or finds none.
LEMMA MapSymbols ==
  ASSUME SymbolsHold, cmd_symbol_file
  PROVE  loaded' \in Seq(MapLines) /\ Says(program', loaded', Len(loaded'))
<1>1. \/ UNCHANGED <<program, loaded>>
      \/ \E file \in DOMAIN Maps :
           program' = load_map_file(program, Maps[file]) /\ loaded' = loaded \o Maps[file]
  BY DEF cmd_symbol_file
<1>2. CASE UNCHANGED <<program, loaded>>
  BY <1>2 DEF SymbolsHold
<1>3. ASSUME NEW file \in DOMAIN Maps,
             program' = load_map_file(program, Maps[file]), loaded' = loaded \o Maps[file]
      PROVE  loaded' \in Seq(MapLines) /\ Says(program', loaded', Len(loaded'))
  <2>1. Maps[file] \in Seq(MapLines) /\ loaded \in Seq(MapLines)
    BY LineAssumption DEF MapLines, SymbolsHold
  <2>2. Says(program, loaded, Len(loaded))
    BY DEF SymbolsHold
  <2>3. Says(load_map_file(program, Maps[file]), loaded \o Maps[file], Len(loaded \o Maps[file]))
    BY <2>1, <2>2, LoadSays
  <2>4. loaded \o Maps[file] \in Seq(MapLines)
    BY <2>1
  <2>. QED
    BY <1>3, <2>3, <2>4
<1>. QED
  BY <1>1, <1>2, <1>3

\* Every step keeps the invariant.
LEMMA NextSymbols ==
  ASSUME SymbolsHold, command_input' \in Sources, [Next]_vars
  PROVE  SymbolsHold'
<1>1. (command_input \in Sources)'
  BY DEF Sources, Stdin
<1>2. CASE cmd_set
  <2>1. UNCHANGED <<program, loaded>>
    BY <1>2 DEF cmd_set
  <2>. QED
    BY <1>1, <1>2, <2>1, SetSymbols DEF SymbolsHold
<1>3. CASE cmd_symbol_file
  <2>1. UNCHANGED <<internal, latest>>
    BY <1>3 DEF cmd_symbol_file
  <2>2. VariablesHold'
    BY <2>1 DEF SymbolsHold, VariablesHold
  <2>. QED
    BY <1>1, <1>3, <2>2, MapSymbols DEF SymbolsHold
<1>4. CASE UNCHANGED symbols
  <2>1. UNCHANGED <<program, internal, latest, loaded>>
    BY <1>4 DEF symbols
  <2>2. VariablesHold'
    BY <2>1 DEF SymbolsHold, VariablesHold
  <2>. QED
    BY <1>1, <2>1, <2>2 DEF SymbolsHold
<1>5. cmd_set \/ cmd_symbol_file \/ UNCHANGED symbols
  <2>1. CASE Command
    BY <2>1 DEF Command, cmd_source, Ignored, cmd_continue, cmd_quit, EndOfFile
  <2>2. CASE EndOfInput \/ Fetch \/ Execute \/ Stopped \/ UNCHANGED vars
    BY <2>2 DEF EndOfInput, Fetch, Execute, Stopped, vars
  <2>. QED
    BY <2>1, <2>2 DEF Next
<1>. QED
  BY <1>2, <1>3, <1>4, <1>5

\* The last line of a kind is the newest.
LEMMA NewestName ==
  ASSUME loaded \in Seq(MapLines), NEW n,
         NEW k \in 1..Len(loaded), LastNamed(loaded, Len(loaded), k, n)
  PROVE  NewestNamed(n) = k
<1>. DEFINE S == {i \in 1..Len(loaded) : loaded[i] # Page /\ loaded[i].name = n}
<1>1. k \in S /\ \A i \in S : i <= k
  BY DEF LastNamed, Named
<1>2. Max(S) = k
  BY <1>1 DEF Max
<1>3. NewestNamed(n) = IF S # {} THEN Max(S) ELSE 0
  BY DEF NewestNamed, SelectLastInSeq
<1>. QED
  BY <1>1, <1>2, <1>3

\* The same for values.
LEMMA NewestValue ==
  ASSUME loaded \in Seq(MapLines), NEW v,
         NEW k \in 1..Len(loaded), LastValued(loaded, Len(loaded), k, v)
  PROVE  NewestValued(v) = k
<1>. DEFINE S == {i \in 1..Len(loaded) : loaded[i] # Page /\ loaded[i].value = v}
<1>1. k \in S /\ \A i \in S : i <= k
  BY DEF LastValued, Valued
<1>2. Max(S) = k
  BY <1>1 DEF Max
<1>3. NewestValued(v) = IF S # {} THEN Max(S) ELSE 0
  BY DEF NewestValued, SelectLastInSeq
<1>. QED
  BY <1>1, <1>2, <1>3

\* No line of a kind, no newest.
LEMMA NoNewestName ==
  ASSUME NEW n, \A j \in 1..Len(loaded) : ~Named(loaded[j], n)
  PROVE  NewestNamed(n) = 0
<1>. DEFINE S == {i \in 1..Len(loaded) : loaded[i] # Page /\ loaded[i].name = n}
<1>1. S = {}
  BY DEF Named
<1>2. NewestNamed(n) = IF S # {} THEN Max(S) ELSE 0
  BY DEF NewestNamed, SelectLastInSeq
<1>. QED
  BY <1>1, <1>2

\* The invariant is what the user relies on.
LEMMA SymbolsShown == SymbolsHold => SymbolsLatest
<1>. SUFFICES ASSUME SymbolsHold PROVE SymbolsLatest
  OBVIOUS
<1>1. loaded \in Seq(MapLines) /\ Says(program, loaded, Len(loaded)) /\ VariablesHold
  BY DEF SymbolsHold
<1>2. ASSUME NEW n \in DOMAIN NameHash
      PROVE  LET i == sym_find1(program, n)
                 k == NewestNamed(n)
             IN  IF i = 0 THEN k = 0 ELSE k # 0 /\ program.syms[i].value = loaded[k].value
  <2>1. NameSaid(program, loaded, Len(loaded), n)
    BY <1>1 DEF Says
  <2>2. CASE sym_find1(program, n) = 0
    <3>1. \A j \in 1..Len(loaded) : ~Named(loaded[j], n)
      BY <2>1, <2>2 DEF NameSaid
    <3>. QED
      BY <2>2, <3>1, NoNewestName
  <2>3. CASE sym_find1(program, n) # 0
    <3>1. PICK k \in 1..Len(loaded) :
            /\ LastNamed(loaded, Len(loaded), k, n)
            /\ program.syms[sym_find1(program, n)].value = loaded[k].value
      BY <2>1, <2>3 DEF NameSaid
    <3>2. NewestNamed(n) = k /\ k # 0
      BY <1>1, <3>1, NewestName
    <3>. QED
      BY <2>3, <3>1, <3>2
  <2>. QED
    BY <2>2, <2>3
<1>3. ASSUME NEW v \in {line.value : line \in ToSet(loaded) \ {Page}}
      PROVE  LET i == sym_lookup(program, v)
             IN  /\ i # 0
                 /\ program.syms[i].name = loaded[NewestValued(v)].name
  <2>1. PICK j \in 1..Len(loaded) : loaded[j] # Page /\ loaded[j].value = v
    BY <1>1 DEF ToSet
  <2>2. v \in Nat
    BY <1>1, <2>1 DEF MapLines
  <2>3. ValueSaid(program, loaded, Len(loaded), v)
    BY <1>1, <2>2 DEF Says
  <2>4. Valued(loaded[j], v)
    BY <2>1 DEF Valued
  <2>5. sym_lookup(program, v) # 0
    BY <2>3, <2>4 DEF ValueSaid
  <2>6. PICK k \in 1..Len(loaded) :
          /\ LastValued(loaded, Len(loaded), k, v)
          /\ program.syms[sym_lookup(program, v)].name = loaded[k].name
    BY <2>3, <2>5 DEF ValueSaid
  <2>7. NewestValued(v) = k
    BY <1>1, <2>6, NewestValue
  <2>. QED
    BY <2>5, <2>6, <2>7
<1>. QED
  BY <1>1, <1>2, <1>3 DEF SymbolsLatest, VariablesHold

\* What the user finds under a name or at a value is what was last said of it,
\* for every hash function, any number of chains and any maps and commands
\* (sym_add, sym_set, sym_find1, sym_lookup, load_map_file, cmd_set).
THEOREM SymbolsAreLatest == Spec => []SymbolsLatest
<1>1. Init => SymbolsHold
  <2>. SUFFICES ASSUME Init PROVE SymbolsHold
    OBVIOUS
  <2>1. command_input \in Sources
    BY DEF Init, command_init, Sources
  <2>2. loaded \in Seq(MapLines) /\ Len(loaded) = 0
    BY DEF Init
  <2>3. /\ program = EmptyTable /\ internal = EmptyTable
        /\ latest = [v \in Variables |-> None]
    BY DEF Init
  <2>4. Says(program, loaded, Len(loaded))
    BY <2>2, <2>3, EmptySays DEF Says, NameSaid, ValueSaid
  <2>5. VariablesHold
    BY <2>3, EmptySays, LineAssumption DEF VariablesHold
  <2>. QED
    BY <2>1, <2>2, <2>4, <2>5 DEF SymbolsHold
<1>2. SymbolsHold /\ [Next]_vars => SymbolsHold'
  BY NextSource, NextSymbols DEF SymbolsHold
<1>. QED
  BY <1>1, <1>2, SymbolsShown, PTL DEF Spec
=============================================================================
