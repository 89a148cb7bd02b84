------------------------------ MODULE Commands ------------------------------
(***************************************************************************)
(* The gdb commands of tools/gdb/stubs/__init__.py (vaview, gdtview,      *)
(* idtview) and what they hand to the core: the page-table root, and for  *)
(* gdtview/idtview the table base and limit. The root comes from the cr3  *)
(* of gdb's selected thread (_active_cr3) or from an argument; the table  *)
(* registers come from an argument or from Monitor.registers, the         *)
(* `info registers -a` dump split into one paragraph per CPU and indexed  *)
(* by current_cpuid() = thread id - 1.                                    *)
(*                                                                         *)
(* The guest is stopped, so every CPU's registers are fixed; they are     *)
(* chosen in Init. A dump is the sequence of its paragraphs: the index of *)
(* the CPU a paragraph describes, in QEMU's cpu_index order, or Blank for *)
(* one that is empty once stripped. Parsing a paragraph's text into       *)
(* numbers (fetch_gpr, fetch_cr, fetch_dt) is left out: a CPU paragraph   *)
(* stands for the values of that CPU's registers.                         *)
(***************************************************************************)
EXTENDS Integers, Sequences

CONSTANTS
  NCpu,      \* the CPUs of the guest: gdb threads 1..NCpu
  Cr3Vals,   \* the values a cr3 register may hold
  DtVals,    \* the (base, limit) pairs a GDTR or IDTR may hold
  ArgVals,   \* the numbers a user may type as an argument
  Layouts,   \* the paragraph sequences `info registers -a` may split into
  Blank,     \* a paragraph that is empty once stripped
  None

ASSUME NCpuAssumption == NCpu \in Nat \ {0}
ASSUME Cr3ValsAssumption == Cr3Vals \subseteq Nat /\ Cr3Vals # {}
ASSUME DtValsAssumption == DtVals \subseteq Nat \X Nat /\ DtVals # {}
ASSUME ArgValsAssumption == ArgVals \subseteq Nat /\ ArgVals # {}
ASSUME LayoutsAssumption ==
  /\ Layouts \subseteq Seq((0..(NCpu - 1)) \cup {Blank})
  /\ Layouts # {}

Cpus == 0..(NCpu - 1)
Kinds == {"gdt", "idt"}

(* The filter of Monitor.registers: a paragraph is kept when it is not  *)
(* empty once stripped.                                                  *)
NonEmpty(p) == p # Blank

(* QEMU's `info registers -a` prints one paragraph per CPU, in cpu_index *)
(* order from 0, with empty paragraphs in between at most: the non-empty *)
(* ones describe CPUs 0 .. n-1 in turn.                                  *)
ASSUME LayoutsOrderAssumption ==
  \A l \in Layouts : \E n \in 0..NCpu : SelectSeq(l, NonEmpty) = [k \in 1..n |-> k - 1]

VARIABLES
  cpu,     \* each CPU's registers: cr3, gdt and idt
  thread,  \* gdb's selected thread id
  call,    \* what the last command passed to the core, or None
  status   \* "idle", "ok" or "error" (GdbError or an exception)

vars == <<cpu, thread, call, status>>

(* _active_cr3: cr3 of the selected frame, cast to an unsigned 64-bit    *)
(* integer and used as it is.                                            *)
ActiveCr3 == cpu[thread - 1].cr3

(* Mutant: the thread id used as the paragraph index. *)
CurrentCpuidNoMinusOne == thread

(* current_cpuid: the thread id of the selected thread, minus one, after *)
(* asserting it lies in 1..len(inferior.threads()).                       *)
CurrentCpuid == thread - 1

(* Monitor.registers: the stripped non-empty paragraphs, enumerated; the *)
(* dict maps the position of a paragraph to the registers it holds.      *)
Registers(layout) ==
  LET cpuSplit == SelectSeq(layout, NonEmpty)
  IN  [i \in 0..(Len(cpuSplit) - 1) |-> cpu[cpuSplit[i + 1]]]

Init ==
  /\ cpu \in [Cpus -> [cr3 : Cr3Vals, gdt : DtVals, idt : DtVals]]
  /\ thread \in 1..NCpu
  /\ call = None
  /\ status = "idle"

(* The user selects another thread (gdb's `thread t`). *)
SelectThread(t) ==
  /\ thread' = t
  /\ UNCHANGED <<cpu, call, status>>

(* PageVisualizer.invoke with one argument: the root is the active cr3; *)
(* with two, the root is the first argument. resolve is then called.    *)
Vaview(args) ==
  /\ Len(args) \in {1, 2}
  /\ call' = [cmd |-> "vaview", thread |-> thread,
              root |-> IF Len(args) = 1 THEN ActiveCr3 ELSE args[1],
              rootSrc |-> IF Len(args) = 1 THEN "cr3" ELSE "arg",
              va |-> args[Len(args)]]
  /\ status' = "ok"
  /\ UNCHANGED <<cpu, thread>>

(* Any other number of arguments: GdbError with the usage text. *)
VaviewUsage(args) ==
  /\ Len(args) \notin {1, 2}
  /\ status' = "error"
  /\ UNCHANGED <<cpu, thread, call>>

(* _gdtidtargs without arguments: the root is the active cr3, and base  *)
(* and limit are regs[kind] of the monitor's entry for current_cpuid(). *)
GdtIdtFromMonitor(kind, layout) ==
  LET regs == Registers(layout)
  IN  /\ CurrentCpuid \in DOMAIN regs
      /\ call' = [cmd |-> kind, thread |-> thread, root |-> ActiveCr3,
                  rootSrc |-> "cr3", dt |-> regs[CurrentCpuid][kind],
                  dtSrc |-> "monitor"]
      /\ status' = "ok"
      /\ UNCHANGED <<cpu, thread>>

(* registers()[cpuid] raises KeyError: the dump has no entry at cpuid. *)
GdtIdtNoEntry(layout) ==
  /\ CurrentCpuid \notin DOMAIN Registers(layout)
  /\ status' = "error"
  /\ UNCHANGED <<cpu, thread, call>>

(* _gdtidtargs with two arguments (base, limit) under the active cr3, or *)
(* three (mapping, base, limit).                                         *)
GdtIdtFromArgs(kind, args) ==
  /\ Len(args) \in {2, 3}
  /\ call' = [cmd |-> kind, thread |-> thread,
              root |-> IF Len(args) = 2 THEN ActiveCr3 ELSE args[1],
              rootSrc |-> IF Len(args) = 2 THEN "cr3" ELSE "arg",
              dt |-> <<args[Len(args) - 1], args[Len(args)]>>,
              dtSrc |-> "arg"]
  /\ status' = "ok"
  /\ UNCHANGED <<cpu, thread>>

(* One argument, or more than three: GdbError("invalid args"). *)
GdtIdtInvalid(args) ==
  /\ Len(args) \notin {0, 2, 3}
  /\ status' = "error"
  /\ UNCHANGED <<cpu, thread, call>>

(* The argument lists a user may type: up to four numbers. *)
ArgLists == UNION {[1..n -> ArgVals] : n \in 0..4}

Next ==
  \/ \E t \in 1..NCpu : SelectThread(t)
  \/ \E args \in ArgLists : Vaview(args) \/ VaviewUsage(args)
  \/ \E kind \in Kinds :
       \/ \E layout \in Layouts :
            GdtIdtFromMonitor(kind, layout) \/ GdtIdtNoEntry(layout)
       \/ \E args \in ArgLists : GdtIdtFromArgs(kind, args) \/ GdtIdtInvalid(args)

Spec == Init /\ [][Next]_vars

-----------------------------------------------------------------------------
(* gdtview and idtview without arguments show the table of the CPU gdb  *)
(* has selected, walked through that same CPU's page tables: the base   *)
(* and limit taken from the monitor's dump and the root taken from gdb  *)
(* are both that CPU's, although one comes from the paragraph position  *)
(* in `info registers -a` and the other from gdb's selected frame.      *)
SelectedCpuTables ==
  (call # None /\ call.cmd \in Kinds /\ call.dtSrc = "monitor") =>
    /\ call.dt = cpu[call.thread - 1][call.cmd]
    /\ call.root = cpu[call.thread - 1].cr3

(* The PML4 base of a cr3 value: bits 12 and up. Bits 3 and 4 are PWT   *)
(* and PCD, and with CR4.PCIDE bits 0..11 are the PCID.                 *)
PML4Base(cr3) == (cr3 \div 4096) * 4096

(* spec.md 4.2: resolve reads the PML4 slot at root + pml4Index*8, root  *)
(* being the physical address of the PML4 table. A root the commands    *)
(* take from cr3 is that CPU's PML4 base.                               *)
RootIsPML4Base ==
  (call # None /\ call.rootSrc = "cr3") =>
    call.root = PML4Base(cpu[call.thread - 1].cr3)
=============================================================================
