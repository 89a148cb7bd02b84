--------------------------- MODULE CommandsProofs ---------------------------
(***************************************************************************)
(* Proofs about the gdb commands: gdtview and idtview without arguments   *)
(* show the tables of the CPU gdb has selected, for every number of CPUs, *)
(* every register values and every dump `info registers -a` may print.   *)
(***************************************************************************)
EXTENDS Commands, TLAPS

USE NCpuAssumption

(* The inductive invariant: the selected thread is one of the guest's.   *)
IInv == thread \in 1..NCpu /\ SelectedCpuTables

-----------------------------------------------------------------------------
(* Monitor.registers maps the key c of the selected thread's CPU to that *)
(* CPU's registers, whenever the dump has an entry at c.                  *)
LEMMA RegistersOfCpu ==
  ASSUME NEW layout \in Layouts, NEW c \in DOMAIN Registers(layout)
  PROVE  Registers(layout)[c] = cpu[c]
<1>1. PICK n \in 0..NCpu : SelectSeq(layout, NonEmpty) = [k \in 1..n |-> k - 1]
  BY LayoutsOrderAssumption
<1>2. Len([k \in 1..n |-> k - 1]) = n
  OBVIOUS
<1>3. Registers(layout) = [i \in 0..(n - 1) |-> cpu[i]]
  BY <1>1, <1>2 DEF Registers
<1>. QED
  BY <1>3

LEMMA InitIInv == Init => IInv
BY DEF Init, IInv, SelectedCpuTables

LEMMA NextIInv == IInv /\ [Next]_vars => IInv'
<1> SUFFICES ASSUME IInv, [Next]_vars PROVE IInv'
  OBVIOUS
<1>1. ASSUME NEW t \in 1..NCpu, SelectThread(t) PROVE IInv'
  BY <1>1 DEF SelectThread, IInv, SelectedCpuTables
<1>2. ASSUME NEW args \in ArgLists, Vaview(args) PROVE IInv'
  BY <1>2 DEF Vaview, IInv, SelectedCpuTables, Kinds
<1>3. ASSUME NEW args \in ArgLists, VaviewUsage(args) PROVE IInv'
  BY <1>3 DEF VaviewUsage, IInv, SelectedCpuTables
<1>4. ASSUME NEW kind \in Kinds, NEW layout \in Layouts,
             GdtIdtFromMonitor(kind, layout)
      PROVE  IInv'
  <2>1. CurrentCpuid \in DOMAIN Registers(layout)
    BY <1>4 DEF GdtIdtFromMonitor
  <2>2. Registers(layout)[thread - 1] = cpu[thread - 1]
    BY <2>1, RegistersOfCpu DEF CurrentCpuid
  <2>3. /\ call' = [cmd |-> kind, thread |-> thread, root |-> cpu[thread - 1].cr3,
                    rootSrc |-> "cr3", dt |-> cpu[thread - 1][kind],
                    dtSrc |-> "monitor"]
        /\ UNCHANGED <<cpu, thread>>
    BY <1>4, <2>2 DEF GdtIdtFromMonitor, CurrentCpuid, ActiveCr3
  <2>. QED
    BY <2>3 DEF IInv, SelectedCpuTables
<1>5. ASSUME NEW layout \in Layouts, GdtIdtNoEntry(layout) PROVE IInv'
  BY <1>5 DEF GdtIdtNoEntry, IInv, SelectedCpuTables
<1>6. ASSUME NEW kind \in Kinds, NEW args \in ArgLists, GdtIdtFromArgs(kind, args)
      PROVE  IInv'
  BY <1>6 DEF GdtIdtFromArgs, IInv, SelectedCpuTables
<1>7. ASSUME NEW args \in ArgLists, GdtIdtInvalid(args) PROVE IInv'
  BY <1>7 DEF GdtIdtInvalid, IInv, SelectedCpuTables
<1>8. CASE UNCHANGED vars
  BY <1>8 DEF vars, IInv, SelectedCpuTables
<1>. QED
  BY <1>1, <1>2, <1>3, <1>4, <1>5, <1>6, <1>7, <1>8 DEF Next

(* gdtview and idtview without arguments pass the core the GDTR or IDTR  *)
(* and the cr3 of one and the same CPU, the one gdb has selected, for    *)
(* every dump QEMU prints: current_cpuid's `threadid - 1` meets the      *)
(* 0-based enumeration of the non-empty paragraphs of Monitor.registers. *)
THEOREM SelectedCpuTablesInvariant == Spec => []SelectedCpuTables
<1>1. IInv => SelectedCpuTables
  BY DEF IInv
<1>. QED
  BY <1>1, InitIInv, NextIInv, PTL DEF Spec
=============================================================================
