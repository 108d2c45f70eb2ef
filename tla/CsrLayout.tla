----------------------------- MODULE CsrLayout -----------------------------
(***************************************************************************)
(* The control and status registers (csr_handlers.py, csr/types.py), the   *)
(* instructions that reach them and the causes of a trap (priv_isa.py).    *)
(*                                                                         *)
(* A 32-bit word is the set of its bits that are one: csrrs is a union and *)
(* csrrc a difference, and a field of a layout is a set of bit positions.  *)
(***************************************************************************)
EXTENDS Naturals

Bit  == 0..31
Word == SUBSET Bit

(* Word w with the bits of a field replaced by those of v. *)
Put(w, field, v) == (w \ field) \cup (v \cap field)

(* Registers of the CSR unit.  mtime is left out: it only shows a counter. *)
CsrReg ==
    {"misa", "mtvec", "mtval", "mepc", "dpc", "mscratch", "mhartid", "mcause",
     "mtimecmp", "mstatus", "mie", "mip", "dcsr", "satp"}

(* The addresses a csr instruction may name.  No register answers to mip's
   address, class MIP has that of MIE. *)
CsrAddr  == (CsrReg \ {"mip"}) \cup {"unimplemented"}
DebugCsr == {"dpc", "dcsr"}

-----------------------------------------------------------------------------
(* MSTATUS_Layout, MIE_Layout, DCSR_Layout, MTVEC_Layout. *)
MieBit   == 3
MpieBit  == 7
Mpp      == {11, 12}
MsieBit  == 3     \* MIP_Layout has its bits at the same places
MtieBit  == 7
MeieBit  == 11
Step     == {2}
Cause    == 6..8
EbreakmBit == 15
Misaligning == {0, 1}     \* mtvec.mode, and the bits pc must not have
Interrupt == {31}

(* A privilege mode is what mstatus.mpp holds for it. *)
Mode    == SUBSET Mpp
Machine == Mpp
User    == {}

(* TrapCause: mcause.ecode. *)
FetchMisaligned  == {}
FetchAccessFault == {0}
IllegalInstr     == {1}
Breakpoint       == {0, 1}
LoadAccessFault  == {0, 2}
StoreAccessFault == {0, 1, 2}
EcallFromU       == {3}
EcallFromM       == {0, 1, 3}

(* IrqCause. *)
SoftwareIrq == {0, 1}
ExternalIrq == {0, 1, 3}

(* DCSR_DM_Entry_Cause, at its place in dcsr. *)
EbreakEntry  == {6}
HaltreqEntry == {6, 7}
StepEntry    == {8}

ResetValue(r) ==
    CASE r = "misa"  -> {8, 30}
      [] r = "mtvec" -> {5, 31}
      [] r = "dcsr"  -> {0, 1, 30}
      [] OTHER       -> {}

(* The fields a handler's latch_... method copies from the written value. *)
Writable(r) ==
    IF r \in {"misa", "mtval"} THEN {}
    ELSE IF r = "dcsr" THEN Step \cup {EbreakmBit}
    ELSE IF r = "satp" THEN (0..21) \cup {31}
    ELSE Bit

Written(r, old, new) == Put(old, Writable(r), new)

-----------------------------------------------------------------------------
(***************************************************************************)
(* Instructions.  A csr instruction carries the word its register rs1      *)
(* holds, and whether the field rs1 is zero; its immediate forms, too, use *)
(* the register and not the field.                                         *)
(***************************************************************************)
Func == {"RW", "RS", "RC", "RWI", "RSI", "RCI"}

Instr ==
    [op : {"plain", "mret", "ecall", "ebreak", "illegal"}]
      \cup [op : {"jump"}, to : Word]
      \cup [op : {"load", "store"}, addr : Word]
      \cup [op : {"csr"}, func : Func, csr : CsrAddr, x0 : BOOLEAN, val : Word]

NewValue(func, old, val) ==
    IF func \in {"RS", "RSI"} THEN old \cup val
    ELSE IF func \in {"RC", "RCI"} THEN old \ val
    ELSE val

(* csrrs and csrrc with x0 do not write. *)
OnlyReads(func, x0) == func \in {"RS", "RC"} /\ x0
=============================================================================
