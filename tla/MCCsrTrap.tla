----------------------------- MODULE MCCsrTrap -----------------------------
(***************************************************************************)
(* Instances of CsrTrap for TLC: the address out of reset, that of the     *)
(* trap handler and the program buffer, each in a loop of its own with any *)
(* instruction of a small repertoire.  Addresses out of the reset values   *)
(* of mepc and dpc are not mapped.                                         *)
(***************************************************************************)
EXTENDS CsrTrapProps

MCBoot    == {31}
MCHandler == ResetValue("mtvec")
MCProgbuf == {3, 7, 9, 10, 11, 12, 14, 15}
MCMemory  == {MCBoot, MCHandler, MCProgbuf}

MCFollow == [a \in MCMemory |->
    IF a = MCBoot THEN MCHandler ELSE IF a = MCHandler THEN MCBoot ELSE a]

Op(op)     == [op |-> op]
At(op, a)  == [op |-> op, addr |-> a]
Csr(func, r, val) ==
    [op |-> "csr", func |-> func, csr |-> r, x0 |-> FALSE, val |-> val]
Read(r) == [op |-> "csr", func |-> "RS", csr |-> r, x0 |-> TRUE, val |-> {}]

(* The opcode, and for an illegal instruction nothing. *)
MCEncoding(i) == IF i.op = "csr" THEN {0, 1, 4, 5, 6} ELSE {}

Program(program, progbuf) ==
    [a \in MCMemory |-> IF a = MCProgbuf THEN progbuf ELSE program]

NoProgbuf == {Op("ebreak")}

(* Modes: the bits of mstatus, and what changes the mode. *)
Modes == Program(
    {Op("mret"), Op("ecall"), Csr("RW", "mstatus", {}),
     Csr("RW", "mstatus", {MpieBit, 11}), Csr("RW", "mepc", MCBoot)},
    NoProgbuf)

(* Registers: each function, and each kind of handler. *)
Functions == Program(
    {Csr(f, "mscratch", {0}) : f \in Func}
      \cup {Csr("RW", "mscratch", {0, 1}), Read("mscratch")},
    NoProgbuf)
Fields == Program(
    {Csr("RW", r, {0, 22, 31}) : r \in {"misa", "mtval", "satp"}}
      \cup {Csr("RW", "mie", {MtieBit}), Read("unimplemented")},
    NoProgbuf)

(* Faults: each cause, misaligned and unmapped addresses. *)
Accesses == Program(
    {At("load", MCBoot), At("load", {2, 3}), At("store", {0, 4}),
     [op |-> "jump", to |-> {1}], [op |-> "jump", to |-> {30}]},
    NoProgbuf)
Exceptions == Program(
    {Op("illegal"), Op("ebreak"), Csr("RS", "mtvec", {0}), Read("dpc"), Op("mret")},
    NoProgbuf)

(* Debug: a program that halts, and a program buffer with exceptions. *)
Debug == Program(
    {Op("ebreak"), Op("mret"), Csr("RC", "dcsr", {EbreakmBit})},
    {Op("ebreak"), Op("illegal"), Csr("RW", "dpc", MCBoot),
     Csr("RS", "dcsr", {2, 5, EbreakmBit})})

MCPrograms == {Modes, Functions, Fields, Accesses, Exceptions, Debug}

ASSUME QuietAssumption == QuietPrograms
=============================================================================
