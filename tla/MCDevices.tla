---------------------------- MODULE MCDevices ----------------------------
(***************************************************************************)
(* An instance of Devices for TLC: bytes of two bits, the higher of which  *)
(* is the sign, and four workloads: a program for each kind of device, and *)
(* one that has all ports ask at once.                                     *)
(***************************************************************************)
EXTENDS DevicesProps

Plus  == <<1, 0>>
Minus == <<0, 1>>
Both  == <<1, 1>>

Data(b0, b1, b2, b3) == [l \in Lanes |-> <<b0, b1, b2, b3>>[l + 1]]

Load(d, word, lsb, size, signed) ==
    [store |-> FALSE, size |-> size, signed |-> signed, dev |-> d,
     word |-> word, lsb |-> lsb, value |-> ZeroWord]
Store(d, word, lsb, size, data) ==
    [store |-> TRUE, size |-> size, signed |-> FALSE, dev |-> d,
     word |-> word, lsb |-> lsb, value |-> data]

(* Every load and store of word 0, and one of another word. *)
RamProgram ==
    {Load("ebr", 0, lsb, size, signed) : lsb \in 0..3, size \in {1, 2}, signed \in BOOLEAN}
      \cup {Store("ebr", 0, lsb, size, Data(Plus, Minus, ZeroByte, ZeroByte)) :
                lsb \in 0..3, size \in {1, 2, 4}}
      \cup {Load("ebr", 0, 0, 4, FALSE), Load("ebr", 0, 2, 4, FALSE)}

GpioProgram ==
    {Load("gpio", 0, 0, 4, FALSE), Load("gpio", 0, 3, 1, TRUE), Load("gpio", 1, 0, 4, FALSE),
     Store("gpio", 0, 0, 4, Data(Plus, Both, Minus, Plus)),
     Store("gpio", 0, 2, 2, Data(Both, Minus, ZeroByte, ZeroByte)),
     Store("gpio", 0, 1, 1, Data(ZeroByte, Plus, Plus, Plus)),
     Store("gpio", 1, 0, 4, Data(Both, Both, Both, Both)),
     Store("ebr", 1, 3, 1, Data(Minus, Plus, Plus, Plus)), Load("ebr", 1, 2, 2, TRUE)}

(* A byte store off the register's first byte sends zero bits. *)
UartProgram ==
    {Store("uart", DataReg, 0, size, Data(b, Plus, Plus, Plus)) :
        size \in {1, 4}, b \in {Plus, Minus, Both}}
      \cup {Store("uart", DataReg, 1, 1, Data(Both, Both, Both, Both)),
            Load("uart", BusyReg, 0, 4, FALSE), Store("uart", BusyReg, 0, 4, ZeroWord)}

MixedProgram ==
    {Load("ebr", 0, 0, 4, FALSE), Store("ebr", 0, 1, 1, Data(Minus, Plus, Plus, Plus)),
     Load("debug_ebr", 0, 1, 1, TRUE), Store("debug_ebr", 1, 2, 2, Data(Plus, Plus, Plus, Plus))}

Fetches     == {Load("ebr", 1, 0, 4, FALSE)}
DebugWrites == {Store("debug_ebr", 0, 0, 4, Data(Plus, Minus, Both, ZeroByte)),
                Store("debug_ebr", 1, 0, 4, ZeroWord)}

MCWorkloads ==
    {[debug |-> {}, dbus |-> RamProgram, ibus |-> {}],
     [debug |-> {}, dbus |-> GpioProgram, ibus |-> Fetches],
     [debug |-> DebugWrites, dbus |-> UartProgram, ibus |-> {}],
     [debug |-> DebugWrites, dbus |-> MixedProgram, ibus |-> Fetches]}
=============================================================================
