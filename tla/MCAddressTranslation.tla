------------------------ MODULE MCAddressTranslation ------------------------
(***************************************************************************)
(* Instances of AddressTranslation for TLC: addresses of one bit per       *)
(* index.  Page <<0, 0>> holds code and data, <<0, 1>> the root page table *)
(* and <<1, 0>> the second level; page <<1, 1>> is the program buffer.     *)
(***************************************************************************)
EXTENDS AddressTranslationProps

MCSlave == {"ebr", "debug_ebr"}

MCDecodes ==
    [p \in {0, 1} \X {0, 1} |-> IF p = <<1, 1>> THEN {"debug_ebr"} ELSE {"ebr"}]

Leaf(p) == [v |-> TRUE, r |-> TRUE, w |-> TRUE, x |-> TRUE, u |-> TRUE,
            a |-> TRUE, d |-> TRUE, ppn |-> p]
Pointer(p) == [NoPte EXCEPT !.v = TRUE, !.ppn = p]

Tables(root, last) ==
    {[a \in {0, 1} \X {0, 1} \X {0, 1} |->
        CASE PageOf(a) = <<0, 1>> -> IF a[3] = 0 THEN r0 ELSE r1
          [] PageOf(a) = <<1, 0>> -> IF a[3] = 0 THEN l0 ELSE l1
          [] OTHER -> NoPte] : r0 \in root, r1 \in root, l0 \in last, l1 \in last}

SmallPages == Tables({Pointer(<<1, 0>>)}, {Leaf(<<0, 0>>), Leaf(<<1, 1>>)})
Superpages == Tables({Leaf(<<0, 0>>)}, {NoPte})

MCBoot    == <<0, 0, 0>>
MCProgbuf == <<1, 1, 0>>

MCPcs == {<<0, 0, 0>>, <<1, 0, 1>>}

Is(op)  == [op |-> op]
Satp(b) == [op |-> "satp", on |-> b, ppn |-> <<0, 1>>]

MCInstrs ==
    {Is("plain"), Is("mret"), Is("trap"), Satp(TRUE), Satp(FALSE),
     [op |-> "load", addr |-> <<0, 1, 1>>],
     [op |-> "store", addr |-> <<0, 0, 1>>, value |-> NoPte]}

WhileHalted == {"HALTED"} \X Mode
Never       == {}

ASSUME SoundSoftwareAssumption == PageTables = SmallPages => SoundSoftware
=============================================================================
