----------------------------- MODULE MCJtagTap -----------------------------
(***************************************************************************)
(* An instance of JtagTap for TLC: codes of two bits, of which one names   *)
(* no register, a DMI register of two bits, a wider and a narrower one.    *)
(***************************************************************************)
EXTENDS JtagTapProps

MCIdcode   == <<1, 0>>
MCDtmcs    == <<0, 1>>
MCDmi      == <<1, 1>>
MCReadOnly == [i \in {MCIdcode, MCDtmcs} |-> IF i = MCIdcode THEN <<1, 0, 1>> ELSE <<1>>]

MCOpOf ==
    [m \in Message |->
        IF m = <<0, 0>> THEN "NOP" ELSE IF m = <<1, 1>> THEN "WRITE" ELSE "READ"]
MCAnswered == {<<1, 0>>}
MCResults  == {<<0, 0>>, <<0, 1>>}
=============================================================================
