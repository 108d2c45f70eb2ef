---------------------------- MODULE MCRunControl ----------------------------
(***************************************************************************)
(* Instances of RunControl for TLC: two addresses of user code, a program  *)
(* buffer of two words, one misaligned and one unmapped address.           *)
(***************************************************************************)
EXTENDS RunControlProps

MCAddr       == {"user0", "user1", "progbuf0", "progbuf1", "odd", "nowhere"}
MCMisaligned == {"odd"}
MCUnmapped   == {"nowhere"}

MCFollow ==
    [a \in MCAddr |-> CASE a = "user0"    -> "user1"
                        [] a = "user1"    -> "user0"
                        [] a = "progbuf0" -> "progbuf1"
                        [] OTHER          -> "nowhere"]

Is(op)      == [op |-> op]
JumpTo(a)   == [op |-> "jump", to |-> a]
SetDpc(a)   == [op |-> "dpc", to |-> a]
SetDcsr(s, e) == [op |-> "dcsr", step |-> s, ebreakm |-> e]

UserCode ==
    {Is("plain"), Is("mem"), Is("badmem"), Is("ebreak"), Is("trap"),
     JumpTo("odd"), JumpTo("nowhere"), SetDpc("user0"),
     [op |-> "mret", to |-> "user1"]}

(* A program buffer that ends in an ebreak and takes no trap. *)
SoundProgbuf ==
    {Is("plain"), Is("mem"), Is("csr"), Is("ebreak"),
     SetDpc("user0"), SetDpc("user1"),
     SetDcsr(TRUE, FALSE), SetDcsr(FALSE, TRUE)}

FaultyProgbuf == SoundProgbuf \cup {Is("badmem"), Is("trap")}

CodeWith(user, progbuf) ==
    [a \in MCAddr |-> CASE a \in {"user0", "user1"} -> user
                        [] a = "progbuf0" -> progbuf
                        [] a = "progbuf1" -> {Is("ebreak")}
                        [] OTHER          -> {}]

MCSoundCode  == CodeWith(UserCode, SoundProgbuf)
MCPlainCode  == CodeWith({Is("plain"), Is("ebreak")}, {Is("plain"), Is("ebreak")})
MCFaultyCode == CodeWith(UserCode, FaultyProgbuf)

ASSUME SoundCodeAssumption == Code = MCSoundCode => ProgbufIsSound

-----------------------------------------------------------------------------
(* Operations of the debugger. *)
Write(w) == [op |-> "WRITE", write |-> w]
Read(r)  == [op |-> "READ", reg |-> r]

Dmcontrol(active, halt, resume) ==
    Write([reg |-> "DMCONTROL", dmactive |-> active, haltreq |-> halt,
           resumereq |-> resume, otherHart |-> FALSE])

AccessRegister(kind, r, exec) ==
    Write([reg |-> "COMMAND",
           command |-> [cmdtype |-> "AccessRegister", transfer |-> kind,
                        regno |-> r, postexec |-> exec]])

RunOps ==
    {Dmcontrol(TRUE, FALSE, FALSE), Dmcontrol(TRUE, TRUE, FALSE),
     Dmcontrol(TRUE, FALSE, TRUE), Dmcontrol(TRUE, TRUE, TRUE)}

MCRunOps ==
    RunOps \cup {AccessRegister("none", X0, TRUE), Write([reg |-> "PROGBUF"])}

(* With dmactive going low again, and a hart that does not exist. *)
MCHandshakeOps ==
    MCRunOps
      \cup {Dmcontrol(FALSE, FALSE, FALSE),
            Write([reg |-> "DMCONTROL", dmactive |-> TRUE, haltreq |-> TRUE,
                   resumereq |-> FALSE, otherHart |-> TRUE])}

QuickAccess ==
    Write([reg |-> "COMMAND",
           command |-> [cmdtype |-> "other", transfer |-> "none",
                        regno |-> X0, postexec |-> FALSE]])

(* Every register the Debug Module handles, and every way a command ends. *)
MCAllOps ==
    {Dmcontrol(TRUE, FALSE, FALSE), Dmcontrol(TRUE, TRUE, FALSE), Dmcontrol(TRUE, FALSE, TRUE)}
      \cup {AccessRegister("none", X0, TRUE), AccessRegister("badsize", X0, FALSE),
            AccessRegister("badreg", X0, TRUE)}
      \cup {AccessRegister("read", r, FALSE) : r \in Reg \ {X0}}
      \cup {AccessRegister("write", r, r = X0) : r \in Reg}
      \cup {Write([reg |-> "DATA0", value |-> v]) : v \in Val}
      \cup {Write([reg |-> "ABSTRACTAUTO", autoexec |-> s]) : s \in {{}, {"DATA0"}}}
      \cup {QuickAccess, Write([reg |-> "PROGBUF"]), Write([reg |-> "unimplemented"]),
            Write([reg |-> "ABSTRACTCS", cmderr |-> {1}]),
            Read("DMSTATUS"), Read("unimplemented")}
=============================================================================
