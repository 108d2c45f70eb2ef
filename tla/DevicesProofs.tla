-------------------------- MODULE DevicesProofs --------------------------
(***************************************************************************)
(* Theorems about the devices and the way to them, for bytes of any        *)
(* length, bits of any duration, memories of any size and any programs.    *)
(***************************************************************************)
EXTENDS DevicesProps, SequenceTheorems, TLAPS

(* TypeOK, but for the receiver's share of it. *)
PortType ==
    /\ workload \in Workloads
    /\ \A p \in Port : request[p] \in workload[p] \cup {Nothing}
    /\ DOMAIN request = Port
    /\ answer \in [Port -> {<<>>} \cup {<<word>> : word \in Word}]
    /\ granted \subseteq Port

SlaveType ==
    /\ slave \in [Dev -> {"REQ", "WAIT", "RET", "DONE"}]
    /\ \A d \in Dev \ {"uart"} : slave[d] # "WAIT"
    /\ ramData \in [Ram -> Word] /\ datR \in [Dev -> Word]
    /\ memory \in [Cell -> Word] /\ pins \in Word

TxType ==
    /\ tx \in {"IDLE", "START", "DATA", "STOP"}
    /\ counter \in 0..Divisor - 1 /\ bitno \in 0..Bits - 1
    /\ latch \in Byte /\ line \in Bit
    /\ outstanding \in Seq(Byte)

-----------------------------------------------------------------------------
(* What the ports ask for. *)
LEMMA Accesses ==
    ASSUME NEW load \in Workloads, NEW p \in Port, NEW op \in load[p]
    PROVE  op \in Op /\ Legal(op) /\ op.dev \in Dev /\ op # Nothing
  <1>1. op \in Op /\ Legal(op)
    BY AccessAssumption
  <1>2. op.dev \in Dev
    BY <1>1 DEF Op
  <1>3. Nothing.dev \notin Dev
    BY DEF Nothing, Dev, Ram
  <1> QED BY <1>1, <1>2, <1>3

LEMMA OpFields ==
    ASSUME NEW op \in Op
    PROVE  /\ op.store \in BOOLEAN /\ op.size \in {1, 2, 4} /\ op.signed \in BOOLEAN
           /\ op.dev \in Dev /\ op.word \in Nat /\ op.lsb \in 0..3 /\ op.value \in Word
           /\ Lsb(op) \in 0..3
  BY DEF Op, Lsb

(* Who has the bus, and for what. *)
LEMMA BusFacts ==
    ASSUME PortType
    PROVE  /\ Owner \in Port
           /\ BusEn => /\ Owner \in granted /\ BusOp = request[Owner]
                       /\ request[Owner] \in workload[Owner]
                       /\ BusOp \in Op /\ Legal(BusOp) /\ BusOp.dev \in Dev
           /\ ~BusEn => BusOp = Nothing /\ BusOp.dev \notin Dev
  <1>1. Owner \in Port
    BY DEF Owner, Port
  <1>2. ASSUME BusEn
        PROVE  Owner \in granted /\ BusOp = request[Owner]
    <2>1. granted # {}
      BY <1>2 DEF BusEn, BusOp
    <2>2. Owner \in granted
      BY <2>1 DEF Owner, PortType, Port
    <2> QED BY <2>1, <2>2 DEF BusOp
  <1>3. ASSUME BusEn
        PROVE  /\ request[Owner] \in workload[Owner]
               /\ BusOp \in Op /\ Legal(BusOp) /\ BusOp.dev \in Dev
    <2>1. request[Owner] \in workload[Owner]
      BY <1>1, <1>2, <1>3 DEF BusEn, PortType
    <2> QED BY <2>1, <1>1, <1>2, <1>3, Accesses DEF PortType
  <1>4. Nothing.dev \notin Dev
    BY DEF Nothing, Dev, Ram
  <1> QED BY <1>1, <1>2, <1>3, <1>4 DEF BusEn

LEMMA CycFacts ==
    ASSUME PortType, NEW d \in Dev, Cyc(d)
    PROVE  BusEn /\ BusOp.dev = d /\ ~Ack
  BY BusFacts DEF Cyc

-----------------------------------------------------------------------------
(* The memory unit makes words out of words. *)
LEMMA ByteFacts == ZeroByte \in Byte /\ ZeroWord \in Word /\ Bits \in Nat \ {0}
  BY SizeAssumption DEF ZeroByte, ZeroWord, Byte, Word, Bit

LEMMA LoadedIsWord ==
    ASSUME NEW op \in Op, NEW word \in Word
    PROVE  Loaded(op, word) \in Word
  <1>1. \A l \in Int : Lane(word, l) \in Byte
    BY ByteFacts DEF Lane, Word, Lanes
  <1>2. ASSUME NEW byte \in Byte PROVE Fill(op, byte) \in Byte
    <2>1. byte[Bits] \in Bit
      BY ByteFacts DEF Byte
    <2> QED BY <2>1, ByteFacts DEF Fill, Byte
  <1>3. \A l \in Lanes : Lsb(op) + l \in Int /\ Lsb(op) + op.size - 1 \in Int
    BY OpFields DEF Lanes
  <1> QED BY <1>1, <1>2, <1>3, ByteFacts DEF Loaded, Word

LEMMA WriteDataIsWord ==
    ASSUME NEW op \in Op
    PROVE  WriteData(op) \in Word
  <1>1. ASSUME NEW l \in Mask(op) PROVE op.value[l - Lsb(op)] \in Byte
    <2>1. l - Lsb(op) \in Lanes
      BY OpFields DEF Mask, Lanes
    <2> QED BY <2>1, OpFields DEF Word
  <1> QED BY <1>1, ByteFacts DEF WriteData, Word

LEMMA MergedIsWord ==
    ASSUME NEW op \in Op, NEW word \in Word
    PROVE  Merged(op, word) \in Word
  BY WriteDataIsWord DEF Merged, Word

LEMMA FlagIsWord == \A b \in BOOLEAN : FlagWord(b) \in Word
  <1> SUFFICES ASSUME NEW b \in BOOLEAN PROVE FlagWord(b) \in Word
    OBVIOUS
  <1>1. [i \in 1..Bits |-> IF b /\ i = 1 THEN 1 ELSE 0] \in Byte
    BY DEF Byte, Bit
  <1> QED BY <1>1, ByteFacts DEF FlagWord, Word

-----------------------------------------------------------------------------
LEMMA PortTypeStep ==
    ASSUME PortType, SlaveType, Edge
    PROVE  PortType'
  <1>1. PICK b \in NextRequest("debug"), d \in NextRequest("dbus"), i \in NextRequest("ibus") :
            request' = [p \in Port |-> CASE p = "debug" -> b
                                         [] p = "dbus" -> d
                                         [] p = "ibus" -> i]
    BY DEF Edge, PortsStep
  <1>2. ASSUME NEW p \in Port
        PROVE  NextRequest(p) \subseteq workload[p] \cup {Nothing}
    BY DEF PortType, NextRequest, AccessesOf
  <1>3. \A p \in Port : request'[p] \in NextRequest(p)
    BY <1>1 DEF Port
  <1>4. answer' \in [Port -> {<<>>} \cup {<<word>> : word \in Word}]
    <2>1. ASSUME NEW p \in Port, PortAck(p)
          PROVE  Loaded(request[p], datR[request[p].dev]) \in Word
      <3>1. BusEn /\ p = Owner
        BY <2>1, BusFacts DEF PortAck, Owns, Ack
      <3>2. request[p] \in Op /\ request[p].dev \in Dev
        BY <3>1, BusFacts
      <3> QED BY <3>2, LoadedIsWord DEF SlaveType
    <2> QED BY <2>1 DEF Edge, PortsStep
  <1>5. workload' = workload /\ granted' \subseteq Port
    BY DEF Edge, PortsStep, LatchRequests, PortType
  <1>6. DOMAIN request' = Port
    BY <1>1
  <1> QED BY <1>2, <1>3, <1>4, <1>5, <1>6 DEF PortType

LEMMA SlaveTypeStep ==
    ASSUME PortType, SlaveType, Edge
    PROVE  SlaveType'
  <1>1. /\ slave' \in [Dev -> {"REQ", "WAIT", "RET", "DONE"}]
        /\ \A d \in Dev \ {"uart"} : slave'[d] # "WAIT"
    <2>1. MemoryStepOf("ebr") \in {"RET", "DONE"} /\ \A d \in Dev : MemoryStepOf(d) \in {"RET", "DONE"}
      BY DEF MemoryStepOf
    <2>2. slave["uart"] # "DONE" => UartStep \in {"REQ", "WAIT", "RET", "DONE"}
      BY DEF UartStep, SlaveType, Dev
    <2>3. slave' = [d \in Dev |-> IF slave[d] = "DONE" THEN "REQ"
                                  ELSE IF ~Cyc(d) THEN slave[d]
                                  ELSE IF d = "uart" THEN UartStep ELSE MemoryStepOf(d)]
      BY DEF Edge, SlaveStep
    <2> QED BY <2>1, <2>2, <2>3 DEF SlaveType
  <1>2. memory' \in [Cell -> Word]
    <2>1. CASE (\E d \in Dev : Taken(d)) /\ BusOp.store /\ CellOf(BusOp) \in Cell
      <3>1. BusOp \in Op
        BY <2>1, CycFacts, BusFacts DEF Taken
      <3>2. Merged(BusOp, memory[CellOf(BusOp)]) \in Word
        BY <2>1, <3>1, MergedIsWord DEF SlaveType
      <3>3. memory' = [memory EXCEPT ![CellOf(BusOp)] = Merged(BusOp, memory[CellOf(BusOp)])]
        BY <2>1 DEF Edge, MemoryStep
      <3> QED BY <3>2, <3>3 DEF SlaveType
    <2>2. CASE ~((\E d \in Dev : Taken(d)) /\ BusOp.store /\ CellOf(BusOp) \in Cell)
      BY <2>2 DEF Edge, MemoryStep, SlaveType
    <2> QED BY <2>1, <2>2
  <1>3. ramData' \in [Ram -> Word]
    <2>1. ASSUME NEW d \in Ram
          PROVE  <<d, IF Reads(d) THEN BusOp.word ELSE 0>> \in Cell
      <3>1. CASE Reads(d)
        <4>1. BusOp \in Op /\ Legal(BusOp) /\ BusOp.dev = d
          BY <3>1, CycFacts, BusFacts DEF Reads, Taken, Dev
        <4> QED BY <3>1, <4>1, OpFields, SizeAssumption DEF Legal, Cell
      <3>2. CASE ~Reads(d)
        BY <3>2, SizeAssumption DEF Cell
      <3> QED BY <3>1, <3>2
    <2> QED BY <2>1, <1>2 DEF Edge, RamStep
  <1>4. datR' \in [Dev -> Word]
    <2>1. Busy \in BOOLEAN
      BY DEF Busy, Sends
    <2>2. FlagWord(Busy) \in Word
      BY <2>1, FlagIsWord
    <2>3. memory[<<"gpio", 0>>] \in Word
      BY DEF SlaveType, Cell
    <2>4. datR' = [d \in Dev |->
            CASE d \in Ram -> IF Cyc(d) /\ slave[d] = "RET" THEN ramData[d] ELSE datR[d]
              [] d = "gpio" -> IF Reads(d) /\ BusOp.word = 0 THEN memory[<<d, 0>>] ELSE datR[d]
              [] d = "uart" -> IF Reads(d) THEN FlagWord(Busy) ELSE datR[d]]
      BY DEF Edge, DatRStep
    <2> QED BY <2>2, <2>3, <2>4 DEF SlaveType, Dev, Ram
  <1>5. pins' \in Word
    BY DEF Edge, PinsStep, SlaveType, Cell
  <1> QED BY <1>1, <1>2, <1>3, <1>4, <1>5 DEF SlaveType

LEMMA SentByte ==
    ASSUME PortType, Sends
    PROVE  /\ BusEn /\ BusOp \in Op /\ BusOp.store /\ BusOp.dev = "uart"
           /\ WriteData(BusOp)[0] \in Byte
  <1>1. BusEn /\ BusOp.dev = "uart" /\ BusOp.store
    BY CycFacts DEF Sends, Dev
  <1>2. BusOp \in Op
    BY <1>1, BusFacts
  <1>3. WriteData(BusOp) \in Word
    BY <1>2, WriteDataIsWord
  <1> QED BY <1>1, <1>2, <1>3 DEF Word, Lanes

LEMMA ShiftedByte ==
    ASSUME NEW byte \in Byte
    PROVE  /\ Append(Tail(byte), 0) \in Byte
           /\ \A i \in 1..Bits - 1 : Append(Tail(byte), 0)[i] = byte[i + 1]
  <1>1. Bits \in Nat \ {0}
    BY SizeAssumption
  <1>2. byte \in Seq(Bit) /\ Len(byte) = Bits
    BY <1>1 DEF Byte
  <1>3. byte # <<>>
    BY <1>1, <1>2, EmptySeq
  <1>4. /\ Tail(byte) \in Seq(Bit) /\ Len(Tail(byte)) = Bits - 1
        /\ \A i \in 1..Bits - 1 : Tail(byte)[i] = byte[i + 1]
    BY <1>1, <1>2, <1>3, HeadTailProperties
  <1>5. 0 \in Bit
    BY DEF Bit
  <1>6. /\ Append(Tail(byte), 0) \in Seq(Bit) /\ Len(Append(Tail(byte), 0)) = Bits
        /\ \A i \in 1..Bits - 1 : Append(Tail(byte), 0)[i] = Tail(byte)[i]
    BY <1>1, <1>4, <1>5, AppendProperties
  <1>7. Append(Tail(byte), 0) \in Byte
    BY <1>6, LenProperties DEF Byte
  <1> QED BY <1>4, <1>6, <1>7

LEMMA TxTypeStep ==
    ASSUME PortType, TxType, Edge
    PROVE  TxType'
  <1>1. counter' \in 0..Divisor - 1
    BY SizeAssumption DEF Edge, TxStep, CounterStep, Strobe, TxType
  <1>2. Bits \in Nat \ {0} /\ latch[1] \in Bit /\ Append(Tail(latch), 0) \in Byte
    BY SizeAssumption, ShiftedByte DEF TxType, Byte
  <1>3. /\ tx' \in {"IDLE", "START", "DATA", "STOP"} /\ bitno' \in 0..Bits - 1
        /\ latch' \in Byte /\ line' \in Bit
    <2>1. TxIdle \/ TxStart \/ TxShift \/ TxStop
      BY DEF Edge, TxStep
    <2>2. CASE TxIdle
      BY <2>2, SentByte DEF TxIdle, TxType, Bit
    <2>3. CASE TxStart
      BY <2>3 DEF TxStart, TxType, Bit
    <2>4. CASE TxShift
      <3>1. (bitno + 1) % Bits \in 0..Bits - 1
        BY <1>2 DEF TxType
      <3> QED BY <2>4, <3>1, <1>2 DEF TxShift, TxType
    <2>5. CASE TxStop
      BY <2>5 DEF TxStop, TxType, Bit
    <2> QED BY <2>1, <2>2, <2>3, <2>4, <2>5
  <1>4. outstanding' \in Seq(Byte)
    <2> DEFINE left == IF RxDone /\ outstanding # <<>> THEN Tail(outstanding) ELSE outstanding
    <2>1. left \in Seq(Byte)
      BY HeadTailProperties DEF TxType
    <2>2. outstanding' = IF Sends THEN Append(left, WriteData(BusOp)[0]) ELSE left
      BY DEF Edge, HistoryStep
    <2> HIDE DEF left
    <2> QED BY <2>1, <2>2, SentByte, AppendProperties
  <1> QED BY <1>1, <1>3, <1>4 DEF TxType

LEMMA InitTypes == Init => PortType /\ SlaveType /\ TxType
  <1> SUFFICES ASSUME Init PROVE PortType /\ SlaveType /\ TxType
    OBVIOUS
  <1>1. PortType
    BY DEF Init, PortType
  <1>2. SlaveType
    BY ByteFacts DEF Init, SlaveType, Ram, Dev
  <1>3. TxType
    BY ByteFacts, SizeAssumption DEF Init, TxType, Bit
  <1> QED BY <1>1, <1>2, <1>3

LEMMA StutterTypes ==
    ASSUME PortType, SlaveType, TxType, UNCHANGED vars
    PROVE  PortType' /\ SlaveType' /\ TxType'
  BY DEF vars, portVars, slaveVars, txVars, PortType, SlaveType, TxType

LEMMA Types == Spec => [](PortType /\ SlaveType /\ TxType)
  <1>1. PortType /\ SlaveType /\ TxType /\ [Edge]_vars => (PortType /\ SlaveType /\ TxType)'
    BY PortTypeStep, SlaveTypeStep, TxTypeStep, StutterTypes
  <1> QED BY <1>1, InitTypes, PTL DEF Spec

-----------------------------------------------------------------------------
(***************************************************************************)
(* An access keeps the bus until its slave has served it.                  *)
(***************************************************************************)
(* What a port asks for, from one cycle to the next. *)
LEMMA PortMoves ==
    ASSUME PortType, Edge, NEW p \in Port
    PROVE  /\ request[p] = Nothing => request'[p] \in workload[p] \cup {Nothing}
           /\ request[p] # Nothing /\ ~PortAck(p) => request'[p] = request[p]
           /\ request[p] # Nothing /\ PortAck(p) => request'[p] = Nothing
           /\ answer'[p] = IF PortAck(p)
                           THEN <<Loaded(request[p], datR[request[p].dev])>> ELSE <<>>
  <1>1. PICK b \in NextRequest("debug"), d \in NextRequest("dbus"), i \in NextRequest("ibus") :
            request' = [q \in Port |-> CASE q = "debug" -> b
                                         [] q = "dbus" -> d
                                         [] q = "ibus" -> i]
    BY DEF Edge, PortsStep
  <1>2. request'[p] \in NextRequest(p)
    BY <1>1 DEF Port
  <1>3. answer'[p] = IF PortAck(p)
                     THEN <<Loaded(request[p], datR[request[p].dev])>> ELSE <<>>
    BY DEF Edge, PortsStep
  <1> QED BY <1>2, <1>3 DEF NextRequest, AccessesOf

LEMMA BusIsHeld ==
    ASSUME PortType, Edge, BusEn, ~Ack
    PROVE  /\ granted' = granted /\ Owner' = Owner
           /\ request'[Owner] = request[Owner] /\ BusOp' = BusOp
  <1>1. granted' = granted
    BY DEF Edge, LatchRequests, BusFree
  <1>2. Owner' = Owner
    BY <1>1 DEF Owner
  <1>3. Owner \in Port /\ request[Owner] # Nothing /\ granted # {}
    BY BusFacts DEF BusEn
  <1>4. request'[Owner] = request[Owner]
    BY <1>3, PortMoves DEF PortAck
  <1> QED BY <1>1, <1>2, <1>3, <1>4 DEF BusOp

(* A slave is at work in the next cycle only if it is asked in this one. *)
LEMMA AtWork ==
    ASSUME PortType, SlaveType, SlavesServe, Edge, NEW d \in Dev, slave'[d] # "REQ"
    PROVE  /\ Cyc(d) /\ slave[d] # "DONE"
           /\ slave'[d] = IF d = "uart" THEN UartStep ELSE MemoryStepOf(d)
  <1>1. slave'[d] = IF slave[d] = "DONE" THEN "REQ"
                    ELSE IF ~Cyc(d) THEN slave[d]
                    ELSE IF d = "uart" THEN UartStep ELSE MemoryStepOf(d)
    BY DEF Edge, SlaveStep
  <1>2. slave[d] # "DONE"
    BY <1>1
  <1>3. ASSUME ~Cyc(d) PROVE FALSE
    <2>1. slave[d] # "REQ" /\ BusOp.dev = d
      BY <1>1, <1>2, <1>3 DEF SlavesServe
    <2>2. Ack
      BY <2>1, <1>3 DEF Cyc
    <2> QED BY <2>1, <2>2, <1>2 DEF Ack
  <1> QED BY <1>1, <1>2, <1>3

LEMMA SlavesServeStep ==
    ASSUME PortType, SlaveType, SlavesServe, Edge
    PROVE  SlavesServe'
  <1> SUFFICES ASSUME NEW d \in Dev, slave'[d] # "REQ" PROVE BusOp'.dev = d
    BY DEF SlavesServe
  <1>1. Cyc(d)
    BY AtWork
  <1> QED BY <1>1, CycFacts, BusIsHeld

(* No access finds a slave in the middle of another. *)
THEOREM SlavesAreServing == Spec => []SlavesServe
  <1>1. Init => SlavesServe
    BY DEF Init, SlavesServe
  <1>2. PortType /\ SlaveType /\ SlavesServe /\ [Edge]_vars => SlavesServe'
    <2> SUFFICES ASSUME PortType, SlaveType, SlavesServe, [Edge]_vars PROVE SlavesServe'
      OBVIOUS
    <2>1. CASE UNCHANGED vars
      BY <2>1 DEF SlavesServe, BusOp, Owner, vars, portVars, slaveVars
    <2> QED BY <2>1, SlavesServeStep
  <1> QED BY <1>1, <1>2, Types, PTL DEF Spec

-----------------------------------------------------------------------------
(***************************************************************************)
(* Words and bytes: what the masks and shifts of the memory unit do to the *)
(* bytes of DeviceContract.                                                *)
(***************************************************************************)
LEMMA ByteOfWord ==
    ASSUME NEW n \in Nat, NEW l \in 0..3
    PROVE  (4 * n + l) \div 4 = n /\ (4 * n + l) % 4 = l
  OBVIOUS

LEMMA Sizes ==
    /\ \A d \in Ram : Size[d] = 4 * Depth
    /\ Size["gpio"] = 4 /\ Size["uart"] = 0
    /\ Contract!Dev = Dev /\ Depth \in Nat \ {0}
  BY SizeAssumption DEF Size, Contract!Dev, Dev, Ram

LEMMA CellWords ==
    ASSUME NEW d \in Dev, NEW n \in Nat, <<d, n>> \in Cell
    PROVE  /\ Size[d] \in Nat /\ 4 * n + 3 < Size[d]
           /\ (d \in Ram /\ n < Depth) \/ (d = "gpio" /\ n = 0)
  <1>1. (d \in Ram /\ n < Depth) \/ (d = "gpio" /\ n = 0)
    <2>1. n <= Depth - 1 => n < Depth
      BY Sizes
    <2> QED BY <2>1 DEF Cell
  <1>2. Size[d] \in Nat /\ 4 * n + 3 < Size[d]
    <2>1. CASE d \in Ram /\ n < Depth
      BY <2>1, Sizes
    <2>2. CASE d = "gpio" /\ n = 0
      BY <2>2, Sizes
    <2> QED BY <1>1, <2>1, <2>2
  <1> QED BY <1>1, <1>2

LEMMA BytesOfCell ==
    ASSUME NEW d \in Dev, NEW n \in Nat, <<d, n>> \in Cell, NEW l \in 0..3
    PROVE  Bytes[d][4 * n + l] = memory[<<d, n>>][l]
  <1>1. 4 * n + l \in 0..Size[d] - 1
    BY CellWords
  <1>2. Bytes[d] = [a \in 0..Size[d] - 1 |-> memory[<<d, a \div 4>>][a % 4]]
    BY DEF Bytes
  <1>3. Bytes[d][4 * n + l] = memory[<<d, (4 * n + l) \div 4>>][(4 * n + l) % 4]
    BY <1>1, <1>2
  <1> QED BY <1>3, ByteOfWord

(* A load shows the bytes it names, and their sign. *)
LEMMA LoadShowsBytes ==
    ASSUME SlaveType, NEW op \in Op, ~op.store, CellOf(op) \in Cell, Contract!Contained(op)
    PROVE  Loaded(op, memory[CellOf(op)]) = Contract!Value(op, Bytes[op.dev])
  <1> DEFINE word == memory[CellOf(op)]
             mem == Bytes[op.dev]
  <1>1. /\ op.size \in {1, 2, 4} /\ op.lsb \in 0..3 /\ op.word \in Nat /\ op.dev \in Dev
        /\ op.lsb + op.size <= 4
    BY OpFields DEF Contract!Contained
  <1>2. Lsb(op) = op.lsb
    BY <1>1 DEF Lsb
  <1>3. word \in Word /\ \A l \in 0..3 : word[l] \in Byte
    BY DEF SlaveType, Word, Lanes
  <1>4. ASSUME NEW i \in 0..3, i < op.size
        PROVE  /\ Lane(word, Lsb(op) + i) = word[op.lsb + i]
               /\ mem[Contract!First(op) + i] = word[op.lsb + i]
    <2>1. op.lsb + i \in 0..3
      BY <1>1, <1>4
    <2>2. Lane(word, Lsb(op) + i) = word[op.lsb + i]
      BY <1>2, <2>1 DEF Lane, Lanes
    <2>3. Bytes[op.dev][4 * op.word + (op.lsb + i)] = memory[<<op.dev, op.word>>][op.lsb + i]
      BY <1>1, <2>1, BytesOfCell DEF CellOf
    <2>4. Contract!First(op) + i = 4 * op.word + (op.lsb + i)
      BY <1>1 DEF Contract!First
    <2> QED BY <2>2, <2>3, <2>4 DEF CellOf
  <1> DEFINE top == word[op.lsb + (op.size - 1)]
  <1>5. /\ Lane(word, Lsb(op) + op.size - 1) = top /\ mem[Contract!Last(op)] = top
        /\ top \in Byte
    <2>1. op.size - 1 \in 0..3 /\ op.size - 1 < op.size /\ op.lsb + (op.size - 1) \in 0..3
      BY <1>1
    <2>2. Lsb(op) + op.size - 1 = Lsb(op) + (op.size - 1)
      BY <1>1, <1>2
    <2>3. Contract!Last(op) = Contract!First(op) + (op.size - 1)
      BY <1>1 DEF Contract!Last, Contract!First
    <2> QED BY <2>1, <2>2, <2>3, <1>3, <1>4
  <1> HIDE DEF top
  <1>6. Fill(op, top) = IF op.signed /\ Contract!Negative(top)
                        THEN [i \in 1..Bits |-> 1] ELSE ZeroByte
    <2>1. Len(top) = Bits /\ top[Bits] \in {0, 1}
      BY <1>5, ByteFacts DEF Byte, Bit
    <2>2. CASE top[Bits] = 1
      BY <2>1, <2>2 DEF Fill, Contract!Negative
    <2>3. CASE top[Bits] = 0
      BY <2>1, <2>3 DEF Fill, Contract!Negative, ZeroByte
    <2> QED BY <2>1, <2>2, <2>3
  <1>7. Loaded(op, word) = [l \in 0..3 |-> IF l < op.size THEN Lane(word, Lsb(op) + l)
                                           ELSE Fill(op, top)]
    BY <1>5 DEF Loaded, Lanes
  <1>8. Contract!Value(op, mem) =
          [l \in 0..3 |-> IF l < op.size THEN mem[Contract!First(op) + l]
                          ELSE IF op.signed /\ Contract!Negative(top)
                               THEN [i \in 1..Bits |-> 1] ELSE ZeroByte]
    BY <1>5 DEF Contract!Value
  <1> QED BY <1>4, <1>6, <1>7, <1>8

(* A store loads nothing, and neither does a load of the flag of the UART. *)
LEMMA ZeroLoads ==
    ASSUME NEW op \in Op, NEW word, op.store \/ word = ZeroWord
    PROVE  Loaded(op, word) = Contract!Zeros
  <1>1. ZeroWord = Contract!Zeros
    BY DEF ZeroWord, Contract!Zeros, Lanes
  <1>2. CASE op.store
    BY <1>1, <1>2 DEF Loaded
  <1>3. CASE ~op.store /\ word = ZeroWord
    <2>1. \A l \in Int : Lane(word, l) = ZeroByte
      BY <1>3 DEF Lane, ZeroWord
    <2>2. Fill(op, ZeroByte) = ZeroByte
      <3>1. ZeroByte[Bits] = 0
        BY ByteFacts DEF ZeroByte
      <3> QED BY <3>1 DEF Fill, ZeroByte
    <2>3. \A l \in Lanes : Lsb(op) + l \in Int /\ Lsb(op) + op.size - 1 \in Int
      BY OpFields DEF Lanes
    <2>4. Loaded(op, word) = [l \in Lanes |-> ZeroByte]
      BY <1>3, <2>1, <2>2, <2>3 DEF Loaded
    <2> QED BY <2>4 DEF Contract!Zeros, Lanes
  <1> QED BY <1>2, <1>3

LEMMA WordOfByte ==
    ASSUME NEW a \in Nat
    PROVE  a \div 4 \in Nat /\ a % 4 \in 0..3 /\ a = 4 * (a \div 4) + (a % 4)
  <1>1. a \div 4 \in Int /\ a % 4 \in 0..3
    OBVIOUS
  <1>2. a = 4 * (a \div 4) + (a % 4)
    OBVIOUS
  <1> QED BY <1>1, <1>2

LEMMA CellOfByte ==
    ASSUME NEW d \in Dev, NEW a \in 0..Size[d] - 1
    PROVE  /\ <<d, a \div 4>> \in Cell /\ a \div 4 \in Nat /\ a % 4 \in 0..3
           /\ a = 4 * (a \div 4) + (a % 4)
  <1>1. \/ Size[d] = 4 * Depth /\ d \in Ram
        \/ Size[d] = 4 /\ d = "gpio"
        \/ Size[d] = 0
    BY Sizes DEF Dev
  <1>2. Size[d] \in Nat /\ a \in Nat
    BY <1>1, Sizes
  <1>3. a \div 4 \in Nat /\ a % 4 \in 0..3 /\ a = 4 * (a \div 4) + (a % 4)
    BY <1>2, WordOfByte
  <1>4. <<d, a \div 4>> \in Cell
    <2>1. CASE Size[d] = 4 * Depth /\ d \in Ram
      <3>1. a < 4 * Depth
        BY <2>1, Sizes
      <3>2. a \div 4 \in 0..Depth - 1
        BY <3>1, <1>2, <1>3, Sizes
      <3> QED BY <2>1, <3>2 DEF Cell
    <2>2. CASE Size[d] = 4 /\ d = "gpio"
      <3>1. a < 4
        BY <2>2, <1>2
      <3>2. a \div 4 = 0
        BY <3>1, <1>2, <1>3
      <3> QED BY <2>2, <3>2 DEF Cell
    <2>3. CASE Size[d] = 0
      BY <2>3
    <2> QED BY <1>1, <2>1, <2>2, <2>3
  <1> QED BY <1>3, <1>4

LEMMA BytesAt ==
    ASSUME NEW d \in Dev, NEW a \in 0..Size[d] - 1
    PROVE  /\ Bytes[d][a] = memory[<<d, a \div 4>>][a % 4]
           /\ Bytes'[d][a] = memory'[<<d, a \div 4>>][a % 4]
  BY DEF Bytes, Size

(* A store changes the bytes it names, and no other. *)
LEMMA StoreChangesBytes ==
    ASSUME SlaveType, NEW op \in Op,
           memory' = IF CellOf(op) \in Cell
                     THEN [memory EXCEPT ![CellOf(op)] = Merged(op, @)] ELSE memory
    PROVE  Contract!StoreHappens(op)
  <1>1. ASSUME NEW c \in Cell
        PROVE  memory'[c] = IF c = CellOf(op) THEN Merged(op, memory[c]) ELSE memory[c]
    BY <1>1 DEF SlaveType
  <1>2. ASSUME NEW d \in Dev \ {op.dev}
        PROVE  Bytes'[d] = Bytes[d]
    <2>1. ASSUME NEW a \in 0..Size[d] - 1
          PROVE  memory'[<<d, a \div 4>>][a % 4] = memory[<<d, a \div 4>>][a % 4]
      <3>1. <<d, a \div 4>> \in Cell /\ <<d, a \div 4>> # CellOf(op)
        BY CellOfByte DEF CellOf
      <3> QED BY <3>1, <1>1
    <2> QED BY <2>1 DEF Bytes, Size
  <1>3. /\ op.size \in {1, 2, 4} /\ op.lsb \in 0..3 /\ op.word \in Nat /\ op.dev \in Dev
    BY OpFields
  <1>4. DOMAIN Bytes[op.dev] = 0..Size[op.dev] - 1
    BY <1>3 DEF Bytes
  <1>5. ASSUME NEW a \in 0..Size[op.dev] - 1
        PROVE  IF Contract!Contained(op) /\ a \in Contract!AddressesOf(op)
               THEN Bytes'[op.dev][a] = op.value[a - Contract!First(op)]
               ELSE \/ ~Contract!Contained(op) /\ a \in Contract!WordOf(op)
                    \/ Bytes'[op.dev][a] = Bytes[op.dev][a]
    <2> DEFINE n == a \div 4
               l == a % 4
               c == <<op.dev, n>>
    <2>1. c \in Cell /\ n \in Nat /\ l \in 0..3 /\ a = 4 * n + l
      BY <1>3, CellOfByte
    <2>2. Bytes[op.dev][a] = memory[c][l] /\ Bytes'[op.dev][a] = memory'[c][l]
      BY <1>3, BytesAt
    <2>3. c = CellOf(op) <=> n = op.word
      BY DEF CellOf
    <2>4. memory[c] \in Word
      BY <2>1 DEF SlaveType
    <2> HIDE DEF n, l, c
    <2>5. CASE n # op.word
      <3>1. Bytes'[op.dev][a] = Bytes[op.dev][a]
        BY <2>1, <2>2, <2>3, <2>5, <1>1
      <3>2. ~(Contract!Contained(op) /\ a \in Contract!AddressesOf(op))
        BY <2>1, <2>5, <1>3
           DEF Contract!Contained, Contract!AddressesOf, Contract!First, Contract!Last
      <3> QED BY <3>1, <3>2
    <2>6. CASE n = op.word /\ ~Contract!Contained(op)
      <3>1. a \in Contract!WordOf(op)
        BY <2>1, <2>6, <1>3 DEF Contract!WordOf
      <3> QED BY <2>6, <3>1
    <2>7. CASE n = op.word /\ Contract!Contained(op)
      <3>1. Lsb(op) = op.lsb /\ op.lsb + op.size <= 4
        BY <2>7, <1>3 DEF Contract!Contained, Lsb
      <3>2. memory'[c][l] = IF l \in Mask(op) THEN WriteData(op)[l] ELSE memory[c][l]
        <4>1. memory'[c] = Merged(op, memory[c])
          BY <2>1, <2>3, <2>7, <1>1
        <4> QED BY <4>1, <2>1 DEF Merged, Lanes
      <3>3. l \in Mask(op) <=> a \in Contract!AddressesOf(op)
        <4>1. l \in Mask(op) <=> op.lsb <= l /\ l < op.lsb + op.size
          BY <2>1, <3>1, <1>3 DEF Mask, Lanes
        <4>2. a \in Contract!AddressesOf(op) <=> op.lsb <= l /\ l < op.lsb + op.size
          BY <2>1, <2>7, <1>3 DEF Contract!AddressesOf, Contract!First, Contract!Last
        <4> QED BY <4>1, <4>2
      <3>4. l \in Mask(op) => WriteData(op)[l] = op.value[l - op.lsb]
        BY <3>1, <2>1 DEF WriteData, Lanes
      <3>5. a - Contract!First(op) = l - op.lsb
        BY <2>1, <2>7, <1>3 DEF Contract!First
      <3> QED BY <2>2, <2>7, <3>2, <3>3, <3>4, <3>5
    <2> QED BY <2>5, <2>6, <2>7
  <1> QED BY <1>2, <1>4, <1>5, Sizes DEF Contract!StoreHappens

-----------------------------------------------------------------------------
(* The result of the access that has the bus, once its slave is at work. *)
ServedFact ==
    PortType =>
      \A p \in Port :
        Served(p) = IF BusEn /\ p = Owner /\ slave[BusOp.dev] # "REQ"
                    THEN <<Loaded(BusOp, ShownBy(BusOp.dev))>> ELSE <<>>

LEMMA ServedIs == ServedFact
  <1> SUFFICES ASSUME PortType, NEW p \in Port
               PROVE  Served(p) = IF BusEn /\ p = Owner /\ slave[BusOp.dev] # "REQ"
                                  THEN <<Loaded(BusOp, ShownBy(BusOp.dev))>> ELSE <<>>
    BY DEF ServedFact
  <1>1. CASE BusEn /\ p = Owner
    <2>1. Owns(p) /\ request[p] = BusOp /\ BusOp.dev \in Dev
      BY <1>1, BusFacts DEF Owns
    <2> QED BY <1>1, <2>1 DEF Served
  <1>2. CASE ~(BusEn /\ p = Owner)
    <2>1. Owns(p) => BusOp = request[p] /\ p = Owner
      BY DEF Owns, BusOp
    <2>2. Owns(p) => request[p].dev \notin Dev
      BY <1>2, <2>1, BusFacts
    <2> QED BY <1>2, <2>2 DEF Served
  <1> QED BY <1>1, <1>2

BusIsForDev == PortType /\ BusEn => BusOp.dev \in Dev

LEMMA BusIsForDevNext == BusIsForDev'
  <1>1. BusIsForDev
    BY BusFacts DEF BusIsForDev
  <1> QED BY <1>1, PTL

LEMMA ServedIsNext == ServedFact'
  BY ServedIs, PTL

-----------------------------------------------------------------------------
(***************************************************************************)
(* The implementation of DeviceContract.  The UART is idle whenever it is  *)
(* asked something, and the pins of the GPIO show its register when an     *)
(* access to it is over.                                                   *)
(***************************************************************************)
TxWaits == tx # "IDLE" => slave["uart"] = "WAIT"
PinsShown == slave["gpio"] = "DONE" => pins = memory[<<"gpio", 0>>]

BusInv == PortType /\ SlaveType /\ TxType /\ SlavesServe /\ TxWaits /\ PinsShown

LEMMA TxWaitsStep ==
    ASSUME PortType, SlaveType, TxType, TxWaits, Edge
    PROVE  TxWaits'
  <1> SUFFICES ASSUME tx' # "IDLE" PROVE slave'["uart"] = "WAIT"
    BY DEF TxWaits
  <1>1. slave'["uart"] = IF slave["uart"] = "DONE" THEN "REQ"
                         ELSE IF ~Cyc("uart") THEN slave["uart"] ELSE UartStep
    BY DEF Edge, SlaveStep, Dev
  <1>2. CASE tx = "IDLE"
    <2>1. Sends
      BY <1>2 DEF Edge, TxStep, TxIdle, TxStart, TxShift, TxStop
    <2>2. Cyc("uart") /\ slave["uart"] = "REQ" /\ BusOp.word # BusyReg
      BY <2>1 DEF Sends, DataReg, BusyReg
    <2> QED BY <1>1, <2>1, <2>2 DEF UartStep
  <1>3. CASE tx # "IDLE"
    <2>1. slave["uart"] = "WAIT"
      BY <1>3 DEF TxWaits
    <2> QED BY <1>1, <1>3, <2>1 DEF UartStep
  <1> QED BY <1>2, <1>3

LEMMA NothingTaken ==
    ASSUME PortType, Edge, \A d \in Dev : ~Taken(d)
    PROVE  memory' = memory
  BY DEF Edge, MemoryStep

LEMMA PinsShownStep ==
    ASSUME PortType, SlaveType, SlavesServe, PinsShown, Edge
    PROVE  PinsShown'
  <1> SUFFICES ASSUME slave'["gpio"] = "DONE" PROVE pins' = memory'[<<"gpio", 0>>]
    BY DEF PinsShown
  <1>1. "gpio" \in Dev
    BY DEF Dev
  <1>2. /\ Cyc("gpio") /\ slave["gpio"] # "DONE" /\ slave'["gpio"] = MemoryStepOf("gpio")
    BY <1>1, AtWork
  <1>3. slave["gpio"] # "REQ" /\ pins' = memory[<<"gpio", 0>>]
    BY <1>2 DEF MemoryStepOf, Edge, PinsStep
  <1>4. \A d \in Dev : ~Taken(d)
    BY <1>2, <1>3 DEF Taken, Cyc
  <1> QED BY <1>3, <1>4, NothingTaken

LEMMA BusInvariant == Spec => []BusInv
  <1>1. Init => TxWaits /\ PinsShown
    BY DEF Init, TxWaits, PinsShown, Dev
  <1>2. BusInv /\ [Edge]_vars => TxWaits' /\ PinsShown'
    <2> SUFFICES ASSUME BusInv, [Edge]_vars PROVE TxWaits' /\ PinsShown'
      OBVIOUS
    <2>1. CASE UNCHANGED vars
      BY <2>1 DEF BusInv, TxWaits, PinsShown, vars, slaveVars, txVars
    <2> QED BY <2>1, TxWaitsStep, PinsShownStep DEF BusInv
  <1> QED BY <1>1, <1>2, Types, SlavesAreServing, PTL DEF Spec, BusInv

-----------------------------------------------------------------------------
(* A slave that is at work keeps the result until it is taken. *)
LEMMA ResultIsKept ==
    ASSUME PortType, SlaveType, SlavesServe, Edge, NEW d \in Dev,
           slave[d] \notin {"REQ", "DONE"}, Cyc(d)
    PROVE  slave'[d] # "REQ" /\ ShownBy(d)' = ShownBy(d)
  <1>1. slave'[d] = IF d = "uart" THEN UartStep ELSE MemoryStepOf(d)
    BY DEF Edge, SlaveStep
  <1>2. slave[d] \in {"WAIT", "RET"} /\ ~Reads(d)
    BY DEF SlaveType, Reads, Taken
  <1>3. datR'[d] = CASE d \in Ram -> IF Cyc(d) /\ slave[d] = "RET" THEN ramData[d] ELSE datR[d]
                     [] d = "gpio" -> IF Reads(d) /\ BusOp.word = 0 THEN memory[<<d, 0>>] ELSE datR[d]
                     [] d = "uart" -> IF Reads(d) THEN FlagWord(Busy) ELSE datR[d]
    BY DEF Edge, DatRStep
  <1>4. CASE d \in Ram
    <2>1. slave[d] = "RET" /\ d # "uart"
      BY <1>2, <1>4 DEF SlaveType, Ram, Dev
    <2>2. slave'[d] = "DONE" /\ datR'[d] = ramData[d]
      <3>1. slave'[d] = "DONE"
        BY <1>1, <2>1 DEF MemoryStepOf
      <3>2. datR'[d] = IF Cyc(d) /\ slave[d] = "RET" THEN ramData[d] ELSE datR[d]
        BY <1>3, <1>4 DEF Ram
      <3> QED BY <3>1, <3>2, <2>1
    <2> QED BY <1>4, <2>1, <2>2 DEF ShownBy
  <1>5. CASE d = "gpio"
    <2>1. datR'[d] = datR[d] /\ slave'[d] # "REQ"
      BY <1>1, <1>2, <1>3, <1>5 DEF Ram, MemoryStepOf
    <2> QED BY <1>5, <2>1 DEF ShownBy, Ram
  <1>6. CASE d = "uart"
    <2>1. datR'[d] = datR[d] /\ slave'[d] # "REQ"
      BY <1>1, <1>2, <1>3, <1>6 DEF Ram, UartStep
    <2> QED BY <1>6, <2>1 DEF ShownBy, Ram
  <1> QED BY <1>4, <1>5, <1>6 DEF Dev

(* A slave that is asked in REQ does the access there and then. *)
LEMMA TakenIsServed ==
    ASSUME BusInv, Edge, NEW d \in Dev, Taken(d)
    PROVE  /\ slave'[d] # "REQ"
           /\ Contract!Determined(BusOp)
                => Loaded(BusOp, ShownBy(d)') = Contract!Result(BusOp)
           /\ IF BusOp.store THEN Contract!StoreHappens(BusOp) ELSE Bytes' = Bytes
  <1>1. /\ BusEn /\ BusOp.dev = d /\ ~Ack /\ BusOp \in Op /\ Legal(BusOp)
        /\ slave[d] = "REQ" /\ Cyc(d) /\ PortType /\ SlaveType
    BY CycFacts, BusFacts DEF Taken, BusInv
  <1>2. slave'[d] = IF d = "uart" THEN UartStep ELSE MemoryStepOf(d)
    BY <1>1 DEF Edge, SlaveStep
  <1>3. CASE d = "uart"
    <2>1. tx = "IDLE"
      BY <1>1, <1>3 DEF BusInv, TxWaits
    <2>2. BusOp.word = BusyReg \/ Sends
      BY <1>1, <1>3, <2>1 DEF Legal, Sends
    <2>3. slave'[d] # "REQ"
      BY <1>1, <1>2, <1>3, <2>2 DEF UartStep
    <2>4. CellOf(BusOp) \notin Cell
      BY <1>1, <1>3 DEF CellOf, Cell, Ram
    <2>5. memory' = memory
      BY <2>4 DEF Edge, MemoryStep
    <2>6. Bytes' = Bytes
      BY <2>5 DEF Bytes, Size
    <2>7. BusOp.store \/ ShownBy(d)' = ZeroWord
      <3> SUFFICES ASSUME ~BusOp.store PROVE datR'[d] = ZeroWord
        BY <1>3 DEF ShownBy, Ram
      <3>1. ~Sends /\ Reads(d)
        BY DEF Sends, Reads
      <3>2. ~Busy
        BY <2>1, <3>1 DEF Busy
      <3>3. datR'[d] = FlagWord(Busy)
        BY <1>3, <3>1 DEF Edge, DatRStep, Ram, Dev
      <3>4. \A b : ~b => FlagWord(b) = ZeroWord
        <4>1. [i \in 1..Bits |-> 0] = ZeroByte
          BY DEF ZeroByte
        <4>2. [ZeroWord EXCEPT ![0] = ZeroByte] = ZeroWord
          BY DEF ZeroWord, Lanes
        <4> QED BY <4>1, <4>2 DEF FlagWord
      <3> QED BY <3>2, <3>3, <3>4
    <2>8. Loaded(BusOp, ShownBy(d)') = Contract!Result(BusOp)
      BY <2>7, <1>1, <1>3, ZeroLoads DEF Contract!Result
    <2>9. Contract!StoreHappens(BusOp)
      BY <2>4, <2>5, <1>1, StoreChangesBytes
    <2> QED BY <2>3, <2>6, <2>8, <2>9
  <1>4. CASE d # "uart"
    <2>1. slave'[d] = "RET"
      BY <1>1, <1>2, <1>4 DEF MemoryStepOf
    <2>2. memory' = IF BusOp.store /\ CellOf(BusOp) \in Cell
                    THEN [memory EXCEPT ![CellOf(BusOp)] = Merged(BusOp, @)]
                    ELSE memory
      BY DEF Edge, MemoryStep
    <2>3. BusOp.store => Contract!StoreHappens(BusOp)
      BY <2>2, <1>1, StoreChangesBytes
    <2>4. ~BusOp.store => memory' = memory /\ Bytes' = Bytes
      BY <2>2 DEF Bytes, Size
    <2>5. ASSUME ~BusOp.store, Contract!Determined(BusOp)
          PROVE  Loaded(BusOp, ShownBy(d)') = Contract!Result(BusOp)
      <3>1. Contract!Backed(BusOp) /\ Contract!Contained(BusOp)
        BY <2>5, <1>1, <1>4 DEF Contract!Determined
      <3>2. CellOf(BusOp) \in Cell
        <4>1. BusOp.word \in Nat /\ 4 * BusOp.word \in 0..Size[d] - 1
          BY <3>1, <1>1, OpFields DEF Contract!Backed, Contract!WordOf
        <4>2. CASE d \in Ram
          BY <4>1, <4>2, <1>1, Sizes DEF CellOf, Cell, Legal
        <4>3. CASE d = "gpio"
          BY <4>1, <4>3, <1>1, Sizes DEF CellOf, Cell
        <4> QED BY <4>2, <4>3, <1>4 DEF Dev
      <3>3. ShownBy(d)' = memory[CellOf(BusOp)]
        <4>1. Reads(d) /\ memory' = memory
          BY <2>4, <2>5 DEF Reads
        <4>2. CASE d \in Ram
          <5>1. ramData'[d] = memory[<<d, BusOp.word>>]
            BY <4>1, <4>2 DEF Edge, RamStep
          <5> QED BY <5>1, <4>2, <2>1, <1>1 DEF ShownBy, CellOf
        <4>3. CASE d = "gpio"
          <5>1. BusOp.word = 0
            BY <3>2, <4>3, <1>1 DEF CellOf, Cell, Ram
          <5>2. datR'[d] = memory[<<d, 0>>]
            BY <5>1, <4>1, <4>3 DEF Edge, DatRStep, Dev, Ram
          <5> QED BY <5>1, <5>2, <4>3, <1>1 DEF ShownBy, CellOf, Ram
        <4> QED BY <4>2, <4>3, <1>4 DEF Dev
      <3>4. Contract!Result(BusOp) = Contract!Value(BusOp, Bytes[BusOp.dev])
        BY <2>5, <1>1, <1>4 DEF Contract!Result
      <3> QED BY <2>5, <3>1, <3>2, <3>3, <3>4, <1>1, LoadShowsBytes
    <2>6. ASSUME BusOp.store PROVE Loaded(BusOp, ShownBy(d)') = Contract!Result(BusOp)
      BY <2>6, <1>1, ZeroLoads DEF Contract!Result
    <2> QED BY <2>1, <2>3, <2>4, <2>5, <2>6
  <1> QED BY <1>3, <1>4

-----------------------------------------------------------------------------
(* What becomes of the accesses in a cycle: the request of every port, and
   the result of the access that has the bus. *)
LEMMA OthersUnserved ==
    ASSUME BusInv, Edge, PortType', NEW p \in Port,
           ~(BusEn /\ ~Ack /\ p = Owner)
    PROVE  Served(p)' = <<>>
  <1>1. CASE ~BusEn \/ Ack
    <2>1. \A d \in Dev : slave'[d] = "REQ"
      BY <1>1, AtWork, CycFacts DEF BusInv
    <2>2. BusEn' => BusOp'.dev \in Dev
      BY BusIsForDevNext DEF BusIsForDev
    <2> QED BY <2>1, <2>2, ServedIsNext DEF ServedFact
  <1>2. CASE BusEn /\ ~Ack /\ p # Owner
    BY <1>2, BusIsHeld, ServedIsNext DEF ServedFact, BusInv
  <1> QED BY <1>1, <1>2

LEMMA OthersWaitOrAsk ==
    ASSUME BusInv, Edge, PortType', NEW p \in Port, ~(BusEn /\ p = Owner)
    PROVE  Contract!Wait(p) \/ Contract!Ask(p)
  <1>1. Served(p) = <<>> /\ Served(p)' = <<>>
    BY ServedIs, OthersUnserved DEF ServedFact, BusInv
  <1>2. ~PortAck(p)
    BY BusFacts DEF PortAck, Owns, Ack, BusInv
  <1>3. CASE request'[p] = request[p]
    BY <1>1, <1>3 DEF Contract!Wait
  <1>4. CASE request[p] = Nothing /\ request'[p] # Nothing
    <2>1. request'[p] \in workload[p] /\ workload \in Workloads
      BY <1>4, PortMoves DEF BusInv, PortType
    <2>2. request'[p] \in UNION {load[q] : load \in Workloads, q \in Port}
      BY <2>1
    <2> QED BY <1>1, <1>4, <2>2 DEF Contract!Ask
  <1> QED BY <1>2, <1>3, <1>4, PortMoves DEF BusInv

LEMMA GpioBytes ==
    ASSUME SlaveType
    PROVE  memory[<<"gpio", 0>>] = [i \in 0..3 |-> Bytes["gpio"][i]]
  <1>1. <<"gpio", 0>> \in Cell /\ "gpio" \in Dev
    BY DEF Cell, Dev
  <1>2. ASSUME NEW l \in 0..3 PROVE Bytes["gpio"][l] = memory[<<"gpio", 0>>][l]
    <2>1. Bytes["gpio"][4 * 0 + l] = memory[<<"gpio", 0>>][l]
      BY <1>1, BytesOfCell
    <2> QED BY <2>1
  <1>3. memory[<<"gpio", 0>>] \in [0..3 -> Byte]
    BY <1>1 DEF SlaveType, Word, Lanes
  <1> QED BY <1>2, <1>3

LEMMA AnswersAreServed ==
    ASSUME BusInv, Edge, PortType'
    PROVE  Contract!Answers
  <1>1. ASSUME NEW p \in Port
        PROVE  answer'[p] = IF request[p] # Nothing /\ request'[p] = Nothing
                            THEN Served(p) ELSE <<>>
    <2>1. CASE PortAck(p)
      <3>1. BusEn /\ p = Owner /\ BusOp = request[p]
        BY <2>1, BusFacts DEF PortAck, Owns, Ack, BusInv
      <3>2. BusOp.dev \in Dev /\ slave[BusOp.dev] = "DONE" /\ request[p] # Nothing
        BY <2>1, <3>1, BusFacts DEF PortAck, Ack, BusInv, BusEn
      <3>3. Served(p) = <<Loaded(BusOp, datR[BusOp.dev])>>
        BY <3>1, <3>2, ServedIs DEF ServedFact, BusInv, ShownBy
      <3> QED BY <2>1, <3>1, <3>2, <3>3, PortMoves DEF BusInv
    <2>2. CASE ~PortAck(p)
      BY <2>2, PortMoves DEF BusInv
    <2> QED BY <2>1, <2>2
  <1>2. answer' = [p \in Port |-> answer'[p]]
    BY DEF PortType
  <1> QED BY <1>1, <1>2 DEF Contract!Answers

LEMMA EdgeIsContract ==
    ASSUME BusInv, Edge, PortType'
    PROVE  Contract!ContractNext
  <1>1. Contract!Answers
    BY AnswersAreServed
  <1>2. Contract!PinsFollow
    BY GpioBytes DEF Contract!PinsFollow, Edge, PinsStep, BusInv
  <1>3. PortType /\ SlaveType /\ SlavesServe /\ Owner \in Port
    BY BusFacts DEF BusInv
  <1> PICK o \in Port : o = Owner
    BY <1>3
  <1>4. CASE ~BusEn
    <2>1. \A p \in Port : Contract!Wait(p) \/ Contract!Ask(p)
      BY <1>4, OthersWaitOrAsk
    <2>2. memory' = memory
      BY <1>3, <1>4, CycFacts, NothingTaken DEF Taken
    <2>3. Bytes' = Bytes
      BY <2>2 DEF Bytes, Size
    <2> QED BY <1>1, <1>2, <2>1, <2>3 DEF Contract!ContractNext
  <1>5. CASE BusEn /\ Ack
    <2>1. \A p \in Port \ {o} : Contract!Wait(p) \/ Contract!Ask(p)
      BY OthersWaitOrAsk
    <2>2. memory' = memory
      BY <1>3, <1>5, CycFacts, NothingTaken DEF Taken
    <2>3. Bytes' = Bytes
      BY <2>2 DEF Bytes, Size
    <2>4. Contract!Answer(o)
      <3>1. /\ PortAck(o) /\ request[o] # Nothing /\ BusOp = request[o]
            /\ BusOp.dev \in Dev /\ slave[BusOp.dev] = "DONE"
        BY <1>3, <1>5, BusFacts DEF PortAck, Owns, Ack, BusEn
      <3>2. request'[o] = Nothing /\ Served(o)' = <<>>
        BY <3>1, <1>3, <1>5, PortMoves, OthersUnserved
      <3>3. Served(o) # <<>>
        BY <3>1, <1>3, <1>5, ServedIs DEF ServedFact
      <3>4. request[o].dev = "gpio" => pins = [i \in 0..3 |-> Bytes["gpio"][i]]
        BY <3>1, <1>3, GpioBytes DEF BusInv, PinsShown
      <3> QED BY <1>3, <3>2, <3>3, <3>4 DEF Contract!Answer
    <2> QED BY <1>1, <1>2, <2>1, <2>3, <2>4 DEF Contract!ContractNext
  <1>6. CASE BusEn /\ ~Ack /\ slave[BusOp.dev] # "REQ"
    <2> PICK d \in Dev : d = BusOp.dev
      BY <1>3, <1>6, BusFacts
    <2>1. d \in Dev /\ Cyc(d) /\ slave[d] \notin {"REQ", "DONE"}
      BY <1>3, <1>6, BusFacts DEF Cyc, Ack
    <2>2. slave'[d] # "REQ" /\ ShownBy(d)' = ShownBy(d)
      BY <2>1, <1>3, ResultIsKept
    <2>3. /\ BusOp' = BusOp /\ Owner' = Owner /\ BusEn'
          /\ request'[o] = request[o]
      BY <1>3, <1>6, BusIsHeld DEF BusEn
    <2>4. Served(o)' = Served(o)
      <3>1. Served(o) = <<Loaded(BusOp, ShownBy(d))>>
        BY <1>3, <1>6, ServedIs DEF ServedFact
      <3>2. Served(o)' = <<Loaded(BusOp, ShownBy(d)')>>
        BY <2>2, <2>3, <1>3, ServedIsNext DEF ServedFact
      <3> QED BY <3>1, <3>2, <2>2
    <2>5. Contract!Wait(o)
      BY <1>3, <2>3, <2>4 DEF Contract!Wait
    <2>6. \A p \in Port \ {o} : Contract!Wait(p) \/ Contract!Ask(p)
      BY OthersWaitOrAsk
    <2>7. memory' = memory
      <3>1. \A e \in Dev : ~Taken(e)
        BY <2>1 DEF Taken, Cyc
      <3> QED BY <3>1, <1>3, NothingTaken
    <2>8. Bytes' = Bytes
      BY <2>7 DEF Bytes, Size
    <2> QED BY <1>1, <1>2, <2>5, <2>6, <2>8 DEF Contract!ContractNext
  <1>7. CASE BusEn /\ ~Ack /\ slave[BusOp.dev] = "REQ"
    <2> PICK d \in Dev : d = BusOp.dev
      BY <1>3, <1>7, BusFacts
    <2>1. d \in Dev /\ Taken(d)
      BY <1>3, <1>7, BusFacts DEF Cyc, Taken
    <2>2. /\ slave'[d] # "REQ"
          /\ Contract!Determined(BusOp)
               => Loaded(BusOp, ShownBy(d)') = Contract!Result(BusOp)
          /\ IF BusOp.store THEN Contract!StoreHappens(BusOp) ELSE Bytes' = Bytes
      BY <2>1, TakenIsServed
    <2>3. /\ BusOp' = BusOp /\ Owner' = Owner /\ BusEn' /\ BusOp = request[o]
          /\ request'[o] = request[o] /\ request[o] # Nothing
      BY <1>3, <1>7, BusIsHeld, BusFacts DEF BusEn
    <2>4. Served(o) = <<>>
      BY <1>3, <1>7, ServedIs DEF ServedFact
    <2>5. Served(o)' = <<Loaded(BusOp, ShownBy(d)')>>
      BY <2>2, <2>3, <1>3, ServedIsNext DEF ServedFact
    <2>6. Contract!Serve(o)
      BY <1>3, <2>2, <2>3, <2>4, <2>5 DEF Contract!Serve
    <2>7. \A p \in Port \ {o} : Contract!Wait(p) \/ Contract!Ask(p)
      BY OthersWaitOrAsk
    <2> QED BY <1>1, <1>2, <1>3, <2>6, <2>7 DEF Contract!ContractNext
  <1> QED BY <1>4, <1>5, <1>6, <1>7

LEMMA InitIsContract == Init => Contract!ContractInit
  <1> SUFFICES ASSUME Init PROVE Contract!ContractInit
    OBVIOUS
  <1>1. PortType
    BY InitTypes
  <1>2. ~BusEn /\ \A p \in Port : Served(p) = <<>>
    <2>1. ~BusEn
      BY DEF Init, BusEn, BusOp
    <2> QED BY <2>1, <1>1, ServedIs DEF ServedFact
  <1>3. Bytes = [d \in Contract!Dev |-> [a \in 0..Size[d] - 1 |-> ZeroByte]]
    <2>1. ASSUME NEW d \in Dev, NEW a \in 0..Size[d] - 1
          PROVE  memory[<<d, a \div 4>>][a % 4] = ZeroByte
      BY CellOfByte DEF Init, ZeroWord, Lanes
    <2>2. Bytes = [d \in Dev |-> [a \in 0..Size[d] - 1 |-> ZeroByte]]
      BY <2>1 DEF Bytes
    <2> QED BY <2>2, Sizes
  <1>4. pins = Contract!Zeros
    BY DEF Init, Contract!Zeros, ZeroWord, Lanes
  <1> QED BY <1>2, <1>3, <1>4 DEF Init, Contract!ContractInit

LEMMA StutterIsContract ==
    ASSUME UNCHANGED vars
    PROVE  UNCHANGED Contract!contractVars
  BY DEF vars, portVars, slaveVars, Contract!contractVars, Served, Owns, Owner, ShownBy,
         Loaded, Bytes, Size

(* Loads and stores of every size, sign and place do what is promised,
   whatever the other ports do meanwhile. *)
THEOREM DevicesImplement == Spec => KeepsDeviceContract
  <1>1. BusInv /\ PortType' /\ [Edge]_vars
          => [Contract!ContractNext]_Contract!contractVars
    BY EdgeIsContract, StutterIsContract
  <1>2. BusInv => PortType
    BY DEF BusInv
  <1> QED BY <1>1, <1>2, InitIsContract, BusInvariant, PTL
          DEF Spec, KeepsDeviceContract, Contract!ContractSpec

-----------------------------------------------------------------------------
(***************************************************************************)
(* The line.  The receiver either rests, or is as far into the byte as the *)
(* transmitter is, or looks at the stop bit of a byte while the next one   *)
(* may be in the transmitter already.                                      *)
(***************************************************************************)
Half == Divisor \div 2

(* The cycles a bit has been on the line, and how many bits were before it. *)
Age   == Divisor - 1 - counter
Place == IF tx = "STOP" THEN Bits ELSE bitno

Heard(byte, n) ==
    rx.got \in Seq(Bit) /\ Len(rx.got) = n /\ \A i \in 1..n : rx.got[i] = byte[i]

(* A byte taken by now is not on the line before the receiver is back. *)
NotYet(t) == tx = "START" => t + counter >= Divisor

Resting ==
    /\ tx \in {"IDLE", "START"} /\ bitno = 0 /\ rx.got = <<>>
    /\ outstanding = IF tx = "START" THEN <<latch>> ELSE <<>>
    /\ \/ rx.t = 0 /\ line = 1
       \/ rx.t = 0 /\ line = 0 /\ tx = "IDLE" /\ granted = {}
       \/ rx.t \in 1..Half /\ line = 1 /\ NotYet(rx.t)

Sending(byte) ==
    /\ tx \in {"DATA", "STOP"} /\ (tx = "STOP" => bitno = 0)
    /\ outstanding = <<byte>>
    /\ rx.t = Place * Divisor + Age
    /\ line = IF Place = 0 THEN 0 ELSE byte[Place]
    /\ tx = "DATA" => \A i \in 1..Bits - bitno : latch[i] = byte[bitno + i]
    /\ Heard(byte, IF Place = 0 THEN 0 ELSE IF Age > Half THEN Place ELSE Place - 1)

Trailing(byte) ==
    /\ tx \in {"IDLE", "START"} /\ bitno = 0 /\ line = 1
    /\ outstanding = IF tx = "START" THEN <<byte, latch>> ELSE <<byte>>
    /\ Heard(byte, Bits)
    /\ \E e \in 0..Half : rx.t = (Bits + 1) * Divisor + e /\ NotYet(e)

LineInv == Resting \/ \E byte \in Byte : Sending(byte) \/ Trailing(byte)

-----------------------------------------------------------------------------
LEMMA Halves == Divisor \in Nat /\ Divisor >= 2 /\ Half \in 1..Divisor - 1 /\ Bits \in Nat \ {0}
  BY SizeAssumption DEF Half

LEMMA Products ==
    ASSUME NEW k \in Nat, NEW d \in Nat
    PROVE  /\ k * d \in Nat /\ (k + 1) * d = k * d + d /\ 0 * d = 0
           /\ k >= 1 => k * d >= d
  <1>1. k * d \in Nat /\ (k + 1) * d = k * d + d /\ 0 * d = 0
    OBVIOUS
  <1>2. ASSUME k >= 1 PROVE k * d >= d
    <2>1. k - 1 \in Nat /\ (k - 1) * d \in Nat /\ k * d = (k - 1) * d + d
      BY <1>2
    <2> QED BY <2>1
  <1> QED BY <1>1, <1>2

LEMMA Farther ==
    ASSUME NEW d \in Nat, NEW k \in Nat, NEW n \in Nat, k < n
    PROVE  n * d >= k * d + d
  <1>1. n - k - 1 \in Nat /\ (n - k - 1) * d \in Nat
    OBVIOUS
  <1>2. n * d = (n - k - 1) * d + (k * d + d)
    OBVIOUS
  <1>3. k * d \in Nat
    OBVIOUS
  <1> QED BY <1>1, <1>2, <1>3

(* A moment is in the middle of at most one bit. *)
LEMMA Slots ==
    ASSUME NEW k \in Nat, NEW n \in Nat, NEW c \in 0..Divisor - 1, NEW h \in 0..Divisor - 1,
           k * Divisor + c = n * Divisor + h
    PROVE  k = n /\ c = h
  <1>1. Divisor \in Nat /\ k * Divisor \in Nat /\ n * Divisor \in Nat
    BY Halves
  <1>2. k < n => n * Divisor >= k * Divisor + Divisor
    BY <1>1, Farther
  <1>3. n < k => k * Divisor >= n * Divisor + Divisor
    BY <1>1, Farther
  <1>4. ~(k < n) /\ ~(n < k)
    BY <1>1, <1>2, <1>3
  <1> QED BY <1>1, <1>4

(* When the receiver looks at the line. *)
LEMMA Looks ==
    ASSUME NEW k \in 0..Bits + 1, NEW c \in 0..Divisor - 1, rx.t = k * Divisor + c
    PROVE  /\ RxDone <=> k = Bits + 1 /\ c = Half
           /\ (\E b \in 1..Bits : rx.t = MiddleOf(b)) <=> k \in 1..Bits /\ c = Half
           /\ rx.t = MiddleOf(0) <=> k = 0 /\ c = Half
           /\ rx.t = 0 <=> k = 0 /\ c = 0
           /\ rx.t \in Nat
  <1>1. /\ \A n \in Nat : MiddleOf(n) = n * Divisor + Half
        /\ Half \in 0..Divisor - 1 /\ Divisor \in Nat /\ Bits \in Nat /\ k \in Nat
    BY Halves, Products DEF MiddleOf, Half
  <1>2. ASSUME NEW n \in Nat
        PROVE  rx.t = MiddleOf(n) <=> k = n /\ c = Half
    <2>1. MiddleOf(n) = n * Divisor + Half
      BY <1>1
    <2>2. ASSUME rx.t = MiddleOf(n)
          PROVE  k = n /\ c = Half
      <3>1. k * Divisor + c = n * Divisor + Half
        BY <2>1, <2>2
      <3> QED BY <1>1, <3>1, Slots
    <2>3. k = n /\ c = Half => rx.t = MiddleOf(n)
      BY <2>1
    <2> QED BY <2>2, <2>3
  <1>3. rx.t = 0 <=> k = 0 /\ c = 0
    <2>1. 0 * Divisor + 0 = 0 /\ 0 \in 0..Divisor - 1 /\ k \in Nat
      BY Halves
    <2>2. k * Divisor + c = 0 * Divisor + 0 => k = 0 /\ c = 0
      BY <2>1, Slots
    <2> QED BY <2>1, <2>2
  <1>4. RxDone <=> k = Bits + 1 /\ c = Half
    BY <1>1, <1>2 DEF RxDone
  <1>5. (\E b \in 1..Bits : rx.t = MiddleOf(b)) <=> k \in 1..Bits /\ c = Half
    <2>1. ASSUME NEW b \in 1..Bits, rx.t = MiddleOf(b)
          PROVE  k \in 1..Bits /\ c = Half
      <3>1. b \in Nat
        OBVIOUS
      <3> QED BY <2>1, <3>1, <1>2
    <2>2. ASSUME k \in 1..Bits, c = Half
          PROVE  \E b \in 1..Bits : rx.t = MiddleOf(b)
      BY <2>2, <1>1, <1>2
    <2> QED BY <2>1, <2>2
  <1>6. rx.t \in Nat
    BY <1>1, Products
  <1> QED BY <1>1, <1>2, <1>3, <1>4, <1>5, <1>6

-----------------------------------------------------------------------------
(* What a cycle does to the transmitter, state by state. *)
LEMMA TxMoves ==
    ASSUME TxType, Edge
    PROVE  /\ counter' = IF Strobe \/ Sends THEN Divisor - 1 ELSE counter - 1
           /\ Sends => tx = "IDLE"
           /\ tx = "IDLE" =>
                /\ Sends => tx' = "START" /\ latch' = WriteData(BusOp)[0] /\ line' = line
                /\ ~Sends => tx' = "IDLE" /\ line' = 1
                /\ bitno' = bitno
           /\ tx = "START" =>
                /\ Strobe => line' = 0 /\ tx' = "DATA"
                /\ ~Strobe => line' = line /\ tx' = "START"
                /\ bitno' = bitno /\ latch' = latch
           /\ tx = "DATA" =>
                /\ Strobe => /\ line' = latch[1] /\ latch' = Append(Tail(latch), 0)
                             /\ bitno' = (bitno + 1) % Bits
                             /\ tx' = IF bitno = Bits - 1 THEN "STOP" ELSE "DATA"
                /\ ~Strobe => line' = line /\ latch' = latch /\ bitno' = bitno /\ tx' = "DATA"
           /\ tx = "STOP" =>
                /\ Strobe => line' = 1 /\ tx' = "IDLE"
                /\ ~Strobe => line' = line /\ tx' = "STOP"
                /\ bitno' = bitno /\ latch' = latch
  <1>1. CounterStep /\ (TxIdle \/ TxStart \/ TxShift \/ TxStop)
    BY DEF Edge, TxStep
  <1>2. counter' = IF Strobe \/ Sends THEN Divisor - 1 ELSE counter - 1
    BY <1>1 DEF CounterStep
  <1>3. Sends => tx = "IDLE"
    BY DEF Sends
  <1>4. CASE TxIdle
    BY <1>2, <1>3, <1>4 DEF TxIdle
  <1>5. CASE TxStart
    BY <1>2, <1>3, <1>5 DEF TxStart
  <1>6. CASE TxShift
    BY <1>2, <1>3, <1>6 DEF TxShift
  <1>7. CASE TxStop
    BY <1>2, <1>3, <1>7 DEF TxStop
  <1> QED BY <1>1, <1>4, <1>5, <1>6, <1>7

(* What a cycle does to the receiver. *)
LEMMA RxMoves ==
    ASSUME Edge
    PROVE  /\ RxDone \/ (rx.t = 0 /\ line = 1) \/ (rx.t = MiddleOf(0) /\ line = 1)
                => rx'.t = 0 /\ rx'.got = <<>>
           /\ ~(RxDone \/ (rx.t = 0 /\ line = 1) \/ (rx.t = MiddleOf(0) /\ line = 1))
                => /\ rx'.t = rx.t + 1
                   /\ rx'.got = IF \E b \in 1..Bits : rx.t = MiddleOf(b)
                                THEN Append(rx.got, line) ELSE rx.got
           /\ outstanding' =
                IF Sends
                THEN Append(IF RxDone /\ outstanding # <<>> THEN Tail(outstanding)
                            ELSE outstanding, WriteData(BusOp)[0])
                ELSE IF RxDone /\ outstanding # <<>> THEN Tail(outstanding) ELSE outstanding
  <1>1. rx' = IF RxDone \/ (rx.t = 0 /\ line = 1) \/ (rx.t = MiddleOf(0) /\ line = 1)
              THEN [t |-> 0, got |-> <<>>]
              ELSE [t |-> rx.t + 1,
                    got |-> IF \E b \in 1..Bits : rx.t = MiddleOf(b)
                            THEN Append(rx.got, line) ELSE rx.got]
    BY DEF Edge, RxStep
  <1>2. outstanding' =
          IF Sends
          THEN Append(IF RxDone /\ outstanding # <<>> THEN Tail(outstanding)
                      ELSE outstanding, WriteData(BusOp)[0])
          ELSE IF RxDone /\ outstanding # <<>> THEN Tail(outstanding) ELSE outstanding
    BY DEF Edge, HistoryStep
  <1> QED BY <1>1, <1>2

LEMMA HeardOne ==
    ASSUME NEW byte \in Byte, NEW n \in Nat, NEW bit \in Bit, Heard(byte, n),
           n < Bits, bit = byte[n + 1], rx'.got = Append(rx.got, bit)
    PROVE  Heard(byte, n + 1)'
  <1>1. /\ rx'.got \in Seq(Bit) /\ Len(rx'.got) = n + 1 /\ rx'.got[n + 1] = bit
        /\ \A i \in 1..n : rx'.got[i] = rx.got[i]
    BY AppendProperties DEF Heard
  <1>2. ASSUME NEW i \in 1..n + 1 PROVE rx'.got[i] = byte[i]
    <2>1. CASE i \in 1..n
      BY <2>1, <1>1 DEF Heard
    <2>2. CASE i = n + 1
      BY <2>2, <1>1
    <2>3. i \in 1..n \/ i = n + 1
      OBVIOUS
    <2> QED BY <2>1, <2>2, <2>3
  <1> QED BY <1>1, <1>2 DEF Heard

LEMMA HeardSame ==
    ASSUME NEW byte, NEW n, Heard(byte, n), rx'.got = rx.got
    PROVE  Heard(byte, n)'
  BY DEF Heard

-----------------------------------------------------------------------------
LEMMA RestingStep ==
    ASSUME PortType, TxType, Resting, Edge
    PROVE  LineInv'
  <1>1. rx.t \in 0..Half /\ counter \in 0..Divisor - 1
    BY Halves DEF Resting, TxType
  <1>2. rx.t = 0 * Divisor + rx.t /\ rx.t \in 0..Divisor - 1 /\ 0 \in 0..Bits + 1
    BY <1>1, Halves
  <1>3. /\ ~RxDone /\ ~(\E b \in 1..Bits : rx.t = MiddleOf(b))
        /\ rx.t = MiddleOf(0) <=> rx.t = Half
    <2>1. 0 # Bits + 1 /\ 0 \notin 1..Bits
      BY Halves
    <2> QED BY <1>2, <2>1, Looks
  <1>4. /\ (rx.t = 0 \/ rx.t = Half) /\ line = 1 => rx'.t = 0
        /\ ~((rx.t = 0 \/ rx.t = Half) /\ line = 1) => rx'.t = rx.t + 1
        /\ rx'.got = <<>>
    BY <1>3, RxMoves DEF Resting
  <1>5. outstanding' = IF Sends THEN Append(outstanding, WriteData(BusOp)[0]) ELSE outstanding
    BY <1>3, RxMoves
  <1>6. CASE tx = "IDLE" /\ ~Sends
    <2>1. tx' = "IDLE" /\ line' = 1 /\ bitno' = 0
      BY <1>6, TxMoves DEF Resting
    <2>2. outstanding' = <<>>
      BY <1>5, <1>6 DEF Resting
    <2>3. rx'.t = 0 \/ rx'.t \in 1..Half
      BY <1>1, <1>4, Halves DEF Resting
    <2>4. Resting'
      BY <2>1, <2>2, <2>3, <1>4 DEF Resting, NotYet
    <2> QED BY <2>4 DEF LineInv
  <1>7. CASE tx = "IDLE" /\ Sends
    <2>1. BusEn
      BY <1>7, SentByte
    <2>2. granted # {} /\ line = 1
      BY <2>1 DEF BusEn, BusOp, Resting
    <2>3. /\ tx' = "START" /\ latch' = WriteData(BusOp)[0] /\ line' = 1 /\ bitno' = 0
          /\ counter' = Divisor - 1
      BY <1>7, <2>2, TxMoves DEF Resting
    <2>4. outstanding' = <<latch'>>
      <3>1. outstanding = <<>>
        BY <1>7 DEF Resting
      <3>2. outstanding' = Append(<<>>, WriteData(BusOp)[0])
        BY <1>5, <1>7, <3>1
      <3> QED BY <2>3, <3>2
    <2>5. rx'.t = 0 \/ (rx'.t \in 1..Half /\ rx'.t + counter' >= Divisor)
      BY <1>1, <1>4, <2>3, Halves DEF Resting, NotYet
    <2>6. Resting'
      BY <2>3, <2>4, <2>5, <1>4 DEF Resting, NotYet
    <2> QED BY <2>6 DEF LineInv
  <1>8. CASE tx = "START" /\ ~Strobe
    <2>1. line = 1 /\ ~Sends
      BY <1>8 DEF Resting, Sends
    <2>2. /\ tx' = "START" /\ latch' = latch /\ line' = 1 /\ bitno' = 0
          /\ counter' = counter - 1
      BY <1>8, <2>1, TxMoves DEF Resting
    <2>3. outstanding' = <<latch'>>
      BY <1>5, <1>8, <2>1, <2>2 DEF Resting
    <2>4. rx'.t = 0 \/ (rx'.t \in 1..Half /\ rx'.t + counter' >= Divisor)
      BY <1>1, <1>4, <1>8, <2>1, <2>2, Halves DEF Resting, NotYet
    <2>5. Resting'
      BY <2>2, <2>3, <2>4, <1>4 DEF Resting, NotYet
    <2> QED BY <2>5 DEF LineInv
  <1>9. CASE tx = "START" /\ Strobe
    <2>1. line = 1 /\ ~Sends /\ counter = 0
      BY <1>9 DEF Resting, Sends, Strobe
    <2>2. rx.t = 0
      BY <2>1, <1>1, <1>9, Halves DEF Resting, NotYet
    <2>3. /\ tx' = "DATA" /\ latch' = latch /\ line' = 0 /\ bitno' = 0
          /\ counter' = Divisor - 1
      BY <1>9, <2>1, TxMoves DEF Resting
    <2>4. rx'.t = 0 /\ rx'.got = <<>> /\ outstanding' = <<latch>>
      BY <1>4, <1>5, <1>9, <2>1, <2>2 DEF Resting
    <2>5. latch \in Byte /\ Bits \in Nat
      BY Halves DEF TxType
    <2>7. Place' = 0 /\ Age' = 0
      BY <2>3, Halves DEF Place, Age
    <2>8. rx'.t = Place' * Divisor + Age'
      BY <2>4, <2>7, Halves
    <2>9. \A i \in 1..Bits - bitno' : latch'[i] = latch[bitno' + i]
      BY <2>3, <2>5
    <2>10. \E byte \in Byte : Sending(byte)'
      <3> PICK byte \in Byte : byte = latch
        BY <2>5
      <3>1. Heard(byte, 0)'
        BY <2>4, EmptySeq DEF Heard
      <3> QED BY <2>3, <2>4, <2>7, <2>8, <2>9, <3>1 DEF Sending
    <2> QED BY <2>10 DEF LineInv
  <1> QED BY <1>6, <1>7, <1>8, <1>9 DEF Resting

LEMMA SendingStep ==
    ASSUME TxType, NEW byte \in Byte, Sending(byte), Edge
    PROVE  Sending(byte)' \/ Trailing(byte)'
  <1>1. /\ Place \in 0..Bits /\ (tx = "DATA" => Place = bitno /\ Place < Bits)
        /\ (tx = "STOP" => Place = Bits)
        /\ Age \in 0..Divisor - 1 /\ counter = Divisor - 1 - Age
    BY Halves DEF TxType, Place, Age, Sending
  <1> PICK k \in 0..Bits : k = Place
    BY <1>1
  <1> PICK c \in 0..Divisor - 1 : c = Age
    BY <1>1
  <1> DEFINE n == IF k = 0 THEN 0 ELSE IF c > Half THEN k ELSE k - 1
             m == IF k >= 1 /\ c = Half THEN n + 1 ELSE n
  <1>2. /\ rx.t = k * Divisor + c /\ outstanding = <<byte>> /\ Heard(byte, n)
        /\ line = IF k = 0 THEN 0 ELSE byte[k]
    BY DEF Sending
  <1>3. \A i \in 1..Bits : byte[i] \in Bit
    BY DEF Byte
  <1>4. ~Sends /\ tx \in {"DATA", "STOP"} /\ (tx = "STOP" => bitno = 0)
    BY DEF Sends, Sending
  <1>5. /\ ~RxDone
        /\ (\E b \in 1..Bits : rx.t = MiddleOf(b)) <=> k >= 1 /\ c = Half
        /\ rx.t = MiddleOf(0) <=> k = 0 /\ c = Half
        /\ rx.t = 0 <=> k = 0 /\ c = 0
    <2>1. k \in 0..Bits + 1 /\ k # Bits + 1 /\ (k \in 1..Bits <=> k >= 1)
      BY Halves
    <2> QED BY <2>1, <1>2, Looks
  <1>6. /\ rx'.t = rx.t + 1 /\ outstanding' = <<byte>>
        /\ rx'.got = IF k >= 1 /\ c = Half THEN Append(rx.got, line) ELSE rx.got
    BY <1>2, <1>4, <1>5, RxMoves
  <1>7. /\ k * Divisor \in Nat /\ (k + 1) * Divisor = k * Divisor + Divisor
        /\ Divisor \in Nat /\ Divisor >= 2 /\ Half \in 1..Divisor - 1 /\ Bits \in Nat \ {0}
    BY Halves, Products
  <1>8. n \in Nat /\ n <= Bits
    BY <1>7
  <1>9. Heard(byte, m)'
    <2>1. CASE k >= 1 /\ c = Half
      <3>1. n = k - 1 /\ n < Bits /\ line = byte[n + 1] /\ line \in Bit
        BY <2>1, <1>2, <1>3, <1>7
      <3>2. rx'.got = Append(rx.got, line)
        BY <2>1, <1>6
      <3> PICK bit \in Bit : bit = line
        BY <3>1
      <3> HIDE DEF n
      <3>3. Heard(byte, n + 1)'
        BY <3>1, <3>2, <1>2, <1>8, HeardOne
      <3> QED BY <3>3, <2>1
    <2>2. CASE ~(k >= 1 /\ c = Half)
      BY <2>2, <1>2, <1>6, HeardSame
    <2> QED BY <2>1, <2>2
  <1>10. CASE ~Strobe
    <2>1. /\ tx' = tx /\ line' = line /\ latch' = latch /\ bitno' = bitno
          /\ counter' = counter - 1 /\ c < Divisor - 1
      BY <1>1, <1>4, <1>7, <1>10, TxMoves DEF Strobe
    <2>2. Place' = k /\ Age' = c + 1
      BY <2>1, <1>1, <1>7 DEF Place, Age
    <2>3. m = IF k = 0 THEN 0 ELSE IF c + 1 > Half THEN k ELSE k - 1
      BY <1>7
    <2>4. rx'.t = Place' * Divisor + Age'
      BY <2>2, <1>2, <1>6, <1>7
    <2>5. Heard(byte, IF Place = 0 THEN 0 ELSE IF Age > Half THEN Place ELSE Place - 1)'
      BY <2>2, <2>3, <1>9 DEF Heard
    <2>6. line' = IF Place' = 0 THEN 0 ELSE byte[Place']
      BY <2>1, <2>2, <1>2
    <2>7. tx' = "DATA" => \A i \in 1..Bits - bitno' : latch'[i] = byte[bitno' + i]
      BY <2>1 DEF Sending
    <2> QED BY <2>1, <2>4, <2>5, <2>6, <2>7, <1>4, <1>6 DEF Sending
  <1>11. CASE Strobe /\ tx = "DATA"
    <2>1. /\ counter = 0 /\ counter' = Divisor - 1 /\ c = Divisor - 1 /\ k = bitno /\ k < Bits
          /\ line' = latch[1] /\ latch' = Append(Tail(latch), 0)
          /\ bitno' = (k + 1) % Bits /\ tx' = IF k = Bits - 1 THEN "STOP" ELSE "DATA"
      BY <1>1, <1>7, <1>11, TxMoves DEF Strobe
    <2>2. Place' = k + 1 /\ Age' = 0 /\ (tx' = "STOP" => bitno' = 0)
          /\ (tx' = "DATA" => bitno' = k + 1)
      <3>1. CASE k = Bits - 1
        <4>1. (k + 1) % Bits = 0
          BY <3>1, <1>7
        <4> QED BY <3>1, <4>1, <2>1, <1>7 DEF Place, Age
      <3>2. CASE k < Bits - 1
        <4>1. (k + 1) % Bits = k + 1
          BY <3>2, <1>7
        <4> QED BY <3>2, <4>1, <2>1, <1>7 DEF Place, Age
      <3> QED BY <3>1, <3>2, <2>1, <1>7
    <2>3. m = k
      BY <2>1, <1>7
    <2>4. rx'.t = Place' * Divisor + Age'
      BY <2>1, <2>2, <1>2, <1>6, <1>7
    <2>5. Heard(byte, IF Place = 0 THEN 0 ELSE IF Age > Half THEN Place ELSE Place - 1)'
      BY <2>2, <2>3, <1>7, <1>9 DEF Heard
    <2>6. \A i \in 1..Bits - k : latch[i] = byte[k + i]
      BY <2>1, <1>11 DEF Sending
    <2>7. line' = IF Place' = 0 THEN 0 ELSE byte[Place']
      BY <2>1, <2>2, <2>6, <1>7
    <2>8. ASSUME tx' = "DATA", NEW i \in 1..Bits - bitno'
          PROVE  latch'[i] = byte[bitno' + i]
      <3>1. bitno' = k + 1 /\ i \in 1..Bits - 1 /\ i + 1 \in 1..Bits - k
        BY <2>2, <2>8, <1>7
      <3>2. latch'[i] = latch[i + 1]
        BY <3>1, <2>1, ShiftedByte DEF TxType
      <3>3. latch[i + 1] = byte[k + (i + 1)]
        BY <3>1, <2>6
      <3> QED BY <3>1, <3>2, <3>3
    <2>9. tx' \in {"DATA", "STOP"}
      BY <2>1
    <2> QED BY <2>2, <2>4, <2>5, <2>7, <2>8, <2>9, <1>6 DEF Sending
  <1>12. CASE Strobe /\ tx = "STOP"
    <2>1. /\ counter = 0 /\ counter' = Divisor - 1 /\ c = Divisor - 1 /\ k = Bits
          /\ line' = 1 /\ tx' = "IDLE" /\ bitno' = 0
      BY <1>1, <1>4, <1>7, <1>12, TxMoves DEF Strobe
    <2>2. m = Bits
      BY <2>1, <1>7
    <2>3. rx'.t = (Bits + 1) * Divisor + 0 /\ 0 \in 0..Half
      BY <2>1, <1>2, <1>6, <1>7
    <2>4. Heard(byte, Bits)'
      BY <2>2, <1>9
    <2>5. NotYet(0)'
      BY <2>1 DEF NotYet
    <2> QED BY <2>1, <2>3, <2>4, <2>5, <1>6 DEF Trailing
  <1> QED BY <1>4, <1>10, <1>11, <1>12

LEMMA TrailingStep ==
    ASSUME TxType, PortType, NEW byte \in Byte, Trailing(byte), Edge
    PROVE  Resting' \/ Trailing(byte)'
  <1>1. PICK e \in 0..Half : rx.t = (Bits + 1) * Divisor + e /\ NotYet(e)
    BY DEF Trailing
  <1>2. /\ Divisor \in Nat /\ Divisor >= 2 /\ Half \in 1..Divisor - 1 /\ Bits \in Nat \ {0}
        /\ (Bits + 1) * Divisor \in Nat /\ e \in 0..Divisor - 1
        /\ counter \in 0..Divisor - 1
    BY Halves, Products DEF TxType
  <1>3. /\ RxDone <=> e = Half
        /\ ~(\E b \in 1..Bits : rx.t = MiddleOf(b))
        /\ rx.t # MiddleOf(0) /\ rx.t # 0
    <2>1. Bits + 1 \in 0..Bits + 1 /\ Bits + 1 \notin 1..Bits /\ Bits + 1 # 0
      BY <1>2
    <2> QED BY <2>1, <1>1, <1>2, Looks
  <1>4. tx \in {"IDLE", "START"} /\ bitno = 0 /\ line = 1 /\ Heard(byte, Bits)
        /\ outstanding = IF tx = "START" THEN <<byte, latch>> ELSE <<byte>>
    BY DEF Trailing
  <1>5. tx = "START" => ~Strobe
    BY <1>1, <1>2 DEF NotYet, Strobe
  <1>6. /\ tx' \in {"IDLE", "START"} /\ bitno' = 0 /\ line' = 1
        /\ tx' = "START" <=> Sends \/ tx = "START"
        /\ Sends => latch' = WriteData(BusOp)[0] /\ counter' = Divisor - 1 /\ tx = "IDLE"
        /\ tx = "START" => latch' = latch /\ counter' = counter - 1
    BY <1>4, <1>5, TxMoves
  <1>7. CASE e = Half
    <2>1. rx'.t = 0 /\ rx'.got = <<>>
      BY <1>3, <1>7, RxMoves
    <2>2. outstanding # <<>> /\ Tail(outstanding) = IF tx = "START" THEN <<latch>> ELSE <<>>
      BY <1>4
    <2>3. outstanding' = IF Sends THEN Append(Tail(outstanding), WriteData(BusOp)[0])
                         ELSE Tail(outstanding)
      BY <2>2, <1>3, <1>7, RxMoves
    <2>4. outstanding' = IF tx' = "START" THEN <<latch'>> ELSE <<>>
      <3>1. CASE Sends
        <4>1. Tail(outstanding) = <<>>
          BY <3>1, <2>2, <1>6
        <4>2. outstanding' = Append(<<>>, WriteData(BusOp)[0])
          BY <3>1, <4>1, <2>3
        <4> QED BY <3>1, <4>2, <1>6
      <3>2. CASE ~Sends
        BY <3>2, <2>2, <2>3, <1>6
      <3> QED BY <3>1, <3>2
    <2> QED BY <2>1, <2>4, <1>6 DEF Resting
  <1>8. CASE e # Half
    <2>1. rx'.t = rx.t + 1 /\ rx'.got = rx.got
      BY <1>3, <1>8, RxMoves
    <2>2. outstanding' = IF Sends THEN Append(outstanding, WriteData(BusOp)[0])
                         ELSE outstanding
      BY <1>3, <1>8, RxMoves
    <2>3. outstanding' = IF tx' = "START" THEN <<byte, latch'>> ELSE <<byte>>
      <3>1. CASE Sends
        <4>1. outstanding' = Append(<<byte>>, WriteData(BusOp)[0])
          BY <3>1, <2>2, <1>4, <1>6
        <4> QED BY <3>1, <4>1, <1>6
      <3>2. CASE ~Sends
        BY <3>2, <2>2, <1>4, <1>6
      <3> QED BY <3>1, <3>2
    <2>4. e + 1 \in 0..Half /\ rx'.t = (Bits + 1) * Divisor + (e + 1)
      BY <2>1, <1>1, <1>2, <1>8
    <2>5. NotYet(e + 1)'
      BY <1>1, <1>2, <1>6 DEF NotYet
    <2>6. Heard(byte, Bits)'
      BY <2>1, <1>4, HeardSame
    <2> QED BY <2>3, <2>4, <2>5, <2>6, <1>6 DEF Trailing
  <1> QED BY <1>7, <1>8

-----------------------------------------------------------------------------
LEMMA LineInvariant == Spec => []LineInv
  <1>1. Init => LineInv
    <2> SUFFICES ASSUME Init PROVE Resting
      BY DEF LineInv
    <2> QED BY DEF Init, Resting
  <1>2. PortType /\ TxType /\ LineInv /\ [Edge]_vars => LineInv'
    <2> SUFFICES ASSUME PortType, TxType, LineInv, [Edge]_vars PROVE LineInv'
      OBVIOUS
    <2>1. CASE Edge
      <3>1. CASE Resting
        BY <2>1, <3>1, RestingStep
      <3>2. ASSUME NEW byte \in Byte, Sending(byte) PROVE LineInv'
        BY <2>1, <3>2, SendingStep DEF LineInv
      <3>3. ASSUME NEW byte \in Byte, Trailing(byte) PROVE LineInv'
        BY <2>1, <3>3, TrailingStep DEF LineInv
      <3> QED BY <3>1, <3>2, <3>3 DEF LineInv
    <2>2. CASE UNCHANGED vars
      BY <2>2 DEF LineInv, Resting, Sending, Trailing, Heard, NotYet, Place, Age,
                  vars, portVars, txVars
    <2> QED BY <2>1, <2>2
  <1> QED BY <1>1, <1>2, Types, PTL DEF Spec

LEMMA WhenDone ==
    ASSUME LineInv, TxType, RxDone
    PROVE  \E byte \in Byte : Trailing(byte)
  <1>1. ~Resting
    <2> SUFFICES ASSUME Resting PROVE FALSE
      OBVIOUS
    <2>1. rx.t \in 0..Divisor - 1 /\ rx.t = 0 * Divisor + rx.t /\ 0 \in 0..Bits + 1
      BY Halves DEF Resting
    <2>2. 0 # Bits + 1
      BY Halves
    <2> QED BY <2>1, <2>2, Looks
  <1>2. ASSUME NEW byte \in Byte, Sending(byte) PROVE FALSE
    <2>1. /\ Place \in 0..Bits + 1 /\ Place # Bits + 1 /\ Age \in 0..Divisor - 1
          /\ rx.t = Place * Divisor + Age
      BY <1>2, Halves DEF Sending, TxType, Place, Age
    <2> QED BY <2>1, Looks
  <1> QED BY <1>1, <1>2 DEF LineInv

(* A receiver hears every byte the UART has taken, once and in order, for
   any length of a byte and of a bit. *)
THEOREM ReceiverHears == Spec => []LineIsHeard
  <1>1. LineInv /\ TxType => LineIsHeard
    <2> SUFFICES ASSUME LineInv, TxType, RxDone
                 PROVE  line = 1 /\ outstanding # <<>> /\ rx.got = Head(outstanding)
      BY DEF LineIsHeard
    <2>1. PICK byte \in Byte : Trailing(byte)
      BY WhenDone
    <2>2. /\ line = 1 /\ Heard(byte, Bits)
          /\ outstanding = IF tx = "START" THEN <<byte, latch>> ELSE <<byte>>
      BY <2>1 DEF Trailing
    <2>3. outstanding # <<>> /\ Head(outstanding) = byte
      BY <2>2
    <2>4. rx.got \in [1..Bits -> Bit] /\ byte \in [1..Bits -> Bit]
      BY <2>2, LenProperties DEF Heard, Byte
    <2>5. rx.got = byte
      BY <2>2, <2>4 DEF Heard
    <2> QED BY <2>2, <2>3, <2>5
  <1> QED BY <1>1, LineInvariant, Types, PTL

(* Every register fits its width, and at most two bytes are under way. *)
THEOREM DevicesTypeCorrect == Spec => []TypeOK
  <1>1. PortType /\ SlaveType /\ TxType /\ LineInv => TypeOK
    <2> SUFFICES ASSUME PortType, SlaveType, TxType, LineInv PROVE TypeOK
      OBVIOUS
    <2>1. Len(outstanding) <= 2
      <3>1. CASE Resting
        BY <3>1 DEF Resting
      <3>2. ASSUME NEW byte \in Byte, Sending(byte) PROVE Len(outstanding) <= 2
        BY <3>2 DEF Sending
      <3>3. ASSUME NEW byte \in Byte, Trailing(byte) PROVE Len(outstanding) <= 2
        BY <3>3 DEF Trailing
      <3> QED BY <3>1, <3>2, <3>3 DEF LineInv
    <2> QED BY <2>1 DEF TypeOK, PortType, SlaveType, TxType
  <1> QED BY <1>1, LineInvariant, Types, PTL

-----------------------------------------------------------------------------
(***************************************************************************)
(* How long an access takes: nothing but the UART makes one wait for more  *)
(* than a few cycles, and the debugger gets ahead of it once.              *)
(***************************************************************************)
(* How long n bits are on the line. *)
BitTime(n) == n * Divisor
Frame == BitTime(Bits + 2)

(* Edges until the transmitter is idle. *)
TxLeft ==
    CASE tx = "IDLE"  -> 0
      [] tx = "START" -> counter + 1 + BitTime(Bits + 1)
      [] tx = "DATA"  -> counter + 1 + BitTime(Bits - bitno)
      [] tx = "STOP"  -> counter + 1

(* Edges from the first cycle of an access on the bus to its acknowledge. *)
BusTime(op) == IF op.dev = "uart" /\ op.word = DataReg THEN Frame + 3 ELSE 2

(* Edges until the access on the bus is acknowledged. *)
ServeLeft ==
    CASE slave[BusOp.dev] = "DONE" -> 0
      [] slave[BusOp.dev] = "RET"  -> 1
      [] slave[BusOp.dev] = "WAIT" -> TxLeft + 2
      [] OTHER                     -> BusTime(BusOp)

(* Edges until the access port p asks for is acknowledged. *)
AccessLeft(p) ==
    IF BusEn
    THEN IF p = Owner THEN ServeLeft ELSE ServeLeft + 2 + BusTime(request[p])
    ELSE IF p = "debug" \/ request["debug"] = Nothing THEN 1 + BusTime(request[p])
    ELSE 5 + BusTime(request[p])

LEMMA BitTimes ==
    /\ \A n \in Nat : BitTime(n) \in Nat /\ BitTime(n + 1) = BitTime(n) + Divisor
    /\ BitTime(1) = Divisor
    /\ \A m, n \in Nat : m <= n => BitTime(m) <= BitTime(n)
  <1>1. \A n \in Nat : BitTime(n) \in Nat /\ BitTime(n + 1) = BitTime(n) + Divisor
    BY Halves, Products DEF BitTime
  <1>2. BitTime(1) = Divisor
    BY Halves DEF BitTime
  <1>3. ASSUME NEW m \in Nat, NEW n \in Nat, m <= n
        PROVE  BitTime(m) <= BitTime(n)
    <2>1. CASE m = n
      BY <2>1, <1>1
    <2>2. CASE m # n
      <3>1. m < n
        BY <1>3, <2>2
      <3>2. BitTime(n) >= BitTime(m) + Divisor
        BY <3>1, Halves, Farther DEF BitTime
      <3> QED BY <3>2, <1>1, Halves
    <2> QED BY <2>1, <2>2
  <1> QED BY <1>1, <1>2, <1>3

LEMMA FrameFacts ==
    /\ Frame \in Nat /\ Frame = BitTime(Bits + 1) + Divisor
    /\ BitTime(Bits + 1) = BitTime(Bits) + Divisor
    /\ BitTime(Bits + 1) \in Nat /\ BitTime(Bits) \in Nat
    /\ Divisor \in Nat /\ Divisor >= 2 /\ Bits \in Nat \ {0}
  <1>1. Bits \in Nat /\ Bits + 1 \in Nat /\ Bits + 2 = (Bits + 1) + 1
    BY Halves
  <1>2. BitTime((Bits + 1) + 1) = BitTime(Bits + 1) + Divisor
    BY <1>1, BitTimes
  <1>3. BitTime(Bits + 2) = BitTime((Bits + 1) + 1)
    BY <1>1, Zenon
  <1>4. BitTime(Bits + 1) \in Nat /\ BitTime(Bits + 1) = BitTime(Bits) + Divisor
        /\ BitTime(Bits) \in Nat /\ Divisor \in Nat
    BY <1>1, Halves, BitTimes
  <1> QED BY <1>1, <1>2, <1>3, <1>4, Halves DEF Frame

LEMMA TxLeftType ==
    ASSUME TxType
    PROVE  TxLeft \in Nat /\ (tx # "IDLE" => TxLeft >= 1) /\ TxLeft <= Frame
  <1>1. counter \in 0..Divisor - 1 /\ bitno \in 0..Bits - 1
    BY DEF TxType
  <1>2. BitTime(Bits - bitno) \in Nat /\ BitTime(Bits - bitno) <= BitTime(Bits)
    <2>1. Bits - bitno \in Nat /\ Bits \in Nat /\ Bits - bitno <= Bits
      BY <1>1, Halves
    <2> QED BY <2>1, BitTimes
  <1>3. CASE tx = "IDLE"
    BY <1>3, FrameFacts DEF TxLeft
  <1>4. CASE tx = "START"
    BY <1>1, <1>4, FrameFacts DEF TxLeft
  <1>5. CASE tx = "DATA"
    BY <1>1, <1>2, <1>5, FrameFacts DEF TxLeft
  <1>6. CASE tx = "STOP"
    BY <1>1, <1>6, FrameFacts DEF TxLeft
  <1> QED BY <1>3, <1>4, <1>5, <1>6 DEF TxType

(* A transmitter that is at work comes nearer to its end with every edge. *)
LEMMA TxAdvances ==
    ASSUME TxType, LineInv, Edge
    PROVE  /\ tx # "IDLE" => TxLeft' = TxLeft - 1
           /\ Sends => TxLeft' = Frame
  <1>1. counter \in 0..Divisor - 1 /\ bitno \in 0..Bits - 1
    BY DEF TxType
  <1>2. Sends => tx' = "START" /\ counter' = Divisor - 1
    BY TxMoves
  <1>3. Sends => TxLeft' = Frame
    BY <1>2, FrameFacts DEF TxLeft
  <1>4. ASSUME tx # "IDLE"
        PROVE  counter' = IF counter = 0 THEN Divisor - 1 ELSE counter - 1
    BY <1>4, TxMoves DEF Strobe
  <1>5. ASSUME tx = "START" PROVE TxLeft' = TxLeft - 1
    <2>1. bitno = 0 /\ bitno' = 0 /\ tx' = IF counter = 0 THEN "DATA" ELSE "START"
      BY <1>5, TxMoves DEF Strobe, LineInv, Resting, Sending, Trailing
    <2>2. CASE counter = 0
      <3>1. TxLeft = 1 + BitTime(Bits + 1)
        BY <1>5, <2>2, FrameFacts DEF TxLeft
      <3>2. tx' = "DATA" /\ counter' = Divisor - 1 /\ Bits - bitno' = Bits
        BY <1>4, <1>5, <2>1, <2>2, FrameFacts
      <3>3. TxLeft' = Divisor - 1 + 1 + BitTime(Bits)
        BY <3>2 DEF TxLeft
      <3> QED BY <3>1, <3>3, FrameFacts
    <2>3. CASE counter # 0
      BY <1>1, <1>4, <1>5, <2>1, <2>3, FrameFacts DEF TxLeft
    <2> QED BY <2>2, <2>3
  <1>6. ASSUME tx = "DATA" PROVE TxLeft' = TxLeft - 1
    <2>1. CASE counter # 0
      <3>1. tx' = "DATA" /\ bitno' = bitno /\ counter' = counter - 1
        BY <1>4, <1>6, <2>1, TxMoves DEF Strobe
      <3>2. BitTime(Bits - bitno) \in Nat
        <4>1. Bits - bitno \in Nat
          BY <1>1, FrameFacts
        <4> QED BY <4>1, BitTimes
      <3> QED BY <1>1, <1>6, <3>1, <3>2 DEF TxLeft
    <2>2. CASE counter = 0 /\ bitno = Bits - 1
      <3>1. tx' = "STOP" /\ counter' = Divisor - 1
        BY <1>4, <1>6, <2>2, TxMoves DEF Strobe
      <3>2. TxLeft' = Divisor
        BY <3>1, FrameFacts DEF TxLeft
      <3>3. BitTime(Bits - bitno) = Divisor
        <4>1. Bits - bitno = 1
          BY <2>2, FrameFacts
        <4> QED BY <4>1, BitTimes
      <3>4. TxLeft = 1 + Divisor
        BY <1>6, <2>2, <3>3, FrameFacts DEF TxLeft
      <3> QED BY <3>2, <3>4, FrameFacts
    <2>3. CASE counter = 0 /\ bitno # Bits - 1
      <3>1. tx' = "DATA" /\ counter' = Divisor - 1 /\ bitno' = (bitno + 1) % Bits
        BY <1>4, <1>6, <2>3, TxMoves DEF Strobe
      <3>2. bitno' = bitno + 1 /\ Bits - bitno' \in Nat /\ Bits - bitno = (Bits - bitno') + 1
        BY <1>1, <2>3, <3>1, FrameFacts
      <3>3. TxLeft' = Divisor + BitTime(Bits - bitno')
        BY <3>1, FrameFacts DEF TxLeft
      <3>4. TxLeft = 1 + BitTime(Bits - bitno)
        BY <1>6, <2>3, FrameFacts DEF TxLeft
      <3>5. /\ BitTime(Bits - bitno') \in Nat
            /\ BitTime(Bits - bitno) = BitTime(Bits - bitno') + Divisor
        BY <3>2, BitTimes
      <3> QED BY <3>3, <3>4, <3>5, FrameFacts
    <2> QED BY <2>1, <2>2, <2>3
  <1>7. ASSUME tx = "STOP" PROVE TxLeft' = TxLeft - 1
    <2>1. tx' = IF counter = 0 THEN "IDLE" ELSE "STOP"
      BY <1>7, TxMoves DEF Strobe
    <2> QED BY <1>1, <1>4, <1>7, <2>1, FrameFacts DEF TxLeft
  <1> QED BY <1>3, <1>5, <1>6, <1>7 DEF TxType

LEMMA ServeLeftType ==
    ASSUME BusInv, BusEn
    PROVE  ServeLeft \in 0..Frame + 3 /\ (ServeLeft = 0 <=> Ack)
  <1>1. BusOp.dev \in Dev /\ TxLeft \in 0..Frame /\ Frame \in Nat
    BY TxLeftType, BusFacts, FrameFacts DEF BusInv
  <1>2. Ack <=> slave[BusOp.dev] = "DONE"
    BY <1>1 DEF Ack
  <1> QED BY <1>1, <1>2 DEF ServeLeft, BusTime

(* The access on the bus is served without a break. *)
LEMMA ServeAdvances ==
    ASSUME BusInv, LineInv, Edge, BusEn, ~Ack
    PROVE  ServeLeft' = ServeLeft - 1
  <1> DEFINE d == BusOp.dev
  <1>1. /\ d \in Dev /\ BusOp' = BusOp /\ BusOp \in Op /\ Legal(BusOp) /\ Cyc(d)
        /\ slave[d] # "DONE" /\ slave[d] \in {"REQ", "WAIT", "RET", "DONE"}
        /\ TxType /\ Frame \in Nat /\ TxLeft \in Nat
    BY BusFacts, BusIsHeld, FrameFacts, TxLeftType DEF BusInv, Cyc, Ack, SlaveType
  <1>2. slave'[d] = IF d = "uart" THEN UartStep ELSE MemoryStepOf(d)
    BY <1>1 DEF Edge, SlaveStep
  <1>3. CASE slave[d] = "RET"
    <2>1. slave'[d] = "DONE"
      BY <1>2, <1>3 DEF UartStep, MemoryStepOf
    <2> QED BY <1>1, <1>3, <2>1 DEF ServeLeft
  <1>4. CASE slave[d] = "WAIT"
    <2>1. d = "uart"
      BY <1>1, <1>4 DEF BusInv, SlaveType
    <2>2. slave'[d] = IF tx = "IDLE" THEN "RET" ELSE "WAIT"
      BY <1>2, <1>4, <2>1 DEF UartStep
    <2>3. CASE tx = "IDLE"
      <3>1. ServeLeft = 2
        BY <1>4, <2>3 DEF ServeLeft, TxLeft
      <3> QED BY <1>1, <2>2, <2>3, <3>1 DEF ServeLeft
    <2>4. CASE tx # "IDLE"
      <3>1. TxLeft' = TxLeft - 1
        BY <1>1, <2>4, TxAdvances
      <3>2. ServeLeft' = TxLeft' + 2
        BY <1>1, <2>2, <2>4 DEF ServeLeft
      <3>3. ServeLeft = TxLeft + 2
        BY <1>4 DEF ServeLeft
      <3> QED BY <1>1, <3>1, <3>2, <3>3
    <2> QED BY <2>3, <2>4
  <1>5. CASE slave[d] = "REQ"
    <2>1. ServeLeft = BusTime(BusOp)
      BY <1>5 DEF ServeLeft
    <2>2. CASE d # "uart" \/ BusOp.word = BusyReg
      <3>1. slave'[d] = "RET"
        BY <1>2, <1>5, <2>2 DEF UartStep, MemoryStepOf
      <3>2. BusTime(BusOp) = 2
        BY <2>2 DEF BusTime, BusyReg, DataReg
      <3> QED BY <1>1, <2>1, <3>1, <3>2 DEF ServeLeft
    <2>3. CASE d = "uart" /\ BusOp.word # BusyReg
      <3>1. BusOp.word = DataReg /\ BusOp.store
        BY <1>1, <2>3 DEF Legal
      <3>2. Sends
        BY <1>1, <1>5, <2>3, <3>1 DEF Sends, BusInv, TxWaits
      <3>3. slave'[d] = "WAIT"
        BY <1>2, <1>5, <2>3, <3>2 DEF UartStep
      <3>4. TxLeft' = Frame
        BY <1>1, <3>2, TxAdvances
      <3>5. ServeLeft' = TxLeft' + 2
        BY <1>1, <3>3 DEF ServeLeft
      <3>6. ServeLeft = Frame + 3
        BY <2>1, <2>3, <3>1 DEF BusTime
      <3> QED BY <1>1, <3>4, <3>5, <3>6
    <2> QED BY <2>2, <2>3
  <1> QED BY <1>1, <1>3, <1>4, <1>5

(* The hart fetches, or it loads or stores. *)
OneAccessOfHart == request["dbus"] = Nothing \/ request["ibus"] = Nothing

LEMMA OneAccessAtATime == Spec => []OneAccessOfHart
  <1>1. Init => OneAccessOfHart
    BY DEF Init, OneAccessOfHart, Port
  <1>2. OneAccessOfHart /\ [Edge]_vars => OneAccessOfHart'
    BY DEF Edge, PortsStep, OneAccessOfHart, Port, vars, portVars
  <1> QED BY <1>1, <1>2, PTL DEF Spec

LEMMA AccessAdvances ==
    ASSUME BusInv, BusInv', LineInv, OneAccessOfHart, Edge,
           NEW p \in Port, request[p] # Nothing, ~PortAck(p)
    PROVE  request'[p] = request[p] /\ AccessLeft(p)' = AccessLeft(p) - 1
  <1>1. PortType /\ SlaveType /\ Frame \in Nat
    BY FrameFacts DEF BusInv
  <1>2. request'[p] = request[p] /\ request'[p] # Nothing
    BY <1>1, PortMoves
  <1>3. BusTime(request[p]) \in Nat /\ BusTime(request[p])' = BusTime(request[p])
    BY <1>1, <1>2 DEF BusTime, Frame
  <1>4. CASE BusEn /\ ~Ack
    <2>1. Owner' = Owner /\ BusOp' = BusOp /\ BusEn'
      BY <1>1, <1>4, BusIsHeld DEF BusEn
    <2>2. ServeLeft' = ServeLeft - 1 /\ ServeLeft \in Nat
      BY <1>4, ServeAdvances, ServeLeftType, FrameFacts
    <2> QED BY <1>2, <1>3, <1>4, <2>1, <2>2 DEF AccessLeft
  <1>5. CASE BusEn /\ Ack
    <2>1. Owner \in granted /\ Owner \in Port /\ request[Owner] # Nothing /\ p # Owner
      BY <1>1, <1>5, BusFacts DEF BusEn, PortAck, Owns
    <2>2. request'[Owner] = Nothing /\ granted' = granted /\ granted # {}
      BY <1>1, <1>5, <2>1, PortMoves DEF PortAck, Owns, Edge, LatchRequests, BusFree
    <2>3. ~BusEn'
      BY <2>2 DEF BusEn, BusOp, Owner
    <2>4. p = "debug" \/ Owner = "debug"
      BY <2>1 DEF OneAccessOfHart, Port
    <2>5. AccessLeft(p) = 2 + BusTime(request[p])
      BY <1>3, <1>5, <2>1, ServeLeftType DEF AccessLeft
    <2>6. AccessLeft(p)' = 1 + BusTime(request[p])
      BY <1>3, <2>2, <2>3, <2>4 DEF AccessLeft
    <2> QED BY <1>2, <1>3, <2>5, <2>6
  <1>6. CASE ~BusEn
    <2>1. granted' = {q \in Port : request[q] # Nothing}
      BY <1>6 DEF Edge, LatchRequests, BusFree
    <2>2. ~Ack
      BY <1>1, <1>6, BusFacts DEF Ack
    <2>3. Owner' = IF request["debug"] # Nothing THEN "debug" ELSE p
      BY <2>1 DEF Owner, Port, OneAccessOfHart
    <2>4. /\ Owner' \in Port /\ request[Owner'] # Nothing /\ ~PortAck(Owner')
          /\ Owner' \in granted'
      BY <2>1, <2>2, <2>3 DEF Port, PortAck
    <2>5. request'[Owner'] = request[Owner'] /\ BusOp' = request[Owner'] /\ BusEn'
      BY <1>1, <2>4, PortMoves DEF BusOp, BusEn
    <2>6. ASSUME NEW d \in Dev PROVE slave'[d] = "REQ"
      BY <1>1, <1>6, <2>6, AtWork, CycFacts DEF BusInv
    <2>7. BusOp'.dev \in Dev
      BY <2>5, BusIsForDevNext DEF BusIsForDev, BusInv
    <2>8. ServeLeft' = BusTime(request[Owner'])
      BY <2>5, <2>6, <2>7 DEF ServeLeft, BusTime, Frame
    <2>9. CASE p = Owner'
      BY <1>2, <1>3, <1>6, <2>3, <2>5, <2>8, <2>9 DEF AccessLeft
    <2>10. CASE p # Owner'
      <3>1. Owner' = "debug" /\ request["debug"] # Nothing
        BY <2>3, <2>10
      <3>2. request["debug"].dev = "debug_ebr"
        BY <1>1, <3>1, AccessAssumption DEF PortType, Port
      <3>3. ServeLeft' = 2
        BY <2>8, <3>1, <3>2 DEF BusTime
      <3> QED BY <1>2, <1>3, <1>6, <2>5, <2>10, <3>1, <3>3 DEF AccessLeft
    <2> QED BY <2>9, <2>10
  <1> QED BY <1>4, <1>5, <1>6

(* Every access that is asked for stands until its acknowledge, which comes
   after AccessLeft edges, whatever the other ports ask for meanwhile: the
   safety half of AccessAnswered. *)
THEOREM AccessTime ==
    Spec => [][\A p \in Port : request[p] # Nothing /\ ~PortAck(p) =>
                 request'[p] = request[p] /\ AccessLeft(p)' = AccessLeft(p) - 1]_vars
  <1> DEFINE Advances ==
        \A p \in Port : request[p] # Nothing /\ ~PortAck(p) =>
          request'[p] = request[p] /\ AccessLeft(p)' = AccessLeft(p) - 1
  <1>1. BusInv /\ BusInv' /\ LineInv /\ OneAccessOfHart /\ [Edge]_vars => [Advances]_vars
    <2>1. ASSUME BusInv, BusInv', LineInv, OneAccessOfHart, Edge PROVE Advances
      BY <2>1, AccessAdvances
    <2> QED BY <2>1
  <1> QED BY <1>1, BusInvariant, LineInvariant, OneAccessAtATime, PTL DEF Spec

(* An access waits for a frame on the serial line at most, and for at most
   eight cycles besides; the last of them is that of the acknowledge. *)
THEOREM AccessTimeBounded ==
    Spec => [](\A p \in Port : request[p] # Nothing =>
                 /\ AccessLeft(p) \in 0..Frame + 8
                 /\ AccessLeft(p) = 0 <=> PortAck(p))
  <1> DEFINE Bounded == \A p \in Port : request[p] # Nothing =>
                 /\ AccessLeft(p) \in 0..Frame + 8
                 /\ AccessLeft(p) = 0 <=> PortAck(p)
  <1>1. BusInv /\ OneAccessOfHart => Bounded
    <2> SUFFICES ASSUME BusInv, OneAccessOfHart, NEW p \in Port, request[p] # Nothing
                 PROVE  /\ AccessLeft(p) \in 0..Frame + 8
                        /\ AccessLeft(p) = 0 <=> PortAck(p)
      OBVIOUS
    <2>1. Frame \in Nat /\ PortType
      BY FrameFacts DEF BusInv
    <2>2. BusTime(request[p]) \in 2..Frame + 3
      BY <2>1 DEF BusTime
    <2>3. request["debug"] # Nothing => BusTime(request["debug"]) = 2
      <3>1. request["debug"] # Nothing => request["debug"].dev = "debug_ebr"
        BY <2>1, AccessAssumption DEF PortType, Port
      <3> QED BY <3>1 DEF BusTime
    <2>4. CASE ~BusEn
      <3>1. ~PortAck(p)
        BY <2>1, <2>4, BusFacts DEF PortAck, Ack
      <3> QED BY <2>1, <2>2, <2>4, <3>1 DEF AccessLeft
    <2>5. CASE BusEn /\ p = Owner
      <3>1. Owns(p) /\ ServeLeft \in 0..Frame + 3 /\ (ServeLeft = 0 <=> Ack)
        BY <2>1, <2>5, BusFacts, ServeLeftType DEF Owns
      <3> QED BY <2>1, <2>5, <3>1 DEF AccessLeft, PortAck
    <2>6. CASE BusEn /\ p # Owner
      <3>1. ServeLeft \in 0..Frame + 3 /\ ~PortAck(p)
        BY <2>6, ServeLeftType DEF PortAck, Owns
      <3>2. AccessLeft(p) = ServeLeft + 2 + BusTime(request[p])
        BY <2>6 DEF AccessLeft
      <3>3. p = "debug" \/ Owner = "debug"
        BY <2>1, <2>6, BusFacts DEF OneAccessOfHart, Port, BusEn
      <3>4. CASE p = "debug"
        BY <2>1, <2>3, <3>1, <3>2, <3>4
      <3>5. CASE Owner = "debug"
        <4>1. request["debug"].dev = "debug_ebr" /\ BusOp = request["debug"]
          BY <2>1, <2>6, <3>5, BusFacts, AccessAssumption DEF PortType, Port
        <4>2. ServeLeft \in 0..2
          BY <2>1, <4>1, BusFacts DEF ServeLeft, BusTime, BusInv, SlaveType, Dev, Ram
        <4> QED BY <2>1, <2>2, <3>1, <3>2, <4>2
      <3> QED BY <3>3, <3>4, <3>5
    <2> QED BY <2>4, <2>5, <2>6
  <1> QED BY <1>1, BusInvariant, OneAccessAtATime, PTL DEF Spec
=============================================================================
