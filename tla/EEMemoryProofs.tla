--------------------------- MODULE EEMemoryProofs ---------------------------
(****************************************************************************)
(* Proofs about EEMemory, for every set of addresses, registers and values. *)
(* Every leaf about addresses names SMT: the other prover counts in unary.  *)
(****************************************************************************)
EXTENDS EEMemory, TLAPS

\* What FindRam gives for each window of the memory map.
LEMMA Placed ==
    ASSUME NEW a \in MemoryMap
    PROVE  /\ a \in Nat
           /\ \/ a < MainSize /\ FindRam(a) = At("mainRAM", a)
              \/ Within(a, \h1000000, 64 * KB) /\ FindRam(a) = At("ioRegisterRAM", a - \h1000000)
              \/ Within(a, \h1100000, 4 * KB) /\ FindRam(a) = At("vu0CodeRAM", a - \h1100000)
              \/ Within(a, \h1100400, 4 * KB) /\ FindRam(a) = At("vu0DataRAM", a - \h1100400)
              \/ Within(a, \h1100800, 16 * KB) /\ FindRam(a) = At("vu1CodeRAM", a - \h1100800)
              \/ Within(a, \h1100C01, 16 * KB - 1) /\ FindRam(a) = At("vu1DataRAM", a - \h1100C00)
              \/ Within(a, \h1200000, 8 * KB) /\ FindRam(a) = At("gsPrivilegedRAM", a - \h1200000)
              \/ Within(a, \h1C00000, 2 * MB) /\ FindRam(a) = At("iopRAM", a - \h1C00000)
<1>1. a \in Nat
    BY SMT DEF MemoryMap, Addresses
<1> MainSize = 2097152 /\ MB = 65536 /\ KB = 64
    BY SMT DEF MainSize, MB, KB
<1>2. CASE a < MainSize
    BY <1>1, <1>2, SMT DEF FindRam
<1>3. CASE Within(a, \h1000000, 64 * KB)
    BY <1>1, <1>3, SMT DEF FindRam, Within
<1>4. CASE Within(a, \h1100000, 4 * KB)
    BY <1>1, <1>4, SMT DEF FindRam, Within
<1>5. CASE Within(a, \h1100400, 4 * KB)
    BY <1>1, <1>5, SMT DEF FindRam, Within
<1>6. CASE Within(a, \h1100800, 16 * KB)
    <2>1. /\ ~(a < MainSize)
          /\ ~Within(a, \h1000000, 64 * KB)
          /\ ~Within(a, \h1100000, 4 * KB)
          /\ ~Within(a, \h1100400, 4 * KB)
          /\ Within(a, \h1100800, 16 * KB + 1)
        BY <1>1, <1>6, SMT DEF Within
    <2>2. FindRam(a) = At("vu1CodeRAM", a - \h1100800)
        BY <2>1, SMT DEF FindRam
    <2> QED BY <1>1, <1>6, <2>2, SMT
<1>7. CASE Within(a, \h1100C01, 16 * KB - 1)
    <2>1. /\ ~(a < MainSize)
          /\ ~Within(a, \h1000000, 64 * KB)
          /\ ~Within(a, \h1100000, 4 * KB)
          /\ ~Within(a, \h1100400, 4 * KB)
          /\ ~Within(a, \h1100800, 16 * KB + 1)
          /\ Within(a, \h1100C00, 16 * KB)
        BY <1>1, <1>7, SMT DEF Within
    <2>2. FindRam(a) = At("vu1DataRAM", a - \h1100C00)
        BY <2>1, SMT DEF FindRam
    <2> QED BY <1>1, <1>7, <2>2, SMT
<1>8. CASE Within(a, \h1200000, 8 * KB)
    BY <1>1, <1>8, SMT DEF FindRam, Within
<1>9. CASE Within(a, \h1C00000, 2 * MB)
    BY <1>1, <1>9, SMT DEF FindRam, Within
<1> QED BY <1>1, <1>2, <1>3, <1>4, <1>5, <1>6, <1>7, <1>8, <1>9, SMT DEF MemoryMap

\* Two addresses of the memory map are never one place in host memory.
LEMMA Apart ==
    ASSUME NEW a \in MemoryMap, NEW b \in MemoryMap, FindRam(a) = FindRam(b)
    PROVE  a = b
BY Placed, SMTT(60) DEF At

\* FindRam stays inside the buffer that was allocated, for the whole memory
\* map: no access of a game to an address of it leaves the buffers of mem.
THEOREM WindowsFit ==
    ASSUME NEW a \in MemoryMap
    PROVE  \E buffer \in DOMAIN Size, offset \in Nat :
              FindRam(a) = At(buffer, offset) /\ offset < Size[buffer]
<1>1. \/ \E o \in Nat : FindRam(a) = At("mainRAM", o) /\ o < 64 * MB
      \/ \E o \in Nat : FindRam(a) = At("ioRegisterRAM", o) /\ o < 64 * KB
      \/ \E o \in Nat : FindRam(a) = At("vu0CodeRAM", o) /\ o < 4 * KB
      \/ \E o \in Nat : FindRam(a) = At("vu0DataRAM", o) /\ o < 4 * KB
      \/ \E o \in Nat : FindRam(a) = At("vu1CodeRAM", o) /\ o < 16 * KB
      \/ \E o \in Nat : FindRam(a) = At("vu1DataRAM", o) /\ o < 16 * KB
      \/ \E o \in Nat : FindRam(a) = At("gsPrivilegedRAM", o) /\ o < 8 * KB
      \/ \E o \in Nat : FindRam(a) = At("iopRAM", o) /\ o < 2 * MB
    BY Placed, SMTT(60) DEF Within, MainSize, KB, MB
<1>2. /\ DOMAIN Size = {"mainRAM", "ioRegisterRAM", "vu0CodeRAM", "vu0DataRAM", "vu1CodeRAM",
                        "vu1DataRAM", "gsPrivilegedRAM", "iopRAM"}
      /\ Size["mainRAM"] = 64 * MB /\ Size["ioRegisterRAM"] = 64 * KB
      /\ Size["vu0CodeRAM"] = 4 * KB /\ Size["vu0DataRAM"] = 4 * KB
      /\ Size["vu1CodeRAM"] = 16 * KB /\ Size["vu1DataRAM"] = 16 * KB
      /\ Size["gsPrivilegedRAM"] = 8 * KB /\ Size["iopRAM"] = 2 * MB
    BY SMT DEF Size
<1> QED BY <1>1, <1>2, SMTT(60)

\* The stacks of the first thirty threads lie above main memory as FindRam
\* sees it: each access to the top of one, whichever thread's, is taken to be
\* to the first quadword of main memory.
THEOREM StacksCollapse ==
    ASSUME NEW id \in Nat, id < 30
    PROVE  FindRam(StackTop(id) - 1) = At("mainRAM", 0)
<1>1. KB = 64 /\ MB = 65536 /\ MainSize = 2097152
    BY SMT DEF KB, MB, MainSize
<1>2. StackTop(id) = (62 - id) * 65536
    BY <1>1, SMT DEF StackTop
<1> DEFINE a == StackTop(id) - 1
<1>3. a \in Int /\ 2162687 <= a /\ a < 4063232
    BY <1>2, SMT
<1> HIDE DEF a
<1>4. /\ ~(a < MainSize)
      /\ ~Within(a, \h1000000, 64 * KB) /\ ~Within(a, \h1100000, 4 * KB)
      /\ ~Within(a, \h1100400, 4 * KB) /\ ~Within(a, \h1100800, 16 * KB + 1)
      /\ ~Within(a, \h1100C00, 16 * KB) /\ ~Within(a, \h1200000, 8 * KB)
      /\ ~Within(a, \h1C00000, 2 * MB)
      /\ ~Within(a, \hF000000, \h1000000) /\ ~Within(a, \h5000000, \h1000000)
    BY <1>1, <1>3, SMT DEF Within
<1>5. FindRam(a) = At("mainRAM", 0)
    BY <1>4, SMT DEF FindRam
<1> QED BY <1>5, SMT DEF a

\* The first quadword of vu1 data memory, which the map leaves out, is looked
\* for just behind the buffer of vu1 code.
THEOREM FirstVuDataOutside == FindRam(\h1100C00) = At("vu1CodeRAM", Size["vu1CodeRAM"])
<1> KB = 64 /\ MB = 65536 /\ MainSize = 2097152
    BY SMT DEF KB, MB, MainSize
<1>1. /\ ~(\h1100C00 < MainSize)
      /\ ~Within(\h1100C00, \h1000000, 64 * KB) /\ ~Within(\h1100C00, \h1100000, 4 * KB)
      /\ ~Within(\h1100C00, \h1100400, 4 * KB) /\ Within(\h1100C00, \h1100800, 16 * KB + 1)
    BY SMT DEF Within
<1>2. FindRam(\h1100C00) = At("vu1CodeRAM", \h1100C00 - \h1100800)
    BY <1>1, SMT DEF FindRam
<1>3. Size["vu1CodeRAM"] = 16 * KB /\ 16 * KB = \h1100C00 - \h1100800
    BY SMT DEF Size
<1> QED BY <1>2, <1>3, SMT

-----------------------------------------------------------------------------

\* A function that differs from another at one argument.
LEMMA Overwritten ==
    ASSUME NEW f, NEW g, NEW S, NEW to \in S, NEW v,
           f = [a \in S |-> f[a]], g = [a \in S |-> g[a]],
           \A a \in S : g[a] = IF a = to THEN v ELSE f[a]
    PROVE  g = [f EXCEPT ![to] = v]
BY SMT

LEMMA Reached == \A a \in Reach : FindRam(a) \in Places
BY SMT DEF Places

LEMMA AllReached == Address \subseteq Reach /\ \A r \in Register : RegisterAt(r) \in Reach
BY SMT DEF Reach

\* A step of the memory is one of the five operations.
LEMMA Steps ==
    ASSUME NEW P, Next,
           \A a \in Address, v \in Value : Store(a, v) => P,
           \A a \in Address : Load(a) => P,
           \A r \in Register, v \in Value : SifSetReg(r, v) => P,
           \A r \in Register : SifGetReg(r) => P,
           \A src, dest \in Address : SifSetDma(src, dest) => P
    PROVE  P
BY Zenon DEF Next

\* The host memory a game reaches holds values, whatever addresses it uses.
THEOREM TypeCorrect == Spec => []TypeOK
<1>1. Init => TypeOK
    BY ValueAssumption, ImageAssumption, SMT DEF Init, TypeOK, Operation
<1>2. TypeOK /\ [Next]_vars => TypeOK'
    <2> SUFFICES ASSUME TypeOK, [Next]_vars PROVE TypeOK'
        BY SMT
    <2>1. CASE Next
        <3>1. ASSUME NEW a \in Reach, NEW v \in Value, Write(a, v) PROVE cells' \in [Places -> Value]
            BY <3>1, Reached, SMT DEF TypeOK, Write
        <3>2. \A a \in Reach : cells[FindRam(a)] \in Value
            BY Reached, SMT DEF TypeOK
        <3>3. ASSUME NEW a \in Address, NEW v \in Value, Store(a, v) PROVE TypeOK'
            BY <3>1, <3>3, AllReached, SMT DEF TypeOK, Store, Operation
        <3>4. ASSUME NEW a \in Address, Load(a) PROVE TypeOK'
            BY <3>2, <3>4, AllReached, SMT DEF TypeOK, Load, Operation
        <3>5. ASSUME NEW r \in Register, NEW v \in Value, SifSetReg(r, v) PROVE TypeOK'
            BY <3>1, <3>5, AllReached, SMT DEF TypeOK, SifSetReg, Operation
        <3>6. ASSUME NEW r \in Register, SifGetReg(r) PROVE TypeOK'
            BY <3>2, <3>6, AllReached, ValueAssumption, SMT DEF TypeOK, SifGetReg, Operation
        <3>7. ASSUME NEW src \in Address, NEW dest \in Address, SifSetDma(src, dest) PROVE TypeOK'
            BY <3>1, <3>2, <3>7, AllReached, SMT DEF TypeOK, SifSetDma, Operation
        <3> QED BY <2>1, <3>3, <3>4, <3>5, <3>6, <3>7, Steps, Zenon
    <2>2. CASE UNCHANGED vars
        BY <2>2, SMT DEF vars, TypeOK
    <2> QED BY <2>1, <2>2, SMT
<1> QED BY <1>1, <1>2, PTL DEF Spec

\* Of a game that keeps to the map, the registers are at their ports, in the map
\* like all it reaches, and the one that answers for itself is the one that should.
LEMMA PortsInMap ==
    ASSUME KeepsToMap
    PROVE  /\ Reach \subseteq MemoryMap
           /\ \A r \in Register : RegisterAt(r) = Guest!Port(r) /\ (Pretended(r) <=> Guest!Announcing(r))
<1>1. ASSUME NEW r \in Register
      PROVE  /\ RegisterAt(r) = r[2] + \h1000F20 /\ RegisterAt(r) \in MemoryMap
             /\ r = <<r[1], r[2]>> /\ r[1] \in 0 .. 15 /\ r[2] \in Nat
    <2>1. r = <<r[1], r[2]>> /\ r[1] \in 0 .. 15 /\ r[2] \in Nat /\ r[2] < 224
        BY RegisterAssumption, SMT DEF Addresses, KeepsToMap, Ports
    <2>2. RegisterAt(r) = r[2] + \h1000F20
        BY <2>1, SMT DEF RegisterAt
    <2>3. RegisterAt(r) \in Addresses /\ Within(RegisterAt(r), \h1000000, 64 * KB)
        BY <2>1, <2>2, SMT DEF Addresses, Within, KB
    <2> QED BY <2>1, <2>2, <2>3, SMT DEF MemoryMap
<1>2. Reach \subseteq MemoryMap
    BY <1>1, SMT DEF Reach, KeepsToMap
<1>3. ASSUME NEW r \in Register PROVE Pretended(r) <=> Guest!Announcing(r)
    <2>1. r[1] % 8 = 0 <=> r[1] \in {0, 8}
        BY <1>1, SMT
    <2>2. r \in {<<0, 4>>, <<8, 4>>} <=> r[1] \in {0, 8} /\ r[2] = 4
        BY <1>1, SMT
    <2> QED BY <2>1, <2>2, SMT DEF Pretended, Guest!Announcing
<1> QED BY <1>1, <1>2, <1>3, SMT DEF Guest!Port

\* What a game that keeps to the map is given, whatever it does and for all
\* addresses, registers, values and images: each load and register read brings
\* what that very address or port held, and each store changes that one alone.
THEOREM MemoryRefines ==
    ASSUME KeepsToMap
    PROVE  Spec => ImplementsGuestMemory
<1> Reach \subseteq MemoryMap
    BY PortsInMap
<1> DEFINE mem == [a \in Reach |-> cells[FindRam(a)]]
<1>1. Init => Guest!Init
    <2> SUFFICES ASSUME Init PROVE Guest!Init
        BY SMT
    <2>1. ASSUME NEW a \in Reach
          PROVE  cells[FindRam(a)] = IF a \in DOMAIN Image THEN Image[a] ELSE Zero
        <3>1. \/ FindRam(a) = At("mainRAM", a)
              \/ FindRam(a).buffer # "mainRAM" /\ a \notin DOMAIN Image
            <4>1. a \in MemoryMap
                BY SMT
            <4>2. a < MainSize \/ a \notin DOMAIN Image
                BY ImageAssumption, SMT DEF MainSize
            <4>3. a < MainSize => FindRam(a) = At("mainRAM", a)
                BY <4>1, Placed, SMT DEF Within, MainSize, MB, KB
            <4>4. ~(a < MainSize) => FindRam(a).buffer # "mainRAM"
                BY <4>1, Placed, SMT DEF At
            <4> QED BY <4>2, <4>3, <4>4, Zenon
        <3>2. cells[FindRam(a)] =
                IF FindRam(a).buffer = "mainRAM" /\ FindRam(a).offset \in DOMAIN Image
                THEN Image[FindRam(a).offset] ELSE Zero
            BY Reached, SMT DEF Init
        <3> QED BY <3>1, <3>2, SMT DEF At
    <2> QED BY <2>1, SMT DEF Init, Guest!Init
<1>2. TypeOK /\ [Next]_vars => [Guest!Next]_<<mem, did>>
    <2> SUFFICES ASSUME TypeOK, [Next]_vars PROVE [Guest!Next]_<<mem, did>>
        BY SMT
    <2>1. ASSUME NEW to \in Reach, NEW v, Write(to, v)
          PROVE  Guest!Write(to, v)
        <3>1. \A a \in Reach : FindRam(a) = FindRam(to) => a = to
            BY Apart, SMT
        <3>2. ASSUME NEW a \in Reach
              PROVE  cells'[FindRam(a)] = IF a = to THEN v ELSE cells[FindRam(a)]
            <4>1. FindRam(a) \in DOMAIN cells
                BY Reached, SMT DEF TypeOK
            <4> QED BY <2>1, <3>1, <4>1, SMT DEF Write
        <3>3. /\ DOMAIN mem = Reach /\ DOMAIN mem' = Reach
              /\ \A a \in Reach : mem[a] = cells[FindRam(a)] /\ mem'[a] = cells'[FindRam(a)]
            OBVIOUS
        <3> HIDE DEF mem
        <3>4. mem = [a \in DOMAIN mem |-> mem[a]] /\ mem' = [a \in DOMAIN mem' |-> mem'[a]]
            BY DEF mem
        <3>5. mem' = [mem EXCEPT ![to] = v]
            BY <3>2, <3>3, <3>4, Overwritten, SMT
        <3> QED BY <3>5 DEF Guest!Write, mem
    <2>2. ASSUME cells' = cells PROVE mem' = mem
        BY <2>2, Zenon
    <2>3. \A a \in Reach : mem[a] = cells[FindRam(a)]
        BY Zenon
    <2>4. CASE Next
        <3>1. ASSUME NEW a \in Address, NEW v \in Value, Store(a, v) PROVE Guest!Next
            <4>1. Guest!Store(a, v)
                BY <2>1, <3>1, AllReached, Zenon DEF Store, Guest!Store
            <4> QED BY <4>1, Zenon DEF Guest!Next
        <3>2. ASSUME NEW a \in Address, Load(a) PROVE Guest!Next
            <4>1. Guest!Load(a)
                BY <2>2, <2>3, <3>2, AllReached, Zenon DEF Load, Guest!Load
            <4> QED BY <4>1, Zenon DEF Guest!Next
        <3>3. ASSUME NEW r \in Register, NEW v \in Value, SifSetReg(r, v) PROVE Guest!Next
            <4>1. RegisterAt(r) = Guest!Port(r)
                BY PortsInMap, Zenon
            <4>2. Guest!Write(RegisterAt(r), v) /\ did' = <<"set", r, v>>
                BY <2>1, <3>3, AllReached, Zenon DEF SifSetReg
            <4>3. Guest!SetReg(r, v)
                BY <4>1, <4>2, Zenon DEF Guest!SetReg
            <4> QED BY <4>3, Zenon DEF Guest!Next
        <3>4. ASSUME NEW r \in Register, SifGetReg(r) PROVE Guest!Next
            <4>1. RegisterAt(r) = Guest!Port(r) /\ (Pretended(r) <=> Guest!Announcing(r))
                BY PortsInMap, Zenon
            <4>2. mem[RegisterAt(r)] = cells[FindRam(RegisterAt(r))]
                BY <2>3, AllReached, Zenon
            <4>3. Guest!GetReg(r)
                BY <2>2, <3>4, <4>1, <4>2, Zenon DEF SifGetReg, Guest!GetReg
            <4> QED BY <4>3, Zenon DEF Guest!Next
        <3>5. ASSUME NEW src \in Address, NEW dest \in Address, SifSetDma(src, dest)
              PROVE  Guest!Next
            <4>1. mem[dest] = cells[FindRam(dest)]
                BY <2>3, AllReached, Zenon
            <4>2. Guest!Write(src, cells[FindRam(dest)]) /\ did' = <<"dma", src, dest>>
                BY <2>1, <3>5, AllReached, Zenon DEF SifSetDma
            <4>3. Guest!TransferBack(src, dest)
                BY <4>1, <4>2, Zenon DEF Guest!TransferBack
            <4> QED BY <4>3, Zenon DEF Guest!Next
        <3> QED BY <2>4, <3>1, <3>2, <3>3, <3>4, <3>5, Steps, Zenon
    <2>5. CASE UNCHANGED vars
        BY <2>5, SMT DEF vars
    <2> QED BY <2>4, <2>5, SMT
<1> QED BY <1>1, <1>2, TypeCorrect, PTL DEF Spec, ImplementsGuestMemory, Guest!Spec
=============================================================================
