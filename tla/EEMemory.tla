------------------------------ MODULE EEMemory ------------------------------
(****************************************************************************)
(* How recompiled code reaches memory: FindRam and RecompilationInit of     *)
(* src/ps2lib/kernel/ps2_init.c, the load and store macros, the SIF system  *)
(* calls of ee_syscall.c, and Kernel_SifSetDma of sce/sif/Sif.c.            *)
(*                                                                          *)
(* Addresses count quadwords, 16 bytes: the largest access there is, and    *)
(* the distance of two SIF registers.  A smaller access is an access to its *)
(* quadword, and a transfer moves one.  A 32-bit address is one of 2^28.    *)
(****************************************************************************)
EXTENDS Integers

CONSTANTS
    Address,     \* where a game loads from and stores to
    Register,    \* the SIF registers it names: <<top four bits, the others>>
    Value, Zero, \* contents of memory, and of cleared memory
    Image,       \* what the sections of the game hold, by address
    Initialised, \* what register 4 answers
    Nothing      \* no operation so far

KB == 64
MB == 1024 * KB
Addresses == {a \in Nat : a < \h10000000}

ASSUME AddressAssumption  == Address \subseteq Addresses
ASSUME RegisterAssumption == Register \subseteq (0 .. 15) \X Addresses
ASSUME ValueAssumption    == Zero \in Value /\ Initialised \in Value
ASSUME ImageAssumption    ==
    \A a \in DOMAIN Image : a \in Nat /\ a < 32 * MB /\ Image[a] \in Value

VARIABLES cells, \* the contents of host memory
          did    \* what the game did last: which operation, on what, the value moved

vars == <<cells, did>>

-----------------------------------------------------------------------------
(* FindRam *)

Within(a, from, size) == from <= a /\ a < from + size

At(buffer, offset) == [buffer |-> buffer, offset |-> offset]

\* Faulty: half of main memory.
MainSizeHalf == 16 * MB

MainSize == 32 * MB

\* The window of vu1CodeRAM reaches one quadword into that of vu1DataRAM.
\* Beyond the windows, an address is taken for the lower half of a pointer
\* to the host's stack or image, or else for the start of main memory.
FindRam(a) ==
    IF a < MainSize THEN At("mainRAM", a)
    ELSE IF Within(a, \h1000000, 64 * KB)     THEN At("ioRegisterRAM", a - \h1000000)
    ELSE IF Within(a, \h1100000, 4 * KB)      THEN At("vu0CodeRAM", a - \h1100000)
    ELSE IF Within(a, \h1100400, 4 * KB)      THEN At("vu0DataRAM", a - \h1100400)
    ELSE IF Within(a, \h1100800, 16 * KB + 1) THEN At("vu1CodeRAM", a - \h1100800)
    ELSE IF Within(a, \h1100C00, 16 * KB)     THEN At("vu1DataRAM", a - \h1100C00)
    ELSE IF Within(a, \h1200000, 8 * KB)      THEN At("gsPrivilegedRAM", a - \h1200000)
    ELSE IF Within(a, \h1C00000, 2 * MB)      THEN At("iopRAM", a - \h1C00000)
    ELSE IF Within(a, \hF000000, \h1000000)   THEN At("host stack", a)
    ELSE IF Within(a, \h5000000, \h1000000)   THEN At("host image", a)
    ELSE At("mainRAM", 0)

\* The start of register r: the product loses the top four bits.
RegisterAt(r) == (r[2] + \h1000F20) % \h10000000

\* What RecompilationInit allocates for each buffer.
Size == [mainRAM |-> 64 * MB, ioRegisterRAM |-> 64 * KB, vu0CodeRAM |-> 4 * KB,
         vu0DataRAM |-> 4 * KB, vu1CodeRAM |-> 16 * KB, vu1DataRAM |-> 16 * KB,
         gsPrivilegedRAM |-> 8 * KB, iopRAM |-> 2 * MB]

\* Where _StartThread lets the stack of a thread begin.
StackTop(id) == ((62 - id) * MB) % \h10000000

\* What the game reaches.
Reach  == Address \cup {RegisterAt(r) : r \in Register}
Places == {FindRam(a) : a \in Reach}

-----------------------------------------------------------------------------
(* RecompilationInit clears memory and copies the game's sections to it; all
   later accesses go through FindRam. *)

\* Faulty: memory that is not cleared holds anything.
InitUncleared ==
    /\ cells = [l \in Places |->
                IF l.buffer = "mainRAM" /\ l.offset \in DOMAIN Image
                THEN Image[l.offset] ELSE -1]
    /\ did = Nothing

Init ==
    /\ cells = [l \in Places |->
                IF l.buffer = "mainRAM" /\ l.offset \in DOMAIN Image
                THEN Image[l.offset] ELSE Zero]
    /\ did = Nothing

Write(a, v) == cells' = [cells EXCEPT ![FindRam(a)] = v]

\* __mips_asm_sb .. __mips_asm_sd
Store(a, v) == Write(a, v) /\ did' = <<"store", a, v>>

\* __mips_asm_lb .. __mips_asm_ld
Load(a) == did' = <<"load", a, cells[FindRam(a)]>> /\ UNCHANGED cells

SifSetReg(r, v) == Write(RegisterAt(r), v) /\ did' = <<"set", r, v>>

\* GetReg clears the top bit of the register's number and answers for 4 itself.
Pretended(r) == r[1] % 8 = 0 /\ r[2] = 4

SifGetReg(r) ==
    /\ did' = <<"get", r, IF Pretended(r) THEN Initialised ELSE cells[FindRam(RegisterAt(r))]>>
    /\ UNCHANGED cells

\* The arguments of memcpy are swapped: the destination is copied to the
\* source.  Of a list of transfers only the first is done.
SifSetDma(src, dest) ==
    /\ Write(src, cells[FindRam(dest)])
    /\ did' = <<"dma", src, dest>>

Next == \/ \E a \in Address, v \in Value : Store(a, v)
        \/ \E a \in Address : Load(a)
        \/ \E r \in Register, v \in Value : SifSetReg(r, v)
        \/ \E r \in Register : SifGetReg(r)
        \/ \E src, dest \in Address : SifSetDma(src, dest)

Spec == Init /\ [][Next]_vars

-----------------------------------------------------------------------------
(* Properties. *)

Operation == {Nothing}
             \cup {"store", "load"} \X Address \X Value
             \cup {"set", "get"} \X Register \X Value
             \cup {"dma"} \X Address \X Address

TypeOK ==
    /\ cells \in [Places -> Value]
    /\ did \in Operation

\* The memory map: the windows of FindRam, each as large as the buffer behind
\* it.  The quadword that two windows hold belongs to the second.
MemoryMap == {a \in Addresses :
    \/ a < MainSize
    \/ Within(a, \h1000000, 64 * KB)
    \/ Within(a, \h1100000, 4 * KB)
    \/ Within(a, \h1100400, 4 * KB)
    \/ Within(a, \h1100800, 16 * KB)
    \/ Within(a, \h1100C01, 16 * KB - 1)
    \/ Within(a, \h1200000, 8 * KB)
    \/ Within(a, \h1C00000, 2 * MB)}

\* What a game keeps to: the map, and the registers the I/O window holds.
Ports == 224
KeepsToMap == Address \subseteq MemoryMap /\ \A r \in Register : r[2] < Ports

\* A load gives what was stored last at its address, or loaded from a section
\* or cleared there, and a store changes that address only, whichever way the
\* game reaches it; a SIF register is the cell at its port, and only the one
\* that announces the IOP answers for itself.  A transfer changes its source.
Guest == INSTANCE GuestMemory WITH
    Cell      <- Reach,
    Start     <- [a \in Reach |-> IF a \in DOMAIN Image THEN Image[a] ELSE Zero],
    Announced <- Initialised,
    memory    <- [a \in Reach |-> cells[FindRam(a)]]

ImplementsGuestMemory == Guest!Spec
=============================================================================
