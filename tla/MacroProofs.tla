----------------------------- MODULE MacroProofs -----------------------------
(****************************************************************************)
(* Proofs about the instruction macros: first the multimedia macros of      *)
(* Lanes, for any registers, contents, programs and operation, then the     *)
(* scalar macros of Scalars, for words of any even width.                   *)
(*                                                                          *)
(* Lanes: a macro in progress has assigned the lanes below k and no others; *)
(* that a lane read from rd itself has not been assigned yet is what the    *)
(* macros called safe have in common.                                       *)
(*                                                                          *)
(* Scalars: each instruction keeps what is promised of its operands.  The   *)
(* arithmetic behind it is of three kinds: bits of words (logical           *)
(* operations commute with sign extension), multiples of the size of a word *)
(* (sums, differences and shifts to the left have the low word that those   *)
(* of low words have), and ranges (what a shift to the right leaves).       *)
(****************************************************************************)
EXTENDS Lanes, Scalars, WellFoundedInduction, TLAPS

Widths == {1, 2, 4, 8}

-----------------------------------------------------------------------------
(* Lanes and bytes. *)

\* A byte of a register is in one lane, and the bytes of a lane are in it.
LEMMA LaneOfByte ==
    ASSUME NEW w \in Widths, NEW b \in Byte
    PROVE  b \div w \in 0 .. 16 \div w - 1 /\ b % w \in 0 .. w - 1
<1>1. CASE w = 1 BY <1>1, SMT DEF Byte
<1>2. CASE w = 2 BY <1>2, SMT DEF Byte
<1>3. CASE w = 4 BY <1>3, SMT DEF Byte
<1>4. CASE w = 8 BY <1>4, SMT DEF Byte
<1> QED BY <1>1, <1>2, <1>3, <1>4 DEF Widths

\* A byte of a lane is a byte of the register: the one at the lane's place.
LEMMA ByteOfLane ==
    ASSUME NEW w \in Widths, NEW l \in 0 .. 16 \div w - 1, NEW b \in 0 .. w - 1
    PROVE  w * l + b \in Byte /\ (w * l + b) \div w = l
<1>1. CASE w = 1 BY <1>1, SMT DEF Byte
<1>2. CASE w = 2 BY <1>2, SMT DEF Byte
<1>3. CASE w = 4 BY <1>3, SMT DEF Byte
<1>4. CASE w = 8 BY <1>4, SMT DEF Byte
<1> QED BY <1>1, <1>2, <1>3, <1>4 DEF Widths

-----------------------------------------------------------------------------
(* The macros. *)

\* What all macros have in common: every lane of rd is given a lane there is,
\* and one of rd itself, where the macro tolerates that, is not below it.
Proper(m) ==
    /\ m.width \in Widths /\ m.first \in {"rs", "rt"}
    /\ DOMAIN m.from = 0 .. 16 \div m.width - 1
    /\ \A l \in DOMAIN m.from :
          /\ m.from[l][1] \in {"rs", "rt", "lo", "hi", "both", "either"}
          /\ m.from[l][2] \in 0 .. 16 \div m.width - 1
          /\ m.from[l][1] \in {"both", "either"} \/ Tolerates(m.name, m.from[l][1]) => m.from[l][2] >= l

\* The macros that interleave lower halves assign every lane in order.
LEMMA ExtendProper == \A m \in {pextlw, pextlh, pextlb} : Proper(m)
<1>1. Proper(pextlw)
  BY SMT DEF Proper, Widths, pextlw, Macro, Alternate, Tolerates
<1>2. Proper(pextlh)
  BY SMT DEF Proper, Widths, pextlh, Macro, Alternate, Tolerates
<1>3. Proper(pextlb)
  BY SMT DEF Proper, Widths, pextlb, Macro, Alternate, Tolerates
<1> QED BY <1>1, <1>2, <1>3

\* So do those that interleave upper halves.
LEMMA ExtendUpperProper == \A m \in {pextuw, pextuh, pextub} : Proper(m)
<1>1. Proper(pextuw)
  BY SMT DEF Proper, Widths, pextuw, Macro, Alternate, Tolerates
<1>2. Proper(pextuh)
  BY SMT DEF Proper, Widths, pextuh, Macro, Alternate, Tolerates
<1>3. Proper(pextub)
  BY SMT DEF Proper, Widths, pextub, Macro, Alternate, Tolerates
<1> QED BY <1>1, <1>2, <1>3

\* So do those that pack.
LEMMA PackProper == \A m \in {ppacw, ppach, ppacb} : Proper(m)
<1>1. Proper(ppacw)
  BY SMT DEF Proper, Widths, ppacw, Macro, Tolerates
<1>2. Proper(ppach)
  BY SMT DEF Proper, Widths, ppach, Macro, Tolerates
<1>3. Proper(ppacb)
  BY SMT DEF Proper, Widths, ppacb, Macro, Tolerates
<1> QED BY <1>1, <1>2, <1>3

\* So do those that copy or interleave doublewords and halfwords.
LEMMA CopyProper == \A m \in {pinth, pcpyld} : Proper(m)
<1>1. Proper(pinth)
  BY SMT DEF Proper, Widths, pinth, Macro, Tolerates
<1>2. Proper(pcpyld)
  BY SMT DEF Proper, Widths, pcpyld, Macro, Tolerates
<1> QED BY <1>1, <1>2

\* So do those that reorder the lanes of one register.
LEMMA ReorderProper == \A m \in {pexeh, prevh, pexew, prot3w} : Proper(m)
<1>1. Proper(pexeh)
  BY SMT DEF Proper, Widths, pexeh, Macro, Tolerates
<1>2. Proper(prevh)
  BY SMT DEF Proper, Widths, prevh, Macro, Tolerates
<1>3. Proper(pexew)
  BY SMT DEF Proper, Widths, pexew, Macro, Tolerates
<1>4. Proper(prot3w)
  BY SMT DEF Proper, Widths, prot3w, Macro, Tolerates
<1> QED BY <1>1, <1>2, <1>3, <1>4

\* So do those that read lo and hi.
LEMMA FromLoHiProper == \A m \in {pmfhllh, pmfhluw, pmfhllw, pmflo, pmfhi} : Proper(m)
<1>1. Proper(pmfhllh)
  BY SMT DEF Proper, Widths, pmfhllh, Macro, Tolerates
<1>2. Proper(pmfhluw)
  BY SMT DEF Proper, Widths, pmfhluw, Macro, Tolerates
<1>3. Proper(pmfhllw)
  BY SMT DEF Proper, Widths, pmfhllw, Macro, Tolerates
<1>4. Proper(pmflo)
  BY SMT DEF Proper, Widths, pmflo, Macro, Tolerates
<1>5. Proper(pmfhi)
  BY SMT DEF Proper, Widths, pmfhi, Macro, Tolerates
<1> QED BY <1>1, <1>2, <1>3, <1>4, <1>5

\* A macro that combines lane k of both operands into lane k reads no lane
\* it has already written.
LEMMA LaneWiseProper ==
    ASSUME NEW name, NEW width \in Widths,
           NEW first \in {"rs", "rt"}, NEW both \in {"both", "either"}
    PROVE  Proper(LaneWise(name, width, first, both))
<1> DEFINE m == LaneWise(name, width, first, both)
<1>1. 16 \div width \in Nat
  BY SMT DEF Widths
<1>2. /\ m.width = width /\ m.first = first /\ DOMAIN m.from = 0 .. 16 \div width - 1
      /\ \A l \in DOMAIN m.from : m.from[l] = <<both, l>>
  BY SMT DEF LaneWise, Macro
<1> HIDE DEF m
<1>3. \A l \in 0 .. 16 \div width - 1 : m.from[l][1] = both /\ m.from[l][2] = l
  BY <1>2, SMT
<1>4. Proper(m)
  BY <1>1, <1>2, <1>3, SMT DEF Proper
<1> QED BY <1>4 DEF m

\* Every macro that is modelled is well formed.
LEMMA MacrosProper == \A m \in Macros : Proper(m)
<1>1. \A m \in Combining :
          \E width \in Widths, both \in {"both", "either"}, first \in {"rs", "rt"} :
              \E name : m = LaneWise(name, width, first, both)
  BY DEF Combining, SaturatedWords, SaturatedHalves, UnsignedWords, UnsignedHalves,
         UnsignedBytes, BitOps, Widths
<1>2. \A m \in Combining : Proper(m)
  BY <1>1, LaneWiseProper
<1>3. \A m \in Moving : Proper(m)
  BY ExtendProper, ExtendUpperProper, PackProper, CopyProper, ReorderProper,
     FromLoHiProper DEF Moving
<1> QED BY <1>2, <1>3 DEF Macros

-----------------------------------------------------------------------------
(* The invariant. *)

\* What rd holds, byte by byte: the lanes below k are assigned.
Progress ==
    line > 0 =>
        /\ \A x \in Registers : x # This.rd => regs[x] = before[x]
        /\ Safe(This) =>
              \A b \in Byte : regs[This.rd][b] =
                  IF b \div This.macro.width < k
                  THEN Given(This, before, b \div This.macro.width)[b % This.macro.width]
                  ELSE before[This.rd][b]

IInv == TypeOK /\ Progress

\* The call in progress is one of the program's.
LEMMA ThisIsCall ==
    ASSUME TypeOK, line > 0
    PROVE  /\ This \in Call /\ Proper(This.macro)
           /\ This.rd \in Registers /\ This.rd \notin {"lo", "hi"}
           /\ \A o \in {"rs", "rt", "lo", "hi"} : Operand(This, o) \in Registers
<1>1. program \in Seq(Call) /\ line \in 1 .. Len(program)
  BY ProgramsAssumption DEF TypeOK
<1>2. This \in Call
  BY <1>1 DEF This
<1> QED BY <1>2, MacrosProper, RegistersAssumption DEF Call, Registers, Operand

\* An assignment reads what was there when the macro began.
LEMMA ReadsBefore ==
    ASSUME IInv, Running, Safe(This)
    PROVE  Given(This, regs, k) = Given(This, before, k)
<1> DEFINE w == This.macro.width
           o == This.macro.from[k][1]
           l == This.macro.from[k][2]
<1>1. line > 0 /\ k \in Lanes
  BY DEF Running
<1>2. /\ This \in Call /\ Proper(This.macro)
      /\ This.rd \in Registers /\ This.rd \notin {"lo", "hi"}
      /\ \A x \in {"rs", "rt", "lo", "hi"} : Operand(This, x) \in Registers
  BY <1>1, ThisIsCall DEF IInv
<1>3. /\ w \in Widths /\ k \in 0 .. 16 \div w - 1 /\ l \in 0 .. 16 \div w - 1
      /\ o \in {"rs", "rt", "lo", "hi", "both", "either"}
      /\ o \in {"both", "either"} \/ Tolerates(This.macro.name, o) => l >= k
  BY <1>1, <1>2 DEF Proper, Lanes
<1>4. \A x \in {"rs", "rt"} : o \in {x, "both", "either"} => Reads(This.macro, x)
  BY <1>1 DEF Reads, Lanes
<1>5. ASSUME NEW x \in {"rs", "rt", "lo", "hi"}, o \in {x, "both", "either"},
             o \in {"both", "either"} => x \in {"rs", "rt"}
      PROVE  Lane(regs[Operand(This, x)], w, l) = Lane(before[Operand(This, x)], w, l)
  <2>1. CASE Operand(This, x) # This.rd
    BY <2>1, <1>1, <1>2 DEF IInv, Progress
  <2>2. CASE Operand(This, x) = This.rd
    <3>1. x \in {"rs", "rt"}
      BY <2>2, <1>2 DEF Operand
    <3>2. l >= k
      BY <3>1, <2>2, <1>3, <1>4, <1>5 DEF Safe
    <3>3. \A b \in 0 .. w - 1 : w * l + b \in Byte /\ (w * l + b) \div w = l
      BY <1>3, ByteOfLane
    <3>4. ASSUME NEW b \in 0 .. w - 1
          PROVE  regs[This.rd][w * l + b] = before[This.rd][w * l + b]
      <4>1. w * l + b \in Byte /\ (w * l + b) \div w = l
        BY <3>3
      <4>2. ~(l < k)
        BY <3>2, <1>3, SMT
      <4> QED BY <4>1, <4>2, <1>1 DEF IInv, Progress
    <3> QED BY <3>4, <2>2 DEF Lane
  <2> QED BY <2>1, <2>2
<1>6. CASE o \in {"both", "either"}
  <2>1. \A x \in {"rs", "rt"} :
           Lane(regs[Operand(This, x)], w, l) = Lane(before[Operand(This, x)], w, l)
    BY <1>5, <1>6
  <2> QED BY <2>1, <1>6 DEF Given
<1>7. CASE o \notin {"both", "either"}
  <2>1. Lane(regs[Operand(This, o)], w, l) = Lane(before[Operand(This, o)], w, l)
    BY <1>3, <1>5, <1>7
  <2> QED BY <2>1, <1>7 DEF Given
<1> QED BY <1>6, <1>7

\* No macro has begun at first.
LEMMA InitEstablishes == Init => IInv
<1> SUFFICES ASSUME Init PROVE IInv
  OBVIOUS
<1>1. RegisterFile(regs) /\ before = regs
  BY ContentsAssumption DEF Init
<1>2. program \in Seq(Call)
  BY ProgramsAssumption DEF Init
<1>3. line \in 0 .. Len(program) /\ ~(line > 0)
  BY <1>2, SMT DEF Init
<1> QED BY <1>1, <1>3, Zenon DEF Init, IInv, TypeOK, Progress

\* The next macro of the program begins with no lane assigned.
LEMMA BeginPreserves ==
    ASSUME IInv, Begin
    PROVE  IInv'
<1>1. program \in Seq(Call) /\ Len(program) \in Nat /\ line \in 0 .. Len(program)
  BY ProgramsAssumption DEF IInv, TypeOK
<1>2. line' \in 1 .. Len(program)
  BY <1>1 DEF Begin
<1>3. This' \in Call
  BY <1>1, <1>2 DEF Begin, This
<1>4. This'.macro.width \in Widths
  BY <1>3, MacrosProper DEF Call, Proper
<1>5. 0 \in 0 .. 16 \div This'.macro.width
  BY <1>4, SMT DEF Widths
<1>6. TypeOK'
  BY <1>2, <1>5 DEF IInv, TypeOK, Begin
<1>7. ASSUME NEW b \in Byte
      PROVE  ~(b \div This'.macro.width < 0)
  BY <1>4, LaneOfByte, SMT
<1>8. Progress'
  BY <1>7 DEF Progress, Begin
<1> QED BY <1>6, <1>8 DEF IInv

\* An assignment of lane k is from what was there when the macro began.
LEMMA AssignPreserves ==
    ASSUME IInv, Assign
    PROVE  IInv'
<1> DEFINE w == This.macro.width
<1>1. line > 0 /\ k \in Lanes /\ Running
  BY DEF Assign, Running
<1>2. /\ This \in Call /\ Proper(This.macro)
      /\ This.rd \in Registers /\ This.rd \notin {"lo", "hi"}
  BY <1>1, ThisIsCall DEF IInv
<1>3. w \in Widths /\ k \in 0 .. 16 \div w - 1
  BY <1>1, <1>2 DEF Proper, Lanes
<1>4. This' = This /\ k' = k + 1
  BY DEF Assign, This
<1>5. /\ \A x \in Registers : x # This.rd => regs'[x] = regs[x]
      /\ \A b \in Byte : regs'[This.rd][b] =
            IF b \div w = k THEN Given(This, regs, k)[b % w] ELSE regs[This.rd][b]
      /\ RegisterFile(regs')
  BY <1>2 DEF Assign, IInv, TypeOK, RegisterFile
<1>6. k' \in 0 .. 16 \div w
  BY <1>3, <1>4, SMT DEF Widths
<1>7. TypeOK'
  BY <1>4, <1>5, <1>6 DEF IInv, TypeOK, Assign
<1>8. ASSUME Safe(This), NEW b \in Byte
      PROVE  regs'[This.rd][b] =
                IF b \div w < k + 1
                THEN Given(This, before, b \div w)[b % w] ELSE before[This.rd][b]
  <2>1. b \div w \in Int /\ k \in Int
    BY <1>3, LaneOfByte, SMT
  <2>2. CASE b \div w = k
    <3>1. regs'[This.rd][b] = Given(This, before, b \div w)[b % w]
      BY <2>2, <1>1, <1>5, <1>8, ReadsBefore
    <3>2. b \div w < k + 1
      BY <2>1, <2>2, SMT
    <3> QED BY <3>1, <3>2
  <2>3. CASE b \div w # k
    <3>1. regs'[This.rd][b] =
             IF b \div w < k THEN Given(This, before, b \div w)[b % w] ELSE before[This.rd][b]
      BY <2>3, <1>1, <1>5, <1>8 DEF IInv, Progress
    <3>2. b \div w < k + 1 <=> b \div w < k
      BY <2>1, <2>3, SMT
    <3> QED BY <3>1, <3>2
  <2> QED BY <2>2, <2>3
<1>9. Progress'
  BY ZenonT(30), <1>1, <1>4, <1>5, <1>8 DEF IInv, Progress, Assign
<1> QED BY <1>7, <1>9 DEF IInv

\* Every assignment of every macro keeps the invariant.
LEMMA NextPreserves == IInv /\ [Next]_vars => IInv'
<1> SUFFICES ASSUME IInv, [Next]_vars PROVE IInv'
  OBVIOUS
<1>1. CASE Begin  BY <1>1, BeginPreserves
<1>2. CASE Assign BY <1>2, AssignPreserves
<1>3. CASE UNCHANGED vars
  BY <1>3 DEF vars, IInv, TypeOK, Progress, This, Lanes
<1> QED BY <1>1, <1>2, <1>3 DEF Next

\* A macro in progress has assigned the lanes below k from what was there when
\* it began, and nothing else: the lane-by-lane assignments of asm_macros.h.
THEOREM InductiveInvariant == Spec => []IInv
<1> QED BY InitEstablishes, NextPreserves, PTL DEF Spec

\* The registers are always registers, and a macro works on a lane it has.
THEOREM TypeCorrect == Spec => []TypeOK
<1>1. IInv => TypeOK
  BY DEF IInv
<1> QED BY <1>1, InductiveInvariant, PTL

\* What c would do if it read all its operands before it wrote.
AtOnce(c, r) ==
    [r EXCEPT ![c.rd] = [b \in Byte |->
        Given(c, r, b \div c.macro.width)[b % c.macro.width]]]

\* When all lanes have been assigned, rd is what the macro makes of its operands.
LEMMA ExactWhenSafe ==
    ASSUME IInv, Done, Safe(This)
    PROVE  regs = AtOnce(This, before)
<1>1. line > 0 /\ k \notin Lanes
  BY DEF Done, Running
<1>2. This.rd \in Registers
  BY <1>1, ThisIsCall DEF IInv
<1>3. ASSUME NEW b \in Byte PROVE b \div This.macro.width < k
  <2>1. Proper(This.macro)
    BY <1>1, ThisIsCall DEF IInv
  <2>2. /\ This.macro.width \in Widths /\ k \in 0 .. 16 \div This.macro.width
        /\ k \notin 0 .. 16 \div This.macro.width - 1
    BY <2>1, <1>1 DEF Proper, Lanes, IInv, TypeOK
  <2>3. b \div This.macro.width \in 0 .. 16 \div This.macro.width - 1
    BY <2>2, LaneOfByte
  <2> QED BY <2>2, <2>3, SMT DEF Widths
<1>4. /\ \A x \in Registers : x # This.rd => regs[x] = before[x]
      /\ \A b \in Byte : regs[This.rd][b] =
            Given(This, before, b \div This.macro.width)[b % This.macro.width]
  BY <1>1, <1>3 DEF IInv, Progress
<1>5. RegisterFile(regs) /\ RegisterFile(before)
  BY DEF IInv, TypeOK
<1>6. regs = [x \in Registers |-> regs[x]] /\ before = [x \in Registers |-> before[x]]
      /\ regs[This.rd] = [b \in Byte |-> regs[This.rd][b]]
  BY <1>2, <1>5 DEF RegisterFile
<1> QED BY <1>2, <1>4, <1>6 DEF AtOnce

\* The macros that do not swap sources are given the lanes the processor takes, by
\* its names; those declared the other way round do not tell their sources apart.
Straight(m) ==
    /\ Takes(m) = m.from
    /\ m.first = "rs" \/ \A l \in DOMAIN m.from : m.from[l][1] = "either"

\* Every macro that is not said to swap its sources is straight.
LEMMA MacrosStraight == \A m \in Macros : ~Swaps(m) => Straight(m)
<1>1. ASSUME NEW m \in {pextuh, pextub, pinth, pcpyld, pexeh, prevh, pexew, prot3w,
                       pmfhllh, pmfhluw, pmfhllw, pmflo, pmfhi}, ~Swaps(m)
      PROVE  Straight(m)
  <2>1. m.first = "rs"
    BY DEF pextuh, pextub, pinth, pcpyld, pexeh, prevh, pexew, prot3w,
           pmfhllh, pmfhluw, pmfhllw, pmflo, pmfhi, Macro
  <2> QED BY <2>1, <1>1 DEF Straight, Swaps, Takes
<1>2. ASSUME NEW m \in Combining, ~Swaps(m)
      PROVE  Straight(m)
  <2>1. PICK name, width, first, both :
            /\ m = LaneWise(name, width, first, both)
            /\ first = "rs" \/ both = "either" \/ name \in {"psubsw", "psubsh"}
    BY DEF Combining, SaturatedWords, SaturatedHalves, UnsignedWords, UnsignedHalves,
           UnsignedBytes, BitOps
  <2>2. /\ m.name = name /\ m.first = first
        /\ \A l \in DOMAIN m.from : m.from[l] = <<both, l>>
    BY <2>1 DEF LaneWise, Macro
  <2>3. first = "rs" \/ both = "either"
    BY <2>1, <2>2, <1>2 DEF Swaps
  <2> QED BY <2>2, <2>3, <1>2 DEF Straight, Swaps, Takes
<1>3. \A m \in {pextlw, pextlh, pextlb, pextuw, ppacw, ppach, ppacb} : Swaps(m)
  BY DEF Swaps, pextlw, pextlh, pextlb, ppacw, ppach, ppacb, Macro
<1> QED BY <1>1, <1>2, <1>3 DEF Macros, Moving

\* pextuw, too, takes the lanes the processor takes where its sources are one.
LEMMA SwapsNothing ==
    ASSUME NEW m \in Macros, NEW l \in DOMAIN m.from
    PROVE  \/ Takes(m)[l] = m.from[l]
           \/ /\ Takes(m)[l][2] = m.from[l][2]
              /\ {Takes(m)[l][1], m.from[l][1]} \subseteq {"rs", "rt"}
<1>1. CASE m = pextuw
  <2>1. m.from = [n \in 0 .. 3 |-> <<IF n < 2 THEN "rt" ELSE "rs", 2 + n \div 2>>]
    BY <1>1 DEF pextuw, Macro
  <2>2. Takes(m) = [n \in 0 .. 3 |-> Alternate(n, 2 + n \div 2)]
    BY <1>1 DEF Takes
  <2> QED BY <2>1, <2>2 DEF Alternate
<1>2. CASE m # pextuw
  BY <1>2 DEF Takes
<1> QED BY <1>1, <1>2

\* An instruction whose macro can be relied on means what the macro is given.
LEMMA GivenAsMeant ==
    ASSUME NEW c \in Call, c.rs = c.rt \/ ~Swaps(c.macro), NEW r, NEW l \in DOMAIN c.macro.from
    PROVE  Given(c, r, l) = Meant(c, r, l)
<1> DEFINE m == c.macro
           o == m.from[l][1]
           t == Takes(m)[l][1]
           w == m.width
<1>1. m \in Macros /\ Proper(m)
  BY MacrosProper DEF Call
<1>2. o \in {"rs", "rt", "lo", "hi", "both", "either"}
  BY <1>1 DEF Proper
<1>3. CASE c.rs = c.rt
  <2>1. \A x \in {"rs", "rt"} : Operand(c, x) = c.rs
    BY <1>3 DEF Operand
  <2>2. CASE Takes(m)[l] = m.from[l]
    <3>1. CASE o \in {"rs", "rt"}
      BY <3>1, <2>1, <2>2, <1>3 DEF Given, Meant
    <3>2. CASE o \in {"lo", "hi"}
      BY <3>2, <2>2 DEF Given, Meant, Operand
    <3>3. CASE o \in {"both", "either"}
      BY <3>3, <2>1, <2>2, <1>3 DEF Given, Meant
    <3> QED BY <1>2, <3>1, <3>2, <3>3
  <2>3. CASE Takes(m)[l][2] = m.from[l][2] /\ {t, o} \subseteq {"rs", "rt"}
    BY <2>1, <2>3, <1>3 DEF Given, Meant
  <2> QED BY <1>1, <2>2, <2>3, SwapsNothing
<1>4. CASE c.rs # c.rt
  <2>1. Straight(m)
    BY <1>1, <1>4, MacrosStraight
  <2>2. Takes(m)[l] = m.from[l]
    BY <2>1 DEF Straight
  <2>3. CASE o = "either"
    <3>1. \/ Operand(c, "rs") = c.rs /\ Operand(c, "rt") = c.rt
          \/ Operand(c, "rs") = c.rt /\ Operand(c, "rt") = c.rs
      BY <1>1 DEF Operand, Proper
    <3>2. \A j : {Lane(r[Operand(c, "rs")], w, j), Lane(r[Operand(c, "rt")], w, j)}
                  = {Lane(r[c.rs], w, j), Lane(r[c.rt], w, j)}
      BY <3>1
    <3> QED BY <2>2, <2>3, <3>2 DEF Given, Meant
  <2>4. CASE o # "either"
    <3>1. m.first = "rs"
      BY <2>1, <2>4 DEF Straight
    <3>2. Operand(c, "rs") = c.rs /\ Operand(c, "rt") = c.rt
          /\ Operand(c, "lo") = "lo" /\ Operand(c, "hi") = "hi"
      BY <3>1 DEF Operand
    <3> QED BY <1>2, <2>2, <2>4, <3>2 DEF Given, Meant
  <2> QED BY <2>3, <2>4
<1> QED BY <1>3, <1>4

\* So the processor does what such a macro would do at once.
LEMMA ProcessorAtOnce ==
    ASSUME NEW c \in Call, c.rs = c.rt \/ ~Swaps(c.macro), NEW r
    PROVE  AsProcessor(c, r) = AtOnce(c, r)
<1> DEFINE w == c.macro.width
<1>1. Proper(c.macro)
  BY MacrosProper DEF Call
<1>2. ASSUME NEW b \in Byte
      PROVE  Given(c, r, b \div w)[b % w] = Meant(c, r, b \div w)[b % w]
  <2>1. b \div w \in DOMAIN c.macro.from
    BY <1>1, LaneOfByte DEF Proper
  <2> QED BY <2>1, GivenAsMeant
<1> QED BY <1>2 DEF AtOnce, AsProcessor

\* And the macro does it, where what overlaps is tolerated.
LEMMA ExactWhenRight == IInv => InPlaceExact
<1> SUFFICES ASSUME IInv, Done, Right(This) PROVE regs = AsProcessor(This, before)
  BY DEF InPlaceExact
<1>1. This \in Call
  BY ThisIsCall DEF Done, IInv
<1> QED BY <1>1, ExactWhenSafe, ProcessorAtOnce DEF Right

\* Whatever the registers hold, an instruction of any program whose macro does not
\* swap its sources and tolerates what overlaps does what the processor does.
THEOREM InPlaceIsExact == Spec => []InPlaceExact
  BY ExactWhenRight, InductiveInvariant, PTL
-----------------------------------------------------------------------------
(* The overlaps that are not tolerated.                                      *)

\* The lanes of a register, one by one, from its bytes.
LEMMA ByteInLane ==
    ASSUME NEW w \in Widths, NEW l \in 0 .. 16 \div w - 1, NEW b \in 0 .. w - 1
    PROVE  (w * l + b) % w = b
<1>1. CASE w = 1 BY <1>1, SMT
<1>2. CASE w = 2 BY <1>2, SMT
<1>3. CASE w = 4 BY <1>3, SMT
<1>4. CASE w = 8 BY <1>4, SMT
<1> QED BY <1>1, <1>2, <1>3, <1>4 DEF Widths

\* Lanes begin at different bytes.
LEMMA LaneStarts ==
    ASSUME NEW w \in Widths, NEW j \in 0 .. 16 \div w - 1, NEW n \in 0 .. 16 \div w - 1
    PROVE  w * j \in Byte /\ w * n \in Byte /\ (w * j = w * n => j = n)
<1>1. CASE w = 1 BY <1>1, SMT DEF Byte
<1>2. CASE w = 2 BY <1>2, SMT DEF Byte
<1>3. CASE w = 4 BY <1>3, SMT DEF Byte
<1>4. CASE w = 8 BY <1>4, SMT DEF Byte
<1> QED BY <1>1, <1>2, <1>3, <1>4 DEF Widths

\* What a macro that moves lanes gives to one of them.
LEMMA GivenIs ==
    ASSUME NEW c, NEW r, NEW l, NEW o \in {"rs", "rt", "lo", "hi"}, NEW j,
           c.macro.from[l] = <<o, j>>
    PROVE  Given(c, r, l) = Lane(r[Operand(c, o)], c.macro.width, j)
  BY DEF Given, Operand

\* A lane of rd that a macro gets after it has overwritten it with another one.
TornAt(m, o, l, j, p, n) ==
    /\ l \in DOMAIN m.from /\ j \in DOMAIN m.from /\ j < l
    /\ m.from[l] = <<o, j>>
    /\ m.from[j] = <<p, n>> /\ p \in {"rs", "rt"} /\ n \in DOMAIN m.from /\ (p # o \/ n # j)

\* Every macro has one, for each source it does not tolerate as its target.
LEMMA MacrosTorn ==
    \A m \in Macros : \A o \in {"rs", "rt"} :
        Reads(m, o) /\ ~Tolerates(m.name, o) =>
            \E l, j, n \in 0 .. 15, p \in {"rs", "rt"} : TornAt(m, o, l, j, p, n)
<1>1. ASSUME NEW m \in {pextlw, pextlh, pextlb}
      PROVE  TornAt(m, "rs", 1, 0, "rt", 0) /\ TornAt(m, "rt", 2, 1, "rs", 0)
  <2>1. CASE m = pextlw
    BY <2>1, SMT DEF TornAt, pextlw, Macro, Alternate
  <2>2. CASE m = pextlh
    BY <2>2, SMT DEF TornAt, pextlh, Macro, Alternate
  <2>3. CASE m = pextlb
    BY <2>3, SMT DEF TornAt, pextlb, Macro, Alternate
  <2> QED BY <2>1, <2>2, <2>3
<1>2. /\ TornAt(ppacw, "rs", 2, 0, "rt", 0) /\ TornAt(ppach, "rs", 4, 0, "rt", 0)
      /\ TornAt(ppacb, "rs", 8, 0, "rt", 0)
  BY SMT DEF TornAt, ppacw, ppach, ppacb, Macro
<1>3. TornAt(pcpyld, "rs", 1, 0, "rt", 0) /\ TornAt(pinth, "rt", 2, 1, "rs", 4)
  BY SMT DEF TornAt, pcpyld, pinth, Macro
<1>4. /\ TornAt(pexeh, "rt", 2, 0, "rt", 2) /\ TornAt(prevh, "rt", 3, 0, "rt", 3)
  BY SMT DEF TornAt, pexeh, prevh, Macro
<1>5. /\ TornAt(pexew, "rt", 2, 0, "rt", 2) /\ TornAt(prot3w, "rt", 2, 0, "rt", 1)
  BY SMT DEF TornAt, pexew, prot3w, Macro
<1>6. \A m \in {pexeh, prevh, pexew, prot3w} : ~Reads(m, "rs")
  BY SMT DEF Reads, pexeh, prevh, pexew, prot3w, Macro
<1>7. \A m \in {ppacw, ppach, ppacb, pcpyld} : Tolerates(m.name, "rt")
  BY DEF Tolerates, ppacw, ppach, ppacb, pcpyld, Macro
<1>8. Tolerates(pinth.name, "rs")
  BY DEF Tolerates, pinth, Macro
<1>9. \A m \in {pextuw, pextuh, pextub, pmfhllh, pmfhluw, pmfhllw, pmflo, pmfhi} :
         \A o \in {"rs", "rt"} : Tolerates(m.name, o)
  BY DEF Tolerates, pextuw, pextuh, pextub, pmfhllh, pmfhluw, pmfhllw, pmflo, pmfhi, Macro
<1>10. \A m \in Combining : \A o \in {"rs", "rt"} : Tolerates(m.name, o)
  BY DEF Combining, SaturatedWords, SaturatedHalves, UnsignedWords, UnsignedHalves,
         UnsignedBytes, BitOps, LaneWise, Macro, Tolerates
<1>11. {0, 1, 2, 3, 4, 8} \subseteq 0 .. 15
  OBVIOUS
<1> QED
  <2> SUFFICES ASSUME NEW m \in Macros, NEW o \in {"rs", "rt"}, Reads(m, o), ~Tolerates(m.name, o)
               PROVE  \E l, j, n \in 0 .. 15, p \in {"rs", "rt"} : TornAt(m, o, l, j, p, n)
    OBVIOUS
  <2>1. m \notin Combining
    BY <1>10
  <2>2. m \in {pextlw, pextlh, pextlb, ppacw, ppach, ppacb, pinth, pcpyld,
               pexeh, prevh, pexew, prot3w}
    BY <2>1, <1>9, Zenon DEF Macros, Moving
  <2>3. CASE m \in {pextlw, pextlh, pextlb}
    BY <2>3, <1>1, <1>11
  <2>4. CASE m \in {ppacw, ppach, ppacb, pcpyld}
    BY <2>4, <1>2, <1>3, <1>7, <1>11
  <2>5. CASE m \in {pexeh, prevh, pexew, prot3w}
    BY <2>5, <1>4, <1>5, <1>6, <1>11
  <2>6. CASE m = pinth
    BY <2>6, <1>3, <1>8, <1>11
  <2> QED BY <2>2, <2>3, <2>4, <2>5, <2>6

\* The lane l of rd as it is in registers r.
Target(r, l) == Lane(r[This.rd], This.macro.width, l)

\* Lanes that are not assigned yet are as they were; one that is assigned is what
\* a source was, or, where that is rd itself below it, has become.
Chained ==
    line > 0 => \A l \in Lanes :
        /\ l >= k => Target(regs, l) = Target(before, l)
        /\ \A o \in {"rs", "rt"}, j \in Lanes :
              l < k /\ This.macro.from[l] = <<o, j>> =>
                  Target(regs, l) = IF Operand(This, o) = This.rd /\ j < l THEN Target(regs, j)
                                    ELSE Lane(before[Operand(This, o)], This.macro.width, j)

\* An assignment fills lane k, and leaves the others.
LEMMA LanesAssigned ==
    ASSUME IInv, Assign
    PROVE  \A l \in Lanes :
               /\ l # k => Target(regs', l) = Target(regs, l)
               /\ l = k => Target(regs', l) = [b \in 0 .. This.macro.width - 1 |-> Given(This, regs, k)[b]]
<1> DEFINE w == This.macro.width
<1>1. line > 0 /\ k \in Lanes
  BY DEF Assign, Running
<1>2. /\ This \in Call /\ Proper(This.macro) /\ This.rd \in Registers
  BY <1>1, ThisIsCall DEF IInv
<1>3. w \in Widths /\ Lanes = 0 .. 16 \div w - 1
  BY <1>2 DEF Proper, Lanes
<1>4. \A b \in Byte : regs'[This.rd][b] =
            IF b \div w = k THEN Given(This, regs, k)[b % w] ELSE regs[This.rd][b]
  BY <1>2 DEF Assign, IInv, TypeOK, RegisterFile
<1> SUFFICES ASSUME NEW l \in Lanes
             PROVE  /\ l # k => Target(regs', l) = Target(regs, l)
                    /\ l = k => Target(regs', l) = [b \in 0 .. w - 1 |-> Given(This, regs, k)[b]]
  OBVIOUS
<1>5. \A b \in 0 .. w - 1 : /\ w * l + b \in Byte /\ (w * l + b) \div w = l
                            /\ (w * l + b) % w = b
  BY <1>3, ByteOfLane, ByteInLane
<1> HIDE DEF w
<1>6. \A b \in 0 .. w - 1 : regs'[This.rd][w * l + b] =
            IF l = k THEN Given(This, regs, k)[b] ELSE regs[This.rd][w * l + b]
  BY <1>4, <1>5
<1>7. CASE l = k
  BY <1>6, <1>7 DEF Target, Lane, w
<1>8. CASE l # k
  BY <1>6, <1>8 DEF Target, Lane, w
<1> QED BY <1>7, <1>8

\* An assignment keeps the lanes below k chained, lane k included.
LEMMA AssignChains ==
    ASSUME IInv, Chained, Assign
    PROVE  Chained'
<1> DEFINE w == This.macro.width
           rd == This.rd
<1>1. line > 0 /\ k \in Lanes
  BY DEF Assign, Running
<1>2. /\ This \in Call /\ Proper(This.macro) /\ This.rd \in Registers
      /\ \A o \in {"rs", "rt", "lo", "hi"} : Operand(This, o) \in Registers
  BY <1>1, ThisIsCall DEF IInv
<1>3. w \in Widths /\ Lanes = 0 .. 16 \div w - 1 /\ k \in Int /\ \A l \in Lanes : l \in Int
  BY <1>1, <1>2, SMT DEF Proper, Lanes, Widths
<1>4. This' = This /\ Lanes' = Lanes /\ k' = k + 1 /\ before' = before /\ line' = line
  BY DEF Assign, This, Lanes
<1>5. \A x \in Registers : x # rd => regs[x] = before[x]
  BY <1>1 DEF IInv, Progress
<1>6. ASSUME NEW l \in Lanes, l >= k'
      PROVE  Target(regs', l) = Target(before, l)
  <2>1. l # k /\ l >= k
    BY <1>3, <1>4, <1>6
  <2> QED BY <2>1, <1>1, LanesAssigned DEF Chained
<1>7. ASSUME NEW l \in Lanes, NEW o \in {"rs", "rt"}, NEW j \in Lanes,
             l < k', This.macro.from[l] = <<o, j>>
      PROVE  Target(regs', l) = IF Operand(This, o) = rd /\ j < l THEN Target(regs', j)
                                ELSE Lane(before[Operand(This, o)], w, j)
  <2>1. CASE l < k
    <3>1. l # k /\ (j < l => j # k)
      BY <2>1, <1>3
    <3>2. Target(regs', l) = Target(regs, l) /\ (j < l => Target(regs', j) = Target(regs, j))
      BY <3>1, LanesAssigned
    <3> QED BY <2>1, <3>2, <1>1, <1>7 DEF Chained
  <2>2. CASE l = k
    <3>1. Given(This, regs, k) = Lane(regs[Operand(This, o)], w, j)
      BY <2>2, <1>7, GivenIs
    <3>2. Target(regs', l) = Lane(regs[Operand(This, o)], w, j)
      BY <2>2, <3>1, LanesAssigned DEF Lane
    <3>3. CASE Operand(This, o) # rd
      BY <3>2, <3>3, <1>2, <1>5
    <3>4. CASE Operand(This, o) = rd /\ j < l
      <4>1. Target(regs', j) = Target(regs, j)
        BY <3>4, <2>2, <1>3, LanesAssigned
      <4> QED BY <3>2, <3>4, <4>1 DEF Target
    <3>5. CASE Operand(This, o) = rd /\ ~(j < l)
      <4>1. j >= k
        BY <3>5, <2>2, <1>3
      <4>2. Target(regs, j) = Target(before, j)
        BY <4>1, <1>1 DEF Chained
      <4> QED BY <3>2, <3>5, <4>2 DEF Target
    <3> QED BY <3>3, <3>4, <3>5
  <2>3. l < k \/ l = k
    BY <1>3, <1>4, <1>7
  <2> QED BY <2>1, <2>2, <2>3
<1> QED BY <1>4, <1>6, <1>7 DEF Chained, Target

\* Lanes are chained, whatever overlaps.
LEMMA ChainedAlways == Spec => []Chained
<1>1. Init => Chained
  BY DEF Init, Chained
<1>p. IInv /\ line > 0 => Proper(This.macro)
  BY ThisIsCall DEF IInv
<1>q. (IInv /\ line > 0 => Proper(This.macro))'
  BY <1>p, PTL
<1>2. IInv /\ Chained /\ [Next]_vars => Chained'
  <2>1. ASSUME IInv, Begin
        PROVE  Chained'
    <3>1. k' = 0 /\ regs' = before'
      BY <2>1 DEF Begin
    <3>2. IInv'
      BY <2>1, BeginPreserves
    <3>3. line' > 0 => \A l \in Lanes' : l \in Nat
      <4>1. line' > 0 => Proper(This.macro)'
        BY <3>2, <1>q
      <4>2. line' > 0 => Lanes' = 0 .. 16 \div This.macro.width' - 1
        BY <4>1 DEF Proper, Lanes
      <4> QED BY <4>2
    <3> QED BY <3>1, <3>3 DEF Chained, Target
  <2>2. ASSUME Chained, UNCHANGED vars PROVE Chained'
    BY <2>2 DEF Chained, vars, This, Lanes, Target
  <2> QED BY <2>1, <2>2, AssignChains DEF Next
<1> QED BY <1>1, <1>2, InductiveInvariant, PTL DEF Spec

\* Every overlap that is not tolerated puts a wrong lane into rd, whatever the
\* registers hold, if no two bytes of them are alike.
LEMMA OverlapsTear ==
    ASSUME IInv, Chained, Done, ~Safe(This), This.rs # This.rt,
           \A x, y \in Registers, a, b \in Byte :
               before[x][a] = before[y][b] => x = y /\ (a = b \/ x = Zero),
           regs = AtOnce(This, before)
    PROVE  FALSE
<1> DEFINE w == This.macro.width
           rd == This.rd
<1>1. line > 0 /\ k \notin Lanes
  BY DEF Done, Running
<1>2. /\ This \in Call /\ Proper(This.macro) /\ rd \in Registers
      /\ \A o \in {"rs", "rt", "lo", "hi"} : Operand(This, o) \in Registers
  BY <1>1, ThisIsCall DEF IInv
<1>3. /\ w \in Widths /\ Lanes = 0 .. 16 \div w - 1 /\ rd # Zero
      /\ \A l \in Lanes : l < k
  <2>1. w \in Widths /\ Lanes = 0 .. 16 \div w - 1 /\ rd # Zero
    BY <1>2 DEF Proper, Lanes, Call
  <2>2. k \in 0 .. 16 \div w
    BY <1>1 DEF IInv, TypeOK
  <2> QED BY <2>1, <2>2, <1>1, SMT DEF Widths
<1>4. PICK o \in {"rs", "rt"} : /\ rd = Operand(This, o) /\ Reads(This.macro, o)
                                /\ ~Tolerates(This.macro.name, o)
  BY DEF Safe
<1>5. PICK l, j, n \in 0 .. 15, p \in {"rs", "rt"} : TornAt(This.macro, o, l, j, p, n)
  <2>1. This.macro \in Macros
    BY <1>2 DEF Call
  <2> QED BY <2>1, <1>4, MacrosTorn, Zenon
<1>6. /\ l \in Lanes /\ j \in Lanes /\ n \in Lanes /\ j < l /\ (p # o \/ n # j)
      /\ This.macro.from[l] = <<o, j>> /\ This.macro.from[j] = <<p, n>>
  BY <1>5 DEF TornAt, Lanes
\* In the end, lane l holds what lane j holds.
<1>7. Target(regs, l) = Target(regs, j)
  BY <1>1, <1>3, <1>4, <1>6 DEF Chained
\* At once, it would hold what lane j held.
<1>8. ASSUME NEW m \in Lanes, NEW q \in {"rs", "rt"}, NEW g \in Lanes,
             This.macro.from[m] = <<q, g>>
      PROVE  Target(regs, m) = Lane(before[Operand(This, q)], w, g)
  <2>1. Given(This, before, m) = Lane(before[Operand(This, q)], w, g)
    BY <1>8, GivenIs
  <2>2. ASSUME NEW b \in 0 .. w - 1
        PROVE  regs[rd][w * m + b] = Lane(before[Operand(This, q)], w, g)[b]
    <3>1. w * m + b \in Byte /\ (w * m + b) \div w = m /\ (w * m + b) % w = b
      BY <1>3, ByteOfLane, ByteInLane
    <3>2. before = [x \in Registers |-> before[x]]
      BY DEF IInv, TypeOK, RegisterFile
    <3>3. \A c \in Byte : regs[rd][c] = Given(This, before, c \div w)[c % w]
      BY <1>2, <3>2 DEF AtOnce
    <3> HIDE DEF w, rd
    <3> QED BY <2>1, <3>1, <3>3
  <2>3. Target(regs, m) = [b \in 0 .. w - 1 |-> Lane(before[Operand(This, q)], w, g)[b]]
    BY <2>2 DEF Target, Lane
  <2> QED BY <2>3 DEF Lane
<1>9. Lane(before[rd], w, j) = Lane(before[Operand(This, p)], w, n)
  BY <1>4, <1>6, <1>7, <1>8
<1>10. before[rd][w * j] = before[Operand(This, p)][w * n]
  <2>0. w \in Int /\ w > 0 /\ j \in Int /\ n \in Int
    BY <1>3 DEF Widths
  <2>1. /\ 0 \in 0 .. w - 1 /\ w * j + 0 = w * j /\ w * n + 0 = w * n
    <3> HIDE DEF w
    <3> QED BY <2>0
  <2>2. /\ Lane(before[rd], w, j)[0] = before[rd][w * j + 0]
        /\ Lane(before[Operand(This, p)], w, n)[0] = before[Operand(This, p)][w * n + 0]
    BY <2>1 DEF Lane
  <2> QED BY <1>9, <2>1, <2>2
<1>11. w * j \in Byte /\ w * n \in Byte /\ (w * j = w * n => j = n)
  BY <1>3, <1>6, LaneStarts
<1>12. Operand(This, p) = rd /\ j = n
  BY <1>2, <1>3, <1>10, <1>11
<1>13. This.macro.first \in {"rs", "rt"}
  BY <1>2 DEF Proper
<1>14. p # o /\ Operand(This, p) = Operand(This, o)
  BY <1>4, <1>6, <1>12
<1>15. This.rs = This.rt
  BY <1>13, <1>14 DEF Operand
<1> QED BY <1>15

\* A lane that a macro which swaps its sources gets from the one that the macro calls
\* rt, none of rd overwritten yet, and the processor from the other.
SwappedAt(m, l, g) ==
    /\ l \in DOMAIN m.from /\ g \in DOMAIN m.from /\ ~(g < l)
    /\ m.from[l] = <<"rt", g>>
    /\ IF m.first = "rt" THEN Takes(m)[l] = <<"rt", g>> ELSE Takes(m)[l] = <<"rs", g>>

\* Every macro that swaps its sources has one.
LEMMA MacrosSwap ==
    \A m \in Moving : Swaps(m) => \E l, g \in 0 .. 15 : SwappedAt(m, l, g)
<1>1. SwappedAt(pextuw, 1, 2)
  BY SMT DEF SwappedAt, Takes, pextuw, Macro, Alternate
<1>2. ASSUME NEW m \in {pextlw, pextlh, pextlb, ppacw, ppach, ppacb}
      PROVE  SwappedAt(m, 0, 0)
  <2>1. 0 \in DOMAIN m.from /\ m.from[0] = <<"rt", 0>> /\ m.first = "rt" /\ m.name # "pextu"
    <3>1. CASE m \in {pextlw, pextlh, pextlb}
      BY <3>1, SMT DEF pextlw, pextlh, pextlb, Macro, Alternate
    <3>2. CASE m \in {ppacw, ppach, ppacb}
      BY <3>2, SMT DEF ppacw, ppach, ppacb, Macro
    <3> QED BY <3>1, <3>2
  <2>2. m # pextuw
    BY <2>1 DEF pextuw, Macro
  <2> QED BY <2>1, <2>2 DEF SwappedAt, Takes
<1>3. \A m \in Moving \ {pextlw, pextlh, pextlb, ppacw, ppach, ppacb, pextuw} : ~Swaps(m)
  BY DEF Moving, Swaps, pextuh, pextub, pinth, pcpyld, pexeh, prevh, pexew, prot3w,
         pmfhllh, pmfhluw, pmfhllw, pmflo, pmfhi, Macro
<1>4. 0 \in 0 .. 15 /\ 1 \in 0 .. 15 /\ 2 \in 0 .. 15
  OBVIOUS
<1> QED BY <1>1, <1>2, <1>3, <1>4

\* A macro that swaps its sources puts a wrong lane into rd, whether or not another
\* one is torn.
LEMMA SwappedDiffer ==
    ASSUME IInv, Chained, Done, Swaps(This.macro), This.macro \in Moving, This.rs # This.rt,
           \A x, y \in Registers, a, b \in Byte :
               before[x][a] = before[y][b] => x = y /\ (a = b \/ x = Zero),
           regs = AsProcessor(This, before)
    PROVE  FALSE
<1> DEFINE w == This.macro.width
           rd == This.rd
<1>1. line > 0 /\ k \notin Lanes
  BY DEF Done, Running
<1>2. /\ This \in Call /\ Proper(This.macro) /\ rd \in Registers
      /\ This.rs \in Registers /\ This.rt \in Registers
  BY <1>1, ThisIsCall DEF IInv, Call, Registers
<1>3. w \in Widths /\ Lanes = 0 .. 16 \div w - 1 /\ \A l \in Lanes : l < k
  <2>1. w \in Widths /\ Lanes = 0 .. 16 \div w - 1
    BY <1>2 DEF Proper, Lanes
  <2>2. k \in 0 .. 16 \div w
    BY <1>1 DEF IInv, TypeOK
  <2> QED BY <2>1, <2>2, <1>1, SMT DEF Widths
<1>4. PICK l, g \in 0 .. 15 : SwappedAt(This.macro, l, g)
  BY MacrosSwap
<1>5. l \in Lanes /\ g \in Lanes /\ ~(g < l) /\ This.macro.from[l] = <<"rt", g>>
  BY <1>4 DEF SwappedAt, Lanes
<1>6. PICK x, y \in {This.rs, This.rt} :
          /\ x # y /\ Operand(This, "rt") = x
          /\ Meant(This, before, l) = Lane(before[y], w, g)
  <2>1. CASE This.macro.first = "rt"
    <3>1. Takes(This.macro)[l] = <<"rt", g>>
      BY <2>1, <1>4 DEF SwappedAt
    <3>2. Meant(This, before, l) = Lane(before[This.rt], w, g)
      BY <3>1 DEF Meant
    <3>3. Operand(This, "rt") = This.rs
      BY <2>1 DEF Operand
    <3> QED BY <3>2, <3>3
  <2>2. CASE This.macro.first # "rt"
    <3>1. Takes(This.macro)[l] = <<"rs", g>>
      BY <2>2, <1>4 DEF SwappedAt
    <3>2. Meant(This, before, l) = Lane(before[This.rs], w, g)
      BY <3>1 DEF Meant
    <3>3. Operand(This, "rt") = This.rt
      BY <2>2 DEF Operand
    <3> QED BY <3>2, <3>3
  <2> QED BY <2>1, <2>2
<1>7. Target(regs, l) = Lane(before[x], w, g)
  BY <1>1, <1>3, <1>5, <1>6 DEF Chained
<1>8. 0 \in 0 .. w - 1 /\ w * l + 0 = w * l /\ w * g + 0 = w * g
  BY <1>3, <1>5, SMT DEF Widths
<1>9. regs[rd][w * l] = before[x][w * g]
  BY <1>7, <1>8 DEF Target, Lane
<1>10. regs[rd][w * l] = before[y][w * g]
  <2>1. w * l + 0 \in Byte /\ (w * l + 0) \div w = l /\ (w * l + 0) % w = 0
    BY <1>3, <1>5, <1>8, ByteOfLane, ByteInLane
  <2>2. before = [z \in Registers |-> before[z]]
    BY DEF IInv, TypeOK, RegisterFile
  <2>3. \A c \in Byte : regs[rd][c] = Meant(This, before, c \div w)[c % w]
    BY <1>2, <2>2 DEF AsProcessor
  <2>4. Lane(before[y], w, g)[0] = before[y][w * g + 0]
    BY <1>8 DEF Lane
  <2> HIDE DEF w, rd
  <2> QED BY <1>6, <1>8, <2>1, <2>3, <2>4
<1>11. w * g \in Byte
  BY <1>3, <1>5, LaneStarts
<1>12. x \in Registers /\ y \in Registers
  BY <1>2, <1>6
<1>13. before[x][w * g] = before[y][w * g]
  BY <1>9, <1>10
<1> HIDE DEF w
<1> QED BY <1>6, <1>11, <1>12, <1>13

\* Every instruction that moves lanes and whose macro cannot be relied on goes wrong,
\* whatever the registers hold, if no two bytes of them are alike.
THEOREM OthersAreWrong == Spec => []OthersWrong
<1>1. ASSUME IInv, Chained, Done, ~Right(This), This.rs # This.rt, This.macro \in Moving,
             \A x, y \in Registers, a, b \in Byte :
                 before[x][a] = before[y][b] => x = y /\ (a = b \/ x = Zero),
             regs = AsProcessor(This, before)
      PROVE  FALSE
  <2>1. CASE Swaps(This.macro)
    BY <2>1, <1>1, SwappedDiffer
  <2>2. CASE ~Swaps(This.macro)
    <3>1. This \in Call
      BY <1>1, ThisIsCall DEF Done, IInv
    <3>2. regs = AtOnce(This, before)
      BY <3>1, <2>2, <1>1, ProcessorAtOnce
    <3>3. ~Safe(This)
      BY <2>2, <1>1 DEF Right
    <3> QED BY <3>2, <3>3, <1>1, OverlapsTear
  <2> QED BY <2>1, <2>2
<1>2. IInv /\ Chained => OthersWrong
  BY <1>1, Zenon DEF OthersWrong
<1> QED BY <1>2, InductiveInvariant, ChainedAlways, PTL

-----------------------------------------------------------------------------
(* Interleaving two registers.                                               *)

\* The macros that interleave, by the width of their lanes, the lane of the sources
\* they begin with, and the source declared first.
Interleaver(m, w, from, first) ==
    /\ m.width = w /\ m.first = first
    /\ m.from = [l \in 0 .. 16 \div w - 1 |-> Alternate(l, from + (l \div 2))]

\* The macros of bytes and halfwords that interleave are so described.
LEMMA Interleavers ==
    /\ Interleaver(pextlb, 1, 0, "rt") /\ Interleaver(pextub, 1, 8, "rs")
    /\ Interleaver(pextlh, 2, 0, "rt") /\ Interleaver(pextuh, 2, 4, "rs")
<1>1. Interleaver(pextlb, 1, 0, "rt") /\ Interleaver(pextub, 1, 8, "rs")
  BY SMT DEF Interleaver, pextlb, pextub, Macro, Alternate
<1>2. Interleaver(pextlh, 2, 0, "rt") /\ Interleaver(pextuh, 2, 4, "rs")
  BY SMT DEF Interleaver, pextlh, pextuh, Macro, Alternate
<1> QED BY <1>1, <1>2

\* What they make of registers r, lane by lane.
LEMMA InterleaverGives ==
    ASSUME NEW w \in {1, 2}, NEW from \in Int, NEW first \in {"rs", "rt"}, NEW c, NEW r,
           Interleaver(c.macro, w, from, first), NEW l \in 0 .. 16 \div w - 1
    PROVE  LET x == IF first = "rt" THEN IF l % 2 = 0 THEN c.rs ELSE c.rt
                                    ELSE IF l % 2 = 0 THEN c.rt ELSE c.rs
           IN  Given(c, r, l) = Lane(r[x], w, from + (l \div 2))
<1> DEFINE j == from + (l \div 2)
           o == IF l % 2 = 0 THEN "rt" ELSE "rs"
<1>1. c.macro.width = w /\ c.macro.first = first /\ c.macro.from[l] = <<o, j>>
  BY DEF Interleaver, Alternate
<1>2. Given(c, r, l) = Lane(r[Operand(c, o)], w, j)
  <2> HIDE DEF j
  <2> QED BY <1>1, GivenIs
<1>3. Operand(c, o) = IF first = "rt" THEN IF l % 2 = 0 THEN c.rs ELSE c.rt
                                       ELSE IF l % 2 = 0 THEN c.rt ELSE c.rs
  <2>1. CASE l % 2 = 0
    BY <1>1, <2>1 DEF Operand
  <2>2. CASE ~(l % 2 = 0)
    BY <1>1, <2>2 DEF Operand
  <2> QED BY <2>1, <2>2
<1> QED BY <1>2, <1>3

\* A lane of what a macro makes of registers r is what it is given.
LEMMA LaneAtOnce ==
    ASSUME NEW w \in Widths, NEW c, c.macro.width = w, c.rd \in Registers,
           NEW r, r = [x \in Registers |-> r[x]], NEW l \in 0 .. 16 \div w - 1, NEW x, NEW j \in Int,
           Given(c, r, l) = Lane(r[x], w, j)
    PROVE  Lane(AtOnce(c, r)[c.rd], w, l) = Lane(r[x], w, j)
<1>1. AtOnce(c, r)[c.rd] = [b \in Byte |-> Given(c, r, b \div w)[b % w]]
  BY DEF AtOnce
<1>2. \A b \in 0 .. w - 1 : AtOnce(c, r)[c.rd][w * l + b] = Lane(r[x], w, j)[b]
  <2> SUFFICES ASSUME NEW b \in 0 .. w - 1
               PROVE  AtOnce(c, r)[c.rd][w * l + b] = Lane(r[x], w, j)[b]
    OBVIOUS
  <2>1. w * l + b \in Byte /\ (w * l + b) \div w = l /\ (w * l + b) % w = b
    BY ByteOfLane, ByteInLane
  <2> QED BY <1>1, <2>1
<1>3. Lane(AtOnce(c, r)[c.rd], w, l) = [b \in 0 .. w - 1 |-> Lane(r[x], w, j)[b]]
  BY <1>2 DEF Lane
<1> QED BY <1>3 DEF Lane

\* The first of two macros that interleave the same registers has left in its
\* target what it makes of the registers the second begins with.
FirstKept ==
    line = 2 /\ Interleaves(program) =>
        before[program[1].rd] = AtOnce(program[1], before)[program[1].rd]

\* What is known of such a pair.
LEMMA PairIs ==
    ASSUME IInv, Interleaves(program)
    PROVE  /\ program[1] \in Call /\ program[2] \in Call /\ Len(program) = 2
           /\ \E w \in {1, 2} : /\ Interleaver(program[1].macro, w, 0, "rt")
                                /\ Interleaver(program[2].macro, w, 8 \div w, "rs")
           /\ \A c \in {program[1], program[2]} :
                 {c.rd, c.rs, c.rt} \subseteq Registers
           /\ program[2].rs = program[1].rs /\ program[2].rt = program[1].rt
           /\ Safe(program[1]) /\ Safe(program[2])
<1>1. program \in Seq(Call) /\ Len(program) = 2
  BY ProgramsAssumption DEF IInv, TypeOK, Interleaves
<1>2. program[1] \in Call /\ program[2] \in Call
  BY <1>1
<1>3. program[2].rs = program[1].rs /\ program[2].rt = program[1].rt
  BY DEF Interleaves
<1>4. \/ program[1].macro = pextlb /\ program[2].macro = pextub
      \/ program[1].macro = pextlh /\ program[2].macro = pextuh
  BY DEF Interleaves
<1>5. \E w \in {1, 2} : /\ Interleaver(program[1].macro, w, 0, "rt")
                        /\ Interleaver(program[2].macro, w, 8 \div w, "rs")
  <2>1. 8 \div 1 = 8 /\ 8 \div 2 = 4
    OBVIOUS
  <2> QED BY <1>4, <2>1, Interleavers
<1>6. Safe(program[1])
  BY DEF Safe, Interleaves, Operand
<1>7. program[2].macro.name = "pextu"
  BY <1>4 DEF pextub, pextuh, Macro
<1>8. Safe(program[2])
  BY <1>7 DEF Safe, Tolerates
<1>9. \A c \in Call : {c.rd, c.rs, c.rt} \subseteq Registers
  BY DEF Call, Registers
<1> QED BY <1>1, <1>2, <1>3, <1>5, <1>6, <1>8, <1>9

\* When a macro begins, what the one before it made is as before.
LEMMA BeginKeepsFirst ==
    ASSUME IInv, FirstKept, Begin
    PROVE  FirstKept'
<1> SUFFICES ASSUME line' = 2, Interleaves(program)'
             PROVE  before'[program[1].rd] = AtOnce(program[1], before')[program[1].rd]
  BY DEF FirstKept, Begin
<1>1. program' = program /\ before' = regs /\ line = 1 /\ Done /\ Interleaves(program)
  BY DEF Begin, Done, Interleaves, IInv, TypeOK
<1> DEFINE c == program[1]
<1>2. This = c
  BY <1>1 DEF This
<1>3. PICK w \in {1, 2} : Interleaver(c.macro, w, 0, "rt")
  BY <1>1, PairIs
<1>4. c \in Call /\ {c.rd, c.rs, c.rt} \subseteq Registers /\ Safe(c) /\ c.rd \notin {c.rs, c.rt}
  BY <1>1, PairIs DEF Interleaves
<1>5. regs = AtOnce(c, before)
  BY <1>1, <1>2, <1>4, ExactWhenSafe
<1>6. before = [x \in Registers |-> before[x]] /\ regs = [x \in Registers |-> regs[x]]
  BY DEF IInv, TypeOK, RegisterFile
<1>7. regs[c.rs] = before[c.rs] /\ regs[c.rt] = before[c.rt]
  BY <1>4, <1>5, <1>6 DEF AtOnce
<1>8. c.macro.width = w
  BY <1>3 DEF Interleaver
<1>9. \A b \in Byte : Given(c, regs, b \div w) = Given(c, before, b \div w)
  <2> SUFFICES ASSUME NEW b \in Byte
               PROVE  Given(c, regs, b \div w) = Given(c, before, b \div w)
    OBVIOUS
  <2> DEFINE l == b \div w
  <2>1. l \in 0 .. 16 \div w - 1
    BY LaneOfByte DEF Widths
  <2>2. \A r : Given(c, r, l) = Lane(r[IF l % 2 = 0 THEN c.rs ELSE c.rt], w, 0 + (l \div 2))
    <3> HIDE DEF c, l
    <3> QED BY <2>1, <1>3, InterleaverGives
  <2> HIDE DEF l
  <2> QED BY <2>2, <1>7 DEF l
<1> HIDE DEF c
<1>10. AtOnce(c, regs)[c.rd] = [b \in Byte |-> Given(c, regs, b \div w)[b % w]]
  BY <1>4, <1>6, <1>8 DEF AtOnce
<1>11. regs[c.rd] = [b \in Byte |-> Given(c, before, b \div w)[b % w]]
  BY <1>4, <1>5, <1>6, <1>8 DEF AtOnce
<1>12. regs[c.rd] = AtOnce(c, regs)[c.rd]
  BY <1>9, <1>10, <1>11
<1> QED BY <1>1, <1>12 DEF c

\* The first of a pair has left its result in its register while the second runs.
LEMMA FirstKeptAlways == Spec => []FirstKept
<1>1. Init => FirstKept
  BY DEF Init, FirstKept
<1>2. IInv /\ FirstKept /\ [Next]_vars => FirstKept'
  <2>1. ASSUME FirstKept, Assign \/ UNCHANGED vars PROVE FirstKept'
    BY <2>1 DEF FirstKept, Assign, vars
  <2> QED BY <2>1, BeginKeepsFirst DEF Next
<1> QED BY <1>1, <1>2, InductiveInvariant, PTL DEF Spec

\* pextl and then pextu, of bytes or halfwords, keep every lane of their sources in
\* order, whatever the registers hold, and also when the second overwrites a source;
\* but they have the sources on opposite sides.
THEOREM NoLaneLost == Spec => []NothingLost
<1>1. ASSUME IInv, FirstKept, Done, line = 2, Interleaves(program), NEW n \in Lanes
      PROVE  LET v         == This.macro.width
                 Was(x, h) == Lane(before[x], v, h + n \div 2)
                 Is(x)     == Lane(regs[x], v, n)
             IN  /\ Is(program[1].rd) = Was(IF n % 2 = 0 THEN This.rs ELSE This.rt, 0)
                 /\ Is(program[2].rd) = Was(IF n % 2 = 0 THEN This.rt ELSE This.rs, 8 \div v)
  <2> DEFINE c == program[1]
             d == program[2]
  <2>1. This = d
    BY <1>1 DEF This
  <2>2. PICK w \in {1, 2} : /\ Interleaver(c.macro, w, 0, "rt")
                            /\ Interleaver(d.macro, w, 8 \div w, "rs")
    BY <1>1, PairIs
  <2>3. /\ c \in Call /\ d \in Call /\ Safe(d) /\ d.rs = c.rs /\ d.rt = c.rt /\ c.rd # d.rd
        /\ {c.rd, c.rs, c.rt} \subseteq Registers /\ {d.rd, d.rs, d.rt} \subseteq Registers
    BY <1>1, PairIs DEF Interleaves
  <2>4. regs = AtOnce(d, before)
    BY <1>1, <2>1, <2>3, ExactWhenSafe
  <2>5. before = [x \in Registers |-> before[x]]
    BY <1>1 DEF IInv, TypeOK, RegisterFile
  <2>6. c.macro.width = w /\ d.macro.width = w /\ w \in Widths
    BY <2>2 DEF Interleaver, Widths
  <2>7. n \in 0 .. 16 \div w - 1
    BY <2>1, <2>2 DEF Lanes, Interleaver
  <2>8. regs[c.rd] = AtOnce(c, before)[c.rd]
    <3>1. regs[c.rd] = before[c.rd]
      BY <2>3, <2>4, <2>5 DEF AtOnce
    <3> QED BY <3>1, <1>1 DEF FirstKept
  <2> HIDE DEF c, d
  <2>9. Lane(regs[c.rd], w, n) = Lane(before[IF n % 2 = 0 THEN c.rs ELSE c.rt], w, 0 + n \div 2)
    <3> DEFINE first == 0
               x == IF n % 2 = 0 THEN c.rs ELSE c.rt
               j == first + n \div 2
    <3>1. "rt" \in {"rs", "rt"}
      OBVIOUS
    <3>2. first \in Int /\ j \in Int /\ Interleaver(c.macro, w, first, "rt")
      BY <2>2, <2>6, <2>7 DEF Widths
    <3>3. c.rd \in Registers
      BY <2>3
    <3> HIDE DEF first
    <3>4. Given(c, before, n) = Lane(before[x], w, j) /\ j \in Int
      BY <3>1, <3>2, <2>2, <2>7, InterleaverGives
    <3> HIDE DEF x, j
    <3>5. Lane(AtOnce(c, before)[c.rd], w, n) = Lane(before[x], w, j)
      BY <3>3, <3>4, <2>5, <2>6, <2>7, LaneAtOnce
    <3> QED BY <3>5, <2>8 DEF x, j, first
  <2>10. Lane(regs[d.rd], w, n) =
            Lane(before[IF n % 2 = 0 THEN d.rt ELSE d.rs], w, (8 \div w) + n \div 2)
    <3>1. "rs" \in {"rs", "rt"} /\ "rs" # "rt"
      OBVIOUS
    <3>2. 8 \div w \in Int /\ (8 \div w) + n \div 2 \in Int
      BY <2>6, <2>7 DEF Widths
    <3>3. d.rd \in Registers
      BY <2>3
    <3> DEFINE x == IF n % 2 = 0 THEN d.rt ELSE d.rs
               j == (8 \div w) + n \div 2
    <3> HIDE DEF x, j
    <3>4. Given(d, before, n) = Lane(before[x], w, j) /\ j \in Int
      BY <3>1, <3>2, <2>2, <2>7, InterleaverGives DEF x, j
    <3>5. Lane(AtOnce(d, before)[d.rd], w, n) = Lane(before[x], w, j)
      BY <3>3, <3>4, <2>5, <2>6, <2>7, LaneAtOnce
    <3> QED BY <3>5, <2>4 DEF x, j
  <2> QED BY <2>1, <2>3, <2>6, <2>9, <2>10 DEF c, d
<1>2. IInv /\ FirstKept => NothingLost
  <2> SUFFICES ASSUME IInv, FirstKept, Done, line = 2, Interleaves(program), NEW l \in Lanes
               PROVE  LET w         == This.macro.width
                          Was(x, h) == Lane(before[x], w, h + l \div 2)
                          Is(x)     == Lane(regs[x], w, l)
                      IN  /\ Is(program[1].rd) = Was(IF l % 2 = 0 THEN This.rs ELSE This.rt, 0)
                          /\ Is(program[2].rd) = Was(IF l % 2 = 0 THEN This.rt ELSE This.rs, 8 \div w)
    BY DEF NothingLost
  <2> QED BY <1>1
<1> QED BY <1>2, InductiveInvariant, FirstKeptAlways, PTL

-----------------------------------------------------------------------------
(* Scalar macros: arithmetic.                                                *)

\* Quotient and remainder.
LEMMA QuotientIs ==
    ASSUME NEW d \in Nat \ {0}, NEW n \in Int
    PROVE  /\ n \div d \in Int /\ n % d \in 0 .. d - 1
           /\ n = (n \div d) * d + (n % d)
  BY Z3

\* The quotient and the remainder of a division are unique.
LEMMA OneQuotient ==
    ASSUME NEW d \in Nat \ {0}, NEW q \in Int, NEW r \in 0 .. d - 1
    PROVE  (q * d + r) \div d = q /\ (q * d + r) % d = r
  BY Z3

\* What holds of 0 and goes from each number to the next holds up to N.
LEMMA UpTo ==
    ASSUME NEW N \in Nat, NEW S, 0 \in S, \A n \in 0 .. N - 1 : n \in S => n + 1 \in S
    PROVE  \A n \in 0 .. N : n \in S
<1> DEFINE Missing == {n \in 0 .. N : n \notin S}
           R == {ss \in Nat \X Nat : ss[1] < ss[2]}
<1> SUFFICES ASSUME Missing # {} PROVE FALSE
  OBVIOUS
<1>1. IsWellFoundedOn(R, Nat)
  BY NatLessThanWellFounded, Zenon DEF OpToRel
<1>2. Missing \subseteq Nat
  OBVIOUS
<1>3. \E n \in Missing : \A m \in Missing : ~(<<m, n>> \in R)
  <2> HIDE DEF R, Missing
  <2> QED BY <1>1, <1>2, WFMin
<1>4. PICK n \in Missing : \A m \in Missing : ~(<<m, n>> \in R)
  BY <1>3
<1>5. n \in 1 .. N
  BY <1>4
<1>6. n - 1 \in 0 .. N - 1 /\ (n - 1) + 1 = n /\ <<n - 1, n>> \in R
  BY <1>5
<1>7. n - 1 \in S
  BY <1>4, <1>6
<1> QED BY <1>4, <1>6, <1>7

\* Powers of two.
LEMMA PowersPositive == \A n \in 0 .. 2 * Width : 2 ^ n \in Nat \ {0}
<1> DEFINE S == {n \in 0 .. 2 * Width : 2 ^ n \in Nat \ {0}}
<1>1. 2 * Width \in Nat /\ 2 ^ 0 = 1 /\ 0 \in S
  BY WidthAssumption, PowersAssumption
<1>2. \A n \in 0 .. 2 * Width - 1 : n \in S => n + 1 \in S
  BY <1>1, PowersAssumption
<1>3. \A n \in 0 .. 2 * Width : n \in S
  <2> HIDE DEF S
  <2> QED BY <1>1, <1>2, UpTo
<1> QED BY <1>3

\* Powers of two multiply as exponents add, which the assumption on ^ gives by induction.
LEMMA PowerSum ==
    ASSUME NEW m \in Nat, NEW n \in Nat, m + n =< 2 * Width
    PROVE  2 ^ (m + n) = 2 ^ m * 2 ^ n
<1> DEFINE N == 2 * Width - m
           S == {c \in 0 .. N : 2 ^ (m + c) = 2 ^ m * 2 ^ c}
<1>1. 2 * Width \in Nat /\ N \in Nat /\ m \in 0 .. 2 * Width /\ n \in 0 .. N
  BY WidthAssumption
<1>2. 0 \in S
  BY <1>1, PowersPositive, PowersAssumption
<1>3. ASSUME NEW c \in 0 .. N - 1, c \in S
      PROVE  c + 1 \in S
  <2>1. /\ 2 ^ (m + (c + 1)) = 2 * 2 ^ (m + c) /\ 2 ^ (c + 1) = 2 * 2 ^ c
    <3>1. m + c \in 0 .. 2 * Width /\ c \in 0 .. 2 * Width /\ m + (c + 1) = (m + c) + 1
      BY <1>1
    <3> QED BY <3>1, PowersAssumption
  <2>2. 2 ^ m \in Int /\ 2 ^ c \in Int
    BY <1>1, PowersPositive
  <2>3. 2 * (2 ^ m * 2 ^ c) = 2 ^ m * (2 * 2 ^ c)
    BY <2>2
  <2>4. 2 ^ (m + c) = 2 ^ m * 2 ^ c /\ c + 1 \in 0 .. N
    BY <1>1, <1>3
  <2>5. 2 ^ (m + (c + 1)) = 2 ^ m * 2 ^ (c + 1)
    BY <2>1, <2>3, <2>4
  <2> QED BY <2>4, <2>5
<1>4. \A c \in 0 .. N : c \in S
  <2> HIDE DEF S, N
  <2> QED BY <1>1, <1>2, <1>3, UpTo
<1> QED BY <1>1, <1>4

\* A word has a sign bit and another one, and two halves.
LEMMA WordSize ==
    /\ Width \in Nat /\ Width >= 2 /\ Width \div 2 \in Nat \ {0} /\ Width = 2 * (Width \div 2)
    /\ M \in Nat /\ M >= 4 /\ M = 2 * (M \div 2) /\ M \div 2 \in Nat
    /\ M \div 2 = 2 ^ (Width - 1) /\ M - 1 \in Word /\ 0 \in Word /\ 1 \in Word
    /\ Half \in Nat /\ Half >= 2 /\ M = Half * Half /\ Half = 2 * (Half \div 2)
<1>1. /\ Width \in Nat /\ Width >= 2 /\ Width \div 2 \in Nat \ {0} /\ Width = 2 * (Width \div 2)
  BY WidthAssumption
<1>2. 2 ^ Width \in Nat \ {0} /\ 2 ^ (Width - 1) \in Nat \ {0} /\ 2 ^ (Width - 2) \in Nat \ {0}
  BY <1>1, PowersPositive
<1>3. 2 ^ Width = 2 * 2 ^ (Width - 1) /\ 2 ^ (Width - 1) = 2 * 2 ^ (Width - 2)
  <2>1. Width - 1 \in 0 .. 2 * Width /\ Width - 2 \in 0 .. 2 * Width
        /\ (Width - 1) + 1 = Width /\ (Width - 2) + 1 = Width - 1
    BY <1>1
  <2> QED BY <2>1, PowersAssumption
<1>4. Half \in Nat \ {0} /\ M = Half * Half
  BY <1>1, PowersPositive, PowerSum DEF Half, M
<1>5. Half = 2 * 2 ^ ((Width \div 2) - 1) /\ 2 ^ ((Width \div 2) - 1) \in Nat \ {0}
  <2>1. (Width \div 2) - 1 \in 0 .. 2 * Width /\ ((Width \div 2) - 1) + 1 = Width \div 2
    BY <1>1
  <2> QED BY <2>1, PowersAssumption, PowersPositive DEF Half
<1>6. /\ M \in Nat /\ M >= 4 /\ M = 2 * (M \div 2) /\ M \div 2 \in Nat
      /\ M \div 2 = 2 ^ (Width - 1)
  BY <1>2, <1>3 DEF M
<1>7. Half >= 2 /\ Half = 2 * (Half \div 2)
  BY <1>5
<1> QED BY <1>1, <1>4, <1>6, <1>7 DEF Word

\* Dividing twice.
LEMMA QuotientOfQuotient ==
    ASSUME NEW x \in Int, NEW d \in Nat \ {0}, NEW e \in Nat \ {0}
    PROVE  (x \div d) \div e = x \div (d * e)
<1> DEFINE q == x \div d
           r == x % d
           s == q \div e
           t == q % e
<1>1. x = q * d + r /\ q \in Int /\ r \in 0 .. d - 1
  BY QuotientIs
<1>2. q = s * e + t /\ s \in Int /\ t \in 0 .. e - 1
  BY <1>1, QuotientIs
<1> HIDE DEF q, r, s, t
<1>3. d * e \in Nat \ {0}
  BY Z3
<1>4. t * d + r \in 0 .. d * e - 1
  <2>1. t * d >= 0 /\ t * d =< (e - 1) * d /\ t * d \in Int
    BY <1>2, Z3
  <2>2. (e - 1) * d = d * e - d
    BY Z3
  <2> QED BY <1>1, <1>2, <1>3, <2>1, <2>2
<1>5. x = s * (d * e) + (t * d + r)
  BY <1>1, <1>2, Z3
<1>6. x \div (d * e) = s
  BY <1>2, <1>3, <1>4, <1>5, OneQuotient
<1> QED BY <1>6 DEF q, s

\* Halving before a division is dividing by twice as much; what makes one shift of many.
LEMMA Halved == \A x \in Int, d \in Nat \ {0} : /\ (x \div 2) \div d = x \div (2 * d)
                                                /\ (x \div d) \div 2 = x \div (d * 2)
<1> TAKE x \in Int, d \in Nat \ {0}
<1> DEFINE e == 2
<1>1. e \in Nat \ {0}
  OBVIOUS
<1> HIDE DEF e
<1>2. (x \div e) \div d = x \div (e * d) /\ (x \div d) \div e = x \div (d * e)
  BY <1>1, QuotientOfQuotient
<1> QED BY <1>2 DEF e

-----------------------------------------------------------------------------
(* Words and their bits. *)

\* There is a word for every set of bits.
LEMMA WordExists ==
    ASSUME NEW S \in SUBSET Bits
    PROVE  \E w \in Word : Ones(w) = S
<1> DEFINE Upper(n, w) == \A i \in 0 .. n - 1 : (w \div 2 ^ i) % 2 = 1 <=> Width - n + i \in S
           Reached == {n \in 0 .. Width : \E w \in 0 .. 2 ^ n - 1 : Upper(n, w)}
<1>1. Width \in Nat /\ \A n \in 0 .. Width : 2 ^ n \in Nat \ {0}
  BY WordSize, PowersPositive
<1>2. 0 \in Reached
  BY <1>1, PowersAssumption
<1>3. ASSUME NEW n \in 0 .. Width - 1, n \in Reached
      PROVE  n + 1 \in Reached
  <2>1. PICK w \in 0 .. 2 ^ n - 1 : Upper(n, w)
    BY <1>3
  <2> DEFINE b == IF Width - (n + 1) \in S THEN 1 ELSE 0
             v == w * 2 + b
  <2>2. 2 ^ (n + 1) = 2 * 2 ^ n /\ 2 ^ n \in Nat /\ w \in Nat
    BY <1>1, PowersAssumption
  <2>3. v \in 0 .. 2 ^ (n + 1) - 1 /\ v \in Int
    BY <2>2
  <2>4. v \div 2 = w /\ v % 2 = b
    BY <2>2, OneQuotient
  <2>5. ASSUME NEW i \in 0 .. n
        PROVE  (v \div 2 ^ i) % 2 = 1 <=> Width - (n + 1) + i \in S
    <3>1. CASE i = 0
      BY <2>3, <2>4, <3>1, <1>1, PowersAssumption
    <3>2. CASE i > 0
      <4>1. i - 1 \in 0 .. n - 1 /\ (i - 1) + 1 = i /\ i - 1 \in 0 .. 2 * Width
            /\ Width - n + (i - 1) = Width - (n + 1) + i /\ i - 1 \in 0 .. Width
        BY <3>2, <1>1
      <4>2. 2 ^ i = 2 * 2 ^ (i - 1) /\ 2 ^ (i - 1) \in Nat \ {0}
        BY <4>1, <1>1, PowersAssumption
      <4>3. v \div 2 ^ i = w \div 2 ^ (i - 1)
        <5> HIDE DEF v
        <5> QED BY <4>2, <2>3, <2>4, Halved
      <4> QED BY <2>1, <4>1, <4>3
    <3> QED BY <3>1, <3>2
  <2>6. Upper(n + 1, v)
    <3> HIDE DEF v
    <3>1. 0 .. (n + 1) - 1 = 0 .. n
      OBVIOUS
    <3> QED BY <2>5, <3>1
  <2> HIDE DEF Upper, v
  <2> QED BY <2>3, <2>6, <1>1
<1>4. Width \in Reached
  <2>1. \A n \in 0 .. Width : n \in Reached
    <3> HIDE DEF Reached
    <3> QED BY <1>1, <1>2, <1>3, UpTo
  <2> HIDE DEF Reached
  <2> QED BY <1>1, <2>1
<1>5. PICK w \in 0 .. 2 ^ Width - 1 : Upper(Width, w)
  BY <1>4
<1>6. \A i \in Bits : (w \div 2 ^ i) % 2 = 1 <=> i \in S
  BY <1>1, <1>5 DEF Bits
<1> QED BY <1>5, <1>6 DEF Ones, Word, M

\* A word is known by its bits.
LEMMA WordByBits ==
    ASSUME NEW w \in Word, NEW v \in Word, Ones(w) = Ones(v)
    PROVE  w = v
<1> DEFINE Reached == {n \in 0 .. Width : w \div 2 ^ (Width - n) = v \div 2 ^ (Width - n)}
<1>1. Width \in Nat /\ \A n \in 0 .. Width : 2 ^ n \in Nat \ {0}
  BY WordSize, PowersPositive
<1>2. 0 \in Reached
  <2>1. ASSUME NEW x \in Word PROVE x \div 2 ^ Width = 0
    <3>1. x = 0 * 2 ^ Width + x /\ x \in 0 .. 2 ^ Width - 1 /\ 2 ^ Width \in Nat \ {0}
      BY <1>1 DEF Word, M
    <3> QED BY <3>1, OneQuotient
  <2>2. Width - 0 = Width
    BY <1>1
  <2> QED BY <1>1, <2>1, <2>2
<1>3. ASSUME NEW n \in 0 .. Width - 1, n \in Reached
      PROVE  n + 1 \in Reached
  <2> DEFINE i == Width - (n + 1)
  <2>1. i \in 0 .. Width /\ i \in 0 .. 2 * Width /\ i \in Bits /\ Width - n = i + 1
    BY <1>1 DEF Bits
  <2>2. 2 ^ (Width - n) = 2 ^ i * 2 /\ 2 ^ i \in Nat \ {0}
    BY <2>1, <1>1, PowersAssumption
  <2> HIDE DEF i
  <2>3. ASSUME NEW x \in Word
        PROVE  x \div 2 ^ i = (x \div 2 ^ (Width - n)) * 2 + ((x \div 2 ^ i) % 2)
    <3>1. x \in Int
      BY WordSize DEF Word
    <3>2. x \div 2 ^ i \in Int
      BY <2>2, <3>1, QuotientIs
    <3>3. (x \div 2 ^ i) \div 2 = x \div 2 ^ (Width - n)
      BY <2>2, <3>1, Halved
    <3> QED BY <3>2, <3>3
  <2>4. ASSUME NEW x \in Word
        PROVE  (x \div 2 ^ i) % 2 = IF i \in Ones(x) THEN 1 ELSE 0
    <3>1. x \in Int
      BY WordSize DEF Word
    <3>2. x \div 2 ^ i \in Int
      BY <2>2, <3>1, QuotientIs
    <3>3. (x \div 2 ^ i) % 2 \in 0 .. 1
      BY <3>2
    <3> QED BY <2>1, <3>3 DEF Ones
  <2>5. w \div 2 ^ (Width - n) = v \div 2 ^ (Width - n)
    BY <1>3
  <2>6. w \div 2 ^ i = v \div 2 ^ i
    BY <2>3, <2>4, <2>5
  <2> QED BY <1>1, <2>6 DEF i
<1>4. Width \in Reached
  <2>1. \A n \in 0 .. Width : n \in Reached
    <3> HIDE DEF Reached
    <3> QED BY <1>1, <1>2, <1>3, UpTo
  <2> HIDE DEF Reached
  <2> QED BY <1>1, <2>1
<1>5. w \div 1 = v \div 1
  BY <1>1, <1>4, PowersAssumption
<1> QED BY <1>5, WordSize DEF Word

\* WordOf and Ones are each other's inverse.
LEMMA WordOfBits ==
    /\ \A S \in SUBSET Bits : WordOf(S) \in Word /\ Ones(WordOf(S)) = S
    /\ \A w \in Word : Ones(w) \in SUBSET Bits /\ WordOf(Ones(w)) = w
<1>1. ASSUME NEW S \in SUBSET Bits
      PROVE  WordOf(S) \in Word /\ Ones(WordOf(S)) = S
  <2>1. \E w \in Word : Ones(w) = S
    BY WordExists
  <2> QED BY <2>1 DEF WordOf
<1>2. ASSUME NEW w \in Word
      PROVE  Ones(w) \in SUBSET Bits /\ WordOf(Ones(w)) = w
  <2>1. Ones(w) \in SUBSET Bits
    BY DEF Ones
  <2> QED BY <1>1, <2>1, WordByBits
<1> QED BY <1>1, <1>2

\* The bits of the least and of the greatest word.
LEMMA Extremes == Ones(0) = {} /\ Ones(M - 1) = Bits
<1>1. Width \in Nat /\ \A n \in 0 .. Width : 2 ^ n \in Nat \ {0}
  BY WordSize, PowersPositive
<1>2. ASSUME NEW i \in Bits
      PROVE  (0 \div 2 ^ i) % 2 = 0
  <2>1. 2 ^ i \in Nat \ {0}
    BY <1>1 DEF Bits
  <2> QED BY <2>1
<1>3. ASSUME NEW i \in Bits
      PROVE  ((M - 1) \div 2 ^ i) % 2 = 1
  <2> DEFINE d == 2 ^ i
             e == 2 ^ (Width - (i + 1))
  <2>1. i \in 0 .. Width /\ Width - (i + 1) \in 0 .. Width /\ i \in Nat /\ Width - (i + 1) \in Nat
        /\ i + 1 \in Nat /\ (i + 1) + (Width - (i + 1)) = Width /\ i \in 0 .. 2 * Width
    BY <1>1 DEF Bits
  <2>2. d \in Nat \ {0} /\ e \in Nat \ {0} /\ 2 ^ (i + 1) = 2 * d
    BY <1>1, <2>1, PowersAssumption
  <2>3. M = 2 ^ (i + 1) * e
    BY <1>1, <2>1, PowerSum DEF M
  <2> HIDE DEF d, e
  <2>4. M - 1 = (2 * e - 1) * d + (d - 1)
    BY <2>2, <2>3, Z3
  <2>5. (M - 1) \div d = 2 * e - 1
    <3>1. d - 1 \in 0 .. d - 1 /\ 2 * e - 1 \in Int
      BY <2>2
    <3> QED BY <2>2, <2>4, <3>1, OneQuotient
  <2>6. (2 * e - 1) % 2 = 1
    BY <2>2
  <2> QED BY <2>5, <2>6 DEF d
<1> QED BY <1>2, <1>3 DEF Ones

\* The sign of a word is its last bit.
LEMMA SignBit == \A w \in Word : Width - 1 \in Ones(w) <=> w >= M \div 2
<1> TAKE w \in Word
<1> DEFINE h == M \div 2
<1>1. h \in Nat \ {0} /\ M = 2 * h /\ h = 2 ^ (Width - 1) /\ Width - 1 \in Bits /\ w \in 0 .. 2 * h - 1
  BY WordSize DEF Bits, Word
<1> HIDE DEF h
<1>2. w < h => w \div h = 0
  <2>1. w < h => w = 0 * h + w /\ w \in 0 .. h - 1
    BY <1>1
  <2> QED BY <1>1, <2>1, OneQuotient
<1>3. w >= h => w \div h = 1
  <2> DEFINE q == 1
  <2>1. q \in Int /\ (w >= h => w = q * h + (w - h) /\ w - h \in 0 .. h - 1)
    BY <1>1
  <2> HIDE DEF q
  <2>2. ASSUME w >= h PROVE w \div h = q
    <3> DEFINE r == w - h
    <3>1. w = q * h + r /\ r \in 0 .. h - 1
      BY <2>1, <2>2
    <3> HIDE DEF r
    <3> QED BY <1>1, <2>1, <3>1, OneQuotient
  <2> QED BY <2>2 DEF q
<1>4. w >= h \/ w < h
  BY <1>1
<1> QED BY <1>1, <1>2, <1>3, <1>4 DEF Ones, h

\* A word sign-extended.
LEMMA ExtendIs ==
    ASSUME NEW w \in Word
    PROVE  /\ Extend(w) \in Double /\ Extend(w).lo = w
           /\ Extend(w).hi = IF w < M \div 2 THEN 0 ELSE M - 1
           /\ Ones(Extend(w).hi) = IF Width - 1 \in Ones(w) THEN Bits ELSE {}
<1>1. /\ Extend(w) \in Double /\ Extend(w).lo = w
      /\ Extend(w).hi = IF w < M \div 2 THEN 0 ELSE M - 1
  BY WordSize DEF Extend, Double
<1>2. Width - 1 \in Ones(w) <=> ~(w < M \div 2)
  <2>1. w \in Int /\ M \div 2 \in Int
    BY WordSize DEF Word
  <2> QED BY <2>1, SignBit
<1> QED BY <1>1, <1>2, Extremes

\* Logical operations commute with sign extension: they work on bits.
LEMMA LogicExtends ==
    ASSUME NEW op \in Logical, NEW a \in Word, NEW b \in Word
    PROVE  /\ WordMacro(op, a, b) \in Word
           /\ WordMacro(op, Extend(a).hi, Extend(b).hi) = Extend(WordMacro(op, a, b)).hi
<1> DEFINE Set(x, y) == IF op = "and" THEN x \cap y
                        ELSE IF op = "or" THEN x \cup y
                        ELSE IF op = "xor" THEN (x \ y) \cup (y \ x)
                        ELSE Bits \ (x \cup y)
           Spread(x) == IF Width - 1 \in x THEN Bits ELSE {}
<1>1. \A x, y \in Word : WordMacro(op, x, y) = WordOf(Set(Ones(x), Ones(y)))
  <2>1. CASE op = "and"
    BY <2>1 DEF WordMacro, AndWord
  <2>2. CASE op = "or"
    BY <2>2 DEF WordMacro, OrWord
  <2>3. CASE op = "xor"
    BY <2>3 DEF WordMacro, XorWord
  <2>4. CASE op = "nor"
    BY <2>4 DEF WordMacro, NorWord
  <2> QED BY <2>1, <2>2, <2>3, <2>4 DEF Logical
<1>2. \A x, y \in SUBSET Bits : Set(x, y) \in SUBSET Bits
  OBVIOUS
<1>3. \A x, y \in SUBSET Bits : Set(Spread(x), Spread(y)) = Spread(Set(x, y))
  <2>1. Width - 1 \in Bits
    BY WordSize DEF Bits
  <2> QED BY <2>1
<1> HIDE DEF Set
<1>4. Ones(a) \in SUBSET Bits /\ Ones(b) \in SUBSET Bits
  BY WordOfBits
<1> DEFINE w == WordMacro(op, a, b)
           v == WordMacro(op, Extend(a).hi, Extend(b).hi)
<1>5. w \in Word /\ Ones(w) = Set(Ones(a), Ones(b))
  BY <1>1, <1>2, <1>4, WordOfBits
<1>6. Extend(a).hi \in Word /\ Extend(b).hi \in Word
  BY ExtendIs DEF Double
<1>7. v \in Word /\ Ones(v) = Set(Ones(Extend(a).hi), Ones(Extend(b).hi))
  <2>1. Ones(Extend(a).hi) \in SUBSET Bits /\ Ones(Extend(b).hi) \in SUBSET Bits
    BY <1>6, WordOfBits
  <2>2. Set(Ones(Extend(a).hi), Ones(Extend(b).hi)) \in SUBSET Bits
    BY <1>2, <2>1
  <2>3. v = WordOf(Set(Ones(Extend(a).hi), Ones(Extend(b).hi)))
    BY <1>1, <1>6
  <2> QED BY <2>2, <2>3, WordOfBits
<1> HIDE DEF w, v
<1>8. Ones(v) = Spread(Ones(w))
  BY <1>3, <1>4, <1>5, <1>7, ExtendIs
<1>9. Ones(Extend(w).hi) = Ones(v) /\ Extend(w).hi \in Word
  BY <1>5, <1>8, ExtendIs DEF Double
<1>10. v = Extend(w).hi
  BY <1>7, <1>9, WordByBits
<1> QED BY <1>5, <1>10 DEF w, v

-----------------------------------------------------------------------------
(* Words and doublewords as integers. *)

\* Multiples of the divisor.
LEMMA MultipleOut ==
    ASSUME NEW d \in Nat \ {0}, NEW c \in Int, NEW x \in Int
    PROVE  /\ (c * d + x) % d = x % d
           /\ (c * d + x) \div d = c + (x \div d)
<1>1. x \div d \in Int /\ x % d \in 0 .. d - 1 /\ x = (x \div d) * d + (x % d)
  BY QuotientIs
<1> DEFINE q == c + (x \div d)
           r == x % d
<1>2. q \in Int /\ r \in 0 .. d - 1 /\ c * d + x = q * d + r
  BY <1>1, Z3
<1> HIDE DEF q, r
<1>3. (c * d + x) \div d = q /\ (c * d + x) % d = r
  BY <1>2, OneQuotient
<1> QED BY <1>3 DEF q, r

\* What is left of an integer when multiples of M are taken away.
LEMMA LowOf ==
    ASSUME NEW c \in Int, NEW x \in Int
    PROVE  /\ (c * M + x) % M = x % M
           /\ (c * M + x) \div M = c + (x \div M)
<1>1. M \in Nat \ {0}
  BY WordSize
<1> QED BY <1>1, MultipleOut

\* A word is what is left of itself.
LEMMA LowOfWord == \A w \in Word : w % M = w /\ w \div M = 0
<1> TAKE w \in Word
<1>1. M \in Nat \ {0} /\ w \in 0 .. M - 1 /\ w = 0 * M + w
  BY WordSize DEF Word
<1> QED BY <1>1, OneQuotient

\* An integer cut to a doubleword.
LEMMA OfIntIs ==
    ASSUME NEW n \in Int
    PROVE  OfInt(n) \in Double /\ OfInt(n).lo = n % M /\ OfInt(n).hi = (n \div M) % M
<1>1. M \in Nat \ {0}
  BY WordSize
<1>2. n % M \in 0 .. M - 1 /\ n \div M \in Int
  BY <1>1, QuotientIs
<1>3. (n \div M) % M \in 0 .. M - 1
  BY <1>1, <1>2, QuotientIs
<1> QED BY <1>2, <1>3 DEF OfInt, Double, Word

\* What a truncation leaves is a word.
LEMMA LowIsWord == \A n \in Int : Low(n) \in Word
<1>1. M \in Nat \ {0}
  BY WordSize
<1> QED BY <1>1, QuotientIs DEF Low, Word

\* The integers of a doubleword.
LEMMA DoubleIs ==
    ASSUME NEW d \in Double
    PROVE  /\ d.lo \in Word /\ d.hi \in Word /\ d.lo \in Nat /\ d.hi \in Nat
           /\ SignedWord(d.lo) \in Int /\ SignedWord(d.hi) \in Int
           /\ Unsigned(d) \in Nat /\ SignedDouble(d) \in Int
           /\ Unsigned(d) = d.hi * M + d.lo
           /\ SignedDouble(d) = SignedWord(d.hi) * M + d.lo
           /\ d = [lo |-> d.lo, hi |-> d.hi]
<1>1. M \in Nat /\ M \div 2 \in Nat
  BY WordSize
<1>2. d.lo \in Word /\ d.hi \in Word /\ d.lo \in Nat /\ d.hi \in Nat /\ d = [lo |-> d.lo, hi |-> d.hi]
  BY <1>1 DEF Double, Word
<1>3. SignedWord(d.lo) \in Int /\ SignedWord(d.hi) \in Int
  BY <1>1, <1>2 DEF SignedWord
<1>4. d.hi * M \in Nat /\ SignedWord(d.hi) * M \in Int
  BY <1>1, <1>2, <1>3
<1> QED BY <1>2, <1>3, <1>4 DEF Unsigned, SignedDouble

\* Amounts of shifts.
LEMMA Amounts ==
    ASSUME NEW b \in Word
    PROVE  /\ b % Width \in 0 .. Width - 1
           /\ 2 ^ (b % Width) \in Nat \ {0}
           /\ 2 ^ (0 + (b % Width)) = 2 ^ (b % Width)
           /\ 2 ^ (Width + (b % Width)) = M * 2 ^ (b % Width)
<1>1. Width \in Nat \ {0} /\ b \in Int
  BY WordSize DEF Word
<1>2. b % Width \in 0 .. Width - 1
  BY <1>1, QuotientIs
<1>3. 2 ^ (b % Width) \in Nat \ {0}
  BY <1>1, <1>2, PowersPositive
<1>4. 2 ^ (Width + (b % Width)) = M * 2 ^ (b % Width)
  BY <1>1, <1>2, PowerSum DEF M
<1>5. 0 + (b % Width) = b % Width
  BY <1>2
<1> QED BY <1>2, <1>3, <1>4, <1>5

\* What is left after a division by a positive number.
LEMMA SmallerQuotient ==
    ASSUME NEW w \in Nat, NEW d \in Nat \ {0}
    PROVE  w \div d \in 0 .. w
<1>1. w = (w \div d) * d + (w % d) /\ w \div d \in Int /\ w % d \in 0 .. d - 1
  BY QuotientIs
<1> DEFINE q == w \div d
<1> HIDE DEF q
<1>2. q >= 0 /\ q =< w
  <2>1. w = q * d + (w % d) /\ q \in Int
    BY <1>1 DEF q
  <2> QED BY <2>1, <1>1, Z3
<1> QED BY <1>1, <1>2 DEF q

\* Macros of words make words.
LEMMA WordTyped ==
    ASSUME NEW op \in WordOps, NEW a \in Word, NEW b \in Word
    PROVE  WordMacro(op, a, b) \in Word
<1>1. /\ a \in Nat /\ b \in Nat /\ Half \in Nat /\ SignedWord(a) \in Int /\ 2 ^ (b % Width) \in Nat \ {0}
      /\ 0 \in Word /\ 1 \in Word
  <2>1. 2 ^ (b % Width) \in Nat \ {0}
    BY Amounts
  <2>2. a \in Nat /\ b \in Nat /\ Half \in Nat /\ 0 \in Word /\ 1 \in Word /\ M \in Nat
    BY WordSize DEF Word
  <2> QED BY <2>1, <2>2 DEF SignedWord
<1>2. a * 2 ^ (b % Width) \in Int /\ a + b \in Int /\ a - b \in Int /\ b * Half \in Int
  BY <1>1
<1>3. a \div 2 ^ (b % Width) \in Word
  BY <1>1, SmallerQuotient, WordSize DEF Word
<1>4. CASE op \in {"addu", "subu", "sll", "sllv", "lui"}
  BY <1>2, <1>4, LowIsWord DEF WordMacro, AddWord, SubWord, SllWord, LuiWord
<1>5. CASE op \in Logical
  BY <1>5, LogicExtends
<1>6. CASE op \in {"srl", "srlv", "sra", "srav"}
  BY <1>3, <1>6 DEF WordMacro, SrlWord, SraWord
<1>7. CASE op \in {"slt", "sltu", "slti"}
  BY <1>1, <1>7 DEF WordMacro, SltWord, SltuWord, Truth
<1> QED BY <1>4, <1>5, <1>6, <1>7 DEF WordOps, Logical

\* Words as doublewords.
LEMMA ExtendAsInt ==
    ASSUME NEW w \in Word
    PROVE  /\ SignedDouble(Extend(w)) = SignedWord(w)
           /\ Unsigned(Extend(w)) = IF w < M \div 2 THEN w ELSE (M - 1) * M + w
           /\ OfInt(SignedWord(w)) = Extend(w)
<1>1. /\ M \in Nat /\ M >= 4 /\ M = 2 * (M \div 2) /\ w \in Nat /\ w < M /\ M \div 2 \in Nat
      /\ 0 \in Word /\ M - 1 \in Word
  BY WordSize DEF Word
<1>2. Extend(w) \in Double /\ Extend(w).lo = w /\ Extend(w).hi = IF w < M \div 2 THEN 0 ELSE M - 1
  BY ExtendIs
<1>3. SignedWord(Extend(w).hi) = IF w < M \div 2 THEN 0 ELSE -1
  BY <1>1, <1>2 DEF SignedWord
<1>4. SignedDouble(Extend(w)) = SignedWord(w)
  BY <1>1, <1>2, <1>3 DEF SignedDouble, SignedWord
<1>5. Unsigned(Extend(w)) = IF w < M \div 2 THEN w ELSE (M - 1) * M + w
  BY <1>1, <1>2 DEF Unsigned
<1>6. OfInt(SignedWord(w)) = Extend(w)
  <2>1. CASE w < M \div 2
    <3>1. w % M = w /\ w \div M = 0 /\ 0 % M = 0
      BY <1>1, LowOfWord
    <3> QED BY <2>1, <3>1 DEF OfInt, Extend, SignedWord
  <2>2. CASE ~(w < M \div 2)
    <3> DEFINE c == -1
    <3>1. c \in Int /\ c * M + w = w - M /\ w \in Int
      BY <1>1
    <3>2. (w - M) % M = w % M /\ (w - M) \div M = c + (w \div M)
      <4> HIDE DEF c
      <4> QED BY <3>1, LowOf
    <3>3. w % M = w /\ w \div M = 0
      BY LowOfWord
    <3>4. (w - M) % M = w /\ (w - M) \div M = -1
      BY <3>2, <3>3
    <3> DEFINE q == -1
               r == M - 1
    <3>5. q \in Int /\ r \in 0 .. M - 1 /\ -1 = q * M + r
      BY <1>1
    <3>6. (-1) % M = r
      <4>1. M \in Nat \ {0}
        BY <1>1
      <4>2. (q * M + r) % M = r
        <5> HIDE DEF q, r
        <5> QED BY <3>5, <4>1, OneQuotient
      <4>3. q * M + r = -1
        BY <1>1
      <4> QED BY <4>2, <4>3
    <3> QED BY <2>2, <3>4, <3>6 DEF OfInt, Extend, SignedWord
  <2> QED BY <2>1, <2>2
<1> QED BY <1>4, <1>5, <1>6

\* A number in the range of signed words makes a sign-extended one.
LEMMA OfSmallInt ==
    ASSUME NEW n \in Int, -(M \div 2) =< n, n < M \div 2
    PROVE  OfInt(n) = Extend(OfInt(n).lo)
<1> DEFINE w == IF n < 0 THEN n + M ELSE n
<1>1. w \in Word /\ SignedWord(w) = n
  BY WordSize DEF Word, SignedWord
<1> HIDE DEF w
<1>2. OfInt(n) = Extend(w)
  BY <1>1, ExtendAsInt
<1> QED BY <1>1, <1>2, ExtendIs

\* The range of signed doublewords.
LEMMA SignedRange ==
    ASSUME NEW d \in Double
    PROVE  -(M \div 2) * M =< SignedDouble(d) /\ SignedDouble(d) < (M \div 2) * M
<1> DEFINE h == M \div 2
           x == SignedWord(d.hi)
<1>1. /\ h \in Nat /\ M = 2 * h /\ M \in Nat /\ d.lo \in 0 .. M - 1 /\ d.hi \in 0 .. M - 1
      /\ SignedDouble(d) = x * M + d.lo
  BY WordSize, DoubleIs DEF Word
<1>2. x \in Int /\ -h =< x /\ x =< h - 1
  BY <1>1 DEF SignedWord
<1> HIDE DEF h, x
<1>3. -h * M =< x * M /\ x * M =< (h - 1) * M /\ x * M \in Int
  BY <1>1, <1>2, Z3
<1>4. (h - 1) * M = h * M - M /\ h * M \in Int
  BY <1>1, Z3
<1> QED BY <1>1, <1>3, <1>4 DEF h

-----------------------------------------------------------------------------
(* One instruction. *)

\* The processor's logical instructions.
LEMMA ProcessorLogic ==
    ASSUME NEW op \in Logical, NEW e \in Double, NEW f \in Double
    PROVE  /\ Processor(op, e, f) = [lo |-> WordMacro(op, e.lo, f.lo), hi |-> WordMacro(op, e.hi, f.hi)]
           /\ Processor(op, e, f) \in Double
           /\ e = Extend(e.lo) /\ f = Extend(f.lo)
                 => Processor(op, e, f) = Extend(Processor(op, e, f).lo)
<1> DEFINE lo == WordMacro(op, e.lo, f.lo)
           hi == WordMacro(op, e.hi, f.hi)
<1>1. Processor(op, e, f) = [lo |-> lo, hi |-> hi]
  <2>1. CASE op = "and"
    BY <2>1 DEF Processor, WordMacro, Halves
  <2>2. CASE op = "or"
    BY <2>2 DEF Processor, WordMacro, Halves
  <2>3. CASE op = "xor"
    BY <2>3 DEF Processor, WordMacro, Halves
  <2>4. CASE op = "nor"
    BY <2>4 DEF Processor, WordMacro, Halves
  <2> QED BY <2>1, <2>2, <2>3, <2>4 DEF Logical
<1>2. lo \in Word /\ hi \in Word
  BY WordTyped, DoubleIs DEF Logical, WordOps
<1>3. e = Extend(e.lo) /\ f = Extend(f.lo) => hi = Extend(lo).hi
  BY DoubleIs, LogicExtends
<1>4. Extend(lo) \in Double /\ Extend(lo).lo = lo
  BY <1>2, ExtendIs
<1> HIDE DEF lo, hi
<1>5. [lo |-> lo, hi |-> hi] \in Double
  BY <1>2 DEF Double
<1>6. e = Extend(e.lo) /\ f = Extend(f.lo) => [lo |-> lo, hi |-> hi] = Extend(lo)
  BY <1>3, <1>4, DoubleIs
<1> QED BY <1>1, <1>5, <1>6 DEF lo, hi

\* Those that make a sign-extended word of two words.
Extending == {"addu", "subu", "sll", "srl", "sllv", "srlv", "lui"}

\* The register form of the processor: every word result is sign-extended.
LEMMA ProcessorExtends ==
    ASSUME NEW op \in Extending, NEW e \in Double, NEW f \in Double
    PROVE  Processor(op, e, f) = Extend(WordMacro(op, e.lo, f.lo))
<1>1. CASE op = "addu"
  BY <1>1 DEF Processor, WordMacro, Extended
<1>2. CASE op = "subu"
  BY <1>2 DEF Processor, WordMacro, Extended
<1>3. CASE op \in {"sll", "sllv"}
  BY <1>3 DEF Processor, WordMacro, Extended
<1>4. CASE op \in {"srl", "srlv"}
  BY <1>4 DEF Processor, WordMacro, Extended
<1>5. CASE op = "lui"
  BY <1>5 DEF Processor, WordMacro, Extended
<1> QED BY <1>1, <1>2, <1>3, <1>4, <1>5 DEF Extending

\* A truth value is a sign-extended word.
LEMMA TruthIs == \A b \in BOOLEAN : OfInt(Truth(b)) = Extend(Truth(b)) /\ Truth(b) \in Word
<1> TAKE b \in BOOLEAN
<1>1. Truth(b) \in Word /\ SignedWord(Truth(b)) = Truth(b)
  BY WordSize DEF Truth, SignedWord
<1> QED BY <1>1, ExtendAsInt

\* The rest of the word instructions.
LEMMA ProcessorSra ==
    ASSUME NEW op \in {"sra", "srav"}, NEW e \in Double, NEW f \in Double
    PROVE  /\ SignedSra(e.lo, f.lo) \in Word
           /\ Processor(op, e, f) = Extend(SignedSra(e.lo, f.lo))
<1>1. Processor(op, e, f) = Extend(SignedSra(e.lo, f.lo))
  BY DEF Processor, Extended
<1>2. SignedWord(e.lo) \in Int /\ 2 ^ (f.lo % Width) \in Nat \ {0}
  BY DoubleIs, Amounts
<1>3. SignedSra(e.lo, f.lo) \in Word
  BY <1>2, QuotientIs, LowIsWord DEF SignedSra
<1> QED BY <1>1, <1>3

\* The comparisons give zero or one, as a doubleword.
LEMMA ProcessorCompares ==
    ASSUME NEW op \in {"slt", "sltu", "slti"}, NEW e \in Double, NEW f \in Double
    PROVE  /\ Processor(op, e, f) \in Double /\ Processor(op, e, f) = Extend(Processor(op, e, f).lo)
           /\ op # "slti" /\ e = Extend(e.lo) /\ f = Extend(f.lo)
                 => Processor(op, e, f).lo = WordMacro(op, e.lo, f.lo)
<1>1. CASE op \in {"slt", "slti"}
  <2> DEFINE b == SignedDouble(e) < SignedDouble(f)
  <2>1. Processor(op, e, f) = OfInt(Truth(b))
    BY <1>1 DEF Processor
  <2>2. OfInt(Truth(b)) = Extend(Truth(b)) /\ Truth(b) \in Word
    <3>1. b \in BOOLEAN
      OBVIOUS
    <3> HIDE DEF b
    <3> QED BY <3>1, TruthIs, Zenon
  <2>3. e = Extend(e.lo) /\ f = Extend(f.lo) => b = (SignedWord(e.lo) < SignedWord(f.lo))
    BY DoubleIs, ExtendAsInt
  <2>4. op = "slt" => WordMacro(op, e.lo, f.lo) = Truth(SignedWord(e.lo) < SignedWord(f.lo))
    BY DEF WordMacro, SltWord
  <2> HIDE DEF b
  <2> QED BY <1>1, <2>1, <2>2, <2>3, <2>4, ExtendIs
<1>2. CASE op = "sltu"
  <2> DEFINE b == Unsigned(e) < Unsigned(f)
  <2>1. Processor(op, e, f) = OfInt(Truth(b))
    BY <1>2 DEF Processor
  <2>2. OfInt(Truth(b)) = Extend(Truth(b)) /\ Truth(b) \in Word
    <3>1. b \in BOOLEAN
      OBVIOUS
    <3> HIDE DEF b
    <3> QED BY <3>1, TruthIs, Zenon
  <2>3. ASSUME e = Extend(e.lo), f = Extend(f.lo) PROVE b <=> e.lo < f.lo
    <3>1. /\ Unsigned(e) = IF e.lo < M \div 2 THEN e.lo ELSE (M - 1) * M + e.lo
          /\ Unsigned(f) = IF f.lo < M \div 2 THEN f.lo ELSE (M - 1) * M + f.lo
      BY <2>3, DoubleIs, ExtendAsInt
    <3>2. (M - 1) * M >= M /\ (M - 1) * M \in Int
      BY WordSize
    <3>3. e.lo \in 0 .. M - 1 /\ f.lo \in 0 .. M - 1 /\ M \in Nat /\ M \div 2 \in Nat
      BY WordSize, DoubleIs DEF Word
    <3> QED BY <3>1, <3>2, <3>3
  <2>4. WordMacro(op, e.lo, f.lo) = Truth(e.lo < f.lo)
    BY <1>2 DEF WordMacro, SltuWord
  <2>5. b \in BOOLEAN
    OBVIOUS
  <2> HIDE DEF b
  <2>6. e = Extend(e.lo) /\ f = Extend(f.lo) => Truth(b) = Truth(e.lo < f.lo)
    BY <2>3, <2>5 DEF Truth
  <2> QED BY <1>2, <2>1, <2>2, <2>4, <2>6, ExtendIs
<1> QED BY <1>1, <1>2

\* Second operands.
SecondOperand == [rc : Double, ee : Double, promise : SUBSET Flags, zero : BOOLEAN]

\* A word instruction keeps what is promised.
LEMMA WordKept ==
    ASSUME NEW op \in WordOps,
           NEW a \in Double, NEW e \in Double, NEW p \in SUBSET Flags, Keeps(a, e, p),
           NEW b \in SecondOperand, Keeps(b.rc, b.ee, b.promise),
           NEW old \in Double, NEW o \in SUBSET Flags, "flat" \in o => old.hi = 0,
           NEW w \in Outcomes(op, a.lo, b.rc.lo)
    PROVE  /\ w \in Word /\ Processor(op, e, b.ee) \in Double
           /\ WordPromised(op, p, b, o) \in SUBSET Flags
           /\ Keeps([old EXCEPT !.lo = w], Processor(op, e, b.ee), WordPromised(op, p, b, o))
<1> DEFINE r == Processor(op, e, b.ee)
           t == WordPromised(op, p, b, o)
<1>1. /\ b.rc \in Double /\ b.ee \in Double /\ b.promise \in SUBSET Flags
      /\ a.lo \in Word /\ b.rc.lo \in Word /\ e.lo \in Word /\ b.ee.lo \in Word
  BY DoubleIs DEF SecondOperand
<1>2. /\ WordMacro(op, a.lo, b.rc.lo) \in Word /\ WordMacro(op, e.lo, b.ee.lo) \in Word
      /\ w \in Word
  BY <1>1, WordTyped DEF Outcomes
<1>3. /\ r \in Double
      /\ op \notin Logical => r = Extend(r.lo)
      /\ op \in Logical /\ e = Extend(e.lo) /\ b.ee = Extend(b.ee.lo) => r = Extend(r.lo)
      /\ op \in Extending \cup Logical => r.lo = WordMacro(op, e.lo, b.ee.lo)
      /\ op \in {"slt", "sltu"} /\ e = Extend(e.lo) /\ b.ee = Extend(b.ee.lo)
           => r.lo = WordMacro(op, e.lo, b.ee.lo)
  <2>1. CASE op \in Logical
    <3>1. /\ r = [lo |-> WordMacro(op, e.lo, b.ee.lo), hi |-> WordMacro(op, e.hi, b.ee.hi)]
          /\ r \in Double
          /\ e = Extend(e.lo) /\ b.ee = Extend(b.ee.lo) => r = Extend(r.lo)
      BY <2>1, <1>1, ProcessorLogic
    <3>2. r.lo = WordMacro(op, e.lo, b.ee.lo)
      BY <3>1
    <3>3. op \notin {"slt", "sltu"}
      BY <2>1 DEF Logical
    <3> QED BY <2>1, <3>1, <3>2, <3>3
  <2>2. CASE op \in Extending
    BY <2>2, <1>1, <1>2, ProcessorExtends, ExtendIs DEF Logical, Extending
  <2>3. CASE op \in {"sra", "srav"}
    <3> DEFINE v == SignedSra(e.lo, b.ee.lo)
    <3>1. v \in Word /\ r = Extend(v)
      BY <2>3, <1>1, ProcessorSra
    <3> HIDE DEF v
    <3>2. r \in Double /\ r = Extend(r.lo)
      BY <3>1, ExtendIs
    <3>3. op \notin Logical \cup Extending \cup {"slt", "sltu"}
      BY <2>3 DEF Logical, Extending
    <3> QED BY <3>2, <3>3
  <2>4. CASE op \in {"slt", "sltu", "slti"}
    BY <2>4, <1>1, ProcessorCompares DEF Logical, Extending
  <2> QED BY <2>1, <2>2, <2>3, <2>4 DEF WordOps, Logical, Extending
<1> HIDE DEF r
<1>4. t \in SUBSET Flags
  BY DEF WordPromised, Promised, Only, Flags
<1>5. ASSUME "low" \in t PROVE w = r.lo
  <2>1. w = WordMacro(op, a.lo, b.rc.lo)
    <3>1. op \in {"sllv", "srlv", "srav"} => op \in {"sllv", "srlv"} /\ b.rc.lo < Width
      BY <1>5 DEF WordPromised, Promised, LowPromised, AllPromised, ExtendedPromised, Only,
                  Truncating, Logical
    <3>2. b.rc.lo < Width => ~(b.rc.lo >= Width)
      BY <1>1, WordSize DEF Word
    <3> QED BY <3>1, <3>2 DEF Outcomes
  <2>2. /\ "low" \in p \cap b.promise
        /\ \/ op \in Extending \cup Logical
           \/ op \in {"slt", "sltu"} /\ "extended" \in p \cap b.promise
    BY <1>5 DEF WordPromised, Promised, LowPromised, Only, Truncating, Extending, WordOps
  <2> QED BY <2>1, <2>2, <1>3 DEF Keeps
<1>6. "all" \notin t
  BY DEF WordPromised, Promised, AllPromised, Only, WordOps
<1>7. ASSUME "extended" \in t PROVE r = Extend(r.lo)
  <2>1. op \notin Logical \/ "extended" \in p \cap b.promise
    BY <1>7 DEF WordPromised, Promised, ExtendedPromised, Only, WordOps, Logical
  <2> QED BY <2>1, <1>3 DEF Keeps
<1>8. "flat" \in t => old.hi = 0
  BY DEF WordPromised, Promised, Only
<1>9. [old EXCEPT !.lo = w].lo = w /\ [old EXCEPT !.lo = w].hi = old.hi
  BY DEF Double
<1> QED BY <1>2, <1>3, <1>4, <1>5, <1>6, <1>7, <1>8, <1>9 DEF Keeps, r

\* Sums, differences and negations have the low word that those of low words have.
LEMMA LowOfSums ==
    ASSUME NEW a \in Double, NEW b \in Double
    PROVE  /\ OfInt(Unsigned(a) + Unsigned(b)).lo = Low(a.lo + b.lo)
           /\ OfInt(Unsigned(a) - Unsigned(b)).lo = Low(a.lo - b.lo)
           /\ OfInt(-Unsigned(a)).lo = Low(-a.lo)
<1>1. /\ M \in Nat /\ a.lo \in Int /\ a.hi \in Int /\ b.lo \in Int /\ b.hi \in Int
      /\ Unsigned(a) = a.hi * M + a.lo /\ Unsigned(b) = b.hi * M + b.lo
      /\ Unsigned(a) \in Int /\ Unsigned(b) \in Int
  BY WordSize, DoubleIs
<1>2. OfInt(Unsigned(a) + Unsigned(b)).lo = Low(a.lo + b.lo)
  <2> DEFINE c == a.hi + b.hi
             x == a.lo + b.lo
  <2>1. c \in Int /\ x \in Int /\ Unsigned(a) + Unsigned(b) = c * M + x
    BY <1>1, Z3
  <2> HIDE DEF c, x
  <2>2. (c * M + x) % M = x % M
    BY <2>1, LowOf
  <2> QED BY <1>1, <2>1, <2>2, OfIntIs DEF Low, x
<1>3. OfInt(Unsigned(a) - Unsigned(b)).lo = Low(a.lo - b.lo)
  <2> DEFINE c == a.hi - b.hi
             x == a.lo - b.lo
  <2>1. c \in Int /\ x \in Int /\ Unsigned(a) - Unsigned(b) = c * M + x
    BY <1>1, Z3
  <2> HIDE DEF c, x
  <2>2. (c * M + x) % M = x % M
    BY <2>1, LowOf
  <2> QED BY <1>1, <2>1, <2>2, OfIntIs DEF Low, x
<1>4. OfInt(-Unsigned(a)).lo = Low(-a.lo)
  <2> DEFINE c == -a.hi
             x == -a.lo
  <2>1. c \in Int /\ x \in Int /\ -Unsigned(a) = c * M + x
    BY <1>1, Z3
  <2> HIDE DEF c, x
  <2>2. (c * M + x) % M = x % M
    BY <2>1, LowOf
  <2> QED BY <1>1, <2>1, <2>2, OfIntIs DEF Low, x
<1> QED BY <1>2, <1>3, <1>4

\* A doubleword is what is left of itself.
LEMMA WholeDouble ==
    ASSUME NEW d \in Double
    PROVE  OfInt(Unsigned(d)) = d
<1>1. /\ M \in Nat /\ d.lo \in Word /\ d.hi \in Word /\ d.lo \in Int /\ d.hi \in Int
      /\ Unsigned(d) = d.hi * M + d.lo /\ Unsigned(d) \in Int /\ d = [lo |-> d.lo, hi |-> d.hi]
  BY WordSize, DoubleIs
<1>2. Unsigned(d) % M = d.lo /\ Unsigned(d) \div M = d.hi
  <2>1. (d.hi * M + d.lo) % M = d.lo % M /\ (d.hi * M + d.lo) \div M = d.hi + (d.lo \div M)
    BY <1>1, LowOf
  <2>2. d.lo % M = d.lo /\ d.lo \div M = 0
    BY <1>1, LowOfWord
  <2> QED BY <1>1, <2>1, <2>2
<1>3. d.hi % M = d.hi
  BY <1>1, LowOfWord
<1> QED BY <1>1, <1>2, <1>3 DEF OfInt

\* Shifts to the left take their low word from the low word, and by a word or
\* more all of their bits.
LEMMA ShiftsLeft ==
    ASSUME NEW a \in Double, NEW b \in Double
    PROVE  LET s == a.lo * 2 ^ (b.lo % Width)
           IN  /\ DsllBy(0, a, b) \in Double /\ DsllBy(0, a, b).lo = Low(s)
               /\ DsllBy(Width, a, b) = [lo |-> 0, hi |-> Low(s)]
               /\ DsllBy(Width, a, b) \in Double
<1> DEFINE d == 2 ^ (b.lo % Width)
           s == a.lo * d
           c == a.hi * d
           u == Unsigned(a)
<1>1. /\ M \in Nat /\ a.lo \in Int /\ a.hi \in Int /\ u = a.hi * M + a.lo /\ u \in Int
      /\ d \in Nat \ {0} /\ 2 ^ (0 + (b.lo % Width)) = d /\ 2 ^ (Width + (b.lo % Width)) = M * d
  BY WordSize, DoubleIs, Amounts
<1>2. DsllBy(0, a, b) = OfInt(u * d) /\ DsllBy(Width, a, b) = OfInt(u * (M * d))
  BY <1>1 DEF DsllBy
<1> HIDE DEF d, u
<1>3. s \in Int /\ c \in Int /\ u * d \in Int /\ u * d = c * M + s
  BY <1>1, Z3
<1>4. u * (M * d) = (u * d) * M + 0 /\ u * (M * d) \in Int
  BY <1>1, Z3
<1> DEFINE n == u * d
<1>5. n % M = s % M
  BY <1>3, LowOf
<1> HIDE DEF n, s, c
<1>6. (n * M + 0) % M = 0 % M /\ (n * M + 0) \div M = n + (0 \div M)
  BY <1>3, LowOf DEF n
<1>7. 0 % M = 0 /\ 0 \div M = 0
  BY LowOfWord, WordSize
<1>8. OfInt(u * (M * d)) = [lo |-> 0, hi |-> s % M]
  BY <1>3, <1>4, <1>5, <1>6, <1>7 DEF OfInt, n
<1>9. OfInt(n).lo = s % M /\ OfInt(n) \in Double /\ OfInt(u * (M * d)) \in Double
  BY <1>3, <1>4, <1>5, OfIntIs DEF n
<1> QED BY <1>2, <1>8, <1>9 DEF n, s, d, Low

\* Shifts to the right make doublewords; those by a word or more, of a signed
\* doubleword, a sign-extended word.
LEMMA ShiftsRight ==
    ASSUME NEW a \in Double, NEW b \in Double
    PROVE  /\ DsraBy(0, a, b) \in Double /\ DsraBy(Width, a, b) \in Double
           /\ DsrlBy(0, a, b) \in Double /\ DsrlBy(Width, a, b) \in Double
           /\ DsraBy(Width, a, b) = Extend(DsraBy(Width, a, b).lo)
<1> DEFINE d == 2 ^ (b.lo % Width)
           g == M * d
           n == SignedDouble(a) \div g
           h == M \div 2
<1>1. /\ M \in Nat /\ M >= 4 /\ d \in Nat \ {0} /\ 2 ^ (0 + (b.lo % Width)) = d /\ 2 ^ (Width + (b.lo % Width)) = g
      /\ Unsigned(a) \in Int /\ SignedDouble(a) \in Int /\ h \in Nat
  BY WordSize, DoubleIs, Amounts
<1>2. g \in Nat \ {0} /\ g >= M
  BY <1>1, Z3
<1>3. /\ DsraBy(0, a, b) \in Double /\ DsraBy(Width, a, b) \in Double
      /\ DsrlBy(0, a, b) \in Double /\ DsrlBy(Width, a, b) \in Double
  <2> HIDE DEF d, g
  <2> QED BY <1>1, <1>2, QuotientIs, OfIntIs DEF DsraBy, DsrlBy
<1>4. -h * M =< SignedDouble(a) /\ SignedDouble(a) < h * M
  BY SignedRange
<1>5. DsraBy(Width, a, b) = OfInt(n)
  BY <1>1 DEF DsraBy
<1>6. n \in Int /\ SignedDouble(a) = n * g + (SignedDouble(a) % g) /\ SignedDouble(a) % g \in 0 .. g - 1
  <2> HIDE DEF g
  <2> QED BY <1>1, <1>2, QuotientIs
<1> HIDE DEF n, g, h
<1>7. n < h
  <2>0. SUFFICES ASSUME n >= h PROVE FALSE
    BY <1>1, <1>6
  <2>1. n * g >= h * g /\ h * g >= h * M
    BY <2>0, <1>1, <1>2, <1>6, Z3
  <2> QED BY <2>1, <1>1, <1>2, <1>4, <1>6
<1>8. -h =< n
  <2>0. SUFFICES ASSUME n =< -h - 1 PROVE FALSE
    BY <1>1, <1>6
  <2>1. n * g =< (-h - 1) * g /\ (-h - 1) * g = -h * g - g /\ -h * g =< -h * M
    BY <2>0, <1>1, <1>2, <1>6, Z3
  <2> QED BY <2>1, <1>1, <1>2, <1>4, <1>6
<1>9. OfInt(n) = Extend(OfInt(n).lo)
  BY <1>6, <1>7, <1>8, OfSmallInt DEF h
<1> QED BY <1>3, <1>5, <1>9

\* A signed and an unsigned shift by less than a word differ in the upper word only.
LEMMA ShiftsAgreeLow ==
    ASSUME NEW a \in Double, NEW b \in Double
    PROVE  DsraBy(0, a, b).lo = DsrlBy(0, a, b).lo
<1> DEFINE i == b.lo % Width
           d == 2 ^ i
           e == 2 ^ (Width - i)
           u == Unsigned(a)
           j == IF a.hi < M \div 2 THEN 0 ELSE -1
<1>1. /\ M \in Nat /\ d \in Nat \ {0} /\ 2 ^ (0 + i) = d /\ i \in 0 .. Width - 1 /\ Width \in Nat
      /\ u \in Int /\ u = a.hi * M + a.lo /\ SignedDouble(a) = SignedWord(a.hi) * M + a.lo
      /\ SignedDouble(a) \in Int /\ a.hi \in Nat /\ a.lo \in Nat
  BY WordSize, DoubleIs, Amounts
<1>2. e \in Nat \ {0} /\ M = d * e
  <2>1. Width - i \in 0 .. 2 * Width /\ i \in Nat /\ Width - i \in Nat /\ i + (Width - i) = Width
        /\ i + (Width - i) =< 2 * Width
    BY <1>1
  <2> HIDE DEF i
  <2> QED BY <2>1, PowersPositive, PowerSum DEF M
<1>3. j \in Int /\ SignedWord(a.hi) = j * M + a.hi
  BY <1>1 DEF SignedWord
<1> HIDE DEF d, e, j, u
<1> DEFINE c == j * M * e
           q == u \div d
<1>4. c \in Int /\ SignedDouble(a) = c * d + u
  <2>1. c \in Int /\ c * d = (j * M) * M
    BY <1>1, <1>2, <1>3, Z3
  <2>2. SignedDouble(a) = (j * M) * M + (a.hi * M + a.lo)
    BY <1>1, <1>3, Z3
  <2> QED BY <2>1, <2>2, <1>1
<1>5. q \in Int
  BY <1>1, QuotientIs
<1> HIDE DEF c
<1>6. SignedDouble(a) \div d = c + q
  <2>1. (c * d + u) \div d = c + (u \div d)
    BY <1>1, <1>4, MultipleOut
  <2> QED BY <1>4, <2>1
<1> HIDE DEF q
<1> DEFINE f == j * e
<1>7. f \in Int /\ c = f * M
  BY <1>1, <1>2, <1>3, Z3 DEF c
<1> HIDE DEF f
<1>8. (c + q) % M = q % M
  BY <1>5, <1>7, LowOf
<1>9. OfInt(c + q).lo = OfInt(q).lo
  BY <1>4, <1>5, <1>8, OfIntIs
<1>10. DsraBy(0, a, b) = OfInt(c + q) /\ DsrlBy(0, a, b) = OfInt(q)
  BY <1>1, <1>6 DEF DsraBy, DsrlBy, q, u
<1> QED BY <1>9, <1>10

\* A doubleword instruction keeps what is promised.
LEMMA DoubleKept ==
    ASSUME NEW op \in DoubleOps,
           NEW a \in Double, NEW e \in Double, NEW p \in SUBSET Flags, Keeps(a, e, p),
           NEW b \in SecondOperand, Keeps(b.rc, b.ee, b.promise),
           b.zero => b.ee = OfInt(0), op \in Shifts => b.rc = b.ee
    PROVE  /\ DoubleMacro(op, a, b.rc) \in Double /\ Processor(op, e, b.ee) \in Double
           /\ DoublePromised(op, p, b) \in SUBSET Flags
           /\ Keeps(DoubleMacro(op, a, b.rc), Processor(op, e, b.ee), DoublePromised(op, p, b))
<1> DEFINE v == DoubleMacro(op, a, b.rc)
           r == Processor(op, e, b.ee)
           t == DoublePromised(op, p, b)
           q == b.promise
<1>1. /\ b.rc \in Double /\ b.ee \in Double /\ q \in SUBSET Flags /\ M \in Nat
      /\ \A d \in Double : /\ d.lo \in Word /\ d.lo \in Nat /\ Unsigned(d) \in Int
                           /\ SignedDouble(d) \in Int
  BY DoubleIs, WordSize DEF SecondOperand
<1>2. /\ "low" \in p => a.lo = e.lo
      /\ "all" \in p => a = e
      /\ "low" \in q => b.rc.lo = b.ee.lo
      /\ "all" \in q => b.rc = b.ee
  BY DEF Keeps
<1>3. CASE op = "daddu"
  <2>1. v = OfInt(Unsigned(a) + Unsigned(b.rc)) /\ r = OfInt(Unsigned(e) + Unsigned(b.ee))
    BY <1>3 DEF DoubleMacro, Processor
  <2>2. v \in Double /\ r \in Double
    BY <1>1, <2>1, OfIntIs
  <2>3. v.lo = Low(a.lo + b.rc.lo) /\ r.lo = Low(e.lo + b.ee.lo)
    BY <1>1, <2>1, LowOfSums
  <2>4. CASE b.zero /\ "all" \in q
    <3>1. Unsigned(OfInt(0)) = 0
      <4>1. OfInt(0) = [lo |-> 0, hi |-> 0]
        BY LowOfWord, WordSize DEF OfInt
      <4> QED BY <1>1, <4>1 DEF Unsigned
    <3>2. v = a /\ r = e
      BY <1>1, <1>2, <2>1, <2>4, <3>1, WholeDouble
    <3> QED BY <1>3, <2>4, <3>2 DEF DoublePromised
  <2>5. CASE ~(b.zero /\ "all" \in q)
    <3>1. t \subseteq ({"low", "all"} \cap p \cap q)
      BY <1>3, <2>5 DEF DoublePromised, Promised, LowPromised, AllPromised, ExtendedPromised, Only,
                        Logical, WordOps
    <3> QED BY <1>2, <2>1, <2>2, <2>3, <3>1 DEF Keeps, Flags
  <2> QED BY <2>4, <2>5
<1>4. CASE op = "dsubu"
  <2>1. v = OfInt(Unsigned(a) - Unsigned(b.rc)) /\ r = OfInt(Unsigned(e) - Unsigned(b.ee))
    BY <1>4 DEF DoubleMacro, Processor
  <2>2. v \in Double /\ r \in Double
    BY <1>1, <2>1, OfIntIs
  <2>3. v.lo = Low(a.lo - b.rc.lo) /\ r.lo = Low(e.lo - b.ee.lo)
    BY <1>1, <2>1, LowOfSums
  <2>4. t \subseteq ({"low", "all"} \cap p \cap q)
    BY <1>4 DEF DoublePromised, Promised, LowPromised, AllPromised, ExtendedPromised, Only,
                Logical, WordOps
  <2> QED BY <1>2, <2>1, <2>2, <2>3, <2>4 DEF Keeps, Flags
<1>5. CASE op = "negu"
  <2>1. v = OfInt(-Unsigned(a)) /\ r = Extend(Low(-e.lo))
    BY <1>5 DEF DoubleMacro, Processor
  <2>2. v \in Double /\ v.lo = Low(-a.lo)
    BY <1>1, <2>1, OfIntIs, LowOfSums
  <2>3. Low(-e.lo) \in Word
    BY <1>1, LowIsWord
  <2>4. r \in Double /\ r.lo = Low(-e.lo) /\ r = Extend(r.lo)
    BY <2>1, <2>3, ExtendIs
  <2>5. t \subseteq {"low", "extended"} /\ ("low" \in t => "low" \in p)
    BY <1>5 DEF DoublePromised, Promised, LowPromised, AllPromised, ExtendedPromised, Only,
                Logical, WordOps
  <2> QED BY <1>2, <2>2, <2>4, <2>5 DEF Keeps, Flags
<1>6. CASE op = "dsll"
  <2>1. v = DsllBy(0, a, b.rc) /\ r = DsllBy(0, e, b.ee)
    BY <1>6 DEF DoubleMacro, Processor
  <2>2. /\ v \in Double /\ v.lo = Low(a.lo * 2 ^ (b.rc.lo % Width))
        /\ r \in Double /\ r.lo = Low(e.lo * 2 ^ (b.ee.lo % Width))
    BY <1>1, <2>1, ShiftsLeft
  <2>3. t \subseteq ({"low", "all"} \cap p \cap q)
    BY <1>6 DEF DoublePromised, Promised, LowPromised, AllPromised, ExtendedPromised, Only,
                Logical, WordOps
  <2> QED BY <1>2, <2>1, <2>2, <2>3 DEF Keeps, Flags
<1>7. CASE op = "dsll32"
  <2>1. v = DsllBy(Width, a, b.rc) /\ r = DsllBy(Width, e, b.ee)
    BY <1>7 DEF DoubleMacro, Processor
  <2>2. /\ v \in Double /\ v = [lo |-> 0, hi |-> Low(a.lo * 2 ^ (b.rc.lo % Width))]
        /\ r \in Double /\ r = [lo |-> 0, hi |-> Low(e.lo * 2 ^ (b.ee.lo % Width))]
    BY <1>1, <2>1, ShiftsLeft
  <2>3. t \subseteq {"low", "all"} /\ ("all" \in t => "low" \in p)
    BY <1>7 DEF DoublePromised, Promised, LowPromised, AllPromised, ExtendedPromised, Only,
                Logical, WordOps
  <2>4. b.rc = b.ee
    BY <1>7 DEF Shifts
  <2>5. v.lo = r.lo /\ (a.lo = e.lo => v = r)
    BY <2>2, <2>4
  <2> QED BY <1>2, <2>2, <2>3, <2>5 DEF Keeps, Flags
<1>8. CASE op \in {"dsra", "dsra32"}
  <2>1. PICK n \in {0, Width} : /\ v = DsraBy(n, a, b.rc) /\ r = DsraBy(n, e, b.ee)
                                /\ op = "dsra32" => n = Width
    BY <1>8 DEF DoubleMacro, Processor
  <2>2. v \in Double /\ r \in Double /\ (op = "dsra32" => r = Extend(r.lo))
    BY <1>1, <2>1, ShiftsRight
  <2>3. t \subseteq {"low", "all", "extended"} /\ (t \cap {"low", "all"} # {} => "all" \in p)
        /\ ("extended" \in t => op = "dsra32")
    BY <1>8 DEF DoublePromised, Promised, LowPromised, AllPromised, ExtendedPromised, Only,
                Logical, WordOps, Truncating
  <2>4. b.rc = b.ee
    BY <1>8 DEF Shifts
  <2>5. "all" \in p => v = r
    BY <1>2, <2>1, <2>4
  <2> QED BY <2>2, <2>3, <2>5 DEF Keeps, Flags
<1>9. CASE op = "dsrl"
  <2>1. v = DsraBy(0, a, b.rc) /\ r = DsrlBy(0, e, b.ee)
    BY <1>9 DEF DoubleMacro, Processor
  <2>2. v \in Double /\ r \in Double /\ DsraBy(0, e, b.ee).lo = r.lo
    <3>1. DsraBy(0, a, b.rc) \in Double /\ DsrlBy(0, e, b.ee) \in Double
      BY <1>1, ShiftsRight
    <3>2. DsraBy(0, e, b.ee).lo = DsrlBy(0, e, b.ee).lo
      BY <1>1, ShiftsAgreeLow
    <3> QED BY <2>1, <3>1, <3>2
  <2>3. t \subseteq {"low"} /\ ("low" \in t => "all" \in p)
    BY <1>9 DEF DoublePromised, Promised, LowPromised, AllPromised, ExtendedPromised, Only,
                Logical, WordOps, Truncating
  <2>4. b.rc = b.ee
    BY <1>9 DEF Shifts
  <2> QED BY <1>2, <2>1, <2>2, <2>3, <2>4 DEF Keeps, Flags
<1>10. CASE op = "dsrl32"
  <2>1. v = DsraBy(Width, a, b.rc) /\ r = DsrlBy(Width, e, b.ee)
    BY <1>10 DEF DoubleMacro, Processor
  <2>2. v \in Double /\ r \in Double
    BY <1>1, <2>1, ShiftsRight
  <2>3. t = {}
    BY <1>10 DEF DoublePromised, Promised, LowPromised, AllPromised, ExtendedPromised, Only,
                Logical, WordOps, Truncating
  <2> QED BY <2>2, <2>3 DEF Keeps
<1> QED BY <1>3, <1>4, <1>5, <1>6, <1>7, <1>8, <1>9, <1>10 DEF DoubleOps

-----------------------------------------------------------------------------
(* The invariant. *)

\* What is promised holds, and $zero is zero on the processor.
ScalarInv == ScalarTypeOK /\ PromisesKept /\ ee[ZeroReg] = OfInt(0)

\* The zero that $zero holds is zero in both words.
LEMMA ZeroIs == OfInt(0) = Extend(0) /\ OfInt(0) = [lo |-> 0, hi |-> 0] /\ OfInt(0) \in Double
<1>1. OfInt(0) = [lo |-> 0, hi |-> 0] /\ OfInt(0) \in Double
  BY LowOfWord, WordSize, OfIntIs DEF OfInt
<1>2. Extend(0) = [lo |-> 0, hi |-> 0]
  BY WordSize DEF Extend
<1> QED BY <1>1, <1>2

\* $zero and every other general register are places of a promise.
LEMMA Places == /\ ZeroReg \in General /\ General \subseteq Place
                /\ {"lo", "hi", "mem"} \subseteq Place /\ ZeroReg \notin {"lo", "hi", "mem"}
  BY GeneralAssumption DEF Place

\* Cleared and loaded registers are as promised.
LEMMA ScalarInitEstablishes == ScalarInit => ScalarInv
<1> SUFFICES ASSUME ScalarInit PROVE ScalarInv
  OBVIOUS
<1>1. PICK start \in [General \ {ZeroReg} -> Prepared] :
          LET Start(x) == IF x \in General \ {ZeroReg} THEN start[x] ELSE Clear
          IN  /\ rc = [x \in Place |-> Start(x).rc]
              /\ ee = [x \in Place |-> Start(x).ee]
              /\ promise = [x \in Place |-> Start(x).promise]
  BY DEF ScalarInit
<1> DEFINE Start(x) == IF x \in General \ {ZeroReg} THEN start[x] ELSE Clear
<1>2. /\ Clear.rc = OfInt(0) /\ Clear.ee = OfInt(0) /\ Clear.promise = Flags
      /\ Keeps(OfInt(0), OfInt(0), Flags)
  BY ZeroIs DEF Clear, Keeps
<1>3. \A x : /\ Start(x).rc \in Double /\ Start(x).ee \in Double /\ Start(x).promise \in SUBSET Flags
             /\ Keeps(Start(x).rc, Start(x).ee, Start(x).promise)
  <2> TAKE x
  <2>1. CASE x \in General \ {ZeroReg}
    BY <2>1, PreparedAssumption
  <2>2. CASE ~(x \in General \ {ZeroReg})
    BY <2>2, <1>2, ZeroIs
  <2> QED BY <2>1, <2>2
<1>4. Start(ZeroReg) = Clear
  OBVIOUS
<1> HIDE DEF Start
<1>5. /\ rc = [x \in Place |-> Start(x).rc]
      /\ ee = [x \in Place |-> Start(x).ee]
      /\ promise = [x \in Place |-> Start(x).promise]
  BY <1>1 DEF Start
<1> QED BY <1>2, <1>3, <1>4, <1>5, Places DEF ScalarInv, ScalarTypeOK, PromisesKept

\* An instruction that assigns to a place what agrees as promised.
LEMMA AssignedKeeps ==
    ASSUME ScalarInv, NEW rd \in Place, NEW r \in Double, NEW e \in Double, NEW p \in SUBSET Flags,
           Keeps(r, e, p), Assigned(rd, r, e, p)
    PROVE  ScalarInv'
<1> DEFINE v == IF rd = ZeroReg THEN OfInt(0) ELSE e
           t == IF rd = ZeroReg THEN {"extended"} \cup (p \cap {"flat"}) ELSE p
<1>1. /\ rc' = [rc EXCEPT ![rd] = r] /\ ee' = [ee EXCEPT ![rd] = v]
      /\ promise' = [promise EXCEPT ![rd] = t]
  BY DEF Assigned
<1>2. v \in Double /\ t \in SUBSET Flags /\ Keeps(r, v, t)
  BY ZeroIs DEF Keeps, Flags
<1>3. rd = ZeroReg => v = OfInt(0)
  OBVIOUS
<1> HIDE DEF v, t
<1>4. ScalarTypeOK'
  BY <1>1, <1>2 DEF ScalarInv, ScalarTypeOK
<1>5. \A x \in Place : /\ x = rd => rc'[x] = r /\ ee'[x] = v /\ promise'[x] = t
                       /\ x # rd => rc'[x] = rc[x] /\ ee'[x] = ee[x] /\ promise'[x] = promise[x]
  BY <1>1 DEF ScalarInv, ScalarTypeOK
<1>6. PromisesKept'
  <2> SUFFICES ASSUME NEW x \in Place PROVE Keeps(rc'[x], ee'[x], promise'[x])
    BY DEF PromisesKept
  <2>1. Keeps(rc[x], ee[x], promise[x])
    BY DEF ScalarInv, PromisesKept
  <2> QED BY <1>2, <1>5, <2>1
<1>7. ee'[ZeroReg] = OfInt(0)
  <2>1. ZeroReg \in Place /\ ee[ZeroReg] = OfInt(0)
    BY Places DEF ScalarInv
  <2> QED BY <1>3, <1>5, <2>1
<1> QED BY <1>4, <1>6, <1>7 DEF ScalarInv

\* One that assigns to lo and hi.
LEMMA LoHiKeeps ==
    ASSUME ScalarInv, NEW lo \in Word, NEW hi \in Word, NEW e \in Double, NEW p,
           p.lo \subseteq {"low", "extended"}, p.hi \subseteq {"low", "extended"},
           "low" \in p.lo => lo = e.lo, "low" \in p.hi => hi = e.hi,
           LoHi(lo, hi, e, p)
    PROVE  ScalarInv'
<1>1. ScalarTypeOK /\ PromisesKept /\ ee[ZeroReg] = OfInt(0)
  BY DEF ScalarInv
<1>2. /\ rc' = [rc EXCEPT !["lo"].lo = lo, !["hi"].lo = hi]
      /\ ee' = [ee EXCEPT !["lo"] = Extend(e.lo), !["hi"] = Extend(e.hi)]
      /\ promise' = [x \in Place |-> IF x \in {"lo", "hi"} THEN (promise[x] \cap {"flat"}) \cup p[x]
                                                           ELSE promise[x]]
  BY DEF LoHi
<1>3. e.lo \in Word /\ e.hi \in Word
  BY DoubleIs
<1>4. /\ Extend(e.lo) \in Double /\ Extend(e.hi) \in Double
      /\ Extend(e.lo).lo = e.lo /\ Extend(e.hi).lo = e.hi
  BY <1>3, ExtendIs
<1>5. /\ rc'["lo"] = [rc["lo"] EXCEPT !.lo = lo] /\ rc'["hi"] = [rc["hi"] EXCEPT !.lo = hi]
      /\ ee'["lo"] = Extend(e.lo) /\ ee'["hi"] = Extend(e.hi)
      /\ promise'["lo"] = (promise["lo"] \cap {"flat"}) \cup p.lo
      /\ promise'["hi"] = (promise["hi"] \cap {"flat"}) \cup p.hi
  BY <1>1, <1>2, Places DEF ScalarTypeOK
<1>6. \A x \in Place \ {"lo", "hi"} : rc'[x] = rc[x] /\ ee'[x] = ee[x] /\ promise'[x] = promise[x]
  BY <1>1, <1>2 DEF ScalarTypeOK
<1>7. /\ DOMAIN rc' = Place /\ DOMAIN ee' = Place /\ DOMAIN promise' = Place
      /\ rc' = [x \in Place |-> rc'[x]] /\ ee' = [x \in Place |-> ee'[x]]
      /\ promise' = [x \in Place |-> promise'[x]]
  BY <1>1, <1>2 DEF ScalarTypeOK
<1>8. \A x \in {"lo", "hi"} : /\ rc'[x] \in Double /\ ee'[x] \in Double /\ promise'[x] \in SUBSET Flags
                              /\ rc'[x].hi = rc[x].hi
                              /\ "low" \in promise'[x] => rc'[x].lo = ee'[x].lo
  <2>1. rc["lo"] \in Double /\ rc["hi"] \in Double
    BY <1>1, Places DEF ScalarTypeOK
  <2>2. /\ rc'["lo"] \in Double /\ rc'["lo"].lo = lo /\ rc'["lo"].hi = rc["lo"].hi
        /\ rc'["hi"] \in Double /\ rc'["hi"].lo = hi /\ rc'["hi"].hi = rc["hi"].hi
    BY <1>5, <2>1 DEF Double
  <2>3. promise'["lo"] \in SUBSET Flags /\ promise'["hi"] \in SUBSET Flags
    BY <1>5 DEF Flags
  <2> QED BY <1>4, <1>5, <2>2, <2>3
<1>9. ScalarTypeOK'
  BY <1>1, <1>6, <1>7, <1>8 DEF ScalarTypeOK
<1>10. ASSUME NEW x \in {"lo", "hi"} PROVE Keeps(rc'[x], ee'[x], promise'[x])
  <2>1. "all" \notin promise'[x] /\ ("flat" \in promise'[x] => rc[x].hi = 0)
    BY <1>1, <1>5, Places DEF PromisesKept, Keeps
  <2>2. ee'[x] = Extend(ee'[x].lo)
    BY <1>4, <1>5
  <2> QED BY <1>8, <2>1, <2>2 DEF Keeps
<1>11. PromisesKept'
  BY <1>1, <1>6, <1>10 DEF PromisesKept
<1>12. ee'[ZeroReg] = OfInt(0)
  BY <1>1, <1>6, Places
<1> QED BY <1>9, <1>11, <1>12 DEF ScalarInv

\* Amounts and immediates are small.
LEMMA SmallWords ==
    /\ \A n \in 0 .. Width - 1 : n \in Word /\ n < M \div 2
    /\ \A n \in 0 .. Half - 1 : n \in Word /\ n < M \div 2
<1>1. /\ Width \in Nat /\ Width >= 2 /\ M \in Nat /\ M = 2 * (M \div 2) /\ M \div 2 \in Nat
      /\ M \div 2 = 2 ^ (Width - 1) /\ Half \in Nat /\ Half >= 2 /\ M = Half * Half
      /\ Half = 2 * (Half \div 2)
  BY WordSize
<1>2. Width - 1 < M \div 2
  <2> DEFINE N == Width - 1
             S == {n \in 0 .. N : n < 2 ^ n}
  <2>1. N \in Nat /\ 0 \in S
    BY <1>1, PowersAssumption
  <2>2. ASSUME NEW n \in 0 .. N - 1, n \in S PROVE n + 1 \in S
    <3>1. n \in 0 .. 2 * Width /\ n + 1 \in 0 .. N
      BY <1>1
    <3>2. 2 ^ (n + 1) = 2 * 2 ^ n /\ 2 ^ n \in Nat \ {0}
      BY <3>1, PowersAssumption, PowersPositive
    <3>3. n < 2 ^ n
      BY <2>2
    <3>4. n + 1 < 2 ^ (n + 1)
      BY <3>1, <3>2, <3>3
    <3> QED BY <3>1, <3>4
  <2>3. \A n \in 0 .. N : n \in S
    <3> HIDE DEF N, S
    <3> QED BY <2>1, <2>2, UpTo
  <2> QED BY <1>1, <2>1, <2>3
<1>3. Half =< M \div 2
  <2>1. Half * Half >= 2 * Half
    BY <1>1, Z3
  <2> QED BY <1>1, <2>1
<1> QED BY <1>1, <1>2, <1>3 DEF Word

\* An immediate is a sign-extended word in both machines.
LEMMA ImmediatesAre ==
    ASSUME NEW op, NEW b \in Immediates(op)
    PROVE  /\ b \in SecondOperand /\ Keeps(b.rc, b.ee, b.promise) /\ ~b.zero /\ b.rc = b.ee
           /\ \E w \in Word : b = Immediate(Extend(w))
<1>1. ASSUME NEW n \in Word, n < M \div 2
      PROVE  [lo |-> n, hi |-> 0] = Extend(n)
  BY <1>1 DEF Extend
<1>2. \E w \in Word : b = Immediate(Extend(w))
  <2>1. CASE b \in SignedImm
    <3>1. PICK n \in -(Half \div 2) .. Half \div 2 - 1 : b = Immediate(Extend(Low(n)))
      BY <2>1 DEF SignedImm
    <3>2. n \in Int
      BY WordSize
    <3> QED BY <3>1, <3>2, LowIsWord
  <2>2. CASE b \in PlainImm
    <3>1. PICK n \in 0 .. Half - 1 : b = Immediate([lo |-> n, hi |-> 0])
      BY <2>2 DEF PlainImm
    <3> QED BY <1>1, <3>1, SmallWords
  <2>3. CASE b \in Amount
    <3>1. PICK n \in 0 .. Width - 1 : b = Immediate([lo |-> n, hi |-> 0])
      BY <2>3 DEF Amount
    <3> QED BY <1>1, <3>1, SmallWords
  <2> QED BY <2>1, <2>2, <2>3 DEF Immediates
<1>3. PICK w \in Word : b = Immediate(Extend(w))
  BY <1>2
<1> DEFINE d == Extend(w)
<1>4. d \in Double /\ d = Extend(d.lo)
  BY ExtendIs
<1> HIDE DEF d
<1>5. b = [rc |-> d, ee |-> d, promise |-> All, zero |-> FALSE]
  BY <1>3 DEF Immediate, d
<1>6. All \in SUBSET Flags
  BY DEF All, Flags
<1>7. Keeps(d, d, All)
  BY <1>4 DEF Keeps, All
<1> QED BY <1>2, <1>4, <1>5, <1>6, <1>7 DEF SecondOperand

\* So is a register what is promised of it.
LEMMA SecondsAre ==
    ASSUME ScalarInv, NEW op, NEW b \in Seconds(op)
    PROVE  /\ b \in SecondOperand /\ Keeps(b.rc, b.ee, b.promise)
           /\ b.zero => b.ee = OfInt(0)
           /\ op \in Shifts => b.rc = b.ee
<1>1. CASE b \in Immediates(op)
  BY <1>1, ImmediatesAre
<1>2. CASE b \notin Immediates(op)
  <2>1. op \notin Shifts /\ b \in GeneralRegisters
    BY <1>2 DEF Seconds
  <2>2. PICK x \in General : b = Register(x)
    BY <2>1 DEF GeneralRegisters
  <2>3. /\ rc[x] \in Double /\ ee[x] \in Double /\ promise[x] \in SUBSET Flags
        /\ Keeps(rc[x], ee[x], promise[x]) /\ (x = ZeroReg => ee[x] = OfInt(0))
    BY Places DEF ScalarInv, ScalarTypeOK, PromisesKept
  <2>4. b = [rc |-> rc[x], ee |-> ee[x], promise |-> promise[x], zero |-> x = ZeroReg]
    BY <2>2 DEF Register
  <2>5. (x = ZeroReg) \in BOOLEAN
    OBVIOUS
  <2>6. b \in SecondOperand /\ b.rc = rc[x] /\ b.ee = ee[x] /\ b.promise = promise[x] /\ (b.zero => x = ZeroReg)
    BY <2>3, <2>4, <2>5 DEF SecondOperand
  <2> QED BY <2>1, <2>3, <2>6
<1> QED BY <1>1, <1>2

\* A computation keeps the promises of the other registers and makes a true one.
LEMMA ComputeKeeps == ASSUME ScalarInv, Compute PROVE ScalarInv'
<1>0. PICK op \in WordOps \cup DoubleOps : \E rd, rs \in General, b \in Seconds(op) :
          IF op \in WordOps THEN ComputeWord(op, rd, rs, b) ELSE ComputeDouble(op, rd, rs, b)
  BY DEF Compute
<1>1. PICK rd \in General, rs \in General, b \in Seconds(op) :
          IF op \in WordOps THEN ComputeWord(op, rd, rs, b) ELSE ComputeDouble(op, rd, rs, b)
  BY <1>0
<1>2. /\ b \in SecondOperand /\ Keeps(b.rc, b.ee, b.promise) /\ (b.zero => b.ee = OfInt(0))
      /\ (op \in Shifts => b.rc = b.ee)
  BY SecondsAre
<1>3. /\ rd \in Place /\ rs \in Place
      /\ \A x \in Place : /\ rc[x] \in Double /\ ee[x] \in Double /\ promise[x] \in SUBSET Flags
                          /\ Keeps(rc[x], ee[x], promise[x])
  BY Places DEF ScalarInv, ScalarTypeOK, PromisesKept
<1>4. CASE op \in WordOps
  <2>1. PICK w \in Outcomes(op, rc[rs].lo, b.rc.lo) :
            Assigned(rd, [rc[rd] EXCEPT !.lo = w], Processor(op, ee[rs], b.ee),
                     WordPromised(op, promise[rs], b, promise[rd]))
    BY <1>1, <1>4 DEF ComputeWord
  <2>2. "flat" \in promise[rd] => rc[rd].hi = 0
    BY <1>3 DEF Keeps
  <2>3. /\ w \in Word /\ Processor(op, ee[rs], b.ee) \in Double
        /\ WordPromised(op, promise[rs], b, promise[rd]) \in SUBSET Flags
        /\ Keeps([rc[rd] EXCEPT !.lo = w], Processor(op, ee[rs], b.ee),
                 WordPromised(op, promise[rs], b, promise[rd]))
    BY <1>2, <1>3, <1>4, <2>2, WordKept
  <2>4. [rc[rd] EXCEPT !.lo = w] \in Double
    BY <1>3, <2>3 DEF Double
  <2> QED BY <1>3, <2>1, <2>3, <2>4, AssignedKeeps
<1>5. CASE op \notin WordOps
  <2>1. op \in DoubleOps
    BY <1>5
  <2>2. Assigned(rd, DoubleMacro(op, rc[rs], b.rc), Processor(op, ee[rs], b.ee),
                 DoublePromised(op, promise[rs], b))
    BY <1>1, <1>5 DEF ComputeDouble
  <2>3. /\ DoubleMacro(op, rc[rs], b.rc) \in Double /\ Processor(op, ee[rs], b.ee) \in Double
        /\ DoublePromised(op, promise[rs], b) \in SUBSET Flags
        /\ Keeps(DoubleMacro(op, rc[rs], b.rc), Processor(op, ee[rs], b.ee),
                 DoublePromised(op, promise[rs], b))
    BY <1>2, <1>3, <2>1, DoubleKept
  <2> QED BY <1>3, <2>2, <2>3, AssignedKeeps
<1> QED BY <1>4, <1>5

\* What is known of every place.
LEMMA PlacesKeep ==
    ASSUME ScalarInv
    PROVE  /\ General \subseteq Place /\ {"lo", "hi", "mem"} \subseteq Place
           /\ \A x \in Place : /\ rc[x] \in Double /\ ee[x] \in Double /\ promise[x] \in SUBSET Flags
                               /\ Keeps(rc[x], ee[x], promise[x])
                               /\ rc[x].lo \in Word /\ rc[x].hi \in Word /\ ee[x].lo \in Word /\ ee[x].hi \in Word
  BY Places, DoubleIs DEF ScalarInv, ScalarTypeOK, PromisesKept

\* So does a conditional move, whichever way it goes.
LEMMA MoveIfKeeps == ASSUME ScalarInv, NEW nonzero \in BOOLEAN, MoveIf(nonzero) PROVE ScalarInv'
<1>1. PICK rd \in General, rs \in General, rt \in General :
          Assigned(rd, IF (rc[rt].lo # 0) = nonzero THEN [rc[rd] EXCEPT !.lo = rc[rs].lo] ELSE rc[rd],
                   IF (ee[rt] # OfInt(0)) = nonzero THEN ee[rs] ELSE ee[rd],
                   (promise[rd] \cap {"flat"}) \cup
                       (promise[rs] \cap promise[rd] \cap {"extended"}) \cup
                       Only("low", /\ "low" \in promise[rs] \cap promise[rd]
                                   /\ {"low", "extended"} \subseteq promise[rt]))
  BY DEF MoveIf
<1>2. /\ rd \in Place /\ rs \in Place /\ rt \in Place
      /\ \A x \in Place : /\ rc[x] \in Double /\ ee[x] \in Double /\ promise[x] \in SUBSET Flags
                          /\ Keeps(rc[x], ee[x], promise[x]) /\ rc[x].lo \in Word /\ ee[x].lo \in Word
  BY PlacesKeep
<1> DEFINE r == IF (rc[rt].lo # 0) = nonzero THEN [rc[rd] EXCEPT !.lo = rc[rs].lo] ELSE rc[rd]
           e == IF (ee[rt] # OfInt(0)) = nonzero THEN ee[rs] ELSE ee[rd]
           p == (promise[rd] \cap {"flat"}) \cup
                    (promise[rs] \cap promise[rd] \cap {"extended"}) \cup
                    Only("low", /\ "low" \in promise[rs] \cap promise[rd]
                                /\ {"low", "extended"} \subseteq promise[rt])
<1>3. r \in Double /\ r.hi = rc[rd].hi /\ (r.lo = IF (rc[rt].lo # 0) = nonzero THEN rc[rs].lo ELSE rc[rd].lo)
  BY <1>2 DEF Double
<1>4. e \in Double
  BY <1>2
<1>5. {"low", "extended"} \subseteq promise[rt] => ((rc[rt].lo # 0) <=> (ee[rt] # OfInt(0)))
  <2> SUFFICES ASSUME {"low", "extended"} \subseteq promise[rt]
               PROVE  rc[rt].lo # 0 <=> ee[rt] # OfInt(0)
    OBVIOUS
  <2>1. rc[rt].lo = ee[rt].lo /\ ee[rt] = Extend(ee[rt].lo)
    BY <1>2 DEF Keeps
  <2>2. OfInt(0) = Extend(0) /\ OfInt(0).lo = 0
    BY ZeroIs
  <2> QED BY <2>1, <2>2
<1>6. /\ p \in SUBSET {"low", "extended", "flat"}
      /\ "low" \in p => "low" \in promise[rs] /\ "low" \in promise[rd] /\ {"low", "extended"} \subseteq promise[rt]
      /\ "extended" \in p => "extended" \in promise[rs] /\ "extended" \in promise[rd]
      /\ "flat" \in p => "flat" \in promise[rd]
  BY DEF Only
<1>7. "low" \in p => r.lo = e.lo
  <2> SUFFICES ASSUME "low" \in p PROVE r.lo = e.lo
    OBVIOUS
  <2>1. rc[rs].lo = ee[rs].lo /\ rc[rd].lo = ee[rd].lo
    BY <1>2, <1>6 DEF Keeps
  <2>2. (rc[rt].lo # 0) = (ee[rt] # OfInt(0))
    BY <1>5, <1>6
  <2>3. e.lo = IF (rc[rt].lo # 0) = nonzero THEN ee[rs].lo ELSE ee[rd].lo
    BY <2>2
  <2> QED BY <1>3, <2>1, <2>3
<1>8. "extended" \in p => e = Extend(e.lo)
  BY <1>2, <1>6 DEF Keeps
<1>9. "flat" \in p => r.hi = 0
  BY <1>2, <1>3, <1>6 DEF Keeps
<1>10. Assigned(rd, r, e, p)
  BY <1>1
<1> HIDE DEF r, e, p
<1>11. Keeps(r, e, p) /\ p \in SUBSET Flags
  BY <1>6, <1>7, <1>8, <1>9 DEF Keeps, Flags
<1> QED BY <1>2, <1>3, <1>4, <1>10, <1>11, AssignedKeeps

\* So does a move from lo or hi.
LEMMA MoveFromKeeps == ASSUME ScalarInv, MoveFrom PROVE ScalarInv'
<1>1. PICK x \in {"lo", "hi"}, rd \in General :
          IF rd = ZeroReg THEN UNCHANGED <<rc, ee, promise>> ELSE Assigned(rd, rc[x], ee[x], promise[x])
  BY DEF MoveFrom
<1>2. CASE rd = ZeroReg
  BY <1>1, <1>2 DEF ScalarInv, ScalarTypeOK, PromisesKept
<1>3. CASE rd # ZeroReg
  <2>1. /\ rd \in Place /\ rc[x] \in Double /\ ee[x] \in Double /\ promise[x] \in SUBSET Flags
        /\ Keeps(rc[x], ee[x], promise[x])
    BY PlacesKeep
  <2> QED BY <1>1, <1>3, <2>1, AssignedKeeps
<1> QED BY <1>2, <1>3

\* So does a load of a doubleword.
LEMMA LoadDoubleKeeps == ASSUME ScalarInv, LoadDouble PROVE ScalarInv'
<1>1. PICK rd \in General : Assigned(rd, rc["mem"], ee["mem"], promise["mem"])
  BY DEF LoadDouble
<1>2. /\ rd \in Place /\ rc["mem"] \in Double /\ ee["mem"] \in Double /\ promise["mem"] \in SUBSET Flags
      /\ Keeps(rc["mem"], ee["mem"], promise["mem"])
  BY PlacesKeep
<1> QED BY <1>1, <1>2, AssignedKeeps

\* A store of a word promises of memory what the processor leaves there.
LEMMA StoreWordKeeps == ASSUME ScalarInv, StoreWord PROVE ScalarInv'
<1>1. PICK rt \in General :
          Assigned("mem", [rc["mem"] EXCEPT !.lo = rc[rt].lo], [ee["mem"] EXCEPT !.lo = ee[rt].lo],
                   (promise[rt] \cap {"low"}) \cup (promise["mem"] \cap {"flat"})
                     \cup Only("all", "low" \in promise[rt] /\ "all" \in promise["mem"]))
  BY DEF StoreWord
<1> DEFINE r == [rc["mem"] EXCEPT !.lo = rc[rt].lo]
           e == [ee["mem"] EXCEPT !.lo = ee[rt].lo]
           p == (promise[rt] \cap {"low"}) \cup (promise["mem"] \cap {"flat"})
                     \cup Only("all", "low" \in promise[rt] /\ "all" \in promise["mem"])
<1>2. /\ "mem" \in Place /\ rt \in Place
      /\ \A x \in Place : /\ rc[x] \in Double /\ ee[x] \in Double
                          /\ Keeps(rc[x], ee[x], promise[x]) /\ rc[x].lo \in Word /\ ee[x].lo \in Word
  BY PlacesKeep
<1>3. /\ r \in Double /\ r.hi = rc["mem"].hi /\ r.lo = rc[rt].lo
      /\ e \in Double /\ e.hi = ee["mem"].hi /\ e.lo = ee[rt].lo
  BY <1>2 DEF Double
<1>4. /\ p \in SUBSET {"low", "all", "flat"}
      /\ "low" \in p => "low" \in promise[rt]
      /\ "all" \in p => "low" \in promise[rt] /\ "all" \in promise["mem"]
      /\ "flat" \in p => "flat" \in promise["mem"]
  BY DEF Only
<1>5. Assigned("mem", r, e, p)
  BY <1>1
<1>6. "low" \in p => r.lo = e.lo
  BY <1>2, <1>3, <1>4 DEF Keeps
<1>7. "all" \in p => r.lo = e.lo /\ r.hi = e.hi
  BY <1>2, <1>3, <1>4 DEF Keeps
<1>8. "flat" \in p => r.hi = 0
  BY <1>2, <1>3, <1>4 DEF Keeps
<1> HIDE DEF r, e, p
<1>9. "all" \in p => r = e
  BY <1>3, <1>7, DoubleIs
<1>10. Keeps(r, e, p) /\ p \in SUBSET Flags
  BY <1>4, <1>6, <1>8, <1>9 DEF Keeps, Flags
<1> QED BY <1>2, <1>3, <1>5, <1>10, AssignedKeeps

\* So does a store of a doubleword.
LEMMA StoreDoubleKeeps == ASSUME ScalarInv, StoreDouble PROVE ScalarInv'
<1>1. PICK rt \in General, base \in General :
          Assigned("mem", IF rc[base].hi = 0 THEN DoubleStored(rc[rt]) ELSE rc["mem"], ee[rt],
                   IF "flat" \notin promise[base] THEN {}
                   ELSE IF {"low", "extended"} \subseteq promise[rt] THEN All
                   ELSE promise[rt] \cap {"low", "extended"})
  BY DEF StoreDouble
<1> DEFINE r == IF rc[base].hi = 0 THEN DoubleStored(rc[rt]) ELSE rc["mem"]
           p == IF "flat" \notin promise[base] THEN {}
                ELSE IF {"low", "extended"} \subseteq promise[rt] THEN All
                ELSE promise[rt] \cap {"low", "extended"}
<1>2. /\ "mem" \in Place /\ rt \in Place /\ base \in Place
      /\ \A x \in Place : /\ rc[x] \in Double /\ ee[x] \in Double
                          /\ Keeps(rc[x], ee[x], promise[x]) /\ rc[x].lo \in Word /\ ee[x].lo \in Word
  BY PlacesKeep
<1>3. Assigned("mem", r, ee[rt], p)
  BY <1>1
<1>4. DoubleStored(rc[rt]) = Extend(rc[rt].lo) /\ Extend(rc[rt].lo) \in Double /\ Extend(rc[rt].lo).lo = rc[rt].lo
  BY <1>2, ExtendIs DEF DoubleStored
<1>5. r \in Double /\ p \in SUBSET Flags
  BY <1>2, <1>4 DEF All, Flags
<1>6. "flat" \in promise[base] => r = Extend(rc[rt].lo)
  BY <1>2, <1>4 DEF Keeps
<1>7. "flat" \notin promise[base] => p = {}
  OBVIOUS
<1>8. /\ "low" \in p => "low" \in promise[rt]
      /\ "all" \in p => "low" \in promise[rt] /\ "extended" \in promise[rt]
      /\ "extended" \in p => "extended" \in promise[rt]
      /\ "flat" \notin p
  BY DEF All
<1> HIDE DEF r, p
<1>9. Keeps(r, ee[rt], p)
  BY <1>2, <1>4, <1>6, <1>7, <1>8 DEF Keeps
<1> QED BY <1>2, <1>3, <1>5, <1>9, AssignedKeeps

\* Halves of words.
LEMMA HalfWords ==
    ASSUME NEW w \in Word, NEW v \in Word
    PROVE  /\ w % Half \in Word /\ w % Half < M \div 2
           /\ Narrow(v, w) \in Word
           /\ \E x \in Word : ExtendHalf(w) = Extend(x)
<1>1. /\ Half \in Nat \ {0} /\ Half >= 2 /\ M = Half * Half /\ Half = 2 * (Half \div 2) /\ M \in Nat
      /\ w \in Nat /\ v \in Nat /\ v < M
  BY WordSize DEF Word
<1>2. w % Half \in 0 .. Half - 1
  BY <1>1, QuotientIs
<1>3. w % Half \in Word /\ w % Half < M \div 2
  BY <1>2, SmallWords
<1>4. Narrow(v, w) \in Word
  <2>1. v = (v \div Half) * Half + (v % Half) /\ v \div Half \in Int /\ v % Half \in 0 .. Half - 1
    BY <1>1, QuotientIs
  <2> DEFINE q == v \div Half
  <2>2. q \in Int /\ v = q * Half + (v % Half)
    BY <2>1
  <2> HIDE DEF q
  <2>3. q >= 0 /\ q =< Half - 1
    BY <1>1, <2>1, <2>2, Z3
  <2>4. q * Half >= 0 /\ q * Half =< (Half - 1) * Half /\ (Half - 1) * Half = M - Half /\ q * Half \in Int
    BY <1>1, <2>2, <2>3, Z3
  <2>5. Narrow(v, w) = q * Half + (w % Half)
    BY DEF Narrow, q
  <2> QED BY <1>1, <1>2, <2>4, <2>5 DEF Word
<1>5. \E x \in Word : ExtendHalf(w) = Extend(x)
  <2> DEFINE x == IF w % Half < Half \div 2 THEN w % Half ELSE M - Half + (w % Half)
  <2>1. M - Half >= 0
    BY <1>1, Z3
  <2>2. x \in Word
    BY <1>1, <1>2, <1>3, <2>1 DEF Word
  <2>3. ExtendHalf(w) = Extend(x)
    BY DEF ExtendHalf
  <2> QED BY <2>2, <2>3
<1> QED BY <1>3, <1>4, <1>5

\* A load of a lane promises what the processor extends it to.
LEMMA LoadKeeps == ASSUME ScalarInv, NEW op \in LoadOps, Load(op) PROVE ScalarInv'
<1>1. PICK rd \in General :
          Assigned(rd, LoadMacro(op, rc[rd], rc["mem"]), ProcessorLoad(op, ee["mem"]),
                   LoadPromised(op, promise["mem"]) \cup (promise[rd] \cap {"flat"}))
  BY DEF Load
<1> DEFINE m == rc["mem"]
           n == ee["mem"]
           r == LoadMacro(op, rc[rd], m)
           e == ProcessorLoad(op, n)
           p == LoadPromised(op, promise["mem"]) \cup (promise[rd] \cap {"flat"})
<1>2. /\ "mem" \in Place /\ rd \in Place
      /\ rc[rd] \in Double /\ rc[rd].lo \in Word /\ ("flat" \in promise[rd] => rc[rd].hi = 0)
      /\ m \in Double /\ m.lo \in Word /\ n \in Double /\ n.lo \in Word
      /\ ("low" \in promise["mem"] => m.lo = n.lo)
  BY PlacesKeep DEF Keeps
<1>3. /\ p \in SUBSET {"low", "extended", "flat"}
      /\ "low" \in p => "low" \in promise["mem"] /\ op # "lh"
      /\ "extended" \in p => op # "lwu"
      /\ "flat" \in p => "flat" \in promise[rd]
  BY DEF LoadPromised, Only
<1>4. Assigned(rd, r, e, p)
  BY <1>1
<1> HIDE DEF m, n, p
<1>5. /\ r \in Double /\ r.hi = rc[rd].hi /\ e \in Double
      /\ op # "lh" /\ m.lo = n.lo => r.lo = e.lo
      /\ op # "lwu" => e = Extend(e.lo)
  <2>1. CASE op = "lw"
    <3>1. r = [rc[rd] EXCEPT !.lo = m.lo] /\ e = Extend(n.lo)
      BY <2>1 DEF LoadMacro, ProcessorLoad
    <3>2. r \in Double /\ r.hi = rc[rd].hi /\ r.lo = m.lo
      BY <3>1, <1>2 DEF Double
    <3> QED BY <3>1, <3>2, <1>2, ExtendIs
  <2>2. CASE op = "lwu"
    <3>1. r = [rc[rd] EXCEPT !.lo = m.lo] /\ e = [n EXCEPT !.hi = 0]
      BY <2>2 DEF LoadMacro, ProcessorLoad
    <3> QED BY <2>2, <3>1, <1>2, WordSize DEF Double
  <2>3. CASE op = "lhu"
    <3>1. r = [rc[rd] EXCEPT !.lo = m.lo % Half] /\ e = [lo |-> n.lo % Half, hi |-> 0]
      BY <2>3 DEF LoadMacro, ProcessorLoad
    <3>2. m.lo % Half \in Word /\ n.lo % Half \in Word /\ n.lo % Half < M \div 2
      BY <1>2, HalfWords
    <3>3. e = Extend(n.lo % Half)
      BY <3>1, <3>2 DEF Extend
    <3>4. r \in Double /\ r.hi = rc[rd].hi /\ r.lo = m.lo % Half
      BY <3>1, <3>2, <1>2 DEF Double
    <3>5. e \in Double /\ e.lo = n.lo % Half /\ e = Extend(e.lo)
      BY <3>2, <3>3, ExtendIs
    <3> QED BY <3>4, <3>5
  <2>4. CASE op = "lh"
    <3>1. r = [rc[rd] EXCEPT !.lo = Narrow(rc[rd].lo, m.lo)] /\ e = ExtendHalf(n.lo)
      BY <2>4 DEF LoadMacro, ProcessorLoad
    <3>2. Narrow(rc[rd].lo, m.lo) \in Word /\ \E x \in Word : ExtendHalf(n.lo) = Extend(x)
      BY <1>2, HalfWords
    <3>3. r \in Double /\ r.hi = rc[rd].hi
      BY <3>1, <3>2, <1>2 DEF Double
    <3>4. PICK x \in Word : e = Extend(x)
      BY <3>1, <3>2
    <3>5. e \in Double /\ e = Extend(e.lo)
      BY <3>4, ExtendIs
    <3> QED BY <2>4, <3>3, <3>5
  <2> QED BY <2>1, <2>2, <2>3, <2>4 DEF LoadOps
<1> HIDE DEF r, e
<1>6. Keeps(r, e, p) /\ p \in SUBSET Flags
  BY <1>2, <1>3, <1>5 DEF Keeps, Flags
<1> QED BY <1>2, <1>4, <1>5, <1>6, AssignedKeeps

\* A signed multiplication leaves the halves of the product in lo and hi.
LEMMA MultiplyKeeps == ASSUME ScalarInv, Multiply PROVE ScalarInv'
<1> DEFINE product(r, rs, rt) == OfInt(SignedWord(r[rs].lo) * SignedWord(r[rt].lo))
<1>1. PICK rs \in General, rt \in General :
          LET lo   == product(rc, rs, rt).lo
              both == promise[rs] \cap promise[rt] \cap {"low"}
          IN  \E hi \in {Extend(lo).hi, product(rc, rs, rt).hi} :
                  LoHi(lo, hi, product(ee, rs, rt),
                       [lo |-> {"extended"} \cup both,
                        hi |-> {"extended"} \cup
                               (IF product(rc, rs, rt) = Extend(lo) THEN both ELSE {})])
  BY DEF Multiply
<1> DEFINE v == product(rc, rs, rt)
           e == product(ee, rs, rt)
           both == promise[rs] \cap promise[rt] \cap {"low"}
           p == [lo |-> {"extended"} \cup both,
                 hi |-> {"extended"} \cup (IF v = Extend(v.lo) THEN both ELSE {})]
<1>2. PICK hi \in {Extend(v.lo).hi, v.hi} : LoHi(v.lo, hi, e, p)
  BY <1>1
<1>3. /\ rs \in Place /\ rt \in Place
      /\ \A x \in Place : /\ SignedWord(rc[x].lo) \in Int /\ SignedWord(ee[x].lo) \in Int
                          /\ Keeps(rc[x], ee[x], promise[x])
  BY PlacesKeep, DoubleIs
<1>4. v \in Double /\ e \in Double
  BY <1>3, OfIntIs
<1>5. "low" \in both => v = e
  BY <1>3 DEF Keeps
<1> HIDE DEF v, e
<1>6. v.lo \in Word /\ v.hi \in Word /\ Extend(v.lo).hi \in Word
  BY <1>4, DoubleIs, ExtendIs
<1>7. hi \in Word /\ (v = Extend(v.lo) => hi = v.hi)
  BY <1>6
<1>8. /\ p.lo = {"extended"} \cup both
      /\ p.hi = {"extended"} \cup (IF v = Extend(v.lo) THEN both ELSE {})
      /\ both \subseteq {"low"}
  OBVIOUS
<1> HIDE DEF p, both
<1>9. p.lo \subseteq {"low", "extended"} /\ p.hi \subseteq {"low", "extended"}
      /\ ("low" \in p.lo => "low" \in both)
      /\ ("low" \in p.hi => "low" \in both /\ v = Extend(v.lo))
  BY <1>8
<1>10. ("low" \in p.lo => v.lo = e.lo) /\ ("low" \in p.hi => hi = e.hi)
  BY <1>5, <1>7, <1>9
<1> QED BY <1>2, <1>4, <1>6, <1>7, <1>9, <1>10, LoHiKeeps

\* So does an unsigned one.
LEMMA MultiplyUKeeps == ASSUME ScalarInv, MultiplyU PROVE ScalarInv'
<1> DEFINE product(r, rs, rt) == OfInt(r[rs].lo * r[rt].lo)
<1>1. PICK rs \in General, rt \in General :
          LET both == promise[rs] \cap promise[rt] \cap {"low"}
          IN  LoHi(product(rc, rs, rt).lo, 0, product(ee, rs, rt),
                   [lo |-> {"extended"} \cup both,
                    hi |-> {"extended"} \cup (IF product(rc, rs, rt).hi = 0 THEN both ELSE {})])
  BY DEF MultiplyU
<1> DEFINE v == product(rc, rs, rt)
           e == product(ee, rs, rt)
           both == promise[rs] \cap promise[rt] \cap {"low"}
           p == [lo |-> {"extended"} \cup both,
                 hi |-> {"extended"} \cup (IF v.hi = 0 THEN both ELSE {})]
<1>2. LoHi(v.lo, 0, e, p)
  BY <1>1
<1>3. /\ rs \in Place /\ rt \in Place
      /\ \A x \in Place : rc[x].lo \in Int /\ ee[x].lo \in Int /\ Keeps(rc[x], ee[x], promise[x])
  BY PlacesKeep, DoubleIs
<1>4. v \in Double /\ e \in Double
  BY <1>3, OfIntIs
<1>5. "low" \in both => v = e
  BY <1>3 DEF Keeps
<1> HIDE DEF v, e
<1>6. v.lo \in Word /\ 0 \in Word
  BY <1>4, DoubleIs, WordSize
<1>7. /\ p.lo = {"extended"} \cup both
      /\ p.hi = {"extended"} \cup (IF v.hi = 0 THEN both ELSE {})
      /\ both \subseteq {"low"}
  OBVIOUS
<1> HIDE DEF p, both
<1>8. p.lo \subseteq {"low", "extended"} /\ p.hi \subseteq {"low", "extended"}
      /\ ("low" \in p.lo => v.lo = e.lo) /\ ("low" \in p.hi => 0 = e.hi)
  BY <1>5, <1>7
<1> DEFINE hi == 0
<1>9. hi \in Word /\ ("low" \in p.hi => hi = e.hi) /\ LoHi(v.lo, hi, e, p)
  BY <1>2, <1>6, <1>8
<1> HIDE DEF hi
<1> QED BY <1>4, <1>6, <1>8, <1>9, LoHiKeeps

\* The quotient that C rounds to zero is an integer.
LEMMA QuotientIsInt == \A a \in Int, b \in Int \ {0} : Quotient(a, b) \in Int
<1> TAKE a \in Int, b \in Int \ {0}
<1> DEFINE x == IF a < 0 THEN -a ELSE a
           y == IF b < 0 THEN -b ELSE b
<1>1. x \in Int /\ y \in Nat \ {0}
  OBVIOUS
<1> HIDE DEF x, y
<1>2. x \div y \in Int
  BY <1>1, QuotientIs
<1>3. Quotient(a, b) = IF (a < 0) = (b < 0) THEN x \div y ELSE -(x \div y)
  BY DEF Quotient, x, y
<1> QED BY <1>2, <1>3

\* A division leaves quotient and remainder in lo and hi.
LEMMA DivideKeeps == ASSUME ScalarInv, Divide PROVE ScalarInv'
<1> DEFINE s(r, x) == SignedWord(r[x].lo)
           q(r, rs, rt) == IF s(r, rt) = 0 THEN 0 ELSE Quotient(s(r, rs), s(r, rt))
           left(r, rs, rt) == s(r, rs) - q(r, rs, rt) * s(r, rt)
<1>1. PICK rs \in General, rt \in General :
          LET told == {"extended"} \cup (promise[rs] \cap promise[rt] \cap {"low"})
          IN  LoHi(Low(q(rc, rs, rt)), Low(left(rc, rs, rt)),
                   [lo |-> Low(q(ee, rs, rt)), hi |-> Low(left(ee, rs, rt))],
                   [lo |-> told, hi |-> told])
  BY DEF Divide
<1>2. /\ rs \in Place /\ rt \in Place
      /\ \A x \in Place : s(rc, x) \in Int /\ s(ee, x) \in Int /\ Keeps(rc[x], ee[x], promise[x])
  BY PlacesKeep, DoubleIs
<1> DEFINE told == {"extended"} \cup (promise[rs] \cap promise[rt] \cap {"low"})
           lo == Low(q(rc, rs, rt))
           hi == Low(left(rc, rs, rt))
           e  == [lo |-> Low(q(ee, rs, rt)), hi |-> Low(left(ee, rs, rt))]
           p  == [lo |-> told, hi |-> told]
<1>3. "low" \in promise[rs] \cap promise[rt]
         => s(rc, rs) = s(ee, rs) /\ s(rc, rt) = s(ee, rt)
  BY <1>2 DEF Keeps
<1>4. ASSUME NEW a \in Int, NEW b \in Int
      PROVE  LET n == IF b = 0 THEN 0 ELSE Quotient(a, b)
             IN  Low(n) \in Word /\ Low(a - n * b) \in Word
  <2> DEFINE n == IF b = 0 THEN 0 ELSE Quotient(a, b)
  <2>1. n \in Int
    BY QuotientIsInt
  <2> HIDE DEF n
  <2>2. a - n * b \in Int
    BY <2>1
  <2>3. Low(n) \in Word /\ Low(a - n * b) \in Word
    BY <2>1, <2>2, LowIsWord
  <2> QED BY <2>3 DEF n
<1>5. lo \in Word /\ hi \in Word /\ e \in Double
  <2> HIDE DEF s
  <2>1. lo \in Word /\ hi \in Word /\ Low(q(ee, rs, rt)) \in Word /\ Low(left(ee, rs, rt)) \in Word
    BY <1>2, <1>4
  <2> QED BY <2>1 DEF Double
<1>6. LoHi(lo, hi, e, p)
  BY <1>1
<1>7. "low" \in told => lo = e.lo /\ hi = e.hi
  <2> HIDE DEF s
  <2> QED BY <1>3
<1> HIDE DEF lo, hi, e
<1>8. /\ p.lo \subseteq {"low", "extended"} /\ p.hi \subseteq {"low", "extended"}
      /\ ("low" \in p.lo => lo = e.lo) /\ ("low" \in p.hi => hi = e.hi)
  BY <1>7
<1> HIDE DEF p
<1> QED BY <1>5, <1>6, <1>8, LoHiKeeps

\* Every instruction keeps the invariant.
LEMMA ScalarNextPreserves == ScalarInv /\ [ScalarNext]_scalars => ScalarInv'
<1> SUFFICES ASSUME ScalarInv, [ScalarNext]_scalars PROVE ScalarInv'
  OBVIOUS
<1>1. CASE UNCHANGED scalars
  BY <1>1 DEF scalars, ScalarInv, ScalarTypeOK, PromisesKept
<1>2. CASE ScalarNext
  <2>1. MoveIf(TRUE) \/ MoveIf(FALSE) => ScalarInv'
    BY MoveIfKeeps
  <2> QED BY <1>2, <2>1, ComputeKeeps, MultiplyKeeps, MultiplyUKeeps, DivideKeeps, MoveFromKeeps,
             LoadKeeps, LoadDoubleKeeps, StoreWordKeeps, StoreDoubleKeeps DEF ScalarNext
<1> QED BY <1>1, <1>2

-----------------------------------------------------------------------------
(* What follows for the program. *)

\* What is promised holds and $zero reads as zero, after any instructions of any
\* program: the scalar macros of asm_macros.h beside the processor.
THEOREM ScalarInvariant == ScalarSpec => []ScalarInv
  BY ScalarInitEstablishes, ScalarNextPreserves, PTL DEF ScalarSpec

\* Registers and memory always hold words of Width bits, of both machines.
THEOREM ScalarTypeCorrect == ScalarSpec => []ScalarTypeOK
<1>1. ScalarInv => ScalarTypeOK
  BY DEF ScalarInv
<1> QED BY <1>1, ScalarInvariant, PTL

\* Whatever mixture of word and doubleword instructions has run, for words of any
\* width, what is promised of a register holds of it.
THEOREM PromisesAreKept == ScalarSpec => []PromisesKept
<1>1. ScalarInv => PromisesKept
  BY DEF ScalarInv
<1> QED BY <1>1, ScalarInvariant, PTL

\* The branch macros compare low words; on sign-extended words they decide as the
\* processor does.
THEOREM BranchesDecideAlike == ScalarSpec => []BranchesAgree
<1>1. ScalarInv => BranchesAgree
  <2> SUFFICES ASSUME ScalarInv, NEW x \in General, NEW y \in General,
                      {"low", "extended"} \subseteq promise[x]
               PROVE  /\ {"low", "extended"} \subseteq promise[y]
                            => (Equal(rc[x], rc[y]) <=> ee[x] = ee[y])
                      /\ Negative(rc[x]) <=> SignedDouble(ee[x]) < 0
    BY DEF BranchesAgree
  <2>1. /\ rc[x].lo = ee[x].lo /\ ee[x] = Extend(ee[x].lo) /\ ee[x].lo \in Word
        /\ {"low", "extended"} \subseteq promise[y] =>
               rc[y].lo = ee[y].lo /\ ee[y] = Extend(ee[y].lo)
    BY PlacesKeep DEF Keeps
  <2>2. SignedDouble(ee[x]) = SignedWord(rc[x].lo)
    BY <2>1, ExtendAsInt
  <2> QED BY <2>1, <2>2 DEF Equal, Negative
<1> QED BY <1>1, ScalarInvariant, PTL

\* The greatest word: it is -1.
LEMMA MinusOne ==
    /\ SignedWord(M - 1) = -1 /\ M - 1 \in Word /\ Low(-1) = M - 1
    /\ Extend(M - 1) = [lo |-> M - 1, hi |-> M - 1]
    /\ SignedDouble(Extend(M - 1)) = -1
    /\ Unsigned(Extend(M - 1)) = M * M - 1
<1>1. M \in Nat /\ M >= 4 /\ M = 2 * (M \div 2) /\ M - 1 \in Word /\ M - 1 >= M \div 2
  BY WordSize
<1>2. SignedWord(M - 1) = -1
  BY <1>1 DEF SignedWord
<1>3. Extend(M - 1) = [lo |-> M - 1, hi |-> M - 1]
  BY <1>1 DEF Extend
<1>4. OfInt(-1) = Extend(M - 1) /\ SignedDouble(Extend(M - 1)) = -1
  BY <1>1, <1>2, ExtendAsInt
<1>5. Low(-1) = M - 1
  <2>1. OfInt(-1).lo = M - 1
    BY <1>3, <1>4
  <2> QED BY <2>1, OfIntIs DEF Low
<1>6. Unsigned(Extend(M - 1)) = M * M - 1
  <2>1. Unsigned(Extend(M - 1)) = (M - 1) * M + (M - 1)
    BY <1>3 DEF Unsigned
  <2>2. (M - 1) * M = M * M - M /\ M * M \in Int
    BY <1>1, Z3
  <2> QED BY <1>1, <2>1, <2>2
<1> QED BY <1>1, <1>2, <1>3, <1>4, <1>5, <1>6

\* A shift by one.
LEMMA ByOne ==
    /\ 1 % Width = 1 /\ 2 ^ (1 % Width) = 2
    /\ 2 ^ (Width + (1 % Width)) = M * 2
    /\ [lo |-> 1, hi |-> 0] \in {[lo |-> n, hi |-> 0] : n \in 0 .. Width - 1}
<1>1. Width \in Nat /\ Width >= 2 /\ M \in Nat
  BY WordSize
<1>2. 1 % Width = 1
  BY <1>1
<1>3. 2 ^ 1 = 2
  <2>1. 0 \in 0 .. 2 * Width /\ 0 + 1 = 1
    BY <1>1
  <2>2. 2 ^ (0 + 1) = 2 * 2 ^ 0
    BY <2>1, PowersAssumption
  <2> QED BY <2>1, <2>2, PowersAssumption
<1>4. 2 ^ (Width + (1 % Width)) = M * 2 ^ (1 % Width)
  <2>1. 1 \in Word
    BY WordSize
  <2> DEFINE b == 1
  <2>2. 2 ^ (Width + (b % Width)) = M * 2 ^ (b % Width)
    <3> HIDE DEF b
    <3>1. b \in Word
      BY <2>1 DEF b
    <3> QED BY <3>1, Amounts
  <2> QED BY <2>2
<1>5. [lo |-> 1, hi |-> 0] \in {[lo |-> n, hi |-> 0] : n \in 0 .. Width - 1}
  BY <1>1
<1> QED BY <1>2, <1>3, <1>4, <1>5

\* -1 halved, as an unsigned word or doubleword and as a signed one.
LEMMA HalfOfMinusOne ==
    /\ (M - 1) \div 2 = M \div 2 - 1 /\ (-1) \div 2 = -1
    /\ (M * M - 1) \div (M * 2) = M \div 2 - 1 /\ (-1) \div (M * 2) = -1
<1> DEFINE h == M \div 2
<1>1. M \in Nat /\ M >= 4 /\ M = 2 * h /\ h \in Nat
  BY WordSize
<1> HIDE DEF h
<1>2. ASSUME NEW d \in Nat \ {0} PROVE (-1) \div d = -1
  <2> DEFINE q == -1
             r == d - 1
  <2>1. q \in Int /\ r \in 0 .. d - 1 /\ q * d + r = -1
    OBVIOUS
  <2>2. (q * d + r) \div d = q
    <3> HIDE DEF q, r
    <3> QED BY <2>1, OneQuotient
  <2> QED BY <2>1, <2>2
<1>3. (M - 1) \div 2 = h - 1
  BY <1>1
<1>4. (M * M - 1) \div (M * 2) = h - 1
  <2> DEFINE g == M * 2
             q == h - 1
             r == M * 2 - 1
  <2>1. g \in Nat \ {0} /\ q \in Int /\ r \in 0 .. g - 1
    BY <1>1
  <2>2. M * M - 1 = q * g + r
    BY <1>1, Z3
  <2> HIDE DEF q, r, g
  <2>3. (q * g + r) \div g = q
    BY <2>1, OneQuotient
  <2> QED BY <2>2, <2>3 DEF q, g
<1>5. 2 \in Nat \ {0} /\ M * 2 \in Nat \ {0}
  BY <1>1
<1>6. (-1) \div (M * 2) = -1
  <2> DEFINE g == M * 2
  <2>1. g \in Nat \ {0}
    BY <1>5
  <2> HIDE DEF g
  <2>2. (-1) \div g = -1
    BY <1>2, <2>1
  <2> QED BY <2>2 DEF g
<1>7. (-1) \div 2 = -1
  <2> DEFINE g == 2
  <2>1. g \in Nat \ {0}
    BY <1>5
  <2> HIDE DEF g
  <2>2. (-1) \div g = -1
    BY <1>2, <2>1
  <2> QED BY <2>2 DEF g
<1> QED BY <1>3, <1>4, <1>6, <1>7 DEF h

\* The instructions of whose low word nothing is promised.
LEMMA InexactAre == Inexact \subseteq {"sra", "srav", "slti", "dsrl32"}
  BY DEF Inexact, Computing, LowPromised, All, WordOps, DoubleOps, Truncating, Logical

\* Each of them goes wrong for -1.
LEMMA InexactDiffer ==
    ASSUME NEW op \in Inexact
    PROVE  \E b \in Operands(op) : MacroLow(op, Extend(M - 1), b) # Processor(op, Extend(M - 1), b).lo
<1> DEFINE a == Extend(M - 1)
           one == [lo |-> 1, hi |-> 0]
<1>1. /\ M \in Nat /\ M >= 4 /\ M \div 2 \in Nat /\ M = 2 * (M \div 2) /\ M - 1 \in Word
      /\ a = [lo |-> M - 1, hi |-> M - 1] /\ a.lo = M - 1 /\ one.lo = 1
  BY WordSize, MinusOne
<1>3. CASE op \in {"sra", "srav"}
  <2>1. one \in Operands(op)
    BY <1>3, ByOne DEF Operands, Shifts
  <2>2. MacroLow(op, a, one) = (M - 1) \div 2
    BY <1>1, <1>3, ByOne DEF MacroLow, WordOps, WordMacro, SraWord
  <2>3. Processor(op, a, one) = Extend(M - 1)
    <3>1. Processor(op, a, one) = Extend(SignedSra(M - 1, 1))
      BY <1>1, <1>3 DEF Processor, Extended
    <3>2. SignedSra(M - 1, 1) = M - 1
      BY MinusOne, ByOne, HalfOfMinusOne DEF SignedSra
    <3> QED BY <3>1, <3>2
  <2>4. MacroLow(op, a, one) # Processor(op, a, one).lo
    BY <1>1, <2>2, <2>3, HalfOfMinusOne
  <2> QED BY <2>1, <2>4
<1>4. CASE op = "slti"
  <2> DEFINE nought == Extend(0)
  <2>1. nought = OfInt(0) /\ nought.lo = 0
    BY ZeroIs
  <2>2. nought \in Operands(op)
    BY <1>4, WordSize DEF Operands, Shifts
  <2> HIDE DEF nought
  <2>3. MacroLow(op, a, nought) = 0
    <3>1. ~(M - 1 < 0)
      BY <1>1
    <3> QED BY <1>1, <1>4, <2>1, <3>1 DEF MacroLow, WordOps, WordMacro, SltuWord, Truth
  <2>4. Processor(op, a, nought).lo = 1
    <3>1. SignedDouble(nought) = 0
      BY <2>1, ZeroIs, WordSize DEF SignedDouble, SignedWord
    <3>2. SignedDouble(a) < SignedDouble(nought)
      BY <3>1, MinusOne
    <3>3. Processor(op, a, nought) = OfInt(Truth(SignedDouble(a) < SignedDouble(nought)))
      BY <1>4 DEF Processor
    <3>4. Truth(SignedDouble(a) < SignedDouble(nought)) = 1
      BY <3>2 DEF Truth
    <3>5. OfInt(Truth(TRUE)) = Extend(Truth(TRUE)) /\ Truth(TRUE) = 1
      BY TruthIs DEF Truth
    <3>6. OfInt(1) = Extend(1) /\ Extend(1).lo = 1
      BY <3>5, WordSize, ExtendIs
    <3> QED BY <3>3, <3>4, <3>6
  <2> QED BY <2>2, <2>3, <2>4
<1>5. CASE op = "dsrl32"
  <2>1. one \in Operands(op)
    BY <1>5, ByOne DEF Operands, Shifts
  <2>2. MacroLow(op, a, one) = M - 1
    <3>1. MacroLow(op, a, one) = DsraBy(Width, a, one).lo
      BY <1>5 DEF MacroLow, WordOps, DoubleMacro
    <3>2. DsraBy(Width, a, one) = OfInt((-1) \div (M * 2))
      BY <1>1, ByOne, MinusOne DEF DsraBy
    <3>3. OfInt(-1).lo = M - 1
      BY MinusOne, OfIntIs DEF Low
    <3> QED BY <3>1, <3>2, <3>3, HalfOfMinusOne
  <2>3. Processor(op, a, one).lo = M \div 2 - 1
    <3>1. Processor(op, a, one) = OfInt((M * M - 1) \div (M * 2))
      BY <1>1, <1>5, ByOne, MinusOne DEF Processor, DsrlBy
    <3>2. M \div 2 - 1 \in Word /\ M \div 2 - 1 \in Int
      BY <1>1 DEF Word
    <3>3. OfInt(M \div 2 - 1).lo = M \div 2 - 1
      BY <3>2, OfIntIs, LowOfWord
    <3> QED BY <3>1, <3>3, HalfOfMinusOne
  <2>4. M - 1 # M \div 2 - 1
    BY <1>1
  <2> QED BY <2>1, <2>2, <2>3, <2>4
<1> QED BY <1>3, <1>4, <1>5, InexactAre

\* A second operand is a sign-extended word, an amount too.
LEMMA OperandsExtend ==
    ASSUME NEW op, NEW b \in Operands(op)
    PROVE  b \in Double /\ b = Extend(b.lo)
<1>1. \E c \in Word : b = Extend(c)
  <2>1. CASE op \in Shifts \cup {"srav"}
    <3>1. PICK n \in 0 .. Width - 1 : b = [lo |-> n, hi |-> 0]
      BY <2>1 DEF Operands
    <3>2. n \in Word /\ n < M \div 2
      BY SmallWords
    <3> QED BY <3>1, <3>2 DEF Extend
  <2>2. CASE op \notin Shifts \cup {"srav"}
    BY <2>2 DEF Operands
  <2> QED BY <2>1, <2>2
<1> QED BY <1>1, ExtendIs

\* The other instructions make the low word that the processor makes.
LEMMA ExactAgree ==
    ASSUME NEW op \in Computing \ Inexact, NEW x \in Word, NEW b \in Operands(op)
    PROVE  MacroLow(op, Extend(x), b) = Processor(op, Extend(x), b).lo
<1> DEFINE a == Extend(x)
           i == [rc |-> b, ee |-> b, promise |-> All, zero |-> FALSE]
<1>1. a \in Double /\ a = Extend(a.lo) /\ b \in Double /\ b = Extend(b.lo)
  BY ExtendIs, OperandsExtend
<1> HIDE DEF a
<1>2. All \in SUBSET Flags /\ Keeps(a, a, All) /\ Keeps(b, b, All)
  BY <1>1 DEF All, Flags, Keeps
<1>3. /\ i \in SecondOperand /\ i.rc = b /\ i.ee = b /\ i.promise = All /\ i.zero = FALSE
  BY <1>1, <1>2 DEF SecondOperand
<1> HIDE DEF i
<1>4. LowPromised(op, All, All) /\ op \in WordOps \cup DoubleOps /\ op \notin {"sllv", "srlv"}
  BY DEF Computing, Inexact
<1>5. CASE op \in WordOps
  <2> DEFINE w == WordMacro(op, a.lo, b.lo)
  <2>1. op # "srav"
    BY <1>4 DEF LowPromised, Truncating, Logical
  <2>2. w \in Outcomes(op, a.lo, i.rc.lo)
    BY <1>3, <1>4, <2>1 DEF Outcomes
  <2>3. "low" \in WordPromised(op, All, i, {})
    BY <1>3, <1>4 DEF WordPromised, Promised, Only
  <2> HIDE DEF w
  <2>4. Keeps([a EXCEPT !.lo = w], Processor(op, a, b), WordPromised(op, All, i, {}))
    <3>1. {} \in SUBSET Flags /\ ("flat" \in {} => a.hi = 0)
      OBVIOUS
    <3>2. Keeps(i.rc, i.ee, i.promise)
      BY <1>2, <1>3
    <3>3. Keeps([a EXCEPT !.lo = w], Processor(op, a, i.ee), WordPromised(op, All, i, {}))
      BY <1>1, <1>2, <1>3, <1>5, <2>2, <3>1, <3>2, WordKept
    <3> QED BY <1>3, <3>3
  <2>5. [a EXCEPT !.lo = w].lo = w
    BY <1>1 DEF Double
  <2>6. w = Processor(op, a, b).lo
    BY <2>3, <2>4, <2>5 DEF Keeps
  <2> QED BY <1>5, <2>6 DEF MacroLow, w, a
<1>6. CASE op \notin WordOps
  <2>1. op \in DoubleOps
    BY <1>4, <1>6
  <2>2. "low" \in DoublePromised(op, All, i)
    BY <1>3, <1>4 DEF DoublePromised, Promised, Only
  <2>3. Keeps(i.rc, i.ee, i.promise) /\ (i.zero => i.ee = OfInt(0)) /\ i.rc = i.ee
    BY <1>2, <1>3
  <2>4. Keeps(DoubleMacro(op, a, i.rc), Processor(op, a, i.ee), DoublePromised(op, All, i))
    BY <1>1, <1>2, <1>3, <2>1, <2>3, DoubleKept
  <2>5. DoubleMacro(op, a, b).lo = Processor(op, a, b).lo
    BY <1>3, <2>2, <2>4 DEF Keeps
  <2> QED BY <1>6, <2>5 DEF MacroLow, a
<1> QED BY <1>5, <1>6

\* Of the instructions that compute, sra, srav, slti and dsrl32, of whose low word
\* nothing is promised, can make another one than the processor, and no other can,
\* on sign-extended words of any width.
THEOREM ExactlyThese == ScalarSpec => []ExactlyPromised
<1>1. ExactlyPromised
  <2> SUFFICES ASSUME NEW op \in Computing
               PROVE  op \in Inexact <=> \E x \in Word : \E b \in Operands(op) :
                          MacroLow(op, Extend(x), b) # Processor(op, Extend(x), b).lo
    BY DEF ExactlyPromised
  <2>1. op \in Inexact => \E x \in Word : \E b \in Operands(op) :
            MacroLow(op, Extend(x), b) # Processor(op, Extend(x), b).lo
    BY InexactDiffer, MinusOne
  <2>2. op \notin Inexact => \A x \in Word : \A b \in Operands(op) :
            MacroLow(op, Extend(x), b) = Processor(op, Extend(x), b).lo
    BY ExactAgree
  <2> QED BY <2>1, <2>2
<1> QED BY <1>1, PTL
=============================================================================
