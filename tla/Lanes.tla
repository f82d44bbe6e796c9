-------------------------------- MODULE Lanes --------------------------------
(****************************************************************************)
(* The multimedia macros of include/ps2ctx/asm_macros.h that move lanes of  *)
(* 128-bit registers, or combine them lane by lane, beside the processor's  *)
(* instructions.  Each macro is a list of assignments to the lanes of rd,   *)
(* from the lowest up, one after the other: where rd is also a source, later *)
(* assignments read lanes that earlier ones have written.  Instructions     *)
(* have their sources in the order rs, rt, and the emitter passes operands  *)
(* on in that order; a macro may call the first of them rt.                 *)
(*                                                                          *)
(* A register is sixteen bytes, which a macro divides into lanes of one,    *)
(* two, four or eight.  Bytes are opaque, and so is what an operation makes *)
(* of two lanes: which lanes it is given is what the two sides differ in.   *)
(****************************************************************************)
EXTENDS Integers, Sequences

CONSTANTS
    Gpr, Zero,        \* the general registers, $zero among them
    Contents,         \* what the registers may hold at first
    Programs,         \* what is run: sequences of calls
    Combine(_, _, _), \* what an operation makes of a lane of rs and one of rt,
    Merge(_, _)       \* or of the two as a set, where their order is nothing to it

Byte == 0 .. 15

\* lo and hi are registers like the others, read but not written here.
Registers == Gpr \cup {"lo", "hi"}

-----------------------------------------------------------------------------
(* The macros.  first is the source that is declared first, and from[k] the *)
(* source, by the macro's names, and the lane of it, that lane k of rd is   *)
(* assigned.                                                                *)

Macro(name, width, first, from) ==
    [name |-> name, width |-> width, first |-> first, from |-> from]

\* Lane k comes from one operand or the other.
Alternate(k, l) == <<IF k % 2 = 0 THEN "rt" ELSE "rs", l>>

pextlw == Macro("pextl", 4, "rt", [k \in 0 .. 3  |-> Alternate(k, k \div 2)])
pextlh == Macro("pextl", 2, "rt", [k \in 0 .. 7  |-> Alternate(k, k \div 2)])
pextlb == Macro("pextl", 1, "rt", [k \in 0 .. 15 |-> Alternate(k, k \div 2)])

\* The word macro takes two lanes from each operand, but not alternately.
pextuw == Macro("pextu", 4, "rs", [k \in 0 .. 3  |-> <<IF k < 2 THEN "rt" ELSE "rs", 2 + k \div 2>>])
pextuh == Macro("pextu", 2, "rs", [k \in 0 .. 7  |-> Alternate(k, 4 + k \div 2)])

\* Faulty: byte lanes as the word macro takes them.
pextubAsWords == Macro("pextu", 1, "rs", [k \in 0 .. 15 |-> <<IF k < 8 THEN "rt" ELSE "rs", 8 + k \div 2>>])

pextub == Macro("pextu", 1, "rs", [k \in 0 .. 15 |-> Alternate(k, 8 + k \div 2)])

ppacw == Macro("ppac", 4, "rt", [k \in 0 .. 3  |-> IF k < 2 THEN <<"rt", 2 * k>> ELSE <<"rs", 2 * k - 4>>])
ppach == Macro("ppac", 2, "rt", [k \in 0 .. 7  |-> IF k < 4 THEN <<"rt", 2 * k>> ELSE <<"rs", 2 * k - 8>>])
ppacb == Macro("ppac", 1, "rt", [k \in 0 .. 15 |-> IF k < 8 THEN <<"rt", 2 * k>> ELSE <<"rs", 2 * k - 16>>])

pinth  == Macro("pinth", 2, "rs", [k \in 0 .. 7 |-> IF k % 2 = 0 THEN <<"rt", k \div 2>>
                                                           ELSE <<"rs", 4 + k \div 2>>])
pcpyld == Macro("pcpyld", 8, "rs", [k \in 0 .. 1 |-> IF k = 0 THEN <<"rt", 0>> ELSE <<"rs", 0>>])

\* Exchange the outer lanes, reverse, and rotate, within each half or all.
pexeh  == Macro("reorder", 2, "rs", [k \in 0 .. 7 |->
                <<"rt", IF k % 2 = 0 THEN 8 * (k \div 4) + 2 - k ELSE k>>])
prevh  == Macro("reorder", 2, "rs", [k \in 0 .. 7 |-> <<"rt", 8 * (k \div 4) + 3 - k>>])
pexew  == Macro("reorder", 4, "rs", [k \in 0 .. 3 |-> <<"rt", IF k % 2 = 0 THEN 2 - k ELSE k>>])
prot3w == Macro("reorder", 4, "rs", [k \in 0 .. 3 |-> <<"rt", IF k = 3 THEN 3 ELSE (k + 1) % 3>>])

pmfhllh == Macro("pmfhl", 2, "rs", [k \in 0 .. 7 |->
                <<IF k % 4 < 2 THEN "lo" ELSE "hi", 2 * (k % 2) + 4 * (k \div 4)>>])
pmfhluw == Macro("pmfhl", 4, "rs", [k \in 0 .. 3 |->
                <<IF k % 2 = 0 THEN "lo" ELSE "hi", 2 * (k \div 2) + 1>>])
pmfhllw == Macro("pmfhl", 4, "rs", [k \in 0 .. 3 |->
                <<IF k % 2 = 0 THEN "lo" ELSE "hi", 2 * (k \div 2)>>])
pmflo   == Macro("pmflo", 8, "rs", [k \in 0 .. 1 |-> <<"lo", k>>])
pmfhi   == Macro("pmfhi", 8, "rs", [k \in 0 .. 1 |-> <<"hi", k>>])

\* Those that combine lane k of both operands into lane k.
LaneWise(name, width, first, both) ==
    Macro(name, width, first, [k \in 0 .. 16 \div width - 1 |-> <<both, k>>])

SaturatedWords  == {LaneWise("paddsw", 4, "rt", "either"), LaneWise("psubsw", 4, "rt", "both")}
SaturatedHalves == {LaneWise("paddsh", 2, "rt", "either"), LaneWise("psubsh", 2, "rt", "both")}
UnsignedWords   == {LaneWise("padduw", 4, "rs", "either")}
UnsignedHalves  == {LaneWise("padduh", 2, "rs", "either"), LaneWise("psubuh", 2, "rs", "both")}
UnsignedBytes   == {LaneWise("paddub", 1, "rs", "either"), LaneWise("psubub", 1, "rs", "both")}
BitOps          == {LaneWise(op, 8, "rt", "either") : op \in {"pand", "pxor"}}

Moving    == {pextlw, pextlh, pextlb, pextuw, pextuh, pextub, ppacw, ppach, ppacb,
              pinth, pcpyld, pexeh, prevh, pexew, prot3w,
              pmfhllh, pmfhluw, pmfhllw, pmflo, pmfhi}
Combining == SaturatedWords \cup SaturatedHalves \cup UnsignedWords
             \cup UnsignedHalves \cup UnsignedBytes \cup BitOps
Macros    == Moving \cup Combining

\* A function from registers to functions from bytes.
RegisterFile(r) == r = [x \in Registers |-> [b \in Byte |-> r[x][b]]]

\* rs and rt are the instruction's.  rd may be any register but $zero, as
\* compilers leave it; for rs and rt any register will do where an instruction
\* does not have them.
Call == [macro : Macros, rd : Gpr \ {Zero}, rs : Gpr, rt : Gpr]

ASSUME RegistersAssumption == Zero \in Gpr /\ {"lo", "hi"} \cap Gpr = {}
ASSUME ContentsAssumption == \A r \in Contents : RegisterFile(r)
ASSUME ProgramsAssumption == Programs \subseteq Seq(Call)

-----------------------------------------------------------------------------
VARIABLES
    regs,     \* ctx: the registers, byte by byte
    program,  \* the calls, in order
    line,     \* how many of them have begun
    k,        \* the next lane of the last of these to be assigned
    before    \* the registers when it began; not in the code

vars == <<regs, program, line, k, before>>

Init ==
    /\ regs \in Contents /\ program \in Programs
    /\ line = 0 /\ k = 0 /\ before = regs

This  == program[line]
Lanes == DOMAIN This.macro.from

Running == line > 0 /\ k \in Lanes

\* Lane l of a register, and what lane l of call c is given from registers r.
Lane(reg, width, l) == [b \in 0 .. width - 1 |-> reg[width * l + b]]

\* Faulty: operands are bound in the order in which some macros declare theirs.
OperandFirstRt(c, o) == IF o = "rt" THEN c.rs ELSE IF o = "rs" THEN c.rt ELSE o

\* Operands are bound by position: the instruction's first source, rs, to the
\* one the macro declares first.
Operand(c, o) == IF o \notin {"rs", "rt"} THEN o ELSE IF o = c.macro.first THEN c.rs ELSE c.rt

Given(c, r, l) ==
    LET o       == c.macro.from[l][1]
        Read(x) == Lane(r[x], c.macro.width, c.macro.from[l][2])
        rs      == Read(Operand(c, "rs"))
        rt      == Read(Operand(c, "rt"))
    IN  IF o = "both" THEN Combine(c.macro.name, rs, rt)
        ELSE IF o = "either" THEN Merge(c.macro.name, {rs, rt})
        ELSE Read(Operand(c, o))

Begin ==
    /\ ~Running /\ line < Len(program)
    /\ line' = line + 1 /\ k' = 0 /\ before' = regs
    /\ UNCHANGED <<regs, program>>

\* Faulty: the lanes are assigned from the highest down.
AssignDown ==
    /\ Running
    /\ LET w == This.macro.width
           l == 16 \div w - 1 - k
       IN  regs' = [regs EXCEPT ![This.rd] = [b \in Byte |->
                       IF b \div w = l THEN Given(This, regs, l)[b % w] ELSE @[b]]]
    /\ k' = k + 1
    /\ UNCHANGED <<program, line, before>>

\* Faulty: the loop over the lanes runs once too often.
AssignPastEnd ==
    /\ line > 0 /\ k \in 0 .. 16 \div This.macro.width
    /\ LET w == This.macro.width
       IN  regs' = [regs EXCEPT ![This.rd] = [b \in Byte |->
                       IF b \div w = k THEN Given(This, regs, k)[b % w] ELSE @[b]]]
    /\ k' = k + 1
    /\ UNCHANGED <<program, line, before>>

\* One assignment of the macro.
Assign ==
    /\ Running
    /\ LET w == This.macro.width
       IN  regs' = [regs EXCEPT ![This.rd] = [b \in Byte |->
                       IF b \div w = k THEN Given(This, regs, k)[b % w] ELSE @[b]]]
    /\ k' = k + 1
    /\ UNCHANGED <<program, line, before>>

Next == Begin \/ Assign

Spec == Init /\ [][Next]_vars

-----------------------------------------------------------------------------
(* Properties. *)

TypeOK ==
    /\ RegisterFile(regs) /\ RegisterFile(before)
    /\ program \in Programs
    /\ line \in 0 .. Len(program)
    /\ line > 0 => k \in 0 .. 16 \div This.macro.width

\* The lanes the processor's instruction takes.  They are those of the macro, but
\* where the macro for the upper words takes two lanes twice.
Takes(m) == IF m = pextuw THEN [l \in 0 .. 3 |-> Alternate(l, 2 + l \div 2)] ELSE m.from

\* What lane l of its target is given by the processor, from its own rs and rt.
Meant(c, r, l) ==
    LET o       == Takes(c.macro)[l][1]
        Read(x) == Lane(r[x], c.macro.width, Takes(c.macro)[l][2])
    IN  CASE o = "both"   -> Combine(c.macro.name, Read(c.rs), Read(c.rt))
          [] o = "either" -> Merge(c.macro.name, {Read(c.rs), Read(c.rt)})
          [] o = "rs"     -> Read(c.rs)
          [] o = "rt"     -> Read(c.rt)
          [] OTHER        -> Read(o)

\* The processor reads all its operands before it writes.
AsProcessor(c, r) ==
    [r EXCEPT ![c.rd] = [b \in Byte |-> Meant(c, r, b \div c.macro.width)[b % c.macro.width]]]

\* Whether o, by the macro's names, may be the same register as rd.
Tolerates(name, o) ==
    \/ o = "rs" /\ name \notin {"pextl", "reorder", "ppac", "pcpyld"}
    \/ o = "rt" /\ name \notin {"pextl", "reorder", "pinth"}

Reads(m, o) == \E l \in DOMAIN m.from : m.from[l][1] \in {o, "both", "either"}

Safe(c) == \A o \in {"rs", "rt"} :
              c.rd = Operand(c, o) /\ Reads(c.macro, o) => Tolerates(c.macro.name, o)

\* Macros that take from one source what the instruction takes from the other:
\* they are declared the other way round, or, pextuw, written so.
Swaps(m) == m.name \in {"pextl", "ppac", "psubsw", "psubsh"} \/ m = pextuw

\* The instructions whose macros can be relied on.
Right(c) == Safe(c) /\ (c.rs = c.rt \/ ~Swaps(c.macro))

Done == line > 0 /\ ~Running

\* A macro that does not swap its sources, or has one register for both, and that
\* tolerates what overlaps, leaves in the registers what the processor leaves,
\* which reads before it writes; other registers are left alone.
InPlaceExact == Done /\ Right(This) => regs = AsProcessor(This, before)

\* All other instructions that move lanes go wrong, for two sources, if no two
\* bytes are alike, those of $zero excepted: sources are swapped or torn.
OthersWrong ==
    /\ Done /\ ~Right(This) /\ This.rs # This.rt /\ This.macro \in Moving
    /\ \A x, y \in Registers, a, b \in Byte :
          before[x][a] = before[y][b] => x = y /\ (a = b \/ x = Zero)
    => regs # AsProcessor(This, before)

Interleaves(p) ==
    /\ Len(p) = 2
    /\ <<p[1].macro, p[2].macro>> \in {<<pextlb, pextub>>, <<pextlh, pextuh>>}
    /\ <<p[1].rs, p[1].rt>> = <<p[2].rs, p[2].rt>>
    /\ p[1].rd # p[2].rd /\ p[1].rd \notin {p[1].rs, p[1].rt}

\* Interleaving the lower and then the upper halves of two registers, the second
\* time in place or not, keeps every lane of both in order; but of the lower
\* halves rs has the even lanes, of the upper ones rt: the macros declare their
\* sources in different orders.
NothingLost ==
    Done /\ line = 2 /\ Interleaves(program) =>
        \A l \in Lanes :
            LET w         == This.macro.width
                Was(x, h) == Lane(before[x], w, h + l \div 2)
                Is(x)     == Lane(regs[x], w, l)
            IN  /\ Is(program[1].rd) = Was(IF l % 2 = 0 THEN This.rs ELSE This.rt, 0)
                /\ Is(program[2].rd) = Was(IF l % 2 = 0 THEN This.rt ELSE This.rs, 8 \div w)
=============================================================================
