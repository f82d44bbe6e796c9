------------------------------- MODULE Scalars -------------------------------
(****************************************************************************)
(* Scalar macros of include/ps2ctx/asm_macros.h beside the processor whose  *)
(* instructions they stand for.  The recompiled program keeps a 64-bit      *)
(* register as two words; most macros assign its low word alone, where the  *)
(* processor replaces all 64 bits, mostly by the sign extension of a word.  *)
(* Both machines run the same instructions here, side by side, and          *)
(* "promise" says what may be relied on: in which sense the two agree on a  *)
(* register, as far as the instructions, not their operands, tell.          *)
(*                                                                          *)
(* Words are Width bits wide, immediates half as wide.  The upper 64 bits   *)
(* of registers and all of memory but one aligned doubleword are left out;  *)
(* mem is that doubleword.                                                  *)
(****************************************************************************)
EXTENDS Integers, Sequences

CONSTANTS
    Width,     \* bits of a word, 32
    General,   \* general registers
    ZeroReg,   \* the one of them that reads as zero on the processor
    Prepared,  \* what a general register may be at first
    Codes      \* what is run: sequences of sets of instructions to choose from

ASSUME WidthAssumption == Width \in Nat \ {0, 1} /\ Width % 2 = 0
\* What ^ is, as far as it is used: the provers do not know it.
ASSUME PowersAssumption == /\ 2 ^ 0 = 1
                           /\ \A n \in 0 .. 2 * Width : 2 ^ n \in Nat /\ 2 ^ (n + 1) = 2 * 2 ^ n
ASSUME GeneralAssumption == ZeroReg \in General /\ {"lo", "hi", "mem"} \cap General = {}

M      == 2 ^ Width
Half   == 2 ^ (Width \div 2)
Word   == 0 .. M - 1
Double == [lo : Word, hi : Word]
Place  == General \cup {"lo", "hi", "mem"}

Low(n)       == n % M
SignedWord(w) == IF w < M \div 2 THEN w ELSE w - M
Extend(w)    == [lo |-> w, hi |-> IF w < M \div 2 THEN 0 ELSE M - 1]
Unsigned(d)  == d.hi * M + d.lo
SignedDouble(d) == SignedWord(d.hi) * M + d.lo
OfInt(n)     == [lo |-> n % M, hi |-> (n \div M) % M]
Truth(b)     == IF b THEN 1 ELSE 0

\* The bits of a word that are set, and the word from them.
Bits     == 0 .. Width - 1
Ones(w)  == {i \in Bits : (w \div 2 ^ i) % 2 = 1}
WordOf(S) == CHOOSE w \in Word : Ones(w) = S

-----------------------------------------------------------------------------
(* Word macros: what is assigned to the low word of rd, from the low words   *)
(* of rs and of rt or the immediate.                                         *)

\* Faulty: a sum that is not cut to a word.
AddWordWide(a, b) == a + b
AddWord(a, b) == Low(a + b)
SubWord(a, b) == Low(a - b)
AndWord(a, b) == WordOf(Ones(a) \cap Ones(b))
OrWord(a, b)  == WordOf(Ones(a) \cup Ones(b))
XorWord(a, b) == WordOf((Ones(a) \ Ones(b)) \cup (Ones(b) \ Ones(a)))
NorWord(a, b) == WordOf(Bits \ (Ones(a) \cup Ones(b)))
SllWord(a, b) == Low(a * 2 ^ (b % Width))
SrlWord(a, b) == a \div 2 ^ (b % Width)

\* Faulty: words are compared as unsigned ones.
SltWordUnsigned(a, b) == Truth(a < b)
SltWord(a, b) == Truth(SignedWord(a) < SignedWord(b))

SltuWord(a, b) == Truth(a < b)
LuiWord(a, b)  == Low(b * Half)

\* sra and srav shift an unsigned word; the processor shifts a signed one.
SignedSra(a, b) == Low(SignedWord(a) \div 2 ^ (b % Width))
SraWord(a, b)   == a \div 2 ^ (b % Width)

WordOps == {"addu", "subu", "and", "or", "xor", "nor", "sll", "srl", "sra",
            "sllv", "srlv", "srav", "slt", "sltu", "slti", "lui"}

WordMacro(op, a, b) ==
    CASE op = "addu" -> AddWord(a, b)
      [] op = "subu" -> SubWord(a, b)
      [] op = "and"  -> AndWord(a, b)
      [] op = "or"   -> OrWord(a, b)
      [] op = "xor"  -> XorWord(a, b)
      [] op = "nor"  -> NorWord(a, b)
      [] op \in {"sll", "sllv"}  -> SllWord(a, b)
      [] op \in {"srl", "srlv"}  -> SrlWord(a, b)
      [] op \in {"sra", "srav"}  -> SraWord(a, b)
      [] op = "slt"  -> SltWord(a, b)
      [] op \in {"sltu", "slti"} -> SltuWord(a, b)
      [] op = "lui"  -> LuiWord(a, b)

\* C leaves a shift by the width of the word or more undefined.
Outcomes(op, a, b) ==
    IF op \in {"sllv", "srlv", "srav"} /\ b >= Width THEN Word ELSE {WordMacro(op, a, b)}

-----------------------------------------------------------------------------
(* Doubleword macros: what is assigned to rd.  All right shifts are signed.  *)

DsllBy(n, a, b) == OfInt(Unsigned(a) * 2 ^ (n + (b.lo % Width)))
DsraBy(n, a, b) == OfInt(SignedDouble(a) \div 2 ^ (n + (b.lo % Width)))

DoubleOps == {"daddu", "dsubu", "dsll", "dsll32", "dsra", "dsra32", "dsrl", "dsrl32", "negu"}

DoubleMacro(op, a, b) ==
    CASE op = "daddu" -> OfInt(Unsigned(a) + Unsigned(b))
      [] op = "dsubu" -> OfInt(Unsigned(a) - Unsigned(b))
      [] op = "negu"  -> OfInt(-Unsigned(a))
      [] op = "dsll"  -> DsllBy(0, a, b)
      [] op = "dsll32" -> DsllBy(Width, a, b)
      [] op \in {"dsra", "dsrl"}     -> DsraBy(0, a, b)
      [] op \in {"dsra32", "dsrl32"} -> DsraBy(Width, a, b)

-----------------------------------------------------------------------------
(* The processor.  Word instructions sign-extend their results; logical and  *)
(* set-on-less-than instructions work on all 64 bits.                        *)

Halves(F(_, _), a, b)   == [lo |-> F(a.lo, b.lo), hi |-> F(a.hi, b.hi)]
Extended(F(_, _), a, b) == Extend(F(a.lo, b.lo))
DsrlBy(n, a, b)         == OfInt(Unsigned(a) \div 2 ^ (n + (b.lo % Width)))

Processor(op, a, b) ==
    CASE op = "addu" -> Extended(AddWord, a, b)
      [] op = "subu" -> Extended(SubWord, a, b)
      [] op = "and"  -> Halves(AndWord, a, b)
      [] op = "or"   -> Halves(OrWord, a, b)
      [] op = "xor"  -> Halves(XorWord, a, b)
      [] op = "nor"  -> Halves(NorWord, a, b)
      [] op \in {"sll", "sllv"} -> Extended(SllWord, a, b)
      [] op \in {"srl", "srlv"} -> Extended(SrlWord, a, b)
      [] op \in {"sra", "srav"} -> Extended(SignedSra, a, b)
      [] op \in {"slt", "slti"} -> OfInt(Truth(SignedDouble(a) < SignedDouble(b)))
      [] op = "sltu"  -> OfInt(Truth(Unsigned(a) < Unsigned(b)))
      [] op = "lui"   -> Extended(LuiWord, a, b)
      [] op = "daddu" -> OfInt(Unsigned(a) + Unsigned(b))
      [] op = "dsubu" -> OfInt(Unsigned(a) - Unsigned(b))
      [] op = "negu"  -> Extend(Low(-a.lo))
      [] op = "dsll"   -> DsllBy(0, a, b)
      [] op = "dsll32" -> DsllBy(Width, a, b)
      [] op = "dsra"   -> DsraBy(0, a, b)
      [] op = "dsra32" -> DsraBy(Width, a, b)
      [] op = "dsrl"   -> DsrlBy(0, a, b)
      [] op = "dsrl32" -> DsrlBy(Width, a, b)

-----------------------------------------------------------------------------
(* What two machines agree on: the low word; all 64 bits; that the           *)
(* processor's value is a sign-extended word; that the program's upper word  *)
(* is zero, as in the cleared context a thread starts with.                  *)

Flags == {"low", "all", "extended", "flat"}
All   == {"low", "all", "extended"}

\* r of the program and e of the processor are as promise p says.
Keeps(r, e, p) == /\ "low" \in p => r.lo = e.lo
                  /\ "all" \in p => r = e
                  /\ "extended" \in p => e = Extend(e.lo)
                  /\ "flat" \in p => r.hi = 0

ASSUME PreparedAssumption ==
    \A s \in Prepared : /\ s.rc \in Double /\ s.ee \in Double /\ s.promise \subseteq Flags
                       /\ Keeps(s.rc, s.ee, s.promise)

Logical    == {"and", "or", "xor", "nor"}
Truncating == {"addu", "subu", "sll", "srl", "lui", "daddu", "dsubu", "dsll", "negu"}

\* Of the result of op, when p and q are promised of its operands.
LowPromised(op, p, q) ==
    \/ op \in Truncating \cup Logical /\ "low" \in p \cap q
    \/ op \in {"slt", "sltu"} /\ {"low", "extended"} \subseteq p \cap q
    \/ op \in {"dsra", "dsra32", "dsrl"} /\ "all" \in p
    \/ op = "dsll32"

AllPromised(op, p, q) ==
    \/ op \in {"daddu", "dsubu", "dsll", "dsra", "dsra32"} /\ "all" \in p \cap q
    \/ op = "dsll32" /\ "low" \in p

ExtendedPromised(op, p, q) ==
    \/ op \in Logical /\ "extended" \in p \cap q
    \/ op \in (WordOps \ Logical) \cup {"dsra32", "negu"}

Only(flag, condition) == IF condition THEN {flag} ELSE {}

Promised(op, p, q) == Only("low", LowPromised(op, p, q)) \cup Only("all", AllPromised(op, p, q))
                      \cup Only("extended", ExtendedPromised(op, p, q))

VARIABLES
    rc,      \* the recompiled program's registers, and mem
    ee,      \* the processor's
    promise, \* what may be relied on, per register
    rest     \* the instructions still to be chosen

scalars == <<rc, ee, promise, rest>>

Clear == [rc |-> OfInt(0), ee |-> OfInt(0), promise |-> Flags]

ScalarInit ==
    /\ \E start \in [General \ {ZeroReg} -> Prepared] :
          LET Start(x) == IF x \in General \ {ZeroReg} THEN start[x] ELSE Clear
          IN  /\ rc = [x \in Place |-> Start(x).rc]
              /\ ee = [x \in Place |-> Start(x).ee]
              /\ promise = [x \in Place |-> Start(x).promise]
    /\ rest \in Codes

Choose(op) == rest # <<>> /\ op \in Head(rest) /\ rest' = Tail(rest)

\* An instruction assigns to rd.  $zero stands for one global the program does
\* write, and which the processor keeps at zero.
Assigned(rd, r, e, p) ==
    /\ rc' = [rc EXCEPT ![rd] = r]
    /\ ee' = [ee EXCEPT ![rd] = IF rd = ZeroReg THEN OfInt(0) ELSE e]
    /\ promise' = [promise EXCEPT ![rd] =
                      IF rd = ZeroReg THEN {"extended"} \cup (p \cap {"flat"}) ELSE p]

\* The second operand: a register or an immediate.
Register(x)  == [rc |-> rc[x], ee |-> ee[x], promise |-> promise[x], zero |-> x = ZeroReg]
Immediate(d) == [rc |-> d, ee |-> d, promise |-> All, zero |-> FALSE]

SignedImm == {Immediate(Extend(Low(n))) : n \in -(Half \div 2) .. Half \div 2 - 1}
PlainImm  == {Immediate([lo |-> n, hi |-> 0]) : n \in 0 .. Half - 1}
Amount    == {Immediate([lo |-> n, hi |-> 0]) : n \in 0 .. Width - 1}
GeneralRegisters == {Register(x) : x \in General}

Shifts == {"sll", "srl", "sra", "dsll", "dsll32", "dsra", "dsra32", "dsrl", "dsrl32"}

Immediates(op) ==
    IF op \in {"addu", "daddu", "sltu", "slti"} THEN SignedImm
    ELSE IF op \in {"and", "or", "xor", "lui"} THEN PlainImm
    ELSE IF op \in Shifts THEN Amount ELSE {}

Seconds(op) == Immediates(op) \cup
                   (IF op \in Shifts \cup {"slti", "lui"} THEN {} ELSE GeneralRegisters)

\* A shift by a register is as good as one by an immediate while the amount is
\* less than the width of a word.
WordPromised(op, p, b, old) ==
    (old \cap {"flat"}) \cup Promised(op, p, b.promise)
        \cup (IF op \in {"sllv", "srlv"} /\ b.rc.lo < Width THEN p \cap b.promise \cap {"low"} ELSE {})

ComputeWord(op, rd, rs, b) ==
    \E w \in Outcomes(op, rc[rs].lo, b.rc.lo) :
        Assigned(rd, [rc[rd] EXCEPT !.lo = w], Processor(op, ee[rs], b.ee),
                 WordPromised(op, promise[rs], b, promise[rd]))

\* daddu with $zero moves a register.
DoublePromised(op, p, b) ==
    IF op = "daddu" /\ b.zero /\ "all" \in b.promise THEN p ELSE Promised(op, p, b.promise)

ComputeDouble(op, rd, rs, b) ==
    Assigned(rd, DoubleMacro(op, rc[rs], b.rc), Processor(op, ee[rs], b.ee),
             DoublePromised(op, promise[rs], b))

Compute == \E op \in WordOps \cup DoubleOps :
    /\ Choose(op)
    /\ \E rd, rs \in General, b \in Seconds(op) :
          IF op \in WordOps THEN ComputeWord(op, rd, rs, b) ELSE ComputeDouble(op, rd, rs, b)

\* movz, if nonzero is FALSE, and movn.
MoveIf(nonzero) ==
    /\ Choose(IF nonzero THEN "movn" ELSE "movz")
    /\ \E rd, rs, rt \in General :
          Assigned(rd, IF (rc[rt].lo # 0) = nonzero THEN [rc[rd] EXCEPT !.lo = rc[rs].lo] ELSE rc[rd],
                   IF (ee[rt] # OfInt(0)) = nonzero THEN ee[rs] ELSE ee[rd],
                   (promise[rd] \cap {"flat"}) \cup
                       (promise[rs] \cap promise[rd] \cap {"extended"}) \cup
                       Only("low", /\ "low" \in promise[rs] \cap promise[rd]
                                   /\ {"low", "extended"} \subseteq promise[rt]))

-----------------------------------------------------------------------------
(* hi and lo.  Products are computed in 32 bits; an overflow of the signed   *)
(* one is undefined, and leaves hi as it comes from 32 bits or from 64.      *)

LoHi(lo, hi, e, p) ==
    /\ rc' = [rc EXCEPT !["lo"].lo = lo, !["hi"].lo = hi]
    /\ ee' = [ee EXCEPT !["lo"] = Extend(e.lo), !["hi"] = Extend(e.hi)]
    /\ promise' = [x \in Place |-> IF x \in {"lo", "hi"} THEN (promise[x] \cap {"flat"}) \cup p[x]
                                                         ELSE promise[x]]

\* The upper word is promised for products that fit in one.
Multiply ==
    /\ Choose("mult")
    /\ \E rs, rt \in General :
          LET product(r) == OfInt(SignedWord(r[rs].lo) * SignedWord(r[rt].lo))
              lo         == product(rc).lo
              both       == promise[rs] \cap promise[rt] \cap {"low"}
          IN  \E hi \in {Extend(lo).hi, product(rc).hi} :
                  LoHi(lo, hi, product(ee),
                       [lo |-> {"extended"} \cup both,
                        hi |-> {"extended"} \cup
                               (IF product(rc) = Extend(lo) THEN both ELSE {})])

MultiplyU ==
    /\ Choose("multu")
    /\ \E rs, rt \in General :
          LET product(r) == OfInt(r[rs].lo * r[rt].lo)
              both       == promise[rs] \cap promise[rt] \cap {"low"}
          IN  LoHi(product(rc).lo, 0, product(ee),
                   [lo |-> {"extended"} \cup both,
                    hi |-> {"extended"} \cup (IF product(rc).hi = 0 THEN both ELSE {})])

\* C and the processor both divide towards zero.
Quotient(a, b) == LET q == (IF a < 0 THEN -a ELSE a) \div (IF b < 0 THEN -b ELSE b)
                  IN  IF (a < 0) = (b < 0) THEN q ELSE -q

\* The program ends where it divides by zero, or the least integer by -1.
Divide ==
    /\ Choose("div")
    /\ \E rs, rt \in General :
          LET a(r)  == SignedWord(r[rs].lo)
              b(r)  == SignedWord(r[rt].lo)
              q(r)  == IF b(r) = 0 THEN 0 ELSE Quotient(a(r), b(r))
              told  == {"extended"} \cup (promise[rs] \cap promise[rt] \cap {"low"})
          IN  /\ b(rc) # 0 /\ ~(b(rc) = -1 /\ a(rc) = -(M \div 2))
              /\ LoHi(Low(q(rc)), Low(a(rc) - q(rc) * b(rc)),
                      [lo |-> Low(q(ee)), hi |-> Low(a(ee) - q(ee) * b(ee))],
                      [lo |-> told, hi |-> told])

\* With $zero for rd, ee_registers[0] is written, which none of the macros here
\* reads: they read and write ZeroRegister for $zero.
MoveFrom == \E x \in {"lo", "hi"}, rd \in General :
    /\ Choose(IF x = "lo" THEN "mflo" ELSE "mfhi")
    /\ IF rd = ZeroReg THEN UNCHANGED <<rc, ee, promise>>
                       ELSE Assigned(rd, rc[x], ee[x], promise[x])

-----------------------------------------------------------------------------
(* Loads and stores of mem.                                                  *)

\* lh assigns no more of the register than it loads.
Narrow(old, new) == (old \div Half) * Half + (new % Half)
ExtendHalf(w)    == Extend(IF w % Half < Half \div 2 THEN w % Half ELSE M - Half + (w % Half))

LoadOps == {"lw", "lwu", "lhu", "lh"}

LoadMacro(op, old, m) ==
    CASE op \in {"lw", "lwu"} -> [old EXCEPT !.lo = m.lo]
      [] op = "lhu" -> [old EXCEPT !.lo = m.lo % Half]
      [] op = "lh"  -> [old EXCEPT !.lo = Narrow(@, m.lo)]

ProcessorLoad(op, m) ==
    CASE op = "lw"  -> Extend(m.lo)
      [] op = "lwu" -> [m EXCEPT !.hi = 0]
      [] op = "lhu" -> [lo |-> m.lo % Half, hi |-> 0]
      [] op = "lh"  -> ExtendHalf(m.lo)

\* Of what was loaded from where p is promised.
LoadPromised(op, p) == Only("extended", op # "lwu") \cup Only("low", op # "lh" /\ "low" \in p)

Load(op) ==
    /\ Choose(op)
    /\ \E rd \in General \ {ZeroReg} :
          Assigned(rd, LoadMacro(op, rc[rd], rc["mem"]), ProcessorLoad(op, ee["mem"]),
                   LoadPromised(op, promise["mem"]) \cup (promise[rd] \cap {"flat"}))

LoadDouble ==
    /\ Choose("ld")
    /\ \E rd \in General \ {ZeroReg} : Assigned(rd, rc["mem"], ee["mem"], promise["mem"])

StoreWord ==
    /\ Choose("sw")
    /\ \E rt \in General :
          Assigned("mem", [rc["mem"] EXCEPT !.lo = rc[rt].lo], [ee["mem"] EXCEPT !.lo = ee[rt].lo],
                   (promise[rt] \cap {"low"}) \cup (promise["mem"] \cap {"flat"})
                     \cup Only("all", "low" \in promise[rt] /\ "all" \in promise["mem"]))

\* What sd stores: the low word sign-extended, not the whole register.
WholeStored(d)  == d
DoubleStored(d) == Extend(d.lo)

\* sd uses all 64 bits of its base: one whose upper word is not zero is the
\* address of something else.
StoreDouble ==
    /\ Choose("sd")
    /\ \E rt, base \in General :
          Assigned("mem", IF rc[base].hi = 0 THEN DoubleStored(rc[rt]) ELSE rc["mem"], ee[rt],
                   IF "flat" \notin promise[base] THEN {}
                   ELSE IF {"low", "extended"} \subseteq promise[rt] THEN All
                   ELSE promise[rt] \cap {"low", "extended"})

ScalarNext == \/ Compute \/ MoveIf(TRUE) \/ MoveIf(FALSE)
              \/ Multiply \/ MultiplyU \/ Divide \/ MoveFrom
              \/ \E op \in LoadOps : Load(op)
              \/ LoadDouble \/ StoreWord \/ StoreDouble

ScalarSpec == ScalarInit /\ [][ScalarNext]_scalars

-----------------------------------------------------------------------------
(* Properties. *)

ScalarTypeOK == /\ rc \in [Place -> Double] /\ ee \in [Place -> Double]
                /\ promise \in [Place -> SUBSET Flags]

\* Whatever mixture of word and doubleword instructions has run, what is promised
\* of a register holds of it: recompiled code computes what the processor
\* computes wherever its instructions keep the low word.
PromisesKept == \A x \in Place : Keeps(rc[x], ee[x], promise[x])

\* Branches compare low words where the processor compares all 64 bits: they
\* decide alike on sign-extended words.
Equal(r, s) == r.lo = s.lo

\* Faulty: an off-by-one at the least integer.
NegativeButLeast(r) == r.lo > M \div 2
Negative(r) == SignedWord(r.lo) < 0

BranchesAgree ==
    \A x, y \in General :
        LET words(z) == {"low", "extended"} \subseteq promise[z]
        IN  /\ words(x) /\ words(y) => (Equal(rc[x], rc[y]) <=> ee[x] = ee[y])
            /\ words(x) => (Negative(rc[x]) <=> SignedDouble(ee[x]) < 0)

\* Of the instructions that compute, those of whose low word nothing is promised,
\* whatever their operands.  Shifts by a register promise something where the
\* amount is small.
Computing == (WordOps \cup DoubleOps) \ {"sllv", "srlv"}
Inexact   == {op \in Computing : ~LowPromised(op, All, All)}

MacroLow(op, a, b) == IF op \in WordOps THEN WordMacro(op, a.lo, b.lo) ELSE DoubleMacro(op, a, b).lo

\* A second operand: an amount of a shift, or a sign-extended word.
Operands(op) == IF op \in Shifts \cup {"srav"} THEN {[lo |-> n, hi |-> 0] : n \in 0 .. Width - 1}
                                             ELSE {Extend(c) : c \in Word}

\* On operands that are sign-extended words and that the two machines agree on in
\* every bit, an instruction still to be run can leave them different low words
\* exactly if nothing is promised of the low word: the promises are right, and
\* callers cannot be promised more.
ExactlyPromised ==
    \A j \in DOMAIN rest : \A op \in rest[j] \cap Computing :
        op \in Inexact <=> \E x \in Word : \E b \in Operands(op) :
                              MacroLow(op, Extend(x), b) # Processor(op, Extend(x), b).lo
=============================================================================
