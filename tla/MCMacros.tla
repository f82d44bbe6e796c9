------------------------------ MODULE MCMacros ------------------------------
(* Instances of Lanes and of Scalars.  A run is of one or the other: the other *)
(* has no program.                                                             *)
EXTENDS Lanes, Scalars
LOCAL INSTANCE FiniteSetsExt

-----------------------------------------------------------------------------
(* Lanes: every macro, on every choice of three general registers, and every *)
(* pair that interleaves two registers of four.                              *)

MCGpr == {"zero", "v0", "v1", "a0"}

\* Bytes are numbers that tell where they are at first, or what they were made of.
MCContents ==
    LET Number(x) == CASE x = "zero" -> 0 [] x = "v0" -> 1 [] x = "v1" -> 2
                       [] x = "a0" -> 3 [] x = "lo" -> 4 [] x = "hi" -> 5
    IN  {[x \in Registers |-> [b \in Byte |-> IF x = Zero THEN 0 ELSE 16 * Number(x) + b]]}

\* Operations on lanes that go from byte to byte: one that is not symmetric, and a
\* sum.
MCCombine(op, a, b) == [x \in DOMAIN a |-> 128 + a[x] + 5 * b[x] + a[0]]
MCMerge(op, lanes)  == [x \in UNION {DOMAIN a : a \in lanes} |->
                           128 + MapThenSumSet(LAMBDA a : a[x] + a[0], lanes)]

MCSingle == {<<c>> : c \in {d \in Call : "a0" \notin {d.rd, d.rs, d.rt}}}

MCPairs ==
    LET Pair(low, up) == {p \in [1 .. 2 -> {c \in Call : c.macro \in {low, up}}] : Interleaves(p)}
    IN  Pair(pextlb, pextub) \cup Pair(pextlh, pextuh)

MCPrograms == MCSingle \cup MCPairs \cup {<<>>}

-----------------------------------------------------------------------------
(* Scalars: every instruction of the model, on registers that have been       *)
(* loaded, and some idioms of two.                                            *)

MCGeneral == {"zero", "v0", "v1"}

Loaded(r, e, p) == [rc |-> r, ee |-> e, promise |-> p]

\* By ld; by lw into a cleared register, or one that held a doubleword; by lwu.
MCPrepared ==
    UNION {{Loaded(d, d, {"low", "all"}),
            Loaded([d EXCEPT !.hi = 0], Extend(d.lo), {"low", "extended", "flat"}),
            Loaded(d, Extend(d.lo), {"low", "extended"}),
            Loaded(d, [d EXCEPT !.hi = 0], {"low"})} : d \in {e \in Double : e.hi \in {1, M - 1}}}

Instructions == WordOps \cup DoubleOps \cup LoadOps \cup
                    {"movz", "movn", "mult", "multu", "div", "mflo", "mfhi", "ld", "sw", "sd"}

MCCodes == {<<Instructions>>,
            <<{"sd"}, {"ld", "lw"}>>,
            <<{"dsll32"}, {"dsra32", "dsrl32"}>>,
            <<{"mult", "multu", "div"}, {"mflo", "mfhi"}>>,
            <<{"addu"}, {"sltu"}>>}

-----------------------------------------------------------------------------
NoLanes   == program = <<>> /\ Init
NoScalars == /\ rc = [x \in Place |-> OfInt(0)] /\ ee = rc
             /\ promise = [x \in Place |-> Flags] /\ rest = <<>>

MacrosInit == (Init /\ NoScalars) \/ (NoLanes /\ ScalarInit)
MacrosNext == (Next /\ UNCHANGED scalars) \/ (ScalarNext /\ UNCHANGED vars)
MacrosSpec == MacrosInit /\ [][MacrosNext]_<<vars, scalars>>
=============================================================================
