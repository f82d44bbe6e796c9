------------------------------ MODULE MCEmitter ------------------------------
(* Instances of Emitter: every well-formed function of N instructions over a  *)
(* few operations.  A register file is a counter modulo three and a function  *)
(* pointer.                                                                   *)
EXTENDS Emitter, Sequences

CONSTANTS Kinds, Ops \* the kinds of instruction tried, the plain operations

MCReg == [v : 0 .. 2, p : {"f", "g"}]
MCArg == {"inc", "swap", "f", "g", "zero", "entry", "patch"}

MCExec(a, r) == CASE a = "inc"   -> [r EXCEPT !.v = (@ + 1) % 3]
                  [] a = "swap"  -> [r EXCEPT !.p = IF @ = "f" THEN "g" ELSE "f"]
                  [] a = "f"     -> [r EXCEPT !.v = 0]
                  [] a = "g"     -> [r EXCEPT !.v = (2 * @) % 3]
                  [] a = "patch" -> [r EXCEPT !.v = (@ + 2) % 3]
                  [] OTHER       -> r
MCHolds(a, r) == r.v = 0
MCPointee(r)  == r.p
MCLeads(a, r) == IF a = "zero" THEN N ELSE r.v \* ra, or a register with a table's entry
MCV0(r)       == r.v
MCTyped(v)    == v % 2 \* a return type narrower than v0

Instrs ==
    {x \in [kind : Kinds, to : Index, arg : {"inc", "swap", "f", "zero", "entry"}] :
        CASE x.kind = "plain"             -> x.to = 0 /\ x.arg \in Ops
          [] x.kind \in {"jal", "j"}      -> x.to = 0 /\ x.arg = "f"
          [] x.kind = "jalr"              -> x.to = 0 /\ x.arg = "zero"
          [] x.kind = "jr"                -> x.to = 0 /\ x.arg \in {"zero", "entry"}
          [] OTHER                        -> x.arg = "zero"}

PlainOnes == {x \in Instrs : x.kind = "plain"}
Controls  == Instrs \ PlainOnes

\* Function bodies of n instructions, every delay slot in place.
Bodies[n \in 0 .. N] ==
    IF n = 0 THEN {<<>>}
    ELSE {b \o <<x>> : b \in Bodies[n - 1], x \in PlainOnes} \cup
         (IF n = 1 THEN {}
          ELSE {b \o <<c, x>> : b \in Bodies[n - 2], c \in Controls, x \in PlainOnes})

MCProgram ==
    {p \in {[k \in Index |-> b[k + 1]] : b \in Bodies[N]} : WellFormed(p)}
NoPatches  == {{}}
OnePatch   == {{}} \cup {{k} : k \in 0 .. N - 3}
==============================================================================
