------------------------------- MODULE Emitter -------------------------------
(****************************************************************************)
(* cemitter_process_split and process_instruction of src/ps2_rc/cemitter.c, *)
(* and the C they write for one function, as the macros of                  *)
(* include/ps2ctx/asm_macros.h make it run.  First the emission loop turns  *)
(* the instructions of a split into statements and labels; then those       *)
(* statements execute.  Registers are abstract: constants say what an       *)
(* instruction does to them.  Kinds of instruction:                         *)
(*   plain   any instruction without a delay slot, syscall included         *)
(*   branch  beq bne blez bgtz bltz bgez bnez beqz                          *)
(*   likely  beql bnel           alias   blezl bgtzl bltzl bgezl            *)
(*   always  b                   jal, j, jalr, jr  the jumps                *)
(* Calls are resolved: arg is the callee find_jump_to_function found, for j *)
(* too, which is emitted as a call.                                         *)
(****************************************************************************)
EXTENDS Integers

CONSTANTS
    N,           \* instruction_count of the split
    Arg,         \* operands, opaque; patched code and callees among them
    PatchCode,   \* operand of the statement a patch puts in place
    NoCall,
    Reg,         \* states of the register file
    Program,     \* the functions compiled
    PatchSets,   \* the patches the splits file may hold: sets of line indices
    Value,       \* what a C function can return
    Exec(_, _), Holds(_, _), Pointee(_), Leads(_, _),
    V0(_),       \* the low word of v0, in a state of the registers
    Typed(_)     \* that word, cast to the return type of the signature

Index == 0 .. N - 1

BranchKind == {"branch", "likely", "alias", "always"}
JumpKind   == {"jal", "j", "jalr", "jr"}
Kind       == {"plain"} \cup BranchKind \cup JumpKind
Instr      == [kind : Kind, to : Index, arg : Arg]

\* What a program looks like once its patched lines are plain C statements.
Patched(p, lines) ==
    [k \in Index |-> IF k \in lines
                     THEN [kind |-> "plain", to |-> 0, arg |-> PatchCode] ELSE p[k]]

SlotOf(p, k) == k + 1 \in Index /\ p[k + 1].kind = "plain"

\* Functions a compiler produces: a delay slot is inside the function and holds
\* no jump; control never runs past the end.  The rest is what the emitter
\* takes for granted, and a compiler does not promise: no branch into the slot
\* of a jump, no write to the target register of jalr in its slot, a tail call
\* only at the very end, and no jr but the function's return, so no switch
\* that jumps through a table.
WellFormed(p) ==
    /\ \A k \in Index : p[k].kind # "plain" => SlotOf(p, k)
    /\ p[N - 1].kind = "plain" /\ p[N - 2].kind \in {"always", "j", "jr"}
    /\ \A k, b \in Index :
          p[b].kind \in BranchKind /\ p[b].to = k + 1 =>
              p[k].kind \notin JumpKind /\ k # N - 2
    /\ \A k \in Index :
          /\ p[k].kind = "j" => k = N - 2
          /\ p[k].kind = "jalr" =>
                \A r \in Reg : Pointee(Exec(p[k + 1].arg, r)) = Pointee(r)
          /\ p[k].kind = "jr" => \A r \in Reg : Leads(p[k].arg, r) = N

\* A patch in the delay slot of an instruction that is not patched itself is
\* never looked at.
Visible(p, lines) ==
    \A k \in Index : p[k].kind # "plain" /\ k \notin lines => k + 1 \notin lines

ASSUME SizeAssumption == N \in Nat /\ N > 1
ASSUME ArgAssumption  == PatchCode \in Arg /\ NoCall \notin Arg
ASSUME RegAssumption  == \A r \in Reg : /\ Pointee(r) \in Arg /\ Typed(V0(r)) \in Value
                                        /\ \A a \in Arg : Exec(a, r) \in Reg
ASSUME ProgramAssumption ==
    /\ Program \subseteq [Index -> Instr] /\ PatchSets \subseteq SUBSET Index
    /\ \A p \in Program, lines \in PatchSets :
          Visible(p, lines) => WellFormed(Patched(p, lines))

VARIABLES
    prog, patches, \* the split: its instructions, the lines it patches
    valued,        \* the signature has a return type other than void
    i,             \* process_split's loop index
    code,          \* per line: the statement written there
    labels,        \* per line: how many times the label branch_<line> was written
    regs,          \* ctx, once the emitted function runs
    at,            \* where it is: a line and a place in its statement
    result         \* what it returns to its caller

split   == <<prog, patches, valued>>
emitted == <<code, labels>>
vars    == <<split, i, emitted, regs, at, result>>

\* The statements: what the macros expand to.
\*   falls    if (cond) { slot; goto to; } branch_slot: slot;
\*   nullify  if (cond) { slot; goto to; } if (false) { branch_slot: slot; }
\*   always   slot; goto to; branch_slot: slot;
Labelled  == {"falls", "nullify", "always"}
Statement == {"none", "plain", "patch", "call", "return"} \cup Labelled
Macro     == [branch |-> "falls", alias |-> "falls",
              likely |-> "nullify", always |-> "always"]
Place     == {"head", "taken", "label", "call", "left"}

Init == /\ prog \in Program
        /\ patches \in {lines \in PatchSets : Visible(prog, lines)}
        /\ valued \in BOOLEAN
        /\ i = 0
        /\ code = [k \in Index |-> "none"]
        /\ labels = [k \in Index |-> 0]
        /\ regs \in Reg
        /\ at = [line |-> 0, place |-> "head"]
        /\ result \in Value

-----------------------------------------------------------------------------
(* Emission. *)

\* The first pass over the function, which does not look at patches.
BranchIndices == {prog[k].to : k \in {b \in Index : prog[b].kind \in BranchKind}}

\* Faulty: the macro is given the branch's line for its slot's; two lines are
\* swallowed by every statement.
WriteLabelEarly(statement, lines) ==
    /\ code' = [code EXCEPT ![i] = statement]
    /\ labels' = [k \in Index |->
                    labels[k] + (IF k = i /\ i \in BranchIndices THEN 1 ELSE 0)
                              + (IF k = i /\ statement \in Labelled THEN 1 ELSE 0)]
    /\ i' = i + lines
    /\ UNCHANGED <<split, regs, at, result>>
WriteTwoLines(statement, lines) ==
    /\ code' = [code EXCEPT ![i] = statement]
    /\ i' = i + 2
    /\ UNCHANGED <<split, labels, regs, at, result>>

\* Write one statement for the line, and for the delay slot it swallows.
Write(statement, lines) ==
    /\ code' = [code EXCEPT ![i] = statement]
    /\ labels' = [k \in Index |->
                    labels[k] + (IF k = i /\ i \in BranchIndices THEN 1 ELSE 0)
                              + (IF k = i + 1 /\ statement \in Labelled THEN 1 ELSE 0)]
    /\ i' = i + lines
    /\ UNCHANGED <<split, regs, at, result>>

Emitting == i < N

EmitPatch  == Emitting /\ i \in patches /\ Write("patch", 1)
EmitPlain  == /\ Emitting /\ i \notin patches /\ prog[i].kind = "plain"
              /\ Write("plain", 1)
EmitBranch == /\ Emitting /\ i \notin patches /\ prog[i].kind \in BranchKind
              /\ Write(Macro[prog[i].kind], 2)
EmitCall   == /\ Emitting /\ i \notin patches /\ prog[i].kind \in {"jal", "j", "jalr"}
              /\ Write("call", 2)
\* Every jump through a register but jalr becomes a return, whatever its
\* register; valued chooses between __mips_asm_ret and __mips_asm_ret_value.
EmitReturn == /\ Emitting /\ i \notin patches /\ prog[i].kind = "jr"
              /\ Write("return", 2)

Emit == EmitPatch \/ EmitPlain \/ EmitBranch \/ EmitCall \/ EmitReturn

-----------------------------------------------------------------------------
(* The emitted function. *)

Line == at.line
Start(k) == [line |-> k, place |-> "head"]
Gone     == [line |-> N, place |-> "left"]

\* Where goto branch_k leads: a line of its own, or the macro before it.
Where(k) == IF code[k] # "none" THEN Start(k) ELSE [line |-> k - 1, place |-> "label"]

At(place, statements) == /\ ~Emitting
                         /\ Line < N /\ at.place = place /\ code[Line] \in statements

Do(arg)  == regs' = Exec(arg, regs)
DoSlot   == Do(prog[Line + 1].arg)
Go(p)    == at' = p /\ UNCHANGED <<split, i, emitted>>
Stay     == UNCHANGED result

RunPlain == /\ At("head", {"plain", "patch"})
            /\ Do(IF code[Line] = "patch" THEN PatchCode ELSE prog[Line].arg)
            /\ Go(Start(Line + 1)) /\ Stay

\* Faulty: every branch skips its slot when it is not taken.
TestNullifying ==
    /\ At("head", {"falls", "nullify"})
    /\ Go(IF Holds(prog[Line].arg, regs) THEN [at EXCEPT !.place = "taken"]
          ELSE Start(Line + 2))
    /\ UNCHANGED regs /\ Stay

Test == /\ At("head", {"falls", "nullify"})
        /\ Go(IF Holds(prog[Line].arg, regs) THEN [at EXCEPT !.place = "taken"]
              ELSE IF code[Line] = "falls" THEN [at EXCEPT !.place = "label"]
              ELSE Start(Line + 2))
        /\ UNCHANGED regs /\ Stay

TakeBranch == /\ \/ At("taken", {"falls", "nullify"})
                 \/ At("head", {"always"})
              /\ DoSlot
              /\ Go(Where(prog[Line].to)) /\ Stay

RunLabel == /\ At("label", Labelled)
            /\ DoSlot
            /\ Go(Start(Line + 2)) /\ Stay

SlotOfCall == /\ At("head", {"call"})
              /\ DoSlot
              /\ Go([at EXCEPT !.place = "call"]) /\ Stay

Callee == IF prog[Line].kind = "jalr" THEN Pointee(regs) ELSE prog[Line].arg

RunCall == /\ At("call", {"call"})
           /\ Do(Callee)
           /\ Go(Start(Line + 2)) /\ Stay

\* Faulty: the value is read before the slot runs.
RunReturnEarly == /\ At("head", {"return"})
                  /\ DoSlot
                  /\ result' = IF valued THEN Typed(V0(regs)) ELSE result
                  /\ Go(Gone)

\* The value is read after the slot has run.
RunReturn == /\ At("head", {"return"})
             /\ DoSlot
             /\ result' = IF valued THEN Typed(V0(regs')) ELSE result
             /\ Go(Gone)

\* After a tail call the function runs into its closing brace, where C leaves
\* the value of a function that has one undefined.
ReachBrace == /\ ~Emitting /\ at = Start(N)
              /\ result' \in Value
              /\ Go(Gone) /\ UNCHANGED regs

Left == ~Emitting /\ at = Gone /\ UNCHANGED vars

Run == \/ RunPlain \/ Test \/ TakeBranch \/ RunLabel
       \/ SlotOfCall \/ RunCall \/ RunReturn \/ ReachBrace \/ Left

Next == Emit \/ Run
Spec == Init /\ [][Next]_vars

-----------------------------------------------------------------------------
(* Properties. *)

TypeOK == /\ prog \in [Index -> Instr] /\ patches \in SUBSET Index /\ valued \in BOOLEAN
          /\ i \in 0 .. N
          /\ code \in [Index -> Statement]
          /\ labels \in [Index -> Nat]
          /\ regs \in Reg
          /\ at \in [line : 0 .. N, place : Place]
          /\ result \in Value

\* The emitted function compiles: every goto in it finds its label, and no
\* label is written twice, delay slots that are branched to included.
Gotos == {prog[k].to : k \in {b \in Index : code[b] \in Labelled}}
LabelsResolve == ~Emitting => /\ \A k \in Gotos : labels[k] = 1
                              /\ \A k \in Index : labels[k] < 2

\* A function with a return type hands its caller the word v0 holds when the
\* return's delay slot has run, as that type has it, however it was reached:
\* unless it ends in a tail call, whose value nobody returns.
HandsBackV0 == at = Gone /\ valued /\ prog[N - 2].kind # "j" => result = Typed(V0(regs))

\* Running the emitted function is running the patched machine code: same
\* registers at every instruction, same branches, same calls, same return.
MachinePc == CASE at.place = "label" -> Line + 1
               [] at.place = "call"  -> Line + 2
               [] OTHER              -> Line
Calling   == IF at.place = "call" THEN Callee ELSE NoCall

Machine == INSTANCE R5900 WITH prog <- Patched(prog, patches),
                               pc <- MachinePc, calling <- Calling

ImplementsR5900 == Machine!Spec

==============================================================================
