---------------------------- MODULE EmitterProofs ----------------------------
(****************************************************************************)
(* Proofs about Emitter, for functions of any length, any set of patches    *)
(* and any meaning of the instructions: the emitted function always refers  *)
(* to labels that exist once, and, as long as no branch is one of the       *)
(* aliased likely ones, running it is running the machine code of R5900.    *)
(*                                                                          *)
(* The inductive invariant has three parts: what the emission loop has      *)
(* written determines the instruction behind each statement (Faithful,      *)
(* Swallowed, Labelling), and what the running function knows at a place    *)
(* inside a statement (Placed).                                             *)
(****************************************************************************)
EXTENDS Emitter, TLAPS

TwoLines == {"call", "return"} \cup Labelled

\* Each statement was written for an instruction of its kind.
Faithful ==
    \A k \in Index :
        /\ code[k] # "none" => k < i
        /\ code[k] = "patch" => k \in patches
        /\ code[k] \notin {"none", "patch"} => k \notin patches
        /\ code[k] = "plain" => prog[k].kind = "plain"
        /\ code[k] = "call" => prog[k].kind \in {"jal", "j", "jalr"}
        /\ code[k] = "return" => prog[k].kind = "jr"
        /\ code[k] = "falls" => prog[k].kind \in {"branch", "alias"}
        /\ code[k] = "nullify" => prog[k].kind = "likely"
        /\ code[k] = "always" => prog[k].kind = "always"

\* The lines without a statement are those not reached yet and the delay slots.
Swallowed ==
    \A k \in Index :
        /\ code[k] \in TwoLines => k + 2 =< i /\ code[k + 1] = "none"
        /\ code[k] = "none" /\ k < i => k > 0 /\ code[k - 1] \in TwoLines

\* A label is written before a statement that is branched to, and by a branch
\* before its slot.
Labelling ==
    \A k \in Index :
        labels[k] = (IF code[k] # "none" /\ k \in BranchIndices THEN 1 ELSE 0)
                  + (IF k > 0 /\ code[k - 1] \in Labelled THEN 1 ELSE 0)

\* The function runs when all of it is emitted.  Inside a statement, the
\* statement has that place; where a branch is being taken its condition holds.
Placed ==
    /\ Emitting => at = Start(0)
    /\ at.place \notin {"head", "left"} => Line < N
    /\ at.place = "taken" => /\ code[Line] \in {"falls", "nullify"}
                             /\ Holds(prog[Line].arg, regs)
    /\ at.place = "label" => code[Line] \in Labelled
    /\ at.place = "call" => code[Line] = "call"

\* The function is one of those compiled.
Chosen == prog \in Program /\ patches \in PatchSets /\ Visible(prog, patches)

EmitterInv == TypeOK /\ Chosen /\ Faithful /\ Swallowed /\ Labelling /\ Placed

-----------------------------------------------------------------------------
(* What the functions a compiler produces look like, patches included. *)

\* A branch or jump that is not patched has an unpatched plain instruction in
\* its slot; a tail call is at the end, the slot of jalr keeps its target, and
\* the register of jr leads out of the function.
LEMMA SlotIsPlain ==
    ASSUME NEW p \in Program, NEW lines \in PatchSets, Visible(p, lines),
           NEW k \in Index, k \notin lines, p[k].kind # "plain"
    PROVE  /\ k + 1 \in Index /\ k + 1 \notin lines
           /\ p[k + 1].kind = "plain" /\ p[k + 1] \in Instr
           /\ p[k].kind = "j" => k = N - 2
           /\ p[k].kind = "jalr" =>
                 \A r \in Reg : Pointee(Exec(p[k + 1].arg, r)) = Pointee(r)
           /\ p[k].kind = "jr" => \A r \in Reg : Leads(p[k].arg, r) = N
<1> DEFINE q == Patched(p, lines)
<1>1. p \in [Index -> Instr] /\ WellFormed(q)
  BY ProgramAssumption
<1>2. q[k] = p[k]
  BY DEF Patched
<1>3. SlotOf(q, k)
  BY <1>1, <1>2 DEF WellFormed
<1>4. k + 1 \in Index /\ k + 1 \notin lines
  BY <1>3 DEF SlotOf, Visible
<1>5. q[k + 1] = p[k + 1] /\ p[k + 1] \in Instr
  BY <1>1, <1>4 DEF Patched
<1>6. p[k + 1].kind = "plain"
  BY <1>3, <1>5 DEF SlotOf
<1>7. /\ q[k].kind = "j" => k = N - 2
      /\ q[k].kind = "jalr" =>
            \A r \in Reg : Pointee(Exec(q[k + 1].arg, r)) = Pointee(r)
      /\ q[k].kind = "jr" => \A r \in Reg : Leads(q[k].arg, r) = N
  BY <1>1 DEF WellFormed
<1> QED
  BY <1>2, <1>4, <1>5, <1>6, <1>7

\* No branch leads into the slot of a jump.
LEMMA SlotOfJumpIsNoTarget ==
    ASSUME NEW p \in Program, NEW lines \in PatchSets, Visible(p, lines),
           NEW b \in Index \ lines, p[b].kind \in BranchKind,
           NEW k \in Index \ lines, p[b].to = k + 1
    PROVE  p[k].kind \notin JumpKind
<1> DEFINE q == Patched(p, lines)
<1>1. WellFormed(q)
  BY ProgramAssumption
<1>2. q[k] = p[k] /\ q[b] = p[b]
  BY DEF Patched
<1> QED
  BY <1>1, <1>2 DEF WellFormed

\* What the macro of each kind of branch is.
LEMMA MacroOf ==
    /\ Macro["branch"] = "falls" /\ Macro["alias"] = "falls"
    /\ Macro["likely"] = "nullify" /\ Macro["always"] = "always"
  BY DEF Macro

-----------------------------------------------------------------------------
(* The emission loop. *)

\* A statement s that fits the instruction of line k.
Fits(s, k) ==
    /\ s = "patch" => k \in patches
    /\ s # "patch" => k \notin patches
    /\ s = "plain" => prog[k].kind = "plain"
    /\ s = "call" => prog[k].kind \in {"jal", "j", "jalr"}
    /\ s = "return" => prog[k].kind = "jr"
    /\ s = "falls" => prog[k].kind \in {"branch", "alias"}
    /\ s = "nullify" => prog[k].kind = "likely"
    /\ s = "always" => prog[k].kind = "always"

Fitting(s, n) ==
    /\ Fits(s, i)
    /\ \/ s \in {"plain", "patch"} /\ n = 1
       \/ s \in TwoLines /\ n = 2

\* Every step of the emission loop writes one fitting statement for the line it
\* is at, and swallows the slot of a statement that has one.
LEMMA EmissionWrites ==
    ASSUME Emit
    PROVE  Emitting /\ \E s \in Statement, n \in {1, 2} : Fitting(s, n) /\ Write(s, n)
<1> USE DEF Fitting, Fits, TwoLines, Labelled, Statement
<1>1. CASE EmitPatch
  BY <1>1 DEF EmitPatch
<1>2. CASE EmitPlain
  BY <1>2 DEF EmitPlain
<1>3. CASE EmitBranch
  <2>1. /\ Emitting /\ i \notin patches /\ prog[i].kind \in BranchKind
        /\ Write(Macro[prog[i].kind], 2)
    BY <1>3 DEF EmitBranch
  <2>2. PICK s : s = Macro[prog[i].kind]
    OBVIOUS
  <2>3. Fitting(s, 2) /\ s \in Statement
    BY <2>1, <2>2, MacroOf DEF BranchKind
  <2> QED
    BY <2>1, <2>2, <2>3
<1>4. CASE EmitCall
  BY <1>4 DEF EmitCall
<1>5. CASE EmitReturn
  BY <1>5 DEF EmitReturn
<1> QED
  BY <1>1, <1>2, <1>3, <1>4, <1>5 DEF Emit

\* What is known of the statement being written.
LEMMA TwoLinesFit ==
    ASSUME TypeOK, Chosen, Emitting, NEW s, NEW n, Fitting(s, n)
    PROVE  /\ i \in Index /\ n \in {1, 2} /\ i + n =< N
           /\ n = 2 <=> s \in TwoLines
           /\ s # "none"
           /\ s \in Labelled => prog[i].kind \in BranchKind
<1>1. i \in Index
  BY SizeAssumption DEF TypeOK, Emitting, Index
<1>2. s \in TwoLines => i \notin patches /\ prog[i].kind # "plain"
  BY DEF Fitting, Fits, TwoLines, Labelled
<1>3. s \in TwoLines => i + 1 \in Index
  BY <1>1, <1>2, SlotIsPlain DEF Chosen
<1>4. i + n =< N
  BY <1>1, <1>3, SizeAssumption DEF Fitting, Index
<1> QED
  BY <1>1, <1>4 DEF Fitting, Fits, TwoLines, Labelled, BranchKind

\* Writing a fitting statement keeps the invariant.
LEMMA EmissionKeepsInv ==
    ASSUME EmitterInv, Emit
    PROVE  EmitterInv'
<1>1. PICK s \in Statement, n \in {1, 2} : Fitting(s, n) /\ Write(s, n)
  BY EmissionWrites
<1>2. Emitting
  BY EmissionWrites
<1>3. /\ i \in Index /\ i + n =< N
      /\ n = 2 <=> s \in TwoLines
      /\ s # "none"
  BY <1>1, <1>2, TwoLinesFit DEF EmitterInv
<1>4. /\ code' = [code EXCEPT ![i] = s]
      /\ i' = i + n
      /\ UNCHANGED <<prog, patches, valued, regs, at, result>>
      /\ labels' = [k \in Index |->
                      labels[k] + (IF k = i /\ i \in BranchIndices THEN 1 ELSE 0)
                                + (IF k = i + 1 /\ s \in Labelled THEN 1 ELSE 0)]
  BY <1>1 DEF Write, split
<1>5. code \in [Index -> Statement] /\ labels \in [Index -> Nat] /\ i \in 0 .. N
  BY DEF EmitterInv, TypeOK
<1>6. BranchIndices' = BranchIndices
  BY <1>4 DEF BranchIndices
<1>7. code'[i] = s /\ \A k \in Index \ {i} : code'[k] = code[k]
  BY <1>3, <1>4, <1>5
<1>8. \A k \in Index : code[k] # "none" => k < i
  BY DEF EmitterInv, Faithful
<1>a. TypeOK'
  <2>1. labels' \in [Index -> Nat]
    BY <1>4, <1>5
  <2>2. code' \in [Index -> Statement]
    BY <1>3, <1>4, <1>5
  <2>3. i' \in 0 .. N
    BY <1>3, <1>4, <1>5, SizeAssumption
  <2> QED
    BY <1>4, <2>1, <2>2, <2>3 DEF EmitterInv, TypeOK
<1>b. Chosen'
  BY <1>4 DEF EmitterInv, Chosen, Visible
<1>c. Faithful'
  <2> SUFFICES ASSUME NEW k \in Index
               PROVE  /\ code'[k] # "none" => k < i'
                      /\ code'[k] = "patch" => k \in patches
                      /\ code'[k] \notin {"none", "patch"} => k \notin patches
                      /\ code'[k] = "plain" => prog[k].kind = "plain"
                      /\ code'[k] = "call" => prog[k].kind \in {"jal", "j", "jalr"}
                      /\ code'[k] = "return" => prog[k].kind = "jr"
                      /\ code'[k] = "falls" => prog[k].kind \in {"branch", "alias"}
                      /\ code'[k] = "nullify" => prog[k].kind = "likely"
                      /\ code'[k] = "always" => prog[k].kind = "always"
    BY <1>4 DEF Faithful
  <2>1. CASE k = i
    BY <2>1, <1>1, <1>3, <1>4, <1>7 DEF Fitting, Fits, Index
  <2>2. CASE k # i
    <3>1. code[k] # "none" => k < i'
      BY <1>3, <1>4, <1>8 DEF Index
    <3> QED
      BY <2>2, <3>1, <1>7 DEF EmitterInv, Faithful
  <2> QED
    BY <2>1, <2>2
<1>d. Swallowed'
  <2>0. \A k \in Index : /\ code[k] \in TwoLines => k + 2 =< i /\ code[k + 1] = "none"
                         /\ code[k] = "none" /\ k < i => k > 0 /\ code[k - 1] \in TwoLines
    BY DEF EmitterInv, Swallowed
  <2> SUFFICES ASSUME NEW k \in Index
               PROVE  /\ code'[k] \in TwoLines => k + 2 =< i' /\ code'[k + 1] = "none"
                      /\ code'[k] = "none" /\ k < i' =>
                            k > 0 /\ code'[k - 1] \in TwoLines
    BY DEF Swallowed, TwoLines, Labelled
  <2>1. ASSUME code'[k] \in TwoLines
        PROVE  k + 2 =< i' /\ code'[k + 1] = "none"
    <3>1. CASE k = i
      <4>1. k + 1 \in Index /\ n = 2
        BY <2>1, <3>1, <1>3, <1>7, SizeAssumption DEF Index
      <4>2. code[k + 1] = "none"
        BY <4>1, <3>1, <1>8 DEF Index
      <4> QED
        BY <3>1, <4>1, <4>2, <1>3, <1>4, <1>7 DEF Index
    <3>2. CASE k # i
      <4>1. k + 2 =< i /\ code[k + 1] = "none"
        BY <2>1, <3>2, <1>7, <2>0
      <4>2. k + 1 \in Index /\ k + 1 # i
        BY <4>1, <1>5, SizeAssumption DEF Index
      <4> QED
        BY <4>1, <4>2, <1>3, <1>4, <1>7 DEF Index
    <3> QED
      BY <3>1, <3>2
  <2>2. ASSUME code'[k] = "none", k < i'
        PROVE  k > 0 /\ code'[k - 1] \in TwoLines
    <3>1. k # i /\ code[k] = "none"
      BY <2>2, <1>3, <1>7
    <3>2. CASE k < i
      <4>1. k > 0 /\ code[k - 1] \in TwoLines
        BY <3>1, <3>2, <2>0
      <4>2. k - 1 \in Index /\ k - 1 # i
        BY <4>1, <3>2, SizeAssumption, <1>3 DEF Index
      <4> QED
        BY <4>1, <4>2, <1>7
    <3>3. CASE k > i
      <4>1. k = i + 1 /\ n = 2
        BY <3>3, <2>2, <1>3, <1>4 DEF Index
      <4> QED
        BY <4>1, <1>3, <1>7 DEF Index
    <3> QED
      BY <3>1, <3>2, <3>3, <1>3 DEF Index
  <2> QED
    BY <2>1, <2>2
<1>e. Labelling'
  <2> SUFFICES ASSUME NEW k \in Index
               PROVE  labels'[k] =
                        (IF code'[k] # "none" /\ k \in BranchIndices THEN 1 ELSE 0)
                      + (IF k > 0 /\ code'[k - 1] \in Labelled THEN 1 ELSE 0)
    BY <1>6 DEF Labelling
  <2>1. labels[k] = (IF code[k] # "none" /\ k \in BranchIndices THEN 1 ELSE 0)
                  + (IF k > 0 /\ code[k - 1] \in Labelled THEN 1 ELSE 0)
    BY DEF EmitterInv, Labelling
  <2>2. labels'[k] = labels[k] + (IF k = i /\ i \in BranchIndices THEN 1 ELSE 0)
                               + (IF k = i + 1 /\ s \in Labelled THEN 1 ELSE 0)
    BY <1>4
  <2>3. code[i] = "none"
    BY <1>3, <1>8 DEF Index
  <2>4. CASE k = i
    <3>1. k - 1 \in Index => code'[k - 1] = code[k - 1]
      BY <2>4, <1>7, <1>3 DEF Index
    <3>2. k > 0 => k - 1 \in Index
      BY SizeAssumption DEF Index
    <3> QED
      BY <2>1, <2>2, <2>3, <2>4, <3>1, <3>2, <1>3, <1>7 DEF Index
  <2>5. CASE k = i + 1
    <3>1. k > 0 /\ code[k - 1] \notin Labelled /\ code'[k - 1] = s
      BY <2>3, <2>5, <1>3, <1>7 DEF Index, Labelled
    <3>2. code'[k] = code[k] /\ k # i
      BY <2>5, <1>3, <1>7 DEF Index
    <3> QED
      BY <2>1, <2>2, <2>5, <3>1, <3>2
  <2>6. CASE k # i /\ k # i + 1
    <3>1. k > 0 => k - 1 \in Index /\ k - 1 # i
      BY <2>6, <1>3, SizeAssumption DEF Index
    <3> QED
      BY <2>1, <2>2, <2>6, <3>1, <1>7
  <2> QED
    BY <2>4, <2>5, <2>6
<1>f. Placed'
  <2>1. at = Start(0)
    BY <1>2 DEF EmitterInv, Placed
  <2> QED
    BY <2>1, <1>4 DEF Placed, Start, Line
<1> QED
  BY <1>a, <1>b, <1>c, <1>d, <1>e, <1>f DEF EmitterInv

-----------------------------------------------------------------------------
(* The emitted function. *)

\* A statement of two lines stands for an unpatched branch or jump, and its
\* second line is the unpatched plain instruction in the slot.
LEMMA StatementOfTwoLines ==
    ASSUME EmitterInv, NEW k \in Index, code[k] \in TwoLines
    PROVE  /\ k \notin patches /\ prog[k].kind # "plain" /\ prog[k] \in Instr
           /\ k + 1 \in Index /\ k + 2 \in 0 .. N /\ k + 1 \notin patches
           /\ prog[k + 1].kind = "plain" /\ prog[k + 1].arg \in Arg
           /\ prog[k].kind = "j" => k = N - 2
           /\ prog[k].kind = "jalr" =>
                 \A r \in Reg : Pointee(Exec(prog[k + 1].arg, r)) = Pointee(r)
           /\ prog[k].kind = "jr" => \A r \in Reg : Leads(prog[k].arg, r) = N
<1>1. k \notin patches /\ prog[k].kind # "plain"
  BY DEF EmitterInv, Faithful, TwoLines, Labelled
<1>2. prog \in Program /\ patches \in PatchSets /\ Visible(prog, patches)
  BY DEF EmitterInv, Chosen
<1>3. prog \in [Index -> Instr]
  BY DEF EmitterInv, TypeOK
<1>4. /\ k + 1 \in Index /\ k + 1 \notin patches
      /\ prog[k + 1].kind = "plain" /\ prog[k + 1] \in Instr
      /\ prog[k].kind = "j" => k = N - 2
      /\ prog[k].kind = "jalr" =>
            \A r \in Reg : Pointee(Exec(prog[k + 1].arg, r)) = Pointee(r)
      /\ prog[k].kind = "jr" => \A r \in Reg : Leads(prog[k].arg, r) = N
  BY <1>1, <1>2, SlotIsPlain
<1>5. k + 2 \in 0 .. N /\ prog[k + 1].arg \in Arg
  BY <1>4, SizeAssumption DEF Index, Instr
<1> QED
  BY <1>1, <1>3, <1>4, <1>5

\* goto leads to the line of the branch target: to the statement there, or to
\* the label inside the branch whose delay slot it is.
LEMMA GotoLands ==
    ASSUME EmitterInv, ~Emitting, NEW k \in Index, code[k] \in Labelled
    PROVE  LET to == prog[k].to IN
           /\ to \in Index
           /\ code[to] # "none" => Where(to) = Start(to)
           /\ code[to] = "none" => /\ Where(to) = [line |-> to - 1, place |-> "label"]
                                   /\ to - 1 \in Index /\ code[to - 1] \in Labelled
<1> DEFINE to == prog[k].to
<1>1. k \notin patches /\ prog[k].kind \in BranchKind
  BY DEF EmitterInv, Faithful, Labelled, BranchKind
<1>2. to \in Index
  BY DEF EmitterInv, TypeOK, Instr
<1>3. ASSUME code[to] = "none"
      PROVE  to - 1 \in Index /\ code[to - 1] \in Labelled
  <2>1. to < i
    BY <1>2, SizeAssumption DEF EmitterInv, TypeOK, Emitting, Index
  <2>2. to > 0 /\ code[to - 1] \in TwoLines
    BY <1>2, <1>3, <2>1 DEF EmitterInv, Swallowed
  <2>3. to - 1 \in Index /\ to = (to - 1) + 1
    BY <1>2, <2>2, SizeAssumption DEF Index
  <2>4. to - 1 \notin patches
    BY <2>2, <2>3, StatementOfTwoLines
  <2>5. prog[to - 1].kind \notin JumpKind
    BY <1>1, <2>3, <2>4, SlotOfJumpIsNoTarget DEF EmitterInv, Chosen
  <2>6. code[to - 1] \notin {"call", "return"}
    BY <2>3, <2>5 DEF EmitterInv, Faithful, JumpKind
  <2> QED
    BY <2>2, <2>3, <2>6 DEF TwoLines
<1> QED
  BY <1>2, <1>3 DEF Where

\* The running function only changes registers and its own place.
LEMMA RunKeepsCode ==
    ASSUME Run
    PROVE  /\ ~Emitting /\ UNCHANGED <<prog, patches, valued, i, code, labels>>
           /\ RunReturn \/ ReachBrace \/ UNCHANGED result
  BY DEF Run, RunPlain, Test, TakeBranch, RunLabel, SlotOfCall, RunCall,
         RunReturn, ReachBrace, Left, Go, Stay, At, split, emitted, vars

\* What is to be shown of a step of the running function.
LEMMA RunSuffices ==
    ASSUME EmitterInv, ~Emitting, UNCHANGED <<prog, patches, valued, i, code, labels>>,
           regs' \in Reg, result' \in Value, NEW k \in 0 .. N, NEW p \in Place,
           at' = [line |-> k, place |-> p],
           p \notin {"head", "left"} => k < N,
           p = "taken" => code[k] \in {"falls", "nullify"} /\ Holds(prog[k].arg, regs'),
           p = "label" => code[k] \in Labelled,
           p = "call" => code[k] = "call"
    PROVE  EmitterInv'
<1>1. TypeOK'
  BY DEF EmitterInv, TypeOK
<1>2. Chosen' /\ Faithful' /\ Swallowed' /\ Labelling'
  BY DEF EmitterInv, Chosen, Visible, Faithful, Swallowed, Labelling,
         BranchIndices, TwoLines, Labelled
<1>3. at'.line = k /\ at'.place = p
  OBVIOUS
<1>4. Placed'
  BY <1>3 DEF Placed, Emitting, Line
<1> QED
  BY <1>1, <1>2, <1>4 DEF EmitterInv

\* What is known of the line the function is at.
LEMMA LineKnown ==
    ASSUME EmitterInv
    PROVE  /\ Line \in 0 .. N
           /\ Line < N => Line \in Index /\ prog[Line].arg \in Arg
           /\ at = [line |-> Line, place |-> at.place]
           /\ regs \in Reg
<1>1. at \in [line : 0 .. N, place : Place] /\ regs \in Reg
  BY DEF EmitterInv, TypeOK
<1>2. Line \in 0 .. N /\ (Line < N => Line \in Index)
  BY <1>1, SizeAssumption DEF Line, Index
<1>3. at = [line |-> Line, place |-> at.place]
  BY <1>1 DEF Line
<1>4. \A k \in Index : prog[k].arg \in Arg
  BY DEF EmitterInv, TypeOK, Instr
<1> QED
  BY <1>1, <1>2, <1>3, <1>4

\* Running a statement keeps the invariant.
LEMMA RunKeepsInv ==
    ASSUME EmitterInv, Run
    PROVE  EmitterInv'
<1>1. ~Emitting /\ UNCHANGED <<prog, patches, valued, i, code, labels>>
  BY RunKeepsCode
<1>2. /\ Line \in 0 .. N
      /\ Line < N => Line \in Index /\ prog[Line].arg \in Arg
      /\ at = [line |-> Line, place |-> at.place]
      /\ regs \in Reg
  BY LineKnown
<1>3. \A a \in Arg : Exec(a, regs) \in Reg
  BY <1>2, RegAssumption
<1>0. ~(RunReturn \/ ReachBrace) => result' \in Value
  BY RunKeepsCode DEF EmitterInv, TypeOK
<1>e. ASSUME regs' \in Reg, result' \in Value, at' = Gone
      PROVE  EmitterInv'
  <2>1. at' = [line |-> N, place |-> "left"] /\ "left" \in Place /\ N \in 0 .. N
    BY <1>e, SizeAssumption DEF Gone, Place
  <2> QED
    BY <2>1, <1>1, <1>e, RunSuffices
<1>4. ASSUME NEW k \in 0 .. N, at' = Start(k), regs' \in Reg, result' \in Value
      PROVE  EmitterInv'
  <2>1. at' = [line |-> k, place |-> "head"] /\ "head" \in Place
    BY <1>4 DEF Start, Place
  <2> QED
    BY <2>1, <1>1, <1>4, RunSuffices
<1>5. ASSUME Line \in Index, code[Line] \in TwoLines
      PROVE  Line + 1 \in Index /\ Line + 2 \in 0 .. N /\ prog[Line + 1].arg \in Arg
  BY <1>5, StatementOfTwoLines
<1>6. CASE RunPlain
  <2>0. result' \in Value
    BY <1>6, <1>0 DEF RunPlain, At, Go, Stay, EmitterInv, TypeOK
  <2>1. /\ Line < N
        /\ regs' = Exec(IF code[Line] = "patch" THEN PatchCode ELSE prog[Line].arg, regs)
        /\ at' = Start(Line + 1)
    BY <1>6 DEF RunPlain, At, Do, Go
  <2>2. regs' \in Reg
    BY <2>1, <1>2, <1>3, ArgAssumption
  <2>3. Line + 1 \in 0 .. N
    BY <2>1, <1>2, SizeAssumption
  <2> QED
    BY <2>0, <2>1, <2>2, <2>3, <1>4
<1>7. CASE Test
  <2>0. result' \in Value
    BY <1>7, <1>0 DEF Test, At, Go, Stay, EmitterInv, TypeOK
  <2>1. /\ Line < N /\ code[Line] \in {"falls", "nullify"} /\ regs' = regs
        /\ at' = IF Holds(prog[Line].arg, regs) THEN [at EXCEPT !.place = "taken"]
                 ELSE IF code[Line] = "falls" THEN [at EXCEPT !.place = "label"]
                 ELSE Start(Line + 2)
    BY <1>7 DEF Test, At, Go
  <2>2. /\ [at EXCEPT !.place = "taken"] = [line |-> Line, place |-> "taken"]
        /\ [at EXCEPT !.place = "label"] = [line |-> Line, place |-> "label"]
    BY <1>2
  <2>3. code[Line] \in Labelled /\ code[Line] \in TwoLines
    BY <2>1 DEF Labelled, TwoLines
  <2>4. CASE Holds(prog[Line].arg, regs)
    <3>1. at' = [line |-> Line, place |-> "taken"] /\ "taken" \in Place
      BY <2>1, <2>2, <2>4 DEF Place
    <3>2. regs' \in Reg /\ Holds(prog[Line].arg, regs')
      BY <2>1, <2>4, <1>2
    <3> QED
      BY <2>0, <3>1, <3>2, <2>1, <1>1, <1>2, RunSuffices
  <2>5. CASE ~Holds(prog[Line].arg, regs) /\ code[Line] = "falls"
    <3>1. at' = [line |-> Line, place |-> "label"] /\ "label" \in Place
      BY <2>1, <2>2, <2>5 DEF Place
    <3>2. regs' \in Reg
      BY <2>1, <1>2
    <3> QED
      BY <2>0, <3>1, <3>2, <2>1, <2>3, <1>1, <1>2, RunSuffices
  <2>6. CASE ~Holds(prog[Line].arg, regs) /\ code[Line] # "falls"
    BY <2>0, <2>1, <2>3, <2>6, <1>2, <1>4, <1>5
  <2> QED
    BY <2>4, <2>5, <2>6
<1>8. CASE TakeBranch
  <2>0. result' \in Value
    BY <1>8, <1>0 DEF TakeBranch, At, Go, Stay, EmitterInv, TypeOK
  <2>1. /\ Line < N /\ code[Line] \in Labelled
        /\ regs' = Exec(prog[Line + 1].arg, regs)
        /\ at' = Where(prog[Line].to)
    BY <1>8 DEF TakeBranch, At, DoSlot, Do, Go, Labelled
  <2>2. regs' \in Reg
    BY <2>1, <1>2, <1>3, <1>5 DEF TwoLines
  <2> DEFINE to == prog[Line].to
  <2>3. /\ to \in Index
        /\ code[to] # "none" => at' = Start(to)
        /\ code[to] = "none" => /\ at' = [line |-> to - 1, place |-> "label"]
                                /\ to - 1 \in Index /\ code[to - 1] \in Labelled
    BY <2>1, <1>1, <1>2, GotoLands
  <2>4. CASE code[to] # "none"
    BY <2>0, <2>2, <2>3, <2>4, <1>4, SizeAssumption DEF Index
  <2>5. CASE code[to] = "none"
    <3>1. to - 1 \in 0 .. N /\ to - 1 < N /\ "label" \in Place
      BY <2>3, <2>5, SizeAssumption DEF Index, Place
    <3> QED
      BY <2>0, <3>1, <2>2, <2>3, <2>5, <1>1, RunSuffices
  <2> QED
    BY <2>4, <2>5
<1>9. CASE RunLabel
  <2>0. result' \in Value
    BY <1>9, <1>0 DEF RunLabel, At, Go, Stay, EmitterInv, TypeOK
  <2>1. /\ Line < N /\ code[Line] \in TwoLines
        /\ regs' = Exec(prog[Line + 1].arg, regs)
        /\ at' = Start(Line + 2)
    BY <1>9 DEF RunLabel, At, DoSlot, Do, Go, TwoLines
  <2> QED
    BY <2>0, <2>1, <1>2, <1>3, <1>4, <1>5
<1>a. CASE SlotOfCall
  <2>0. result' \in Value
    BY <1>a, <1>0 DEF SlotOfCall, At, Go, Stay, EmitterInv, TypeOK
  <2>1. /\ Line < N /\ code[Line] = "call"
        /\ regs' = Exec(prog[Line + 1].arg, regs)
        /\ at' = [at EXCEPT !.place = "call"]
    BY <1>a DEF SlotOfCall, At, DoSlot, Do, Go
  <2>2. at' = [line |-> Line, place |-> "call"] /\ "call" \in Place
    BY <2>1, <1>2 DEF Place
  <2>3. regs' \in Reg
    BY <2>1, <1>2, <1>3, <1>5 DEF TwoLines
  <2> QED
    BY <2>0, <2>1, <2>2, <2>3, <1>1, <1>2, RunSuffices
<1>b. CASE RunCall
  <2>0. result' \in Value
    BY <1>b, <1>0 DEF RunCall, At, Go, Stay, EmitterInv, TypeOK
  <2>1. /\ Line < N /\ code[Line] = "call"
        /\ regs' = Exec(Callee, regs)
        /\ at' = Start(Line + 2)
    BY <1>b DEF RunCall, At, Do, Go
  <2>2. Callee \in Arg
    BY <2>1, <1>2, RegAssumption DEF Callee
  <2> QED
    BY <2>0, <2>1, <2>2, <1>2, <1>3, <1>4, <1>5 DEF TwoLines
<1>c. CASE RunReturn
  <2>1. /\ Line < N /\ code[Line] = "return"
        /\ regs' = Exec(prog[Line + 1].arg, regs)
        /\ result' = IF valued THEN Typed(V0(regs')) ELSE result
        /\ at' = Gone
    BY <1>c DEF RunReturn, At, DoSlot, Do, Go
  <2>2. regs' \in Reg
    BY <2>1, <1>2, <1>3, <1>5 DEF TwoLines
  <2>3. result' \in Value
    BY <2>1, <2>2, RegAssumption DEF EmitterInv, TypeOK
  <2> QED
    BY <2>1, <2>2, <2>3, <1>e
<1>f. CASE ReachBrace
  BY <1>f, <1>2, <1>e DEF ReachBrace, Go
<1>d. CASE Left
  <2>1. UNCHANGED vars
    BY <1>d DEF Left
  <2>2. regs' \in Reg /\ at' = [line |-> Line, place |-> at.place] /\ at.place \in Place
    BY <2>1, <1>2 DEF vars, EmitterInv, TypeOK
  <2>3. /\ at.place \notin {"head", "left"} => Line < N
        /\ at.place = "taken" => code[Line] \in {"falls", "nullify"} /\ Holds(prog[Line].arg, regs')
        /\ at.place = "label" => code[Line] \in Labelled
        /\ at.place = "call" => code[Line] = "call"
    BY <2>1 DEF vars, EmitterInv, Placed
  <2>4. result' \in Value
    BY <2>1 DEF vars, EmitterInv, TypeOK
  <2> QED
    BY <2>2, <2>3, <2>4, <1>1, <1>2, RunSuffices
<1> QED
  BY <1>6, <1>7, <1>8, <1>9, <1>a, <1>b, <1>c, <1>d, <1>f DEF Run

\* Before anything is emitted the invariant holds.
LEMMA EmitterStarts ==
    ASSUME Init
    PROVE  EmitterInv
<1>1. TypeOK
  BY SizeAssumption, ProgramAssumption DEF Init, TypeOK, Statement, Place, Index
<1>2. Chosen
  BY DEF Init, Chosen
<1>3. Faithful /\ Swallowed
  BY SizeAssumption DEF Init, Faithful, Swallowed, TwoLines, Labelled, Index
<1>4. Labelling
  <2> SUFFICES ASSUME NEW k \in Index
               PROVE  labels[k] =
                        (IF code[k] # "none" /\ k \in BranchIndices THEN 1 ELSE 0)
                      + (IF k > 0 /\ code[k - 1] \in Labelled THEN 1 ELSE 0)
    BY DEF Labelling
  <2>1. labels[k] = 0 /\ code[k] = "none"
    BY DEF Init
  <2>2. k > 0 => code[k - 1] \notin Labelled
    BY SizeAssumption DEF Init, Index, Labelled
  <2> QED
    BY <2>1, <2>2
<1>5. Placed
  BY SizeAssumption DEF Init, Placed, Start, Line
<1> QED
  BY <1>1, <1>2, <1>3, <1>4, <1>5 DEF EmitterInv

\* The emission loop and the emitted function keep the invariant.
THEOREM EmitterInvariant == Spec => []EmitterInv
<1>1. EmitterInv /\ [Next]_vars => EmitterInv'
  <2> SUFFICES ASSUME EmitterInv, [Next]_vars PROVE EmitterInv'
    OBVIOUS
  <2>1. CASE Emit
    BY <2>1, EmissionKeepsInv
  <2>2. CASE Run
    BY <2>2, RunKeepsInv
  <2>3. CASE UNCHANGED vars
    BY <2>3 DEF vars, split, emitted, EmitterInv, TypeOK, Chosen, Visible, Faithful, Swallowed,
                Labelling, Placed, BranchIndices, Emitting, Line
  <2> QED
    BY <2>1, <2>2, <2>3 DEF Next
<1> QED
  BY EmitterStarts, <1>1, PTL DEF Spec

\* Every variable keeps its type: in particular the loop index never passes the
\* end of the function, and execution never leaves it but by its end.
THEOREM TypeCorrect == Spec => []TypeOK
<1>1. EmitterInv => TypeOK
  BY DEF EmitterInv
<1> QED
  BY EmitterInvariant, <1>1, PTL

\* The emitted function compiles, whatever is patched: a goto finds its label
\* and no label is written twice.
THEOREM LabelsExistOnce == Spec => []LabelsResolve
<1>1. EmitterInv => LabelsResolve
  <2> SUFFICES ASSUME EmitterInv, ~Emitting
               PROVE  /\ \A k \in Gotos : labels[k] = 1
                      /\ \A k \in Index : labels[k] < 2
    BY DEF LabelsResolve
  <2>1. ASSUME NEW k \in Index
        PROVE  labels[k] = (IF code[k] # "none" /\ k \in BranchIndices THEN 1 ELSE 0)
                         + (IF k > 0 /\ code[k - 1] \in Labelled THEN 1 ELSE 0)
    BY DEF EmitterInv, Labelling
  <2>2. ASSUME NEW k \in Index, k > 0, code[k - 1] \in Labelled
        PROVE  code[k] = "none"
    <3>1. k - 1 \in Index /\ k = (k - 1) + 1
      BY <2>2, SizeAssumption DEF Index
    <3>2. code[(k - 1) + 1] = "none"
      BY <2>2, <3>1 DEF EmitterInv, Swallowed, TwoLines
    <3> QED
      BY <3>1, <3>2
  <2>3. ASSUME NEW k \in Gotos
        PROVE  labels[k] = 1
    <3>1. PICK b \in Index : code[b] \in Labelled /\ k = prog[b].to
      BY <2>3 DEF Gotos
    <3>2. prog[b].kind \in BranchKind
      BY <3>1 DEF EmitterInv, Faithful, Labelled, BranchKind
    <3>3. k \in BranchIndices
      BY <3>1, <3>2 DEF BranchIndices
    <3>4. /\ k \in Index
          /\ code[k] = "none" => k - 1 \in Index /\ code[k - 1] \in Labelled
      BY <3>1, GotoLands
    <3>5. CASE code[k] = "none"
      BY <3>4, <3>5, <2>1, SizeAssumption DEF Index
    <3>6. CASE code[k] # "none"
      BY <3>3, <3>4, <3>6, <2>1, <2>2
    <3> QED
      BY <3>5, <3>6
  <2>4. ASSUME NEW k \in Index
        PROVE  labels[k] < 2
    BY <2>1, <2>2
  <2> QED
    BY <2>3, <2>4
<1> QED
  BY EmitterInvariant, <1>1, PTL

\* The end of an emitted function: its last statement is a branch that is always
\* taken, a tail call or the return, and no branch leads into that one's slot.
LEMMA EndOfFunction ==
    ASSUME EmitterInv, ~Emitting
    PROVE  /\ N - 2 \in Index /\ prog[N - 2].kind \in {"always", "j", "jr"}
           /\ code[N - 1] = "none"
           /\ \A k \in Index : code[k] \in Labelled => prog[k].to # N - 1
<1> DEFINE q == Patched(prog, patches)
<1>0. /\ N \in Nat /\ N > 1 /\ i = N
      /\ N - 2 \in Index /\ N - 1 \in Index /\ (N - 2) + 1 = N - 1
  BY SizeAssumption DEF EmitterInv, TypeOK, Emitting, Index
<1>1. /\ prog \in Program /\ patches \in PatchSets /\ Visible(prog, patches) /\ WellFormed(q)
  BY ProgramAssumption DEF EmitterInv, Chosen
<1>2. q[N - 2].kind \in {"always", "j", "jr"}
  BY <1>1 DEF WellFormed
<1>3. N - 2 \notin patches /\ q[N - 2] = prog[N - 2]
  BY <1>0, <1>2 DEF Patched
<1>4. ASSUME NEW k \in Index, code[k] \in TwoLines
      PROVE  k \notin patches /\ prog[k].kind # "plain"
  BY <1>4 DEF EmitterInv, Faithful, TwoLines, Labelled
<1>5. code[N - 2] # "none"
  <2> SUFFICES ASSUME code[N - 2] = "none" PROVE FALSE
    OBVIOUS
  <2>1. N - 2 > 0 /\ code[(N - 2) - 1] \in TwoLines
    BY <1>0 DEF EmitterInv, Swallowed
  <2>2. (N - 2) - 1 \in Index /\ ((N - 2) - 1) + 1 = N - 2
    BY <1>0, <2>1 DEF Index
  <2>3. prog[((N - 2) - 1) + 1].kind = "plain"
    BY <2>1, <2>2, <1>1, <1>4, SlotIsPlain
  <2> QED
    BY <2>2, <2>3, <1>2, <1>3
<1>6. code[N - 2] \in TwoLines
  <2>1. code[N - 2] \in Statement /\ code[N - 2] \notin {"patch", "plain"}
    BY <1>0, <1>2, <1>3 DEF EmitterInv, TypeOK, Faithful
  <2> QED
    BY <2>1, <1>5 DEF Statement, TwoLines
<1>7. code[N - 1] = "none"
  BY <1>0, <1>6 DEF EmitterInv, Swallowed
<1>8. ASSUME NEW k \in Index, code[k] \in Labelled
      PROVE  prog[k].to # N - 1
  <2>1. k \notin patches /\ prog[k].kind \in BranchKind
    BY <1>8 DEF EmitterInv, Faithful, Labelled, BranchKind
  <2>2. q[k] = prog[k]
    BY <2>1 DEF Patched
  <2> QED
    BY <2>1, <2>2, <1>0, <1>1 DEF WellFormed
<1> QED
  BY <1>0, <1>2, <1>3, <1>7, <1>8

\* What is returned: control comes to the closing brace only after a tail call,
\* and never into the slot of the last statement.
Returned ==
    /\ at = Start(N) => prog[N - 2].kind = "j"
    /\ at.place = "label" => Line # N - 2
    /\ HandsBackV0

\* Running the function keeps it.
LEMMA RunReturns ==
    ASSUME EmitterInv, Returned, Run
    PROVE  Returned'
<1>0. N \in Nat /\ N > 1
  BY SizeAssumption
<1>1. ~Emitting /\ UNCHANGED <<prog, patches, valued, i, code, labels>>
  BY RunKeepsCode
<1>2. /\ Line \in 0 .. N /\ (Line < N => Line \in Index)
      /\ at = [line |-> Line, place |-> at.place]
  BY LineKnown
<1>3. /\ N - 2 \in Index /\ prog[N - 2].kind \in {"always", "j", "jr"}
      /\ code[N - 1] = "none"
      /\ \A k \in Index : code[k] \in Labelled => prog[k].to # N - 1
  BY <1>1, EndOfFunction
<1>4. ASSUME NEW k \in Int, at' = Start(k), k = N => prog[N - 2].kind = "j"
      PROVE  Returned'
  BY <1>1, <1>4 DEF Returned, HandsBackV0, Start, Gone
<1>5. ASSUME NEW p \in {"taken", "label", "call"}, at' = [line |-> Line, place |-> p],
             p = "label" => Line # N - 2
      PROVE  Returned'
  BY <1>1, <1>5 DEF Returned, HandsBackV0, Start, Gone, Line
<1>6. CASE RunPlain
  <2>1. Line < N /\ code[Line] \in {"plain", "patch"} /\ at' = Start(Line + 1)
    BY <1>6 DEF RunPlain, At, Go
  <2>2. Line + 1 # N
    BY <2>1, <1>0, <1>2, <1>3
  <2> QED
    BY <2>1, <2>2, <1>2, <1>4
<1>7. CASE Test
  <2>1. /\ Line < N /\ code[Line] \in {"falls", "nullify"}
        /\ \/ at' = [line |-> Line, place |-> "taken"]
           \/ at' = [line |-> Line, place |-> "label"]
           \/ at' = Start(Line + 2)
    BY <1>2, <1>7 DEF Test, At, Go
  <2>2. Line # N - 2
    BY <2>1, <1>2, <1>3 DEF EmitterInv, Faithful
  <2>3. Line + 2 # N
    BY <2>2, <1>0, <1>2
  <2> QED
    BY <2>1, <2>2, <2>3, <1>2, <1>4, <1>5
<1>8. CASE TakeBranch
  <2> DEFINE to == prog[Line].to
  <2>1. Line < N /\ code[Line] \in Labelled /\ at' = Where(to)
    BY <1>8 DEF TakeBranch, At, Go, Labelled
  <2>2. /\ to \in Index
        /\ code[to] # "none" => at' = Start(to)
        /\ code[to] = "none" => at' = [line |-> to - 1, place |-> "label"]
    BY <2>1, <1>1, <1>2, GotoLands
  <2>3. to # N - 1 /\ to \in Int /\ to # N /\ to - 1 # N - 2
    BY <2>1, <2>2, <1>0, <1>2, <1>3 DEF Index
  <2>4. CASE code[to] # "none"
    BY <2>2, <2>3, <2>4, <1>4
  <2>5. CASE code[to] = "none"
    BY <2>2, <2>3, <2>5, <1>1 DEF Returned, HandsBackV0, Start, Gone, Line
  <2> QED
    BY <2>4, <2>5
<1>9. CASE RunLabel
  <2>1. at.place = "label" /\ at' = Start(Line + 2)
    BY <1>9 DEF RunLabel, At, Go
  <2>2. Line + 2 # N
    BY <2>1, <1>0, <1>2 DEF Returned
  <2> QED
    BY <2>1, <2>2, <1>2, <1>4
<1>a. CASE SlotOfCall
  <2>1. at' = [line |-> Line, place |-> "call"]
    BY <1>2, <1>a DEF SlotOfCall, At, Go
  <2> QED
    BY <2>1, <1>5
<1>b. CASE RunCall
  <2>1. Line < N /\ code[Line] = "call" /\ at' = Start(Line + 2)
    BY <1>b DEF RunCall, At, Go
  <2>2. Line + 2 = N => prog[N - 2].kind = "j"
    <3>1. prog[Line].kind \in {"jal", "j", "jalr"}
      BY <2>1, <1>2 DEF EmitterInv, Faithful
    <3>2. Line + 2 = N => Line = N - 2
      BY <1>0, <1>2
    <3> QED
      BY <3>1, <3>2, <1>3
  <2> QED
    BY <2>1, <2>2, <1>2, <1>4
<1>c. CASE RunReturn
  <2>1. at' = Gone /\ result' = IF valued THEN Typed(V0(regs')) ELSE result
    BY <1>c DEF RunReturn, Go
  <2> QED
    BY <2>1, <1>1 DEF Returned, HandsBackV0, Start, Gone
<1>d. CASE ReachBrace
  <2>1. at = Start(N) /\ at' = Gone
    BY <1>d DEF ReachBrace, Go
  <2>2. prog[N - 2].kind = "j"
    BY <2>1 DEF Returned
  <2> QED
    BY <2>1, <2>2, <1>1 DEF Returned, HandsBackV0, Start, Gone
<1>e. CASE Left
  BY <1>e DEF Left, vars, split, Returned, HandsBackV0, Line
<1> QED
  BY <1>6, <1>7, <1>8, <1>9, <1>a, <1>b, <1>c, <1>d, <1>e DEF Run

\* A function with a return type hands back v0 as its last delay slot leaves it,
\* however control came to the return; only a tail call loses it.
THEOREM ReturnsV0 == Spec => []HandsBackV0
<1>1. Init => Returned
  BY SizeAssumption DEF Init, Returned, HandsBackV0, Start, Gone
<1>2. EmitterInv /\ Returned /\ [Next]_vars => Returned'
  <2> SUFFICES ASSUME EmitterInv, Returned, [Next]_vars PROVE Returned'
    OBVIOUS
  <2>1. CASE Emit
    <3>1. Emitting /\ UNCHANGED <<split, regs, at, result>>
      BY <2>1 DEF Emit, EmitPatch, EmitPlain, EmitBranch, EmitCall, EmitReturn, Write
    <3> QED
      BY <3>1 DEF split, Returned, HandsBackV0, Line
  <2>2. CASE Run
    BY <2>2, RunReturns
  <2>3. CASE UNCHANGED vars
    BY <2>3 DEF vars, split, Returned, HandsBackV0, Line
  <2> QED
    BY <2>1, <2>2, <2>3 DEF Next
<1>3. Returned => HandsBackV0
  BY DEF Returned
<1> QED
  BY <1>1, <1>2, <1>3, EmitterInvariant, PTL DEF Spec

-----------------------------------------------------------------------------
(* The emitted function implements the machine code. *)

\* No compiled function holds a blezl, bgtzl, bltzl or bgezl: the macros give
\* those the effect of the branch that is not likely.
NoAlias == \A p \in Program : \A k \in Index : p[k].kind # "alias"

Patch == Patched(prog, patches)

\* The program counter of the machine at the three sorts of place.
LEMMA PcOf ==
    /\ at.place = "label" => MachinePc = Line + 1
    /\ at.place = "call"  => MachinePc = Line + 2
    /\ at.place \in {"head", "taken"} => MachinePc = Line
  BY DEF MachinePc

\* The same in the next state, by the place a step leads to.
LEMMA PcNext ==
    ASSUME NEW k, NEW p, at' = [line |-> k, place |-> p]
    PROVE  /\ p = "label" => MachinePc' = k + 1 /\ Calling' = NoCall
           /\ p = "call"  => MachinePc' = k + 2 /\ Calling' = Callee'
           /\ p \in {"head", "taken", "left"} => MachinePc' = k /\ Calling' = NoCall
<1>1. at'.line = k /\ at'.place = p
  OBVIOUS
<1> QED
  BY <1>1 DEF MachinePc, Calling, Line

\* The machine's view of the instruction at a line.
LEMMA PatchOf ==
    ASSUME EmitterInv, NEW k \in Index
    PROVE  /\ k \notin patches => Patch[k] = prog[k]
           /\ k \in patches => Patch[k].kind = "plain" /\ Patch[k].arg = PatchCode
  BY DEF Patch, Patched

\* A step of the running function is a step of the machine, or none.
LEMMA RunImplements ==
    ASSUME EmitterInv, NoAlias, Run
    PROVE  [Machine!Next]_(Machine!vars)
<1>1. ~Emitting /\ UNCHANGED <<prog, patches, valued, i, code, labels>>
  BY RunKeepsCode
<1>2. /\ Line \in 0 .. N
      /\ Line < N => Line \in Index /\ prog[Line].arg \in Arg
      /\ at = [line |-> Line, place |-> at.place]
      /\ regs \in Reg
  BY LineKnown
<1>3. Patch' = Patch
  BY <1>1 DEF Patch, Patched
<1>4. ASSUME Line \in Index, code[Line] \in TwoLines
      PROVE  /\ Patch[Line] = prog[Line] /\ Line + 1 < N
             /\ Patch[Line + 1] = prog[Line + 1] /\ prog[Line + 1].kind = "plain"
             /\ prog[Line].kind = "j" => Line + 2 = N
             /\ prog[Line].kind = "jalr" =>
                   Pointee(Exec(prog[Line + 1].arg, regs)) = Pointee(regs)
             /\ prog[Line].kind = "jr" => Leads(prog[Line].arg, regs) = N
  <2>1. /\ Line \notin patches /\ Line + 1 \in Index /\ Line + 1 \notin patches
        /\ prog[Line + 1].kind = "plain"
        /\ prog[Line].kind = "j" => Line = N - 2
        /\ prog[Line].kind = "jalr" =>
              \A r \in Reg : Pointee(Exec(prog[Line + 1].arg, r)) = Pointee(r)
        /\ prog[Line].kind = "jr" => \A r \in Reg : Leads(prog[Line].arg, r) = N
    BY <1>4, StatementOfTwoLines
  <2> QED
    BY <2>1, <1>2, <1>4, PatchOf, SizeAssumption DEF Index
<1>5. /\ at.place \in {"head", "taken"} => MachinePc = Line
      /\ at.place = "label" => MachinePc = Line + 1
      /\ at.place = "call"  => MachinePc = Line + 2
      /\ at.place # "call" => Calling = NoCall
      /\ at.place = "call" => Calling = Callee
  BY PcOf DEF Calling
<1> USE DEF Machine!Kind, Machine!Ready, Machine!RunSlot, Machine!OrdinaryBranch,
            Machine!LikelyBranch
<1>6. CASE RunPlain
  <2>1. /\ Line < N /\ at.place = "head" /\ code[Line] \in {"plain", "patch"}
        /\ regs' = Exec(IF code[Line] = "patch" THEN PatchCode ELSE prog[Line].arg, regs)
        /\ at' = [line |-> Line + 1, place |-> "head"]
    BY <1>6 DEF RunPlain, At, Do, Go, Start
  <2>2. Patch[Line].kind = "plain" /\ regs' = Exec(Patch[Line].arg, regs)
    <3>1. /\ code[Line] = "patch" => Line \in patches
          /\ code[Line] = "plain" => Line \notin patches /\ prog[Line].kind = "plain"
      BY <2>1, <1>2 DEF EmitterInv, Faithful
    <3> QED
      BY <3>1, <2>1, <1>2, PatchOf
  <2>3. MachinePc' = Line + 1 /\ Calling' = NoCall
    BY <2>1, PcNext
  <2>4. Machine!Plain
    BY <2>1, <2>2, <2>3, <1>3, <1>5 DEF Machine!Plain, Patch
  <2> QED
    BY <2>4 DEF Machine!Next
<1>7. CASE Test
  <2>1. /\ Line < N /\ at.place = "head" /\ code[Line] \in {"falls", "nullify"}
        /\ regs' = regs
        /\ at' = IF Holds(prog[Line].arg, regs) THEN [at EXCEPT !.place = "taken"]
                 ELSE IF code[Line] = "falls" THEN [at EXCEPT !.place = "label"]
                 ELSE Start(Line + 2)
    BY <1>7 DEF Test, At, Go
  <2>2. /\ [at EXCEPT !.place = "taken"] = [line |-> Line, place |-> "taken"]
        /\ [at EXCEPT !.place = "label"] = [line |-> Line, place |-> "label"]
        /\ Start(Line + 2) = [line |-> Line + 2, place |-> "head"]
    BY <1>2 DEF Start
  <2>3. MachinePc = Line /\ Calling = NoCall /\ Patch[Line] = prog[Line]
    BY <2>1, <1>2, <1>4, <1>5 DEF TwoLines, Labelled
  <2>4. /\ code[Line] = "falls" => prog[Line].kind = "branch"
        /\ code[Line] = "nullify" => prog[Line].kind = "likely"
    <3>1. prog[Line].kind # "alias"
      BY <2>1, <1>2 DEF NoAlias, EmitterInv, Chosen
    <3> QED
      BY <3>1, <2>1, <1>2 DEF EmitterInv, Faithful
  <2>5. CASE Holds(prog[Line].arg, regs)
    <3>1. MachinePc' = Line /\ Calling' = NoCall
      BY <2>1, <2>2, <2>5, PcNext
    <3> QED
      BY <3>1, <2>1, <2>3, <1>3 DEF Machine!vars, Patch
  <2>6. CASE ~Holds(prog[Line].arg, regs) /\ code[Line] = "falls"
    <3>1. MachinePc' = Line + 1 /\ Calling' = NoCall
      BY <2>1, <2>2, <2>6, PcNext
    <3>2. Machine!NoBranch
      BY <3>1, <2>1, <2>3, <2>4, <2>6, <1>3 DEF Machine!NoBranch, Patch
    <3> QED
      BY <3>2 DEF Machine!Next
  <2>7. CASE ~Holds(prog[Line].arg, regs) /\ code[Line] = "nullify"
    <3>1. MachinePc' = Line + 2 /\ Calling' = NoCall
      BY <2>1, <2>2, <2>7, PcNext
    <3>2. Machine!NoBranch
      BY <3>1, <2>1, <2>3, <2>4, <2>7, <1>3 DEF Machine!NoBranch, Patch
    <3> QED
      BY <3>2 DEF Machine!Next
  <2> QED
    BY <2>1, <2>5, <2>6, <2>7
<1>8. CASE TakeBranch
  <2>1. /\ Line < N /\ code[Line] \in Labelled /\ at.place \in {"head", "taken"}
        /\ at.place = "head" => code[Line] = "always"
        /\ regs' = Exec(prog[Line + 1].arg, regs)
        /\ at' = Where(prog[Line].to)
    BY <1>8 DEF TakeBranch, At, DoSlot, Do, Go, Labelled
  <2>2. /\ MachinePc = Line /\ Calling = NoCall /\ Patch[Line] = prog[Line]
        /\ Patch[Line + 1] = prog[Line + 1]
    BY <2>1, <1>2, <1>4, <1>5 DEF TwoLines
  <2>3. MachinePc' = prog[Line].to /\ Calling' = NoCall
    <3> DEFINE to == prog[Line].to
    <3>1. /\ to \in Index
          /\ code[to] # "none" => at' = [line |-> to, place |-> "head"]
          /\ code[to] = "none" => at' = [line |-> to - 1, place |-> "label"]
      BY <2>1, <1>1, <1>2, GotoLands DEF Start
    <3>2. to = (to - 1) + 1
      BY <3>1, SizeAssumption DEF Index
    <3> HIDE DEF to
    <3>3. MachinePc' = to /\ Calling' = NoCall
      BY <3>1, <3>2, PcNext
    <3> QED
      BY <3>3 DEF to
  <2>4. \/ prog[Line].kind \in {"branch", "likely"} /\ Holds(prog[Line].arg, regs)
        \/ prog[Line].kind = "always"
    <3>1. CASE at.place = "head"
      BY <3>1, <2>1, <1>2 DEF EmitterInv, Faithful
    <3>2. CASE at.place = "taken"
      <4>1. code[Line] \in {"falls", "nullify"} /\ Holds(prog[Line].arg, regs)
        BY <3>2 DEF EmitterInv, Placed
      <4>2. prog[Line].kind \in {"branch", "likely", "alias"}
        BY <4>1, <2>1, <1>2 DEF EmitterInv, Faithful
      <4>3. prog[Line].kind # "alias"
        BY <2>1, <1>2 DEF NoAlias, EmitterInv, Chosen
      <4> QED
        BY <4>1, <4>2, <4>3
    <3> QED
      BY <2>1, <3>1, <3>2
  <2>5. Machine!Branch
    BY <2>1, <2>2, <2>3, <2>4, <1>3 DEF Machine!Branch, Patch
  <2> QED
    BY <2>5 DEF Machine!Next
<1>9. CASE RunLabel
  <2>1. /\ Line < N /\ at.place = "label" /\ code[Line] \in TwoLines
        /\ regs' = Exec(prog[Line + 1].arg, regs)
        /\ at' = [line |-> Line + 2, place |-> "head"]
    BY <1>9 DEF RunLabel, At, DoSlot, Do, Go, TwoLines, Start
  <2>2. /\ MachinePc = Line + 1 /\ Calling = NoCall /\ Line + 1 < N
        /\ Patch[Line + 1] = prog[Line + 1] /\ prog[Line + 1].kind = "plain"
    BY <2>1, <1>2, <1>4, <1>5
  <2>3. MachinePc' = Line + 2 /\ Calling' = NoCall
    BY <2>1, PcNext
  <2>4. MachinePc' = MachinePc + 1
    BY <2>2, <2>3, <1>2
  <2>5. Machine!Plain
    BY <2>1, <2>2, <2>3, <2>4, <1>3 DEF Machine!Plain, Patch
  <2> QED
    BY <2>5 DEF Machine!Next
<1>a. CASE SlotOfCall
  <2>1. /\ Line < N /\ at.place = "head" /\ code[Line] = "call"
        /\ regs' = Exec(prog[Line + 1].arg, regs)
        /\ at' = [line |-> Line, place |-> "call"]
    BY <1>a, <1>2 DEF SlotOfCall, At, DoSlot, Do, Go
  <2>2. /\ MachinePc = Line /\ Calling = NoCall /\ Patch[Line] = prog[Line]
        /\ Patch[Line + 1] = prog[Line + 1]
        /\ prog[Line].kind = "j" => Line + 2 = N
        /\ prog[Line].kind = "jalr" =>
              Pointee(Exec(prog[Line + 1].arg, regs)) = Pointee(regs)
    BY <2>1, <1>2, <1>4, <1>5 DEF TwoLines
  <2>3. prog[Line].kind \in {"jal", "j", "jalr"}
    BY <2>1, <1>2 DEF EmitterInv, Faithful
  <2>4. MachinePc' = Line + 2 /\ Calling' = Callee'
    BY <2>1, PcNext
  <2>5. Callee' = IF prog[Line].kind = "jalr" THEN Pointee(regs) ELSE prog[Line].arg
    <3>1. Line' = Line
      BY <2>1 DEF Line
    <3>2. Callee' = IF prog[Line].kind = "jalr" THEN Pointee(regs') ELSE prog[Line].arg
      BY <3>1, <1>1 DEF Callee
    <3> QED
      BY <3>2, <2>1, <2>2
  <2>6. Machine!Jump
    BY <2>1, <2>2, <2>3, <2>4, <2>5, <1>3 DEF Machine!Jump, Patch
  <2> QED
    BY <2>6 DEF Machine!Next
<1>b. CASE RunCall
  <2>1. /\ Line < N /\ at.place = "call" /\ code[Line] = "call"
        /\ regs' = Exec(Callee, regs)
        /\ at' = [line |-> Line + 2, place |-> "head"]
    BY <1>b DEF RunCall, At, Do, Go, Start
  <2>2. Callee \in Arg
    BY <2>1, <1>2, RegAssumption DEF Callee
  <2>3. MachinePc = Line + 2 /\ Calling = Callee /\ Calling # NoCall
    BY <2>1, <2>2, <1>5, ArgAssumption
  <2>4. MachinePc' = Line + 2 /\ Calling' = NoCall
    BY <2>1, PcNext
  <2>5. Machine!Callee
    BY <2>1, <2>3, <2>4, <1>3 DEF Machine!Callee, Patch
  <2> QED
    BY <2>5 DEF Machine!Next
<1>c. CASE RunReturn
  <2>1. /\ Line < N /\ at.place = "head" /\ code[Line] = "return"
        /\ regs' = Exec(prog[Line + 1].arg, regs)
        /\ at' = [line |-> N, place |-> "left"]
    BY <1>c DEF RunReturn, At, DoSlot, Do, Go, Gone
  <2>2. /\ MachinePc = Line /\ Calling = NoCall /\ Patch[Line] = prog[Line]
        /\ Patch[Line + 1] = prog[Line + 1]
        /\ prog[Line].kind = "jr" => Leads(prog[Line].arg, regs) = N
    BY <2>1, <1>2, <1>4, <1>5 DEF TwoLines
  <2>3. prog[Line].kind = "jr"
    BY <2>1, <1>2 DEF EmitterInv, Faithful
  <2>4. MachinePc' = N /\ Calling' = NoCall
    BY <2>1, PcNext
  <2>5. Machine!JumpRegister
    BY <2>1, <2>2, <2>3, <2>4, <1>3 DEF Machine!JumpRegister, Patch
  <2> QED
    BY <2>5 DEF Machine!Next
<1>e. CASE ReachBrace
  <2>1. at.place = "head" /\ Line = N /\ regs' = regs
        /\ at' = [line |-> N, place |-> "left"]
    BY <1>e DEF ReachBrace, Go, Gone, Start, Line
  <2>2. MachinePc' = MachinePc /\ Calling' = Calling
    BY <2>1, <1>5, PcNext
  <2> QED
    BY <2>1, <2>2, <1>3 DEF Machine!vars, Patch
<1>d. CASE Left
  <2>1. regs' = regs /\ at' = at
    BY <1>d DEF Left, vars
  <2>2. MachinePc' = MachinePc /\ Calling' = Calling
    BY <2>1, <1>1 DEF MachinePc, Calling, Callee, Line
  <2> QED
    BY <2>1, <2>2, <1>3 DEF Machine!vars, Patch
<1> QED
  BY <1>6, <1>7, <1>8, <1>9, <1>a, <1>b, <1>c, <1>d, <1>e DEF Run

\* Emitting is not seen by the machine.
LEMMA EmitStutters ==
    ASSUME UNCHANGED <<prog, patches, regs, at>>
    PROVE  UNCHANGED Machine!vars
  BY DEF Machine!vars, Patched, MachinePc, Calling, Callee, Line

\* The emitted function is the machine code, at every length, for every meaning
\* of the instructions and every set of patched lines: the same registers at
\* every instruction, the same branches, calls and return.
THEOREM RunsAsTheMachine == ASSUME NoAlias PROVE Spec => ImplementsR5900
<1>1. Init => Machine!Init
  <2> SUFFICES ASSUME Init PROVE MachinePc = 0 /\ Calling = NoCall
    BY DEF Machine!Init
  <2>1. at.place = "head" /\ Line = 0
    BY DEF Init, Line
  <2> QED
    BY <2>1, PcOf DEF Calling
<1>2. EmitterInv /\ [Next]_vars => [Machine!Next]_(Machine!vars)
  <2> SUFFICES ASSUME EmitterInv, [Next]_vars PROVE [Machine!Next]_(Machine!vars)
    OBVIOUS
  <2>1. CASE Emit
    <3>1. UNCHANGED <<prog, patches, regs, at>>
      BY <2>1, EmissionWrites DEF Write, split
    <3> QED
      BY <3>1, EmitStutters
  <2>2. CASE Run
    BY <2>2, RunImplements
  <2>3. CASE UNCHANGED vars
    <3>1. UNCHANGED <<prog, patches, regs, at>>
      BY <2>3 DEF vars, split
    <3> QED
      BY <3>1, EmitStutters
  <2> QED
    BY <2>1, <2>2, <2>3 DEF Next
<1> QED
  BY <1>1, <1>2, EmitterInvariant, PTL DEF Spec, ImplementsR5900, Machine!Spec
==============================================================================
