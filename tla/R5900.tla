-------------------------------- MODULE R5900 --------------------------------
(****************************************************************************)
(* What the Emotion Engine does with one function, as far as control flow   *)
(* goes: the specification that recompiled code is held to.  A branch or a  *)
(* jump takes effect after the instruction in its delay slot; its condition *)
(* and a register target are read before it; a likely branch that is not    *)
(* taken skips its slot.  pc = N is "control has left the function".        *)
(****************************************************************************)
EXTENDS Integers

CONSTANTS N,            \* instructions in the function
          NoCall,       \* no call is being made
          Exec(_, _),   \* effect of an instruction or a callee on registers
          Holds(_, _),  \* a branch condition
          Pointee(_),   \* the function whose address the register of jalr holds
          Leads(_, _)   \* where the register of a jr leads: an instruction, or N

VARIABLES prog,    \* the instructions, which do not change
          regs,    \* the register file
          pc,
          calling  \* the callee, between a call's delay slot and its entry

vars == <<prog, regs, pc, calling>>

OrdinaryBranch == {"branch"}
LikelyBranch   == {"likely", "alias"}

Kind    == prog[pc].kind
RunSlot == regs' = Exec(prog[pc + 1].arg, regs)
Ready   == pc < N /\ calling = NoCall

Plain == /\ Ready /\ Kind = "plain"
         /\ regs' = Exec(prog[pc].arg, regs)
         /\ pc' = pc + 1
         /\ UNCHANGED <<prog, calling>>

Branch == /\ Ready
          /\ \/ Kind \in OrdinaryBranch \cup LikelyBranch /\ Holds(prog[pc].arg, regs)
             \/ Kind = "always"
          /\ RunSlot
          /\ pc' = prog[pc].to
          /\ UNCHANGED <<prog, calling>>

NoBranch == /\ Ready /\ Kind \in OrdinaryBranch \cup LikelyBranch
            /\ ~Holds(prog[pc].arg, regs)
            /\ pc' = IF Kind \in LikelyBranch THEN pc + 2 ELSE pc + 1
            /\ UNCHANGED <<prog, regs, calling>>

Jump == /\ Ready /\ Kind \in {"jal", "jalr", "j"}
        /\ RunSlot
        /\ calling' = IF Kind = "jalr" THEN Pointee(regs) ELSE prog[pc].arg
        /\ pc' = IF Kind = "j" THEN N ELSE pc + 2
        /\ UNCHANGED prog

Callee == /\ calling # NoCall
          /\ regs' = Exec(calling, regs)
          /\ calling' = NoCall
          /\ UNCHANGED <<prog, pc>>

JumpRegister == /\ Ready /\ Kind = "jr"
                /\ RunSlot
                /\ pc' = Leads(prog[pc].arg, regs)
                /\ UNCHANGED <<prog, calling>>

Next == Plain \/ Branch \/ NoBranch \/ Jump \/ Callee \/ JumpRegister

Init == pc = 0 /\ calling = NoCall
Spec == Init /\ [][Next]_vars
==============================================================================
