----------------------------- MODULE GuestMemory -----------------------------
(****************************************************************************)
(* The memory a game sees: one cell per address, that holds what was stored *)
(* there last.  Each SIF register is the cell at an address of its own, but *)
(* for the one that announces the state of the IOP.  What the game does and *)
(* is given is part of the state, so that an implementation has to give it  *)
(* that value, and change that cell, for that very operation.               *)
(****************************************************************************)
EXTENDS Integers

CONSTANTS Cell,       \* the addresses there are
          Address,    \* those a game loads from and stores to
          Register,   \* the SIF registers: <<top four bits, the others>>
          Value,
          Start,      \* what each cell holds at first
          Announced,  \* what the announcing register says
          Nothing     \* no operation so far

VARIABLES memory, \* what each cell holds
          did     \* the last operation: which, on what, and the value moved

Announcing(r) == r \in {<<0, 4>>, <<8, 4>>}
Port(r)       == \h1000F20 + r[2]

Init == memory = [c \in Cell |-> Start[c]] /\ did = Nothing

Write(a, v) == memory' = [memory EXCEPT ![a] = v]

Store(a, v)  == did' = <<"store", a, v>> /\ Write(a, v)
Load(a)      == did' = <<"load", a, memory[a]>> /\ UNCHANGED memory
SetReg(r, v) == did' = <<"set", r, v>> /\ Write(Port(r), v)
GetReg(r)    == /\ did' = <<"get", r, IF Announcing(r) THEN Announced ELSE memory[Port(r)]>>
                /\ UNCHANGED memory

\* A transfer runs backwards: this is what a game is given here, not what it
\* asks for, which is that dest gets what src holds.
TransferBack(src, dest) == did' = <<"dma", src, dest>> /\ Write(src, memory[dest])

Next == \/ \E a \in Address, v \in Value : Store(a, v)
        \/ \E a \in Address : Load(a)
        \/ \E r \in Register, v \in Value : SetReg(r, v)
        \/ \E r \in Register : GetReg(r)
        \/ \E src, dest \in Address : TransferBack(src, dest)

Spec == Init /\ [][Next]_<<memory, did>>
=============================================================================
