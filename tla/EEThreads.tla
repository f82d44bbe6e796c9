------------------------------ MODULE EEThreads ------------------------------
(****************************************************************************)
(* EE threads on host threads: src/ps2lib/threading/threading.c with the    *)
(* globals it works on, ctx and EEThreadID of src/ps2lib/kernel/            *)
(* ps2_context.c.  CreateThread fills a table slot and bumps a counter;     *)
(* StartThread looks the entry function up, calls it in the starting thread *)
(* and then spawns a host thread, handing it the address of a local         *)
(* variable; the new thread replaces the global register file ctx, sets its *)
(* gp and sp in it, sets the global EEThreadID and calls the function.      *)
(*                                                                          *)
(* A context is abstracted to who initialised what in it: gp and sp are     *)
(* linear in the thread id they are computed from, so that id stands for    *)
(* the register.  Nothing is locked; one action is one access to a global.  *)
(****************************************************************************)
EXTENDS Integers, FiniteSets

CONSTANTS
    Host,       \* host threads, the ones pthread_create will return included
    Main,       \* the host thread that runs main
    Fun,        \* entry functions FunctionLookup knows
    TableSize,  \* entries of threads[], 256; the code does not check it
    Garbage,    \* what a dead stack slot or unwritten memory holds
    Disciplines \* what games observe: each is a subset of Rules

Rules == {"serial_create", \* no two hosts are in CreateThread at once
          "fits",          \* no more threads are created than the table holds
          "each_once",     \* no thread is started a second time
          "in_order",      \* all threads are created before one is started, and
                           \* started in that order
          "few",           \* not all host threads are used
          "serial_start",  \* no StartThread while another start is going on, and
                           \* no starter returns before its child has started
          "quiet"}         \* see EEKernel

ASSUME MainAssumption       == Main \in Host
ASSUME TableAssumption      == TableSize \in Nat \ {0}
ASSUME DisciplineAssumption == Disciplines \subseteq SUBSET Rules
ASSUME GarbageAssumption    == Garbage \notin Fun /\ Garbage \notin Nat

Tid      == 0 .. TableSize - 1
AnyTid   == Nat \cup {Garbage}
AnyFun   == Fun \cup {Garbage}
Data     == [fun : AnyFun, tid : AnyTid]    \* _StartThreadData
Context  == [clean : BOOLEAN, gp : AnyTid, sp : AnyTid]
Ctx      == Host                            \* a context is named by its mallocer

VARIABLES
    threads, currentThreadIndex, \* the thread table and its counter
    ctx, contexts, EEThreadID,   \* register file in use, all of them, current id
    frame,                       \* StartThread's local data, on each host's stack
    pc, param, reg,              \* per host: where it is, its parameter, a register
    parent,                      \* per host: whose frame its data pointer is into
    created,                     \* what the game knows: handles CreateThread gave
    want,                        \* per host: what it was started to run
    dangling,                    \* hosts whose parent's frame has changed while
                                 \* they were starting
    overlapped,                  \* hosts that were starting while another was
    discipline                   \* what this game observes

vars == <<threads, currentThreadIndex, ctx, contexts, EEThreadID, frame,
          pc, param, reg, parent, created, want, dangling, overlapped, discipline>>
starts  == <<parent, want, dangling, overlapped>>
tables  == <<threads, currentThreadIndex, created, discipline>>
globals == <<ctx, contexts, EEThreadID>>

Starting == {"alloc", "memset", "set_gp", "set_sp", "set_id", "enter"}
Creating == {"fill", "inc_load", "inc_store"}
Points   == Starting \cup Creating
                \cup {"unborn", "game", "direct", "spawn", "crashed", "overrun"}

Nothing == [fun |-> Garbage, tid |-> Garbage]
NoParam == [fun |-> Garbage, tid |-> Garbage, handle |-> Garbage]

\* main runs in the context RecompilationInit made, with EEThreadID 0.
Init == /\ threads = [i \in Tid |-> Garbage]
        /\ currentThreadIndex = 0
        /\ ctx = Main
        /\ contexts = [c \in Ctx |-> [clean |-> c = Main, gp |-> Garbage, sp |-> Garbage]]
        /\ EEThreadID = 0
        /\ frame = [h \in Host |-> Nothing]
        /\ pc = [h \in Host |-> IF h = Main THEN "game" ELSE "unborn"]
        /\ param = [h \in Host |-> NoParam]
        /\ reg = [h \in Host |-> 0]
        /\ parent = [h \in Host |-> Main]
        /\ created = {}
        /\ want = [h \in Host |-> Nothing]
        /\ dangling = {} /\ overlapped = {}
        /\ discipline \in Disciplines

At(h, p)   == pc[h] = p
Goto(h, p) == pc' = [pc EXCEPT ![h] = p]

Children(h) == {k \in Host : parent[k] = h /\ pc[k] \in Starting}

-----------------------------------------------------------------------------
(* Recomp_CreateThread.  The entry behind a full table is written like any    *)
(* other; what that overwrites is not known, and the model ends there.        *)

CallCreate(h) ==
    /\ At(h, "game")
    /\ "serial_create" \in discipline => \A k \in Host : pc[k] \notin Creating
    /\ "fits" \in discipline => currentThreadIndex \in Tid
    /\ \E f \in Fun : param' = [param EXCEPT ![h].fun = f]
    /\ Goto(h, "fill")
    /\ UNCHANGED <<tables, globals, frame, reg, starts>>

FillEntry(h) ==
    /\ At(h, "fill")
    /\ \/ /\ currentThreadIndex \in Tid
          /\ threads' = [threads EXCEPT ![currentThreadIndex] = param[h].fun]
          /\ Goto(h, "inc_load")
       \/ /\ currentThreadIndex \notin Tid
          /\ Goto(h, "overrun") /\ UNCHANGED threads
    /\ UNCHANGED <<currentThreadIndex, created, discipline, globals, frame, param, reg, starts>>

IncLoad(h) ==
    /\ At(h, "inc_load")
    /\ reg' = [reg EXCEPT ![h] = currentThreadIndex]
    /\ Goto(h, "inc_store")
    /\ UNCHANGED <<tables, globals, frame, param, starts>>

\* Faulty: currentThreadIndex--; an increment that is lost.
IncStoreDown(h) ==
    /\ At(h, "inc_store")
    /\ currentThreadIndex' = reg[h] - 1
    /\ created' = created \cup {[fun |-> param[h].fun, tid |-> reg[h]]}
    /\ Goto(h, "game")
    /\ reg' = [reg EXCEPT ![h] = 0]
    /\ param' = [param EXCEPT ![h] = NoParam]
    /\ UNCHANGED <<threads, discipline, globals, frame, starts>>
IncStoreLost(h) ==
    /\ At(h, "inc_store")
    /\ created' = created \cup {[fun |-> param[h].fun, tid |-> reg[h]]}
    /\ Goto(h, "game")
    /\ reg' = [reg EXCEPT ![h] = 0]
    /\ param' = [param EXCEPT ![h] = NoParam]
    /\ UNCHANGED <<threads, currentThreadIndex, discipline, globals, frame, starts>>

IncStore(h) ==
    /\ At(h, "inc_store")
    /\ currentThreadIndex' = reg[h] + 1
    /\ created' = created \cup {[fun |-> param[h].fun, tid |-> reg[h]]}
    /\ Goto(h, "game")
    /\ reg' = [reg EXCEPT ![h] = 0]
    /\ param' = [param EXCEPT ![h] = NoParam]
    /\ UNCHANGED <<threads, discipline, globals, frame, starts>>

\* The host thread that pthread_create returns next.
Unborn  == {k \in Host : pc[k] = "unborn"}
NewHost == CHOOSE k \in Unborn : TRUE

-----------------------------------------------------------------------------
(* Recomp_StartThread: FunctionLookup, the call in place, pthread_create.    *)
(* What FunctionLookup gives for an address it does not know is not a        *)
(* function; calling it ends the program.                                    *)

\* The function of an entry; behind the table lies something else.
EntryOf(i) == IF i \in Tid THEN threads[i] ELSE Garbage

CallStart(h) ==
    /\ At(h, "game")
    /\ "few" \in discipline => Cardinality(Unborn) > 1
    /\ "serial_start" \in discipline =>
          \A k \in Host : pc[k] \notin Starting \cup {"direct", "spawn"}
    /\ \E c \in created :
          /\ "each_once" \in discipline =>
                \A k \in Host : want[k].tid # c.tid /\ param[k].tid # c.tid
          /\ "in_order" \in discipline =>
                /\ Cardinality(created) = TableSize
                /\ c.tid = Cardinality({k \in Host : want[k] # Nothing})
          /\ param' = [param EXCEPT ![h] =
                       [fun |-> EntryOf(c.tid), tid |-> c.tid, handle |-> c.fun]]
    /\ Goto(h, "direct")
    /\ UNCHANGED <<tables, globals, frame, reg, starts>>

\* function(FindRam(arg)) runs to completion in the starting thread.
DirectCall(h) == /\ At(h, "direct")
                 /\ Goto(h, IF param[h].fun \in Fun THEN "spawn" ELSE "crashed")
                 /\ UNCHANGED <<tables, globals, frame, param, reg, starts>>

\* The start data d goes into the frame and its address to a new host thread.
\* Children that still read the frame find it changed.
SpawnWith(h, d) ==
    /\ At(h, "spawn")
    /\ frame' = [frame EXCEPT ![h] = d]
    /\ Unborn # {}
    /\ pc' = [pc EXCEPT ![h] = "game", ![NewHost] = "alloc"]
    /\ parent' = [parent EXCEPT ![NewHost] = h]
    /\ want' = [want EXCEPT ![NewHost] = [fun |-> param[h].handle, tid |-> param[h].tid]]
    /\ param' = [param EXCEPT ![h] = NoParam]
    /\ dangling' = dangling \cup Children(h)
    /\ overlapped' = LET others == {k \in Host : pc[k] \in Starting}
                     IN  IF others = {} THEN overlapped ELSE overlapped \cup others \cup {NewHost}
    /\ UNCHANGED <<tables, globals, reg>>

\* Faulty: data.threadID or data.function is left unset.
SpawnWithoutID(h)       == SpawnWith(h, [fun |-> param[h].fun, tid |-> Garbage])
SpawnWithoutFunction(h) == SpawnWith(h, [fun |-> Garbage, tid |-> param[h].tid])

Spawn(h) == SpawnWith(h, [fun |-> param[h].fun, tid |-> param[h].tid])

\* The caller has returned: its next function calls reuse the stack on which
\* data was, and the pointer a child still holds dangles.
ReuseFrame(h) ==
    /\ At(h, "game") /\ frame[h] # Nothing /\ Children(h) # {}
    /\ "serial_start" \notin discipline
    /\ frame' = [frame EXCEPT ![h] = Nothing]
    /\ dangling' = dangling \cup Children(h)
    /\ UNCHANGED <<tables, globals, pc, param, reg, parent, want, overlapped>>

-----------------------------------------------------------------------------
(* _StartThread, in the new host thread; data points into the parent's frame. *)

data(h) == frame[parent[h]]

AllocContext(h) ==
    /\ At(h, "alloc")
    /\ ctx' = h
    /\ Goto(h, "memset")
    /\ UNCHANGED <<tables, contexts, EEThreadID, frame, param, reg, starts>>

ClearContext(h) ==
    /\ At(h, "memset")
    /\ contexts' = [contexts EXCEPT ![ctx] = [clean |-> TRUE, gp |-> Garbage, sp |-> Garbage]]
    /\ Goto(h, "set_gp")
    /\ UNCHANGED <<tables, ctx, EEThreadID, frame, param, reg, starts>>

\* Faulty: gp from the global id, not yet the new thread's.
SetGpFromGlobal(h) ==
    /\ At(h, "set_gp")
    /\ contexts' = [contexts EXCEPT ![ctx].gp = EEThreadID]
    /\ Goto(h, "set_sp")
    /\ UNCHANGED <<tables, ctx, EEThreadID, frame, param, reg, starts>>

SetGp(h) ==
    /\ At(h, "set_gp")
    /\ contexts' = [contexts EXCEPT ![ctx].gp = data(h).tid]
    /\ Goto(h, "set_sp")
    /\ UNCHANGED <<tables, ctx, EEThreadID, frame, param, reg, starts>>

SetSp(h) ==
    /\ At(h, "set_sp")
    /\ contexts' = [contexts EXCEPT ![ctx].sp = data(h).tid]
    /\ Goto(h, "set_id")
    /\ UNCHANGED <<tables, ctx, EEThreadID, frame, param, reg, starts>>

SetThreadID(h) ==
    /\ At(h, "set_id")
    /\ EEThreadID' = data(h).tid
    /\ Goto(h, "enter")
    /\ UNCHANGED <<tables, ctx, contexts, frame, param, reg, starts>>

\* Calling a garbage pointer ends the program; otherwise the game runs on.
EnterFunction(h) ==
    /\ At(h, "enter")
    /\ Goto(h, IF data(h).fun \in Fun THEN "game" ELSE "crashed")
    /\ UNCHANGED <<tables, globals, frame, param, reg, starts>>

-----------------------------------------------------------------------------
StartStep(h) == \/ AllocContext(h) \/ ClearContext(h) \/ SetGp(h) \/ SetSp(h)
                \/ SetThreadID(h) \/ EnterFunction(h)
CallStep(h)  == FillEntry(h) \/ IncLoad(h) \/ IncStore(h) \/ DirectCall(h) \/ Spawn(h)

Running == \A h \in Host : pc[h] \notin {"crashed", "overrun"}

Next == /\ Running
        /\ \E h \in Host : \/ CallCreate(h) \/ CallStart(h) \/ ReuseFrame(h)
                        \/ CallStep(h) \/ StartStep(h)

Spec == Init /\ [][Next]_vars

\* The host schedules every thread it has made.
FairSpec == Spec /\ \A h \in Host : WF_vars(Running /\ StartStep(h))

-----------------------------------------------------------------------------
(* Properties. *)

TypeOK ==
    /\ threads \in [Tid -> AnyFun] /\ currentThreadIndex \in Nat
    /\ ctx \in Ctx /\ contexts \in [Ctx -> Context] /\ EEThreadID \in AnyTid
    /\ frame \in [Host -> Data]
    /\ pc \in [Host -> Points]
    /\ param \in [Host -> [fun : AnyFun, tid : AnyTid, handle : AnyFun]]
    /\ reg \in [Host -> Nat]
    /\ parent \in [Host -> Host]
    /\ created \subseteq [fun : Fun, tid : Nat]
    /\ want \in [Host -> Data]
    /\ dangling \subseteq Host /\ overlapped \subseteq Host
    /\ discipline \in Disciplines

\* With creators kept apart, a handle CreateThread returned names one entry and
\* goes on naming the function it was created with; the entries in use are those
\* below the counter, and the table is overrun only when none is left.
HandlesKept ==
    "serial_create" \in discipline =>
        /\ \A c \in created : c.tid \in Tid /\ threads[c.tid] = c.fun
        /\ \A c, d \in created : c.tid = d.tid => c = d
        /\ {c.tid : c \in created} = 0 .. currentThreadIndex - 1
        /\ (\E h \in Host : pc[h] = "overrun") => {c.tid : c \in created} = Tid

\* However many threads start at once, and although each reads its start data out
\* of a stack frame that its starter has left: a thread about to call its function
\* finds the function and id it was started with, unless the frame has changed
\* since; then it finds those of another thread of the same starter, or garbage.
\* A call of garbage is the only crash.
StartsWhatWasAsked ==
    "serial_create" \in discipline =>
        \A h \in Host :
            /\ pc[h] = "enter" =>
                  \/ data(h) = want[h]
                  \/ h \in dangling /\ data(h) \in {Nothing} \cup
                                      {want[k] : k \in {k \in Host : parent[k] = parent[h]}}
            /\ pc[h] = "crashed" => h \in dangling

Settled == \A h \in Host : pc[h] \notin Starting

\* When no start is going on, the register file in use is that of the last thread
\* to install one.  If that thread started alone and found its start data, the
\* file is cleared, its gp and sp belong to the thread it was started as, and
\* EEThreadID names it, whatever earlier starts did to each other.
ContextMatchesID ==
    Settled /\ ctx \notin {Main} \cup overlapped \cup dangling =>
        /\ contexts[ctx] = [clean |-> TRUE, gp |-> EEThreadID, sp |-> EEThreadID]
        /\ EEThreadID = want[ctx].tid

\* Every thread made gets to run its function, unless some thread has found
\* garbage for its function first.
StartsFinish ==
    \A h \in Host : pc[h] = "alloc" ~> \/ pc[h] = "game"
                                       \/ \E k \in dangling : pc[k] = "crashed"

\* ctx and EEThreadID are declared "/* thread_local */": game code of a thread
\* finds the context and the id its own start installed.
ThreadLocal ==
    \A h \in Host \ {Main} : pc[h] = "game" => ctx = h /\ EEThreadID = want[h].tid

=============================================================================
