------------------------------- MODULE EEKernel -------------------------------
(****************************************************************************)
(* The kernel a game calls: EESyscall of src/ps2lib/kernel/ee_syscall.c     *)
(* with the threads of EEThreads and the semaphores of threading/           *)
(* semaphor.c.  The semaphore table is a member of the register context, a  *)
(* start replaces the context, and every statement of a call reads the      *)
(* global ctx anew, also those after a call that has blocked.               *)
(*                                                                          *)
(* One action is one statement; loads and stores of single fields of one    *)
(* table are in EESemaphore.  What a call returns or reports is left out,   *)
(* and with it the calls that do nothing but report.                        *)
(****************************************************************************)
EXTENDS EEThreads, FiniteSetsExt

CONSTANTS
    SemaphoreCount, \* slots of a table
    InitCount,      \* the counts games create semaphores with
    MaxWaits,       \* bound on the waits of a game
    MaxIds,         \* bound on the semaphores it has at a time
    Calls           \* the system calls games make

SemId      == 0 .. SemaphoreCount - 1
TableCall  == {"CREATE_SEMA", "DELETE_SEMA"}
SignalCall == {"SIGNAL_SEMA", "ISIGNAL_SEMA"}
AllCalls   == TableCall \cup SignalCall \cup {"WAIT_SEMA", "POLL_SEMA",
                  "REFER_SEMA_STATUS", "SLEEP_THREAD"}

ASSUME CountAssumption == SemaphoreCount \in Nat \ {0} /\ InitCount \subseteq Nat
ASSUME CallsAssumption == Calls \subseteq AllCalls

VARIABLES
    sema,  \* the semaphores of every context
    at,    \* per host: where in a system call it is, "none" in game code
    call,  \* per host: the call, its id, ctx when it began, a pointer it holds
    ids,   \* the ids games have, with the context each was created in
    held,  \* per host: what it has waited for and not signalled
    stale  \* semaphores used by an id or a hold from another context

semaphores == <<sema, ids, held, stale>>
kernel     == <<sema, at, call, ids, held, stale>>
everything == <<vars, kernel>>

Sema  == [valid : BOOLEAN, count : Int, waiting : Nat, locked : BOOLEAN]
Empty == [valid |-> FALSE, count |-> 0, waiting |-> 0, locked |-> FALSE]
\* What malloc returns, until it is cleared.
Junk  == [valid |-> TRUE, count |-> 1, waiting |-> 0, locked |-> TRUE]

NoCall == [op |-> "none", id |-> 0, home |-> Main, addr |-> Main]

KernelInit ==
    /\ Init
    /\ sema = [c \in Ctx |-> [i \in SemId |-> IF c = Main THEN Empty ELSE Junk]]
    /\ at = [h \in Host |-> "none"]
    /\ call = [h \in Host |-> NoCall]
    /\ ids = {} /\ held = [h \in Host |-> {}] /\ stale = {}

-----------------------------------------------------------------------------
(* Games. *)

InGame(h)  == at[h] = "none" /\ pc[h] \in {"game", "direct"}
Blocked(h) == \/ at[h] = "lock" /\ sema[call[h].addr][call[h].id].locked
              \/ at[h] = "asleep"

\* A quiet game makes a system call, and lets StartThread make a thread, when
\* all its other threads are in game code or blocked: the EE runs one thread at a
\* time, and its kernel one call.
Idle(h)  == (at[h] = "none" \/ Blocked(h)) /\ pc[h] \notin Starting \cup Creating
Quiet == "quiet" \in discipline => \A k \in Host : Idle(k)

\* Only quiet games use semaphores here.
UsesKernel(h) == InGame(h) /\ "quiet" \in discipline /\ Quiet

Known      == {p[2] : p \in ids}
HeldIds(h) == {p[2] : p \in held[h]}
Unused(i)  == \A h \in Host : /\ i \notin HeldIds(h)
                              /\ call[h].op \in AllCalls \ {"CREATE_SEMA"} => call[h].id # i
Waits      == MapThenSumSet(LAMBDA p : sema[p[1]][p[2]].waiting, Ctx \X SemId)
TableFree  == \A h \in Host : call[h].op \notin TableCall

MayCallOn(h, o, i) ==
    \/ o = "CREATE_SEMA" /\ i = 0 /\ TableFree /\ Cardinality(ids) < MaxIds
    \/ o = "DELETE_SEMA" /\ i \in Known /\ Unused(i) /\ TableFree
    \/ o \in SignalCall /\ i \in HeldIds(h)
    \/ o = "WAIT_SEMA" /\ i \in Known \ HeldIds(h) /\ Waits < MaxWaits
    \/ o \in {"POLL_SEMA", "REFER_SEMA_STATUS"} /\ i \in Known
    \/ o = "SLEEP_THREAD" /\ i = 0

Stale(h, o, i) == \/ o \in {"WAIT_SEMA", "POLL_SEMA"} /\ <<ctx, i>> \notin ids
                  \/ o \in SignalCall /\ <<ctx, i>> \notin held[h]

-----------------------------------------------------------------------------
(* EESyscall.  Arguments are read from ctx, which the call stores its result *)
(* to when it returns.                                                       *)

Entry == [o \in AllCalls |->
    CASE o = "CREATE_SEMA"       -> "scan"
      [] o = "DELETE_SEMA"       -> "del"
      [] o = "SIGNAL_SEMA"       -> "sig"
      [] o = "ISIGNAL_SEMA"      -> "isig"
      [] o = "WAIT_SEMA"         -> "enter"
      [] o = "POLL_SEMA"         -> "test"
      [] o = "REFER_SEMA_STATUS" -> "refer"
      [] o = "SLEEP_THREAD"      -> "asleep"]

CallKernel(h, o, i) ==
    /\ UsesKernel(h) /\ MayCallOn(h, o, i)
    /\ at' = [at EXCEPT ![h] = Entry[o]]
    /\ call' = [call EXCEPT ![h] = [op |-> o, id |-> i, home |-> ctx, addr |-> ctx]]
    /\ ids' = IF o = "DELETE_SEMA" THEN {p \in ids : p[2] # i} ELSE ids
    /\ stale' = IF Stale(h, o, i) THEN stale \cup {<<ctx, i>>} ELSE stale
    /\ UNCHANGED <<vars, sema, held>>

StoreResult(h) ==
    /\ at[h] = "store"
    /\ at' = [at EXCEPT ![h] = "none"]
    /\ call' = [call EXCEPT ![h] = NoCall]
    /\ UNCHANGED <<vars, semaphores>>

-----------------------------------------------------------------------------
(* The Kernel_*Sema functions. *)

Advance(h, p) == at' = [at EXCEPT ![h] = p] /\ UNCHANGED vars
Here(h)     == sema[ctx][call[h].id]
SetHere(h, s) == sema' = [sema EXCEPT ![ctx][call[h].id] = s]

\* The first free slot, if there is one; &ctx->ee_semaphors[sem_id]; the record.
Scan(h) ==
    LET free == {i \in SemId : ~sema[ctx][i].valid}
    IN  /\ at[h] = "scan"
        /\ IF free = {} THEN Advance(h, "store") /\ UNCHANGED call
           ELSE /\ Advance(h, "slot")
                /\ \E i \in free : /\ \A j \in free : i <= j
                                   /\ call' = [call EXCEPT ![h].id = i]
        /\ UNCHANGED semaphores

TakeSlot(h) == /\ at[h] = "slot" /\ Advance(h, "fill")
               /\ call' = [call EXCEPT ![h].addr = ctx]
               /\ UNCHANGED semaphores

Fill(h) ==
    /\ at[h] = "fill" /\ Advance(h, "store")
    /\ \E n \in InitCount :
          sema' = [sema EXCEPT ![call[h].addr][call[h].id] =
                      [valid |-> TRUE, count |-> n, waiting |-> 0, locked |-> FALSE]]
    /\ ids' = ids \cup {<<call[h].addr, call[h].id>>}
    /\ UNCHANGED <<call, held, stale>>

Delete(h) ==
    /\ \/ at[h] = "del" /\ Advance(h, IF Here(h).valid THEN "zero" ELSE "store") /\ UNCHANGED sema
       \/ at[h] = "zero" /\ Advance(h, "store") /\ SetHere(h, Empty)
    /\ UNCHANGED <<call, ids, held, stale>>

TestWaiting(h) ==
    /\ at[h] = "sig" /\ Advance(h, IF Here(h).waiting <= 0 THEN "inc" ELSE "isig")
    /\ UNCHANGED <<call, semaphores>>

Raise(h) == /\ at[h] = "inc" /\ Advance(h, "isig")
            /\ SetHere(h, [Here(h) EXCEPT !.count = @ + 1])
            /\ UNCHANGED <<call, ids, held, stale>>

\* The game counts its hold as given up whatever iSignalSema does.
LetGo(h) == held' = [held EXCEPT ![h] = {p \in @ : p[2] # call[h].id}]

TestZero(h) ==
    /\ at[h] = "isig"
    /\ IF Here(h).count = 0 THEN Advance(h, "unlock") /\ UNCHANGED held
                            ELSE Advance(h, "store") /\ LetGo(h)
    /\ UNCHANGED <<call, sema, ids, stale>>

\* Faulty: iSignalSema returns -2 without unlocking.
UnlockForgotten(h) ==
    /\ at[h] = "unlock" /\ Advance(h, "store") /\ LetGo(h)
    /\ UNCHANGED <<call, sema, ids, stale>>

Unlock(h) == /\ at[h] = "unlock" /\ Advance(h, "store") /\ LetGo(h)
             /\ SetHere(h, [Here(h) EXCEPT !.locked = FALSE])
             /\ UNCHANGED <<call, ids, stale>>

EnterWait(h) == /\ at[h] = "enter" /\ Advance(h, "test")
                /\ SetHere(h, [Here(h) EXCEPT !.waiting = @ + 1])
                /\ UNCHANGED <<call, ids, held, stale>>

AfterTest(h) == IF call[h].op = "WAIT_SEMA" THEN "mutex" ELSE "store"

TestCount(h) ==
    /\ at[h] = "test" /\ Advance(h, IF Here(h).count > 0 THEN "dec" ELSE AfterTest(h))
    /\ UNCHANGED <<call, semaphores>>

Lower(h) == /\ at[h] = "dec" /\ Advance(h, AfterTest(h))
            /\ SetHere(h, [Here(h) EXCEPT !.count = @ - 1])
            /\ UNCHANGED <<call, ids, held, stale>>

\* The argument of pthread_mutex_lock is computed before it blocks.
TakeMutex(h) == /\ at[h] = "mutex" /\ Advance(h, "lock")
                /\ call' = [call EXCEPT ![h].addr = ctx]
                /\ UNCHANGED semaphores

LockAt(h, c) ==
    /\ at[h] = "lock" /\ Advance(h, "store")
    /\ sema' = [sema EXCEPT ![c][call[h].id].locked = TRUE]
    /\ held' = [held EXCEPT ![h] = @ \cup {<<c, call[h].id>>}]
    /\ UNCHANGED <<call, ids, stale>>

\* Faulty: a lock whose failure is ignored; a wait that retries on ctx.
LockIgnoringBusy(h) == LockAt(h, call[h].addr)
LockRetrying(h)     == ~sema[ctx][call[h].id].locked /\ LockAt(h, ctx)

Lock(h) == ~sema[call[h].addr][call[h].id].locked /\ LockAt(h, call[h].addr)

ReferSema(h) == at[h] = "refer" /\ Advance(h, "store") /\ UNCHANGED <<call, semaphores>>

KernelStep(h) ==
    \/ Scan(h) \/ TakeSlot(h) \/ Fill(h) \/ Delete(h)
    \/ TestWaiting(h) \/ Raise(h) \/ TestZero(h) \/ Unlock(h)
    \/ EnterWait(h) \/ TestCount(h) \/ Lower(h) \/ TakeMutex(h) \/ Lock(h)
    \/ ReferSema(h) \/ StoreResult(h)

-----------------------------------------------------------------------------
(* Threads, as in EEThreads.  CreateThread leaves a result; a cleared context *)
(* has no semaphores.                                                         *)

CreateResult(h) ==
    /\ at[h] = "none" /\ IncStore(h)
    /\ at' = [at EXCEPT ![h] = "store"]
    /\ UNCHANGED <<sema, call, ids, held, stale>>

AskCreate(h) ==
    /\ InGame(h) /\ Quiet /\ CallCreate(h)
    /\ call' = [call EXCEPT ![h].home = ctx]
    /\ UNCHANGED <<sema, at, ids, held, stale>>

\* Faulty: the memory of the parent's context is cleared, too.
ClearTableOfParent(h) ==
    /\ ClearContext(h)
    /\ sema' = [sema EXCEPT ![ctx] = [i \in SemId |-> Empty],
                            ![parent[h]] = [i \in SemId |-> Empty]]
    /\ UNCHANGED <<at, call, ids, held, stale>>

ClearTable(h) ==
    /\ ClearContext(h)
    /\ sema' = [sema EXCEPT ![ctx] = [i \in SemId |-> Empty]]
    /\ UNCHANGED <<at, call, ids, held, stale>>

AskStart(h) == InGame(h) /\ Quiet /\ CallStart(h) /\ UNCHANGED kernel

CreateStep(h) == (FillEntry(h) \/ IncLoad(h)) /\ UNCHANGED kernel

RunStart(h) ==
    /\ at[h] = "none"
    /\ DirectCall(h) \/ ReuseFrame(h) \/ (Quiet /\ Spawn(h))
    /\ UNCHANGED kernel

KernelStart(h) ==
    \/ ClearTable(h)
    \/ (AllocContext(h) \/ SetGp(h) \/ SetSp(h) \/ SetThreadID(h) \/ EnterFunction(h))
          /\ UNCHANGED kernel

KernelNext ==
    /\ Running
    /\ \E h \in Host :
          \/ AskCreate(h) \/ CreateStep(h) \/ CreateResult(h)
          \/ AskStart(h) \/ RunStart(h) \/ KernelStart(h)
          \/ KernelStep(h)
          \/ \E o \in Calls, i \in SemId : CallKernel(h, o, i)

KernelSpec == KernelInit /\ [][KernelNext]_everything

\* The host schedules its threads; a game signals what it holds in the end.
GiveBack(h) == \E i \in HeldIds(h), o \in Calls \cap SignalCall : CallKernel(h, o, i)

HostStep(h) == Running /\ (KernelStart(h) \/ KernelStep(h) \/ GiveBack(h))
FairKernel  == KernelSpec /\ \A h \in Host : WF_everything(HostStep(h))

-----------------------------------------------------------------------------
(* Properties. *)

Pair == Ctx \X SemId

KernelTypeOK ==
    /\ TypeOK
    /\ sema \in [Ctx -> [SemId -> Sema]]
    /\ at \in [Host -> {Entry[o] : o \in AllCalls} \cup {"none", "slot", "fill", "zero",
                 "inc", "unlock", "dec", "mutex", "lock", "store"}]
    /\ call \in [Host -> [op : Calls \cup {"none"}, id : SemId, home : Ctx, addr : Ctx]]
    /\ ids \subseteq Pair /\ held \in [Host -> SUBSET Pair] /\ stale \subseteq Pair

\* A call that can go on is in the register file it began in, and that file has
\* been cleared: no statement of it reads another's table, and no thread that a
\* start has left behind in WaitSema comes back to a file that is not its own.
CallsUntorn ==
    "quiet" \in discipline =>
        \A h \in Host : at[h] # "none" /\ ~Blocked(h) =>
            ctx = call[h].home /\ contexts[ctx].clean

\* The thread a start leaves behind in WaitSema waits forever: the mutex it
\* sleeps on is in a table that no call reaches any more.
StrandedForever ==
    [][\A h \in Host : at[h] = "lock" /\ Blocked(h) /\ call[h].addr # ctx =>
          at'[h] = "lock" /\ Blocked(h)']_everything

\* Two threads hold one semaphore only where an id, or a hold, was carried over
\* a start into a context where it means another semaphore or none.
ExclusionPerContext ==
    \A h, k \in Host : h # k => held[h] \cap held[k] \subseteq stale

\* Under a fair scheduler, a thread that waits on a semaphore of count zero is
\* not left behind unless a start strands it.
WaitsFor(h, p) == at[h] = "lock" /\ <<call[h].addr, call[h].id>> = p

WaitersServed ==
    \A p \in Pair :
        (\E h \in Host : WaitsFor(h, p))
            ~> \/ \E h \in Host : p \in held[h]
               \/ p[1] # ctx \/ p \in stale \/ sema[p[1]][p[2]].count # 0

=============================================================================
