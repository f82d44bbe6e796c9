----------------------------- MODULE EESemaphore -----------------------------
(****************************************************************************)
(* The kernel semaphores of src/ps2lib/threading/semaphor.c: a table        *)
(* ctx->ee_semaphors of records that host threads use through the           *)
(* Kernel_*Sema calls.  Nothing in the code protects the table, so one      *)
(* action is one load or one store of a shared field; only the host mutex   *)
(* inside a record is atomic.  max_count and option are copied by           *)
(* CreateSema and reported by ReferSemaStatus, never consulted: left out.   *)
(*                                                                          *)
(* The clients are games, and usage says how the games at hand use their    *)
(* semaphores, from plain locks to no rule at all: MayCall.                 *)
(****************************************************************************)
EXTENDS Integers

CONSTANTS
    Thread,          \* host threads running recompiled code
    SemaphoreCount,  \* ee_semaphore_count, 256 in the code
    InitCount,       \* the init_count values games pass to CreateSema
    Cap,             \* bound on wait_threads, which the code never decrements,
                     \* and on the count at which a signal is still begun
    Calls,           \* the calls the clients make
    SerialTable,     \* TRUE: clients never overlap CreateSema and DeleteSema
    Usages           \* the ways of using semaphores considered

SemId == 0 .. SemaphoreCount - 1

AllCalls == {"CreateSema", "DeleteSema", "SignalSema", "iSignalSema",
             "WaitSema", "PollSema", "ReferSemaStatus"}

ASSUME CountAssumption == SemaphoreCount \in Nat \ {0}
ASSUME InitAssumption  == InitCount \subseteq Nat
ASSUME CapAssumption   == Cap \in Nat
ASSUME CallAssumption  == Calls \subseteq AllCalls
ASSUME FlagAssumption  == SerialTable \in BOOLEAN
\* As a lock: a signal comes from who has waited.  Ahead: a semaphore nobody has
\* waited on yet may also be signalled.  Free: any client signals and waits at
\* any time, as producers and consumers do.
ASSUME UsageAssumption == Usages \subseteq {"lock", "ahead", "free"}

VARIABLES
    isValid, count, waitThreads, \* fields of ctx->ee_semaphors[i]
    locked,                      \* its pthread mutex, TRUE while taken
    pc, op, id,                  \* where a thread is, its call, its argument
    reg,                         \* the value its last load left in a register
    result, status,              \* what its last call returned and reported
    live,                        \* ids returned by CreateSema, not yet deleted
    holding,                     \* per thread, ids waited for and not signalled
    usage                        \* how these games use their semaphores

table  == <<isValid, count, waitThreads, locked>>
client == <<live, holding, usage>>
vars   == <<isValid, count, waitThreads, locked,
            pc, op, id, reg, result, status, live, holding, usage>>

Point == {"idle", "scan", "set_count", "set_wait", "set_valid", "set_mutex",
          "del_test", "del_zero", "sig_test", "inc_load", "inc_store",
          "isig_test", "unlock", "enter_load", "enter_store", "test",
          "dec_load", "dec_store", "lock", "ref_valid", "ref_count", "ref_wait"}

\* Where each call begins.
Entry == [o \in AllCalls |->
            CASE o = "CreateSema"      -> "scan"
              [] o = "DeleteSema"      -> "del_test"
              [] o = "SignalSema"      -> "sig_test"
              [] o = "iSignalSema"     -> "isig_test"
              [] o = "WaitSema"        -> "enter_load"
              [] o = "PollSema"        -> "test"
              [] o = "ReferSemaStatus" -> "ref_valid"]

TableCall  == {"CreateSema", "DeleteSema"}
SignalCall == {"SignalSema", "iSignalSema"}

Using(t, i)   == op[t] \in AllCalls \ {"CreateSema"} /\ id[t] = i
Posting(t, i) == op[t] \in SignalCall /\ id[t] = i /\ i \notin holding[t]

\* Nobody holds i and nobody is inside a call on i.
Unused(i) == \A t \in Thread : ~Using(t, i) /\ i \notin holding[t]

Init == /\ isValid = [i \in SemId |-> FALSE]
        /\ count = [i \in SemId |-> 0]
        /\ waitThreads = [i \in SemId |-> 0]
        /\ locked = [i \in SemId |-> FALSE]
        /\ pc = [t \in Thread |-> "idle"]
        /\ op = [t \in Thread |-> "none"]
        /\ id = [t \in Thread |-> 0]
        /\ reg = [t \in Thread |-> 0]
        /\ result = [t \in Thread |-> 0]
        /\ status = [t \in Thread |-> [count |-> 0, waitThreads |-> 0]]
        /\ live = {}
        /\ holding = [t \in Thread |-> {}]
        /\ usage \in Usages

At(t, p)   == pc[t] = p
\* Move on; move on with a freshly loaded value; leave the call.
Goto(t, p) == /\ pc' = [pc EXCEPT ![t] = p]
              /\ UNCHANGED <<op, id, reg, result>>
Load(t, v, p) == /\ pc' = [pc EXCEPT ![t] = p]
                 /\ reg' = [reg EXCEPT ![t] = v]
                 /\ UNCHANGED <<op, id, result>>
Return(t, r) == /\ pc' = [pc EXCEPT ![t] = "idle"]
                /\ op' = [op EXCEPT ![t] = "none"]
                /\ id' = [id EXCEPT ![t] = 0]
                /\ reg' = [reg EXCEPT ![t] = 0]
                /\ result' = [result EXCEPT ![t] = r]

-----------------------------------------------------------------------------
(* The client side. *)

\* What thread t may call on id i.
MayCall(t, o, i) ==
    CASE o = "CreateSema" ->
            i = 0 /\ (SerialTable => \A u \in Thread : op[u] \notin TableCall)
      [] o = "DeleteSema" ->
            /\ i \in live /\ Unused(i)
            /\ SerialTable => \A u \in Thread : op[u] \notin TableCall
      [] o \in SignalCall ->
            \/ i \in holding[t]
            \/ /\ usage \in {"ahead", "free"} /\ i \in live /\ count[i] < Cap
               /\ usage = "ahead" => waitThreads[i] = 0 /\ Unused(i)
      [] o = "WaitSema" ->
            /\ i \in live /\ waitThreads[i] < Cap
            /\ usage # "free" => i \notin holding[t] /\ \A u \in Thread : ~Posting(u, i)
      [] o \in {"PollSema", "ReferSemaStatus"} -> i \in live

Call(t, o, i) ==
    /\ At(t, "idle") /\ MayCall(t, o, i)
    /\ pc' = [pc EXCEPT ![t] = Entry[o]]
    /\ op' = [op EXCEPT ![t] = o]
    /\ id' = [id EXCEPT ![t] = i]
    /\ live' = IF o = "DeleteSema" THEN live \ {i} ELSE live
    /\ UNCHANGED <<table, reg, result, status, holding, usage>>

-----------------------------------------------------------------------------
(* Kernel_CreateSema: first invalid slot, then the fields in source order. *)

Scan(t) ==
    /\ At(t, "scan")
    /\ \/ /\ ~isValid[reg[t]]
          /\ pc' = [pc EXCEPT ![t] = "set_count"]
          /\ id' = [id EXCEPT ![t] = reg[t]]
          /\ UNCHANGED <<op, reg, result>>
       \/ /\ isValid[reg[t]] /\ reg[t] + 1 \in SemId
          /\ Load(t, reg[t] + 1, "scan")
       \/ /\ isValid[reg[t]] /\ reg[t] + 1 \notin SemId
          /\ Return(t, -1)
    /\ UNCHANGED <<table, status, client>>

SetCount(t) == /\ At(t, "set_count")
               /\ \E c \in InitCount : count' = [count EXCEPT ![id[t]] = c]
               /\ Goto(t, "set_wait")
               /\ UNCHANGED <<isValid, waitThreads, locked, status, client>>

SetWait(t) == /\ At(t, "set_wait")
              /\ waitThreads' = [waitThreads EXCEPT ![id[t]] = 0]
              /\ Goto(t, "set_valid")
              /\ UNCHANGED <<isValid, count, locked, status, client>>

\* Faulty: the slot is never marked as taken.
SetValidForgotten(t) == /\ At(t, "set_valid")
                        /\ Goto(t, "set_mutex")
                        /\ UNCHANGED <<table, status, client>>

SetValid(t) == /\ At(t, "set_valid")
               /\ isValid' = [isValid EXCEPT ![id[t]] = TRUE]
               /\ Goto(t, "set_mutex")
               /\ UNCHANGED <<count, waitThreads, locked, status, client>>

SetMutex(t) == /\ At(t, "set_mutex")
               /\ locked' = [locked EXCEPT ![id[t]] = FALSE]
               /\ live' = live \cup {id[t]}
               /\ Return(t, id[t])
               /\ UNCHANGED <<isValid, count, waitThreads, status, holding, usage>>

(* Kernel_DeleteSema: the whole record is zeroed, mutex included. *)

DelTest(t) == /\ At(t, "del_test")
              /\ IF isValid[id[t]] THEN Goto(t, "del_zero") ELSE Return(t, -1)
              /\ UNCHANGED <<table, status, client>>

DelZero(t) == /\ At(t, "del_zero")
              /\ isValid' = [isValid EXCEPT ![id[t]] = FALSE]
              /\ count' = [count EXCEPT ![id[t]] = 0]
              /\ waitThreads' = [waitThreads EXCEPT ![id[t]] = 0]
              /\ locked' = [locked EXCEPT ![id[t]] = FALSE]
              /\ Return(t, 0)
              /\ UNCHANGED <<status, client>>

-----------------------------------------------------------------------------
(* Kernel_SignalSema falls into Kernel_iSignalSema, which unlocks only when *)
(* it reads a count of zero.  The holder gives up its hold either way.      *)

\* Faulty: the count is raised whether somebody has waited or not.
SigTestRaising(t) ==
    /\ At(t, "sig_test")
    /\ Goto(t, "inc_load")
    /\ UNCHANGED <<table, status, client>>

SigTest(t) ==
    /\ At(t, "sig_test")
    /\ Goto(t, IF waitThreads[id[t]] <= 0 THEN "inc_load" ELSE "isig_test")
    /\ UNCHANGED <<table, status, client>>

IncLoad(t) == /\ At(t, "inc_load")
              /\ Load(t, count[id[t]], "inc_store")
              /\ UNCHANGED <<table, status, client>>

IncStore(t) == /\ At(t, "inc_store")
               /\ count' = [count EXCEPT ![id[t]] = reg[t] + 1]
               /\ Goto(t, "isig_test")
               /\ UNCHANGED <<isValid, waitThreads, locked, status, client>>

LetGo(t) == holding' = [holding EXCEPT ![t] = @ \ {id[t]}]

ISigTest(t) ==
    /\ At(t, "isig_test")
    /\ \/ count[id[t]] = 0 /\ Goto(t, "unlock") /\ UNCHANGED holding
       \/ count[id[t]] # 0 /\ Return(t, 0) /\ LetGo(t)
    /\ UNCHANGED <<table, status, live, usage>>

Unlock(t) == /\ At(t, "unlock")
             /\ locked' = [locked EXCEPT ![id[t]] = FALSE]
             /\ Return(t, -2) /\ LetGo(t)
             /\ UNCHANGED <<isValid, count, waitThreads, status, live, usage>>

-----------------------------------------------------------------------------
(* Kernel_WaitSema counts itself in, takes one from a positive count and    *)
(* blocks on the mutex whatever the count was.  Kernel_PollSema is the      *)
(* middle part alone and always returns 0.                                  *)

EnterLoad(t) == /\ At(t, "enter_load")
                /\ Load(t, waitThreads[id[t]], "enter_store")
                /\ UNCHANGED <<table, status, client>>

\* Faulty: wait_threads-- for wait_threads++.
EnterStoreDown(t) == /\ At(t, "enter_store")
                     /\ waitThreads' = [waitThreads EXCEPT ![id[t]] = reg[t] - 1]
                     /\ Goto(t, "test")
                     /\ UNCHANGED <<isValid, count, locked, status, client>>

EnterStore(t) == /\ At(t, "enter_store")
                 /\ waitThreads' = [waitThreads EXCEPT ![id[t]] = reg[t] + 1]
                 /\ Goto(t, "test")
                 /\ UNCHANGED <<isValid, count, locked, status, client>>

AfterDecrement(t) == IF op[t] = "WaitSema" THEN Goto(t, "lock") ELSE Return(t, 0)

\* Faulty: >= for >; a wait that spins on the count instead of taking the mutex.
TestCountFromZero(t) ==
    /\ At(t, "test")
    /\ IF count[id[t]] >= 0 THEN Goto(t, "dec_load") ELSE AfterDecrement(t)
    /\ UNCHANGED <<table, status, client>>
TestCountSpinning(t) ==
    /\ At(t, "test") /\ count[id[t]] > 0
    /\ Goto(t, "dec_load")
    /\ UNCHANGED <<table, status, client>>

TestCount(t) ==
    /\ At(t, "test")
    /\ IF count[id[t]] > 0 THEN Goto(t, "dec_load") ELSE AfterDecrement(t)
    /\ UNCHANGED <<table, status, client>>

DecLoad(t) == /\ At(t, "dec_load")
              /\ Load(t, count[id[t]], "dec_store")
              /\ UNCHANGED <<table, status, client>>

DecStore(t) == /\ At(t, "dec_store")
               /\ count' = [count EXCEPT ![id[t]] = reg[t] - 1]
               /\ AfterDecrement(t)
               /\ UNCHANGED <<isValid, waitThreads, locked, status, client>>

\* Faulty: a trylock whose failure is ignored; wait_threads-- after the lock.
LockIgnoringBusy(t) ==
    /\ At(t, "lock")
    /\ locked' = [locked EXCEPT ![id[t]] = TRUE]
    /\ holding' = [holding EXCEPT ![t] = @ \cup {id[t]}]
    /\ Return(t, 0)
    /\ UNCHANGED <<isValid, count, waitThreads, status, live, usage>>
LockAndUncount(t) ==
    /\ At(t, "lock") /\ ~locked[id[t]]
    /\ locked' = [locked EXCEPT ![id[t]] = TRUE]
    /\ waitThreads' = [waitThreads EXCEPT ![id[t]] = @ - 1]
    /\ holding' = [holding EXCEPT ![t] = @ \cup {id[t]}]
    /\ Return(t, 0)
    /\ UNCHANGED <<isValid, count, status, live, usage>>

Lock(t) == /\ At(t, "lock") /\ ~locked[id[t]]
           /\ locked' = [locked EXCEPT ![id[t]] = TRUE]
           /\ holding' = [holding EXCEPT ![t] = @ \cup {id[t]}]
           /\ Return(t, 0)
           /\ UNCHANGED <<isValid, count, waitThreads, status, live, usage>>

-----------------------------------------------------------------------------
(* Kernel_ReferSemaStatus copies the fields one by one. *)

ReferValid(t) ==
    /\ At(t, "ref_valid")
    /\ IF isValid[id[t]] THEN Goto(t, "ref_count") ELSE Return(t, -1)
    /\ UNCHANGED <<table, status, client>>

ReferCount(t) == /\ At(t, "ref_count")
                 /\ status' = [status EXCEPT ![t].count = count[id[t]]]
                 /\ Goto(t, "ref_wait")
                 /\ UNCHANGED <<table, client>>

ReferWait(t) ==
    /\ At(t, "ref_wait")
    /\ status' = [status EXCEPT ![t].waitThreads = waitThreads[id[t]]]
    /\ Return(t, 0)
    /\ UNCHANGED <<table, client>>

-----------------------------------------------------------------------------
CreateStep(t) == Scan(t) \/ SetCount(t) \/ SetWait(t) \/ SetValid(t) \/ SetMutex(t)
DeleteStep(t) == DelTest(t) \/ DelZero(t)
SignalStep(t) == SigTest(t) \/ IncLoad(t) \/ IncStore(t) \/ ISigTest(t) \/ Unlock(t)
WaitStep(t)   == EnterLoad(t) \/ EnterStore(t) \/ TestCount(t)
                    \/ DecLoad(t) \/ DecStore(t) \/ Lock(t)
ReferStep(t)  == ReferValid(t) \/ ReferCount(t) \/ ReferWait(t)

Step(t) == \/ CreateStep(t) \/ DeleteStep(t) \/ SignalStep(t)
           \/ WaitStep(t) \/ ReferStep(t)

Next == \E t \in Thread :
            \/ Step(t)
            \/ \E o \in Calls, i \in SemId : Call(t, o, i)

Spec == Init /\ [][Next]_vars

\* The host schedules every runnable thread; a game that holds a semaphore
\* signals it in the end.
GiveBack(t) == \E i \in holding[t] : \E o \in Calls \cap SignalCall : Call(t, o, i)

FairSpec == Spec /\ \A t \in Thread : WF_vars(Step(t)) /\ WF_vars(GiveBack(t))

-----------------------------------------------------------------------------
(* Properties. *)

TableType  == /\ isValid \in [SemId -> BOOLEAN]
              /\ count \in [SemId -> Int]
              /\ waitThreads \in [SemId -> Nat]
              /\ locked \in [SemId -> BOOLEAN]
ThreadType == /\ pc \in [Thread -> Point]
              /\ op \in [Thread -> AllCalls \cup {"none"}]
              /\ id \in [Thread -> SemId]
              /\ reg \in [Thread -> Int]
              /\ result \in [Thread -> Int]
ClientType == /\ status \in [Thread -> [count : Int, waitThreads : Nat]]
              /\ live \in SUBSET SemId
              /\ holding \in [Thread -> SUBSET SemId]
              /\ usage \in Usages

TypeOK == TableType /\ ThreadType /\ ClientType

\* Where nobody signals what somebody else has waited for, two threads never both
\* return from WaitSema on one semaphore without a signal in between, whatever
\* the races on count and wait_threads did, and also when the slot was deleted
\* and created anew while it was jammed.
MutualExclusion == usage # "free" => \A t, u \in Thread : t # u => holding[t] \cap holding[u] = {}

\* The slot CreateSema is filling is never an id some client already has.
LiveIdsAreFresh ==
    \A t \in Thread :
        pc[t] \in {"set_count", "set_wait", "set_valid", "set_mutex"}
            => id[t] \notin live

\* However many updates the unlocked wait_threads++ loses, it never hides from
\* SignalSema that somebody waited: only a semaphore nobody has entered yet
\* gets its count raised.  Not so where a signal may race with the first wait.
NoRaiseOnceWaited ==
    usage # "free" => \A t \in Thread : pc[t] \in {"inc_load", "inc_store"} => waitThreads[id[t]] = 0

\* Nobody holds the mutex and it is still taken: its last signal found a count
\* other than zero and left it so.
Jammed(i) == /\ i \in live /\ locked[i]
             /\ \A t \in Thread : i \notin holding[t]

\* The count of a taken semaphore has sunk below zero, after a wait and a poll,
\* or two waits, both passed the test for the last unit; no thread is about to
\* write a value that brings it back, or to unlock.
Sunk(i) == /\ i \in live /\ locked[i] /\ count[i] < 0 /\ waitThreads[i] > 0
           /\ \A t \in Thread : id[t] = i =>
                 /\ pc[t] \notin {"inc_load", "inc_store", "unlock"}
                 /\ pc[t] = "dec_store" => reg[t] <= 0

\* A semaphore whose count has sunk below zero is lost: however it is used and
\* whoever signals it, SignalSema neither raises its count nor unlocks, and
\* every wait on it blocks, until it is deleted.
SunkStays == \A i \in SemId : Sunk(i) => Sunk(i)' \/ i \notin live'

SunkIsLost == [][SunkStays]_vars

\* A semaphore created with count 0 and never signalled ahead never jams: every
\* signal by its holder reads count 0 and unlocks.
ZeroNeverJams == InitCount = {0} /\ usage = "lock" => \A i \in SemId : ~Jammed(i)

Waiting(i) == \E t \in Thread : op[t] = "WaitSema" /\ id[t] = i

\* A thread in WaitSema is never left behind by idle peers: somebody comes to
\* hold the semaphore, or it is jammed.
WaitersProgress ==
    \A i \in SemId :
        Waiting(i) ~> (Jammed(i) \/ \E t \in Thread : i \in holding[t])

\* The semaphores of games that signal only what they have waited for, or what
\* nobody has waited for yet, implement a family of jammable binary locks.
Locking     == usage # "free"
HolderOf(i) == {t \in Thread : Locking /\ i \in holding[t]}
StateOf(i)  == IF ~Locking \/ i \notin live THEN "absent"
               ELSE IF HolderOf(i) # {} THEN "taken"
               ELSE IF locked[i] THEN "jammed" ELSE "free"
LockState   == [i \in SemId |-> StateOf(i)]
LockHolder  == [i \in SemId |-> HolderOf(i)]

Abstract == INSTANCE BinaryLock
                WITH LockId <- SemId, state <- LockState, holder <- LockHolder

ImplementsBinaryLock == Abstract!Spec

=============================================================================
