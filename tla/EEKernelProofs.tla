---------------------------- MODULE EEKernelProofs ----------------------------
(****************************************************************************)
(* Proofs about EEKernel, for any host threads, functions, tables, bounds   *)
(* and disciplines.  First, whatever a game does with the kernel, its       *)
(* threads behave as in EEThreads.  Then, in a quiet game, calls stay in    *)
(* the register file they began in, because a start or a creation and a     *)
(* call that goes on exclude each other; and semaphores exclude, as long as *)
(* no id or hold is carried over a start.                                   *)
(****************************************************************************)
EXTENDS EEKernel, EEThreadsProofs

-----------------------------------------------------------------------------
(* The invariant. *)

\* In a system call, and able to go on.
Awake(h) == at[h] # "none" /\ ~Blocked(h)
Making   == Starting \cup Creating
QuietGame == "quiet" \in discipline

\* Games that are not quiet only create threads.
LoudGames ==
    ~QuietGame => ids = {} /\ \A h \in Host : at[h] \in {"none", "store"} /\ held[h] = {}

\* System calls are made by game code.
CallsInGame == \A h \in Host : at[h] # "none" => pc[h] \in {"game", "direct"}

\* One thread at a time is created or starts, and no call goes on meanwhile.
OneMaking   == QuietGame => \A h, k \in Host : pc[h] \in Making /\ pc[k] \in Making => h = k
MakingAlone == QuietGame => \A h, k \in Host : pc[h] \in Making => ~Awake(k)

\* A register file in use is the one being cleared, or is clear.
FilesCleared ==
    QuietGame =>
        /\ \A h \in Host : /\ pc[h] = "memset" => ctx = h
                           /\ pc[h] \in {"unborn", "alloc", "memset"} => ~contexts[h].clean
        /\ ~contexts[ctx].clean => pc[ctx] = "memset"

\* A call that goes on is at home, and what it points to is there.
CallsAtHome ==
    QuietGame =>
        \A h \in Host : /\ pc[h] \in Creating => call[h].home = ctx
                        /\ at[h] # "none" => contexts[call[h].home].clean
                        /\ at[h] \in {"lock", "fill"} => call[h].addr = call[h].home
                        /\ Awake(h) => call[h].home = ctx

\* Calls go on together only when one has woken the others and returns.
OneAwake ==
    QuietGame =>
        \A h, k \in Host : Awake(h) /\ Awake(k) /\ h # k => at[h] \in {"lock", "store"}

CallsInv == /\ LoudGames /\ CallsInGame /\ OneMaking /\ MakingAlone
            /\ FilesCleared /\ CallsAtHome /\ OneAwake

SemaOf(h) == <<call[h].home, call[h].id>>

\* What the call of a host works on.
PointOK(h) ==
    /\ at[h] \in {"enter", "mutex", "lock"} => call[h].op = "WAIT_SEMA"
    /\ at[h] \in {"enter", "test", "dec", "mutex", "lock"} /\ call[h].op = "WAIT_SEMA" =>
          SemaOf(h) \in ids \cup stale
    /\ at[h] \in {"sig", "inc", "isig", "unlock"} => SemaOf(h) \in held[h] \cup stale
    /\ at[h] \in {"slot", "fill"} => ~sema[call[h].home][call[h].id].valid
    /\ at[h] \in {"del", "zero"} =>
          call[h].id \notin Known /\ \A k \in Host : call[h].id \notin HeldIds(k)

\* What games know of, and what they hold.
IdsValid    == \A p \in ids : contexts[p[1]].clean /\ sema[p[1]][p[2]].valid
HoldsLocked == \A h \in Host : \A p \in held[h] :
                  /\ contexts[p[1]].clean
                  /\ p \notin stale => sema[p[1]][p[2]].valid /\ sema[p[1]][p[2]].locked

SemasInv == /\ \A h \in Host : PointOK(h)
            /\ IdsValid /\ HoldsLocked /\ ExclusionPerContext

-----------------------------------------------------------------------------
(* The threads of a game that calls the kernel. *)

\* A statement of a call on semaphores leaves the threads alone, and only a host in
\* a call, which is not blocked, executes one.
LEMMA KernelStepAwake ==
    ASSUME NEW h \in Host, KernelStep(h)
    PROVE  UNCHANGED vars /\ Awake(h)
<1> USE DEF Advance, Awake, Blocked
<1>1. CASE Scan(h)
  BY <1>1 DEF Scan
<1>2. CASE TakeSlot(h) \/ Fill(h) \/ Delete(h)
  BY <1>2 DEF TakeSlot, Fill, Delete
<1>3. CASE TestWaiting(h) \/ Raise(h) \/ TestZero(h) \/ Unlock(h)
  BY <1>3 DEF TestWaiting, Raise, TestZero, Unlock
<1>4. CASE EnterWait(h) \/ TestCount(h) \/ Lower(h) \/ TakeMutex(h)
  BY <1>4 DEF EnterWait, TestCount, Lower, TakeMutex
<1>5. CASE Lock(h)
  BY <1>5 DEF Lock, LockAt
<1>6. CASE ReferSema(h) \/ StoreResult(h)
  BY <1>6 DEF ReferSema, StoreResult
<1> QED BY <1>1, <1>2, <1>3, <1>4, <1>5, <1>6 DEF KernelStep

\* Every step of the kernel is one of EEThreads, or leaves the threads alone.
LEMMA KernelStepIsThreadStep == [KernelNext]_everything => [Next]_vars
<1> SUFFICES ASSUME KernelNext
             PROVE  [Next]_vars
  BY DEF everything
<1>1. Running
  BY DEF KernelNext
<1> PICK h \in Host : \/ AskCreate(h) \/ CreateStep(h) \/ CreateResult(h)
                      \/ AskStart(h) \/ RunStart(h) \/ KernelStart(h)
                      \/ KernelStep(h)
                      \/ \E o \in Calls, i \in SemId : CallKernel(h, o, i)
  BY DEF KernelNext
<1>2. CASE AskCreate(h) \/ CreateStep(h) \/ CreateResult(h)
  BY <1>1, <1>2 DEF AskCreate, CreateStep, CreateResult, Next, CallStep
<1>3. CASE AskStart(h) \/ RunStart(h)
  BY <1>1, <1>3 DEF AskStart, RunStart, Next, CallStep
<1>4. CASE KernelStart(h)
  BY <1>1, <1>4 DEF KernelStart, ClearTable, Next, StartStep
<1>5. CASE KernelStep(h)
  BY <1>5, KernelStepAwake
<1>6. CASE \E o \in Calls, i \in SemId : CallKernel(h, o, i)
  BY <1>6 DEF CallKernel
<1> QED BY <1>2, <1>3, <1>4, <1>5, <1>6

\* However system calls and threads interleave, the threads of a game that calls the
\* kernel do what those of EEThreads do.
THEOREM KernelRefinesThreads == KernelSpec => Spec
<1>1. KernelInit => Init
  BY DEF KernelInit
<1> QED BY <1>1, KernelStepIsThreadStep, PTL DEF KernelSpec, Spec

-----------------------------------------------------------------------------
(* Types. *)

\* What EESyscall may branch to.
LEMMA EntryPoint ==
    ASSUME NEW o \in AllCalls
    PROVE  /\ Entry[o] \in {Entry[e] : e \in AllCalls}
           /\ Entry[o] \in {"scan", "del", "sig", "isig", "enter", "test", "refer", "asleep"}
           /\ Entry[o] = "scan" => o = "CREATE_SEMA"
           /\ Entry[o] = "del" => o = "DELETE_SEMA"
           /\ Entry[o] \in {"sig", "isig"} => o \in SignalCall
           /\ Entry[o] = "enter" => o = "WAIT_SEMA"
           /\ Entry[o] = "test" => o = "POLL_SEMA"
BY DEF Entry, AllCalls, TableCall, SignalCall

AtPoint == {Entry[o] : o \in AllCalls} \cup
              {"none", "slot", "fill", "zero", "inc", "unlock", "dec", "mutex", "lock", "store"}

\* Every point of a call that its statements go to.
LEMMA AtPoints ==
    {"none", "isig", "test", "slot", "fill", "zero", "inc", "unlock", "dec", "mutex", "lock", "store"}
        \subseteq AtPoint
<1>1. /\ {"ISIGNAL_SEMA", "POLL_SEMA"} \subseteq AllCalls
      /\ Entry["ISIGNAL_SEMA"] = "isig" /\ Entry["POLL_SEMA"] = "test"
  BY DEF Entry, AllCalls, TableCall, SignalCall
<1> QED BY <1>1 DEF AtPoint

\* A store to one semaphore.
LEMMA SemaStored ==
    ASSUME NEW f \in [Ctx -> [SemId -> Sema]], NEW c \in Ctx, NEW i \in SemId, NEW s \in Sema
    PROVE  [f EXCEPT ![c][i] = s] \in [Ctx -> [SemId -> Sema]]
<1>1. [f[c] EXCEPT ![i] = s] \in [SemId -> Sema]
  OBVIOUS
<1> QED BY <1>1

CallRecord == [op : Calls \cup {"none"}, id : SemId, home : Ctx, addr : Ctx]

\* A store to one field of what a call holds.
LEMMA CallStored ==
    ASSUME NEW f \in [Host -> CallRecord], NEW h \in Host
    PROVE  /\ \A i \in SemId : [f EXCEPT ![h].id = i] \in [Host -> CallRecord]
           /\ \A c \in Ctx : [f EXCEPT ![h].addr = c] \in [Host -> CallRecord]
           /\ \A c \in Ctx : [f EXCEPT ![h].home = c] \in [Host -> CallRecord]
<1>1. /\ \A i \in SemId : [f[h] EXCEPT !.id = i] \in CallRecord
      /\ \A c \in Ctx : [f[h] EXCEPT !.addr = c] \in CallRecord
      /\ \A c \in Ctx : [f[h] EXCEPT !.home = c] \in CallRecord
  BY DEF CallRecord
<1> QED BY <1>1

SemaTypes == /\ sema \in [Ctx -> [SemId -> Sema]]
             /\ at \in [Host -> AtPoint] /\ call \in [Host -> CallRecord]
             /\ ids \subseteq Pair /\ held \in [Host -> SUBSET Pair] /\ stale \subseteq Pair

\* What the actions store.
LEMMA SemaValues ==
    /\ Empty \in Sema /\ Junk \in Sema /\ NoCall \in CallRecord
    /\ \A n \in InitCount : [valid |-> TRUE, count |-> n, waiting |-> 0, locked |-> FALSE] \in Sema
    /\ \A s \in Sema : /\ [s EXCEPT !.count = @ + 1] \in Sema
                       /\ [s EXCEPT !.count = @ - 1] \in Sema
                       /\ [s EXCEPT !.waiting = @ + 1] \in Sema
                       /\ [s EXCEPT !.locked = FALSE] \in Sema
                       /\ [s EXCEPT !.locked = TRUE] \in Sema
<1>1. Empty \in Sema /\ Junk \in Sema
  BY DEF Empty, Junk, Sema
<1>2. NoCall \in CallRecord
  BY CountAssumption, MainAssumption DEF NoCall, CallRecord, SemId, Ctx
<1>3. \A n \in InitCount : [valid |-> TRUE, count |-> n, waiting |-> 0, locked |-> FALSE] \in Sema
  BY CountAssumption DEF Sema
<1>4. ASSUME NEW s \in Sema
      PROVE  /\ [s EXCEPT !.count = @ + 1] \in Sema
             /\ [s EXCEPT !.count = @ - 1] \in Sema
             /\ [s EXCEPT !.waiting = @ + 1] \in Sema
             /\ [s EXCEPT !.locked = FALSE] \in Sema
             /\ [s EXCEPT !.locked = TRUE] \in Sema
  <2>1. [s EXCEPT !.count = @ + 1] \in Sema /\ [s EXCEPT !.count = @ - 1] \in Sema
    BY DEF Sema
  <2>2. [s EXCEPT !.waiting = @ + 1] \in Sema
    BY DEF Sema
  <2>3. [s EXCEPT !.locked = FALSE] \in Sema /\ [s EXCEPT !.locked = TRUE] \in Sema
    BY DEF Sema
  <2> QED BY <2>1, <2>2, <2>3
<1> QED BY <1>1, <1>2, <1>3, <1>4

\* The initial state has the types.
LEMMA SemaTypesInit == KernelInit => SemaTypes
BY SemaValues, AtPoints DEF KernelInit, SemaTypes

\* The statements of CreateSema and DeleteSema keep the types.
LEMMA TableCallTypes ==
    ASSUME ctx \in Ctx, SemaTypes, NEW h \in Host, Scan(h) \/ TakeSlot(h) \/ Fill(h) \/ Delete(h)
    PROVE  SemaTypes'
<1> USE AtPoints DEF SemaTypes, Advance
<1>1. CASE Scan(h)
  <2> DEFINE free == {i \in SemId : ~sema[ctx][i].valid}
  <2>1. \/ at' = [at EXCEPT ![h] = "store"] /\ UNCHANGED call
        \/ /\ at' = [at EXCEPT ![h] = "slot"]
           /\ \E i \in SemId : call' = [call EXCEPT ![h].id = i]
    BY <1>1 DEF Scan
  <2>2. call' \in [Host -> CallRecord]
    BY <2>1, CallStored
  <2> QED BY <1>1, <2>1, <2>2 DEF Scan, semaphores
<1>2. CASE TakeSlot(h)
  <2>1. call' \in [Host -> CallRecord]
    BY <1>2, CallStored DEF TakeSlot
  <2> QED BY <1>2, <2>1 DEF TakeSlot, semaphores
<1>3. CASE Fill(h)
  <2> PICK n \in InitCount :
          sema' = [sema EXCEPT ![call[h].addr][call[h].id] =
                      [valid |-> TRUE, count |-> n, waiting |-> 0, locked |-> FALSE]]
    BY <1>3 DEF Fill
  <2>1. call[h].addr \in Ctx /\ call[h].id \in SemId
    BY DEF CallRecord
  <2>2. sema' \in [Ctx -> [SemId -> Sema]]
    BY <2>1, SemaStored, SemaValues
  <2> QED BY <1>3, <2>1, <2>2 DEF Fill, Pair
<1>4. CASE Delete(h)
  <2>1. call[h].id \in SemId
    BY DEF CallRecord
  <2>2. UNCHANGED sema \/ sema' = [sema EXCEPT ![ctx][call[h].id] = Empty]
    BY <1>4 DEF Delete, SetHere
  <2>3. sema' \in [Ctx -> [SemId -> Sema]]
    <3>1. Empty \in Sema
      BY SemaValues
    <3>2. CASE UNCHANGED sema
      BY <3>2
    <3>3. CASE sema' = [sema EXCEPT ![ctx][call[h].id] = Empty]
      BY <2>1, <3>1, <3>3, SemaStored
    <3> QED BY <2>2, <3>2, <3>3
  <2> QED BY <1>4, <2>3 DEF Delete
<1> QED BY <1>1, <1>2, <1>3, <1>4

\* A store to the record a call works on.
LEMMA HereStored ==
    ASSUME ctx \in Ctx, SemaTypes, NEW h \in Host, NEW s \in Sema, SetHere(h, s)
    PROVE  sema' \in [Ctx -> [SemId -> Sema]]
BY SemaStored DEF SetHere, SemaTypes, CallRecord

\* The record a call works on.
LEMMA HereTyped == ASSUME ctx \in Ctx, SemaTypes, NEW h \in Host
                   PROVE  Here(h) \in Sema
BY DEF Here, SemaTypes, CallRecord

\* The statements of SignalSema and iSignalSema.
LEMMA SignalTypes ==
    ASSUME ctx \in Ctx, SemaTypes, NEW h \in Host,
           TestWaiting(h) \/ Raise(h) \/ TestZero(h) \/ Unlock(h)
    PROVE  SemaTypes'
<1> USE AtPoints DEF SemaTypes, Advance
<1>1. LetGo(h) => held' \in [Host -> SUBSET Pair]
  BY DEF LetGo
<1>2. CASE TestWaiting(h)
  BY <1>2 DEF TestWaiting, semaphores
<1>3. CASE Raise(h)
  <2>1. sema' \in [Ctx -> [SemId -> Sema]]
    BY <1>3, HereTyped, HereStored, SemaValues DEF Raise
  <2> QED BY <1>3, <2>1 DEF Raise
<1>4. CASE TestZero(h)
  BY <1>1, <1>4 DEF TestZero
<1>5. CASE Unlock(h)
  <2>1. sema' \in [Ctx -> [SemId -> Sema]]
    BY <1>5, HereTyped, HereStored, SemaValues DEF Unlock
  <2> QED BY <1>1, <1>5, <2>1 DEF Unlock
<1> QED BY <1>2, <1>3, <1>4, <1>5

\* The statements of WaitSema and PollSema.
LEMMA WaitTypes ==
    ASSUME ctx \in Ctx, SemaTypes, NEW h \in Host,
           EnterWait(h) \/ TestCount(h) \/ Lower(h) \/ TakeMutex(h) \/ Lock(h)
    PROVE  SemaTypes'
<1> USE AtPoints DEF SemaTypes, Advance, AfterTest
<1>1. CASE EnterWait(h)
  <2>1. sema' \in [Ctx -> [SemId -> Sema]]
    BY <1>1, HereTyped, HereStored, SemaValues DEF EnterWait
  <2> QED BY <1>1, <2>1 DEF EnterWait
<1>2. CASE TestCount(h)
  BY <1>2 DEF TestCount, semaphores
<1>3. CASE Lower(h)
  <2>1. sema' \in [Ctx -> [SemId -> Sema]]
    BY <1>3, HereTyped, HereStored, SemaValues DEF Lower
  <2> QED BY <1>3, <2>1 DEF Lower
<1>4. CASE TakeMutex(h)
  <2>1. call' \in [Host -> CallRecord]
    BY <1>4, CallStored DEF TakeMutex
  <2> QED BY <1>4, <2>1 DEF TakeMutex, semaphores
<1>5. CASE Lock(h)
  <2> DEFINE c == call[h].addr
             i == call[h].id
  <2>1. c \in Ctx /\ i \in SemId
    BY DEF CallRecord
  <2>2. [sema[c][i] EXCEPT !.locked = TRUE] \in Sema
    <3>1. sema[c][i] \in Sema
      BY <2>1
    <3>2. \A s \in Sema : [s EXCEPT !.locked = TRUE] \in Sema
      BY SemaValues
    <3> QED BY ONLY <3>1, <3>2
  <2>3. sema' = [sema EXCEPT ![c][i] = [sema[c][i] EXCEPT !.locked = TRUE]]
    BY <1>5, <2>1 DEF Lock, LockAt
  <2>4. sema' \in [Ctx -> [SemId -> Sema]]
    BY <2>1, <2>2, <2>3, SemaStored
  <2>5. held' \in [Host -> SUBSET Pair]
    BY <1>5, <2>1 DEF Lock, LockAt, Pair
  <2> QED BY <1>5, <2>4, <2>5 DEF Lock, LockAt
<1> QED BY <1>1, <1>2, <1>3, <1>4, <1>5

\* Calls of the game, and their returns.
LEMMA CallTypes ==
    ASSUME ctx \in Ctx, SemaTypes, NEW h \in Host,
           \/ ReferSema(h) \/ StoreResult(h)
           \/ \E o \in Calls, i \in SemId : CallKernel(h, o, i)
    PROVE  SemaTypes'
<1> USE DEF SemaTypes
<1>1. CASE ReferSema(h)
  BY <1>1, AtPoints DEF ReferSema, semaphores, Advance
<1>2. CASE StoreResult(h)
  <2>1. call[h].home \in Ctx /\ NoCall \in CallRecord
    BY SemaValues DEF CallRecord
  <2> QED BY <1>2, <2>1, AtPoints DEF StoreResult, semaphores
<1>3. ASSUME NEW o \in Calls, NEW i \in SemId, CallKernel(h, o, i)
      PROVE  SemaTypes'
  <2>1. at' \in [Host -> AtPoint]
    BY <1>3, EntryPoint, CallsAssumption DEF CallKernel, AtPoint
  <2>2. [op |-> o, id |-> i, home |-> ctx, addr |-> ctx] \in CallRecord
    BY DEF CallRecord
  <2>3. call' \in [Host -> CallRecord]
    BY <1>3, <2>2 DEF CallKernel
  <2>4. /\ ids' \subseteq ids /\ stale' \subseteq stale \cup {<<ctx, i>>}
        /\ UNCHANGED <<sema, held>>
    BY <1>3 DEF CallKernel
  <2>5. <<ctx, i>> \in Pair
    BY DEF Pair
  <2> QED BY <2>1, <2>3, <2>4, <2>5
<1> QED BY <1>1, <1>2, <1>3

\* Threads that are created and start.
LEMMA ThreadTypes ==
    ASSUME ctx \in Ctx, SemaTypes, NEW h \in Host,
           \/ AskCreate(h) \/ CreateStep(h) \/ CreateResult(h)
           \/ AskStart(h) \/ RunStart(h) \/ KernelStart(h)
    PROVE  SemaTypes'
<1> USE AtPoints DEF SemaTypes, kernel
<1>1. CASE AskCreate(h)
  <2>1. call' \in [Host -> CallRecord]
    BY <1>1, CallStored DEF AskCreate
  <2> QED BY <1>1, <2>1 DEF AskCreate
<1>2. CASE CreateStep(h) \/ AskStart(h) \/ RunStart(h)
  BY <1>2 DEF CreateStep, AskStart, RunStart
<1>3. CASE CreateResult(h)
  BY <1>3 DEF CreateResult
<1>4. CASE KernelStart(h)
  <2>1. CASE ClearTable(h)
    BY <2>1, SemaValues DEF ClearTable
  <2> QED BY <1>4, <2>1 DEF KernelStart
<1> QED BY <1>1, <1>2, <1>3, <1>4

\* Every step keeps the types.
LEMMA SemaTypesStep == TypeOK /\ SemaTypes /\ [KernelNext]_everything => SemaTypes'
<1>1. CASE UNCHANGED everything
  BY <1>1 DEF everything, kernel, SemaTypes
<1>2. TypeOK => ctx \in Ctx
  BY DEF TypeOK
<1>3. ASSUME TypeOK, SemaTypes, KernelNext
      PROVE  SemaTypes'
  BY <1>2, <1>3, TableCallTypes, SignalTypes, WaitTypes, CallTypes, ThreadTypes
     DEF KernelNext, KernelStep
<1> QED BY <1>1, <1>3

-----------------------------------------------------------------------------
(* Calls and register files. *)

OthersKept(h) == \A k \in Host \ {h} : at'[k] = at[k] /\ call'[k] = call[k] /\ held'[k] = held[k]

\* What one statement of a call can do: it stays at home and touches the table
\* of the register file in use, and wakes others only on its way out.
Effect(h) ==
    /\ OthersKept(h)
    /\ at'[h] # "none" => call'[h].home = call[h].home
    /\ at'[h] \in {"lock", "fill"} => call'[h].addr = call[h].home
    /\ \A c \in Ctx \ {ctx} : sema'[c] = sema[c]
    /\ at'[h] # "store" =>
          \A c \in Ctx, i \in SemId : sema'[c][i].locked = sema[c][i].locked
    /\ at[h] \in {"lock", "store"} => at'[h] \in {"store", "none"}
    /\ ~QuietGame => at'[h] = "none" /\ held'[h] = held[h] /\ ids' = ids

\* The statements of CreateSema and DeleteSema do no more.
LEMMA TableCallEffect ==
    ASSUME ctx \in Ctx, SemaTypes, CallsInv, NEW h \in Host,
           Scan(h) \/ TakeSlot(h) \/ Fill(h) \/ Delete(h)
    PROVE  Effect(h)
<1>1. QuietGame /\ call[h].home = ctx
  BY KernelStepAwake DEF KernelStep, CallsInv, LoudGames, CallsAtHome, Scan, TakeSlot, Fill, Delete
<1>2. call[h].id \in SemId /\ call[h] \in CallRecord
  BY DEF SemaTypes, CallRecord
<1> USE <1>1, <1>2 DEF SemaTypes, Effect, OthersKept, Advance
<1>3. CASE Scan(h)
  BY <1>3 DEF Scan, semaphores, CallRecord
<1>4. CASE TakeSlot(h)
  BY <1>4 DEF TakeSlot, semaphores, CallRecord
<1>5. CASE Fill(h)
  <2>1. call[h].addr = ctx
    BY <1>5 DEF Fill, CallsInv, CallsAtHome
  <2> QED BY <1>5, <2>1 DEF Fill
<1>6. CASE Delete(h)
  BY <1>6 DEF Delete, SetHere
<1> QED BY <1>3, <1>4, <1>5, <1>6

\* Nor do those of SignalSema.
LEMMA SignalEffect ==
    ASSUME ctx \in Ctx, SemaTypes, CallsInv, NEW h \in Host,
           TestWaiting(h) \/ Raise(h) \/ TestZero(h) \/ Unlock(h)
    PROVE  Effect(h)
<1>1. QuietGame /\ call[h].home = ctx
  BY KernelStepAwake
     DEF KernelStep, CallsInv, LoudGames, CallsAtHome, TestWaiting, Raise, TestZero, Unlock
<1>2. call[h].id \in SemId
  BY DEF SemaTypes, CallRecord
<1> USE <1>1, <1>2 DEF SemaTypes, Effect, OthersKept, Advance, LetGo
<1>3. CASE TestWaiting(h)
  BY <1>3 DEF TestWaiting, semaphores
<1>4. CASE Raise(h)
  BY <1>4 DEF Raise, SetHere, Here, Sema
<1>5. CASE TestZero(h)
  BY <1>5 DEF TestZero
<1>6. CASE Unlock(h)
  BY <1>6 DEF Unlock, SetHere
<1> QED BY <1>3, <1>4, <1>5, <1>6

\* Nor those of WaitSema and PollSema.
LEMMA WaitEffect ==
    ASSUME ctx \in Ctx, SemaTypes, CallsInv, NEW h \in Host,
           EnterWait(h) \/ TestCount(h) \/ Lower(h) \/ TakeMutex(h) \/ Lock(h)
    PROVE  Effect(h)
<1>1. QuietGame /\ call[h].home = ctx
  BY KernelStepAwake
     DEF KernelStep, CallsInv, LoudGames, CallsAtHome, EnterWait, TestCount, Lower, TakeMutex, Lock, LockAt
<1>2. call[h].id \in SemId /\ call[h] \in CallRecord
  BY DEF SemaTypes, CallRecord
<1> USE <1>1, <1>2 DEF SemaTypes, Effect, OthersKept, Advance, AfterTest
<1>3. CASE EnterWait(h)
  BY <1>3 DEF EnterWait, SetHere, Here, Sema
<1>4. CASE TestCount(h)
  BY <1>4 DEF TestCount, semaphores
<1>5. CASE Lower(h)
  BY <1>5 DEF Lower, SetHere, Here, Sema
<1>6. CASE TakeMutex(h)
  BY <1>6 DEF TakeMutex, semaphores, CallRecord
<1>7. CASE Lock(h)
  <2>1. call[h].addr = ctx
    BY <1>7 DEF Lock, LockAt, CallsInv, CallsAtHome
  <2> QED BY <1>7, <2>1 DEF Lock, LockAt
<1> QED BY <1>3, <1>4, <1>5, <1>6, <1>7

\* Nor does a return.
LEMMA KernelStepEffect ==
    ASSUME ctx \in Ctx, SemaTypes, CallsInv, NEW h \in Host, KernelStep(h)
    PROVE  Effect(h)
<1>1. CASE ReferSema(h)
  BY <1>1 DEF ReferSema, Advance, semaphores, SemaTypes, Effect, OthersKept, CallsInv, LoudGames
<1>2. CASE StoreResult(h)
  BY <1>2 DEF StoreResult, semaphores, SemaTypes, Effect, OthersKept
<1> QED BY <1>1, <1>2, TableCallEffect, SignalEffect, WaitEffect DEF KernelStep

\* A statement of a call keeps calls where they are.
LEMMA KernelStepKeepsCalls ==
    ASSUME TypeOK, SemaTypes, CallsInv, NEW h \in Host, KernelStep(h)
    PROVE  CallsInv'
<1>1. Effect(h) /\ UNCHANGED vars /\ Awake(h)
  BY KernelStepAwake, KernelStepEffect DEF TypeOK
<1>2. UNCHANGED <<pc, ctx, contexts, discipline>>
  BY <1>1 DEF vars
<1>3. ASSUME QuietGame, NEW k \in Host, k # h, Awake(k)'
      PROVE  /\ call[k].home = ctx /\ at'[k] = at[k] /\ call'[k] = call[k]
             /\ Awake(k) \/ (at[k] = "lock" /\ at'[h] = "store")
  <2>1. at'[k] = at[k] /\ call'[k] = call[k]
    BY <1>1, <1>3 DEF Effect, OthersKept
  <2>2. CASE Awake(k)
    BY <1>3, <2>1, <2>2 DEF CallsInv, CallsAtHome
  <2>3. CASE ~Awake(k)
    <3>1. /\ at[k] = "lock" /\ call[k].addr = call[k].home
          /\ sema'[call[k].addr][call[k].id].locked # sema[call[k].addr][call[k].id].locked
      BY <1>3, <2>1, <2>3 DEF Awake, Blocked, CallsInv, CallsAtHome
    <3>2. call[k].addr \in Ctx /\ call[k].id \in SemId
      BY DEF SemaTypes, CallRecord
    <3> QED BY <1>1, <2>1, <3>1, <3>2 DEF Effect
  <2> QED BY <2>2, <2>3
<1>4. LoudGames'
  BY <1>1, <1>2 DEF CallsInv, LoudGames, QuietGame, Effect, OthersKept
<1>5. CallsInGame'
  BY <1>1, <1>2 DEF CallsInv, CallsInGame, Effect, OthersKept, Awake
<1>6. OneMaking' /\ FilesCleared'
  BY <1>2 DEF CallsInv, OneMaking, FilesCleared, QuietGame
<1>7. MakingAlone'
  BY <1>1, <1>2 DEF CallsInv, MakingAlone, QuietGame
<1>8. CallsAtHome'
  <2> SUFFICES ASSUME QuietGame, NEW k \in Host
               PROVE  (/\ pc[k] \in Creating => call[k].home = ctx
                       /\ at[k] # "none" => contexts[call[k].home].clean
                       /\ at[k] \in {"lock", "fill"} => call[k].addr = call[k].home
                       /\ Awake(k) => call[k].home = ctx)'
    BY <1>2 DEF CallsAtHome, QuietGame
  <2>1. CASE k = h
    BY <1>1, <1>2, <2>1 DEF CallsInv, CallsAtHome, MakingAlone, Making, Effect, Awake
  <2>2. CASE k # h
    BY <1>1, <1>2, <1>3, <2>2 DEF CallsInv, CallsAtHome, Effect, OthersKept
  <2> QED BY <2>1, <2>2
<1>9. OneAwake'
  <2> SUFFICES ASSUME QuietGame, NEW j \in Host, NEW k \in Host, Awake(j)', Awake(k)', j # k
               PROVE  at'[j] \in {"lock", "store"}
    BY <1>2 DEF OneAwake, QuietGame
  <2>1. CASE j # h
    BY <1>1, <1>3, <2>1 DEF CallsInv, OneAwake
  <2>2. CASE j = h
    <3>1. k # h /\ (Awake(k) \/ at'[h] = "store")
      BY <1>3, <2>2
    <3>2. Awake(k) => at[h] \in {"lock", "store"}
      BY <1>1, <2>2, <3>1 DEF CallsInv, OneAwake
    <3> QED BY <2>2, <3>1, <3>2, <1>1 DEF Effect, Awake
  <2> QED BY <2>1, <2>2
<1> QED BY <1>4, <1>5, <1>6, <1>7, <1>8, <1>9 DEF CallsInv

\* A game that makes a call is at home in the register file in use.
LEMMA GameCallKeepsCalls ==
    ASSUME TypeOK, SemaTypes, CallsInv, NEW h \in Host,
           \E o \in Calls, i \in SemId : CallKernel(h, o, i)
    PROVE  CallsInv'
<1> USE DEF CallsInv, LoudGames, CallsInGame, OneMaking, MakingAlone, FilesCleared, CallsAtHome,
        OneAwake, QuietGame, Awake, Blocked
<1>1. ASSUME NEW o \in Calls, NEW i \in SemId, CallKernel(h, o, i)
      PROVE  CallsInv'
  <2>1. UNCHANGED <<pc, ctx, contexts, discipline, sema, held>>
    BY <1>1 DEF CallKernel, vars
  <2>2. /\ QuietGame /\ pc[h] \in {"game", "direct"} /\ at[h] = "none"
        /\ \A k \in Host : (at[k] = "none" \/ Blocked(k)) /\ pc[k] \notin Making
    BY <1>1 DEF CallKernel, UsesKernel, InGame, Quiet, Idle, Making
  <2>3. Entry[o] \notin {"lock", "fill", "store"}
    BY EntryPoint, CallsAssumption
  <2>4. /\ at' = [at EXCEPT ![h] = Entry[o]] /\ call'[h].home = ctx
        /\ \A k \in Host \ {h} : call'[k] = call[k]
    <3>1. /\ at' = [at EXCEPT ![h] = Entry[o]]
          /\ call' = [call EXCEPT ![h] = [op |-> o, id |-> i, home |-> ctx, addr |-> ctx]]
      BY <1>1 DEF CallKernel
    <3> QED BY <3>1 DEF SemaTypes
  <2>5. contexts[ctx].clean
    BY <2>2 DEF TypeOK, Making, Starting, Ctx
  <2>6. LoudGames' /\ CallsInGame' /\ OneMaking' /\ FilesCleared' /\ MakingAlone'
    BY <2>1, <2>2, <2>4 DEF SemaTypes
  <2>7. CallsAtHome'
    BY <2>1, <2>2, <2>3, <2>4, <2>5 DEF SemaTypes, Making
  <2>8. OneAwake'
    <3>1. ASSUME NEW k \in Host \ {h}
          PROVE  ~Awake(k)'
      BY <2>1, <2>2, <2>4 DEF SemaTypes
    <3> QED BY ONLY <3>1, h \in Host DEF OneAwake
  <2> QED BY <2>6, <2>7, <2>8
<1> QED BY <1>1

\* The types the proofs below need.
LEMMA CallRanges ==
    ASSUME TypeOK, SemaTypes
    PROVE  /\ pc \in [Host -> Points] /\ at \in [Host -> AtPoint] /\ call \in [Host -> CallRecord]
           /\ contexts \in [Host -> Context] /\ ctx \in Host
           /\ \A k \in Host : call[k].home \in Host /\ call[k].addr \in Host /\ call[k].id \in SemId
BY DEF TypeOK, SemaTypes, CallRecord, Ctx

\* A host is awake as before where nothing it looks at has changed.
LEMMA AwakeAsBefore ==
    ASSUME NEW k \in Host, UNCHANGED sema, at'[k] = at[k], call'[k] = call[k]
    PROVE  Awake(k)' <=> Awake(k)
BY DEF Awake, Blocked

\* A quiet game is quiet.
LEMMA QuietMeans ==
    ASSUME Quiet, QuietGame, NEW k \in Host
    PROVE  /\ at[k] = "none" \/ Blocked(k)
           /\ ~Awake(k) /\ pc[k] \notin Making
BY DEF Quiet, QuietGame, Idle, Awake, Making

\* CreateThread runs alone.
LEMMA CreateKeepsCalls ==
    ASSUME TypeOK, SemaTypes, CallsInv, NEW h \in Host,
           AskCreate(h) \/ CreateStep(h) \/ CreateResult(h)
    PROVE  CallsInv'
<1>1. CASE AskCreate(h)
  <2>1. UNCHANGED <<ctx, contexts, discipline, sema, at, ids, held>> /\ at[h] = "none" /\ Quiet
    BY <1>1 DEF AskCreate, CallCreate, InGame, tables, globals
  <2>2. /\ pc' = [pc EXCEPT ![h] = "fill"] /\ call' = [call EXCEPT ![h].home = ctx]
        /\ pc[h] = "game"
    BY <1>1 DEF AskCreate, CallCreate, At, Goto
  <2>3. /\ pc'[h] = "fill" /\ call'[h].home = ctx
        /\ \A k \in Host \ {h} : pc'[k] = pc[k] /\ call'[k] = call[k]
    BY <2>2, CallRanges DEF CallRecord
  <2>4. \A k \in Host : Awake(k)' <=> Awake(k)
    <3> SUFFICES ASSUME NEW k \in Host
                 PROVE  Awake(k)' <=> Awake(k)
      OBVIOUS
    <3>1. CASE k = h
      BY <2>1, <3>1 DEF Awake
    <3>2. CASE k # h
      BY <2>1, <2>3, <3>2, AwakeAsBefore
    <3> QED BY <3>1, <3>2
  <2>5. LoudGames' /\ CallsInGame'
    BY <2>1, <2>3 DEF CallsInv, LoudGames, CallsInGame, QuietGame
  <2>6. OneMaking' /\ MakingAlone'
    BY <2>1, <2>3, <2>4, QuietMeans DEF OneMaking, MakingAlone, QuietGame
  <2>7. FilesCleared'
    BY <2>1, <2>2, <2>3, CallRanges DEF CallsInv, FilesCleared, QuietGame
  <2>8. CallsAtHome'
    BY <2>1, <2>3, <2>4 DEF CallsInv, CallsAtHome, QuietGame, Awake
  <2>9. OneAwake'
    BY <2>1, <2>4 DEF CallsInv, OneAwake, QuietGame
  <2> QED BY <2>5, <2>6, <2>7, <2>8, <2>9 DEF CallsInv
<1>2. CASE CreateStep(h)
  <2>1. UNCHANGED <<ctx, contexts, discipline, sema, at, call, ids, held>>
    BY <1>2 DEF CreateStep, FillEntry, IncLoad, kernel, tables, globals
  <2>2. pc[h] \in Creating /\ \E p \in Creating \cup {"overrun"} : pc' = [pc EXCEPT ![h] = p]
    BY <1>2 DEF CreateStep, FillEntry, IncLoad, At, Goto, Creating
  <2>3. /\ pc[h] \in Creating /\ pc'[h] \in Creating \cup {"overrun"}
        /\ \A k \in Host \ {h} : pc'[k] = pc[k]
    BY <2>2, CallRanges
  <2>4. \A k \in Host : Awake(k)' <=> Awake(k)
    BY <2>1, AwakeAsBefore
  <2>5. LoudGames' /\ CallsInGame'
    BY <2>1, <2>3 DEF CallsInv, LoudGames, CallsInGame, QuietGame, Creating
  <2>6. OneMaking' /\ MakingAlone'
    BY <2>1, <2>3, <2>4 DEF CallsInv, OneMaking, MakingAlone, QuietGame, Making
  <2>7. FilesCleared'
    BY <2>1, <2>3, CallRanges DEF CallsInv, FilesCleared, QuietGame, Creating
  <2>8. CallsAtHome' /\ OneAwake'
    BY <2>1, <2>3, <2>4 DEF CallsInv, CallsAtHome, OneAwake, QuietGame
  <2> QED BY <2>5, <2>6, <2>7, <2>8 DEF CallsInv
<1>3. CASE CreateResult(h)
  <2>1. UNCHANGED <<ctx, contexts, discipline, sema, call, ids, held>> /\ pc[h] \in Creating
    BY <1>3 DEF CreateResult, IncStore, At, Creating, globals
  <2>2. pc' = [pc EXCEPT ![h] = "game"] /\ at' = [at EXCEPT ![h] = "store"]
    BY <1>3 DEF CreateResult, IncStore, Goto
  <2>3. /\ pc'[h] = "game" /\ at'[h] = "store"
        /\ \A k \in Host \ {h} : pc'[k] = pc[k] /\ at'[k] = at[k]
    BY <2>2, CallRanges
  <2>4. \A k \in Host \ {h} : Awake(k)' <=> Awake(k)
    BY <2>1, <2>3, AwakeAsBefore
  <2>5. QuietGame => \A k \in Host : ~Awake(k) /\ (pc[k] \in Making => k = h)
    BY <2>1 DEF CallsInv, OneMaking, MakingAlone, Making
  <2>6. LoudGames' /\ CallsInGame'
    BY <2>1, <2>3 DEF CallsInv, LoudGames, CallsInGame, QuietGame
  <2>7. OneMaking' /\ MakingAlone'
    BY <2>1, <2>3, <2>5 DEF OneMaking, MakingAlone, QuietGame, Making, Starting, Creating
  <2>8. FilesCleared'
    BY <2>1, <2>3, CallRanges DEF CallsInv, FilesCleared, QuietGame, Creating
  <2>9. CallsAtHome'
    <3>1. QuietGame => contexts[ctx].clean /\ call[h].home = ctx
      <4>1. QuietGame /\ pc[ctx] = "memset" => ctx = h
        BY <2>5, CallRanges DEF Making, Starting
      <4>2. pc[h] # "memset"
        BY <2>1 DEF Creating
      <4> QED BY <2>1, <4>1, <4>2 DEF CallsInv, FilesCleared, CallsAtHome
    <3>2. "game" \notin Creating
      BY DEF Creating
    <3> QED BY <2>1, <2>3, <2>4, <3>1, <3>2 DEF CallsInv, CallsAtHome, QuietGame
  <2>10. OneAwake'
    BY <2>1, <2>3, <2>4, <2>5 DEF OneAwake, QuietGame
  <2> QED BY <2>6, <2>7, <2>8, <2>9, <2>10 DEF CallsInv
<1> QED BY <1>1, <1>2, <1>3

\* StartThread makes its thread when nothing else goes on.
LEMMA CallerKeepsCalls ==
    ASSUME TypeOK, SemaTypes, CallsInv, NEW h \in Host, AskStart(h) \/ RunStart(h)
    PROVE  CallsInv'
<1>1. UNCHANGED <<ctx, contexts, discipline, sema, at, call, ids, held>>
  BY DEF AskStart, RunStart, CallStart, DirectCall, ReuseFrame, Spawn, SpawnWith, kernel, tables, globals
<1>2. at[h] = "none"
  BY DEF AskStart, RunStart, InGame
<1>3. \A k \in Host : Awake(k)' <=> Awake(k)
  BY <1>1, AwakeAsBefore
<1>4. OneAwake'
  BY <1>1, <1>3 DEF CallsInv, OneAwake, QuietGame
<1>5. CASE AskStart(h) \/ DirectCall(h) \/ ReuseFrame(h)
  <2>1. /\ pc[h] \in {"game", "direct"} /\ pc'[h] \in {"game", "direct", "spawn", "crashed"}
        /\ \A k \in Host \ {h} : pc'[k] = pc[k]
    BY <1>5, CallRanges DEF AskStart, CallStart, DirectCall, ReuseFrame, At, Goto
  <2>2. \A k \in Host : pc'[k] \in Making \cup {"unborn"} => pc'[k] = pc[k]
    BY <2>1 DEF Making, Starting, Creating
  <2>3. LoudGames' /\ CallsInGame'
    BY <1>1, <1>2, <2>1 DEF CallsInv, LoudGames, CallsInGame, QuietGame
  <2>4. OneMaking' /\ MakingAlone'
    BY <1>1, <1>3, <2>2 DEF CallsInv, OneMaking, MakingAlone, QuietGame
  <2>5. FilesCleared'
    BY <1>1, <2>1, CallRanges DEF CallsInv, FilesCleared, QuietGame
  <2>6. CallsAtHome'
    BY <1>1, <1>3, <2>2 DEF CallsInv, CallsAtHome, QuietGame, Making
  <2> QED BY <1>4, <2>3, <2>4, <2>5, <2>6 DEF CallsInv
<1>6. CASE Quiet /\ Spawn(h)
  <2>1. /\ Unborn # {} /\ pc[h] = "spawn"
        /\ pc' = [pc EXCEPT ![h] = "game", ![NewHost] = "alloc"]
    BY <1>6 DEF Spawn, SpawnWith, At
  <2>2. NewHost \in Host /\ pc[NewHost] = "unborn" /\ NewHost # h /\ at[NewHost] = "none"
    BY <2>1, NewHostUnborn DEF CallsInv, CallsInGame
  <2>3. /\ pc'[h] = "game" /\ pc'[NewHost] = "alloc"
        /\ \A k \in Host \ {h, NewHost} : pc'[k] = pc[k]
    BY <2>1, <2>2, CallRanges
  <2>4. QuietGame => \A k \in Host : ~Awake(k) /\ pc[k] \notin Making
    BY <1>6, QuietMeans
  <2>5. LoudGames' /\ CallsInGame'
    BY <1>1, <1>2, <2>2, <2>3 DEF CallsInv, LoudGames, CallsInGame, QuietGame
  <2>6. OneMaking' /\ MakingAlone'
    <3>1. QuietGame => \A k \in Host : ~Awake(k)' /\ (pc'[k] \in Making => k = NewHost)
      BY <1>3, <2>3, <2>4 DEF Making, Starting, Creating
    <3> QED BY <1>1, <3>1 DEF OneMaking, MakingAlone, QuietGame
  <2>7. FilesCleared'
    <3>1. QuietGame => contexts[ctx].clean
      BY <2>4, CallRanges DEF CallsInv, FilesCleared, Making, Starting
    <3>2. QuietGame => \A k \in Host : pc'[k] \in {"unborn", "alloc", "memset"} =>
                          pc'[k] # "memset" /\ ~contexts[k].clean
      BY <2>2, <2>3, <2>4 DEF CallsInv, FilesCleared, Making, Starting
    <3> QED BY <1>1, <3>1, <3>2 DEF FilesCleared, QuietGame
  <2>8. CallsAtHome'
    <3>1. \A k \in Host : pc'[k] \in Creating => pc'[k] = pc[k]
      BY <2>3 DEF Creating
    <3> QED BY <1>1, <1>3, <3>1 DEF CallsInv, CallsAtHome, QuietGame
  <2> QED BY <1>4, <2>5, <2>6, <2>7, <2>8 DEF CallsInv
<1> QED BY <1>5, <1>6 DEF RunStart

\* A thread that starts replaces the register file when no call goes on.
LEMMA StarterKeepsCalls ==
    ASSUME TypeOK, SemaTypes, CallsInv, NEW h \in Host, KernelStart(h)
    PROVE  CallsInv'
<1>1. /\ UNCHANGED <<discipline, at, call, ids, held>>
      /\ \E p \in {"memset", "set_gp", "set_sp", "set_id", "enter", "game", "crashed"} :
            pc' = [pc EXCEPT ![h] = p] /\ (p = "memset" => pc[h] = "alloc")
      /\ pc[h] \in Starting
  BY DEF KernelStart, ClearTable, AllocContext, ClearContext, SetGp, SetSp, SetThreadID,
         EnterFunction, kernel, tables, At, Goto, Starting
<1>2. /\ pc'[h] \in {"memset", "set_gp", "set_sp", "set_id", "enter", "game", "crashed"}
      /\ pc'[h] = "memset" => pc[h] = "alloc"
      /\ \A k \in Host \ {h} : pc'[k] = pc[k]
  BY <1>1, CallRanges
<1>3. /\ \A k \in Host : pc'[k] \in Making => pc[k] \in Making
      /\ \A k \in Host : pc'[k] \in Creating \cup {"unborn", "alloc"} => pc'[k] = pc[k]
      /\ at[h] = "none" /\ pc[h] \in Making
  BY <1>1, <1>2 DEF Making, Starting, Creating, CallsInv, CallsInGame
<1>4. QuietGame => \A k \in Host : ~Awake(k) /\ (pc[k] \in Making => k = h)
  BY <1>3 DEF CallsInv, OneMaking, MakingAlone
<1>5. LoudGames' /\ CallsInGame'
  BY <1>1, <1>2, <1>3 DEF CallsInv, LoudGames, CallsInGame, QuietGame
<1>6. OneMaking'
  BY <1>1, <1>3 DEF CallsInv, OneMaking, QuietGame
<1>7. ASSUME \A k \in Host : Awake(k)' <=> Awake(k)
      PROVE  MakingAlone' /\ OneAwake'
  BY <1>1, <1>3, <1>7 DEF CallsInv, MakingAlone, OneAwake, QuietGame
<1>8. CASE AllocContext(h) /\ UNCHANGED kernel
  <2>1. ctx' = h /\ UNCHANGED <<contexts, sema>> /\ pc[h] = "alloc" /\ pc' = [pc EXCEPT ![h] = "memset"]
    BY <1>8 DEF AllocContext, kernel, At, Goto
  <2>2. \A k \in Host : Awake(k)' <=> Awake(k)
    BY <1>1, <2>1, AwakeAsBefore
  <2>3. pc'[h] = "memset"
    BY <2>1, CallRanges
  <2>4. FilesCleared'
    BY <1>1, <1>2, <1>4, <2>1, <2>3 DEF CallsInv, FilesCleared, QuietGame, Making, Starting
  <2>5. CallsAtHome'
    BY <1>1, <1>2, <1>3, <1>4, <2>1, <2>2 DEF CallsInv, CallsAtHome, QuietGame, Making, Starting, Creating
  <2> QED BY <1>5, <1>6, <1>7, <2>2, <2>4, <2>5 DEF CallsInv
<1>9. CASE ClearTable(h)
  <2>1. /\ pc[h] = "memset" /\ UNCHANGED ctx
        /\ contexts' = [contexts EXCEPT ![ctx] = [clean |-> TRUE, gp |-> Garbage, sp |-> Garbage]]
        /\ sema' = [sema EXCEPT ![ctx] = [i \in SemId |-> Empty]]
        /\ pc' = [pc EXCEPT ![h] = "set_gp"]
    BY <1>9 DEF ClearTable, ClearContext, At, Goto
  <2>2. /\ pc'[h] = "set_gp" /\ contexts'[ctx].clean
        /\ \A c \in Ctx \ {ctx} : contexts'[c] = contexts[c]
    BY <2>1, CallRanges DEF Ctx
  <2>3. \A c \in Ctx \ {ctx} : sema'[c] = sema[c]
    BY <2>1 DEF SemaTypes
  <2>4. QuietGame => ctx = h /\ ~contexts[h].clean
    BY <2>1 DEF CallsInv, FilesCleared
  <2>5. \A k \in Host : Awake(k)' <=> Awake(k)
    <3> SUFFICES ASSUME NEW k \in Host, at[k] = "lock"
                 PROVE  sema'[call[k].addr] = sema[call[k].addr]
      BY <1>1 DEF Awake, Blocked
    <3>1. QuietGame
      BY DEF CallsInv, LoudGames
    <3>2. call[k].addr \in Ctx \ {ctx}
      BY <2>4, <3>1, CallRanges DEF CallsInv, CallsAtHome, Ctx
    <3> QED BY <2>3, <3>2
  <2>6. FilesCleared'
    <3>1. \A k \in Host \ {h} : QuietGame => contexts'[k] = contexts[k] /\ pc'[k] # "memset"
      BY <1>2, <1>4, <2>2, <2>4 DEF Making, Starting, Ctx
    <3> QED BY <1>1, <1>2, <2>1, <2>2, <3>1, CallRanges DEF CallsInv, FilesCleared, QuietGame
  <2>7. CallsAtHome'
    <3>1. \A k \in Host : contexts[call[k].home].clean => contexts'[call[k].home].clean
      BY <2>2, CallRanges DEF Ctx
    <3>2. \A k \in Host : pc'[k] \in Creating => pc[k] \in Creating
      BY <1>3
    <3> QED BY <1>1, <2>1, <2>5, <3>1, <3>2 DEF CallsInv, CallsAtHome, QuietGame
  <2> QED BY <1>5, <1>6, <1>7, <2>5, <2>6, <2>7 DEF CallsInv
<1>10. CASE (SetGp(h) \/ SetSp(h) \/ SetThreadID(h) \/ EnterFunction(h)) /\ UNCHANGED kernel
  <2>1. UNCHANGED <<ctx, sema>> /\ pc[h] \in {"set_gp", "set_sp", "set_id", "enter"}
    BY <1>10 DEF SetGp, SetSp, SetThreadID, EnterFunction, kernel, At, globals
  <2>2. \A c \in Host : contexts'[c].clean = contexts[c].clean
    <3>1. CASE SetGp(h)
      BY <3>1, CallRanges DEF SetGp, Context
    <3>2. CASE SetSp(h)
      BY <3>2, CallRanges DEF SetSp, Context
    <3>3. CASE SetThreadID(h) \/ EnterFunction(h)
      BY <3>3 DEF SetThreadID, EnterFunction, globals
    <3> QED BY <1>10, <3>1, <3>2, <3>3
  <2>3. \A k \in Host : Awake(k)' <=> Awake(k)
    BY <1>1, <2>1, AwakeAsBefore
  <2>4. FilesCleared'
    <3>1. \A k \in Host : pc'[k] = "memset" \/ pc[k] = "memset" => pc'[k] = pc[k]
      BY <1>2, <2>1
    <3> QED BY <1>1, <1>2, <2>1, <2>2, <3>1, CallRanges DEF CallsInv, FilesCleared, QuietGame
  <2>5. CallsAtHome'
    <3>1. \A k \in Host : contexts'[call[k].home].clean = contexts[call[k].home].clean
      BY <2>2, CallRanges
    <3>2. \A k \in Host : pc'[k] \in Creating => pc[k] \in Creating
      BY <1>3
    <3> QED BY <1>1, <2>1, <2>3, <3>1, <3>2 DEF CallsInv, CallsAtHome, QuietGame
  <2> QED BY <1>5, <1>6, <1>7, <2>3, <2>4, <2>5 DEF CallsInv
<1> QED BY <1>8, <1>9, <1>10 DEF KernelStart

-----------------------------------------------------------------------------
(* Calls in every behaviour. *)

\* In the initial state no call goes on, and main's register file is in use.
LEMMA CallsInit == KernelInit => CallsInv
<1> SUFFICES ASSUME KernelInit
             PROVE  CallsInv
  OBVIOUS
<1>1. \A h \in Host : /\ at[h] = "none" /\ ~Awake(h) /\ held[h] = {}
                     /\ pc[h] \in {"game", "unborn"} /\ pc[h] \notin Making
  BY DEF KernelInit, Init, Awake, Making, Starting, Creating
<1>2. /\ ctx \in Host /\ contexts[ctx].clean
      /\ \A h \in Host : pc[h] = "unborn" => ~contexts[h].clean
  BY MainAssumption DEF KernelInit, Init, Ctx
<1>3. LoudGames /\ CallsInGame /\ OneMaking /\ MakingAlone /\ OneAwake
  BY <1>1 DEF KernelInit, LoudGames, CallsInGame, OneMaking, MakingAlone, OneAwake
<1>4. FilesCleared /\ CallsAtHome
  BY <1>1, <1>2 DEF FilesCleared, CallsAtHome, Making
<1> QED BY <1>3, <1>4 DEF CallsInv

\* Every step keeps the invariant.
LEMMA CallsStep ==
    TypeOK /\ SemaTypes /\ CallsInv /\ [KernelNext]_everything => CallsInv'
<1>1. CASE UNCHANGED everything
  BY <1>1 DEF everything, vars, kernel, CallsInv, LoudGames, CallsInGame, OneMaking, MakingAlone,
     FilesCleared, CallsAtHome, OneAwake, Awake, Blocked, QuietGame
<1>2. ASSUME TypeOK, SemaTypes, CallsInv, KernelNext
      PROVE  CallsInv'
  BY <1>2, KernelStepKeepsCalls, GameCallKeepsCalls, CreateKeepsCalls, CallerKeepsCalls,
     StarterKeepsCalls DEF KernelNext
<1> QED BY <1>1, <1>2

\* The invariant of EEThreads holds of every game that calls the kernel.
THEOREM KernelKeepsThreads == KernelSpec => []ThreadsInv
BY KernelRefinesThreads, ThreadsInvariant, PTL

\* Types and calls, in every behaviour of the kernel.
THEOREM CallsInvariant == KernelSpec => [](TypeOK /\ SemaTypes /\ CallsInv)
<1>1. ThreadsInv => TypeOK
  BY DEF ThreadsInv
<1> QED BY <1>1, KernelKeepsThreads, SemaTypesInit, SemaTypesStep, CallsInit, CallsStep, PTL
        DEF KernelSpec

\* Semaphores, calls and threads have their types, whatever the game observes.
THEOREM KernelTypeCorrect == KernelSpec => []KernelTypeOK
<1>1. TypeOK /\ SemaTypes => KernelTypeOK
  BY DEF SemaTypes, KernelTypeOK, AtPoint, CallRecord
<1> QED BY <1>1, CallsInvariant, PTL

\* In a quiet game no call ever reads the table of another register file than the
\* one it began in, however many threads were started while others waited.
THEOREM CallsStayHome == KernelSpec => []CallsUntorn
<1>1. TypeOK /\ CallsInv => CallsUntorn
  BY DEF CallsInv, CallsAtHome, CallsUntorn, Awake, QuietGame
<1> QED BY <1>1, CallsInvariant, PTL

\* What a step does to a call, and to the tables that are not in use.
LEMMA StepEffect ==
    ASSUME TypeOK, SemaTypes, CallsInv, KernelNext
    PROVE  /\ \A c \in Ctx \ {ctx} : sema'[c] = sema[c]
           /\ \A k \in Host : at[k] # "none" =>
                 \/ KernelStep(k)
                 \/ at'[k] = at[k] /\ call'[k] = call[k]
<1> PICK h \in Host : \/ AskCreate(h) \/ CreateStep(h) \/ CreateResult(h)
                      \/ AskStart(h) \/ RunStart(h) \/ KernelStart(h)
                      \/ KernelStep(h)
                      \/ \E o \in Calls, i \in SemId : CallKernel(h, o, i)
  BY DEF KernelNext
<1> USE DEF SemaTypes
<1>1. CASE AskCreate(h)
  BY <1>1 DEF AskCreate, InGame
<1>2. CASE CreateStep(h) \/ AskStart(h) \/ RunStart(h)
  BY <1>2 DEF CreateStep, AskStart, RunStart, kernel
<1>3. CASE CreateResult(h)
  BY <1>3 DEF CreateResult
<1>4. CASE KernelStart(h)
  BY <1>4 DEF KernelStart, ClearTable, kernel
<1>5. CASE KernelStep(h)
  BY <1>5, KernelStepEffect DEF Effect, OthersKept, TypeOK
<1>6. CASE \E o \in Calls, i \in SemId : CallKernel(h, o, i)
  BY <1>6 DEF CallKernel, UsesKernel, InGame
<1> QED BY <1>1, <1>2, <1>3, <1>4, <1>5, <1>6

\* A thread that a start has left behind in WaitSema sleeps on a mutex that no
\* later step of anyone unlocks.
THEOREM StrandedStay == KernelSpec => StrandedForever
<1> DEFINE A == \A h \in Host : at[h] = "lock" /\ Blocked(h) /\ call[h].addr # ctx =>
                                   at'[h] = "lock" /\ Blocked(h)'
<1>1. ASSUME TypeOK, SemaTypes, CallsInv, KernelNext, NEW h \in Host,
             at[h] = "lock", Blocked(h), call[h].addr # ctx
      PROVE  at'[h] = "lock" /\ Blocked(h)'
  <2>1. ~KernelStep(h)
    BY <1>1, KernelStepAwake DEF Awake
  <2>2. at'[h] = at[h] /\ call'[h] = call[h]
    BY <1>1, <2>1, StepEffect
  <2>3. call[h].addr \in Ctx
    BY <1>1 DEF SemaTypes, CallRecord
  <2>4. sema'[call[h].addr] = sema[call[h].addr]
    BY <1>1, <2>3, StepEffect
  <2> QED BY <1>1, <2>2, <2>4 DEF Blocked
<1>2. TypeOK /\ SemaTypes /\ CallsInv /\ [KernelNext]_everything => [A]_everything
  BY <1>1
<1>3. KernelSpec => [][A]_everything
  BY <1>2, CallsInvariant, PTL DEF KernelSpec
<1> QED BY <1>3 DEF StrandedForever

-----------------------------------------------------------------------------
(* Semaphores. *)

\* While one call goes on, calls elsewhere are at most returning.
LEMMA OthersPoints ==
    ASSUME ctx \in Ctx, SemaTypes, CallsInv, SemasInv, NEW h \in Host, KernelStep(h),
           ids \subseteq ids', stale' = stale, NEW k \in Host, k # h
    PROVE  PointOK(k)'
<1>1. /\ at'[k] = at[k] /\ call'[k] = call[k] /\ held'[k] = held[k]
      /\ ~QuietGame => at[k] \in {"none", "store"}
  BY KernelStepEffect DEF Effect, OthersKept, CallsInv, LoudGames
<1>2. QuietGame => at[k] \notin {"slot", "fill", "del", "zero"}
  BY KernelStepAwake DEF CallsInv, OneAwake, Awake, Blocked
<1>3. at'[k] \notin {"slot", "fill", "del", "zero"}
  BY <1>1, <1>2
<1> QED BY <1>1, <1>3 DEF SemasInv, PointOK, SemaOf

\* Validity and mutexes stay as they are, and nobody comes to hold anything.
Mild == /\ UNCHANGED <<contexts, ids, stale>>
        /\ \A k \in Host : held'[k] \subseteq held[k]
        /\ \A c \in Ctx, i \in SemId : /\ sema'[c][i].valid = sema[c][i].valid
                                       /\ sema'[c][i].locked = sema[c][i].locked

\* Such a step keeps what is known of ids and holds.
LEMMA MildKeepsHolds ==
    ASSUME SemaTypes, SemasInv, Mild
    PROVE  IdsValid' /\ HoldsLocked' /\ ExclusionPerContext'
<1>1. \A p \in Pair : /\ sema'[p[1]][p[2]].valid = sema[p[1]][p[2]].valid
                      /\ sema'[p[1]][p[2]].locked = sema[p[1]][p[2]].locked
  BY DEF Mild, Pair
<1>2. IdsValid'
  BY <1>1 DEF SemaTypes, SemasInv, IdsValid, Mild
<1>3. HoldsLocked'
  BY <1>1 DEF SemaTypes, SemasInv, HoldsLocked, Mild
<1>4. ExclusionPerContext'
  BY DEF SemasInv, ExclusionPerContext, Mild
<1> QED BY <1>2, <1>3, <1>4

\* The statements that only read, or only count, keep the invariant.
LEMMA MildStepKeepsSemas ==
    ASSUME ctx \in Ctx, SemaTypes, CallsInv, SemasInv, NEW h \in Host,
           \/ Scan(h) \/ TakeSlot(h) \/ (at[h] = "del" /\ Delete(h)) \/ TestWaiting(h) \/ Raise(h)
           \/ TestZero(h) \/ EnterWait(h) \/ TestCount(h) \/ Lower(h) \/ TakeMutex(h)
           \/ ReferSema(h) \/ StoreResult(h)
    PROVE  SemasInv'
<1> USE DEF SemaTypes, Advance, vars, semaphores
<1>1. KernelStep(h) /\ call[h].id \in SemId /\ call[h] \in CallRecord
  BY DEF KernelStep, CallRecord
<1>2. QuietGame => call[h].home = ctx
  BY <1>1, KernelStepAwake DEF CallsInv, CallsAtHome
<1>3. at[h] # "store" => QuietGame
  BY <1>1, KernelStepAwake DEF CallsInv, LoudGames, Awake
<1> USE DEF SemasInv, PointOK, SemaOf
<1>4. CASE Scan(h)
  <2>1. Mild
    BY <1>4 DEF Scan, Mild
  <2>2. PointOK(h)'
    <3>1. \/ at'[h] = "store"
          \/ /\ at'[h] = "slot"
             /\ \E i \in SemId : ~sema[ctx][i].valid /\ call' = [call EXCEPT ![h].id = i]
      BY <1>4 DEF Scan
    <3>2. at'[h] = "slot" => ~sema[call'[h].home][call'[h].id].valid
      BY <1>1, <1>2, <1>3, <1>4, <3>1 DEF Scan, CallRecord
    <3> QED BY <1>4, <3>1, <3>2 DEF Scan
  <2> QED BY <1>1, <2>1, <2>2, MildKeepsHolds, OthersPoints DEF Mild
<1>5. CASE TakeSlot(h)
  <2>1. Mild
    BY <1>5 DEF TakeSlot, Mild
  <2>2. PointOK(h)'
    BY <1>1, <1>5 DEF TakeSlot, CallRecord
  <2> QED BY <1>1, <2>1, <2>2, MildKeepsHolds, OthersPoints DEF Mild
<1>6. CASE at[h] = "del" /\ Delete(h)
  <2>1. Mild
    BY <1>6 DEF Delete, Mild
  <2>2. PointOK(h)'
    BY <1>6 DEF Delete, Known, HeldIds
  <2> QED BY <1>1, <2>1, <2>2, MildKeepsHolds, OthersPoints DEF Mild
<1>7. CASE TestWaiting(h)
  <2>1. Mild
    BY <1>7 DEF TestWaiting, Mild
  <2>2. PointOK(h)'
    BY <1>7 DEF TestWaiting
  <2> QED BY <1>1, <2>1, <2>2, MildKeepsHolds, OthersPoints DEF Mild
<1>8. CASE Raise(h)
  <2>1. Mild
    BY <1>1, <1>8 DEF Raise, SetHere, Here, Sema, Mild
  <2>2. PointOK(h)'
    BY <1>8 DEF Raise
  <2> QED BY <1>1, <2>1, <2>2, MildKeepsHolds, OthersPoints DEF Mild
<1>9. CASE TestZero(h)
  <2>1. Mild
    BY <1>9 DEF TestZero, LetGo, Mild
  <2>2. PointOK(h)'
    BY <1>9 DEF TestZero
  <2> QED BY <1>1, <2>1, <2>2, MildKeepsHolds, OthersPoints DEF Mild
<1>10. CASE EnterWait(h)
  <2>1. Mild
    BY <1>1, <1>10 DEF EnterWait, SetHere, Here, Sema, Mild
  <2>2. PointOK(h)'
    BY <1>10 DEF EnterWait
  <2> QED BY <1>1, <2>1, <2>2, MildKeepsHolds, OthersPoints DEF Mild
<1>11. CASE TestCount(h)
  <2>1. Mild
    BY <1>11 DEF TestCount, Mild
  <2>2. PointOK(h)'
    BY <1>11 DEF TestCount, AfterTest
  <2> QED BY <1>1, <2>1, <2>2, MildKeepsHolds, OthersPoints DEF Mild
<1>12. CASE Lower(h)
  <2>1. Mild
    BY <1>1, <1>12 DEF Lower, SetHere, Here, Sema, Mild
  <2>2. PointOK(h)'
    BY <1>12 DEF Lower, AfterTest
  <2> QED BY <1>1, <2>1, <2>2, MildKeepsHolds, OthersPoints DEF Mild
<1>13. CASE TakeMutex(h)
  <2>1. Mild
    BY <1>13 DEF TakeMutex, Mild
  <2>2. PointOK(h)'
    BY <1>1, <1>13 DEF TakeMutex, CallRecord
  <2> QED BY <1>1, <2>1, <2>2, MildKeepsHolds, OthersPoints DEF Mild
<1>14. CASE ReferSema(h) \/ StoreResult(h)
  <2>1. Mild
    BY <1>14 DEF ReferSema, StoreResult, Mild
  <2>2. PointOK(h)'
    BY <1>14 DEF ReferSema, StoreResult
  <2> QED BY <1>1, <2>1, <2>2, MildKeepsHolds, OthersPoints DEF Mild
<1> QED BY <1>4, <1>5, <1>6, <1>7, <1>8, <1>9, <1>10, <1>11, <1>12, <1>13, <1>14

\* A semaphore that a game knows of is in a file that has been cleared; the new
\* one takes a free slot, so nobody holds it.
LEMMA FillKeepsSemas ==
    ASSUME ctx \in Ctx, SemaTypes, CallsInv, SemasInv, NEW h \in Host, Fill(h)
    PROVE  SemasInv'
<1> USE DEF SemaTypes, Advance, vars, SemasInv
<1> DEFINE p == SemaOf(h)
<1>1. KernelStep(h) /\ QuietGame /\ call[h].home \in Ctx /\ call[h].id \in SemId
  BY KernelStepAwake DEF KernelStep, CallRecord, CallsInv, LoudGames, Fill
<1>2. /\ call[h].addr = call[h].home /\ contexts[p[1]].clean
      /\ ~sema[p[1]][p[2]].valid
  BY <1>1 DEF CallsInv, CallsAtHome, Fill, PointOK, SemaOf
<1>3. /\ p \in Pair /\ ids' = ids \cup {p} /\ at'[h] = "store"
      /\ UNCHANGED <<contexts, held, stale>>
      /\ sema'[p[1]][p[2]].valid
      /\ \A q \in Pair \ {p} : sema'[q[1]][q[2]] = sema[q[1]][q[2]]
  BY <1>1, <1>2 DEF Fill, SemaOf, Pair
<1>4. \A k \in Host : PointOK(k)'
  BY <1>1, <1>3, OthersPoints DEF PointOK
<1> HIDE DEF p
<1>5. IdsValid'
  BY <1>2, <1>3 DEF IdsValid
<1>6. HoldsLocked'
  BY <1>2, <1>3 DEF HoldsLocked
<1>7. ExclusionPerContext'
  BY <1>3 DEF ExclusionPerContext
<1> QED BY <1>4, <1>5, <1>6, <1>7

\* A semaphore is deleted when no game knows of it any more and nobody holds it.
LEMMA ZeroKeepsSemas ==
    ASSUME ctx \in Ctx, SemaTypes, CallsInv, SemasInv, NEW h \in Host, at[h] = "zero", Delete(h)
    PROVE  SemasInv'
<1> USE DEF SemaTypes, Advance, vars, SemasInv
<1>1. KernelStep(h) /\ call[h].id \in SemId
  BY DEF KernelStep, CallRecord
<1>2. call[h].id \notin Known /\ \A k \in Host : call[h].id \notin HeldIds(k)
  BY DEF PointOK
<1>3. /\ UNCHANGED <<contexts, ids, held, stale>> /\ at'[h] = "store"
      /\ \A q \in Pair : q[2] # call[h].id => sema'[q[1]][q[2]] = sema[q[1]][q[2]]
  BY <1>1 DEF Delete, SetHere, Pair
<1>4. \A k \in Host : PointOK(k)'
  BY <1>1, <1>3, OthersPoints DEF PointOK
<1>5. IdsValid'
  BY <1>2, <1>3 DEF IdsValid, Known
<1>6. HoldsLocked'
  BY <1>2, <1>3 DEF HoldsLocked, HeldIds
<1>7. ExclusionPerContext'
  BY <1>3 DEF ExclusionPerContext
<1> QED BY <1>4, <1>5, <1>6, <1>7

\* A semaphore is unlocked by the only one who holds it, who lets go of it.
LEMMA UnlockKeepsSemas ==
    ASSUME ctx \in Ctx, SemaTypes, CallsInv, SemasInv, NEW h \in Host, Unlock(h)
    PROVE  SemasInv'
<1> USE DEF SemaTypes, Advance, vars, SemasInv
<1> DEFINE p == SemaOf(h)
<1>1. /\ KernelStep(h) /\ call[h].home = ctx /\ call[h].id \in SemId
      /\ p \in held[h] \cup stale
  BY KernelStepAwake DEF KernelStep, CallRecord, CallsInv, CallsAtHome, LoudGames, Unlock, PointOK
<1>2. /\ UNCHANGED <<contexts, ids, stale>> /\ at'[h] = "store"
      /\ \A k \in Host \ {h} : held'[k] = held[k]
      /\ held'[h] = {q \in held[h] : q[2] # p[2]}
      /\ \A q \in Pair : sema'[q[1]][q[2]].valid = sema[q[1]][q[2]].valid
      /\ \A q \in Pair \ {p} : sema'[q[1]][q[2]] = sema[q[1]][q[2]]
  BY <1>1 DEF Unlock, LetGo, SetHere, Here, Sema, SemaOf, Pair
<1>3. \A k \in Host : PointOK(k)'
  BY <1>1, <1>2, OthersPoints DEF PointOK
<1> HIDE DEF p
<1>4. IdsValid'
  BY <1>2 DEF IdsValid
<1>5. ASSUME NEW k \in Host, p \in held'[k]
      PROVE  p \in stale
  BY <1>1, <1>2, <1>5 DEF ExclusionPerContext
<1>6. HoldsLocked'
  BY <1>2, <1>5 DEF HoldsLocked
<1>7. ExclusionPerContext'
  BY <1>2 DEF ExclusionPerContext
<1> QED BY <1>3, <1>4, <1>6, <1>7

\* Who comes back from the mutex holds the semaphore alone, since the others' hold
\* would have kept it locked.
LEMMA LockKeepsSemas ==
    ASSUME ctx \in Ctx, SemaTypes, CallsInv, SemasInv, NEW h \in Host, Lock(h)
    PROVE  SemasInv'
<1> USE DEF SemaTypes, Advance, vars, SemasInv
<1> DEFINE p == SemaOf(h)
<1>1. KernelStep(h) /\ QuietGame /\ call[h].home \in Ctx /\ call[h].id \in SemId
  BY KernelStepAwake DEF KernelStep, CallRecord, CallsInv, LoudGames, Lock, LockAt
<1>2. /\ call[h].addr = call[h].home /\ contexts[p[1]].clean
      /\ p \in ids \cup stale
  BY <1>1 DEF CallsInv, CallsAtHome, Lock, LockAt, PointOK, SemaOf
<1>3. /\ p \in Pair /\ ~sema[p[1]][p[2]].locked /\ sema'[p[1]][p[2]].locked
      /\ UNCHANGED <<contexts, ids, stale>> /\ at'[h] = "store"
      /\ \A k \in Host \ {h} : held'[k] = held[k]
      /\ held'[h] = held[h] \cup {p}
      /\ \A q \in Pair : sema'[q[1]][q[2]].valid = sema[q[1]][q[2]].valid
      /\ \A q \in Pair \ {p} : sema'[q[1]][q[2]] = sema[q[1]][q[2]]
  <2>1. /\ p \in Pair /\ p[1] = call[h].home /\ p[2] = call[h].id
        /\ ~sema[p[1]][p[2]].locked
        /\ UNCHANGED <<contexts, ids, stale>>
        /\ held' = [held EXCEPT ![h] = @ \cup {p}]
        /\ sema' = [sema EXCEPT ![p[1]][p[2]].locked = TRUE]
    BY <1>1, <1>2 DEF Lock, LockAt, SemaOf, Pair
  <2>2. at'[h] = "store"
    BY DEF Lock, LockAt
  <2>3. /\ \A k \in Host \ {h} : held'[k] = held[k]
        /\ held'[h] = held[h] \cup {p}
    BY <2>1
  <2>4. p[1] \in Ctx /\ p[2] \in SemId
    BY <1>1, <2>1
  <2> HIDE DEF p
  <2>5. ASSUME NEW q \in Pair
        PROVE  /\ sema'[q[1]][q[2]].valid = sema[q[1]][q[2]].valid
               /\ q # p => sema'[q[1]][q[2]] = sema[q[1]][q[2]]
    <3>1. q[1] \in Ctx /\ q[2] \in SemId /\ (q # p => q[1] # p[1] \/ q[2] # p[2])
      BY <2>1 DEF Pair
    <3> QED BY <2>1, <2>4, <3>1 DEF Sema
  <2>6. sema'[p[1]][p[2]].locked
    BY <2>1, <2>4 DEF Sema
  <2> QED BY <2>1, <2>2, <2>3, <2>5, <2>6
<1>0. \A k \in Host : held'[k] \subseteq Pair
  BY <1>3
<1>4. \A k \in Host : PointOK(k)'
  BY <1>1, <1>3, OthersPoints DEF PointOK
<1> HIDE DEF p
<1>5. IdsValid'
  BY <1>3 DEF IdsValid
<1>6. p \notin stale => sema[p[1]][p[2]].valid /\ \A k \in Host : p \notin held[k]
  BY <1>2, <1>3 DEF IdsValid, HoldsLocked
<1>7. HoldsLocked'
  <2> SUFFICES ASSUME NEW k \in Host, NEW q \in Pair, q \in held'[k]
               PROVE  /\ contexts'[q[1]].clean
                      /\ q \notin stale' => sema'[q[1]][q[2]].valid /\ sema'[q[1]][q[2]].locked
    BY <1>0 DEF HoldsLocked
  <2>1. CASE q = p
    BY <1>2, <1>3, <1>6, <2>1
  <2>2. CASE q # p
    BY <1>3, <2>2 DEF HoldsLocked
  <2> QED BY <2>1, <2>2
<1>8. ExclusionPerContext'
  BY <1>3, <1>6 DEF ExclusionPerContext
<1> QED BY <1>4, <1>5, <1>7, <1>8

\* A game that makes a call knows the id, or holds it, or is counted as stale.
LEMMA GameCallKeepsSemas ==
    ASSUME ctx \in Ctx, SemaTypes, CallsInv, SemasInv, NEW h \in Host,
           NEW o \in Calls, NEW i \in SemId, CallKernel(h, o, i)
    PROVE  SemasInv'
<1> USE DEF SemaTypes, SemasInv
<1>1. /\ UNCHANGED <<contexts, sema, held>> /\ at'[h] = Entry[o] /\ ids' \subseteq ids
      /\ call'[h] = [op |-> o, id |-> i, home |-> ctx, addr |-> ctx]
      /\ \A k \in Host \ {h} : at'[k] = at[k] /\ call'[k] = call[k]
      /\ stale \subseteq stale' /\ (Stale(h, o, i) => <<ctx, i>> \in stale')
      /\ \A p \in ids : (o = "DELETE_SEMA" /\ p[2] = i) \/ p \in ids'
  BY DEF CallKernel, vars
<1>2. MayCallOn(h, o, i) /\ o \in AllCalls
  BY CallsAssumption DEF CallKernel
<1>3. \A k \in Host \ {h} : at[k] \in {"none", "lock", "asleep"}
  BY DEF CallKernel, UsesKernel, Quiet, Idle, Blocked
<1>4. ASSUME NEW k \in Host, k # h
      PROVE  PointOK(k)'
  <2>1. at[k] = "lock" => call[k].op = "WAIT_SEMA" /\ SemaOf(k) \in ids \cup stale
    BY DEF PointOK
  <2>2. at[k] = "lock" /\ o = "DELETE_SEMA" => call[k].id # i
    BY <1>2, <2>1 DEF MayCallOn, Unused, AllCalls, TableCall, SignalCall
  <2>3. at[k] = "lock" => SemaOf(k) \in ids' \cup stale'
    BY <1>1, <2>1, <2>2 DEF SemaOf
  <2> QED BY <1>1, <1>3, <1>4, <2>1, <2>3 DEF PointOK, SemaOf
<1>5. PointOK(h)'
  <2>1. SemaOf(h)' = <<ctx, i>> /\ call'[h].op = o /\ call'[h].id = i
    BY <1>1 DEF SemaOf
  <2>2. o = "WAIT_SEMA" => <<ctx, i>> \in ids' \cup stale'
    BY <1>1 DEF Stale
  <2>3. o \in SignalCall => <<ctx, i>> \in held'[h] \cup stale'
    BY <1>1 DEF Stale
  <2>4. o = "DELETE_SEMA" => i \notin Known' /\ \A k \in Host : i \notin HeldIds(k)'
    <3>1. o = "DELETE_SEMA" => ids' = {p \in ids : p[2] # i}
      BY DEF CallKernel
    <3>2. o = "DELETE_SEMA" => \A k \in Host : i \notin HeldIds(k)
      BY <1>2 DEF MayCallOn, Unused, SignalCall
    <3> QED BY <1>1, <3>1, <3>2 DEF Known, HeldIds
  <2> QED BY <1>1, <1>2, <2>1, <2>2, <2>3, <2>4, EntryPoint DEF PointOK
<1>6. IdsValid'
  BY <1>1 DEF IdsValid
<1>7. HoldsLocked'
  BY <1>1 DEF HoldsLocked
<1>8. ExclusionPerContext'
  BY <1>1 DEF ExclusionPerContext
<1> QED BY <1>4, <1>5, <1>6, <1>7, <1>8

\* Threads that are created and start leave semaphores alone, save the clearing of
\* a register file that nobody has used.
LEMMA ThreadsKeepSemas ==
    ASSUME TypeOK, SemaTypes, CallsInv, SemasInv, NEW h \in Host,
           \/ AskCreate(h) \/ CreateStep(h) \/ CreateResult(h)
           \/ AskStart(h) \/ RunStart(h) \/ KernelStart(h)
    PROVE  SemasInv'
<1> USE DEF SemaTypes, SemasInv
<1>1. \A c \in Ctx : contexts[c].clean => contexts'[c].clean
  <2>1. CASE AskCreate(h) \/ CreateStep(h) \/ CreateResult(h)
    BY <2>1 DEF AskCreate, CallCreate, CreateStep, FillEntry, IncLoad, CreateResult, IncStore, globals
  <2>2. CASE AskStart(h) \/ RunStart(h)
    BY <2>2 DEF AskStart, CallStart, RunStart, DirectCall, ReuseFrame, Spawn, SpawnWith, globals
  <2>3. CASE SetGp(h) \/ SetSp(h)
    BY <2>3 DEF SetGp, SetSp, TypeOK, Context
  <2>4. CASE ClearContext(h)
    BY <2>4 DEF ClearContext, TypeOK
  <2>5. CASE AllocContext(h) \/ SetThreadID(h) \/ EnterFunction(h)
    BY <2>5 DEF AllocContext, SetThreadID, EnterFunction, globals
  <2> QED BY <2>1, <2>2, <2>3, <2>4, <2>5 DEF KernelStart, ClearTable
<1>2. CASE UNCHANGED kernel
  <2>1. \A k \in Host : PointOK(k)'
    BY <1>2 DEF kernel, PointOK, SemaOf, Known, HeldIds
  <2> QED BY <1>1, <1>2, <2>1 DEF kernel, IdsValid, HoldsLocked, ExclusionPerContext, Pair
<1>3. CASE AskCreate(h) \/ CreateResult(h)
  <2>1. /\ UNCHANGED <<sema, ids, held, stale>> /\ at'[h] \in {"none", "store"}
        /\ \A k \in Host \ {h} : at'[k] = at[k] /\ call'[k] = call[k]
    BY <1>3 DEF AskCreate, InGame, CreateResult
  <2>2. \A k \in Host : PointOK(k)'
    BY <2>1 DEF PointOK, SemaOf, Known, HeldIds
  <2> QED BY <1>1, <2>1, <2>2 DEF IdsValid, HoldsLocked, ExclusionPerContext, Pair
<1>4. CASE ClearTable(h)
  <2>1. /\ UNCHANGED <<at, call, ids, held, stale>> /\ ctx \in Ctx
        /\ \A c \in Ctx \ {ctx} : sema'[c] = sema[c]
        /\ pc[h] = "memset"
    BY <1>4 DEF ClearTable, ClearContext, TypeOK, At
  <2>2. QuietGame => ~contexts[ctx].clean
    BY <2>1 DEF CallsInv, FilesCleared
  <2>3. /\ \A p \in ids : p[1] # ctx
        /\ \A k \in Host : \A p \in held[k] : p[1] # ctx
        /\ \A k \in Host : at[k] \notin {"slot", "fill"}
    <3>1. CASE QuietGame
      BY <2>1, <2>2, <3>1 DEF IdsValid, HoldsLocked, CallsInv, MakingAlone, Making, Starting,
         Awake, Blocked
    <3>2. CASE ~QuietGame
      BY <3>2 DEF CallsInv, LoudGames
    <3> QED BY <3>1, <3>2
  <2>4. \A k \in Host : PointOK(k)'
    BY <2>1, <2>3 DEF PointOK, SemaOf, Known, HeldIds
  <2>5. IdsValid' /\ HoldsLocked'
    BY <1>1, <2>1, <2>3 DEF IdsValid, HoldsLocked, Pair
  <2>6. ExclusionPerContext'
    BY <2>1 DEF ExclusionPerContext
  <2> QED BY <2>4, <2>5, <2>6
<1> QED BY <1>2, <1>3, <1>4 DEF CreateStep, AskStart, RunStart, KernelStart

\* In the initial state no semaphore exists.
LEMMA SemasInit == KernelInit => SemasInv
BY DEF KernelInit, SemasInv, PointOK, IdsValid, HoldsLocked, ExclusionPerContext

\* Every step keeps the invariant.
LEMMA SemasStep ==
    TypeOK /\ SemaTypes /\ CallsInv /\ SemasInv /\ [KernelNext]_everything => SemasInv'
<1>1. CASE UNCHANGED everything
  BY <1>1 DEF everything, vars, kernel, SemasInv, PointOK, SemaOf, Known, HeldIds, IdsValid,
     HoldsLocked, ExclusionPerContext
<1>2. ASSUME TypeOK, SemaTypes, CallsInv, SemasInv, KernelNext
      PROVE  SemasInv'
  <2> PICK h \in Host : \/ AskCreate(h) \/ CreateStep(h) \/ CreateResult(h)
                        \/ AskStart(h) \/ RunStart(h) \/ KernelStart(h)
                        \/ KernelStep(h)
                        \/ \E o \in Calls, i \in SemId : CallKernel(h, o, i)
    BY <1>2 DEF KernelNext
  <2>1. CASE KernelStep(h)
    <3>1. ctx \in Ctx
      BY <1>2 DEF TypeOK
    <3>2. Delete(h) => at[h] \in {"del", "zero"}
      BY DEF Delete
    <3> QED BY <1>2, <2>1, <3>1, <3>2, MildStepKeepsSemas, FillKeepsSemas, ZeroKeepsSemas,
               UnlockKeepsSemas, LockKeepsSemas DEF KernelStep
  <2>2. CASE \E o \in Calls, i \in SemId : CallKernel(h, o, i)
    BY <1>2, <2>2, GameCallKeepsSemas DEF TypeOK
  <2> QED BY <1>2, <2>1, <2>2, ThreadsKeepSemas
<1> QED BY <1>1, <1>2

\* Two threads hold one semaphore only where an id or a hold was carried over a start
\* into a register file where it means another semaphore, or none.
THEOREM ExclusionKept == KernelSpec => []ExclusionPerContext
<1>1. SemasInv => ExclusionPerContext
  BY DEF SemasInv
<1>2. KernelSpec => []SemasInv
  BY SemasInit, SemasStep, CallsInvariant, PTL DEF KernelSpec
<1> QED BY <1>1, <1>2, PTL

================================================================================
