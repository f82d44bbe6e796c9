-------------------------- MODULE EESemaphoreProofs --------------------------
(****************************************************************************)
(* Proofs about the kernel semaphores, for any number of threads, slots and *)
(* initial counts and any use of the semaphores that MayCall allows, when   *)
(* CreateSema and DeleteSema do not overlap (SerialTable).                  *)
(****************************************************************************)
EXTENDS EESemaphore, TLAPS

\* The program points of each call.
PointsOf(o) ==
    CASE o = "CreateSema"      -> {"scan", "set_count", "set_wait", "set_valid", "set_mutex"}
      [] o = "DeleteSema"      -> {"del_test", "del_zero"}
      [] o = "SignalSema"      -> {"sig_test", "inc_load", "inc_store", "isig_test", "unlock"}
      [] o = "iSignalSema"     -> {"isig_test", "unlock"}
      [] o = "WaitSema"        -> {"enter_load", "enter_store", "test", "dec_load", "dec_store", "lock"}
      [] o = "PollSema"        -> {"test", "dec_load", "dec_store"}
      [] o = "ReferSemaStatus" -> {"ref_valid", "ref_count", "ref_wait"}
      [] o = "none"            -> {"idle"}

Control == \A t \in Thread : /\ pc[t] \in PointsOf(op[t])
                             /\ pc[t] = "idle" => reg[t] = 0
                             /\ pc[t] = "scan" => reg[t] \in SemId
                             /\ pc[t] = "enter_store" => reg[t] \in Nat

\* The table calls do not overlap, and the slot they work on is nobody's.
TableInv ==
    /\ \A t, u \in Thread : t # u => ~(op[t] \in TableCall /\ op[u] \in TableCall)
    /\ \A i \in live : isValid[i]
    /\ \A t \in Thread : (op[t] \in TableCall /\ pc[t] # "scan") => id[t] \notin live
    /\ \A t \in Thread : pc[t] = "set_mutex" => isValid[id[t]]

\* Every id in use is live.
UseInv ==
    /\ \A t \in Thread : op[t] \in AllCalls \ TableCall => id[t] \in live
    /\ \A t \in Thread : holding[t] \subseteq live

\* Where nobody signals what somebody else has waited for: holders exclude each
\* other and have the mutex; a client that signals ahead is alone on its
\* semaphore.
HoldInv ==
    /\ \A t, u \in Thread : t # u => holding[t] \cap holding[u] = {}
    /\ \A t \in Thread : \A i \in holding[t] : locked[i]
    /\ \A t \in Thread : op[t] = "WaitSema" => id[t] \notin holding[t]
    /\ \A t, u \in Thread : \A i \in SemId :
          Posting(t, i) => /\ i \notin holding[u]
                           /\ ~(op[u] = "WaitSema" /\ id[u] = i)
                           /\ ~locked[i]

\* A wait leaves its trace in wait_threads from the moment it is counted in.
WaitInv ==
    /\ \A i \in live : locked[i] => waitThreads[i] > 0
    /\ \A t \in Thread :
          op[t] = "WaitSema" /\ pc[t] \notin {"enter_load", "enter_store"}
             => waitThreads[id[t]] > 0

IInv == /\ TypeOK /\ Control /\ TableInv /\ UseInv /\ WaitInv
        /\ Locking => HoldInv
        /\ NoRaiseOnceWaited

-----------------------------------------------------------------------------
\* One step of one thread.
Move(t) == Step(t) \/ \E o \in Calls, i \in SemId : Call(t, o, i)

LEMMA Ids == 0 \in SemId /\ \A i \in SemId : i \in Int /\ i + 1 \in Int
  BY CountAssumption DEF SemId

LEMMA InitType == Init => TypeOK
  BY Ids DEF Init, TypeOK, TableType, ThreadType, ClientType, Point, AllCalls

LEMMA GotoType ==
  ASSUME ThreadType, NEW t \in Thread, NEW p \in Point, Goto(t, p)
  PROVE  ThreadType'
  BY DEF ThreadType, Goto

LEMMA LoadType ==
  ASSUME ThreadType, NEW t \in Thread, NEW p \in Point, NEW v \in Int, Load(t, v, p)
  PROVE  ThreadType'
  BY DEF ThreadType, Load

LEMMA ReturnType ==
  ASSUME ThreadType, NEW t \in Thread, NEW r \in Int, Return(t, r)
  PROVE  ThreadType'
  BY Ids DEF ThreadType, Return, Point

LEMMA ThreadTypeStep ==
  ASSUME TypeOK, Control, NEW t \in Thread, Move(t)
  PROVE  ThreadType'
<1> USE GotoType, LoadType, ReturnType DEF TypeOK
<1>1. CASE CreateStep(t)
  <2>1. CASE Scan(t)
    <3>1. reg[t] \in SemId /\ reg[t] \in Int /\ reg[t] + 1 \in Int
      BY <2>1, Ids DEF Scan, At, Control
    <3>2. CASE ~isValid[reg[t]]
      BY <2>1, <3>1, <3>2 DEF Scan, ThreadType, Point
    <3>3. CASE isValid[reg[t]]
      BY <2>1, <3>1, <3>3 DEF Scan, Point
    <3> QED BY <3>2, <3>3
  <2>2. CASE SetCount(t) \/ SetWait(t) \/ SetValid(t)
    BY <2>2 DEF SetCount, SetWait, SetValid, Point
  <2>3. CASE SetMutex(t)
    <3>1. id[t] \in Int
      BY Ids DEF ThreadType
    <3> QED BY <2>3, <3>1 DEF SetMutex
  <2> QED BY <1>1, <2>1, <2>2, <2>3 DEF CreateStep
<1>2. CASE DeleteStep(t)
  BY <1>2 DEF DeleteStep, DelTest, DelZero, Point
<1>3. CASE SignalStep(t)
  <2>1. count[id[t]] \in Int
    BY DEF TableType, ThreadType
  <2> QED BY <1>3, <2>1 DEF SignalStep, SigTest, IncLoad, IncStore, ISigTest, Unlock, Point
<1>4. CASE WaitStep(t)
  <2>1. count[id[t]] \in Int /\ waitThreads[id[t]] \in Int
    BY DEF TableType, ThreadType
  <2> QED BY <1>4, <2>1 DEF WaitStep, EnterLoad, EnterStore, TestCount, DecLoad, DecStore,
                            Lock, AfterDecrement, Point
<1>5. CASE ReferStep(t)
  BY <1>5 DEF ReferStep, ReferValid, ReferCount, ReferWait, Point
<1>6. ASSUME NEW o \in Calls, NEW i \in SemId, Call(t, o, i) PROVE ThreadType'
  <2>1. o \in AllCalls /\ Entry[o] \in Point
    BY CallAssumption DEF Entry, AllCalls, Point
  <2> QED BY <1>6, <2>1 DEF Call, ThreadType
<1> QED BY <1>1, <1>2, <1>3, <1>4, <1>5, <1>6 DEF Move, Step

\* The actions that write the table; every other one leaves it alone.
LEMMA TableWriters ==
  ASSUME NEW t \in Thread, Move(t)
  PROVE  \/ UNCHANGED table
         \/ SetCount(t) \/ SetWait(t) \/ SetValid(t) \/ SetMutex(t) \/ DelZero(t)
         \/ IncStore(t) \/ Unlock(t) \/ EnterStore(t) \/ DecStore(t) \/ Lock(t)
<1>1. CASE CreateStep(t)
  BY <1>1 DEF CreateStep, Scan
<1>2. CASE DeleteStep(t)
  BY <1>2 DEF DeleteStep, DelTest
<1>3. CASE SignalStep(t)
  BY <1>3 DEF SignalStep, SigTest, IncLoad, ISigTest
<1>4. CASE WaitStep(t)
  BY <1>4 DEF WaitStep, EnterLoad, TestCount, DecLoad
<1>5. CASE ReferStep(t)
  BY <1>5 DEF ReferStep, ReferValid, ReferCount, ReferWait
<1>6. ASSUME NEW o \in Calls, NEW i \in SemId, Call(t, o, i) PROVE UNCHANGED table
  BY <1>6 DEF Call
<1> QED BY <1>1, <1>2, <1>3, <1>4, <1>5, <1>6 DEF Move, Step

LEMMA TableTypeStep ==
  ASSUME TypeOK, Control, NEW t \in Thread, Move(t)
  PROVE  TableType'
<1> USE DEF TableType
<1>1. TableType /\ id[t] \in SemId /\ reg[t] \in Int
  BY DEF TypeOK, ThreadType
<1>2. CASE UNCHANGED table
  BY <1>1, <1>2 DEF table
<1>3. CASE SetCount(t)
  BY <1>1, <1>3, InitAssumption DEF SetCount
<1>4. CASE SetWait(t)
  BY <1>1, <1>4 DEF SetWait
<1>5. CASE SetValid(t)
  BY <1>1, <1>5 DEF SetValid
<1>6. CASE SetMutex(t)
  BY <1>1, <1>6 DEF SetMutex
<1>7. CASE DelZero(t)
  BY <1>1, <1>7 DEF DelZero
<1>8. CASE IncStore(t)
  BY <1>1, <1>8 DEF IncStore
<1>9. CASE Unlock(t)
  BY <1>1, <1>9 DEF Unlock
<1>10. CASE EnterStore(t)
  BY <1>1, <1>10 DEF EnterStore, At, Control
<1>11. CASE DecStore(t)
  BY <1>1, <1>11 DEF DecStore
<1>12. CASE Lock(t)
  BY <1>1, <1>12 DEF Lock
<1> QED BY TableWriters, <1>2, <1>3, <1>4, <1>5, <1>6, <1>7, <1>8, <1>9, <1>10, <1>11, <1>12

LEMMA ClientTypeStep ==
  ASSUME TypeOK, NEW t \in Thread, Move(t)
  PROVE  ClientType'
<1> USE DEF TypeOK, ClientType, client
<1>1. id[t] \in SemId
  BY DEF ThreadType
<1>2. CASE CreateStep(t)
  BY <1>1, <1>2 DEF CreateStep, Scan, SetCount, SetWait, SetValid, SetMutex
<1>3. CASE DeleteStep(t)
  BY <1>3 DEF DeleteStep, DelTest, DelZero
<1>4. CASE SignalStep(t)
  BY <1>4 DEF SignalStep, SigTest, IncLoad, IncStore, ISigTest, Unlock, LetGo
<1>5. CASE WaitStep(t)
  BY <1>1, <1>5 DEF WaitStep, EnterLoad, EnterStore, TestCount, DecLoad, DecStore, Lock
<1>6. CASE ReferStep(t)
  <2>1. count[id[t]] \in Int /\ waitThreads[id[t]] \in Nat
    BY <1>1 DEF TableType
  <2> QED BY <1>6, <2>1 DEF ReferStep, ReferValid, ReferCount, ReferWait
<1>7. ASSUME NEW o \in Calls, NEW i \in SemId, Call(t, o, i) PROVE ClientType'
  BY <1>7 DEF Call
<1> QED BY <1>2, <1>3, <1>4, <1>5, <1>6, <1>7 DEF Move, Step

-----------------------------------------------------------------------------
LEMMA ControlStep ==
  ASSUME TypeOK, Control, NEW t \in Thread, Move(t)
  PROVE  Control'
<1> USE DEF Control, At
<1>0. pc \in [Thread -> Point] /\ op \in [Thread -> AllCalls \cup {"none"}]
      /\ reg \in [Thread -> Int] /\ id[t] \in SemId
  BY DEF TypeOK, ThreadType
<1> DEFINE Moved == /\ pc'[t] \in PointsOf(op'[t])
                    /\ pc'[t] = "idle" => reg'[t] = 0
                    /\ pc'[t] = "scan" => reg'[t] \in SemId
                    /\ pc'[t] = "enter_store" => reg'[t] \in Nat
                    /\ \A u \in Thread \ {t} : pc'[u] = pc[u] /\ op'[u] = op[u] /\ reg'[u] = reg[u]
<1>a. SUFFICES Moved
  OBVIOUS
<1>b. ASSUME NEW p \in Point, Goto(t, p)
      PROVE  /\ pc'[t] = p /\ op'[t] = op[t] /\ reg'[t] = reg[t]
             /\ \A u \in Thread \ {t} : pc'[u] = pc[u] /\ op'[u] = op[u] /\ reg'[u] = reg[u]
  BY <1>0, <1>b DEF Goto
<1>c. ASSUME NEW p \in Point, NEW v, Load(t, v, p)
      PROVE  /\ pc'[t] = p /\ op'[t] = op[t] /\ reg'[t] = v
             /\ \A u \in Thread \ {t} : pc'[u] = pc[u] /\ op'[u] = op[u] /\ reg'[u] = reg[u]
  BY <1>0, <1>c DEF Load
<1>d. ASSUME NEW r, Return(t, r)
      PROVE  /\ pc'[t] = "idle" /\ op'[t] = "none" /\ reg'[t] = 0
             /\ \A u \in Thread \ {t} : pc'[u] = pc[u] /\ op'[u] = op[u] /\ reg'[u] = reg[u]
  BY <1>0, <1>d DEF Return
<1>1. CASE CreateStep(t)
  BY <1>0, <1>1, <1>b, <1>c, <1>d
     DEF CreateStep, Scan, SetCount, SetWait, SetValid, SetMutex, PointsOf, Point, AllCalls
<1>2. CASE DeleteStep(t)
  BY <1>0, <1>2, <1>b, <1>d DEF DeleteStep, DelTest, DelZero, PointsOf, Point, AllCalls
<1>3. CASE SignalStep(t)
  BY <1>0, <1>3, <1>b, <1>c, <1>d
     DEF SignalStep, SigTest, IncLoad, IncStore, ISigTest, Unlock, PointsOf, Point, AllCalls
<1>4. CASE WaitStep(t)
  <2>1. waitThreads[id[t]] \in Nat
    BY <1>0 DEF TypeOK, TableType
  <2> QED BY <1>0, <1>4, <2>1, <1>b, <1>c, <1>d
             DEF WaitStep, EnterLoad, EnterStore, TestCount, DecLoad, DecStore, Lock,
                 AfterDecrement, PointsOf, Point, AllCalls
<1>5. CASE ReferStep(t)
  BY <1>0, <1>5, <1>b, <1>d
     DEF ReferStep, ReferValid, ReferCount, ReferWait, PointsOf, Point, AllCalls
<1>6. ASSUME NEW o \in Calls, NEW i \in SemId, Call(t, o, i)
      PROVE  Moved
  <2>1. o \in AllCalls /\ Entry[o] \in PointsOf(o) /\ Entry[o] # "idle" /\ Entry[o] # "enter_store"
    BY CallAssumption DEF Entry, PointsOf, AllCalls
  <2>2. pc'[t] = Entry[o] /\ op'[t] = o /\ reg'[t] = 0
    BY <1>0, <1>6 DEF Call
  <2>3. \A u \in Thread \ {t} : pc'[u] = pc[u] /\ op'[u] = op[u] /\ reg'[u] = reg[u]
    BY <1>0, <1>6 DEF Call
  <2> QED BY <2>1, <2>2, <2>3, Ids
<1> QED BY <1>1, <1>2, <1>3, <1>4, <1>5, <1>6 DEF Move, Step

-----------------------------------------------------------------------------
\* A thread writes only its own control state and its own holds.
Same(u) == /\ pc'[u] = pc[u] /\ op'[u] = op[u] /\ id'[u] = id[u]
           /\ reg'[u] = reg[u] /\ holding'[u] = holding[u]

LEMMA Frame ==
  ASSUME TypeOK, NEW t \in Thread, Move(t)
  PROVE  \A u \in Thread \ {t} : Same(u)
<1> SUFFICES ASSUME NEW u \in Thread \ {t} PROVE Same(u)
  OBVIOUS
<1> USE DEF Same, Goto, Load, Return, client
<1>0. /\ DOMAIN pc = Thread /\ DOMAIN op = Thread /\ DOMAIN id = Thread
      /\ DOMAIN reg = Thread /\ DOMAIN holding = Thread
  BY DEF TypeOK, ThreadType, ClientType
<1>1. CASE CreateStep(t)
  BY <1>0, <1>1 DEF CreateStep, Scan, SetCount, SetWait, SetValid, SetMutex
<1>2. CASE DeleteStep(t)
  BY <1>0, <1>2 DEF DeleteStep, DelTest, DelZero
<1>3. CASE SignalStep(t)
  BY <1>0, <1>3 DEF SignalStep, SigTest, IncLoad, IncStore, ISigTest, Unlock, LetGo
<1>4. CASE WaitStep(t)
  BY <1>0, <1>4 DEF WaitStep, EnterLoad, EnterStore, TestCount, DecLoad, DecStore, Lock,
                    AfterDecrement
<1>5. CASE ReferStep(t)
  BY <1>0, <1>5 DEF ReferStep, ReferValid, ReferCount, ReferWait
<1>6. ASSUME NEW o \in Calls, NEW i \in SemId, Call(t, o, i) PROVE Same(u)
  BY <1>0, <1>6 DEF Call
<1> QED BY <1>1, <1>2, <1>3, <1>4, <1>5, <1>6 DEF Move, Step

\* What a step does to the thread that takes it: it moves on inside its call,
\* leaves it, starts a call, or finds its slot.
LEMMA Mover ==
  ASSUME TypeOK, NEW t \in Thread, Move(t)
  PROVE  \/ op'[t] = op[t] /\ id'[t] = id[t] /\ holding'[t] = holding[t]
         \/ op'[t] = "none" /\ pc'[t] = "idle"
         \/ \E o \in Calls, i \in SemId : Call(t, o, i)
         \/ Scan(t)
<1> USE DEF Goto, Load, Return, client
<1>0. pc[t] \in Point /\ DOMAIN pc = Thread /\ DOMAIN op = Thread
  BY DEF TypeOK, ThreadType
<1>1. CASE CreateStep(t)
  BY <1>0, <1>1 DEF CreateStep, SetCount, SetWait, SetValid, SetMutex
<1>2. CASE DeleteStep(t)
  BY <1>0, <1>2 DEF DeleteStep, DelTest, DelZero
<1>3. CASE SignalStep(t)
  BY <1>0, <1>3 DEF SignalStep, SigTest, IncLoad, IncStore, ISigTest, Unlock
<1>4. CASE WaitStep(t)
  BY <1>0, <1>4 DEF WaitStep, EnterLoad, EnterStore, TestCount, DecLoad, DecStore, Lock,
                    AfterDecrement
<1>5. CASE ReferStep(t)
  BY <1>0, <1>5 DEF ReferStep, ReferValid, ReferCount, ReferWait
<1> QED BY <1>1, <1>2, <1>3, <1>4, <1>5 DEF Move, Step

LEMMA TableStep ==
  ASSUME SerialTable, TypeOK, Control, TableInv, NEW t \in Thread, Move(t)
  PROVE  TableInv'
<1>0. /\ pc[t] \in PointsOf(op[t]) /\ op[t] \in AllCalls \cup {"none"}
      /\ op \in [Thread -> AllCalls \cup {"none"}] /\ pc \in [Thread -> Point]
      /\ id \in [Thread -> SemId] /\ isValid \in [SemId -> BOOLEAN] /\ live \in SUBSET SemId
  BY DEF TypeOK, ThreadType, TableType, ClientType, Control
<1>f. \A u \in Thread \ {t} : pc'[u] = pc[u] /\ op'[u] = op[u] /\ id'[u] = id[u]
  BY Frame DEF Same
\* A thread in a table call is the only one.
<1>s. op[t] \in TableCall => \A u \in Thread \ {t} : op[u] \notin TableCall /\ pc[u] # "set_mutex"
  <2> SUFFICES ASSUME op[t] \in TableCall, NEW u \in Thread \ {t}
               PROVE  op[u] \notin TableCall /\ pc[u] # "set_mutex"
    OBVIOUS
  <2>1. op[u] \notin TableCall
    BY DEF TableInv
  <2>2. pc[u] \in PointsOf(op[u]) /\ op[u] \in AllCalls \cup {"none"}
    BY <1>0 DEF Control
  <2> QED BY <2>1, <2>2 DEF PointsOf, TableCall, AllCalls
<1> USE DEF TableInv, At
<1>1. CASE Scan(t)
  <2>1. op[t] = "CreateSema" /\ isValid' = isValid /\ live' = live
    BY <1>0, <1>1 DEF Scan, PointsOf, AllCalls, table, client
  <2>2. CASE ~isValid[reg[t]]
    <3>1. op'[t] = op[t] /\ pc'[t] = "set_count" /\ id'[t] = reg[t]
      BY <1>0, <1>1, <2>2 DEF Scan, Load, Return
    <3> QED BY <1>f, <2>1, <2>2, <3>1
  <2>3. CASE isValid[reg[t]]
    <3>1. (op'[t] = op[t] /\ pc'[t] = "scan") \/ (op'[t] = "none" /\ pc'[t] = "idle")
      BY <1>0, <1>1, <2>3 DEF Scan, Load, Return
    <3> QED BY <1>f, <2>1, <3>1 DEF TableCall
  <2> QED BY <2>2, <2>3
<1>2. CASE SetCount(t) \/ SetWait(t) \/ DelTest(t)
  <2>1. /\ op[t] \in TableCall /\ pc[t] # "scan" /\ isValid' = isValid /\ live' = live
        /\ pc'[t] # "set_mutex"
    BY <1>0, <1>2 DEF SetCount, SetWait, DelTest, Goto, Return, PointsOf, AllCalls, TableCall,
                      table, client
  <2>2. (op'[t] = op[t] /\ id'[t] = id[t]) \/ op'[t] = "none"
    BY <1>0, <1>2 DEF SetCount, SetWait, DelTest, Goto, Return
  <2> QED BY <1>f, <2>1, <2>2 DEF TableCall
<1>3. CASE SetValid(t)
  <2>1. /\ op[t] \in TableCall /\ pc[t] # "scan" /\ live' = live
        /\ op'[t] = op[t] /\ id'[t] = id[t] /\ isValid' = [isValid EXCEPT ![id[t]] = TRUE]
    BY <1>0, <1>3 DEF SetValid, Goto, PointsOf, AllCalls, TableCall, client
  <2> QED BY <1>0, <1>f, <1>s, <2>1
<1>4. CASE SetMutex(t)
  <2>1. /\ op[t] \in TableCall /\ live' = live \cup {id[t]} /\ isValid' = isValid
        /\ op'[t] = "none" /\ pc'[t] = "idle" /\ isValid[id[t]]
    BY <1>0, <1>4 DEF SetMutex, Return, PointsOf, AllCalls, TableCall
  <2> QED BY <1>f, <1>s, <2>1 DEF TableCall
<1>5. CASE DelZero(t)
  <2>1. /\ op[t] \in TableCall /\ pc[t] # "scan" /\ live' = live
        /\ op'[t] = "none" /\ pc'[t] = "idle" /\ isValid' = [isValid EXCEPT ![id[t]] = FALSE]
    BY <1>0, <1>5 DEF DelZero, Return, PointsOf, AllCalls, TableCall, client
  <2>2. id[t] \notin live
    BY <2>1
  <2> QED BY <1>0, <1>f, <1>s, <2>1, <2>2 DEF TableCall
<1>6. CASE SignalStep(t) \/ WaitStep(t) \/ ReferStep(t)
  <2>1. op[t] \notin TableCall
    BY <1>0, <1>6 DEF SignalStep, SigTest, IncLoad, IncStore, ISigTest, Unlock,
                      WaitStep, EnterLoad, EnterStore, TestCount, DecLoad, DecStore, Lock,
                      ReferStep, ReferValid, ReferCount, ReferWait, PointsOf, AllCalls, TableCall
  <2>2. isValid' = isValid /\ live' = live
    BY <1>6 DEF SignalStep, SigTest, IncLoad, IncStore, ISigTest, Unlock,
                WaitStep, EnterLoad, EnterStore, TestCount, DecLoad, DecStore, Lock,
                ReferStep, ReferValid, ReferCount, ReferWait, table, client
  <2>3. op'[t] \in {op[t], "none"} /\ pc'[t] # "set_mutex"
    BY <1>0, <1>6
       DEF SignalStep, SigTest, IncLoad, IncStore, ISigTest, Unlock,
           WaitStep, EnterLoad, EnterStore, TestCount, DecLoad, DecStore, Lock, AfterDecrement,
           ReferStep, ReferValid, ReferCount, ReferWait, Goto, Load, Return
  <2> QED BY <1>f, <2>1, <2>2, <2>3 DEF TableCall
<1>7. ASSUME NEW o \in Calls, NEW i \in SemId, Call(t, o, i) PROVE TableInv'
  <2>1. /\ o \in AllCalls /\ isValid' = isValid
        /\ op'[t] = o /\ id'[t] = i /\ pc'[t] = Entry[o]
        /\ live' = IF o = "DeleteSema" THEN live \ {i} ELSE live
    BY <1>0, <1>7, CallAssumption DEF Call, table
  <2>2. Entry[o] # "set_mutex" /\ (o = "CreateSema" => Entry[o] = "scan")
    BY <2>1 DEF Entry, AllCalls
  <2>3. o \in TableCall => \A u \in Thread : op[u] \notin TableCall
    BY <1>7 DEF Call, MayCall, TableCall, SignalCall
  <2> QED BY <1>f, <2>1, <2>2, <2>3 DEF TableCall
<1> QED BY <1>1, <1>2, <1>3, <1>4, <1>5, <1>6, <1>7 DEF Move, Step, CreateStep, DeleteStep

-----------------------------------------------------------------------------
LEMMA UseStep ==
  ASSUME TypeOK, Control, UseInv, NEW t \in Thread, Move(t)
  PROVE  UseInv'
<1>0. /\ pc[t] \in PointsOf(op[t]) /\ op[t] \in AllCalls \cup {"none"}
      /\ op \in [Thread -> AllCalls \cup {"none"}] /\ pc \in [Thread -> Point]
      /\ id \in [Thread -> SemId] /\ live \in SUBSET SemId
      /\ holding \in [Thread -> SUBSET SemId]
  BY DEF TypeOK, ThreadType, ClientType, Control
<1>f. \A u \in Thread \ {t} : op'[u] = op[u] /\ id'[u] = id[u] /\ holding'[u] = holding[u]
  BY Frame DEF Same
<1> USE DEF UseInv, At
<1>1. CASE Lock(t)
  <2>1. /\ op[t] = "WaitSema" /\ op'[t] = "none" /\ live' = live
        /\ holding'[t] = holding[t] \cup {id[t]}
    BY <1>0, <1>1 DEF Lock, Return, PointsOf, AllCalls
  <2>2. id[t] \in live
    BY <2>1 DEF AllCalls, TableCall
  <2> QED BY <1>f, <2>1, <2>2 DEF AllCalls
<1>2. ASSUME NEW o \in Calls, NEW i \in SemId, Call(t, o, i) PROVE UseInv'
  <2>1. /\ o \in AllCalls /\ op'[t] = o /\ id'[t] = i /\ holding' = holding
        /\ live' = IF o = "DeleteSema" THEN live \ {i} ELSE live
    BY <1>0, <1>2, CallAssumption DEF Call
  <2>2. o = "DeleteSema" => Unused(i)
    BY <1>2 DEF Call, MayCall, SignalCall
  <2>3. o \in AllCalls \ TableCall => i \in live
    BY <1>2 DEF Call, MayCall, AllCalls, TableCall, SignalCall
  <2>4. CASE o = "DeleteSema"
    <3>1. \A u \in Thread : (op[u] \in AllCalls \ TableCall => id[u] # i) /\ i \notin holding[u]
      BY <2>2, <2>4 DEF Unused, Using, TableCall
    <3> QED BY <1>f, <2>1, <2>4, <3>1 DEF TableCall
  <2>5. CASE o # "DeleteSema"
    BY <1>f, <2>1, <2>3, <2>5
  <2> QED BY <2>4, <2>5
<1>3. CASE CreateStep(t) \/ DeleteStep(t)
  <2>1. op[t] \in TableCall /\ live \subseteq live' /\ holding' = holding
        /\ op'[t] \in {op[t], "none"}
    BY <1>0, <1>3 DEF CreateStep, Scan, SetCount, SetWait, SetValid, SetMutex,
                      DeleteStep, DelTest, DelZero, Goto, Load, Return, PointsOf,
                      AllCalls, TableCall, client
  <2> QED BY <1>f, <2>1 DEF AllCalls
<1>4. CASE SignalStep(t) \/ ReferStep(t) \/ (WaitStep(t) /\ ~Lock(t))
  <2>1. live' = live /\ holding'[t] \subseteq holding[t]
    BY <1>0, <1>4 DEF SignalStep, SigTest, IncLoad, IncStore, ISigTest, Unlock, LetGo,
                      WaitStep, EnterLoad, EnterStore, TestCount, DecLoad, DecStore,
                      ReferStep, ReferValid, ReferCount, ReferWait, client
  <2>2. (op'[t] = op[t] /\ id'[t] = id[t]) \/ op'[t] = "none"
    BY <1>0, <1>4
       DEF SignalStep, SigTest, IncLoad, IncStore, ISigTest, Unlock,
           WaitStep, EnterLoad, EnterStore, TestCount, DecLoad, DecStore, AfterDecrement,
           ReferStep, ReferValid, ReferCount, ReferWait, Goto, Load, Return
  <2> QED BY <1>f, <2>1, <2>2 DEF AllCalls
<1> QED BY <1>1, <1>2, <1>3, <1>4 DEF Move, Step

\* A slot a table call works on is held by nobody and awaited by nobody.
LEMMA SlotIsFree ==
  ASSUME TypeOK, TableInv, UseInv, NEW t \in Thread,
         op[t] \in TableCall, pc[t] # "scan"
  PROVE  \A u \in Thread : id[t] \notin holding[u]
                           /\ ~(op[u] = "WaitSema" /\ id[u] = id[t])
  BY DEF TableInv, UseInv, AllCalls, TableCall

LEMMA HoldStep ==
  ASSUME TypeOK, Control, TableInv, UseInv, HoldInv, WaitInv, Locking, NEW t \in Thread, Move(t)
  PROVE  HoldInv'
<1>0. /\ pc[t] \in PointsOf(op[t]) /\ op[t] \in AllCalls \cup {"none"}
      /\ op \in [Thread -> AllCalls \cup {"none"}] /\ pc \in [Thread -> Point]
      /\ id \in [Thread -> SemId] /\ locked \in [SemId -> BOOLEAN]
      /\ holding \in [Thread -> SUBSET SemId]
  BY DEF TypeOK, ThreadType, TableType, ClientType, Control
<1>f. \A u \in Thread \ {t} : op'[u] = op[u] /\ id'[u] = id[u] /\ holding'[u] = holding[u]
  BY Frame DEF Same
<1> USE DEF HoldInv, Posting, At
<1>1. CASE Lock(t)
  <2>1. /\ op[t] = "WaitSema" /\ op'[t] = "none" /\ ~locked[id[t]]
        /\ locked' = [locked EXCEPT ![id[t]] = TRUE]
        /\ holding'[t] = holding[t] \cup {id[t]}
    BY <1>0, <1>1 DEF Lock, Return, PointsOf, AllCalls
  <2>2. \A u \in Thread : id[t] \notin holding[u]
    BY <2>1
  <2>3. \A u \in Thread : ~Posting(u, id[t])
    BY <1>0, <2>1
  <2> QED BY <1>0, <1>f, <2>1, <2>2, <2>3 DEF SignalCall
<1>2. CASE SetMutex(t) \/ DelZero(t)
  <2>1. /\ op[t] \in TableCall /\ pc[t] # "scan" /\ op'[t] = "none"
        /\ locked' = [locked EXCEPT ![id[t]] = FALSE]
        /\ holding' = holding
    BY <1>0, <1>2 DEF SetMutex, DelZero, Return, PointsOf, AllCalls, TableCall, client
  <2>2. \A u \in Thread : id[t] \notin holding[u]
    BY <2>1, SlotIsFree
  <2> QED BY <1>0, <1>f, <2>1, <2>2 DEF SignalCall
<1>3. CASE Unlock(t)
  <2>1. /\ op[t] \in SignalCall /\ op'[t] = "none"
        /\ locked' = [locked EXCEPT ![id[t]] = FALSE]
        /\ holding'[t] = holding[t] \ {id[t]}
    BY <1>0, <1>3 DEF Unlock, Return, LetGo, PointsOf, AllCalls, SignalCall
  <2>2. \A u \in Thread \ {t} : id[t] \notin holding[u]
    BY <1>0, <2>1
  <2> QED BY <1>0, <1>f, <2>1, <2>2 DEF SignalCall
<1>4. ASSUME NEW o \in Calls, NEW i \in SemId, Call(t, o, i) PROVE HoldInv'
  <2>1. op'[t] = o /\ id'[t] = i /\ holding' = holding /\ locked' = locked
    BY <1>0, <1>4 DEF Call, table
  <2>2. o = "WaitSema" => i \notin holding[t] /\ \A u \in Thread : ~Posting(u, i)
    BY <1>4 DEF Call, MayCall, SignalCall, Locking
  <2>3. o \in SignalCall /\ i \notin holding[t] => Unused(i) /\ i \in live /\ waitThreads[i] = 0
    BY <1>4 DEF Call, MayCall, SignalCall, Locking
  <2>4. o \in SignalCall /\ i \notin holding[t] =>
           /\ \A u \in Thread : i \notin holding[u] /\ ~(op[u] = "WaitSema" /\ id[u] = i)
           /\ ~locked[i]
    BY <2>3 DEF Unused, Using, AllCalls, WaitInv
  <2>5. \A u, v \in Thread : \A j \in SemId :
           Posting(u, j)' => /\ j \notin holding[v] /\ ~locked[j]
                             /\ ~(op'[v] = "WaitSema" /\ id'[v] = j)
    <3> SUFFICES ASSUME NEW u \in Thread, NEW v \in Thread, NEW j \in SemId, Posting(u, j)'
                 PROVE  /\ j \notin holding[v] /\ ~locked[j]
                        /\ ~(op'[v] = "WaitSema" /\ id'[v] = j)
      OBVIOUS
    <3>1. CASE u = t
      <4>1. o \in SignalCall /\ j = i /\ i \notin holding[t]
        BY <2>1, <3>1
      <4> QED BY <1>f, <2>1, <2>4, <4>1 DEF SignalCall
    <3>2. CASE u # t
      <4>1. Posting(u, j)
        BY <1>f, <2>1, <3>2
      <4>2. v = t /\ o = "WaitSema" => i # j
        BY <2>2, <4>1
      <4> QED BY <1>f, <2>1, <4>1, <4>2
    <3> QED BY <3>1, <3>2
  <2>6. \A u \in Thread : op'[u] = "WaitSema" => id'[u] \notin holding[u]
    BY <1>f, <2>1, <2>2
  <2> HIDE DEF Posting
  <2> QED BY <2>1, <2>5, <2>6
<1>5. CASE \/ CreateStep(t) /\ ~SetMutex(t)
           \/ DeleteStep(t) /\ ~DelZero(t)
           \/ SignalStep(t) /\ ~Unlock(t)
           \/ WaitStep(t) /\ ~Lock(t)
           \/ ReferStep(t)
  <2>1. locked' = locked
    BY <1>5 DEF SignalStep, SigTest, IncLoad, IncStore, ISigTest,
                WaitStep, EnterLoad, EnterStore, TestCount, DecLoad, DecStore,
                CreateStep, Scan, SetCount, SetWait, SetValid, DeleteStep, DelTest,
                ReferStep, ReferValid, ReferCount, ReferWait, table
  <2>2. CASE op'[t] = "none"
    <3>1. holding'[t] \subseteq holding[t]
      BY <1>0, <1>5
         DEF SignalStep, SigTest, IncLoad, IncStore, ISigTest, LetGo,
             WaitStep, EnterLoad, EnterStore, TestCount, DecLoad, DecStore,
             CreateStep, Scan, SetCount, SetWait, SetValid, DeleteStep, DelTest,
             ReferStep, ReferValid, ReferCount, ReferWait, client
    <3>2. \A u \in Thread : holding'[u] \subseteq holding[u]
      BY <1>f, <3>1
    <3>3. \A u \in Thread : \A j \in SemId : Posting(u, j)' => u # t /\ Posting(u, j)
      BY <1>f, <2>2 DEF SignalCall
    <3>4. \A u \in Thread : op'[u] = "WaitSema" => u # t
      BY <2>2
    <3> HIDE DEF Posting
    <3> QED BY <1>f, <2>1, <3>2, <3>3, <3>4
  <2>3. CASE Scan(t)
    <3>1. op[t] = "CreateSema" /\ op'[t] \in {"CreateSema", "none"} /\ holding' = holding
      BY <1>0, <2>3 DEF Scan, Load, Return, PointsOf, AllCalls, client
    <3>2. \A u \in Thread : \A j \in SemId : Posting(u, j)' => u # t /\ Posting(u, j)
      BY <1>f, <3>1 DEF SignalCall
    <3>3. \A u \in Thread : op'[u] = "WaitSema" => u # t
      BY <3>1
    <3> HIDE DEF Posting
    <3> QED BY <1>f, <2>1, <3>1, <3>2, <3>3
  <2>4. CASE op'[t] = op[t] /\ id'[t] = id[t] /\ holding'[t] = holding[t]
    BY <1>0, <1>f, <2>1, <2>4
  <2>5. \A o \in Calls, i \in SemId : Call(t, o, i) => HoldInv'
    BY <1>4
  <2> QED BY <2>2, <2>3, <2>4, <2>5, Mover
<1> QED BY <1>1, <1>2, <1>3, <1>4, <1>5 DEF Move, Step, CreateStep, DeleteStep, SignalStep, WaitStep

LEMMA WaitInvStep ==
  ASSUME TypeOK, Control, TableInv, UseInv, WaitInv, NEW t \in Thread, Move(t)
  PROVE  WaitInv'
<1>0. /\ pc[t] \in PointsOf(op[t]) /\ op[t] \in AllCalls \cup {"none"}
      /\ op \in [Thread -> AllCalls \cup {"none"}] /\ pc \in [Thread -> Point]
      /\ id \in [Thread -> SemId] /\ locked \in [SemId -> BOOLEAN]
      /\ waitThreads \in [SemId -> Nat] /\ live \in SUBSET SemId
  BY DEF TypeOK, ThreadType, TableType, ClientType, Control
<1>f. \A u \in Thread \ {t} : pc'[u] = pc[u] /\ op'[u] = op[u] /\ id'[u] = id[u]
  BY Frame DEF Same
<1> USE DEF WaitInv, At
<1>1. CASE Lock(t)
  <2>1. /\ op[t] = "WaitSema" /\ pc[t] = "lock" /\ op'[t] = "none"
        /\ locked' = [locked EXCEPT ![id[t]] = TRUE]
        /\ live' = live /\ waitThreads' = waitThreads
    BY <1>0, <1>1 DEF Lock, Return, PointsOf, AllCalls
  <2> QED BY <1>0, <1>f, <2>1
<1>2. CASE SetWait(t) \/ DelZero(t)
  <2>1. /\ op[t] \in TableCall /\ pc[t] # "scan" /\ live' = live
        /\ waitThreads' = [waitThreads EXCEPT ![id[t]] = 0]
        /\ op'[t] # "WaitSema"
        /\ \A i \in SemId \ {id[t]} : locked'[i] = locked[i]
    BY <1>0, <1>2 DEF SetWait, DelZero, Goto, Return, PointsOf, AllCalls, TableCall, client
  <2>2. id[t] \notin live /\ \A u \in Thread : ~(op[u] = "WaitSema" /\ id[u] = id[t])
    BY <2>1, SlotIsFree DEF TableInv
  <2> QED BY <1>0, <1>f, <2>1, <2>2
<1>3. CASE SetMutex(t) \/ Unlock(t)
  <2>1. /\ op'[t] = "none" /\ waitThreads' = waitThreads /\ live' \subseteq live \cup {id[t]}
        /\ locked' = [locked EXCEPT ![id[t]] = FALSE]
    BY <1>0, <1>3 DEF SetMutex, Unlock, Return
  <2> QED BY <1>0, <1>f, <2>1
<1>4. CASE EnterStore(t)
  <2>1. /\ locked' = locked /\ live' = live /\ id'[t] = id[t]
        /\ waitThreads' = [waitThreads EXCEPT ![id[t]] = reg[t] + 1] /\ reg[t] \in Nat
    BY <1>0, <1>4 DEF EnterStore, Goto, client, Control
  <2> QED BY <1>0, <1>f, <2>1
<1>5. ASSUME NEW o \in Calls, NEW i \in SemId, Call(t, o, i) PROVE WaitInv'
  <2>1. /\ locked' = locked /\ waitThreads' = waitThreads /\ live' \subseteq live
        /\ op'[t] = o /\ pc'[t] = Entry[o] /\ o \in AllCalls
    BY <1>0, <1>5, CallAssumption DEF Call, table
  <2>2. o = "WaitSema" => Entry[o] = "enter_load"
    BY <2>1 DEF Entry, AllCalls
  <2> QED BY <1>f, <2>1, <2>2
<1>6. CASE EnterLoad(t) \/ TestCount(t) \/ DecLoad(t) \/ DecStore(t)
  <2>1. /\ locked' = locked /\ waitThreads' = waitThreads /\ live' = live
        /\ \/ op'[t] = "none"
           \/ /\ op'[t] = op[t] /\ id'[t] = id[t]
              /\ pc[t] \in {"enter_load", "enter_store"} => pc'[t] = "enter_store"
    BY <1>0, <1>6 DEF EnterLoad, TestCount, DecLoad, DecStore, AfterDecrement, Goto, Load, Return,
                      table, client
  <2> QED BY <1>f, <2>1
<1>7. CASE \/ ReferStep(t) \/ DelTest(t) \/ Scan(t) \/ SetCount(t) \/ SetValid(t)
           \/ SignalStep(t) /\ ~Unlock(t)
  <2>1. /\ locked' = locked /\ waitThreads' = waitThreads /\ live' = live
    BY <1>7 DEF ReferStep, ReferValid, ReferCount, ReferWait, DelTest, Scan, SetCount, SetValid,
                SignalStep, SigTest, IncLoad, IncStore, ISigTest, table, client
  <2>2. op[t] # "WaitSema" /\ op'[t] \in {op[t], "none"}
    BY <1>0, <1>7 DEF ReferStep, ReferValid, ReferCount, ReferWait, DelTest, Scan, SetCount,
                      SetValid, SignalStep, SigTest, IncLoad, IncStore, ISigTest,
                      Goto, Load, Return, PointsOf, AllCalls
  <2> QED BY <1>f, <2>1, <2>2
<1> QED BY <1>1, <1>2, <1>3, <1>4, <1>5, <1>6, <1>7
       DEF Move, Step, CreateStep, DeleteStep, SignalStep, WaitStep

LEMMA NoRaiseStep ==
  ASSUME TypeOK, Control, TableInv, UseInv, HoldInv, WaitInv, NoRaiseOnceWaited, Locking,
         NEW t \in Thread, Move(t)
  PROVE  NoRaiseOnceWaited'
<1>0. /\ pc[t] \in PointsOf(op[t]) /\ op[t] \in AllCalls \cup {"none"}
      /\ pc \in [Thread -> Point]
      /\ id \in [Thread -> SemId] /\ waitThreads \in [SemId -> Nat]
  BY DEF TypeOK, ThreadType, TableType, Control
<1>f. \A u \in Thread \ {t} : pc'[u] = pc[u] /\ id'[u] = id[u]
  BY Frame DEF Same
<1> DEFINE Inc == {"inc_load", "inc_store"}
<1> USE DEF NoRaiseOnceWaited, At, Locking
\* A thread about to raise a count is signalling ahead: no holder gets there.
<1>p. \A u \in Thread : pc[u] \in Inc => Posting(u, id[u])
  <2> SUFFICES ASSUME NEW u \in Thread, pc[u] \in Inc PROVE Posting(u, id[u])
    OBVIOUS
  <2>1. op[u] = "SignalSema"
    <3>1. pc[u] \in PointsOf(op[u]) /\ op[u] \in AllCalls \cup {"none"}
      BY DEF Control, TypeOK, ThreadType
    <3> QED BY <3>1 DEF PointsOf, AllCalls
  <2>2. id[u] \in SemId /\ id[u] \in live
    BY <2>1 DEF UseInv, AllCalls, TableCall, TypeOK, ThreadType
  <2>3. ~(waitThreads[id[u]] > 0)
    BY <2>2
  <2>4. id[u] \notin holding[u]
    BY <2>2, <2>3 DEF HoldInv, WaitInv
  <2> QED BY <2>1, <2>4 DEF Posting, SignalCall
<1>1. CASE EnterStore(t)
  <2>1. /\ op[t] = "WaitSema" /\ pc'[t] = "test"
        /\ waitThreads' = [waitThreads EXCEPT ![id[t]] = reg[t] + 1]
    BY <1>0, <1>1 DEF EnterStore, Goto, PointsOf, AllCalls
  <2>2. \A u \in Thread : pc[u] \in Inc => id[u] # id[t]
    BY <1>0, <1>p, <2>1 DEF HoldInv
  <2> QED BY <1>0, <1>f, <2>1, <2>2
<1>2. CASE SetWait(t) \/ DelZero(t)
  <2>1. pc'[t] \notin Inc /\ waitThreads' = [waitThreads EXCEPT ![id[t]] = 0]
    BY <1>0, <1>2 DEF SetWait, DelZero, Goto, Return
  <2> QED BY <1>0, <1>f, <2>1
<1>3. CASE SigTest(t)
  <2>1. waitThreads' = waitThreads /\ id'[t] = id[t]
        /\ (pc'[t] \in Inc => waitThreads[id[t]] <= 0)
    BY <1>0, <1>3 DEF SigTest, Goto, table
  <2> QED BY <1>0, <1>f, <2>1
<1>4. CASE IncLoad(t) \/ IncStore(t)
  <2>1. waitThreads' = waitThreads /\ id'[t] = id[t] /\ pc[t] \in Inc
    BY <1>0, <1>4 DEF IncLoad, IncStore, Goto, Load, table
  <2> QED BY <1>0, <1>f, <2>1
<1>5. ASSUME NEW o \in Calls, NEW i \in SemId, Call(t, o, i) PROVE NoRaiseOnceWaited'
  <2>1. waitThreads' = waitThreads /\ pc'[t] = Entry[o] /\ o \in AllCalls
    BY <1>0, <1>5, CallAssumption DEF Call, table
  <2>2. Entry[o] \notin Inc
    BY <2>1 DEF Entry, AllCalls
  <2> QED BY <1>f, <2>1, <2>2
<1>6. CASE \/ CreateStep(t) /\ ~SetWait(t)
           \/ DelTest(t) \/ ISigTest(t) \/ Unlock(t) \/ ReferStep(t)
           \/ WaitStep(t) /\ ~EnterStore(t)
  <2>1. waitThreads' = waitThreads
    BY <1>6 DEF CreateStep, Scan, SetCount, SetValid, SetMutex, DelTest, ISigTest, Unlock,
                ReferStep, ReferValid, ReferCount, ReferWait,
                WaitStep, EnterLoad, TestCount, DecLoad, DecStore, Lock, table
  <2>2. pc'[t] \notin Inc
    BY <1>0, <1>6 DEF CreateStep, Scan, SetCount, SetValid, SetMutex, DelTest, ISigTest, Unlock,
                ReferStep, ReferValid, ReferCount, ReferWait,
                WaitStep, EnterLoad, TestCount, DecLoad, DecStore, Lock, AfterDecrement,
                Goto, Load, Return
  <2> QED BY <1>f, <2>1, <2>2
<1> QED BY <1>1, <1>2, <1>3, <1>4, <1>5, <1>6
       DEF Move, Step, CreateStep, DeleteStep, SignalStep, WaitStep

-----------------------------------------------------------------------------
LEMMA InitInv == Init => IInv
<1> SUFFICES ASSUME Init PROVE IInv
  OBVIOUS
<1>1. TypeOK
  BY InitType
<1>2. Control /\ TableInv /\ UseInv /\ HoldInv /\ WaitInv /\ NoRaiseOnceWaited
  BY DEF Init, Control, PointsOf, TableInv, UseInv, HoldInv, WaitInv, NoRaiseOnceWaited,
         Posting, TableCall, SignalCall, AllCalls
<1> QED BY <1>1, <1>2 DEF IInv

\* How the games use their semaphores never changes.
LEMMA SameUsage ==
  ASSUME NEW t \in Thread, Move(t)
  PROVE  usage' = usage
<1> USE DEF client
<1>1. CASE CreateStep(t) \/ DeleteStep(t) \/ ReferStep(t)
  BY <1>1 DEF CreateStep, Scan, SetCount, SetWait, SetValid, SetMutex,
              DeleteStep, DelTest, DelZero, ReferStep, ReferValid, ReferCount, ReferWait
<1>2. CASE SignalStep(t) \/ WaitStep(t)
  BY <1>2 DEF SignalStep, SigTest, IncLoad, IncStore, ISigTest, Unlock,
              WaitStep, EnterLoad, EnterStore, TestCount, DecLoad, DecStore, Lock
<1>3. ASSUME NEW o \in Calls, NEW i \in SemId, Call(t, o, i) PROVE usage' = usage
  BY <1>3 DEF Call
<1> QED BY <1>1, <1>2, <1>3 DEF Move, Step

LEMMA MoveInv ==
  ASSUME SerialTable, IInv, NEW t \in Thread, Move(t)
  PROVE  IInv'
<1> USE DEF IInv
<1>1. TypeOK'
  BY ThreadTypeStep, TableTypeStep, ClientTypeStep DEF TypeOK
<1>2. Control' /\ TableInv' /\ UseInv' /\ WaitInv'
  BY ControlStep, TableStep, UseStep, WaitInvStep
<1>3. Locking' = Locking
  BY SameUsage DEF Locking
<1>4. CASE Locking
  BY <1>1, <1>2, <1>4, HoldStep, NoRaiseStep
<1>5. CASE ~Locking
  <2>1. NoRaiseOnceWaited'
    BY <1>3, <1>5 DEF NoRaiseOnceWaited, Locking
  <2> QED BY <1>1, <1>2, <1>3, <1>5, <2>1
<1> QED BY <1>4, <1>5

LEMMA StutterInv == IInv /\ UNCHANGED vars => IInv'
<1> SUFFICES ASSUME IInv, UNCHANGED vars PROVE IInv'
  OBVIOUS
<1> USE DEF vars, IInv
<1>1. TypeOK'
  BY DEF TypeOK, TableType, ThreadType, ClientType
<1>2. Control' /\ TableInv' /\ UseInv' /\ NoRaiseOnceWaited'
  BY DEF Control, TableInv, UseInv, NoRaiseOnceWaited
<1>3. (Locking => HoldInv)' /\ WaitInv'
  BY DEF HoldInv, Posting, WaitInv, Locking
<1> QED BY <1>1, <1>2, <1>3

\* IInv is inductive, so it holds of every reachable state, whatever the number
\* of threads, slots and initial counts.
THEOREM Invariance == ASSUME SerialTable PROVE Spec => []IInv
<1>1. IInv /\ [Next]_vars => IInv'
  BY MoveInv, StutterInv DEF Next, Move
<1> QED BY <1>1, InitInv, PTL DEF Spec

\* The fields of the table, the registers and the clients keep their types.
THEOREM TypeCorrect == ASSUME SerialTable PROVE Spec => []TypeOK
<1>1. IInv => TypeOK
  BY DEF IInv
<1> QED BY <1>1, Invariance, PTL

\* Where nobody signals what somebody else has waited for, WaitSema excludes, for any number of threads and slots, through every race
\* on count and wait_threads and across the reuse of a slot.
THEOREM WaitExcludes == ASSUME SerialTable PROVE Spec => []MutualExclusion
<1>1. IInv => MutualExclusion
  BY DEF IInv, HoldInv, MutualExclusion, Locking
<1> QED BY <1>1, Invariance, PTL

\* CreateSema never works on a slot some client still uses.
THEOREM CreateIsFresh == ASSUME SerialTable PROVE Spec => []LiveIdsAreFresh
<1>1. IInv => LiveIdsAreFresh
  <2> SUFFICES ASSUME IInv, NEW t \in Thread,
                      pc[t] \in {"set_count", "set_wait", "set_valid", "set_mutex"}
               PROVE  id[t] \notin live
    BY DEF LiveIdsAreFresh
  <2>1. pc[t] \in PointsOf(op[t]) /\ op[t] \in AllCalls \cup {"none"}
    BY DEF IInv, Control, TypeOK, ThreadType
  <2>2. op[t] \in TableCall /\ pc[t] # "scan"
    BY <2>1 DEF PointsOf, AllCalls, TableCall
  <2> QED BY <2>2 DEF IInv, TableInv
<1> QED BY <1>1, Invariance, PTL

\* Lost updates of wait_threads never make SignalSema take the raising branch
\* on a semaphore somebody has waited on.
THEOREM RaiseOnlyUnwaited == ASSUME SerialTable PROVE Spec => []NoRaiseOnceWaited
<1>1. IInv => NoRaiseOnceWaited
  BY DEF IInv
<1> QED BY <1>1, Invariance, PTL

-----------------------------------------------------------------------------
\* No thread but one that raises, lowers or creates writes a count, and what a
\* lowering thread writes is what it has loaded less one.
LEMMA SunkMove ==
  ASSUME IInv, NEW t \in Thread, Move(t)
  PROVE  SunkStays
<1>0. /\ pc[t] \in PointsOf(op[t]) /\ op[t] \in AllCalls \cup {"none"}
      /\ pc \in [Thread -> Point] /\ id \in [Thread -> SemId] /\ id[t] \in SemId
      /\ reg \in [Thread -> Int] /\ count \in [SemId -> Int] /\ waitThreads \in [SemId -> Nat]
      /\ locked \in [SemId -> BOOLEAN]
  BY DEF IInv, TypeOK, ThreadType, TableType, ClientType, Control
<1> SUFFICES ASSUME NEW i \in SemId, Sunk(i), i \in live' PROVE Sunk(i)'
  BY DEF SunkStays
<1>1. \A u \in Thread \ {t} : pc'[u] = pc[u] /\ id'[u] = id[u] /\ reg'[u] = reg[u]
  BY Frame DEF IInv, Same
<1> USE DEF At
\* The slot of a table call is not live, so i is another.
<1>2. ASSUME SetCount(t) \/ SetWait(t) \/ SetValid(t) \/ SetMutex(t) \/ DelZero(t)
      PROVE  id[t] # i \/ i \notin live
  <2>1. op[t] \in TableCall /\ pc[t] # "scan"
    BY <1>0, <1>2 DEF SetCount, SetWait, SetValid, SetMutex, DelZero, PointsOf, AllCalls, TableCall
  <2> QED BY <2>1 DEF IInv, TableInv
<1>3. i \in live
  BY DEF Sunk
<1>4. /\ locked'[i] = locked[i]
      /\ count'[i] < 0
      /\ waitThreads'[i] > 0
  <2>1. CASE UNCHANGED table
    BY <2>1 DEF table, Sunk
  <2>2. CASE SetCount(t) \/ SetWait(t) \/ SetValid(t) \/ SetMutex(t) \/ DelZero(t)
    <3>1. id[t] # i
      BY <1>2, <1>3, <2>2
    <3>2. CASE SetCount(t)
      BY <1>0, <3>1, <3>2 DEF SetCount, Sunk
    <3>3. CASE SetWait(t) \/ SetValid(t) \/ SetMutex(t) \/ DelZero(t)
      BY <1>0, <3>1, <3>3 DEF SetWait, SetValid, SetMutex, DelZero, Sunk
    <3> QED BY <2>2, <3>2, <3>3
  <2>3. CASE IncStore(t) \/ Unlock(t)
    <3>1. id[t] # i
      BY <2>3 DEF IncStore, Unlock, Sunk
    <3> QED BY <1>0, <2>3, <3>1 DEF IncStore, Unlock, Sunk
  <2>4. CASE EnterStore(t)
    <3>1. reg[t] \in Nat
      BY <2>4 DEF EnterStore, IInv, Control
    <3> QED BY <1>0, <2>4, <3>1 DEF EnterStore, Sunk
  <2>5. CASE DecStore(t)
    <3>1. id[t] = i => reg[t] <= 0
      BY <2>5 DEF DecStore, Sunk
    <3> QED BY <1>0, <2>5, <3>1 DEF DecStore, Sunk
  <2>6. CASE Lock(t)
    BY <1>0, <2>6 DEF Lock, Sunk
  <2> QED BY <2>1, <2>2, <2>3, <2>4, <2>5, <2>6, TableWriters
<1>5. id'[t] = i => /\ pc'[t] \notin {"inc_load", "inc_store", "unlock"}
                    /\ pc'[t] = "dec_store" => reg'[t] <= 0
  <2> USE DEF Goto, Load, Return
  <2>1. CASE CreateStep(t) \/ DeleteStep(t) \/ ReferStep(t)
    BY <1>0, <2>1 DEF CreateStep, Scan, SetCount, SetWait, SetValid, SetMutex,
                      DeleteStep, DelTest, DelZero, ReferStep, ReferValid, ReferCount, ReferWait
  <2>2. CASE SignalStep(t)
    <3>1. id'[t] = i => id[t] = i \/ pc'[t] = "idle"
      BY <1>0, <2>2 DEF SignalStep, SigTest, IncLoad, IncStore, ISigTest, Unlock
    <3>2. CASE id[t] = i
      <4>1. ~IncLoad(t) /\ ~IncStore(t) /\ ~Unlock(t)
        BY <3>2 DEF IncLoad, IncStore, Unlock, Sunk
      <4>2. ~(waitThreads[id[t]] <= 0) /\ count[id[t]] # 0
        BY <1>0, <3>2 DEF Sunk
      <4> QED BY <1>0, <2>2, <4>1, <4>2 DEF SignalStep, SigTest, ISigTest
    <3>3. CASE pc'[t] = "idle"
      BY <3>3
    <3> QED BY <3>1, <3>2, <3>3
  <2>3. CASE WaitStep(t)
    <3>1. CASE DecLoad(t)
      BY <1>0, <3>1 DEF DecLoad, Sunk
    <3>2. CASE ~DecLoad(t)
      BY <1>0, <2>3, <3>2 DEF WaitStep, EnterLoad, EnterStore, TestCount, DecStore, Lock,
                              AfterDecrement
    <3> QED BY <3>1, <3>2
  <2>4. ASSUME NEW o \in Calls, NEW j \in SemId, Call(t, o, j)
        PROVE  pc'[t] \notin {"inc_load", "inc_store", "unlock", "dec_store"}
    <3>1. o \in AllCalls /\ pc'[t] = Entry[o]
      BY <1>0, <2>4, CallAssumption DEF Call
    <3> QED BY <3>1 DEF Entry, AllCalls
  <2> QED BY <2>1, <2>2, <2>3, <2>4 DEF Move, Step
<1> QED BY <1>1, <1>3, <1>4, <1>5 DEF Sunk

\* Two threads that lower a count together may take it below zero.  Of a taken
\* semaphore that is the end: whatever the games call on it, in whatever order,
\* it stays taken until DeleteSema.
THEOREM SunkPersists == ASSUME SerialTable PROVE Spec => SunkIsLost
<1>1. IInv /\ [Next]_vars => [SunkStays]_vars
  BY SunkMove DEF Next, Move
<1> QED BY <1>1, Invariance, PTL DEF Spec, SunkIsLost

-----------------------------------------------------------------------------
(* Semaphores of count 0. *)

\* Why a semaphore of count 0 that is only signalled by who waited never jams:
\* its count stays 0, as no call gets to where it is raised or lowered, so that
\* every signal unlocks; and a mutex is left by its holder only.
ZeroInv ==
    /\ \A i \in SemId : count[i] = 0
    /\ \A t \in Thread : pc[t] \notin {"inc_load", "inc_store", "dec_load", "dec_store"}
    /\ \A t \in Thread : op[t] \in SignalCall => id[t] \in holding[t]
    /\ \A i \in live : locked[i] => \E t \in Thread : i \in holding[t]

\* A signal by a holder finds that somebody has waited.
LEMMA HeldWasWaited ==
  ASSUME IInv, ZeroInv, usage = "lock", NEW t \in Thread, op[t] \in SignalCall
  PROVE  id[t] \in SemId /\ id[t] \in holding[t] /\ waitThreads[id[t]] > 0
<1>1. id[t] \in SemId /\ id[t] \in holding[t]
  BY DEF IInv, TypeOK, ThreadType, ZeroInv
<1>2. id[t] \in live /\ locked[id[t]]
  BY <1>1 DEF IInv, UseInv, HoldInv, Locking
<1> QED BY <1>1, <1>2 DEF IInv, WaitInv

\* No step of a game whose semaphores start at 0 raises a count, frees a mutex but
\* by its holder, or gives up a hold but by an unlock.
LEMMA ZeroStep ==
  ASSUME IInv, ZeroInv, InitCount = {0}, usage = "lock", NEW t \in Thread, Move(t)
  PROVE  ZeroInv'
<1>0. /\ pc[t] \in PointsOf(op[t]) /\ op[t] \in AllCalls \cup {"none"}
      /\ op \in [Thread -> AllCalls \cup {"none"}] /\ pc \in [Thread -> Point]
      /\ id \in [Thread -> SemId] /\ id[t] \in SemId
      /\ locked \in [SemId -> BOOLEAN] /\ count \in [SemId -> Int]
      /\ live \in SUBSET SemId /\ holding \in [Thread -> SUBSET SemId]
  BY DEF IInv, TypeOK, ThreadType, TableType, ClientType, Control
<1>f. \A u \in Thread \ {t} : /\ pc'[u] = pc[u] /\ op'[u] = op[u] /\ id'[u] = id[u]
                              /\ holding'[u] = holding[u]
  BY Frame DEF IInv, Same
<1>z. count[id[t]] = 0 /\ pc[t] \notin {"inc_load", "inc_store", "dec_load", "dec_store"}
  BY <1>0 DEF ZeroInv
<1>n. ~IncLoad(t) /\ ~IncStore(t) /\ ~DecLoad(t) /\ ~DecStore(t)
  BY <1>z DEF IncLoad, IncStore, DecLoad, DecStore, At
<1>1. \A i \in SemId : count'[i] = 0
  <2>1. CASE SetCount(t)
    <3>1. count' = [count EXCEPT ![id[t]] = 0]
      BY <2>1 DEF SetCount
    <3> QED BY <1>0, <3>1 DEF ZeroInv
  <2>2. CASE DelZero(t)
    BY <1>0, <2>2 DEF DelZero, ZeroInv
  <2>3. CASE ~SetCount(t) /\ ~DelZero(t)
    <3>1. count' = count
      BY <2>3, <1>n, TableWriters
         DEF table, SetWait, SetValid, SetMutex, Unlock, EnterStore, Lock
    <3> QED BY <3>1 DEF ZeroInv
  <2> QED BY <2>1, <2>2, <2>3
<1>2. pc'[t] \notin {"inc_load", "inc_store", "dec_load", "dec_store"}
  <2>1. CASE SigTest(t)
    <3>1. op[t] \in SignalCall
      BY <1>0, <2>1 DEF SigTest, At, PointsOf, AllCalls, SignalCall
    <3>2. ~(waitThreads[id[t]] <= 0)
      <4>1. waitThreads[id[t]] > 0 /\ waitThreads[id[t]] \in Nat
        BY <1>0, <3>1, HeldWasWaited DEF IInv, TypeOK, TableType
      <4> QED BY <4>1
    <3> QED BY <1>0, <2>1, <3>2 DEF SigTest, Goto
  <2>2. CASE TestCount(t)
    BY <1>0, <1>z, <2>2 DEF TestCount, AfterDecrement, Goto, Return
  <2>3. ASSUME NEW o \in Calls, NEW i \in SemId, Call(t, o, i)
        PROVE  pc'[t] \notin {"inc_load", "inc_store", "dec_load", "dec_store"}
    BY <1>0, <2>3, CallAssumption DEF Call, Entry, AllCalls
  <2>4. CASE CreateStep(t) \/ DeleteStep(t) \/ ReferStep(t)
    BY <1>0, <2>4 DEF CreateStep, Scan, SetCount, SetWait, SetValid, SetMutex,
                      DeleteStep, DelTest, DelZero,
                      ReferStep, ReferValid, ReferCount, ReferWait, Goto, Load, Return
  <2>5. CASE ISigTest(t) \/ Unlock(t) \/ EnterLoad(t) \/ EnterStore(t) \/ Lock(t)
    BY <1>0, <2>5 DEF ISigTest, Unlock, EnterLoad, EnterStore, Lock, Goto, Load, Return
  <2> QED BY <1>n, <2>1, <2>2, <2>3, <2>4, <2>5 DEF Move, Step, SignalStep, WaitStep
<1>3. op'[t] \in SignalCall => id'[t] \in holding'[t]
  <2>1. ASSUME NEW o \in Calls, NEW i \in SemId, Call(t, o, i)
        PROVE  op'[t] \in SignalCall => id'[t] \in holding'[t]
    <3>1. op'[t] = o /\ id'[t] = i /\ holding' = holding /\ MayCall(t, o, i)
      BY <1>0, <2>1 DEF Call
    <3>2. o \in SignalCall => i \in holding[t]
      BY <3>1 DEF MayCall, SignalCall
    <3> QED BY <3>1, <3>2
  <2>2. CASE SigTest(t) \/ ISigTest(t) \/ Unlock(t)
    <3>1. op[t] \in SignalCall
      BY <1>0, <2>2 DEF SigTest, ISigTest, Unlock, At, PointsOf, AllCalls, SignalCall
    <3>2. \/ op'[t] = "none"
          \/ id'[t] = id[t] /\ holding' = holding
      BY <1>0, <2>2 DEF SigTest, ISigTest, Unlock, Goto, Return, client
    <3> QED BY <3>1, <3>2, HeldWasWaited DEF SignalCall
  <2>3. CASE CreateStep(t) \/ DeleteStep(t) \/ ReferStep(t) \/ WaitStep(t)
    <3>1. op[t] \notin SignalCall
      BY <1>0, <2>3 DEF CreateStep, Scan, SetCount, SetWait, SetValid, SetMutex,
                        DeleteStep, DelTest, DelZero,
                        ReferStep, ReferValid, ReferCount, ReferWait,
                        WaitStep, EnterLoad, EnterStore, TestCount, DecLoad, DecStore, Lock,
                        At, PointsOf, AllCalls, SignalCall
    <3>2. op'[t] \in {op[t], "none"}
      BY <1>0, <2>3 DEF CreateStep, Scan, SetCount, SetWait, SetValid, SetMutex,
                        DeleteStep, DelTest, DelZero,
                        ReferStep, ReferValid, ReferCount, ReferWait,
                        WaitStep, EnterLoad, EnterStore, TestCount, DecLoad, DecStore, Lock,
                        AfterDecrement, Goto, Load, Return
    <3> QED BY <3>1, <3>2 DEF SignalCall
  <2> QED BY <1>n, <2>1, <2>2, <2>3 DEF Move, Step, SignalStep
<1>4. ASSUME NEW i \in live', locked'[i]
      PROVE  \E u \in Thread : i \in holding'[u]
  <2>1. CASE Lock(t)
    <3>1. /\ locked' = [locked EXCEPT ![id[t]] = TRUE] /\ live' = live
          /\ holding'[t] = holding[t] \cup {id[t]}
      BY <1>0, <2>1 DEF Lock
    <3>2. CASE i = id[t]
      BY <3>1, <3>2
    <3>3. CASE i # id[t]
      BY <1>0, <1>f, <1>4, <3>1, <3>3 DEF ZeroInv
    <3> QED BY <3>2, <3>3
  <2>2. CASE Unlock(t)
    <3>1. /\ locked' = [locked EXCEPT ![id[t]] = FALSE] /\ live' = live
          /\ holding'[t] = holding[t] \ {id[t]}
      BY <1>0, <2>2 DEF Unlock, LetGo
    <3>2. i # id[t] /\ i \in live /\ locked[i]
      BY <1>0, <1>4, <3>1
    <3> QED BY <1>f, <3>1, <3>2 DEF ZeroInv
  <2>3. CASE SetMutex(t) \/ DelZero(t)
    <3>1. /\ locked' = [locked EXCEPT ![id[t]] = FALSE] /\ live' \subseteq live \cup {id[t]}
          /\ holding' = holding
      BY <1>0, <2>3 DEF SetMutex, DelZero, client
    <3>2. i \in live /\ locked[i]
      BY <1>0, <1>4, <3>1
    <3> QED BY <3>1, <3>2 DEF ZeroInv
  <2>4. CASE ~Lock(t) /\ ~Unlock(t) /\ ~SetMutex(t) /\ ~DelZero(t)
    <3>1. locked' = locked
      BY <1>n, <2>4, TableWriters DEF table, SetCount, SetWait, SetValid, EnterStore
    <3>2. live' \subseteq live /\ holding' = holding
      BY <1>n, <1>z, <2>4
         DEF Move, Step, Call, SignalStep, SigTest, ISigTest,
             WaitStep, EnterLoad, EnterStore, TestCount,
             CreateStep, Scan, SetCount, SetWait, SetValid, DeleteStep, DelTest,
             ReferStep, ReferValid, ReferCount, ReferWait, client
    <3> QED BY <1>4, <3>1, <3>2 DEF ZeroInv
  <2> QED BY <2>1, <2>2, <2>3, <2>4
<1>5. \A u \in Thread :
         /\ pc'[u] \notin {"inc_load", "inc_store", "dec_load", "dec_store"}
         /\ op'[u] \in SignalCall => id'[u] \in holding'[u]
  BY <1>2, <1>3, <1>f DEF ZeroInv
<1> QED BY <1>1, <1>4, <1>5 DEF ZeroInv

\* A semaphore created with count 0 and signalled by its holders only is a
\* working lock: it is never left taken without a holder.
THEOREM ZeroWorks == ASSUME SerialTable PROVE Spec => []ZeroNeverJams
<1> DEFINE J == InitCount = {0} /\ usage = "lock" => ZeroInv
<1>1. Init => J
  BY DEF Init, ZeroInv, SignalCall
<1>2. IInv /\ J /\ [Next]_vars => J'
  <2>1. ASSUME IInv, J, UNCHANGED vars PROVE J'
    BY <2>1 DEF ZeroInv, vars
  <2>2. ASSUME IInv, J, NEW t \in Thread, Move(t), InitCount = {0}, usage' = "lock" PROVE ZeroInv'
    <3>1. usage = "lock"
      BY <2>2, SameUsage
    <3> QED BY <2>2, <3>1, ZeroStep
  <2> HIDE DEF J
  <2>3. ASSUME IInv, J, NEW t \in Thread, Move(t) PROVE J'
    BY <2>2, <2>3 DEF J
  <2> QED BY <2>1, <2>3 DEF Next, Move
<1>3. IInv /\ J => ZeroNeverJams
  BY DEF ZeroInv, ZeroNeverJams, Jammed
<1> QED BY <1>1, <1>2, <1>3, Invariance, PTL DEF Spec

-----------------------------------------------------------------------------
(* Refinement of BinaryLock. *)

\* The abstract view of every lock but i is unchanged, and i becomes s, held by h.
LEMMA BecomeOne ==
  ASSUME NEW i \in SemId, NEW s, NEW h, StateOf(i)' = s, HolderOf(i)' = h,
         \A j \in SemId \ {i} : StateOf(j)' = StateOf(j) /\ HolderOf(j)' = HolderOf(j)
  PROVE  Abstract!Become(i, s, h)
<1>1. LockState' = [LockState EXCEPT ![i] = s]
  BY DEF LockState
<1>2. LockHolder' = [LockHolder EXCEPT ![i] = h]
  BY DEF LockHolder
<1> QED BY <1>1, <1>2 DEF Abstract!Become

LEMMA BecomeNone ==
  ASSUME \A j \in SemId : StateOf(j)' = StateOf(j) /\ HolderOf(j)' = HolderOf(j)
  PROVE  UNCHANGED Abstract!vars
  BY DEF LockState, LockHolder, Abstract!vars

\* The abstract view of lock j depends on three things only.
LEMMA ViewOf ==
  ASSUME NEW j \in SemId, usage' = usage, (j \in live') = (j \in live),
         \A u \in Thread : (j \in holding'[u]) = (j \in holding[u]),
         j \in live => locked'[j] = locked[j]
  PROVE  StateOf(j)' = StateOf(j) /\ HolderOf(j)' = HolderOf(j)
  BY DEF StateOf, HolderOf, Locking

\* A step that touches lock i alone leaves the abstract view of the others.
LEMMA ViewOfOthers ==
  ASSUME NEW i \in SemId, NEW t \in Thread, usage' = usage,
         locked \in [SemId -> BOOLEAN], holding \in [Thread -> SUBSET SemId],
         live' = live \/ live' = live \cup {i},
         \E b \in BOOLEAN : locked' = [locked EXCEPT ![i] = b],
         \/ holding' = holding
         \/ holding' = [holding EXCEPT ![t] = @ \cup {i}]
         \/ holding' = [holding EXCEPT ![t] = @ \ {i}]
  PROVE  \A j \in SemId \ {i} : StateOf(j)' = StateOf(j) /\ HolderOf(j)' = HolderOf(j)
<1> SUFFICES ASSUME NEW j \in SemId \ {i}
             PROVE  StateOf(j)' = StateOf(j) /\ HolderOf(j)' = HolderOf(j)
  OBVIOUS
<1>1. (j \in live') = (j \in live)
  OBVIOUS
<1>2. locked'[j] = locked[j]
  OBVIOUS
<1>3. \A u \in Thread : (j \in holding'[u]) = (j \in holding[u])
  <2> SUFFICES ASSUME NEW u \in Thread PROVE (j \in holding'[u]) = (j \in holding[u])
    OBVIOUS
  <2>1. CASE u = t
    BY <2>1
  <2>2. CASE u # t
    BY <2>2
  <2> QED BY <2>1, <2>2
<1> QED BY <1>1, <1>2, <1>3, ViewOf

\* Semaphores that are not used as locks do not appear.
LEMMA NotLocking ==
  ASSUME ~Locking, usage' = usage
  PROVE  UNCHANGED Abstract!vars
<1>1. ASSUME NEW j \in SemId PROVE StateOf(j)' = StateOf(j) /\ HolderOf(j)' = HolderOf(j)
  BY DEF StateOf, HolderOf, Locking
<1> QED BY <1>1, BecomeNone

LEMMA StepRefines ==
  ASSUME IInv, Locking, NEW t \in Thread, Move(t)
  PROVE  Abstract!Next \/ UNCHANGED Abstract!vars
<1>0. /\ pc[t] \in PointsOf(op[t]) /\ op[t] \in AllCalls \cup {"none"}
      /\ pc \in [Thread -> Point] /\ id \in [Thread -> SemId] /\ live \subseteq SemId
      /\ locked \in [SemId -> BOOLEAN] /\ holding \in [Thread -> SUBSET SemId]
  BY DEF IInv, TypeOK, ThreadType, TableType, ClientType, Control
<1>h. \A u \in Thread \ {t} : holding'[u] = holding[u]
  BY Frame DEF IInv, Same
<1>l. Locking /\ Locking' /\ usage' = usage
  BY SameUsage DEF Locking
<1> USE <1>l DEF At
<1>1. CASE SetMutex(t)
  <2>0. PICK i \in SemId : i = id[t]
    BY <1>0
  <2>1. /\ op[t] \in TableCall /\ pc[t] # "scan" /\ live' = live \cup {i}
        /\ locked' = [locked EXCEPT ![i] = FALSE] /\ holding' = holding
    BY <1>0, <2>0, <1>1 DEF SetMutex, PointsOf, AllCalls, TableCall
  <2>2. i \notin live /\ \A u \in Thread : i \notin holding[u]
    BY <2>0, <2>1, SlotIsFree DEF IInv, TableInv
  <2>3. StateOf(i) = "absent" /\ StateOf(i)' = "free" /\ HolderOf(i)' = {}
    BY <1>0, <2>0, <2>1, <2>2 DEF StateOf, HolderOf
  <2>4. \A j \in SemId \ {i} : StateOf(j)' = StateOf(j) /\ HolderOf(j)' = HolderOf(j)
    BY <1>0, <2>1, ViewOfOthers
  <2>5. Abstract!Create(i)
    BY <1>0, <2>0, <2>3, <2>4, BecomeOne DEF Abstract!Create, LockState
  <2> QED BY <1>0, <2>0, <2>5 DEF Abstract!Next
<1>2. ASSUME NEW i \in SemId, Call(t, "DeleteSema", i)
      PROVE  Abstract!Next
  <2>1. live' = live \ {i} /\ locked' = locked /\ holding' = holding
        /\ i \in live /\ Unused(i)
    BY <1>2 DEF Call, MayCall, SignalCall, table
  <2>2. /\ StateOf(i) \in {"free", "jammed"} /\ StateOf(i)' = "absent"
        /\ HolderOf(i)' = {}
    BY <2>1 DEF StateOf, HolderOf, Unused
  <2>3. \A j \in SemId \ {i} : StateOf(j)' = StateOf(j) /\ HolderOf(j)' = HolderOf(j)
    BY <2>1, ViewOf
  <2>4. Abstract!Destroy(i)
    BY <2>2, <2>3, BecomeOne DEF Abstract!Destroy, LockState
  <2> QED BY <2>4 DEF Abstract!Next
<1>3. CASE Lock(t)
  <2>0. PICK i \in SemId : i = id[t]
    BY <1>0
  <2>1. /\ op[t] = "WaitSema" /\ live' = live /\ ~locked[i]
        /\ locked' = [locked EXCEPT ![i] = TRUE]
        /\ holding' = [holding EXCEPT ![t] = @ \cup {i}]
    BY <1>0, <2>0, <1>3 DEF Lock, PointsOf, AllCalls
  <2>2. i \in live /\ \A u \in Thread : i \notin holding[u]
    BY <2>0, <2>1 DEF IInv, UseInv, HoldInv, AllCalls, TableCall
  <2>3. StateOf(i) = "free" /\ StateOf(i)' = "taken" /\ HolderOf(i)' = {t}
    <3>1. HolderOf(i) = {}
      BY <2>2 DEF HolderOf
    <3>2. HolderOf(i)' = {t}
      BY <1>0, <2>0, <1>h, <2>1, <2>2 DEF HolderOf
    <3> QED BY <1>0, <2>0, <2>1, <2>2, <3>1, <3>2 DEF StateOf
  <2>4. \A j \in SemId \ {i} : StateOf(j)' = StateOf(j) /\ HolderOf(j)' = HolderOf(j)
    BY <1>0, <2>1, ViewOfOthers
  <2>5. Abstract!Acquire(t, i)
    BY <1>0, <2>0, <2>3, <2>4, BecomeOne DEF Abstract!Acquire, LockState
  <2> QED BY <1>0, <2>0, <2>5 DEF Abstract!Next
<1>4. CASE Unlock(t)
  <2>0. PICK i \in SemId : i = id[t]
    BY <1>0
  <2>1. /\ op[t] \in SignalCall /\ live' = live
        /\ locked' = [locked EXCEPT ![i] = FALSE]
        /\ holding' = [holding EXCEPT ![t] = @ \ {i}]
    BY <1>0, <2>0, <1>4 DEF Unlock, LetGo, PointsOf, AllCalls, SignalCall
  <2>2. \A j \in SemId \ {i} : StateOf(j)' = StateOf(j) /\ HolderOf(j)' = HolderOf(j)
    BY <1>0, <2>1, ViewOfOthers
  <2>3. CASE i \in holding[t]
    <3>1. HolderOf(i) = {t} /\ HolderOf(i)' = {}
      BY <1>0, <1>h, <2>1, <2>3 DEF IInv, HoldInv, HolderOf
    <3>2. StateOf(i)' = "free"
      BY <1>0, <2>1, <2>3, <3>1 DEF IInv, UseInv, StateOf
    <3>3. Abstract!Release(t, i)
      BY <2>2, <3>1, <3>2, BecomeOne DEF Abstract!Release, LockHolder
    <3> QED BY <3>3 DEF Abstract!Next
  <2>4. CASE i \notin holding[t]
    <3>1. ~locked[i]
      BY <2>0, <2>1, <2>4 DEF IInv, HoldInv, Posting
    <3>2. StateOf(i)' = StateOf(i) /\ HolderOf(i)' = HolderOf(i)
      BY ZenonT(30), <1>0, <1>h, <2>1, <2>4, <3>1, ViewOf
    <3> QED BY <2>2, <3>2, BecomeNone
  <2> QED BY <2>3, <2>4
<1>5. CASE ISigTest(t)
  <2>0. PICK i \in SemId : i = id[t]
    BY <1>0
  <2>1. /\ op[t] \in SignalCall /\ live' = live /\ locked' = locked
        /\ holding' = holding \/ holding' = [holding EXCEPT ![t] = @ \ {i}]
    BY <1>0, <2>0, <1>5 DEF ISigTest, LetGo, PointsOf, AllCalls, SignalCall, table
  <2>2. CASE holding' = [holding EXCEPT ![t] = @ \ {i}] /\ i \in holding[t]
    <3>1. HolderOf(i) = {t} /\ HolderOf(i)' = {}
      BY <1>0, <1>h, <2>2 DEF IInv, HoldInv, HolderOf
    <3>2. locked[i] /\ i \in live
      BY <2>2 DEF IInv, HoldInv, UseInv
    <3>3. StateOf(i)' = "jammed"
      BY <2>1, <3>1, <3>2 DEF StateOf
    <3>4. \A j \in SemId \ {i} : StateOf(j)' = StateOf(j) /\ HolderOf(j)' = HolderOf(j)
      BY <1>0, <1>h, <2>1, <2>2, ViewOf
    <3>5. Abstract!Jam(t, i)
      BY <3>1, <3>3, <3>4, BecomeOne DEF Abstract!Jam, LockHolder
    <3> QED BY <3>5 DEF Abstract!Next
  <2>3. CASE holding' = holding \/ i \notin holding[t]
    <3>1. \A u \in Thread : holding'[u] = holding[u]
      <4>1. holding'[t] = holding[t]
        BY <1>0, <2>1, <2>3
      <4> QED BY <1>h, <4>1
    <3>2. \A j \in SemId : StateOf(j)' = StateOf(j) /\ HolderOf(j)' = HolderOf(j)
      BY <2>1, <3>1, ViewOf
    <3> QED BY <3>2, BecomeNone
  <2> QED BY <2>1, <2>2, <2>3
<1>6. CASE DelZero(t)
  <2>0. PICK i \in SemId : i = id[t]
    BY <1>0
  <2>1. /\ op[t] \in TableCall /\ pc[t] # "scan" /\ live' = live /\ holding' = holding
        /\ locked' = [locked EXCEPT ![i] = FALSE]
    BY <1>0, <2>0, <1>6 DEF DelZero, PointsOf, AllCalls, TableCall, client
  <2>2. i \notin live
    BY <2>0, <2>1 DEF IInv, TableInv
  <2> QED BY <1>0, <2>1, <2>2, ViewOf, BecomeNone
<1>7. CASE UNCHANGED <<live, holding, locked>>
  BY <1>7, ViewOf, BecomeNone
<1>8. CASE \E o \in Calls, i \in SemId : o # "DeleteSema" /\ Call(t, o, i)
  <2>1. UNCHANGED <<live, holding, locked>>
    BY <1>8 DEF Call, table
  <2> QED BY <1>7, <2>1
<1>9. CASE \/ Scan(t) \/ SetCount(t) \/ SetWait(t) \/ SetValid(t) \/ DelTest(t)
           \/ SigTest(t) \/ IncLoad(t) \/ IncStore(t) \/ ReferStep(t)
           \/ EnterLoad(t) \/ EnterStore(t) \/ TestCount(t) \/ DecLoad(t) \/ DecStore(t)
  <2>1. UNCHANGED <<live, holding, locked>>
    BY <1>9 DEF Scan, SetCount, SetWait, SetValid, DelTest, SigTest, IncLoad, IncStore,
                EnterLoad, EnterStore, TestCount, DecLoad, DecStore,
                ReferStep, ReferValid, ReferCount, ReferWait, table, client
  <2> QED BY <1>7, <2>1
<1> QED BY <1>1, <1>2, <1>3, <1>4, <1>5, <1>6, <1>8, <1>9
       DEF Move, Step, CreateStep, DeleteStep, SignalStep, WaitStep

\* The semaphore table, with all its races, implements jammable binary locks.
THEOREM TableRefines == ASSUME SerialTable PROVE Spec => ImplementsBinaryLock
<1>1. Init => Abstract!Init
  BY DEF Init, Abstract!Init, LockState, LockHolder, StateOf, HolderOf
<1>2. IInv /\ [Next]_vars => [Abstract!Next]_(Abstract!vars)
  <2> SUFFICES ASSUME IInv, [Next]_vars PROVE Abstract!Next \/ UNCHANGED Abstract!vars
    OBVIOUS
  <2>1. CASE UNCHANGED vars
    BY <2>1, ViewOf, BecomeNone DEF vars
  <2>2. CASE Next /\ Locking
    BY <2>2, StepRefines DEF Next, Move
  <2>3. CASE Next /\ ~Locking
    BY <2>3, SameUsage, NotLocking DEF Next, Move
  <2> QED BY <2>1, <2>2, <2>3
<1> QED BY <1>1, <1>2, Invariance, PTL DEF Spec, ImplementsBinaryLock, Abstract!Spec
=============================================================================
