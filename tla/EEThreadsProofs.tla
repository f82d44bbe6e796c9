---------------------------- MODULE EEThreadsProofs ----------------------------
(****************************************************************************)
(* Proofs about EEThreads, for any host threads, functions, table and       *)
(* disciplines.  The table is right where creators take turns.  A start is  *)
(* right where the frame it reads has not changed, and a context where no   *)
(* other thread was starting; the game is not assumed to see to either.     *)
(****************************************************************************)
EXTENDS EEThreads, TLAPS

-----------------------------------------------------------------------------
(* The invariant. *)

\* Creators hold a function there is.
CreatorsTyped == \A h \in Host : pc[h] \in Creating => param[h].fun \in Fun

\* A creator alone in CreateThread has filled the entry the counter names.
CreatorAlone ==
    "serial_create" \in discipline =>
        /\ currentThreadIndex \in 0 .. TableSize
        /\ \A h \in Host : pc[h] \in Creating =>
            /\ \A k \in Host : pc[k] \in Creating => h = k
            /\ pc[h] # "fill" => /\ currentThreadIndex \in Tid
                                 /\ threads[currentThreadIndex] = param[h].fun
            /\ pc[h] = "inc_store" => reg[h] = currentThreadIndex

\* A starter has looked up the function its handle was created for.
LookedUp ==
    "serial_create" \in discipline =>
        \A h \in Host : pc[h] \in {"direct", "spawn"} =>
            param[h].fun = param[h].handle /\ param[h].fun \in Fun

\* A thread that starts finds its id in its starter's frame, unless that changed.
IdsKept == \A h \in Host : pc[h] \in Starting /\ h \notin dangling => data(h).tid = want[h].tid

\* It finds its function, too, and one there is.
FunctionsKept ==
    "serial_create" \in discipline =>
        \A h \in Host : pc[h] \in Starting =>
            want[h].fun \in Fun /\ (h \notin dangling => data(h) = want[h])

\* A frame holds what some thread was started with from it, or nothing.
FramesFilled ==
    "serial_create" \in discipline =>
        \A h \in Host : frame[h] # Nothing =>
            \E k \in Host : parent[k] = h /\ pc[k] # "unborn" /\ want[k] = frame[h]

\* Only a start that lost its frame calls what is no function.
CrashesDangle ==
    "serial_create" \in discipline => \A h \in Host : pc[h] = "crashed" => h \in dangling

\* Two threads that start at once are both known to have.
Together ==
    \A h, k \in Host : pc[h] \in Starting /\ pc[k] \in Starting /\ h # k => {h, k} \subseteq overlapped

Installed == Starting \ {"alloc"}

\* The file in use is that of the thread that starts, or both have overlapped.
CtxOwner == \A h \in Host : pc[h] \in Installed => ctx = h \/ {ctx, h} \subseteq overlapped

\* What a thread that starts alone has set up so far.
ContextFilled ==
    \A h \in Host \ (overlapped \cup dangling) :
        /\ pc[h] \in {"set_gp", "set_sp", "set_id", "enter"} => contexts[h].clean
        /\ pc[h] \in {"set_sp", "set_id", "enter"} => contexts[h].gp = want[h].tid
        /\ pc[h] \in {"set_id", "enter"} => contexts[h].sp = want[h].tid
        /\ pc[h] = "enter" => EEThreadID = want[h].tid

Table    == CreatorAlone /\ HandlesKept /\ LookedUp
Frames   == IdsKept /\ FunctionsKept /\ FramesFilled /\ CrashesDangle
Contexts == Together /\ CtxOwner /\ ContextFilled /\ ContextMatchesID

ThreadsInv == TypeOK /\ CreatorsTyped /\ Table /\ Frames /\ Contexts

-----------------------------------------------------------------------------
(* Steps. *)

\* pthread_create returns a host thread that has not been used.
LEMMA NewHostUnborn ==
    Unborn # {} => NewHost \in Host /\ pc[NewHost] = "unborn"
<1> SUFFICES ASSUME Unborn # {}
             PROVE  NewHost \in Unborn
  BY DEF Unborn
<1>1. \E k \in Unborn : TRUE
  OBVIOUS
<1> QED BY <1>1 DEF NewHost

\* What StartThread changes when it makes a host thread.
LEMMA SpawnChanges ==
    ASSUME TypeOK, NEW h \in Host, Spawn(h)
    PROVE  /\ NewHost \in Host /\ pc[NewHost] = "unborn" /\ NewHost # h /\ pc[h] = "spawn"
           /\ pc' = [pc EXCEPT ![h] = "game", ![NewHost] = "alloc"]
           /\ parent' = [parent EXCEPT ![NewHost] = h]
           /\ want' = [want EXCEPT ![NewHost] = [fun |-> param[h].handle, tid |-> param[h].tid]]
           /\ frame' = [frame EXCEPT ![h] = [fun |-> param[h].fun, tid |-> param[h].tid]]
           /\ param' = [param EXCEPT ![h] = NoParam]
           /\ dangling' = dangling \cup Children(h)
           /\ overlapped \subseteq overlapped'
           /\ overlapped' \subseteq Host
           /\ \A k \in Host : pc[k] \in Starting => {k, NewHost} \subseteq overlapped'
           /\ UNCHANGED <<tables, globals, reg>>
<1>1. Unborn # {} /\ pc[h] = "spawn"
  BY DEF Spawn, SpawnWith, At
<1>2. NewHost \in Host /\ pc[NewHost] = "unborn" /\ NewHost # h
  BY <1>1, NewHostUnborn
<1>3. /\ overlapped \subseteq overlapped' /\ overlapped' \subseteq Host
      /\ \A k \in Host : pc[k] \in Starting => {k, NewHost} \subseteq overlapped'
  BY <1>2 DEF Spawn, SpawnWith, TypeOK
<1> QED BY <1>1, <1>2, <1>3 DEF Spawn, SpawnWith

\* The initial state satisfies the invariant.
LEMMA ThreadsInit == Init => ThreadsInv
<1> SUFFICES ASSUME Init
             PROVE  ThreadsInv
  OBVIOUS
<1> USE MainAssumption, TableAssumption DEF Init
<1>1. TypeOK
  BY DEF TypeOK, Tid, AnyTid, AnyFun, Data, Context, Ctx, Points, Starting, Creating,
         Nothing, NoParam
<1>2. CreatorsTyped /\ CreatorAlone /\ LookedUp
  BY DEF CreatorsTyped, CreatorAlone, LookedUp, Creating
<1>3. HandlesKept
  BY DEF HandlesKept
<1>4. Frames
  BY DEF Frames, IdsKept, FunctionsKept, FramesFilled, CrashesDangle, Starting
<1>5. Contexts
  BY DEF Contexts, Together, CtxOwner, ContextFilled, ContextMatchesID, Starting, Installed
<1> QED BY <1>1, <1>2, <1>3, <1>4, <1>5 DEF ThreadsInv, Table

\* A step of CreateThread keeps the types.
LEMMA CreateTypes ==
    ASSUME TypeOK, CreatorsTyped, NEW h \in Host,
           CallCreate(h) \/ FillEntry(h) \/ IncLoad(h) \/ IncStore(h)
    PROVE  TypeOK' /\ CreatorsTyped'
<1> USE TableAssumption DEF TypeOK, CreatorsTyped, At, Goto, tables, globals, starts, Points,
        Starting, Creating
<1>1. CASE CallCreate(h)
  <2>1. /\ pc' = [pc EXCEPT ![h] = "fill"] /\ \E f \in Fun : param' = [param EXCEPT ![h].fun = f]
        /\ UNCHANGED <<tables, globals, frame, reg, starts>>
    BY <1>1 DEF CallCreate
  <2>2. PICK f \in Fun : param' = [param EXCEPT ![h].fun = f]
    BY <2>1
  <2>3. param' \in [Host -> [fun : AnyFun, tid : AnyTid, handle : AnyFun]] /\ param'[h].fun = f
    <3>1. f \in AnyFun
      BY DEF AnyFun
    <3>2. param[h] \in [fun : AnyFun, tid : AnyTid, handle : AnyFun]
      OBVIOUS
    <3>3. [param[h] EXCEPT !.fun = f] \in [fun : AnyFun, tid : AnyTid, handle : AnyFun]
      BY <3>1, <3>2
    <3> QED BY <2>2, <3>3
  <2> QED BY <2>1, <2>2, <2>3
<1>2. CASE FillEntry(h)
  BY <1>2 DEF FillEntry, AnyFun
<1>3. CASE IncLoad(h)
  BY <1>3 DEF IncLoad
<1>4. CASE IncStore(h)
  BY <1>4 DEF IncStore, NoParam, AnyTid, AnyFun
<1> QED BY <1>1, <1>2, <1>3, <1>4

\* So does a step of StartThread.
LEMMA CallerTypes ==
    ASSUME TypeOK, CreatorsTyped, NEW h \in Host,
           CallStart(h) \/ DirectCall(h) \/ Spawn(h) \/ ReuseFrame(h)
    PROVE  TypeOK' /\ CreatorsTyped'
<1> USE TableAssumption DEF TypeOK, CreatorsTyped, At, Goto, tables, globals, starts, Points,
        Starting, Creating
<1>1. CASE CallStart(h)
  BY <1>1 DEF CallStart, EntryOf, AnyFun, AnyTid
<1>2. CASE DirectCall(h)
  BY <1>2 DEF DirectCall
<1>3. CASE Spawn(h)
  <2>1. PICK new \in Host :
          /\ pc' = [pc EXCEPT ![h] = "game", ![new] = "alloc"]
          /\ parent' = [parent EXCEPT ![new] = h]
          /\ want' = [want EXCEPT ![new] = [fun |-> param[h].handle, tid |-> param[h].tid]]
          /\ frame' = [frame EXCEPT ![h] = [fun |-> param[h].fun, tid |-> param[h].tid]]
          /\ param' = [param EXCEPT ![h] = NoParam]
          /\ dangling' = dangling \cup Children(h) /\ overlapped' \subseteq Host
          /\ UNCHANGED <<tables, globals, reg>>
    BY <1>3, SpawnChanges
  <2>2. frame' \in [Host -> Data] /\ want' \in [Host -> Data]
    BY <2>1 DEF Data
  <2>3. param' \in [Host -> [fun : AnyFun, tid : AnyTid, handle : AnyFun]]
    BY <2>1 DEF NoParam, AnyTid, AnyFun
  <2>4. pc' \in [Host -> Points] /\ parent' \in [Host -> Host]
    BY <2>1
  <2>5. dangling' \subseteq Host
    BY <2>1 DEF Children
  <2>6. CreatorsTyped'
    BY <2>1
  <2> QED BY <2>1, <2>2, <2>3, <2>4, <2>5, <2>6
<1>4. CASE ReuseFrame(h)
  BY <1>4 DEF ReuseFrame, Data, Nothing, AnyTid, AnyFun, Children
<1> QED BY <1>1, <1>2, <1>3, <1>4

\* And a step of a thread that starts.
LEMMA StarterTypes ==
    ASSUME TypeOK, CreatorsTyped, NEW h \in Host, StartStep(h)
    PROVE  TypeOK' /\ CreatorsTyped'
<1> USE DEF TypeOK, CreatorsTyped, At, Goto, tables, globals, starts, Points, Starting, Creating
<1>1. CASE AllocContext(h)
  BY <1>1 DEF AllocContext, Ctx
<1>2. CASE ClearContext(h)
  BY <1>2 DEF ClearContext, Context, AnyTid
<1>3. CASE SetGp(h)
  BY ZenonT(30), <1>3 DEF SetGp, data, Data, Context
<1>4. CASE SetSp(h)
  BY ZenonT(30), <1>4 DEF SetSp, data, Data, Context
<1>5. CASE SetThreadID(h)
  BY <1>5 DEF SetThreadID, data, Data
<1>6. CASE EnterFunction(h)
  BY <1>6 DEF EnterFunction
<1> QED BY <1>1, <1>2, <1>3, <1>4, <1>5, <1>6 DEF StartStep

-----------------------------------------------------------------------------
(* The thread table. *)

\* The ids of the handles, with one more.
LEMMA AddedTid ==
    ASSUME NEW S, NEW c
    PROVE  {d.tid : d \in S \cup {c}} = {d.tid : d \in S} \cup {c.tid}
OBVIOUS

\* The entries below the counter, with one more.
LEMMA NextIndex == ASSUME NEW n \in Nat
                   PROVE  (0 .. n - 1) \cup {n} = 0 .. (n + 1) - 1
OBVIOUS

\* CreateThread, when creators take turns.
LEMMA CreateKeepsTable ==
    ASSUME ThreadsInv, Running, NEW h \in Host,
           CallCreate(h) \/ FillEntry(h) \/ IncLoad(h) \/ IncStore(h)
    PROVE  Table'
<1> USE TableAssumption DEF ThreadsInv, TypeOK, CreatorsTyped, Running, At, Goto, tables, globals, starts,
        Creating, Table, CreatorAlone, HandlesKept, LookedUp
<1>1. CASE CallCreate(h)
  BY <1>1 DEF CallCreate
<1>2. CASE FillEntry(h)
  <2>1. UNCHANGED <<currentThreadIndex, created, discipline, param, reg>> /\ pc[h] = "fill"
    BY <1>2 DEF FillEntry
  <2>2. CASE currentThreadIndex \in Tid
    <3>1. /\ threads' = [threads EXCEPT ![currentThreadIndex] = param[h].fun]
          /\ pc' = [pc EXCEPT ![h] = "inc_load"]
      BY <1>2, <2>2 DEF FillEntry
    <3>2. CreatorAlone' /\ LookedUp'
      BY <2>1, <2>2, <3>1
    <3>3. "serial_create" \in discipline =>
            \A c \in created : c.tid # currentThreadIndex /\ threads'[c.tid] = threads[c.tid]
      <4> SUFFICES ASSUME "serial_create" \in discipline, NEW c \in created
                   PROVE  c.tid # currentThreadIndex /\ threads'[c.tid] = threads[c.tid]
        OBVIOUS
      <4>1. c.tid \in 0 .. currentThreadIndex - 1 /\ c.tid \in Tid
        OBVIOUS
      <4>2. c.tid # currentThreadIndex
        BY <4>1
      <4> QED BY <2>2, <3>1, <4>1, <4>2
    <3>4. HandlesKept'
      BY <2>1, <3>1, <3>3
    <3> QED BY <3>2, <3>4
  <2>3. CASE currentThreadIndex \notin Tid
    <3>1. threads' = threads /\ pc' = [pc EXCEPT ![h] = "overrun"]
      BY <1>2, <2>3 DEF FillEntry
    <3>2. CreatorAlone' /\ LookedUp'
      BY <2>1, <3>1
    <3>3. "serial_create" \in discipline => currentThreadIndex = TableSize
      BY <2>3 DEF Tid
    <3>4. HandlesKept'
      BY <2>1, <3>1, <3>3 DEF Tid
    <3> QED BY <3>2, <3>4
  <2> QED BY <2>2, <2>3
<1>3. CASE IncLoad(h)
  BY <1>3 DEF IncLoad
<1>4. CASE IncStore(h)
  <2> USE <1>4 DEF IncStore
  <2>1. CreatorAlone' /\ LookedUp'
    BY DEF Tid
  <2>2. ASSUME "serial_create" \in discipline
        PROVE  /\ reg[h] = currentThreadIndex /\ reg[h] \in Tid
               /\ threads[reg[h]] = param[h].fun
    BY <2>2
  <2>3. "serial_create" \in discipline =>
          \A c, d \in created' : threads'[c.tid] = c.fun /\ (c.tid = d.tid => c = d)
    <3> SUFFICES ASSUME "serial_create" \in discipline, NEW c \in created', NEW d \in created'
                 PROVE  threads'[c.tid] = c.fun /\ (c.tid = d.tid => c = d)
      OBVIOUS
    <3> DEFINE new == [fun |-> param[h].fun, tid |-> reg[h]]
    <3>1. \A e \in created : e.tid \in 0 .. currentThreadIndex - 1 /\ threads[e.tid] = e.fun
      OBVIOUS
    <3>2. \A e \in created : e.tid # reg[h]
      BY <3>1, <2>2 DEF Tid
    <3>3. created' = created \cup {new} /\ threads' = threads /\ new.tid = reg[h] /\ new.fun = param[h].fun
      OBVIOUS
    <3> HIDE DEF new
    <3> QED BY <3>1, <3>2, <3>3, <2>2
  <2>4. "serial_create" \in discipline =>
          {c.tid : c \in created'} = 0 .. currentThreadIndex' - 1
    <3> SUFFICES ASSUME "serial_create" \in discipline
                 PROVE  {c.tid : c \in created'} = 0 .. currentThreadIndex' - 1
      OBVIOUS
    <3> DEFINE new == [fun |-> param[h].fun, tid |-> reg[h]]
    <3>1. created' = created \cup {new} /\ new.tid = reg[h] /\ currentThreadIndex' = reg[h] + 1
      OBVIOUS
    <3>2. reg[h] = currentThreadIndex /\ reg[h] \in Nat
      BY <2>2 DEF Tid
    <3>3. {c.tid : c \in created} = 0 .. reg[h] - 1
      BY <3>2
    <3> HIDE DEF new
    <3>4. {c.tid : c \in created'} = {c.tid : c \in created} \cup {new.tid}
      BY ONLY <3>1, AddedTid
    <3>5. {c.tid : c \in created'} = (0 .. reg[h] - 1) \cup {reg[h]}
      BY ONLY <3>1, <3>3, <3>4
    <3>6. (0 .. reg[h] - 1) \cup {reg[h]} = 0 .. (reg[h] + 1) - 1
      BY ONLY <3>2, NextIndex
    <3> QED BY ONLY <3>1, <3>5, <3>6
  <2>5. HandlesKept'
    BY <2>3, <2>4
  <2> QED BY <2>1, <2>5
<1> QED BY <1>1, <1>2, <1>3, <1>4

\* StartThread reads the table.
LEMMA CallerKeepsTable ==
    ASSUME ThreadsInv, Running, NEW h \in Host,
           CallStart(h) \/ DirectCall(h) \/ Spawn(h) \/ ReuseFrame(h)
    PROVE  Table'
<1> USE DEF ThreadsInv, TypeOK, Running, At, Goto, tables, globals, starts, Creating, Table, CreatorAlone,
        HandlesKept, LookedUp
<1>1. CASE CallStart(h)
  BY <1>1 DEF CallStart, EntryOf
<1>2. CASE DirectCall(h)
  BY <1>2 DEF DirectCall
<1>3. CASE Spawn(h)
  <2>1. UNCHANGED <<threads, currentThreadIndex, created, discipline, reg>>
    BY <1>3, SpawnChanges
  <2>2. PICK new \in Host : /\ pc' = [pc EXCEPT ![h] = "game", ![new] = "alloc"]
                            /\ param' = [param EXCEPT ![h] = NoParam]
    BY <1>3, SpawnChanges
  <2> QED BY <2>1, <2>2
<1>4. CASE ReuseFrame(h)
  BY <1>4 DEF ReuseFrame
<1> QED BY <1>1, <1>2, <1>3, <1>4

\* A thread that starts does not look at it.
LEMMA StarterKeepsTable ==
    ASSUME ThreadsInv, Running, NEW h \in Host, StartStep(h)
    PROVE  Table'
<1> USE DEF ThreadsInv, TypeOK, Running, At, Goto, tables, globals, starts, Creating, Starting, Table, CreatorAlone,
        HandlesKept, LookedUp
<1>1. UNCHANGED <<threads, currentThreadIndex, created, discipline, param, reg>>
  BY DEF StartStep, AllocContext, ClearContext, SetGp, SetSp, SetThreadID, EnterFunction
<1>2. pc[h] \in Starting /\ \E p \in Points \ {"direct", "spawn"} : p \notin Creating /\ p # "overrun" /\ Goto(h, p)
  BY DEF StartStep, AllocContext, ClearContext, SetGp, SetSp, SetThreadID, EnterFunction, Points
<1> QED BY <1>1, <1>2

-----------------------------------------------------------------------------
(* Frames. *)

\* CreateThread leaves them alone.
LEMMA CreateKeepsFrames ==
    ASSUME ThreadsInv, NEW h \in Host,
           CallCreate(h) \/ FillEntry(h) \/ IncLoad(h) \/ IncStore(h)
    PROVE  Frames'
<1>1. UNCHANGED <<discipline, frame, parent, want, dangling>>
  BY DEF CallCreate, FillEntry, IncLoad, IncStore, tables, starts
<1>2. /\ pc[h] \in Creating \cup {"game"}
      /\ \E p \in Creating \cup {"game", "overrun"} : pc' = [pc EXCEPT ![h] = p]
  BY DEF CallCreate, FillEntry, IncLoad, IncStore, At, Goto, Creating
<1> QED BY <1>1, <1>2 DEF ThreadsInv, TypeOK, Frames, IdsKept, FunctionsKept, FramesFilled,
              CrashesDangle, data, Starting, Creating

\* A start changes the frame under the children that still read it.
LEMMA SpawnKeepsFrames == ASSUME ThreadsInv, NEW h \in Host, Spawn(h)
                          PROVE  Frames'
<1> USE DEF ThreadsInv, TypeOK, tables, starts
<1>1. PICK new \in Host :
        /\ pc[new] = "unborn" /\ new # h /\ pc[h] = "spawn"
        /\ pc' = [pc EXCEPT ![h] = "game", ![new] = "alloc"]
        /\ parent' = [parent EXCEPT ![new] = h]
        /\ want' = [want EXCEPT ![new] = [fun |-> param[h].handle, tid |-> param[h].tid]]
        /\ frame' = [frame EXCEPT ![h] = [fun |-> param[h].fun, tid |-> param[h].tid]]
        /\ dangling' = dangling \cup Children(h) /\ discipline' = discipline
  BY SpawnChanges
<1>2. "serial_create" \in discipline => param[h].fun = param[h].handle /\ param[h].fun \in Fun
  BY <1>1 DEF Table, LookedUp
<1>3. \A k \in Host : pc'[k] \in Starting /\ k # new => pc[k] \in Starting
  BY <1>1 DEF Starting
<1>4. \A k \in Host : pc[k] \in Starting /\ k \notin dangling' => parent[k] # h
  BY <1>1 DEF Children
<1>5. parent'[new] = h /\ frame'[h] = [fun |-> param[h].fun, tid |-> param[h].tid]
  BY <1>1
<1>6. want'[new] = [fun |-> param[h].handle, tid |-> param[h].tid]
  BY <1>1
<1>7. \A k \in Host \ {new} : parent'[k] = parent[k] /\ want'[k] = want[k]
  BY <1>1
<1>8. \A k \in Host \ {h} : frame'[k] = frame[k]
  BY <1>1
<1>9. IdsKept' /\ FunctionsKept'
  <2> SUFFICES ASSUME NEW k \in Host, pc'[k] \in Starting
               PROVE  /\ k \notin dangling' => frame'[parent'[k]].tid = want'[k].tid
                      /\ "serial_create" \in discipline' =>
                            /\ want'[k].fun \in Fun
                            /\ k \notin dangling' => frame'[parent'[k]] = want'[k]
    BY DEF IdsKept, FunctionsKept, data
  <2>1. CASE k = new
    BY <2>1, <1>1, <1>2, <1>5, <1>6
  <2>2. CASE k # new
    <3>1. pc[k] \in Starting /\ parent'[k] = parent[k] /\ want'[k] = want[k]
      BY <2>2, <1>3, <1>7
    <3>2. k \notin dangling' => k \notin dangling /\ frame'[parent[k]] = frame[parent[k]]
      BY <3>1, <1>1, <1>4, <1>8
    <3> QED BY <3>1, <3>2, <1>1 DEF Frames, IdsKept, FunctionsKept, data
  <2> QED BY <2>1, <2>2
<1>10. FramesFilled'
  <2> SUFFICES ASSUME "serial_create" \in discipline, NEW k \in Host, frame'[k] # Nothing
               PROVE  \E j \in Host : parent'[j] = k /\ pc'[j] # "unborn" /\ want'[j] = frame'[k]
    BY <1>1 DEF FramesFilled
  <2>1. CASE k = h
    BY <2>1, <1>1, <1>2, <1>5, <1>6
  <2>2. CASE k # h
    <3>1. PICK j \in Host : parent[j] = k /\ pc[j] # "unborn" /\ want[j] = frame[k]
      BY <2>2, <1>8 DEF Frames, FramesFilled
    <3>2. j # new
      BY <3>1, <1>1
    <3> QED BY <3>1, <3>2, <2>2, <1>1, <1>7, <1>8
  <2> QED BY <2>1, <2>2
<1>11. CrashesDangle'
  BY <1>1 DEF Frames, CrashesDangle
<1> QED BY <1>9, <1>10, <1>11 DEF Frames

\* A call that is over leaves its children a frame with nothing in it.
LEMMA CallerKeepsFrames ==
    ASSUME ThreadsInv, NEW h \in Host,
           CallStart(h) \/ DirectCall(h) \/ Spawn(h) \/ ReuseFrame(h)
    PROVE  Frames'
<1> USE DEF ThreadsInv, TypeOK, At, Goto, tables, globals, starts, Starting, data, Frames, IdsKept,
        FunctionsKept, FramesFilled, CrashesDangle
<1>1. CASE CallStart(h)
  BY <1>1 DEF CallStart
<1>2. CASE DirectCall(h)
  <2>1. "serial_create" \in discipline => pc'[h] = "spawn"
    BY <1>2 DEF DirectCall, Table, LookedUp
  <2> QED BY <1>2, <2>1 DEF DirectCall
<1>3. CASE Spawn(h)
  BY <1>3, SpawnKeepsFrames
<1>4. CASE ReuseFrame(h)
  BY <1>4 DEF ReuseFrame, Children, Nothing
<1> QED BY <1>1, <1>2, <1>3, <1>4

\* A thread that starts reads its frame, and calls the function it finds.
LEMMA StarterKeepsFrames ==
    ASSUME ThreadsInv, NEW h \in Host, StartStep(h)
    PROVE  Frames'
<1>1. UNCHANGED <<discipline, frame, parent, want, dangling>>
  BY DEF StartStep, AllocContext, ClearContext, SetGp, SetSp, SetThreadID, EnterFunction, tables, starts
<1>2. pc[h] \in Starting /\ \E p \in Starting \cup {"game", "crashed"} : pc' = [pc EXCEPT ![h] = p]
  BY DEF StartStep, AllocContext, ClearContext, SetGp, SetSp, SetThreadID, EnterFunction, At, Goto,
         Starting
<1>3. pc'[h] = "crashed" => data(h).fun \notin Fun
  BY DEF ThreadsInv, TypeOK, StartStep, AllocContext, ClearContext, SetGp, SetSp, SetThreadID,
         EnterFunction, Goto
<1>4. IdsKept' /\ FunctionsKept' /\ FramesFilled'
  BY <1>1, <1>2 DEF ThreadsInv, TypeOK, Frames, IdsKept, FunctionsKept, FramesFilled, data, Starting
<1>5. CrashesDangle'
  BY <1>1, <1>2, <1>3 DEF ThreadsInv, TypeOK, Frames, FunctionsKept, CrashesDangle, Starting
<1> QED BY <1>4, <1>5 DEF Frames

-----------------------------------------------------------------------------
(* Contexts. *)

\* CreateThread starts nothing.
LEMMA CreateKeepsContexts ==
    ASSUME ThreadsInv, NEW h \in Host,
           CallCreate(h) \/ FillEntry(h) \/ IncLoad(h) \/ IncStore(h)
    PROVE  Contexts'
<1>1. UNCHANGED <<ctx, contexts, EEThreadID, want, dangling, overlapped>>
  BY DEF CallCreate, FillEntry, IncLoad, IncStore, globals, starts
<1>2. /\ pc[h] \in Creating \cup {"game"}
      /\ \E p \in Creating \cup {"game", "overrun"} : pc' = [pc EXCEPT ![h] = p]
  BY DEF CallCreate, FillEntry, IncLoad, IncStore, At, Goto, Creating
<1> QED BY <1>1, <1>2 DEF ThreadsInv, TypeOK, Contexts, Together, CtxOwner, Installed, ContextFilled,
              ContextMatchesID, Settled, Starting, Creating

\* StartThread touches no context; the thread it makes is one more that starts.
LEMMA CallerKeepsContexts ==
    ASSUME ThreadsInv, NEW h \in Host,
           CallStart(h) \/ DirectCall(h) \/ Spawn(h) \/ ReuseFrame(h)
    PROVE  Contexts'
<1> USE DEF ThreadsInv, TypeOK, At, Goto, tables, globals, starts, Starting, Settled, Installed,
        Contexts, Together, CtxOwner, ContextFilled, ContextMatchesID
<1>1. CASE CallStart(h)
  BY <1>1 DEF CallStart
<1>2. CASE DirectCall(h)
  BY <1>2 DEF DirectCall
<1>3. CASE Spawn(h)
  <2>1. PICK new \in Host :
          /\ pc[new] = "unborn" /\ new # h /\ pc[h] = "spawn"
          /\ pc' = [pc EXCEPT ![h] = "game", ![new] = "alloc"]
          /\ want' = [want EXCEPT ![new] = [fun |-> param[h].handle, tid |-> param[h].tid]]
          /\ dangling \subseteq dangling' /\ overlapped \subseteq overlapped'
          /\ \A k \in Host : pc[k] \in Starting => {k, new} \subseteq overlapped'
          /\ UNCHANGED <<ctx, contexts, EEThreadID>>
    BY <1>3, SpawnChanges
  <2>2. \A k \in Host : pc'[k] \in Starting => k = new \/ pc[k] \in Starting
    BY <2>1
  <2>3. \A k \in Host : pc'[k] \in Installed => pc[k] = pc'[k]
    BY <2>1
  <2>4. Together'
    BY <2>1, <2>2
  <2>5. CtxOwner'
    BY <2>1, <2>3
  <2>6. ContextFilled'
    BY <2>1
  <2>7. ContextMatchesID'
    BY <2>1
  <2> QED BY <2>4, <2>5, <2>6, <2>7
<1>4. CASE ReuseFrame(h)
  BY <1>4 DEF ReuseFrame
<1> QED BY <1>1, <1>2, <1>3, <1>4

\* A thread that starts alone sets up the context it has installed.
LEMMA StarterKeepsContexts ==
    ASSUME ThreadsInv, NEW h \in Host, StartStep(h)
    PROVE  Contexts'
<1> USE DEF ThreadsInv, TypeOK, Ctx, Contexts
<1>1. UNCHANGED <<want, dangling, overlapped>> /\ pc[h] \in Starting
  BY DEF StartStep, AllocContext, ClearContext, SetGp, SetSp, SetThreadID, EnterFunction, At, starts,
         Starting
<1>2. \E p \in Installed \cup {"game", "crashed"} : pc' = [pc EXCEPT ![h] = p]
  BY DEF StartStep, AllocContext, ClearContext, SetGp, SetSp, SetThreadID, EnterFunction, Goto,
         Installed, Starting
<1>3. \A k \in Host : pc'[k] \in Starting => pc[k] \in Starting
  BY <1>1, <1>2
<1>4. Together'
  BY <1>1, <1>3 DEF Together
<1>5. \A k \in Host : pc[k] \in Starting /\ k \notin overlapped => k = h
  BY <1>1 DEF Together
<1>6. CASE AllocContext(h)
  <2>1. CtxOwner'
    <3> SUFFICES ASSUME NEW k \in Host, pc'[k] \in Installed
                 PROVE  ctx' = k \/ {ctx', k} \subseteq overlapped'
      BY DEF CtxOwner
    <3>1. ctx' = h
      BY <1>6 DEF AllocContext
    <3>2. pc[k] \in Starting
      BY <1>3 DEF Installed
    <3> QED BY <1>1, <3>1, <3>2 DEF Together
  <2>2. ContextFilled'
    BY <1>1, <1>6 DEF AllocContext, At, Goto, ContextFilled, globals
  <2>3. pc'[h] \in Starting
    BY <1>6 DEF AllocContext, Goto, Starting
  <2> QED BY <1>4, <2>1, <2>2, <2>3 DEF ContextMatchesID, Settled
<1>7. ASSUME ~AllocContext(h)
      PROVE  Contexts'
  <2>1. ctx' = ctx /\ pc[h] \in Installed
    BY <1>7 DEF StartStep, ClearContext, SetGp, SetSp, SetThreadID, EnterFunction, At, globals,
       Installed, Starting
  <2>2. ctx = h \/ {ctx, h} \subseteq overlapped
    BY <2>1 DEF CtxOwner
  <2>3. CtxOwner'
    BY <1>1, <1>2, <2>1, <2>2 DEF CtxOwner, Installed
  <2>4. ASSUME NEW k \in Host, k \notin overlapped, k # h
        PROVE  pc'[k] = pc[k] /\ pc[k] \notin Starting
    BY <1>1, <1>2, <1>5, <2>4
  <2>5. ContextFilled' /\ (h \notin overlapped \cup dangling /\ pc'[h] \notin Starting =>
              /\ contexts'[h] = [clean |-> TRUE, gp |-> EEThreadID', sp |-> EEThreadID']
              /\ EEThreadID' = want[h].tid)
    <3> SUFFICES ASSUME h \notin overlapped \cup dangling
                 PROVE  /\ pc'[h] \in {"set_gp", "set_sp", "set_id", "enter"} => contexts'[h].clean
                        /\ pc'[h] \in {"set_sp", "set_id", "enter"} => contexts'[h].gp = want[h].tid
                        /\ pc'[h] \in {"set_id", "enter"} => contexts'[h].sp = want[h].tid
                        /\ pc'[h] = "enter" => EEThreadID' = want[h].tid
                        /\ pc'[h] \notin Starting =>
                              /\ contexts'[h] = [clean |-> TRUE, gp |-> EEThreadID', sp |-> EEThreadID']
                              /\ EEThreadID' = want[h].tid
      BY <1>1, <2>4 DEF ContextFilled, Starting
    <3>1. ctx = h /\ data(h).tid = want[h].tid
      BY <1>1, <2>2 DEF Frames, IdsKept
    <3>2. contexts[h] \in Context
      OBVIOUS
    <3> USE <3>1, <3>2 DEF Context, At, Goto, Starting, ContextFilled, globals
    <3>3. CASE ClearContext(h)
      BY <3>3 DEF ClearContext
    <3>4. CASE SetGp(h)
      BY <3>4 DEF SetGp
    <3>5. CASE SetSp(h)
      BY <3>5 DEF SetSp
    <3>6. CASE SetThreadID(h)
      BY <3>6 DEF SetThreadID
    <3>7. CASE EnterFunction(h)
      BY <3>7 DEF EnterFunction
    <3> QED BY <1>7, <3>3, <3>4, <3>5, <3>6, <3>7 DEF StartStep
  <2>6. ContextMatchesID'
    BY <1>1, <2>1, <2>2, <2>5 DEF ContextMatchesID, Settled
  <2> QED BY <1>4, <2>3, <2>5, <2>6
<1> QED BY <1>6, <1>7

-----------------------------------------------------------------------------
(* Theorems. *)

\* Every step keeps the invariant.
LEMMA ThreadsStep == ThreadsInv /\ [Next]_vars => ThreadsInv'
<1> SUFFICES ASSUME ThreadsInv, [Next]_vars
             PROVE  ThreadsInv'
  OBVIOUS
<1>1. ASSUME Running, NEW h \in Host, CallCreate(h) \/ FillEntry(h) \/ IncLoad(h) \/ IncStore(h)
      PROVE  ThreadsInv'
  BY <1>1, CreateTypes, CreateKeepsTable, CreateKeepsFrames, CreateKeepsContexts DEF ThreadsInv
<1>2. ASSUME Running, NEW h \in Host, CallStart(h) \/ DirectCall(h) \/ Spawn(h) \/ ReuseFrame(h)
      PROVE  ThreadsInv'
  BY <1>2, CallerTypes, CallerKeepsTable, CallerKeepsFrames, CallerKeepsContexts DEF ThreadsInv
<1>3. ASSUME Running, NEW h \in Host, StartStep(h)
      PROVE  ThreadsInv'
  BY <1>3, StarterTypes, StarterKeepsTable, StarterKeepsFrames, StarterKeepsContexts DEF ThreadsInv
<1>4. CASE UNCHANGED vars
  <2> USE <1>4 DEF vars, ThreadsInv
  <2>1. TypeOK' /\ CreatorsTyped'
    BY DEF TypeOK, CreatorsTyped
  <2>2. Table'
    BY DEF Table, CreatorAlone, HandlesKept, LookedUp
  <2>3. Frames'
    BY DEF Frames, IdsKept, FunctionsKept, FramesFilled, CrashesDangle, data
  <2>4. Contexts'
    BY DEF Contexts, Together, CtxOwner, ContextFilled, ContextMatchesID, Settled
  <2> QED BY <2>1, <2>2, <2>3, <2>4
<1> QED BY <1>1, <1>2, <1>3, <1>4 DEF Next, CallStep

\* The invariant, in every behaviour of CreateThread and StartThread.
THEOREM ThreadsInvariant == Spec => []ThreadsInv
BY ThreadsInit, ThreadsStep, PTL DEF Spec

\* The globals, the table and the frames have their types, in whatever order the
\* host threads take their turns and whichever rules the game breaks.
THEOREM TypeCorrect == Spec => []TypeOK
BY ThreadsInvariant, PTL DEF ThreadsInv

\* With creators that take turns, the handles CreateThread gave name the entries
\* below currentThreadIndex, one each, and their functions, and the table is not
\* overrun while an entry is left.
THEOREM HandlesAreKept == Spec => []HandlesKept
BY ThreadsInvariant, PTL DEF ThreadsInv, Table

\* However many threads start at once, and although starters leave the frames
\* their threads read: one that comes to call its function finds what it was
\* started with, unless the frame has changed under it; then it finds what the
\* same starter has started another thread with, or garbage.
THEOREM StartsAsAsked == Spec => []StartsWhatWasAsked
<1>1. ThreadsInv => StartsWhatWasAsked
  <2> SUFFICES ASSUME ThreadsInv, "serial_create" \in discipline, NEW h \in Host
               PROVE  /\ pc[h] = "enter" =>
                            \/ data(h) = want[h]
                            \/ h \in dangling /\ data(h) \in {Nothing} \cup
                                  {want[k] : k \in {k \in Host : parent[k] = parent[h]}}
                      /\ pc[h] = "crashed" => h \in dangling
    BY DEF StartsWhatWasAsked
  <2> USE DEF ThreadsInv, TypeOK, Frames
  <2>1. pc[h] = "enter" => data(h) = want[h] \/ h \in dangling
    BY DEF FunctionsKept, Starting
  <2>2. data(h) \in {Nothing} \cup {want[k] : k \in {k \in Host : parent[k] = parent[h]}}
    BY DEF FramesFilled, data
  <2>3. pc[h] = "crashed" => h \in dangling
    BY DEF CrashesDangle
  <2> QED BY <2>1, <2>2, <2>3
<1> QED BY <1>1, ThreadsInvariant, PTL

\* Whenever no start is going on, the register file in use belongs to the thread
\* that EEThreadID names, unless the thread that installed it started while
\* another did or has lost the frame it read.
THEOREM ContextsMatch == Spec => []ContextMatchesID
BY ThreadsInvariant, PTL DEF ThreadsInv, Contexts

================================================================================
