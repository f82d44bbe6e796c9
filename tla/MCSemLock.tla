------------------------------ MODULE MCSemLock ------------------------------
(* Instances of EESemaphore.  Threads are interchangeable in the safety runs. *)
EXTENDS EESemaphore, FiniteSets, TLC

Perms == Permutations(Thread)

LockCalls  == {"CreateSema", "WaitSema", "SignalSema"}

\* What a call returned or reported is never read again.
Essence == <<isValid, count, waitThreads, locked, pc, op, id, reg, live, holding, usage>>

\* Bounds: semaphores used without any rule are looked at one at a time, and a
\* count that racing polls and signals have driven far is not followed further.
Small == usage = "free" => /\ Cardinality({i \in SemId : isValid[i]}) <= 1
                           /\ \A i \in SemId : count[i] \in -2 .. Cap + 1
==============================================================================
