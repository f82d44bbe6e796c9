----------------------------- MODULE BinaryLock ------------------------------
(****************************************************************************)
(* What the kernel semaphores amount to once races and counters are hidden: *)
(* a family of binary locks that come and go.  At most one thread holds a   *)
(* lock; giving it back either frees it or jams it, and a jammed lock stays *)
(* jammed until it is destroyed.  Counting beyond one is not offered.       *)
(****************************************************************************)
CONSTANTS Thread, LockId

VARIABLES state, \* per lock: absent, free, taken or jammed
          holder \* per lock: the set of threads that hold it

vars == <<state, holder>>

Init == /\ state = [i \in LockId |-> "absent"]
        /\ holder = [i \in LockId |-> {}]

Become(i, s, h) == /\ state' = [state EXCEPT ![i] = s]
                   /\ holder' = [holder EXCEPT ![i] = h]

Create(i)     == state[i] = "absent" /\ Become(i, "free", {})
Destroy(i)    == state[i] \in {"free", "jammed"} /\ Become(i, "absent", {})
Acquire(t, i) == state[i] = "free" /\ Become(i, "taken", {t})
Release(t, i) == holder[i] = {t} /\ Become(i, "free", {})
Jam(t, i)     == holder[i] = {t} /\ Become(i, "jammed", {})

Next == \E i \in LockId :
            \/ Create(i)
            \/ Destroy(i)
            \/ \E t \in Thread : Acquire(t, i) \/ Release(t, i) \/ Jam(t, i)

Spec == Init /\ [][Next]_vars
=============================================================================
