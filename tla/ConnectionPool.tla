--------------------------- MODULE ConnectionPool ----------------------------
(***************************************************************************)
(* soci::connection_pool (the POSIX implementation) and the session        *)
(* objects that lease from it.  Each thread leases one entry at a time,    *)
(* with or without a time-out, uses it and gives it back.  pthread_cond_t  *)
(* wakes one waiter per signal, wakes spuriously, and lets a timed waiter  *)
(* go when its deadline has passed.                                        *)
(***************************************************************************)
EXTENDS Naturals, FiniteSets

CONSTANTS
    Callers,
    PoolSize        \* the size given to the constructor, not 0

\* A process has finitely many threads, and the constructor refuses a size of 0.
ASSUME PoolAssumption == IsFiniteSet(Callers) /\ PoolSize \in Nat \ {0}

Positions == 1..PoolSize

VARIABLES
    free,           \* free[i]: sessions_[i].first
    mtx,            \* the threads that hold mtx_
    where,          \* where each thread is
    timed,          \* timed[t]: its timeout is not negative
    overdue,        \* overdue[t]: its deadline has passed
    pos,            \* pos[t]: the position of its entry, 0 if it has none
    offered         \* history: entries free at the deadline of t and ever since

poolVars == <<free, mtx, where, timed, overdue, pos, offered>>

Go(t, place) == where' = [where EXCEPT ![t] = place]
Lock(t) == mtx = {} /\ mtx' = {t}
Unlock == mtx' = {}

PoolInit ==
    /\ free = [i \in Positions |-> TRUE]
    /\ mtx = {}
    /\ where = [t \in Callers |-> "idle"]
    /\ timed = [t \in Callers |-> FALSE]
    /\ overdue = [t \in Callers |-> FALSE]
    /\ pos = [t \in Callers |-> 0]
    /\ offered = [t \in Callers |-> {}]

------------------------------------------------------------------------------
(* try_lease(), which lease() calls without a time-out                      *)

TryLease(t, hasTimeout) ==
    /\ where[t] = "idle"
    /\ Go(t, "lock")
    /\ timed' = [timed EXCEPT ![t] = hasTimeout]
    /\ UNCHANGED <<free, mtx, overdue, pos, offered>>

\* A version that looks for an entry before it locks.
MutEnter(t) ==
    /\ where[t] \in {"lock", "woken"}
    /\ Go(t, "find")
    /\ UNCHANGED <<free, mtx, timed, overdue, pos, offered>>

\* pthread_mutex_lock(), also at the end of a wait that was woken.
Enter(t) ==
    /\ where[t] \in {"lock", "woken"}
    /\ Lock(t)
    /\ Go(t, "find")
    /\ UNCHANGED <<free, timed, overdue, pos, offered>>

\* find_free(): the first free entry, or pthread_cond_wait().
Find(t) ==
    /\ where[t] = "find"
    /\ \/ \E i \in Positions :
            /\ free[i] /\ \A j \in Positions : j < i => ~free[j]
            /\ pos' = [pos EXCEPT ![t] = i]
            /\ Go(t, "mark")
            /\ UNCHANGED mtx
       \/ /\ \A i \in Positions : ~free[i]
          /\ Go(t, "wait")
          /\ Unlock
          /\ UNCHANGED pos
    /\ UNCHANGED <<free, timed, overdue, offered>>

\* The end of a call, with the entries it takes.
Return(t, taken) ==
    /\ Unlock
    /\ timed' = [timed EXCEPT ![t] = FALSE]
    /\ overdue' = [overdue EXCEPT ![t] = FALSE]
    /\ offered' = [u \in Callers |-> IF u = t THEN {} ELSE offered[u] \ taken]

Mark(t) ==
    /\ where[t] = "mark"
    /\ free' = [free EXCEPT ![pos[t]] = FALSE]
    /\ Go(t, "use")
    /\ Return(t, {pos[t]})
    /\ UNCHANGED pos

\* The deadline passes.
Expire(t) ==
    /\ timed[t] /\ ~overdue[t]
    /\ where[t] \in {"lock", "find", "wait", "woken"}
    /\ overdue' = [overdue EXCEPT ![t] = TRUE]
    /\ offered' = [offered EXCEPT ![t] = {i \in Positions : free[i]}]
    /\ UNCHANGED <<free, mtx, where, timed, pos>>

\* A version that goes on waiting, as after a wake-up.
MutTimedOut(t) ==
    /\ where[t] = "wait" /\ overdue[t]
    /\ Lock(t)
    /\ Go(t, "find")
    /\ UNCHANGED <<free, timed, overdue, pos, offered>>

\* pthread_cond_timedwait() returns ETIMEDOUT, with the mutex: the loop ends
\* without another look at the entries.
TimedOut(t) ==
    /\ where[t] = "wait" /\ overdue[t]
    /\ Lock(t)
    /\ Go(t, "fail")
    /\ UNCHANGED <<free, timed, overdue, pos, offered>>

Fail(t) ==
    /\ where[t] = "fail"
    /\ Go(t, "idle")
    /\ Return(t, {})
    /\ UNCHANGED <<free, pos>>

\* A spurious wake-up.
Spurious(t) ==
    /\ where[t] = "wait"
    /\ Go(t, "woken")
    /\ UNCHANGED <<free, mtx, timed, overdue, pos, offered>>

------------------------------------------------------------------------------
(* give_back(), which the destructor of a leased session calls              *)

GiveBack(t) ==
    /\ where[t] = "use"
    /\ Lock(t)
    /\ Go(t, "release")
    /\ UNCHANGED <<free, timed, overdue, pos, offered>>

\* An entry that is already free is an error.
Release(t) ==
    /\ where[t] = "release"
    /\ Go(t, IF free[pos[t]] THEN "error" ELSE "signal")
    /\ free' = [free EXCEPT ![pos[t]] = TRUE]
    /\ Unlock
    /\ pos' = [pos EXCEPT ![t] = 0]
    /\ UNCHANGED <<timed, overdue, offered>>

\* pthread_cond_signal(), after the mutex was unlocked.
Signal(t) ==
    /\ where[t] = "signal"
    /\ \/ \E w \in Callers :
            /\ where[w] = "wait"
            /\ where' = [where EXCEPT ![t] = "idle", ![w] = "woken"]
       \/ /\ \A w \in Callers : where[w] # "wait"
          /\ Go(t, "idle")
    /\ UNCHANGED <<free, mtx, timed, overdue, pos, offered>>

------------------------------------------------------------------------------
Inside(t) == Find(t) \/ Mark(t) \/ Fail(t) \/ Release(t) \/ Signal(t)

PoolNext ==
    \E t \in Callers :
        \/ \E hasTimeout \in BOOLEAN : TryLease(t, hasTimeout)
        \/ Enter(t) \/ Expire(t) \/ TimedOut(t) \/ Spurious(t)
        \/ GiveBack(t)
        \/ Inside(t)

PoolSpec == PoolInit /\ [][PoolNext]_poolVars

\* Callers are scheduled, deadlines pass, and the mutex is granted to a thread that
\* asks for it often enough.  Nobody has to give an entry back.
PoolFairness ==
    \A t \in Callers :
        /\ WF_poolVars(Inside(t)) /\ WF_poolVars(Expire(t))
        /\ SF_poolVars(Enter(t)) /\ SF_poolVars(TimedOut(t))

------------------------------------------------------------------------------
Holds(t) == where[t] \in {"use", "release"}

\* The promise of the pool: an entry is used by one thread at a time, and it is
\* free exactly when nobody uses it, so that give_back() never fails and no
\* entry is lost (try_lease(), give_back()).
Exclusive ==
    /\ \A t, u \in Callers : t # u /\ Holds(t) /\ Holds(u) => pos[t] # pos[u]
    /\ \A i \in Positions : free[i] <=> \A t \in Callers : Holds(t) => pos[t] # i

At(place) == {t \in Callers : where[t] = place}

\* While a thread waits, every free entry has a wake-up under way: the signal
\* of give_back(), sent after the unlock, is never lost to a thread that leases
\* in between, to a spurious wake-up or to a deadline.
NoLostWakeup ==
    At("wait") # {} => Cardinality({i \in Positions : free[i]})
                          <= Cardinality(At("signal")) + Cardinality(At("woken"))
                             + Cardinality(At("find") \cup At("mark"))

\* try_lease() with a time-out returns, even if no entry is ever given back.
TimedReturns ==
    \A t \in Callers :
        timed[t] /\ where[t] = "lock" ~> where[t] \in {"use", "idle"}

\* "Returns ... `false` if no entry was available before the time-out": when
\* try_lease() fails, no entry has been available since before the deadline.
FalseMeansNone == \A t \in Callers : where[t] = "fail" => offered[t] = {}

\* A thread that waits for an entry is woken for one that is free, and with a
\* time-out its wait ends (try_lease(), give_back()).
WaitersAreServed == []NoLostWakeup /\ TimedReturns
==============================================================================
