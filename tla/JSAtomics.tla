------------------------------ MODULE JSAtomics ------------------------------
(***************************************************************************)
(* Atomics.wait and Atomics.notify of QuickJS: threads that share memory,  *)
(* one mutex, one list of waiters (structures on the stacks of the waiting *)
(* threads) and a condition variable for each.  A thread that stores a     *)
(* value notifies afterwards, as programs do; stores take no lock.         *)
(***************************************************************************)
EXTENDS Integers, FiniteSets

CONSTANTS
    Threads,  \* threads
    Cells,    \* places in shared memory
    Counts,   \* counts given to notify
    NoOne     \* no thread, no cell

AtomicsAssumption ==
    IsFiniteSet(Threads) /\ Counts \subseteq Nat /\ NoOne \notin Threads \cup Cells

VARIABLES
    mem,       \* shared memory: 0 or 1
    mutex,     \* js_atomics_mutex
    list,      \* js_atomics_waiter_list: the waiters in it
    ahead,     \* and for each of them those ahead of it
    linked,    \* waiter->linked
    ptr,       \* the cell a thread waits on or notifies
    value,     \* the value it expects
    signalled, \* its condition variable was signalled
    expired,   \* its timeout has passed before a signal
    spurious,  \* its pthread_cond_wait returned by itself
    counted,   \* history: a notify has counted it
    count,     \* how many waiters a notify wakes at most
    pc,        \* where each thread is
    answer     \* what its last wait returned

vars == <<mem, mutex, list, ahead, linked, ptr, value, signalled, expired, spurious, counted,
          count, pc, answer>>
rest == <<mem, ptr, value, count>>

Init ==
    /\ mem = [c \in Cells |-> 0]
    /\ mutex = NoOne
    /\ list = {} /\ ahead = [t \in Threads |-> {}]
    /\ linked = [t \in Threads |-> FALSE]
    /\ ptr = [t \in Threads |-> NoOne]
    /\ value = [t \in Threads |-> 0]
    /\ signalled = [t \in Threads |-> FALSE]
    /\ expired = [t \in Threads |-> FALSE]
    /\ spurious = [t \in Threads |-> FALSE]
    /\ counted = [t \in Threads |-> FALSE]
    /\ count = [t \in Threads |-> 0]
    /\ pc = [t \in Threads |-> "run"]
    /\ answer = [t \in Threads |-> "none"]

\* list_add_tail
Link(t) ==
    /\ list' = list \cup {t}
    /\ ahead' = [ahead EXCEPT ![t] = list]

\* list_del
Unlink(ws) ==
    /\ list' = list \ ws
    /\ ahead' = [t \in Threads |-> IF t \in ws THEN {} ELSE ahead[t] \ ws]

Go(t, from, to) == pc[t] = from /\ pc' = [pc EXCEPT ![t] = to]

\* A call returns, and its locals are gone.
Return(t, from) ==
    /\ Go(t, from, "run")
    /\ ptr' = [ptr EXCEPT ![t] = NoOne]
    /\ value' = [value EXCEPT ![t] = 0]
    /\ count' = [count EXCEPT ![t] = 0]
    /\ UNCHANGED mem

-----------------------------------------------------------------------------
(***************************************************************************)
(* js_atomics_wait.                                                        *)
(***************************************************************************)
Wait(t, c, v) ==
    /\ Go(t, "run", "lock")
    /\ ptr' = [ptr EXCEPT ![t] = c]
    /\ value' = [value EXCEPT ![t] = v]
    /\ counted' = [counted EXCEPT ![t] = FALSE]
    /\ expired' = [expired EXCEPT ![t] = FALSE]
    /\ spurious' = [spurious EXCEPT ![t] = FALSE]
    /\ answer' = [answer EXCEPT ![t] = "none"]
    /\ UNCHANGED <<mem, mutex, list, ahead, linked, signalled, count>>

\* Mutant: the value is compared before the mutex is taken.
CompareUnlocked(t) ==
    /\ pc[t] = "lock"
    /\ IF mem[ptr[t]] = value[t]
       THEN Go(t, "lock", "link") /\ UNCHANGED <<answer, rest>>
       ELSE Return(t, "lock") /\ answer' = [answer EXCEPT ![t] = "not-equal"]
    /\ UNCHANGED <<mutex, list, ahead, linked, signalled, expired, spurious, counted>>

\* The value is compared with the mutex held.
Compare(t) ==
    /\ pc[t] = "lock"
    /\ mutex = NoOne
    /\ IF mem[ptr[t]] = value[t]
       THEN Go(t, "lock", "link") /\ mutex' = t /\ UNCHANGED <<answer, rest>>
       ELSE /\ Return(t, "lock") /\ UNCHANGED mutex
            /\ answer' = [answer EXCEPT ![t] = "not-equal"]
    /\ UNCHANGED <<list, ahead, linked, signalled, expired, spurious, counted>>

\* pthread_cond_wait lets go of the mutex and sleeps.
Sleep(t) ==
    /\ Go(t, "link", "sleep")
    /\ Link(t)
    /\ linked' = [linked EXCEPT ![t] = TRUE]
    /\ signalled' = [signalled EXCEPT ![t] = FALSE]
    /\ mutex' = NoOne
    /\ UNCHANGED <<expired, spurious, counted, answer, rest>>

\* It returns when the condition is signalled, when the time is over, or for
\* no reason, as POSIX permits; there is no loop around it.
Woken(t) ==
    /\ signalled[t]
    /\ Go(t, "sleep", "relock")
    /\ UNCHANGED <<mutex, list, ahead, linked, signalled, expired, spurious, counted, answer, rest>>
Timeout(t) ==
    /\ ~signalled[t]
    /\ Go(t, "sleep", "relock")
    /\ \/ expired' = [expired EXCEPT ![t] = TRUE] /\ UNCHANGED spurious
       \/ spurious' = [spurious EXCEPT ![t] = TRUE] /\ UNCHANGED expired
    /\ UNCHANGED <<mutex, list, ahead, linked, signalled, counted, answer, rest>>

\* Mutant: the waiter stays in the list.
RelockLinked(t) ==
    /\ Return(t, "relock")
    /\ mutex = NoOne
    /\ answer' = [answer EXCEPT ![t] = IF expired[t] THEN "timed-out" ELSE "ok"]
    /\ UNCHANGED <<mutex, list, ahead, linked, signalled, expired, spurious, counted>>

\* Mutant: the reason of the return is not looked at.
RelockOk(t) ==
    /\ Return(t, "relock")
    /\ mutex = NoOne
    /\ Unlink(IF linked[t] THEN {t} ELSE {})
    /\ linked' = [linked EXCEPT ![t] = FALSE]
    /\ answer' = [answer EXCEPT ![t] = "ok"]
    /\ signalled' = [signalled EXCEPT ![t] = FALSE]
    /\ UNCHANGED <<mutex, expired, spurious, counted>>

\* The mutex is taken again; a waiter that nobody unlinked unlinks itself.
Relock(t) ==
    /\ Return(t, "relock")
    /\ mutex = NoOne
    /\ Unlink(IF linked[t] THEN {t} ELSE {})
    /\ linked' = [linked EXCEPT ![t] = FALSE]
    /\ answer' = [answer EXCEPT ![t] = IF expired[t] THEN "timed-out" ELSE "ok"]
    /\ signalled' = [signalled EXCEPT ![t] = FALSE]
    /\ UNCHANGED <<mutex, expired, spurious, counted>>

-----------------------------------------------------------------------------
(***************************************************************************)
(* Atomics.store, then js_atomics_notify.                                  *)
(***************************************************************************)
Store(t, c, v, k) ==
    /\ Go(t, "run", "notify")
    /\ mem' = [mem EXCEPT ![c] = v]
    /\ ptr' = [ptr EXCEPT ![t] = c]
    /\ count' = [count EXCEPT ![t] = k]
    /\ UNCHANGED <<mutex, list, ahead, linked, value, signalled, expired, spurious, counted,
                   answer>>

Here(t) == {w \in list : ptr[w] = ptr[t]}

\* Mutant: the waiters that came last.
ChosenLast(t) == {w \in Here(t) : Cardinality({u \in Here(t) : w \in ahead[u]}) < count[t]}

\* The first waiters on the cell, at most as many as were asked for.
Chosen(t) == {w \in Here(t) : Cardinality(ahead[w] \cap Here(t)) < count[t]}

Notify(t) ==
    LET ws == Chosen(t) IN
    /\ Return(t, "notify")
    /\ mutex = NoOne
    /\ Unlink(ws)
    /\ linked' = [w \in Threads |-> linked[w] /\ w \notin ws]
    /\ signalled' = [w \in Threads |-> signalled[w] \/ w \in ws]
    /\ counted' = [w \in Threads |-> counted[w] \/ w \in ws]
    /\ UNCHANGED <<mutex, expired, spurious, answer>>

Call(t) == \E c \in Cells, v \in {0, 1} :
    Wait(t, c, v) \/ \E k \in Counts : Store(t, c, v, k)
Step(t) == Compare(t) \/ Sleep(t) \/ Woken(t) \/ Relock(t) \/ Notify(t)

Next == \E t \in Threads : Call(t) \/ Step(t) \/ Timeout(t)

Spec == Init /\ [][Next]_vars
\* Nobody promises that a timeout passes or that a call is made.  A mutex that
\* is free again and again is given to everyone who wants it.
FairSpec == Spec /\ \A t \in Threads : SF_vars(Step(t))

-----------------------------------------------------------------------------
(***************************************************************************)
(* Properties.                                                             *)
(***************************************************************************)
TypeOK ==
    /\ mem \in [Cells -> {0, 1}]
    /\ mutex \in Threads \cup {NoOne}
    /\ list \subseteq Threads /\ ahead \in [Threads -> SUBSET Threads]
    /\ ptr \in [Threads -> Cells \cup {NoOne}] /\ value \in [Threads -> {0, 1}]
    /\ count \in [Threads -> Nat]
    /\ {linked, signalled, expired, spurious, counted} \subseteq [Threads -> BOOLEAN]
    /\ pc \in [Threads -> {"run", "lock", "link", "sleep", "relock", "notify"}]
    /\ answer \in [Threads -> {"none", "not-equal", "ok", "timed-out"}]

\* A waiter is a structure on the stack of js_atomics_wait: it is in the list
\* while it is linked, and only while that function has not returned,
\* although a notification and a timeout may come together.
WaitersOnStack ==
    \A t \in Threads :
        /\ linked[t] <=> t \in list
        /\ linked[t] => pc[t] \in {"sleep", "relock"}

\* "ok" is the answer of a waiter that a notify has unlinked and counted,
\* unless the condition variable woke by itself: a waiter that unlinks itself
\* because its time is over says so.
AnswersAgree ==
    \A t \in Threads : answer[t] = "ok" => counted[t] \/ spurious[t]

\* The notified waiter is one that waited longest on its cell.
Fair ==
    [][\A t, u \in Threads :
        (linked[t] /\ ~counted[t] /\ counted'[t] /\ linked[u] /\ ptr[u] = ptr[t] /\ ~counted'[u])
            => t \in ahead[u]]_vars

\* What a wait and a notify promise each other.
WaitersAnswerNotify == [](TypeOK /\ WaitersOnStack /\ AnswersAgree) /\ Fair

SleepsOnGone(t) == pc[t] = "sleep" /\ mem[ptr[t]] # value[t]

\* Every notify is for all.
NotifiesAll == \A k \in Counts : Cardinality(Threads) <= k

\* Then nobody sleeps on a value that is gone, except between the store and
\* its notify: the comparison and the entry in the list are one step for
\* whoever notifies.
NeverSleepsLate ==
    \A t \in Threads :
        (SleepsOnGone(t) /\ ~signalled[t])
            => \E u \in Threads : pc[u] = "notify" /\ ptr[u] = ptr[t]

\* And so a thread that sleeps on a value that is gone wakes.
NoLostWakeup ==
    \A t \in Threads : SleepsOnGone(t) ~> pc[t] # "sleep"

-----------------------------------------------------------------------------
(***************************************************************************)
(* What makes them inductive.                                              *)
(***************************************************************************)

\* "Ahead" is a total order of the list.
OrderInv ==
    /\ \A t \in Threads : ahead[t] \subseteq list \ {t}
    /\ \A t \in Threads \ list : ahead[t] = {}
    /\ \A t \in list : \A u \in ahead[t] : ahead[u] \subseteq ahead[t]
    /\ \A t, u \in list : t = u \/ t \in ahead[u] \/ u \in ahead[t]

\* A thread that waits or notifies has a cell; one that has compared and is
\* not yet in the list has the mutex.
PlaceInv ==
    \A t \in Threads :
        /\ pc[t] # "run" => ptr[t] \in Cells
        /\ pc[t] = "link" => mutex = t
        /\ pc[t] = "notify" => count[t] \in Counts

\* Only waiters that were counted are signalled, and a waiter sleeps until it
\* is off the list, or it has another reason to go.
CauseInv ==
    \A t \in Threads :
        /\ signalled[t] => counted[t] /\ pc[t] \in {"sleep", "relock"}
        /\ pc[t] = "sleep" => linked[t] \/ signalled[t]
        /\ pc[t] = "relock" => expired[t] \/ spurious[t] \/ signalled[t]

\* A value that goes between the comparison and the entry in the list has its
\* notify still to come.
LateInv ==
    \A t \in Threads :
        (pc[t] \in {"link", "sleep"} /\ mem[ptr[t]] # value[t] /\ ~signalled[t])
            => \E u \in Threads : pc[u] = "notify" /\ ptr[u] = ptr[t]

AtomicsInv == TypeOK /\ WaitersOnStack /\ OrderInv /\ PlaceInv /\ CauseInv /\ AnswersAgree
==============================================================================
