----------------------------- MODULE OrderedMap -----------------------------
(***************************************************************************)
(* What a Map or a Set promises to a program that changes it while it is   *)
(* being iterated: an iterator meets every entry that is there when its    *)
(* turn comes, once, in the order of insertion.  A key that is deleted and *)
(* set again is a new entry at the end.                                    *)
(*                                                                         *)
(* Nothing is ever taken out of the log of entries; an entry that is       *)
(* deleted is only marked, and an iterator is a position in the log.       *)
(***************************************************************************)
EXTENDS Integers, Sequences

CONSTANTS Keys, Iters, Nothing, Done

VARIABLES
    log,  \* entries: key, and whether it is still there
    pos,  \* pos[i]: the entry i has come to, 0 before the first, -1 for no iterator
    out   \* what the last step gave to the program

vars == <<log, pos, out>>

Init == log = <<>> /\ pos = [i \in Iters |-> -1] /\ out = Nothing

Live(k) == \E n \in DOMAIN log : log[n].key = k /\ log[n].live

Set(k) ==
    /\ log' = IF Live(k) THEN log ELSE Append(log, [key |-> k, live |-> TRUE])
    /\ out' = Nothing
    /\ UNCHANGED pos

\* Also the iterators that were values of deleted entries are gone.
Delete(ks) ==
    /\ log' = [n \in DOMAIN log |-> [log[n] EXCEPT !.live = @ /\ log[n].key \notin ks]]
    /\ out' = Nothing
    /\ \E gone \in SUBSET Iters : pos' = [i \in Iters |-> IF i \in gone THEN -1 ELSE pos[i]]

Begin(i) ==
    /\ pos[i] = -1
    /\ pos' = [pos EXCEPT ![i] = 0]
    /\ out' = Nothing
    /\ UNCHANGED log

\* The first entry after the position that is still there.  The iteration
\* says that it is done only when there is none.
Next1(i) ==
    LET later == {n \in DOMAIN log : n > pos[i] /\ log[n].live}
        first == CHOOSE n \in later : \A m \in later : n <= m
    IN
    /\ pos[i] # -1
    /\ pos' = [pos EXCEPT ![i] = IF later = {} THEN -1 ELSE first]
    /\ out' = IF later = {} THEN Done ELSE log[first].key
    /\ UNCHANGED log

End(is) ==
    /\ pos' = [i \in Iters |-> IF i \in is THEN -1 ELSE pos[i]]
    /\ out' = Nothing
    /\ UNCHANGED log

Next ==
    \/ \E k \in Keys : Set(k)
    \/ \E ks \in SUBSET Keys : Delete(ks)
    \/ \E i \in Iters : Begin(i) \/ Next1(i)
    \/ \E is \in SUBSET Iters : End(is)

Spec == Init /\ [][Next]_vars
=============================================================================
