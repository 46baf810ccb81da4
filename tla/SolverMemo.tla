----------------------------- MODULE SolverMemo -----------------------------
(***************************************************************************)
(* What SolverSharedCache promises its users: for each SolverAssets a      *)
(* table of what its player answers.  An entry is only ever written with   *)
(* an answer of that player, one entry at a time, and nothing is taken     *)
(* back: a value may be replaced by another answer, never by nothing.      *)
(***************************************************************************)
EXTENDS Naturals

CONSTANTS
    Assets, Keys, Absent,
    Answers,    \* Answers[a][k]: the data the player of a may give for k
    ErrorTexts  \* the failures it may report

VARIABLES values, errors

memoVars == <<values, errors>>

MemoInit ==
    /\ values = [a \in Assets |-> [k \in Keys |-> Absent]]
    /\ errors = [a \in Assets |-> [k \in Keys |-> Absent]]

Learn(a, k, d) ==
    /\ values' = [values EXCEPT ![a][k] = d]
    /\ UNCHANGED errors

Fail(a, k, e) ==
    /\ errors' = [errors EXCEPT ![a][k] = e]
    /\ UNCHANGED values

MemoNext ==
    \E a \in Assets, k \in Keys :
        \/ \E d \in Answers[a][k] : Learn(a, k, d)
        \/ \E e \in ErrorTexts : Fail(a, k, e)

MemoSpec == MemoInit /\ [][MemoNext]_memoVars
=============================================================================
