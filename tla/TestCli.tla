------------------------------ MODULE TestCli ------------------------------
(***************************************************************************)
(* test.py, the command line around the two methods of the boundary: the   *)
(* arguments, the order of their checks and the exit codes.                *)
(*                                                                         *)
(* An argument is a model value; Strip[x] is x without white space at its  *)
(* ends, and Lower[x] its lower case.                                      *)
(***************************************************************************)
EXTENDS Naturals, Sequences

CONSTANTS
    Words, Strip, Lower,
    Blank, Sig, N, Dash, Local, Watch,  \* words that mean something
    MaxArgs                             \* bound: arguments after the target

WordsAssumption ==
    /\ {Blank, Sig, N, Dash, Local, Watch} \subseteq Words
    /\ Strip \in [Words -> Words] /\ Lower \in [Words -> Words] /\ MaxArgs \in Nat

VARIABLES
    argv,      \* sys.argv[1:], the mode first
    requests,  \* what parse_requests returned
    asked,     \* what was sent to the boundary: <<>> or << <<mode, requests>> >>
    exit       \* exit code, or Running

vars == <<argv, requests, asked, exit>>

Types == {Sig, N}
Running == 5

Init ==
    /\ argv \in {<<m, t>> \o args : m \in Words, t \in {Blank},
                    args \in UNION {[1..k -> Words] : k \in 0..MaxArgs}}
    /\ requests = <<>> /\ asked = <<>> /\ exit = Running

Args == SubSeq(argv, 3, Len(argv))
Mode == Lower[Strip[argv[1]]]

\* Mutant: the pairs overlap.
PairOverlapping(args, i) == [type |-> Strip[args[i]], challenge |-> Strip[args[i + 1]]]

\* The pair number i of parse_requests.
Pair(args, i) == [type |-> Strip[args[2 * i - 1]], challenge |-> Strip[args[2 * i]]]

Valid(args) ==
    /\ args # <<>> /\ Len(args) % 2 = 0
    /\ \A i \in 1..(Len(args) \div 2) :
          Pair(args, i).type \in Types /\ Pair(args, i).challenge # Blank

\* Fewer arguments than main wants.
Usage ==
    /\ exit = Running /\ Len(argv) < 4
    /\ exit' = 1 /\ UNCHANGED <<argv, requests, asked>>

\* parse_requests raises ValueError.
Refuse ==
    /\ exit = Running /\ requests = <<>> /\ Len(argv) >= 4 /\ ~Valid(Args)
    /\ exit' = 2 /\ UNCHANGED <<argv, requests, asked>>

ParseRequests ==
    /\ exit = Running /\ requests = <<>> /\ Len(argv) >= 4 /\ Valid(Args)
    /\ requests' = [i \in 1..(Len(Args) \div 2) |-> Pair(Args, i)]
    /\ UNCHANGED <<argv, asked, exit>>

UnsupportedMode ==
    /\ exit = Running /\ requests # <<>> /\ Mode \notin {Local, Watch}
    /\ exit' = 3 /\ UNCHANGED <<argv, requests, asked>>

\* solve_requests or solve_requests_from_watch returns, or raises.
Solve ==
    /\ exit = Running /\ requests # <<>> /\ Mode \in {Local, Watch}
    /\ asked' = << <<Mode, requests>> >>
    /\ exit' \in {0, 4}
    /\ UNCHANGED <<argv, requests>>

Next == Usage \/ Refuse \/ ParseRequests \/ UnsupportedMode \/ Solve

Spec == Init /\ [][Next]_vars

-----------------------------------------------------------------------------
(***************************************************************************)
(* Properties.                                                             *)
(***************************************************************************)
\* What is sent is what was typed, in pairs and in order, and nothing is sent
\* if one of the pairs is not accepted or the script ends with another code
\* than 0 or 4.
SendsWhatWasTyped ==
    asked # <<>> =>
        /\ exit \in {0, 4}
        /\ 2 * Len(requests) = Len(Args)
        /\ \A k \in DOMAIN Args :
              Strip[Args[k]] = IF k % 2 = 1 THEN requests[(k + 1) \div 2].type
                               ELSE requests[k \div 2].challenge
=============================================================================
