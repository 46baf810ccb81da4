---------------------------- MODULE JSJobsProofs ----------------------------
(***************************************************************************)
(* Proofs about JSPromise, for any number of promises, of resolving        *)
(* functions, of combinators and of their items, and any values; and about *)
(* JSEventLoop, for any number of timers, descriptors and signals, and any *)
(* delays.                                                                 *)
(***************************************************************************)
EXTENDS JSPromise, JSEventLoop, SequenceTheorems, FiniteSetTheorems, WellFoundedInduction, TLAPS

(***************************************************************************)
(* The inductive invariant.  Its parts speak of a state s of the promises, *)
(* which need not be st: calls are made of calls.                          *)
(***************************************************************************)
AllValues == {"val", "prom", "thenable", "broken", "array", "aggregate", "error"} \X Int
AllFunctions ==
    [fn : {"undefined", "user", "settle", "element", "finally", "thunk"}, k : Nat, n : Nat,
     side : Sides, v : AllValues]
Entries ==
    [job : {"main", "reaction", "thenable", "finrec"}, promise : Nat, cap : Nat,
     handler : AllFunctions, n : Nat, side : Sides, v : AllValues]
Listeds == [cap : Nat, handler : AllFunctions, n : Nat]
Promises ==
    [state : {"pending", "fulfilled", "rejected"}, result : AllValues,
     reactions : [Sides -> Seq(Listeds)], handled : BOOLEAN]
Pairs == [promise : Nat, done : BOOLEAN]
Combinators ==
    [kind : {"all", "allSettled", "any", "race"}, k : Nat, rem : Int,
     called : SUBSET (Nat \X Sides), values : Seq([side : {-1, 0, 1}, v : AllValues]),
     items : Seq([p : Nat, native : BOOLEAN]), open : BOOLEAN]
Calls == [p : Nat, fns : [Sides -> AllFunctions], cap : Nat]
States ==
    [prom : Seq(Promises), pair : Seq(Pairs), comb : Seq(Combinators), jobs : Seq(Entries),
     unhandled : SUBSET Nat, held : SUBSET AllFunctions, thens : Seq(Calls), ran : SUBSET Nat,
     finals : SUBSET (Nat \X Nat), twice : BOOLEAN]

\* A promise that a value names exists, and the array of a combinator is the
\* result of its promise before it is anything else.
ValueOK(s, v) ==
    /\ v[1] = "prom" => v[2] \in DOMAIN s.prom
    /\ v[1] \in {"array", "aggregate"} =>
          /\ v[2] \in DOMAIN s.comb
          /\ LET p == s.pair[s.comb[v[2]].k].promise IN ~Pending(s, p) /\ s.prom[p].result = v
FunctionOK(s, h) ==
    /\ h.fn = "settle" => h.k \in DOMAIN s.pair
    /\ h.fn = "element" => /\ h.k \in DOMAIN s.comb /\ h.n \in DOMAIN s.comb[h.k].items
                           /\ s.comb[h.k].kind # "race"
    /\ h.fn = "thunk" => ValueOK(s, h.v)

\* A job, or the frame, is about something: a reaction passes on the outcome
\* of the promise it was registered with.
JobOK(s, j) ==
    /\ j.job = "reaction" =>
          /\ j.n \in DOMAIN s.thens
          /\ j.cap = s.thens[j.n].cap /\ j.handler = s.thens[j.n].fns[j.side]
          /\ s.prom[s.thens[j.n].p].state = Outcome(j.side)
          /\ s.prom[s.thens[j.n].p].result = j.v
    /\ j.job = "thenable" =>
          j.promise \in DOMAIN s.prom /\ ValueOK(s, j.v) /\ j.v[1] \in {"prom", "thenable"}

CombOK(s, c) ==
    /\ s.comb[c].k \in DOMAIN s.pair
    /\ DOMAIN s.comb[c].values = DOMAIN s.comb[c].items
    /\ s.comb[c].called \subseteq (DOMAIN s.comb[c].items) \X Sides
    /\ s.comb[c].kind = "race" => s.comb[c].called = {}
    /\ \A n \in DOMAIN s.comb[c].items : s.comb[c].items[n].p \in DOMAIN s.prom
ThenOK(s, n) ==
    /\ s.thens[n].p \in DOMAIN s.prom /\ s.thens[n].cap \in {0} \cup DOMAIN s.pair
    /\ \A x \in Sides : FunctionOK(s, s.thens[n].fns[x])
HeldOK(s, h) == h.fn \in {"settle", "element"} /\ FunctionOK(s, h)
QueuedOK(s, j) == j.job # "main" /\ JobOK(s, j)
ListedOK(s, p, x, r) ==
    /\ r.n \in DOMAIN s.thens
    /\ s.thens[r.n].p = p /\ s.thens[r.n].cap = r.cap /\ s.thens[r.n].fns[x] = r.handler
PromiseOK(s, p) ==
    /\ ValueOK(s, s.prom[p].result)
    /\ s.prom[p].state = "fulfilled" => s.prom[p].result[1] \notin {"prom", "thenable", "broken"}
    /\ \A x \in Sides : \A i \in DOMAIN s.prom[p].reactions[x] :
          ListedOK(s, p, x, s.prom[p].reactions[x][i])
RefInv(s) ==
    /\ s \in States
    /\ \A k \in DOMAIN s.pair : s.pair[k].promise \in DOMAIN s.prom
    /\ \A c \in DOMAIN s.comb : CombOK(s, c)
    /\ \A n \in DOMAIN s.thens : ThenOK(s, n)
    /\ \A h \in s.held : HeldOK(s, h)
    /\ \A i \in DOMAIN s.jobs : QueuedOK(s, s.jobs[i])
    /\ \A p \in DOMAIN s.prom : PromiseOK(s, p)

\* Who may settle a promise: one pair that is not used up, or one job that
\* makes it follow a thenable, and nobody once it is settled.
Unused(s, k) == k \in DOMAIN s.pair /\ ~s.pair[k].done
Waits(s, i) == i \in DOMAIN s.jobs /\ s.jobs[i].job = "thenable"
SettleInv(s) ==
    /\ ~s.twice
    /\ \A k, l \in DOMAIN s.pair :
          Unused(s, k) /\ Unused(s, l) /\ s.pair[k].promise = s.pair[l].promise => k = l
    /\ \A i, j \in DOMAIN s.jobs :
          Waits(s, i) /\ Waits(s, j) /\ s.jobs[i].promise = s.jobs[j].promise => i = j
    /\ \A k \in DOMAIN s.pair, i \in DOMAIN s.jobs :
          Unused(s, k) /\ Waits(s, i) => s.pair[k].promise # s.jobs[i].promise
    /\ \A k \in DOMAIN s.pair : Unused(s, k) => Pending(s, s.pair[k].promise)
    /\ \A i \in DOMAIN s.jobs : Waits(s, i) => Pending(s, s.jobs[i].promise)

\* Where the two reactions of a then are: in the lists of a promise that is
\* pending, in the queue, or nowhere any more; in the order of the calls.
IsReaction(s, i, n) == s.jobs[i].job = "reaction" /\ s.jobs[i].n = n
ListInv(s) ==
    \A p \in DOMAIN s.prom, x \in Sides :
        /\ ~Pending(s, p) => s.prom[p].reactions[x] = <<>>
        /\ \A i, j \in DOMAIN s.prom[p].reactions[x] :
              i < j => s.prom[p].reactions[x][i].n < s.prom[p].reactions[x][j].n
Placed(s, n) ==
    IF Pending(s, s.thens[n].p)
    THEN /\ n \notin s.ran
         /\ \A x \in Sides : \E i \in DOMAIN s.prom[s.thens[n].p].reactions[x] :
               s.prom[s.thens[n].p].reactions[x][i].n = n
    ELSE n \notin s.ran => \E i \in DOMAIN s.jobs : IsReaction(s, i, n)
QueueInv(s) ==
    /\ \A i \in DOMAIN s.jobs : s.jobs[i].job = "reaction" => s.jobs[i].n \notin s.ran
    /\ \A i, j \in DOMAIN s.jobs :
          /\ s.jobs[i].job = "reaction" /\ s.jobs[j].job = "reaction" /\ i < j
          /\ s.thens[s.jobs[i].n].p = s.thens[s.jobs[j].n].p
          => s.jobs[i].n < s.jobs[j].n
RanInv(s) ==
    /\ s.ran \subseteq DOMAIN s.thens
    /\ \A n \in s.ran, m \in DOMAIN s.thens : m < n /\ s.thens[m].p = s.thens[n].p => m \in s.ran
ReactInv(s) ==
    ListInv(s) /\ (\A n \in DOMAIN s.thens : Placed(s, n)) /\ QueueInv(s) /\ RanInv(s)

\* The tracker knows the rejected promises without then.
TrackInv(s) ==
    s.unhandled = {p \in DOMAIN s.prom : s.prom[p].state = "rejected" /\ ~s.prom[p].handled}

\* Who has a pair that is not used up: a script, a then whose reaction has
\* not run to its end (it is in no list: ran, and not in Z), a combinator.
\* The pairs in X and the items in Y are about to be
\* given away, and so is the result of c if <<c, 0>> is in Y.
Live(s, n, Z) == n \in DOMAIN s.thens /\ (n \notin s.ran \/ n \in Z)
HasPair(s, k, Z) ==
    \/ \E h \in s.held : h.fn = "settle" /\ h.k = k
    \/ \E n \in DOMAIN s.thens : Live(s, n, Z) /\ s.thens[n].cap = k
    \/ \E n \in DOMAIN s.thens : Live(s, n, Z) /\ s.thens[n].fns = Both(Settle(k, 0), Settle(k, 1))
    \/ \E c \in DOMAIN s.comb : s.comb[c].k = k
HasItem(s, c, n, Z) ==
    \/ \E x \in Sides : ItemFns(s, c, n)[x] \in s.held
    \/ \E m \in DOMAIN s.thens : Live(s, m, Z) /\ s.thens[m].fns = ItemFns(s, c, n)
    \/ \E x \in Sides : <<n, x>> \in s.comb[c].called
Counts(s, c) ==
    LET C == s.comb[c] IN
    C.kind # "race" => /\ C.rem >= 1
                       /\ C.rem = Len(C.items) - Cardinality(C.called) + (IF C.open THEN 1 ELSE 0)
WayInv(s) ==
    \A p \in DOMAIN s.prom : Pending(s, p) =>
        \/ \E k \in DOMAIN s.pair : Unused(s, k) /\ s.pair[k].promise = p
        \/ \E i \in DOMAIN s.jobs : Waits(s, i) /\ s.jobs[i].promise = p
PairInv(s, X, Z) == \A k \in DOMAIN s.pair : Unused(s, k) => k \in X \/ HasPair(s, k, Z)
CombInv(s, Y, Z) ==
    \A c \in DOMAIN s.comb : Unused(s, s.comb[c].k) =>
        /\ <<c, 0>> \in Y \/ Counts(s, c)
        /\ \A n \in DOMAIN s.comb[c].items : <<c, n>> \in Y \/ HasItem(s, c, n, Z)
KeepInv(s, X, Y, Z) == WayInv(s) /\ PairInv(s, X, Z) /\ CombInv(s, Y, Z)

Running(f) == IF f.job = "reaction" THEN {f.n} ELSE {}
FrameInv(s, f) ==
    /\ f \in Entries
    /\ f.job = "thenable" => f.cap \in DOMAIN s.pair
    /\ f.job = "reaction" => JobOK(s, f) /\ f.handler.fn \in {"user", "finally"} /\ f.n \in s.ran

\* What settling once and reacting once rest on.
PromiseInv ==
    /\ RefInv(st) /\ SettleInv(st) /\ ReactInv(st) /\ TrackInv(st)
    /\ KeepInv(st, {}, {}, Running(frame))
    /\ FrameInv(st, frame)
    /\ pc \in {"script", "jobs", "check", "end", "exit"} /\ (pc # "script" => frame = Main)

-----------------------------------------------------------------------------
(***************************************************************************)
(* Lists.                                                                  *)
(***************************************************************************)
\* b is a with e at its end.
Added(a, b, e) ==
    /\ Len(a) \in Nat /\ Len(b) = Len(a) + 1
    /\ DOMAIN a = 1..Len(a) /\ DOMAIN b = 1..(Len(a) + 1)
    /\ \A i \in DOMAIN a : i \in DOMAIN b /\ i # Len(a) + 1 /\ b[i] = a[i]
    /\ \A i \in DOMAIN b : i \in DOMAIN a \/ i = Len(a) + 1
    /\ Len(a) + 1 \in DOMAIN b /\ b[Len(a) + 1] = e

LEMMA AppendIs ==
    ASSUME NEW S, NEW a \in Seq(S), NEW e \in S
    PROVE  Append(a, e) \in Seq(S) /\ Added(a, Append(a, e), e)
BY AppendProperties, LenProperties DEF Added

\* b is a with e in the place of i.
Changed(a, b, i, e) ==
    /\ Len(b) = Len(a) /\ DOMAIN b = DOMAIN a
    /\ b[i] = e
    /\ \A j \in DOMAIN a : j # i => b[j] = a[j]

LEMMA ExceptIs ==
    ASSUME NEW S, NEW a \in Seq(S), NEW i \in DOMAIN a, NEW e \in S
    PROVE  [a EXCEPT ![i] = e] \in Seq(S) /\ Changed(a, [a EXCEPT ![i] = e], i, e)
BY ExceptSeq, LenProperties DEF Changed

\* b is a without its first element.
Shifted(a, b) ==
    /\ Len(a) \in Nat /\ Len(a) > 0 /\ DOMAIN a = 1..Len(a) /\ DOMAIN b = 1..(Len(a) - 1)
    /\ 1 \in DOMAIN a
    /\ \A i \in DOMAIN b : i + 1 \in DOMAIN a /\ b[i] = a[i + 1]
    /\ \A i \in DOMAIN a : i = 1 \/ (i - 1 \in DOMAIN b /\ b[i - 1] = a[i])

LEMMA TailIs ==
    ASSUME NEW S, NEW a \in Seq(S), a # <<>>
    PROVE  Tail(a) \in Seq(S) /\ Shifted(a, Tail(a)) /\ Head(a) = a[1] /\ Head(a) \in S
<1>1. Len(a) \in Nat /\ Len(a) > 0 /\ DOMAIN a = 1..Len(a)
  BY EmptySeq, LenProperties
<1>2. Tail(a) \in Seq(S) /\ Len(Tail(a)) = Len(a) - 1 /\ Head(a) \in S
  BY HeadTailProperties
<1>3. DOMAIN Tail(a) = 1..(Len(a) - 1)
  BY <1>2, LenProperties
<1>4. \A i \in DOMAIN Tail(a) : i + 1 \in DOMAIN a /\ Tail(a)[i] = a[i + 1]
  BY <1>1, <1>2, <1>3, HeadTailProperties
<1>5. \A i \in DOMAIN a : i = 1 \/ (i - 1 \in DOMAIN Tail(a) /\ Tail(a)[i - 1] = a[i])
  BY <1>1, <1>3, <1>4
<1>6. Head(a) = a[1]
  OBVIOUS
<1> QED BY <1>1, <1>2, <1>3, <1>4, <1>5, <1>6 DEF Shifted

\* b is a with the list e behind it.
Joined(a, b, e) ==
    /\ Len(a) \in Nat /\ DOMAIN a = 1..Len(a) /\ DOMAIN e = 1..Len(e)
    /\ \A i \in DOMAIN a : i \in DOMAIN b /\ b[i] = a[i]
    /\ \A i \in DOMAIN e : Len(a) + i \in DOMAIN b /\ b[Len(a) + i] = e[i]
    /\ \A i \in DOMAIN b : i \in DOMAIN a \/ (i > Len(a) /\ i - Len(a) \in DOMAIN e /\ b[i] = e[i - Len(a)])

LEMMA ConcatIs ==
    ASSUME NEW S, NEW a \in Seq(S), NEW e \in Seq(S)
    PROVE  a \o e \in Seq(S) /\ Joined(a, a \o e, e)
<1>1. Len(a) \in Nat /\ DOMAIN a = 1..Len(a) /\ DOMAIN e = 1..Len(e) /\ Len(e) \in Nat
  BY LenProperties
<1>2. a \o e \in Seq(S) /\ Len(a \o e) = Len(a) + Len(e)
      /\ \A i \in 1..(Len(a) + Len(e)) : (a \o e)[i] = IF i <= Len(a) THEN a[i] ELSE e[i - Len(a)]
  BY ConcatProperties
<1>3. DOMAIN (a \o e) = 1..(Len(a) + Len(e))
  BY <1>2, LenProperties
<1>4. \A i \in DOMAIN a : i \in DOMAIN (a \o e) /\ (a \o e)[i] = a[i]
  BY <1>1, <1>2, <1>3
<1>5. \A i \in DOMAIN e : Len(a) + i \in DOMAIN (a \o e) /\ (a \o e)[Len(a) + i] = e[i]
  BY <1>1, <1>2, <1>3
<1>6. \A i \in DOMAIN (a \o e) :
         i \in DOMAIN a \/ (i > Len(a) /\ i - Len(a) \in DOMAIN e /\ (a \o e)[i] = e[i - Len(a)])
  BY <1>1, <1>2, <1>3
<1> QED BY <1>1, <1>2, <1>4, <1>5, <1>6 DEF Joined

\* A function on 1..n is a list.
LEMMA FunctionIsList ==
    ASSUME NEW S, NEW n \in Nat, NEW f, f \in [1..n -> S]
    PROVE  f \in Seq(S) /\ Len(f) = n
<1>1. f \in Seq(S)
  BY SeqDef
<1> QED BY <1>1, LenProperties

-----------------------------------------------------------------------------
(***************************************************************************)
(* What the operations do to a state, part by part.                        *)
(***************************************************************************)
Fresh == [state |-> "pending", result |-> Undefined, reactions |-> Both(<<>>, <<>>), handled |-> FALSE]
UsedPair(s, k) == [s.pair[k] EXCEPT !.done = TRUE]

\* A promise and its pair are made.
CapEffect(s, t) ==
    /\ t \in States
    /\ Added(s.prom, t.prom, Fresh)
    /\ Added(s.pair, t.pair, [promise |-> Len(s.prom) + 1, done |-> FALSE])
    /\ t.comb = s.comb /\ t.jobs = s.jobs /\ t.unhandled = s.unhandled /\ t.held = s.held
    /\ t.thens = s.thens /\ t.ran = s.ran /\ t.finals = s.finals /\ t.twice = s.twice

\* Pair k is used: its promise is going to follow v,
FollowEffect(s, t, k, v) ==
    /\ t \in States
    /\ Changed(s.pair, t.pair, k, UsedPair(s, k))
    /\ Added(s.jobs, t.jobs, Follow(s.pair[k].promise, v))
    /\ t.prom = s.prom /\ t.comb = s.comb /\ t.unhandled = s.unhandled /\ t.held = s.held
    /\ t.thens = s.thens /\ t.ran = s.ran /\ t.finals = s.finals /\ t.twice = s.twice

\* or is settled.
SettleEffect(s, t, k, side, v) ==
    LET p == s.pair[k].promise
        rs == s.prom[p].reactions[side]
    IN
    /\ t \in States
    /\ Changed(s.pair, t.pair, k, UsedPair(s, k))
    /\ Changed(s.prom, t.prom, p, [state |-> Outcome(side), result |-> v,
                                   reactions |-> Both(<<>>, <<>>), handled |-> s.prom[p].handled])
    /\ Joined(s.jobs, t.jobs, [n \in DOMAIN rs |-> Job(rs[n], side, v)])
    /\ t.unhandled = IF side = 1 /\ ~s.prom[p].handled THEN s.unhandled \cup {p} ELSE s.unhandled
    /\ t.comb = s.comb /\ t.held = s.held
    /\ t.thens = s.thens /\ t.ran = s.ran /\ t.finals = s.finals /\ t.twice = s.twice

\* then is called: its reactions are listed, or one is queued.
Listed1(s, fns, cap, x) == [cap |-> cap, handler |-> fns[x], n |-> Len(s.thens) + 1]
ThenEffect(s, t, p, fns, cap) ==
    LET q == s.prom[p]
        side == IF q.state = "rejected" THEN 1 ELSE 0
    IN
    /\ t \in States
    /\ Added(s.thens, t.thens, [p |-> p, fns |-> fns, cap |-> cap])
    /\ Changed(s.prom, t.prom, p, t.prom[p])
    /\ t.prom[p].state = q.state /\ t.prom[p].result = q.result /\ t.prom[p].handled = TRUE
    /\ IF Pending(s, p)
       THEN \A x \in Sides : Added(q.reactions[x], t.prom[p].reactions[x], Listed1(s, fns, cap, x))
       ELSE t.prom[p].reactions = q.reactions
    /\ IF Pending(s, p) THEN t.jobs = s.jobs
       ELSE Added(s.jobs, t.jobs, Job(Listed1(s, fns, cap, side), side, q.result))
    /\ t.unhandled = IF q.state = "rejected" /\ ~q.handled THEN s.unhandled \ {p} ELSE s.unhandled
    /\ t.pair = s.pair /\ t.comb = s.comb /\ t.held = s.held
    /\ t.ran = s.ran /\ t.finals = s.finals /\ t.twice = s.twice

\* Nothing that promises, pairs, jobs and thens keep changes.
QuietEffect(s, t) ==
    /\ t \in States
    /\ t.prom = s.prom /\ t.pair = s.pair /\ t.jobs = s.jobs /\ t.unhandled = s.unhandled
    /\ t.thens = s.thens /\ t.ran = s.ran /\ t.twice = s.twice

\* The first job is taken,
PopEffect(s, t, j) ==
    /\ t \in States
    /\ s.jobs # <<>> /\ j = s.jobs[1] /\ Shifted(s.jobs, t.jobs)
    /\ t.ran = IF j.job = "reaction" THEN s.ran \cup {j.n} ELSE s.ran
    /\ t.prom = s.prom /\ t.pair = s.pair /\ t.comb = s.comb /\ t.unhandled = s.unhandled
    /\ t.held = s.held /\ t.thens = s.thens /\ t.finals = s.finals /\ t.twice = s.twice

\* and its promise has a new pair, if it is to follow a thenable.
PopPairEffect(s, t, j) ==
    /\ t \in States
    /\ s.jobs # <<>> /\ j = s.jobs[1] /\ j.job = "thenable" /\ Shifted(s.jobs, t.jobs)
    /\ Added(s.pair, t.pair, [promise |-> j.promise, done |-> FALSE])
    /\ t.prom = s.prom /\ t.comb = s.comb /\ t.unhandled = s.unhandled
    /\ t.held = s.held /\ t.thens = s.thens /\ t.ran = s.ran /\ t.finals = s.finals /\ t.twice = s.twice

\* The parts of a state have their types.
LEMMA StateParts ==
    ASSUME NEW s \in States
    PROVE  /\ s.prom \in Seq(Promises) /\ s.pair \in Seq(Pairs) /\ s.comb \in Seq(Combinators)
           /\ s.jobs \in Seq(Entries) /\ s.unhandled \in SUBSET Nat /\ s.held \in SUBSET AllFunctions
           /\ s.thens \in Seq(Calls) /\ s.ran \in SUBSET Nat /\ s.finals \in SUBSET (Nat \X Nat)
           /\ s.twice \in BOOLEAN
BY DEF States

LEMMA Elements ==
    ASSUME NEW s \in States
    PROVE  /\ \A p \in DOMAIN s.prom : s.prom[p] \in Promises /\ p \in Nat
           /\ \A k \in DOMAIN s.pair : s.pair[k] \in Pairs /\ k \in Nat
           /\ \A c \in DOMAIN s.comb : s.comb[c] \in Combinators /\ c \in Nat
           /\ \A i \in DOMAIN s.jobs : s.jobs[i] \in Entries /\ i \in Nat
           /\ \A n \in DOMAIN s.thens : s.thens[n] \in Calls /\ n \in Nat
           /\ DOMAIN s.prom = 1..Len(s.prom) /\ Len(s.prom) \in Nat
           /\ DOMAIN s.pair = 1..Len(s.pair) /\ Len(s.pair) \in Nat
           /\ DOMAIN s.comb = 1..Len(s.comb) /\ Len(s.comb) \in Nat
           /\ DOMAIN s.jobs = 1..Len(s.jobs) /\ Len(s.jobs) \in Nat
           /\ DOMAIN s.thens = 1..Len(s.thens) /\ Len(s.thens) \in Nat
BY StateParts, LenProperties, ElementOfSeq

Parts == {"prom", "pair", "comb", "jobs", "unhandled", "held", "thens", "ran", "finals", "twice"}

\* One part of a state is changed.
WithProm(s, x) == [s EXCEPT !.prom = x]
WithPair(s, x) == [s EXCEPT !.pair = x]
WithComb(s, x) == [s EXCEPT !.comb = x]
WithJobs(s, x) == [s EXCEPT !.jobs = x]
WithUnhandled(s, x) == [s EXCEPT !.unhandled = x]
WithHeld(s, x) == [s EXCEPT !.held = x]
WithThens(s, x) == [s EXCEPT !.thens = x]
WithRan(s, x) == [s EXCEPT !.ran = x]
WithFinals(s, x) == [s EXCEPT !.finals = x]

LEMMA SetProm ==
    ASSUME NEW s \in States, NEW x \in Seq(Promises)
    PROVE  /\ WithProm(s, x) \in States /\ WithProm(s, x).prom = x
           /\ \A f \in Parts : f # "prom" => WithProm(s, x)[f] = s[f]
BY DEF States, Parts, WithProm

LEMMA SetPair ==
    ASSUME NEW s \in States, NEW x \in Seq(Pairs)
    PROVE  /\ WithPair(s, x) \in States /\ WithPair(s, x).pair = x
           /\ \A f \in Parts : f # "pair" => WithPair(s, x)[f] = s[f]
BY DEF States, Parts, WithPair

LEMMA SetComb ==
    ASSUME NEW s \in States, NEW x \in Seq(Combinators)
    PROVE  /\ WithComb(s, x) \in States /\ WithComb(s, x).comb = x
           /\ \A f \in Parts : f # "comb" => WithComb(s, x)[f] = s[f]
BY DEF States, Parts, WithComb

LEMMA SetJobs ==
    ASSUME NEW s \in States, NEW x \in Seq(Entries)
    PROVE  /\ WithJobs(s, x) \in States /\ WithJobs(s, x).jobs = x
           /\ \A f \in Parts : f # "jobs" => WithJobs(s, x)[f] = s[f]
BY DEF States, Parts, WithJobs

LEMMA SetUnhandled ==
    ASSUME NEW s \in States, NEW x \in SUBSET Nat
    PROVE  /\ WithUnhandled(s, x) \in States /\ WithUnhandled(s, x).unhandled = x
           /\ \A f \in Parts : f # "unhandled" => WithUnhandled(s, x)[f] = s[f]
BY DEF States, Parts, WithUnhandled

LEMMA SetHeld ==
    ASSUME NEW s \in States, NEW x \in SUBSET AllFunctions
    PROVE  /\ WithHeld(s, x) \in States /\ WithHeld(s, x).held = x
           /\ \A f \in Parts : f # "held" => WithHeld(s, x)[f] = s[f]
BY DEF States, Parts, WithHeld

LEMMA SetThens ==
    ASSUME NEW s \in States, NEW x \in Seq(Calls)
    PROVE  /\ WithThens(s, x) \in States /\ WithThens(s, x).thens = x
           /\ \A f \in Parts : f # "thens" => WithThens(s, x)[f] = s[f]
BY DEF States, Parts, WithThens

LEMMA SetRan ==
    ASSUME NEW s \in States, NEW x \in SUBSET Nat
    PROVE  /\ WithRan(s, x) \in States /\ WithRan(s, x).ran = x
           /\ \A f \in Parts : f # "ran" => WithRan(s, x)[f] = s[f]
BY DEF States, Parts, WithRan

LEMMA SetFinals ==
    ASSUME NEW s \in States, NEW x \in SUBSET (Nat \X Nat)
    PROVE  /\ WithFinals(s, x) \in States /\ WithFinals(s, x).finals = x
           /\ \A f \in Parts : f # "finals" => WithFinals(s, x)[f] = s[f]
BY DEF States, Parts, WithFinals

LEMMA ConstantTypes ==
    /\ Fresh \in Promises /\ Undefined \in AllValues /\ TypeError \in AllValues
    /\ NoHandler \in AllFunctions /\ User \in AllFunctions
    /\ \A k \in Nat, x \in Sides : Settle(k, x) \in AllFunctions
    /\ \A c, n \in Nat, x \in Sides : Element(c, n, x) \in AllFunctions
    /\ \A x \in Sides : Finally(x) \in AllFunctions
    /\ \A x \in Sides, v \in AllValues : Thunk(x, v) \in AllFunctions
    /\ \A p \in Nat : Promise(p) \in AllValues
    /\ \A p \in Nat, v \in AllValues : Follow(p, v) \in Entries
    /\ \A job \in {"main", "finrec"} : Simple(job) \in Entries
    /\ \A r \in Listeds, x \in Sides, v \in AllValues : Job(r, x, v) \in Entries
    /\ \A f, g \in AllFunctions : Both(f, g) \in [Sides -> AllFunctions]
<1>1. Undefined \in AllValues /\ TypeError \in AllValues /\ \A p \in Nat : Promise(p) \in AllValues
  BY DEF Undefined, TypeError, Promise, AllValues
<1>2. /\ NoHandler \in AllFunctions /\ User \in AllFunctions
      /\ \A k \in Nat, x \in Sides : Settle(k, x) \in AllFunctions
      /\ \A c, n \in Nat, x \in Sides : Element(c, n, x) \in AllFunctions
      /\ \A x \in Sides : Finally(x) \in AllFunctions
      /\ \A x \in Sides, v \in AllValues : Thunk(x, v) \in AllFunctions
  BY <1>1 DEF AllFunctions, NoHandler, User, Settle, Element, Finally, Thunk, Function, Sides
<1>3. \A f, g \in AllFunctions : Both(f, g) \in [Sides -> AllFunctions]
  BY DEF Both
<1>4. Both(<<>>, <<>>) \in [Sides -> Seq(Listeds)]
  BY EmptySeq DEF Both
<1>5. Fresh \in Promises
  BY <1>1, <1>4 DEF Fresh, Promises
<1>6. /\ \A p \in Nat, v \in AllValues : Follow(p, v) \in Entries
      /\ \A job \in {"main", "finrec"} : Simple(job) \in Entries
      /\ \A r \in Listeds, x \in Sides, v \in AllValues : Job(r, x, v) \in Entries
  BY <1>1, <1>2 DEF Follow, Simple, Job, Entry, Entries, Listeds, Sides
<1> QED BY <1>1, <1>2, <1>3, <1>5, <1>6

LEMMA UsedPairIs ==
    ASSUME NEW s \in States, NEW k \in DOMAIN s.pair
    PROVE  /\ UsedPair(s, k) \in Pairs
           /\ UsedPair(s, k).promise = s.pair[k].promise /\ UsedPair(s, k).done = TRUE
<1>1. s.pair[k] \in Pairs
  BY Elements
<1> QED BY <1>1 DEF UsedPair, Pairs

LEMMA NewCapabilityIs ==
    ASSUME NEW s \in States
    PROVE  CapEffect(s, NewCapability(s)) /\ Len(NewCapability(s).pair) = Len(s.pair) + 1
           /\ Len(NewCapability(s).prom) = Len(s.prom) + 1
<1> DEFINE q == [promise |-> Len(s.prom) + 1, done |-> FALSE]
           t == NewCapability(s)
<1>1. s.prom \in Seq(Promises) /\ s.pair \in Seq(Pairs) /\ Len(s.prom) \in Nat
  BY StateParts, Elements
<1>2. q \in Pairs
  BY <1>1 DEF Pairs
<1>3. t = [s EXCEPT !.prom = Append(s.prom, Fresh), !.pair = Append(s.pair, q)]
  BY DEF NewCapability, NewPair, Fresh, States
<1>4. /\ t.prom = Append(s.prom, Fresh) /\ t.pair = Append(s.pair, q)
      /\ t.comb = s.comb /\ t.jobs = s.jobs /\ t.unhandled = s.unhandled /\ t.held = s.held
      /\ t.thens = s.thens /\ t.ran = s.ran /\ t.finals = s.finals /\ t.twice = s.twice
  BY <1>3 DEF States
<1>5. /\ Added(s.prom, t.prom, Fresh) /\ t.prom \in Seq(Promises)
      /\ Added(s.pair, t.pair, q) /\ t.pair \in Seq(Pairs)
  BY <1>1, <1>2, <1>4, AppendIs, ConstantTypes
<1>6. t \in States
  BY <1>3, <1>4, <1>5 DEF States
<1> QED BY <1>4, <1>5, <1>6 DEF CapEffect, Added

\* js_promise_resolve_function_call does nothing, queues a job, or settles.
Resolvable(s, k, side, v) ==
    /\ s \in States /\ k \in DOMAIN s.pair /\ side \in Sides /\ v \in AllValues
    /\ \A l \in DOMAIN s.pair : s.pair[l].promise \in DOMAIN s.prom
    /\ ~s.pair[k].done => Pending(s, s.pair[k].promise)

Follows(s, k, side, v) == side = 0 /\ v[1] \in {"prom", "thenable"} /\ v # Promise(s.pair[k].promise)

\* What a promise is settled with: itself or a broken thenable is a TypeError.
SettledAs(s, k, side, v, side2, w) ==
    \/ /\ side2 = side /\ w = v
       /\ side = 0 => v[1] \notin {"prom", "thenable", "broken"}
    \/ side = 0 /\ side2 = 1 /\ w = TypeError /\ v[1] \in {"prom", "broken"}

LEMMA JobsOf ==
    ASSUME NEW rs \in Seq(Listeds), NEW side \in Sides, NEW v \in AllValues
    PROVE  [n \in DOMAIN rs |-> Job(rs[n], side, v)] \in Seq(Entries)
<1> DEFINE js == [n \in 1..Len(rs) |-> Job(rs[n], side, v)]
<1>1. DOMAIN rs = 1..Len(rs) /\ Len(rs) \in Nat /\ \A n \in DOMAIN rs : rs[n] \in Listeds
  BY LenProperties, ElementOfSeq
<1>2. \A n \in 1..Len(rs) : Job(rs[n], side, v) \in Entries
  BY <1>1, ConstantTypes
<1>3. js \in [1..Len(rs) -> Entries]
  BY <1>2
<1>4. js \in Seq(Entries)
  BY <1>1, <1>3, FunctionIsList
<1> QED BY <1>1, <1>4

\* The pair that is used.
Done(s, k) == [s EXCEPT !.pair[k].done = TRUE]
LEMMA DoneIs ==
    ASSUME NEW s \in States, NEW k \in DOMAIN s.pair
    PROVE  /\ Done(s, k) \in States /\ Changed(s.pair, Done(s, k).pair, k, UsedPair(s, k))
           /\ \A f \in Parts : f # "pair" => Done(s, k)[f] = s[f]
<1> DEFINE ps == [s.pair EXCEPT ![k] = UsedPair(s, k)]
<1>1. UsedPair(s, k) \in Pairs /\ s.pair \in Seq(Pairs)
  BY UsedPairIs, StateParts
<1>2. ps \in Seq(Pairs) /\ Changed(s.pair, ps, k, UsedPair(s, k))
  BY <1>1, ExceptIs
<1>3. Done(s, k) = WithPair(s, ps)
  BY DEF UsedPair, Done, WithPair
<1> HIDE DEF ps
<1> QED BY <1>2, <1>3, SetPair

LEMMA FulfillIs ==
    ASSUME NEW s, NEW k, NEW side, NEW v, Resolvable(s, k, side, v), ~s.pair[k].done,
           NEW t, t = FulfillOrReject(Done(s, k), s.pair[k].promise, v, side)
    PROVE  SettleEffect(s, t, k, side, v)
<1> DEFINE p == s.pair[k].promise
           q == s.prom[p]
           rs == q.reactions[side]
           e == [state |-> Outcome(side), result |-> v, reactions |-> Both(<<>>, <<>>), handled |-> q.handled]
           js == [n \in DOMAIN rs |-> Job(rs[n], side, v)]
           u == IF side = 1 /\ ~q.handled THEN s.unhandled \cup {p} ELSE s.unhandled
           P == [s.prom EXCEPT ![p] = e]
           J == s.jobs \o js
<1>1. /\ s \in States /\ k \in DOMAIN s.pair /\ p \in DOMAIN s.prom /\ p \in Nat /\ Pending(s, p)
      /\ side \in Sides /\ v \in AllValues /\ q \in Promises /\ s.pair[k] \in Pairs
  BY Elements DEF Resolvable
<1>2. /\ s.prom \in Seq(Promises) /\ s.jobs \in Seq(Entries) /\ s.unhandled \in SUBSET Nat
  BY <1>1, StateParts
<1>3. PICK d : /\ d = Done(s, k)
               /\ d \in States /\ Changed(s.pair, d.pair, k, UsedPair(s, k))
               /\ \A f \in Parts : f # "pair" => d[f] = s[f]
  BY <1>1, DoneIs
<1>4. /\ d.prom = s.prom /\ d.jobs = s.jobs /\ d.unhandled = s.unhandled
      /\ d.comb = s.comb /\ d.held = s.held
      /\ d.thens = s.thens /\ d.ran = s.ran /\ d.finals = s.finals /\ d.twice = s.twice
  BY <1>3 DEF Parts
<1>5. rs \in Seq(Listeds)
  BY <1>1 DEF Promises
<1>6. js \in Seq(Entries)
  <2> HIDE DEF rs
  <2> QED BY <1>1, <1>5, JobsOf
<1>7. Both(<<>>, <<>>) \in [Sides -> Seq(Listeds)]
  BY EmptySeq DEF Both
<1>8. e \in Promises
  BY <1>1, <1>7 DEF Promises, Outcome, Sides
<1>9. u \in SUBSET Nat
  BY <1>1, <1>2
<1>10. /\ P \in Seq(Promises) /\ Changed(s.prom, P, p, e)
       /\ J \in Seq(Entries) /\ Joined(s.jobs, J, js)
  <2> HIDE DEF e, js
  <2> QED BY <1>1, <1>2, <1>6, <1>8, ExceptIs, ConcatIs
<1>11. t = [d EXCEPT !.prom = P, !.unhandled = u, !.jobs = J]
  <2>1. t = FulfillOrReject(d, p, v, side)
    BY <1>3
  <2>2. d.prom[p] = q /\ Pending(d, p)
    BY <1>1, <1>4 DEF Pending
  <2>3. t = [d EXCEPT !.prom[p] = e, !.unhandled = u, !.jobs = d.jobs \o js]
    BY <1>4, <2>1, <2>2, ZenonT(60) DEF FulfillOrReject, Track
  <2> HIDE DEF e, js, u
  <2> QED BY <1>4, <2>3
<1> HIDE DEF P, J, u, e, js
<1> DEFINE a == WithProm(d, P)
           b == WithUnhandled(a, u)
<1>12. t = WithJobs(b, J)
  BY <1>11 DEF WithProm, WithUnhandled, WithJobs
<1>13. a \in States /\ a.prom = P /\ \A f \in Parts : f # "prom" => a[f] = d[f]
  BY <1>3, <1>10, SetProm
<1> HIDE DEF a
<1>14. b \in States /\ b.unhandled = u /\ \A f \in Parts : f # "unhandled" => b[f] = a[f]
  BY <1>9, <1>13, SetUnhandled
<1> HIDE DEF b
<1>15. t \in States /\ t.jobs = J /\ \A f \in Parts : f # "jobs" => t[f] = b[f]
  BY <1>10, <1>12, <1>14, SetJobs
<1>16. /\ t.prom = P /\ t.unhandled = u /\ t.jobs = J /\ t.pair = d.pair
       /\ t.comb = s.comb /\ t.held = s.held
       /\ t.thens = s.thens /\ t.ran = s.ran /\ t.finals = s.finals /\ t.twice = s.twice
  BY <1>4, <1>13, <1>14, <1>15 DEF Parts
<1>18. Joined(s.jobs, t.jobs, [n \in DOMAIN rs |-> Job(rs[n], side, v)])
  BY <1>10, <1>15, Zenon DEF js
<1>19. Changed(s.prom, t.prom, p, [state |-> Outcome(side), result |-> v, reactions |-> Both(<<>>, <<>>),
                                   handled |-> q.handled])
  BY <1>10, <1>16 DEF e
<1> QED BY <1>3, <1>15, <1>16, <1>18, <1>19, Zenon DEF SettleEffect, u

LEMMA CallResolvingIs ==
    ASSUME NEW s, NEW k, NEW side, NEW v, Resolvable(s, k, side, v),
           NEW t, t = CallResolving(s, k, side, v)
    PROVE  \/ s.pair[k].done /\ t = s
           \/ ~s.pair[k].done /\ Follows(s, k, side, v) /\ FollowEffect(s, t, k, v)
           \/ ~s.pair[k].done /\ \E side2 \in Sides, w \in AllValues :
                 SettledAs(s, k, side, v, side2, w) /\ SettleEffect(s, t, k, side2, w)
<1> DEFINE p == s.pair[k].promise
           d == Done(s, k)
<1>1. CASE s.pair[k].done
  BY <1>1 DEF CallResolving, Done
<1>2. CASE ~s.pair[k].done /\ Follows(s, k, side, v)
  <2>1. t = [d EXCEPT !.jobs = Append(d.jobs, Follow(p, v))]
    BY <1>2 DEF CallResolving, Follows, Done
  <2>2. /\ s \in States /\ k \in DOMAIN s.pair /\ p \in DOMAIN s.prom /\ p \in Nat
        /\ v \in AllValues /\ s.pair[k] \in Pairs /\ s.pair \in Seq(Pairs) /\ s.jobs \in Seq(Entries)
    BY Elements, StateParts DEF Resolvable
  <2>3. /\ d \in States /\ Changed(s.pair, d.pair, k, UsedPair(s, k))
        /\ \A f \in Parts : f # "pair" => d[f] = s[f]
    BY <2>2, DoneIs
  <2> HIDE DEF d
  <2>4. /\ d.prom = s.prom /\ d.jobs = s.jobs /\ d.unhandled = s.unhandled
        /\ d.comb = s.comb /\ d.held = s.held
        /\ d.thens = s.thens /\ d.ran = s.ran /\ d.finals = s.finals /\ d.twice = s.twice
    BY <2>3 DEF Parts
  <2>5. Follow(p, v) \in Entries
    BY <2>2, ConstantTypes
  <2>6. /\ Append(s.jobs, Follow(p, v)) \in Seq(Entries)
        /\ Added(s.jobs, Append(s.jobs, Follow(p, v)), Follow(p, v))
    BY <2>2, <2>5, AppendIs
  <2>7. t \in States /\ t.jobs = Append(s.jobs, Follow(p, v)) /\ \A f \in Parts : f # "jobs" => t[f] = d[f]
    <3>1. t = WithJobs(d, Append(s.jobs, Follow(p, v)))
      BY <2>1, <2>4 DEF WithJobs
    <3> DEFINE J == Append(s.jobs, Follow(p, v))
    <3>2. t = WithJobs(d, J) /\ J \in Seq(Entries) /\ d \in States
      BY <2>3, <2>6, <3>1
    <3> HIDE DEF J
    <3>3. t \in States /\ t.jobs = J /\ \A f \in Parts : f # "jobs" => t[f] = d[f]
      BY <3>2, SetJobs
    <3> QED BY <3>3 DEF J
  <2>8. /\ t.pair = d.pair /\ t.prom = s.prom /\ t.comb = s.comb /\ t.unhandled = s.unhandled
        /\ t.held = s.held
        /\ t.thens = s.thens /\ t.ran = s.ran /\ t.finals = s.finals /\ t.twice = s.twice
    BY <2>4, <2>7 DEF Parts
  <2> QED BY <1>2, <2>3, <2>6, <2>7, <2>8 DEF FollowEffect
<1>3. CASE ~s.pair[k].done /\ ~Follows(s, k, side, v)
  <2>1. CASE side = 0 /\ (v = Promise(p) \/ v[1] = "broken")
    <3>1. t = FulfillOrReject(d, p, TypeError, 1)
      BY <1>3, <2>1 DEF CallResolving, Done
    <3>2. Resolvable(s, k, 1, TypeError)
      BY ConstantTypes DEF Resolvable, Sides
    <3>3. SettleEffect(s, t, k, 1, TypeError)
      BY <1>3, <3>1, <3>2, FulfillIs
    <3>4. SettledAs(s, k, side, v, 1, TypeError)
      BY <2>1 DEF SettledAs, Promise
    <3> QED BY <1>3, <3>3, <3>4, ConstantTypes DEF Sides
  <2>2. CASE ~(side = 0 /\ (v = Promise(p) \/ v[1] = "broken"))
    <3>1. t = FulfillOrReject(d, p, v, side)
      BY <1>3, <2>2 DEF CallResolving, Follows, Done
    <3>2. SettleEffect(s, t, k, side, v)
      BY <1>3, <3>1, FulfillIs
    <3>3. SettledAs(s, k, side, v, side, v)
      BY <1>3, <2>2 DEF SettledAs, Follows
    <3> QED BY <1>3, <3>2, <3>3 DEF Resolvable
  <2> QED BY <2>1, <2>2
<1> QED BY <1>1, <1>2, <1>3

\* A field of a promise is changed.
Handled(q) == [q EXCEPT !.handled = TRUE]
Listing(q, R) == [q EXCEPT !.reactions = R]
LEMMA HandledIs ==
    ASSUME NEW q \in Promises
    PROVE  /\ Handled(q) \in Promises /\ Handled(q).handled = TRUE /\ Handled(q).state = q.state
           /\ Handled(q).result = q.result /\ Handled(q).reactions = q.reactions
BY DEF Handled, Promises

LEMMA ListingIs ==
    ASSUME NEW q \in Promises, NEW R \in [Sides -> Seq(Listeds)]
    PROVE  /\ Listing(q, R) \in Promises /\ Listing(q, R).handled = q.handled
           /\ Listing(q, R).state = q.state
           /\ Listing(q, R).result = q.result /\ Listing(q, R).reactions = R
BY DEF Listing, Promises

\* The part of perform_promise_then that both cases share.
Called(s, p, fns, cap) ==
    [s EXCEPT !.prom[p].handled = TRUE, !.thens = Append(@, [p |-> p, fns |-> fns, cap |-> cap])]
LEMMA CalledIs ==
    ASSUME NEW s \in States, NEW p \in DOMAIN s.prom, NEW fns \in [Sides -> AllFunctions], NEW cap \in Nat
    PROVE  LET d == Called(s, p, fns, cap) IN
           /\ d \in States
           /\ Added(s.thens, d.thens, [p |-> p, fns |-> fns, cap |-> cap])
           /\ Changed(s.prom, d.prom, p, Handled(s.prom[p]))
           /\ \A f \in Parts : f \notin {"prom", "thens"} => d[f] = s[f]
<1> DEFINE e == [p |-> p, fns |-> fns, cap |-> cap]
           T == Append(s.thens, e)
           P == [s.prom EXCEPT ![p] = Handled(s.prom[p])]
           a == WithProm(s, P)
           d == WithThens(a, T)
<1>1. s.prom \in Seq(Promises) /\ s.thens \in Seq(Calls) /\ s.prom[p] \in Promises /\ p \in Nat
  BY StateParts, Elements
<1>2. e \in Calls
  BY <1>1 DEF Calls
<1>3. P \in Seq(Promises) /\ Changed(s.prom, P, p, Handled(s.prom[p]))
  BY <1>1, HandledIs, ExceptIs
<1>4. T \in Seq(Calls) /\ Added(s.thens, T, e)
  <2> HIDE DEF e
  <2> QED BY <1>1, <1>2, AppendIs
<1>5. Called(s, p, fns, cap) = d
  BY DEF Called, WithProm, WithThens, Handled
<1> HIDE DEF P, T
<1>6. a \in States /\ a.prom = P /\ \A f \in Parts : f # "prom" => a[f] = s[f]
  BY <1>3, SetProm
<1> HIDE DEF a
<1>7. d \in States /\ d.thens = T /\ \A f \in Parts : f # "thens" => d[f] = a[f]
  BY <1>4, <1>6, SetThens
<1> HIDE DEF d
<1>8. d.prom = P /\ \A f \in Parts : f \notin {"prom", "thens"} => d[f] = s[f]
  BY <1>6, <1>7 DEF Parts
<1> QED BY <1>3, <1>4, <1>5, <1>7, <1>8

LEMMA PerformThenIs ==
    ASSUME NEW s \in States, NEW p \in DOMAIN s.prom, NEW f \in AllFunctions, NEW g \in AllFunctions,
           NEW cap \in Nat
    PROVE  ThenEffect(s, PerformThen(s, p, f, g, cap), p, Both(f, g), cap)
<1> DEFINE q == s.prom[p]
           fns == Both(f, g)
           r == [x \in Sides |-> [cap |-> cap, handler |-> fns[x], n |-> Len(s.thens) + 1]]
           side == IF q.state = "rejected" THEN 1 ELSE 0
           d == Called(s, p, fns, cap)
           t == PerformThen(s, p, f, g, cap)
<1>1. /\ q \in Promises /\ p \in Nat /\ Len(s.thens) \in Nat /\ fns \in [Sides -> AllFunctions]
      /\ s.prom \in Seq(Promises) /\ s.jobs \in Seq(Entries) /\ s.unhandled \in SUBSET Nat
      /\ q.reactions \in [Sides -> Seq(Listeds)] /\ q.result \in AllValues /\ side \in Sides
  <2>1. q \in Promises /\ p \in Nat /\ Len(s.thens) \in Nat
    BY Elements
  <2> QED BY <2>1, StateParts, ConstantTypes DEF Promises, Sides
<1> HIDE DEF fns
<1>2. /\ d \in States
      /\ Added(s.thens, d.thens, [p |-> p, fns |-> fns, cap |-> cap])
      /\ Changed(s.prom, d.prom, p, Handled(q))
      /\ \A x \in Parts : x \notin {"prom", "thens"} => d[x] = s[x]
  BY SMTT(40), <1>1, CalledIs
<1>3. /\ d.jobs = s.jobs /\ d.unhandled = s.unhandled /\ d.pair = s.pair /\ d.comb = s.comb
      /\ d.held = s.held /\ d.ran = s.ran /\ d.finals = s.finals /\ d.twice = s.twice
  <2> HIDE DEF d
  <2> QED BY <1>2 DEF Parts
<1>4. \A x \in Sides : r[x] = Listed1(s, fns, cap, x) /\ r[x] \in Listeds
  BY <1>1 DEF Listed1, Listeds
<1>5. d.prom \in Seq(Promises) /\ p \in DOMAIN d.prom /\ d.prom[p] = Handled(q)
  <2> HIDE DEF d
  <2> QED BY <1>2, StateParts DEF Changed
<1>6. CASE Pending(s, p)
  <2> DEFINE R == [x \in Sides |-> Append(q.reactions[x], r[x])]
             P == [d.prom EXCEPT ![p] = Listing(d.prom[p], R)]
  <2>1. \A x \in Sides : /\ Append(q.reactions[x], r[x]) \in Seq(Listeds)
                         /\ Added(q.reactions[x], Append(q.reactions[x], r[x]), r[x])
    <3> HIDE DEF r
    <3> QED BY <1>1, <1>4, AppendIs
  <2>2. R \in [Sides -> Seq(Listeds)]
    BY <2>1
  <2>3. t = WithProm(d, P)
    BY <1>6 DEF PerformThen, Called, WithProm, Listing, fns
  <2>4. \A x \in Sides : Added(q.reactions[x], R[x], Listed1(s, fns, cap, x))
    BY <1>4, <2>1
  <2> HIDE DEF R
  <2>5. P \in Seq(Promises) /\ Changed(d.prom, P, p, Listing(d.prom[p], R))
    <3>1. Listing(d.prom[p], R) \in Promises
      BY <1>1, <1>5, <2>2, HandledIs, ListingIs
    <3> HIDE DEF d
    <3> QED BY <1>5, <3>1, ExceptIs
  <2> HIDE DEF P, d, t
  <2>6. t \in States /\ t.prom = P /\ \A x \in Parts : x # "prom" => t[x] = d[x]
    BY <1>2, <2>3, <2>5, SetProm
  <2>7. /\ t.thens = d.thens
        /\ t.jobs = s.jobs /\ t.unhandled = s.unhandled /\ t.pair = s.pair /\ t.comb = s.comb
        /\ t.held = s.held /\ t.ran = s.ran /\ t.finals = s.finals /\ t.twice = s.twice
    BY <1>3, <2>6 DEF Parts
  <2>8. t.prom[p] = Listing(Handled(q), R) /\ Changed(s.prom, t.prom, p, t.prom[p])
    BY <1>2, <1>5, <2>5, <2>6 DEF Changed
  <2>9. /\ t.prom[p].state = q.state /\ t.prom[p].result = q.result /\ t.prom[p].handled = TRUE
        /\ t.prom[p].reactions = R
    <3> DEFINE h == Handled(q)
    <3>1. h \in Promises /\ h.handled = TRUE /\ h.state = q.state /\ h.result = q.result
      BY <1>1, HandledIs
    <3>2. t.prom[p] = Listing(h, R)
      BY <2>8
    <3> HIDE DEF h, q
    <3> QED BY <2>2, <3>1, <3>2, ListingIs
  <2>10. q.state = "pending"
    BY <1>6 DEF Pending
  <2> QED BY <1>2, <1>6, <2>4, <2>6, <2>7, <2>8, <2>9, <2>10 DEF ThenEffect, t, fns
<1>7. CASE ~Pending(s, p)
  <2> DEFINE u == IF q.state = "rejected" /\ ~q.handled THEN s.unhandled \ {p} ELSE s.unhandled
             j == Job(r[side], side, q.result)
             J == Append(s.jobs, j)
             a == WithUnhandled(d, u)
  <2>1. t = WithJobs(a, J)
    <3>1. u = IF side = 1 /\ ~q.handled THEN Track(s.unhandled, p, TRUE) ELSE s.unhandled
      BY DEF Track
    <3> HIDE DEF u
    <3>2. t = [d EXCEPT !.unhandled = u, !.jobs = Append(d.jobs, j)]
      BY <1>3, <1>7, <3>1 DEF PerformThen, Called, fns
    <3> HIDE DEF d, j, t
    <3> QED BY <1>3, <3>2 DEF WithJobs, WithUnhandled
  <2>2. u \in SUBSET Nat
    BY <1>1
  <2>3. j \in Entries /\ j = Job(Listed1(s, fns, cap, side), side, q.result)
    <3>1. r[side] = Listed1(s, fns, cap, side) /\ r[side] \in Listeds
      BY <1>1, <1>4
    <3> HIDE DEF r, side
    <3> QED BY <1>1, <3>1, ConstantTypes
  <2> HIDE DEF j
  <2>4. J \in Seq(Entries) /\ Added(s.jobs, J, j)
    BY <1>1, <2>3, AppendIs
  <2> HIDE DEF J, u, d, t
  <2>5. a \in States /\ a.unhandled = u /\ \A x \in Parts : x # "unhandled" => a[x] = d[x]
    BY <1>2, <2>2, SetUnhandled
  <2> HIDE DEF a
  <2>6. t \in States /\ t.jobs = J /\ \A x \in Parts : x # "jobs" => t[x] = a[x]
    BY <2>1, <2>4, <2>5, SetJobs
  <2>7. /\ t.thens = d.thens /\ t.prom = d.prom
        /\ t.unhandled = u /\ t.pair = s.pair /\ t.comb = s.comb
        /\ t.held = s.held /\ t.ran = s.ran /\ t.finals = s.finals /\ t.twice = s.twice
    BY <1>3, <2>5, <2>6 DEF Parts
  <2>8. t.prom[p] = Handled(q) /\ Changed(s.prom, t.prom, p, t.prom[p])
    BY <1>2, <1>5, <2>7
  <2>9. /\ t.prom[p].state = q.state /\ t.prom[p].result = q.result /\ t.prom[p].handled = TRUE
        /\ t.prom[p].reactions = q.reactions
    BY <1>1, <2>8, HandledIs
  <2>10. Added(s.jobs, t.jobs, Job(Listed1(s, fns, cap, side), side, q.result))
    BY <2>3, <2>4, <2>6
  <2>11. t.unhandled = IF q.state = "rejected" /\ ~q.handled THEN s.unhandled \ {p} ELSE s.unhandled
    BY <2>7 DEF u
  <2> QED BY <1>2, <1>7, <2>6, <2>7, <2>8, <2>9, <2>10, <2>11 DEF ThenEffect, t, fns
<1> QED BY <1>6, <1>7

\* JS_ExecutePendingJob takes the first job.
LEMMA PoppedIs ==
    ASSUME st \in States, st.jobs # <<>>
    PROVE  /\ Head(st.jobs) = st.jobs[1] /\ Head(st.jobs) \in Entries /\ 1 \in DOMAIN st.jobs
           /\ PopEffect(st, Popped(Head(st.jobs)), Head(st.jobs))
<1> DEFINE j == Head(st.jobs)
           J == Tail(st.jobs)
           R == IF j.job = "reaction" THEN st.ran \cup {j.n} ELSE st.ran
           a == WithJobs(st, J)
           t == Popped(j)
<1>1. st.jobs \in Seq(Entries) /\ st.ran \in SUBSET Nat
  BY StateParts
<1>2. J \in Seq(Entries) /\ Shifted(st.jobs, J) /\ j = st.jobs[1] /\ j \in Entries
  BY <1>1, TailIs
<1>3. R \in SUBSET Nat
  BY <1>1, <1>2 DEF Entries
<1>4. t = WithRan(a, R)
  BY DEF Popped, WithRan, WithJobs
<1> HIDE DEF j, J, R, t
<1>5. a \in States /\ a.jobs = J /\ \A x \in Parts : x # "jobs" => a[x] = st[x]
  BY <1>2, SetJobs
<1> HIDE DEF a
<1>6. t \in States /\ t.ran = R /\ \A x \in Parts : x # "ran" => t[x] = a[x]
  BY <1>3, <1>4, <1>5, SetRan
<1>7. /\ t.jobs = J
      /\ t.prom = st.prom /\ t.pair = st.pair /\ t.comb = st.comb /\ t.unhandled = st.unhandled
      /\ t.held = st.held /\ t.thens = st.thens /\ t.finals = st.finals /\ t.twice = st.twice
  BY <1>5, <1>6 DEF Parts
<1>8. t.ran = IF j.job = "reaction" THEN st.ran \cup {j.n} ELSE st.ran
  BY <1>6 DEF R
<1>9. 1 \in DOMAIN st.jobs
  BY <1>2 DEF Shifted
<1>10. PopEffect(st, t, j)
  BY <1>2, <1>6, <1>7, <1>8 DEF PopEffect
<1> QED BY <1>2, <1>9, <1>10 DEF j, t

LEMMA PopPairIs ==
    ASSUME st \in States, st.jobs # <<>>, Head(st.jobs).job = "thenable"
    PROVE  LET c == NewPair(Popped(Head(st.jobs)), Head(st.jobs).promise) IN
           PopPairEffect(st, c, Head(st.jobs)) /\ Len(c.pair) = Len(st.pair) + 1
<1> DEFINE j == Head(st.jobs)
           a == Popped(j)
           e == [promise |-> j.promise, done |-> FALSE]
           P == Append(a.pair, e)
           t == NewPair(a, j.promise)
<1>1. j = st.jobs[1] /\ j \in Entries /\ PopEffect(st, a, j)
  BY PoppedIs
<1>2. a \in States /\ a.pair = st.pair /\ st.pair \in Seq(Pairs)
  BY <1>1, StateParts DEF PopEffect
<1>3. e \in Pairs
  BY <1>1 DEF Pairs, Entries
<1>4. t = WithPair(a, P)
  BY DEF NewPair, WithPair
<1>5. P \in Seq(Pairs) /\ Added(st.pair, P, e)
  <2> HIDE DEF e, a
  <2> QED BY <1>2, <1>3, AppendIs
<1> HIDE DEF t, a, P, j
<1>6. t \in States /\ t.pair = P /\ \A x \in Parts : x # "pair" => t[x] = a[x]
  BY <1>2, <1>4, <1>5, SetPair
<1>7. /\ t.jobs = a.jobs /\ t.ran = a.ran
      /\ t.prom = a.prom /\ t.comb = a.comb /\ t.unhandled = a.unhandled
      /\ t.held = a.held /\ t.thens = a.thens /\ t.finals = a.finals /\ t.twice = a.twice
  BY <1>6 DEF Parts
<1>8. Len(P) = Len(st.pair) + 1
  BY <1>5 DEF Added
<1>9. j.job = "thenable" /\ st.jobs # <<>>
  BY DEF j
<1>10. PopPairEffect(st, t, j)
  BY <1>1, <1>5, <1>6, <1>7, <1>9 DEF PopEffect, PopPairEffect
<1> QED BY <1>6, <1>8, <1>10 DEF t, a, j

\* JavaScript code is given functions.
HeldEffect(s, t, H) == QuietEffect(s, t) /\ t.held = s.held \cup H /\ t.comb = s.comb /\ t.finals = s.finals
LEMMA HeldIs ==
    ASSUME NEW s \in States, NEW H \in SUBSET AllFunctions
    PROVE  HeldEffect(s, [s EXCEPT !.held = @ \cup H], H)
<1> DEFINE K == s.held \cup H
           t == WithHeld(s, K)
<1>1. K \in SUBSET AllFunctions
  BY StateParts
<1>2. [s EXCEPT !.held = @ \cup H] = t
  BY DEF WithHeld
<1> HIDE DEF K
<1>3. t \in States /\ t.held = K /\ \A x \in Parts : x # "held" => t[x] = s[x]
  BY <1>1, SetHeld
<1> HIDE DEF t
<1>4. HeldEffect(s, t, H)
  BY <1>3 DEF HeldEffect, QuietEffect, Parts, K
<1> QED BY <1>2, <1>4

\* finally is recorded.
FinalEffect(s, t, f) == QuietEffect(s, t) /\ t.finals = s.finals \cup {f} /\ t.comb = s.comb /\ t.held = s.held
LEMMA FinalIs ==
    ASSUME NEW s \in States, NEW f \in Nat \X Nat
    PROVE  FinalEffect(s, [s EXCEPT !.finals = @ \cup {f}], f)
<1> DEFINE K == s.finals \cup {f}
           t == WithFinals(s, K)
<1>1. K \in SUBSET (Nat \X Nat)
  BY StateParts
<1>2. [s EXCEPT !.finals = @ \cup {f}] = t
  BY DEF WithFinals
<1> HIDE DEF K
<1>3. t \in States /\ t.finals = K /\ \A x \in Parts : x # "finals" => t[x] = s[x]
  BY <1>1, SetFinals
<1> HIDE DEF t
<1>4. FinalEffect(s, t, f)
  BY <1>3 DEF FinalEffect, QuietEffect, Parts, K
<1> QED BY <1>2, <1>4

\* A finalization callback is queued.
CallbackEffect(s, t) ==
    /\ t \in States /\ Added(s.jobs, t.jobs, Simple("finrec"))
    /\ t.prom = s.prom /\ t.pair = s.pair /\ t.comb = s.comb /\ t.unhandled = s.unhandled
    /\ t.held = s.held /\ t.thens = s.thens /\ t.ran = s.ran /\ t.finals = s.finals /\ t.twice = s.twice
LEMMA CallbackIs ==
    ASSUME NEW s \in States
    PROVE  CallbackEffect(s, [s EXCEPT !.jobs = Append(@, Simple("finrec"))])
<1> DEFINE K == Append(s.jobs, Simple("finrec"))
           t == WithJobs(s, K)
<1>1. K \in Seq(Entries) /\ Added(s.jobs, K, Simple("finrec"))
  BY StateParts, ConstantTypes, AppendIs
<1>2. [s EXCEPT !.jobs = Append(@, Simple("finrec"))] = t
  BY DEF WithJobs
<1> HIDE DEF K
<1>3. t \in States /\ t.jobs = K /\ \A x \in Parts : x # "jobs" => t[x] = s[x]
  BY <1>1, SetJobs
<1> HIDE DEF t
<1>4. CallbackEffect(s, t)
  BY <1>1, <1>3 DEF CallbackEffect, Parts
<1> QED BY <1>2, <1>4

\* A combinator is changed.
CombEffect(s, t, c) ==
    /\ QuietEffect(s, t) /\ t.held = s.held /\ t.finals = s.finals
    /\ Changed(s.comb, t.comb, c, t.comb[c])
CombAt(s, c, C) == WithComb(s, [s.comb EXCEPT ![c] = C])
LEMMA CombAtIs ==
    ASSUME NEW s \in States, NEW c \in DOMAIN s.comb, NEW C \in Combinators
    PROVE  CombEffect(s, CombAt(s, c, C), c) /\ CombAt(s, c, C).comb[c] = C
<1> DEFINE K == [s.comb EXCEPT ![c] = C]
           t == CombAt(s, c, C)
<1>1. K \in Seq(Combinators) /\ Changed(s.comb, K, c, C)
  BY StateParts, ExceptIs
<1>2. t = WithComb(s, K)
  BY DEF CombAt
<1> HIDE DEF K, t
<1>3. t \in States /\ t.comb = K /\ \A x \in Parts : x # "comb" => t[x] = s[x]
  BY <1>1, <1>2, SetComb
<1>4. /\ t.prom = s.prom /\ t.pair = s.pair /\ t.jobs = s.jobs /\ t.unhandled = s.unhandled
      /\ t.thens = s.thens /\ t.ran = s.ran /\ t.twice = s.twice /\ t.held = s.held /\ t.finals = s.finals
  BY <1>3 DEF Parts
<1>5. t.comb[c] = C /\ Changed(s.comb, t.comb, c, t.comb[c])
  BY <1>1, <1>3 DEF Changed
<1>6. CombEffect(s, t, c)
  BY <1>3, <1>4, <1>5 DEF CombEffect, QuietEffect
<1> QED BY <1>5, <1>6 DEF t

\* The call of a combinator begins.
NewCombEffect(s, t, kind, k) ==
    /\ QuietEffect(s, t) /\ t.held = s.held /\ t.finals = s.finals
    /\ Added(s.comb, t.comb, [kind |-> kind, k |-> k, rem |-> 1, called |-> {},
                              values |-> <<>>, items |-> <<>>, open |-> TRUE])
LEMMA NewCombinatorIs ==
    ASSUME NEW s \in States, NEW kind \in {"all", "allSettled", "any", "race"}
    PROVE  LET c == NewCapability(s) IN
           CapEffect(s, c) /\ NewCombEffect(c, NewCombinator(s, kind), kind, Len(c.pair))
<1> DEFINE c == NewCapability(s)
           e == [kind |-> kind, k |-> Len(c.pair), rem |-> 1, called |-> {},
                 values |-> <<>>, items |-> <<>>, open |-> TRUE]
           K == Append(c.comb, e)
           t == NewCombinator(s, kind)
<1>1. CapEffect(s, c) /\ c \in States /\ Len(c.pair) \in Nat /\ c.comb \in Seq(Combinators)
  <2>1. CapEffect(s, c) /\ c \in States
    BY NewCapabilityIs DEF CapEffect
  <2> QED BY <2>1, StateParts, Elements
<1>2. t = WithComb(c, K)
  BY DEF NewCombinator, WithComb
<1> HIDE DEF c, t
<1>3. e \in Combinators
  BY <1>1, EmptySeq DEF Combinators
<1>4. K \in Seq(Combinators) /\ Added(c.comb, K, e)
  <2> HIDE DEF e
  <2> QED BY <1>1, <1>3, AppendIs
<1> HIDE DEF e, K
<1>5. t \in States /\ t.comb = K /\ \A x \in Parts : x # "comb" => t[x] = c[x]
  BY <1>1, <1>2, <1>4, SetComb
<1>6. /\ t.prom = c.prom /\ t.pair = c.pair /\ t.jobs = c.jobs /\ t.unhandled = c.unhandled
      /\ t.thens = c.thens /\ t.ran = c.ran /\ t.twice = c.twice /\ t.held = c.held /\ t.finals = c.finals
  BY <1>5 DEF Parts
<1>7. NewCombEffect(c, t, kind, Len(c.pair))
  BY <1>4, <1>5, <1>6 DEF NewCombEffect, QuietEffect, e
<1> QED BY <1>1, <1>7 DEF c, t

\* A combinator has one more item.
CountEffect(s, t, c, p, native) ==
    /\ CombEffect(s, t, c)
    /\ t.comb[c].rem = s.comb[c].rem + (IF s.comb[c].kind = "race" THEN 0 ELSE 1)
    /\ Added(s.comb[c].items, t.comb[c].items, [p |-> p, native |-> native])
    /\ Added(s.comb[c].values, t.comb[c].values, Hole)
    /\ t.comb[c].kind = s.comb[c].kind /\ t.comb[c].k = s.comb[c].k
    /\ t.comb[c].called = s.comb[c].called /\ t.comb[c].open = s.comb[c].open
LEMMA CountedIs ==
    ASSUME NEW s \in States, NEW c \in DOMAIN s.comb, NEW p \in Nat, NEW native \in BOOLEAN
    PROVE  CountEffect(s, Counted(s, c, p, native), c, p, native)
<1> DEFINE C == s.comb[c]
           i == [p |-> p, native |-> native]
           I == Append(C.items, i)
           V == Append(C.values, Hole)
           r == IF C.kind = "race" THEN C.rem ELSE C.rem + 1
           D == [C EXCEPT !.rem = r, !.items = I, !.values = V]
           t == Counted(s, c, p, native)
<1>1. C \in Combinators
  BY Elements
<1>2. /\ C.items \in Seq([p : Nat, native : BOOLEAN]) /\ C.values \in Seq([side : {-1, 0, 1}, v : AllValues])
      /\ C.rem \in Int
  BY <1>1 DEF Combinators
<1>3. i \in [p : Nat, native : BOOLEAN] /\ Hole \in [side : {-1, 0, 1}, v : AllValues]
  BY ConstantTypes DEF Hole
<1>4. t = CombAt(s, c, D)
  BY DEF Counted, CombAt, WithComb
<1>5. I \in Seq([p : Nat, native : BOOLEAN]) /\ Added(C.items, I, i)
  <2> HIDE DEF i, C
  <2> QED BY <1>2, <1>3, AppendIs
<1>6. V \in Seq([side : {-1, 0, 1}, v : AllValues]) /\ Added(C.values, V, Hole)
  <2> HIDE DEF C
  <2> QED BY <1>2, <1>3, AppendIs
<1>7. r \in Int /\ r = C.rem + (IF C.kind = "race" THEN 0 ELSE 1)
  BY <1>2
<1> HIDE DEF I, V, r, t
<1>8. /\ D \in Combinators /\ D.rem = r /\ D.items = I /\ D.values = V
      /\ D.kind = C.kind /\ D.k = C.k /\ D.called = C.called /\ D.open = C.open
  <2> HIDE DEF C
  <2> QED BY <1>1, <1>5, <1>6, <1>7 DEF Combinators
<1> HIDE DEF D
<1>9. CombEffect(s, t, c) /\ t.comb[c] = D
  BY <1>4, <1>8, CombAtIs
<1>10. CountEffect(s, t, c, p, native)
  BY <1>5, <1>6, <1>7, <1>8, <1>9 DEF CountEffect
<1> QED BY <1>10 DEF t

\* A combinator's loop ends: it no longer counts itself.
EndEffect(s, t, c, r) ==
    /\ CombEffect(s, t, c)
    /\ t.comb[c].rem = r /\ t.comb[c].open = FALSE
    /\ t.comb[c].kind = s.comb[c].kind /\ t.comb[c].k = s.comb[c].k /\ t.comb[c].items = s.comb[c].items
    /\ t.comb[c].values = s.comb[c].values /\ t.comb[c].called = s.comb[c].called
EndAt(s, c) == [s EXCEPT !.comb[c] = [s.comb[c] EXCEPT !.open = FALSE, !.rem = s.comb[c].rem - 1]]
CloseAt(s, c) == [s EXCEPT !.comb[c].open = FALSE]
LEMMA EndAtIs ==
    ASSUME NEW s \in States, NEW c \in DOMAIN s.comb
    PROVE  /\ EndEffect(s, EndAt(s, c), c, s.comb[c].rem - 1)
           /\ EndEffect(s, CloseAt(s, c), c, s.comb[c].rem)
<1> DEFINE C == s.comb[c]
           r == C.rem - 1
           D == [C EXCEPT !.open = FALSE, !.rem = r]
           E == [C EXCEPT !.open = FALSE]
           t == EndAt(s, c)
           u == CloseAt(s, c)
<1>1. C \in Combinators
  BY Elements
<1>2. t = CombAt(s, c, D)
  BY DEF EndAt, CombAt, WithComb
<1>3. u = CombAt(s, c, E)
  BY DEF CloseAt, CombAt, WithComb
<1>8. r \in Int
  BY <1>1 DEF Combinators
<1> HIDE DEF C, t, u, r
<1>4. /\ D \in Combinators /\ D.rem = r /\ D.open = FALSE /\ D.kind = C.kind /\ D.k = C.k
      /\ D.items = C.items /\ D.values = C.values /\ D.called = C.called
  BY <1>1, <1>8 DEF Combinators
<1>5. /\ E \in Combinators /\ E.rem = C.rem /\ E.open = FALSE /\ E.kind = C.kind /\ E.k = C.k
      /\ E.items = C.items /\ E.values = C.values /\ E.called = C.called
  BY <1>1 DEF Combinators
<1> HIDE DEF D, E
<1>6. CombEffect(s, t, c) /\ t.comb[c] = D /\ CombEffect(s, u, c) /\ u.comb[c] = E
  BY <1>2, <1>3, <1>4, <1>5, CombAtIs
<1>7. EndEffect(s, t, c, C.rem - 1) /\ EndEffect(s, u, c, C.rem)
  BY <1>4, <1>5, <1>6 DEF EndEffect, C, r
<1> QED BY <1>7 DEF t, u, C

\* An item of a combinator has answered.
AnswerEffect(s, t, c, n, side, v) ==
    /\ CombEffect(s, t, c)
    /\ t.comb[c].rem = s.comb[c].rem - 1
    /\ t.comb[c].called = s.comb[c].called \cup {<<n, side>>}
    /\ Changed(s.comb[c].values, t.comb[c].values, n, [side |-> side, v |-> v])
    /\ t.comb[c].kind = s.comb[c].kind /\ t.comb[c].k = s.comb[c].k
    /\ t.comb[c].items = s.comb[c].items /\ t.comb[c].open = s.comb[c].open
AnswerAt(s, c, n, side, v) ==
    [s EXCEPT !.comb[c] = [s.comb[c] EXCEPT !.called = @ \cup {<<n, side>>},
                                            !.values[n] = [side |-> side, v |-> v],
                                            !.rem = @ - 1]]
LEMMA AnswerAtIs ==
    ASSUME NEW s \in States, NEW c \in DOMAIN s.comb, NEW n \in DOMAIN s.comb[c].values,
           NEW side \in Sides, NEW v \in AllValues
    PROVE  AnswerEffect(s, AnswerAt(s, c, n, side, v), c, n, side, v)
<1> DEFINE C == s.comb[c]
           e == [side |-> side, v |-> v]
           V == [C.values EXCEPT ![n] = e]
           K == C.called \cup {<<n, side>>}
           r == C.rem - 1
           D == [C EXCEPT !.called = K, !.values = V, !.rem = r]
           t == AnswerAt(s, c, n, side, v)
<1>1. C \in Combinators
  BY Elements
<1>2. /\ C.values \in Seq([side : {-1, 0, 1}, v : AllValues]) /\ C.rem \in Int
      /\ C.called \in SUBSET (Nat \X Sides)
  BY <1>1 DEF Combinators
<1>3. e \in [side : {-1, 0, 1}, v : AllValues]
  BY DEF Sides
<1>4. t = CombAt(s, c, D)
  BY DEF AnswerAt, CombAt, WithComb
<1>5. V \in Seq([side : {-1, 0, 1}, v : AllValues]) /\ Changed(C.values, V, n, e)
  <2>1. n \in DOMAIN C.values
    OBVIOUS
  <2> HIDE DEF e, C
  <2> QED BY <1>2, <1>3, <2>1, ExceptIs
<1>6. K \in SUBSET (Nat \X Sides)
  <2>1. n \in Nat
    BY <1>2, LenProperties
  <2> QED BY <1>2, <2>1
<1>10. r \in Int
  BY <1>2
<1> HIDE DEF C, K, V, t, r
<1>7. /\ D \in Combinators /\ D.rem = r /\ D.items = C.items /\ D.values = V
      /\ D.kind = C.kind /\ D.k = C.k /\ D.called = K /\ D.open = C.open
  BY <1>1, <1>5, <1>6, <1>10 DEF Combinators
<1> HIDE DEF D
<1>8. CombEffect(s, t, c) /\ t.comb[c] = D
  BY <1>4, <1>7, CombAtIs
<1>9. AnswerEffect(s, t, c, n, side, v)
  BY <1>5, <1>7, <1>8 DEF AnswerEffect, C, K, r
<1> QED BY <1>9 DEF t

-----------------------------------------------------------------------------
(***************************************************************************)
(* Every reference stays good: what there is stays there, and a settled    *)
(* promise stays as it is.                                                 *)
(***************************************************************************)
Grows(s, t) ==
    /\ \A p \in DOMAIN s.prom :
          /\ p \in DOMAIN t.prom
          /\ ~Pending(s, p) => t.prom[p].state = s.prom[p].state /\ t.prom[p].result = s.prom[p].result
    /\ \A k \in DOMAIN s.pair :
          /\ k \in DOMAIN t.pair /\ t.pair[k].promise = s.pair[k].promise
          /\ s.pair[k].done => t.pair[k].done
    /\ \A c \in DOMAIN s.comb :
          /\ c \in DOMAIN t.comb /\ t.comb[c].k = s.comb[c].k /\ t.comb[c].kind = s.comb[c].kind
          /\ \A n \in DOMAIN s.comb[c].items : n \in DOMAIN t.comb[c].items
          /\ s.comb[c].called \subseteq t.comb[c].called
    /\ \A n \in DOMAIN s.thens : n \in DOMAIN t.thens /\ t.thens[n] = s.thens[n]
    /\ s.ran \subseteq t.ran

LEMMA GrowsKeeps ==
    ASSUME NEW s, NEW t, RefInv(s), Grows(s, t)
    PROVE  /\ \A v : ValueOK(s, v) => ValueOK(t, v)
           /\ \A h : FunctionOK(s, h) => FunctionOK(t, h)
           /\ \A h : HeldOK(s, h) => HeldOK(t, h)
           /\ \A j \in Entries : JobOK(s, j) => JobOK(t, j)
           /\ \A j \in Entries : QueuedOK(s, j) => QueuedOK(t, j)
           /\ \A n \in DOMAIN s.thens : ThenOK(t, n)
<1>1. \A v : ValueOK(s, v) => ValueOK(t, v)
  <2> SUFFICES ASSUME NEW v, ValueOK(s, v) PROVE ValueOK(t, v)
    OBVIOUS
  <2>1. v[1] = "prom" => v[2] \in DOMAIN t.prom
    BY DEF ValueOK, Grows
  <2>2. ASSUME v[1] \in {"array", "aggregate"}
        PROVE  /\ v[2] \in DOMAIN t.comb
               /\ LET p == t.pair[t.comb[v[2]].k].promise IN ~Pending(t, p) /\ t.prom[p].result = v
    <3> DEFINE c == v[2]
               k == s.comb[c].k
               p == s.pair[k].promise
    <3>1. c \in DOMAIN s.comb /\ ~Pending(s, p) /\ s.prom[p].result = v
      BY <2>2 DEF ValueOK
    <3>2. k \in DOMAIN s.pair /\ p \in DOMAIN s.prom
      BY <3>1 DEF RefInv, CombOK
    <3>3. c \in DOMAIN t.comb /\ t.comb[c].k = k /\ t.pair[k].promise = p
      BY <3>1, <3>2 DEF Grows
    <3> HIDE DEF p
    <3>4. t.prom[p].state = s.prom[p].state /\ t.prom[p].result = s.prom[p].result
      BY <3>1, <3>2 DEF Grows
    <3>5. ~Pending(t, p) /\ t.prom[p].result = v
      BY <3>1, <3>4 DEF Pending
    <3> QED BY <3>3, <3>5
  <2>3. v[1] \in {"array", "aggregate"} =>
          /\ v[2] \in DOMAIN t.comb
          /\ LET p == t.pair[t.comb[v[2]].k].promise IN ~Pending(t, p) /\ t.prom[p].result = v
    BY <2>2
  <2> QED BY <2>1, <2>3, Zenon DEF ValueOK
<1>2. \A h : FunctionOK(s, h) => FunctionOK(t, h)
  BY <1>1 DEF FunctionOK, Grows
<1>3. \A h : HeldOK(s, h) => HeldOK(t, h)
  BY <1>2 DEF HeldOK
<1>4. \A j \in Entries : JobOK(s, j) => JobOK(t, j)
  <2> SUFFICES ASSUME NEW j \in Entries, JobOK(s, j) PROVE JobOK(t, j)
    OBVIOUS
  <2>1. ASSUME j.job = "reaction"
        PROVE  /\ j.n \in DOMAIN t.thens
               /\ j.cap = t.thens[j.n].cap /\ j.handler = t.thens[j.n].fns[j.side]
               /\ t.prom[t.thens[j.n].p].state = Outcome(j.side)
               /\ t.prom[t.thens[j.n].p].result = j.v
    <3> DEFINE p == s.thens[j.n].p
    <3>1. /\ j.n \in DOMAIN s.thens
          /\ j.cap = s.thens[j.n].cap /\ j.handler = s.thens[j.n].fns[j.side]
          /\ s.prom[p].state = Outcome(j.side)
          /\ s.prom[p].result = j.v
      BY <2>1 DEF JobOK
    <3>2. p \in DOMAIN s.prom /\ ~Pending(s, p)
      BY <3>1 DEF RefInv, ThenOK, Pending, Outcome
    <3>3. j.n \in DOMAIN t.thens /\ t.thens[j.n] = s.thens[j.n]
      BY <3>1 DEF Grows
    <3>4. t.prom[p].state = s.prom[p].state /\ t.prom[p].result = s.prom[p].result
      BY <3>2 DEF Grows
    <3> QED BY <3>1, <3>3, <3>4
  <2>2. j.job = "thenable" =>
          j.promise \in DOMAIN t.prom /\ ValueOK(t, j.v) /\ j.v[1] \in {"prom", "thenable"}
    BY <1>1 DEF JobOK, Grows
  <2> QED BY <2>1, <2>2 DEF JobOK
<1>5. \A j \in Entries : QueuedOK(s, j) => QueuedOK(t, j)
  BY <1>4 DEF QueuedOK
<1>6. \A n \in DOMAIN s.thens : ThenOK(t, n)
  <2> SUFFICES ASSUME NEW n \in DOMAIN s.thens PROVE ThenOK(t, n)
    OBVIOUS
  <2>1. ThenOK(s, n) /\ t.thens[n] = s.thens[n]
    BY DEF RefInv, Grows
  <2>2. s.thens[n].p \in DOMAIN t.prom /\ s.thens[n].cap \in {0} \cup DOMAIN t.pair
    BY <2>1 DEF ThenOK, Grows
  <2>3. \A x \in Sides : FunctionOK(t, s.thens[n].fns[x])
    BY <1>2, <2>1 DEF ThenOK
  <2> QED BY <2>1, <2>2, <2>3 DEF ThenOK
<1> QED BY <1>1, <1>2, <1>3, <1>4, <1>5, <1>6

\* So only what is new needs to be looked at.
LEMMA RefFrom ==
    ASSUME NEW s, NEW t, RefInv(s), Grows(s, t), t \in States,
           \A k \in DOMAIN t.pair : k \in DOMAIN s.pair \/ t.pair[k].promise \in DOMAIN t.prom,
           \A c \in DOMAIN t.comb : (c \in DOMAIN s.comb /\ t.comb[c] = s.comb[c]) \/ CombOK(t, c),
           \A n \in DOMAIN t.thens : n \in DOMAIN s.thens \/ ThenOK(t, n),
           \A h \in t.held : h \in s.held \/ HeldOK(t, h),
           \A i \in DOMAIN t.jobs : (\E j \in DOMAIN s.jobs : t.jobs[i] = s.jobs[j]) \/ QueuedOK(t, t.jobs[i]),
           \A p \in DOMAIN t.prom : (p \in DOMAIN s.prom /\ t.prom[p] = s.prom[p]) \/ PromiseOK(t, p)
    PROVE  RefInv(t)
<1>1. \A k \in DOMAIN t.pair : t.pair[k].promise \in DOMAIN t.prom
  BY DEF RefInv, Grows
<1>2. \A c \in DOMAIN t.comb : CombOK(t, c)
  <2> SUFFICES ASSUME NEW c \in DOMAIN s.comb, t.comb[c] = s.comb[c] PROVE CombOK(t, c)
    OBVIOUS
  <2>1. CombOK(s, c)
    BY DEF RefInv
  <2> QED BY <2>1 DEF CombOK, Grows
<1>3. \A n \in DOMAIN t.thens : ThenOK(t, n)
  BY GrowsKeeps
<1>4. \A h \in t.held : HeldOK(t, h)
  BY GrowsKeeps DEF RefInv
<1>5. \A i \in DOMAIN t.jobs : QueuedOK(t, t.jobs[i])
  <2> SUFFICES ASSUME NEW i \in DOMAIN t.jobs, NEW j \in DOMAIN s.jobs, t.jobs[i] = s.jobs[j]
               PROVE  QueuedOK(t, t.jobs[i])
    OBVIOUS
  <2>1. QueuedOK(s, s.jobs[j]) /\ s.jobs[j] \in Entries
    BY Elements DEF RefInv
  <2> QED BY <2>1, GrowsKeeps
<1>6. \A p \in DOMAIN t.prom : PromiseOK(t, p)
  <2> SUFFICES ASSUME NEW p \in DOMAIN s.prom, t.prom[p] = s.prom[p] PROVE PromiseOK(t, p)
    OBVIOUS
  <2>1. PromiseOK(s, p)
    BY DEF RefInv
  <2>2. ValueOK(t, t.prom[p].result)
    BY <2>1, GrowsKeeps DEF PromiseOK
  <2>3. ASSUME NEW x \in Sides, NEW i \in DOMAIN t.prom[p].reactions[x]
        PROVE  ListedOK(t, p, x, t.prom[p].reactions[x][i])
    <3> DEFINE r == t.prom[p].reactions[x][i]
    <3>1. ListedOK(s, p, x, r)
      BY <2>1, <2>3 DEF PromiseOK
    <3> HIDE DEF r
    <3>2. r.n \in DOMAIN s.thens /\ t.thens[r.n] = s.thens[r.n] /\ r.n \in DOMAIN t.thens
      BY <3>1 DEF ListedOK, Grows
    <3>3. ListedOK(t, p, x, r)
      BY <3>1, <3>2 DEF ListedOK
    <3> QED BY <3>3 DEF r
  <2> QED BY <2>1, <2>2, <2>3 DEF PromiseOK
<1> QED BY <1>1, <1>2, <1>3, <1>4, <1>5, <1>6 DEF RefInv

LEMMA CapRef ==
    ASSUME NEW s, NEW t, RefInv(s), CapEffect(s, t)
    PROVE  Grows(s, t) /\ RefInv(t)
<1>1. Grows(s, t)
  BY DEF CapEffect, Added, Grows
<1>2. \A p \in DOMAIN t.prom : (p \in DOMAIN s.prom /\ t.prom[p] = s.prom[p]) \/ PromiseOK(t, p)
  <2> SUFFICES ASSUME NEW p \in DOMAIN t.prom, t.prom[p] = Fresh PROVE PromiseOK(t, p)
    BY DEF CapEffect, Added
  <2>1. t.prom[p].result[1] = "val" /\ t.prom[p].state = "pending"
    BY DEF Fresh, Undefined
  <2>2. \A x \in Sides : t.prom[p].reactions[x] = <<>>
    BY DEF Fresh, Both
  <2> QED BY <2>1, <2>2 DEF PromiseOK, ValueOK
<1>3. \A k \in DOMAIN t.pair : k \in DOMAIN s.pair \/ t.pair[k].promise \in DOMAIN t.prom
  BY DEF CapEffect, Added
<1>4. /\ t.comb = s.comb /\ t.jobs = s.jobs /\ t.held = s.held /\ t.thens = s.thens /\ t \in States
  BY DEF CapEffect
<1> QED BY <1>1, <1>2, <1>3, <1>4, RefFrom

LEMMA FollowRef ==
    ASSUME NEW s, NEW t, NEW k \in DOMAIN s.pair, NEW v \in AllValues, RefInv(s), FollowEffect(s, t, k, v),
           ValueOK(s, v), v[1] \in {"prom", "thenable"}
    PROVE  Grows(s, t) /\ RefInv(t)
<1>1. UsedPair(s, k).promise = s.pair[k].promise /\ UsedPair(s, k).done = TRUE
  BY UsedPairIs DEF RefInv
<1>2. Grows(s, t)
  BY <1>1 DEF FollowEffect, Changed, Grows
<1>3. \A i \in DOMAIN t.jobs : (\E j \in DOMAIN s.jobs : t.jobs[i] = s.jobs[j]) \/ QueuedOK(t, t.jobs[i])
  <2> SUFFICES ASSUME NEW i \in DOMAIN t.jobs, t.jobs[i] = Follow(s.pair[k].promise, v)
               PROVE  QueuedOK(t, t.jobs[i])
    BY DEF FollowEffect, Added
  <2>1. ValueOK(t, v) /\ s.pair[k].promise \in DOMAIN t.prom
    BY <1>2, GrowsKeeps DEF RefInv, Grows
  <2>2. t.jobs[i].job = "thenable" /\ t.jobs[i].promise = s.pair[k].promise /\ t.jobs[i].v = v
    BY DEF Follow, Entry
  <2> QED BY <2>1, <2>2 DEF QueuedOK, JobOK
<1>4. /\ t.comb = s.comb /\ t.prom = s.prom /\ t.held = s.held /\ t.thens = s.thens /\ t \in States
      /\ DOMAIN t.pair = DOMAIN s.pair
  BY DEF FollowEffect, Changed
<1> QED BY <1>2, <1>3, <1>4, RefFrom

\* What a promise may be settled with: its combinator's array too.
Giveable(s, k, v) ==
    ValueOK(s, v) \/ (v[1] \in {"array", "aggregate"} /\ v[2] \in DOMAIN s.comb /\ s.comb[v[2]].k = k)

Final(side, v) == side = 0 => v[1] \notin {"prom", "thenable", "broken"}

LEMMA SettleRef ==
    ASSUME NEW s, NEW t, NEW k \in DOMAIN s.pair, NEW side \in Sides, NEW v \in AllValues, RefInv(s),
           Pending(s, s.pair[k].promise), SettleEffect(s, t, k, side, v), Giveable(s, k, v),
           Final(side, v)
    PROVE  Grows(s, t) /\ RefInv(t)
<1> DEFINE p == s.pair[k].promise
           rs == s.prom[p].reactions[side]
           js == [n \in DOMAIN rs |-> Job(rs[n], side, v)]
<1>4. p \in DOMAIN s.prom /\ s \in States
  BY DEF RefInv
<1>1. UsedPair(s, k).promise = p /\ UsedPair(s, k).done = TRUE
  BY <1>4, UsedPairIs, Zenon
<1>2. /\ Changed(s.pair, t.pair, k, UsedPair(s, k)) /\ Joined(s.jobs, t.jobs, js)
      /\ t.comb = s.comb /\ t.held = s.held /\ t.thens = s.thens /\ t.ran = s.ran /\ t \in States
  BY Zenon DEF SettleEffect
<1>3. /\ DOMAIN t.prom = DOMAIN s.prom /\ \A q \in DOMAIN s.prom : q # p => t.prom[q] = s.prom[q]
      /\ t.prom[p].state = Outcome(side) /\ t.prom[p].result = v
      /\ \A x \in Sides : t.prom[p].reactions[x] = <<>>
  <2> DEFINE e == [state |-> Outcome(side), result |-> v, reactions |-> Both(<<>>, <<>>),
                   handled |-> s.prom[p].handled]
  <2>1. Changed(s.prom, t.prom, p, e)
    BY Zenon DEF SettleEffect
  <2>2. e.state = Outcome(side) /\ e.result = v /\ \A x \in Sides : e.reactions[x] = <<>>
    BY DEF Both
  <2> HIDE DEF e
  <2> QED BY <2>1, <2>2 DEF Changed
<1> HIDE DEF p
<1>5. Grows(s, t)
  <2>1. \A q \in DOMAIN s.prom : ~Pending(s, q) => q # p
    BY DEF p
  <2>2. \A q \in DOMAIN s.prom :
          /\ q \in DOMAIN t.prom
          /\ ~Pending(s, q) => t.prom[q].state = s.prom[q].state /\ t.prom[q].result = s.prom[q].result
    BY <1>3, <2>1
  <2>3. \A l \in DOMAIN s.pair :
          /\ l \in DOMAIN t.pair /\ t.pair[l].promise = s.pair[l].promise
          /\ s.pair[l].done => t.pair[l].done
    BY ZenonT(60), <1>1, <1>2 DEF Changed, p
  <2> QED BY <1>2, <2>2, <2>3 DEF Grows
<1>6. ValueOK(t, v)
  <2>1. CASE ValueOK(s, v)
    BY <1>5, <2>1, GrowsKeeps
  <2>2. CASE v[1] \in {"array", "aggregate"} /\ v[2] \in DOMAIN s.comb /\ s.comb[v[2]].k = k
    <3>1. t.pair[t.comb[v[2]].k].promise = p
      BY <1>1, <1>2, <2>2 DEF Changed
    <3>2. ~Pending(t, p) /\ t.prom[p].result = v
      BY <1>3 DEF Pending, Outcome
    <3>3. v[1] # "prom" /\ v[2] \in DOMAIN t.comb
      BY <1>2, <2>2
    <3> QED BY <3>1, <3>2, <3>3 DEF ValueOK
  <2> QED BY <2>1, <2>2 DEF Giveable
<1>7. \A q \in DOMAIN t.prom : (q \in DOMAIN s.prom /\ t.prom[q] = s.prom[q]) \/ PromiseOK(t, q)
  <2>1. PromiseOK(t, p)
    BY <1>3, <1>6 DEF PromiseOK, Outcome, Sides, Final
  <2> QED BY <1>3, <2>1
<1>8. \A i \in DOMAIN t.jobs : (\E j \in DOMAIN s.jobs : t.jobs[i] = s.jobs[j]) \/ QueuedOK(t, t.jobs[i])
  <2>1. ASSUME NEW n \in DOMAIN rs PROVE QueuedOK(t, Job(rs[n], side, v))
    <3> DEFINE r == rs[n]
               j == Job(r, side, v)
    <3>1. /\ j.job = "reaction" /\ j.n = r.n /\ j.cap = r.cap /\ j.handler = r.handler
          /\ j.side = side /\ j.v = v
      BY DEF Job, Entry
    <3>2. ListedOK(s, p, side, r)
      BY <1>4 DEF RefInv, PromiseOK
    <3> HIDE DEF r, j
    <3>3. /\ r.n \in DOMAIN t.thens /\ t.thens[r.n].p = p /\ t.thens[r.n].cap = r.cap
          /\ t.thens[r.n].fns[side] = r.handler
      BY <1>2, <3>2 DEF ListedOK
    <3>4. QueuedOK(t, j)
      BY <1>3, <3>1, <3>3 DEF QueuedOK, JobOK
    <3> QED BY <3>4 DEF j, r
  <2>2. \A n \in DOMAIN js : n \in DOMAIN rs /\ js[n] = Job(rs[n], side, v)
    OBVIOUS
  <2> HIDE DEF js, rs
  <2>3. \A i \in DOMAIN t.jobs : (i \in DOMAIN s.jobs /\ t.jobs[i] = s.jobs[i])
                                 \/ \E n \in DOMAIN js : t.jobs[i] = js[n]
    BY <1>2 DEF Joined
  <2> QED BY <2>1, <2>2, <2>3
<1>9. DOMAIN t.pair = DOMAIN s.pair
  BY <1>2 DEF Changed
<1> QED BY <1>2, <1>5, <1>7, <1>8, <1>9, RefFrom

LEMMA ThenRef ==
    ASSUME NEW s, NEW t, NEW p \in DOMAIN s.prom, NEW fns \in [Sides -> AllFunctions],
           NEW cap \in {0} \cup DOMAIN s.pair, RefInv(s), ThenEffect(s, t, p, fns, cap),
           \A x \in Sides : FunctionOK(s, fns[x])
    PROVE  Grows(s, t) /\ RefInv(t)
<1> DEFINE q == s.prom[p]
           side == IF q.state = "rejected" THEN 1 ELSE 0
           m == Len(s.thens) + 1
<1>1. /\ Added(s.thens, t.thens, [p |-> p, fns |-> fns, cap |-> cap])
      /\ Changed(s.prom, t.prom, p, t.prom[p])
      /\ t.prom[p].state = q.state /\ t.prom[p].result = q.result
      /\ t.comb = s.comb /\ t.held = s.held /\ t.pair = s.pair /\ t.ran = s.ran /\ t \in States
  BY DEF ThenEffect
<1>2. Grows(s, t)
  BY <1>1 DEF Changed, Added, Grows
<1>3. /\ m \in DOMAIN t.thens /\ t.thens[m].p = p /\ t.thens[m].fns = fns /\ t.thens[m].cap = cap
      /\ \A n \in DOMAIN t.thens : n \in DOMAIN s.thens \/ n = m
  BY <1>1 DEF Added
<1>4. ThenOK(t, m)
  <2>1. p \in DOMAIN t.prom /\ cap \in {0} \cup DOMAIN t.pair
    BY <1>1 DEF Changed
  <2>2. \A x \in Sides : FunctionOK(t, fns[x])
    BY <1>2, GrowsKeeps
  <2> QED BY <1>3, <2>1, <2>2 DEF ThenOK
<1>5. \A x \in Sides : LET r == Listed1(s, fns, cap, x) IN r.n = m /\ r.cap = cap /\ r.handler = fns[x]
  BY DEF Listed1
<1>6. PromiseOK(t, p)
  <2>1. PromiseOK(s, p)
    BY DEF RefInv
  <2>2. ValueOK(t, t.prom[p].result)
    BY <1>1, <1>2, <2>1, GrowsKeeps DEF PromiseOK
  <2>3. ASSUME NEW x \in Sides, NEW i \in DOMAIN t.prom[p].reactions[x]
        PROVE  ListedOK(t, p, x, t.prom[p].reactions[x][i])
    <3> DEFINE r == t.prom[p].reactions[x][i]
    <3>1. (i \in DOMAIN q.reactions[x] /\ r = q.reactions[x][i]) \/ r = Listed1(s, fns, cap, x)
      BY SMTT(40), <2>3 DEF ThenEffect, Added
    <3>2. CASE i \in DOMAIN q.reactions[x] /\ r = q.reactions[x][i]
      <4>1. ListedOK(s, p, x, r)
        BY <2>1, <3>2 DEF PromiseOK
      <4> HIDE DEF r
      <4>2. r.n \in DOMAIN s.thens /\ t.thens[r.n] = s.thens[r.n] /\ r.n \in DOMAIN t.thens
        BY <1>2, <4>1 DEF ListedOK, Grows
      <4>3. ListedOK(t, p, x, r)
        BY <4>1, <4>2 DEF ListedOK
      <4> QED BY <4>3 DEF r
    <3>3. CASE r = Listed1(s, fns, cap, x)
      <4>1. r.n = m /\ r.cap = cap /\ r.handler = fns[x]
        BY <1>5, <3>3
      <4> HIDE DEF r, m
      <4>2. ListedOK(t, p, x, r)
        BY <1>3, <4>1 DEF ListedOK
      <4> QED BY <4>2 DEF r
    <3> QED BY <3>1, <3>2, <3>3
  <2>4. t.prom[p].state = "fulfilled" => t.prom[p].result[1] \notin {"prom", "thenable", "broken"}
    BY <1>1, <2>1 DEF PromiseOK
  <2> QED BY <2>2, <2>3, <2>4 DEF PromiseOK
<1>7. \A i \in DOMAIN t.jobs : (\E j \in DOMAIN s.jobs : t.jobs[i] = s.jobs[j]) \/ QueuedOK(t, t.jobs[i])
  <2>1. CASE Pending(s, p)
    BY <2>1 DEF ThenEffect
  <2>2. CASE ~Pending(s, p)
    <3> DEFINE j == Job(Listed1(s, fns, cap, side), side, q.result)
    <3>1. side \in Sides /\ q.state = Outcome(side)
      <4>1. q \in Promises
        BY Elements DEF RefInv
      <4> QED BY <2>2, <4>1 DEF Sides, Outcome, Pending, Promises
    <3>2. /\ j.job = "reaction" /\ j.n = m /\ j.cap = cap /\ j.handler = fns[side]
          /\ j.side = side /\ j.v = q.result
      BY <1>5, <3>1 DEF Job, Entry
    <3>3. Added(s.jobs, t.jobs, j)
      BY <2>2 DEF ThenEffect
    <3> HIDE DEF j, m, side
    <3>4. QueuedOK(t, j)
      BY <1>1, <1>3, <3>1, <3>2 DEF QueuedOK, JobOK
    <3> QED BY <3>3, <3>4 DEF Added
  <2> QED BY <2>1, <2>2
<1>8. \A n \in DOMAIN t.thens : n \in DOMAIN s.thens \/ ThenOK(t, n)
  BY <1>3, <1>4
<1>9. \A n \in DOMAIN t.prom : (n \in DOMAIN s.prom /\ t.prom[n] = s.prom[n]) \/ PromiseOK(t, n)
  BY <1>1, <1>6 DEF Changed
<1> QED BY <1>1, <1>2, <1>7, <1>8, <1>9, RefFrom

LEMMA PopRef ==
    ASSUME NEW s, NEW t, NEW j, RefInv(s), PopEffect(s, t, j)
    PROVE  Grows(s, t) /\ RefInv(t)
<1>1. Grows(s, t)
  BY DEF PopEffect, Grows
<1>2. \A i \in DOMAIN t.jobs : \E n \in DOMAIN s.jobs : t.jobs[i] = s.jobs[n]
  BY DEF PopEffect, Shifted
<1>3. /\ t.prom = s.prom /\ t.pair = s.pair /\ t.comb = s.comb /\ t.held = s.held /\ t.thens = s.thens
      /\ t \in States
  BY DEF PopEffect
<1> QED BY <1>1, <1>2, <1>3, RefFrom

LEMMA PopPairRef ==
    ASSUME NEW s, NEW t, NEW j, RefInv(s), PopPairEffect(s, t, j)
    PROVE  Grows(s, t) /\ RefInv(t) /\ j.promise \in DOMAIN s.prom
<1>1. Grows(s, t)
  BY DEF PopPairEffect, Added, Grows
<1>2. \A i \in DOMAIN t.jobs : \E n \in DOMAIN s.jobs : t.jobs[i] = s.jobs[n]
  BY DEF PopPairEffect, Shifted
<1>3. /\ t.prom = s.prom /\ t.comb = s.comb /\ t.held = s.held /\ t.thens = s.thens /\ t \in States
  BY DEF PopPairEffect
<1>4. j.promise \in DOMAIN s.prom
  BY DEF PopPairEffect, Shifted, RefInv, QueuedOK, JobOK
<1>5. \A k \in DOMAIN t.pair : k \in DOMAIN s.pair \/ t.pair[k].promise \in DOMAIN t.prom
  BY <1>3, <1>4 DEF PopPairEffect, Added
<1> QED BY <1>1, <1>2, <1>3, <1>4, <1>5, RefFrom

LEMMA CallbackRef ==
    ASSUME NEW s, NEW t, RefInv(s), CallbackEffect(s, t)
    PROVE  Grows(s, t) /\ RefInv(t)
<1>1. Grows(s, t)
  BY DEF CallbackEffect, Grows
<1>2. QueuedOK(t, Simple("finrec"))
  BY DEF QueuedOK, JobOK, Simple, Entry
<1>3. \A i \in DOMAIN t.jobs : (\E n \in DOMAIN s.jobs : t.jobs[i] = s.jobs[n]) \/ QueuedOK(t, t.jobs[i])
  BY <1>2 DEF CallbackEffect, Added
<1>4. /\ t.prom = s.prom /\ t.pair = s.pair /\ t.comb = s.comb /\ t.held = s.held /\ t.thens = s.thens
      /\ t \in States
  BY DEF CallbackEffect
<1> QED BY <1>1, <1>3, <1>4, RefFrom

LEMMA HeldRef ==
    ASSUME NEW s, NEW t, NEW H, RefInv(s), HeldEffect(s, t, H), \A h \in H : HeldOK(s, h)
    PROVE  Grows(s, t) /\ RefInv(t)
<1>1. Grows(s, t)
  BY DEF HeldEffect, QuietEffect, Grows
<1>2. \A h \in t.held : h \in s.held \/ HeldOK(t, h)
  BY <1>1, GrowsKeeps DEF HeldEffect
<1>3. /\ t.prom = s.prom /\ t.pair = s.pair /\ t.comb = s.comb /\ t.jobs = s.jobs /\ t.thens = s.thens
      /\ t \in States
  BY DEF HeldEffect, QuietEffect
<1> QED BY <1>1, <1>2, <1>3, RefFrom

LEMMA FinalRef ==
    ASSUME NEW s, NEW t, NEW f, RefInv(s), FinalEffect(s, t, f)
    PROVE  Grows(s, t) /\ RefInv(t)
<1>1. Grows(s, t)
  BY DEF FinalEffect, QuietEffect, Grows
<1>2. /\ t.prom = s.prom /\ t.pair = s.pair /\ t.comb = s.comb /\ t.jobs = s.jobs /\ t.thens = s.thens
      /\ t.held = s.held /\ t \in States
  BY DEF FinalEffect, QuietEffect
<1> QED BY <1>1, <1>2, RefFrom

LEMMA NewCombRef ==
    ASSUME NEW s, NEW t, NEW kind, NEW k \in DOMAIN s.pair, RefInv(s), NewCombEffect(s, t, kind, k)
    PROVE  Grows(s, t) /\ RefInv(t)
<1> DEFINE c == Len(s.comb) + 1
<1>1. /\ t.prom = s.prom /\ t.pair = s.pair /\ t.jobs = s.jobs /\ t.thens = s.thens /\ t.ran = s.ran
      /\ t.held = s.held /\ t \in States
  BY DEF NewCombEffect, QuietEffect
<1>2. /\ \A d \in DOMAIN s.comb : d \in DOMAIN t.comb /\ t.comb[d] = s.comb[d]
      /\ \A d \in DOMAIN t.comb : d \in DOMAIN s.comb \/ d = c
      /\ c \in DOMAIN t.comb /\ t.comb[c].k = k /\ t.comb[c].values = <<>> /\ t.comb[c].items = <<>>
      /\ t.comb[c].called = {}
  BY DEF NewCombEffect, Added
<1>3. Grows(s, t)
  BY <1>1, <1>2 DEF Grows
<1>4. CombOK(t, c)
  BY <1>1, <1>2 DEF CombOK
<1> QED BY <1>1, <1>2, <1>3, <1>4, RefFrom

\* One combinator is changed and keeps its references good.
LEMMA CombRef ==
    ASSUME NEW s, NEW t, NEW c \in DOMAIN s.comb, RefInv(s), CombEffect(s, t, c), CombOK(t, c),
           t.comb[c].k = s.comb[c].k, t.comb[c].kind = s.comb[c].kind,
           \A n \in DOMAIN s.comb[c].items : n \in DOMAIN t.comb[c].items,
           s.comb[c].called \subseteq t.comb[c].called
    PROVE  Grows(s, t) /\ RefInv(t)
<1>1. /\ t.prom = s.prom /\ t.pair = s.pair /\ t.jobs = s.jobs /\ t.thens = s.thens /\ t.ran = s.ran
      /\ t.held = s.held /\ t \in States
  BY DEF CombEffect, QuietEffect
<1>2. DOMAIN t.comb = DOMAIN s.comb /\ \A d \in DOMAIN s.comb : d # c => t.comb[d] = s.comb[d]
  BY DEF CombEffect, Changed
<1>3. Grows(s, t)
  BY <1>1, <1>2 DEF Grows
<1>4. \A d \in DOMAIN t.comb : (d \in DOMAIN s.comb /\ t.comb[d] = s.comb[d]) \/ CombOK(t, d)
  BY <1>2
<1> QED BY <1>1, <1>3, <1>4, RefFrom

LEMMA CountRef ==
    ASSUME NEW s, NEW t, NEW c \in DOMAIN s.comb, NEW p \in DOMAIN s.prom, NEW native, RefInv(s),
           CountEffect(s, t, c, p, native)
    PROVE  Grows(s, t) /\ RefInv(t) /\ Len(t.comb[c].items) \in DOMAIN t.comb[c].items
           /\ Len(t.comb[c].items) = Len(s.comb[c].items) + 1
<1> DEFINE m == Len(s.comb[c].items) + 1
<1>1. CombOK(s, c)
  BY DEF RefInv
<1>2. /\ \A n \in DOMAIN s.comb[c].items : /\ n \in DOMAIN t.comb[c].items
                                           /\ t.comb[c].items[n] = s.comb[c].items[n]
      /\ \A n \in DOMAIN t.comb[c].items : n \in DOMAIN s.comb[c].items \/ n = m
      /\ m \in DOMAIN t.comb[c].items /\ t.comb[c].items[m].p = p
      /\ Len(t.comb[c].items) = m
  BY DEF CountEffect, Added
<1>3. CombEffect(s, t, c) /\ t.pair = s.pair /\ t.prom = s.prom
  BY DEF CountEffect, CombEffect, QuietEffect
<1>4. DOMAIN t.comb[c].values = DOMAIN t.comb[c].items
  <2>1. DOMAIN t.comb[c].values = 1..(Len(s.comb[c].values) + 1) /\ DOMAIN t.comb[c].items = 1..m
        /\ DOMAIN s.comb[c].values = 1..Len(s.comb[c].values) /\ DOMAIN s.comb[c].items = 1..Len(s.comb[c].items)
        /\ Len(s.comb[c].values) \in Nat /\ Len(s.comb[c].items) \in Nat
    BY DEF CountEffect, Added
  <2>2. DOMAIN s.comb[c].values = DOMAIN s.comb[c].items
    BY <1>1 DEF CombOK
  <2> QED BY <2>1, <2>2, SMT
<1>5. /\ t.comb[c].kind = s.comb[c].kind /\ t.comb[c].k = s.comb[c].k
      /\ t.comb[c].called = s.comb[c].called
  BY DEF CountEffect
<1> HIDE DEF m
<1>6. CombOK(t, c)
  <2>1. t.comb[c].called \subseteq (DOMAIN t.comb[c].items) \X Sides
    BY <1>1, <1>2, <1>5 DEF CombOK
  <2> QED BY <1>1, <1>2, <1>3, <1>4, <1>5, <2>1 DEF CombOK
<1>7. Grows(s, t) /\ RefInv(t)
  BY <1>2, <1>3, <1>5, <1>6, CombRef
<1> QED BY <1>2, <1>7 DEF m

LEMMA EndRef ==
    ASSUME NEW s, NEW t, NEW c \in DOMAIN s.comb, NEW r, RefInv(s), EndEffect(s, t, c, r)
    PROVE  Grows(s, t) /\ RefInv(t)
<1>1. CombOK(s, c)
  BY DEF RefInv
<1>2. CombEffect(s, t, c) /\ t.pair = s.pair /\ t.prom = s.prom
  BY DEF EndEffect, CombEffect, QuietEffect
<1>3. /\ t.comb[c].kind = s.comb[c].kind /\ t.comb[c].k = s.comb[c].k /\ t.comb[c].items = s.comb[c].items
      /\ t.comb[c].values = s.comb[c].values /\ t.comb[c].called = s.comb[c].called
  BY DEF EndEffect
<1>4. CombOK(t, c)
  BY <1>1, <1>2, <1>3 DEF CombOK
<1> QED BY <1>2, <1>3, <1>4, CombRef

LEMMA AnswerRef ==
    ASSUME NEW s, NEW t, NEW c \in DOMAIN s.comb, NEW n \in DOMAIN s.comb[c].items, NEW side \in Sides, NEW v,
           RefInv(s), s.comb[c].kind # "race", AnswerEffect(s, t, c, n, side, v)
    PROVE  Grows(s, t) /\ RefInv(t)
<1>1. CombOK(s, c)
  BY DEF RefInv
<1>2. CombEffect(s, t, c) /\ t.pair = s.pair /\ t.prom = s.prom
  BY DEF AnswerEffect, CombEffect, QuietEffect
<1>3. /\ t.comb[c].kind = s.comb[c].kind /\ t.comb[c].k = s.comb[c].k /\ t.comb[c].items = s.comb[c].items
      /\ DOMAIN t.comb[c].values = DOMAIN s.comb[c].values
      /\ t.comb[c].called = s.comb[c].called \cup {<<n, side>>}
  BY DEF AnswerEffect, Changed
<1>4. CombOK(t, c)
  BY <1>1, <1>2, <1>3 DEF CombOK
<1> QED BY <1>2, <1>3, <1>4, CombRef

-----------------------------------------------------------------------------
(***************************************************************************)
(* A promise is settled once: who may settle it.                           *)
(***************************************************************************)
LEMMA CapSettle ==
    ASSUME NEW s, NEW t, RefInv(s), SettleInv(s), CapEffect(s, t)
    PROVE  SettleInv(t)
<1> DEFINE m == Len(s.pair) + 1
           p == Len(s.prom) + 1
<1>1. /\ \A k \in DOMAIN s.pair : k \in DOMAIN t.pair /\ k # m /\ t.pair[k] = s.pair[k]
      /\ \A k \in DOMAIN t.pair : k \in DOMAIN s.pair \/ k = m
      /\ t.pair[m].promise = p
  BY DEF CapEffect, Added
<1>2. /\ \A q \in DOMAIN s.prom : q # p /\ t.prom[q] = s.prom[q]
      /\ t.prom[p].state = "pending"
  BY DEF CapEffect, Added, Fresh
<1>3. t.jobs = s.jobs /\ t.twice = s.twice
  BY DEF CapEffect
<1>4. \A k \in DOMAIN s.pair : s.pair[k].promise \in DOMAIN s.prom
  BY DEF RefInv
<1>5. \A i \in DOMAIN s.jobs : Waits(s, i) => s.jobs[i].promise \in DOMAIN s.prom
  BY DEF RefInv, QueuedOK, JobOK, Waits
<1> HIDE DEF m, p
<1>6. \A k, l \in DOMAIN t.pair :
          Unused(t, k) /\ Unused(t, l) /\ t.pair[k].promise = t.pair[l].promise => k = l
  BY <1>1, <1>2, <1>4 DEF SettleInv, Unused
<1>7. \A k \in DOMAIN t.pair, i \in DOMAIN t.jobs :
          Unused(t, k) /\ Waits(t, i) => t.pair[k].promise # t.jobs[i].promise
  BY <1>1, <1>2, <1>3, <1>5 DEF SettleInv, Unused, Waits
<1>8. \A k \in DOMAIN t.pair : Unused(t, k) => Pending(t, t.pair[k].promise)
  BY <1>1, <1>2, <1>4 DEF SettleInv, Unused, Pending
<1>9. \A i \in DOMAIN t.jobs : Waits(t, i) => Pending(t, t.jobs[i].promise)
  BY <1>2, <1>3, <1>5 DEF SettleInv, Waits, Pending
<1> QED BY <1>3, <1>6, <1>7, <1>8, <1>9 DEF SettleInv, Waits

LEMMA FollowSettle ==
    ASSUME NEW s, NEW t, NEW k \in DOMAIN s.pair, NEW v, RefInv(s), SettleInv(s), FollowEffect(s, t, k, v),
           ~s.pair[k].done
    PROVE  SettleInv(t)
<1> DEFINE m == Len(s.jobs) + 1
           p == s.pair[k].promise
<1>1. UsedPair(s, k).promise = p /\ UsedPair(s, k).done = TRUE
  BY UsedPairIs DEF RefInv
<1>2. /\ DOMAIN t.pair = DOMAIN s.pair
      /\ \A l \in DOMAIN s.pair : l # k => t.pair[l] = s.pair[l]
      /\ t.pair[k].promise = p /\ t.pair[k].done
  BY <1>1 DEF FollowEffect, Changed
<1>3. /\ \A i \in DOMAIN s.jobs : i \in DOMAIN t.jobs /\ i # m /\ t.jobs[i] = s.jobs[i]
      /\ \A i \in DOMAIN t.jobs : i \in DOMAIN s.jobs \/ i = m
      /\ t.jobs[m].job = "thenable" /\ t.jobs[m].promise = p
  BY DEF FollowEffect, Added, Follow, Entry
<1>4. t.prom = s.prom /\ t.twice = s.twice
  BY DEF FollowEffect
<1>5. Unused(s, k) /\ Pending(s, p)
  BY DEF Unused, SettleInv
<1>6. /\ \A l \in DOMAIN t.pair : Unused(t, l) => l # k /\ Unused(s, l) /\ t.pair[l].promise = s.pair[l].promise
      /\ \A i \in DOMAIN t.jobs : Waits(t, i) /\ i # m => Waits(s, i) /\ t.jobs[i].promise = s.jobs[i].promise
  BY <1>2, <1>3 DEF Unused, Waits
<1> HIDE DEF m, p
<1>7. \A l \in DOMAIN s.pair : Unused(s, l) /\ l # k => s.pair[l].promise # p
  BY <1>5 DEF SettleInv, p
<1>8. \A i \in DOMAIN s.jobs : Waits(s, i) => s.jobs[i].promise # p
  BY <1>5 DEF SettleInv, p
<1>9. \A a, b \in DOMAIN t.pair :
          Unused(t, a) /\ Unused(t, b) /\ t.pair[a].promise = t.pair[b].promise => a = b
  BY <1>2, <1>6 DEF SettleInv
<1>10. \A i, j \in DOMAIN t.jobs :
          Waits(t, i) /\ Waits(t, j) /\ t.jobs[i].promise = t.jobs[j].promise => i = j
  BY <1>3, <1>6, <1>8 DEF SettleInv
<1>11. \A a \in DOMAIN t.pair, i \in DOMAIN t.jobs :
          Unused(t, a) /\ Waits(t, i) => t.pair[a].promise # t.jobs[i].promise
  BY <1>2, <1>3, <1>6, <1>7 DEF SettleInv
<1>12. \A a \in DOMAIN t.pair : Unused(t, a) => Pending(t, t.pair[a].promise)
  BY <1>2, <1>4, <1>6 DEF SettleInv, Pending
<1>13. \A i \in DOMAIN t.jobs : Waits(t, i) => Pending(t, t.jobs[i].promise)
  BY <1>3, <1>4, <1>5, <1>6 DEF SettleInv, Pending
<1> QED BY <1>4, <1>9, <1>10, <1>11, <1>12, <1>13 DEF SettleInv

\* What settling does, without its record.
SettleFacts(s, t, k, side, v, p, rs) ==
    /\ t \in States
    /\ DOMAIN t.pair = DOMAIN s.pair
    /\ \A l \in DOMAIN s.pair : l # k => t.pair[l] = s.pair[l]
    /\ t.pair[k].promise = p /\ t.pair[k].done
    /\ p \in DOMAIN s.prom
    /\ DOMAIN t.prom = DOMAIN s.prom /\ \A q \in DOMAIN s.prom : q # p => t.prom[q] = s.prom[q]
    /\ t.prom[p].state = Outcome(side) /\ t.prom[p].result = v
    /\ t.prom[p].handled = s.prom[p].handled
    /\ \A x \in Sides : t.prom[p].reactions[x] = <<>>
    /\ Len(s.jobs) \in Nat /\ DOMAIN s.jobs = 1..Len(s.jobs) /\ DOMAIN rs = 1..Len(rs)
    /\ \A i \in DOMAIN s.jobs : i \in DOMAIN t.jobs /\ t.jobs[i] = s.jobs[i]
    /\ \A i \in DOMAIN rs : /\ Len(s.jobs) + i \in DOMAIN t.jobs
                            /\ t.jobs[Len(s.jobs) + i] = Job(rs[i], side, v)
    /\ \A i \in DOMAIN t.jobs : \/ i \in DOMAIN s.jobs
                                \/ /\ i > Len(s.jobs) /\ i - Len(s.jobs) \in DOMAIN rs
                                   /\ t.jobs[i] = Job(rs[i - Len(s.jobs)], side, v)
    /\ t.unhandled = IF side = 1 /\ ~s.prom[p].handled THEN s.unhandled \cup {p} ELSE s.unhandled
    /\ t.comb = s.comb /\ t.held = s.held
    /\ t.thens = s.thens /\ t.ran = s.ran /\ t.finals = s.finals /\ t.twice = s.twice

LEMMA SettleParts ==
    ASSUME NEW s, NEW t, NEW k \in DOMAIN s.pair, NEW side \in Sides, NEW v, RefInv(s),
           SettleEffect(s, t, k, side, v)
    PROVE  LET p == s.pair[k].promise IN SettleFacts(s, t, k, side, v, p, s.prom[p].reactions[side])
<1> DEFINE p == s.pair[k].promise
           rs == s.prom[p].reactions[side]
           js == [n \in DOMAIN rs |-> Job(rs[n], side, v)]
           e == [state |-> Outcome(side), result |-> v, reactions |-> Both(<<>>, <<>>),
                 handled |-> s.prom[p].handled]
<1>1. s \in States /\ p \in DOMAIN s.prom
  BY DEF RefInv
<1>2. UsedPair(s, k).promise = p /\ UsedPair(s, k).done = TRUE
  BY <1>1, UsedPairIs, Zenon
<1>3. /\ t \in States /\ Changed(s.pair, t.pair, k, UsedPair(s, k)) /\ Joined(s.jobs, t.jobs, js)
      /\ Changed(s.prom, t.prom, p, e)
      /\ t.unhandled = IF side = 1 /\ ~s.prom[p].handled THEN s.unhandled \cup {p} ELSE s.unhandled
      /\ t.comb = s.comb /\ t.held = s.held
      /\ t.thens = s.thens /\ t.ran = s.ran /\ t.finals = s.finals /\ t.twice = s.twice
  BY Zenon DEF SettleEffect
<1>4. /\ e.state = Outcome(side) /\ e.result = v /\ e.handled = s.prom[p].handled
      /\ \A x \in Sides : e.reactions[x] = <<>>
  BY DEF Both
<1>5. DOMAIN js = DOMAIN rs /\ \A i \in DOMAIN rs : js[i] = Job(rs[i], side, v)
  OBVIOUS
<1>6. DOMAIN rs = 1..Len(rs)
  <2>1. s.prom[p] \in Promises
    BY <1>1, Elements
  <2>2. rs \in Seq(Listeds)
    BY <2>1 DEF Promises
  <2> HIDE DEF rs
  <2> QED BY <2>2, LenProperties
<1> HIDE DEF e, js, rs, p
<1>7. /\ DOMAIN t.pair = DOMAIN s.pair
      /\ \A l \in DOMAIN s.pair : l # k => t.pair[l] = s.pair[l]
      /\ t.pair[k].promise = p /\ t.pair[k].done
  BY <1>2, <1>3 DEF Changed
<1>8. /\ DOMAIN t.prom = DOMAIN s.prom /\ \A q \in DOMAIN s.prom : q # p => t.prom[q] = s.prom[q]
      /\ t.prom[p].state = Outcome(side) /\ t.prom[p].result = v
      /\ t.prom[p].handled = s.prom[p].handled
      /\ \A x \in Sides : t.prom[p].reactions[x] = <<>>
  BY <1>3, <1>4 DEF Changed
<1>9. /\ Len(s.jobs) \in Nat /\ DOMAIN s.jobs = 1..Len(s.jobs)
      /\ \A i \in DOMAIN s.jobs : i \in DOMAIN t.jobs /\ t.jobs[i] = s.jobs[i]
      /\ \A i \in DOMAIN rs : /\ Len(s.jobs) + i \in DOMAIN t.jobs
                              /\ t.jobs[Len(s.jobs) + i] = Job(rs[i], side, v)
      /\ \A i \in DOMAIN t.jobs : \/ i \in DOMAIN s.jobs
                                  \/ /\ i > Len(s.jobs) /\ i - Len(s.jobs) \in DOMAIN rs
                                     /\ t.jobs[i] = Job(rs[i - Len(s.jobs)], side, v)
  BY <1>3, <1>5 DEF Joined
<1>10. SettleFacts(s, t, k, side, v, p, rs)
  BY <1>1, <1>3, <1>6, <1>7, <1>8, <1>9 DEF SettleFacts
<1> QED BY <1>10 DEF rs, p

LEMMA JobFields ==
    ASSUME NEW r, NEW x, NEW v
    PROVE  /\ Job(r, x, v).job = "reaction" /\ Job(r, x, v).n = r.n /\ Job(r, x, v).cap = r.cap
           /\ Job(r, x, v).handler = r.handler /\ Job(r, x, v).side = x /\ Job(r, x, v).v = v
BY DEF Job, Entry

LEMMA SettleSettle ==
    ASSUME NEW s, NEW t, NEW k \in DOMAIN s.pair, NEW side \in Sides, NEW v, RefInv(s), SettleInv(s),
           SettleEffect(s, t, k, side, v), ~s.pair[k].done
    PROVE  SettleInv(t)
<1> DEFINE p == s.pair[k].promise
           rs == s.prom[p].reactions[side]
<1>13. SettleFacts(s, t, k, side, v, p, rs)
  BY SettleParts
<1> HIDE DEF p, rs
<1>1. /\ DOMAIN t.pair = DOMAIN s.pair
      /\ \A l \in DOMAIN s.pair : l # k => t.pair[l] = s.pair[l]
      /\ t.pair[k].done
      /\ \A q \in DOMAIN s.prom : q # p => t.prom[q] = s.prom[q]
      /\ t.twice = s.twice
  BY <1>13 DEF SettleFacts
<1>2. \A i \in DOMAIN t.jobs : Waits(t, i) => i \in DOMAIN s.jobs /\ t.jobs[i] = s.jobs[i]
  <2>1. \A i \in DOMAIN t.jobs : (i \in DOMAIN s.jobs /\ t.jobs[i] = s.jobs[i]) \/ t.jobs[i].job = "reaction"
    BY <1>13, JobFields DEF SettleFacts
  <2> QED BY <2>1 DEF Waits
<1>3. Unused(s, k)
  BY DEF Unused
<1>4. \A l \in DOMAIN t.pair : Unused(t, l) => l # k /\ Unused(s, l) /\ t.pair[l] = s.pair[l]
  BY <1>1 DEF Unused
<1>5. \A i \in DOMAIN t.jobs : Waits(t, i) => Waits(s, i)
  BY <1>2 DEF Waits
<1>6. \A l \in DOMAIN s.pair : Unused(s, l) /\ l # k => s.pair[l].promise # p
  BY <1>3 DEF SettleInv, p
<1>7. \A i \in DOMAIN s.jobs : Waits(s, i) => s.jobs[i].promise # p
  BY <1>3 DEF SettleInv, p
<1>8. \A a, b \in DOMAIN t.pair :
          Unused(t, a) /\ Unused(t, b) /\ t.pair[a].promise = t.pair[b].promise => a = b
  BY <1>1, <1>4 DEF SettleInv
<1>9. \A i, j \in DOMAIN t.jobs :
          Waits(t, i) /\ Waits(t, j) /\ t.jobs[i].promise = t.jobs[j].promise => i = j
  BY <1>2, <1>5 DEF SettleInv
<1>10. \A a \in DOMAIN t.pair, i \in DOMAIN t.jobs :
          Unused(t, a) /\ Waits(t, i) => t.pair[a].promise # t.jobs[i].promise
  BY <1>1, <1>2, <1>4, <1>5 DEF SettleInv
<1>11. \A a \in DOMAIN t.pair : Unused(t, a) => Pending(t, t.pair[a].promise)
  <2> SUFFICES ASSUME NEW a \in DOMAIN t.pair, Unused(t, a) PROVE Pending(t, t.pair[a].promise)
    OBVIOUS
  <2>1. a \in DOMAIN s.pair /\ Unused(s, a) /\ t.pair[a] = s.pair[a] /\ s.pair[a].promise # p
    BY <1>1, <1>4, <1>6
  <2>2. Pending(s, s.pair[a].promise) /\ s.pair[a].promise \in DOMAIN s.prom
    BY <2>1 DEF SettleInv, RefInv
  <2> QED BY <1>1, <2>1, <2>2 DEF Pending
<1>12. \A i \in DOMAIN t.jobs : Waits(t, i) => Pending(t, t.jobs[i].promise)
  <2> SUFFICES ASSUME NEW i \in DOMAIN t.jobs, Waits(t, i) PROVE Pending(t, t.jobs[i].promise)
    OBVIOUS
  <2>1. i \in DOMAIN s.jobs /\ Waits(s, i) /\ t.jobs[i] = s.jobs[i] /\ s.jobs[i].promise # p
    BY <1>2, <1>5, <1>7
  <2>2. Pending(s, s.jobs[i].promise) /\ s.jobs[i].promise \in DOMAIN s.prom
    BY <2>1 DEF SettleInv, RefInv, QueuedOK, JobOK, Waits
  <2> QED BY <1>1, <2>1, <2>2 DEF Pending
<1> QED BY <1>1, <1>8, <1>9, <1>10, <1>11, <1>12 DEF SettleInv

\* What then does, without its records.
ThenFacts(s, t, p, fns, cap, m) ==
    /\ t \in States /\ t.pair = s.pair /\ t.comb = s.comb /\ t.held = s.held
    /\ t.ran = s.ran /\ t.finals = s.finals /\ t.twice = s.twice
    /\ DOMAIN t.prom = DOMAIN s.prom /\ \A q \in DOMAIN s.prom : q # p => t.prom[q] = s.prom[q]
    /\ \A q \in DOMAIN s.prom : t.prom[q].state = s.prom[q].state /\ t.prom[q].result = s.prom[q].result
    /\ t.prom[p].handled
    /\ \A n \in DOMAIN s.thens : n \in Nat /\ n \in DOMAIN t.thens /\ n < m /\ t.thens[n] = s.thens[n]
    /\ \A n \in DOMAIN t.thens : n \in DOMAIN s.thens \/ n = m
    /\ m \in Nat /\ m \notin DOMAIN s.thens /\ m \in DOMAIN t.thens
    /\ t.thens[m].p = p /\ t.thens[m].fns = fns /\ t.thens[m].cap = cap

LEMMA ThenParts ==
    ASSUME NEW s, NEW t, NEW p \in DOMAIN s.prom, NEW fns, NEW cap, ThenEffect(s, t, p, fns, cap)
    PROVE  ThenFacts(s, t, p, fns, cap, Len(s.thens) + 1)
BY SMTT(40) DEF ThenEffect, Changed, Added, ThenFacts

LEMMA ThenJobs ==
    ASSUME NEW s, NEW t, NEW p, NEW fns, NEW cap, s \in States, ThenEffect(s, t, p, fns, cap)
    PROVE  LET m == Len(s.jobs) + 1 IN
           /\ m \notin DOMAIN s.jobs
           /\ \A i \in DOMAIN s.jobs : i \in Nat /\ i \in DOMAIN t.jobs /\ i < m /\ t.jobs[i] = s.jobs[i]
           /\ \A i \in DOMAIN t.jobs : i \in Nat /\ (i \in DOMAIN s.jobs \/ i = m)
           /\ Pending(s, p) => m \notin DOMAIN t.jobs
           /\ ~Pending(s, p) => /\ m \in DOMAIN t.jobs
                                /\ t.jobs[m].job = "reaction" /\ t.jobs[m].n = Len(s.thens) + 1
<1>1. DOMAIN s.jobs = 1..Len(s.jobs) /\ Len(s.jobs) \in Nat
  BY Elements
<1>2. CASE Pending(s, p)
  <2>1. t.jobs = s.jobs
    BY <1>2 DEF ThenEffect
  <2> QED BY <1>1, <1>2, <2>1
<1>3. CASE ~Pending(s, p)
  <2> DEFINE side == IF s.prom[p].state = "rejected" THEN 1 ELSE 0
             j == Job(Listed1(s, fns, cap, side), side, s.prom[p].result)
  <2>1. Added(s.jobs, t.jobs, j)
    BY <1>3 DEF ThenEffect
  <2>2. j.job = "reaction" /\ j.n = Len(s.thens) + 1
    BY JobFields DEF Listed1
  <2> HIDE DEF j
  <2> QED BY <1>1, <1>3, <2>1, <2>2 DEF Added
<1> QED BY <1>2, <1>3

LEMMA ThenSettle ==
    ASSUME NEW s, NEW t, NEW p \in DOMAIN s.prom, NEW fns, NEW cap, RefInv(s), SettleInv(s),
           ThenEffect(s, t, p, fns, cap)
    PROVE  SettleInv(t)
<1>1. /\ t.pair = s.pair /\ t.twice = s.twice
      /\ \A q \in DOMAIN s.prom : t.prom[q].state = s.prom[q].state
  <2>1. ThenFacts(s, t, p, fns, cap, Len(s.thens) + 1)
    BY ThenParts
  <2> QED BY <2>1 DEF ThenFacts
<1>2. s \in States
  BY DEF RefInv
<1>3. \A i \in DOMAIN t.jobs : Waits(t, i) => i \in DOMAIN s.jobs /\ t.jobs[i] = s.jobs[i]
  <2> DEFINE m == Len(s.jobs) + 1
  <2>1. /\ \A i \in DOMAIN s.jobs : i \in DOMAIN t.jobs /\ t.jobs[i] = s.jobs[i]
        /\ \A i \in DOMAIN t.jobs : i \in DOMAIN s.jobs \/ i = m
        /\ m \in DOMAIN t.jobs => t.jobs[m].job = "reaction"
    BY <1>2, ThenJobs
  <2> HIDE DEF m
  <2> QED BY <2>1 DEF Waits
<1>4. \A i \in DOMAIN t.jobs : Waits(t, i) => Waits(s, i)
  BY <1>3 DEF Waits
<1>5. \A a \in DOMAIN s.pair : (Unused(t, a) <=> Unused(s, a)) /\ s.pair[a].promise \in DOMAIN s.prom
  BY <1>1 DEF Unused, RefInv
<1>6. \A i \in DOMAIN s.jobs : Waits(s, i) => s.jobs[i].promise \in DOMAIN s.prom
  BY DEF RefInv, QueuedOK, JobOK, Waits
<1>7. \A i, j \in DOMAIN t.jobs :
          Waits(t, i) /\ Waits(t, j) /\ t.jobs[i].promise = t.jobs[j].promise => i = j
  BY <1>3, <1>4 DEF SettleInv
<1>8. \A a \in DOMAIN t.pair, i \in DOMAIN t.jobs :
          Unused(t, a) /\ Waits(t, i) => t.pair[a].promise # t.jobs[i].promise
  BY <1>1, <1>3, <1>4, <1>5 DEF SettleInv
<1>9. \A a \in DOMAIN t.pair : Unused(t, a) => Pending(t, t.pair[a].promise)
  BY <1>1, <1>5 DEF SettleInv, Pending
<1>10. \A i \in DOMAIN t.jobs : Waits(t, i) => Pending(t, t.jobs[i].promise)
  BY <1>1, <1>3, <1>4, <1>6 DEF SettleInv, Pending
<1>11. \A a, b \in DOMAIN t.pair :
          Unused(t, a) /\ Unused(t, b) /\ t.pair[a].promise = t.pair[b].promise => a = b
  BY <1>1, <1>5 DEF SettleInv
<1> QED BY <1>1, <1>7, <1>8, <1>9, <1>10, <1>11 DEF SettleInv

LEMMA QuietSettle ==
    ASSUME NEW s, NEW t, SettleInv(s), QuietEffect(s, t)
    PROVE  SettleInv(t)
<1>1. t.prom = s.prom /\ t.pair = s.pair /\ t.jobs = s.jobs /\ t.twice = s.twice
  BY DEF QuietEffect
<1> QED BY <1>1 DEF SettleInv, Unused, Waits, Pending

LEMMA CallbackSettle ==
    ASSUME NEW s, NEW t, SettleInv(s), CallbackEffect(s, t)
    PROVE  SettleInv(t)
<1>1. t.prom = s.prom /\ t.pair = s.pair /\ t.twice = s.twice
  BY DEF CallbackEffect
<1>2. \A i \in DOMAIN t.jobs : Waits(t, i) => i \in DOMAIN s.jobs /\ t.jobs[i] = s.jobs[i] /\ Waits(s, i)
  BY DEF CallbackEffect, Added, Waits, Simple, Entry
<1> QED BY <1>1, <1>2 DEF SettleInv, Unused, Pending

LEMMA PopSettle ==
    ASSUME NEW s, NEW t, NEW j, SettleInv(s), PopEffect(s, t, j)
    PROVE  SettleInv(t)
<1>1. t.prom = s.prom /\ t.pair = s.pair /\ t.twice = s.twice
  BY DEF PopEffect
<1>2. /\ \A i \in DOMAIN t.jobs : i + 1 \in DOMAIN s.jobs /\ t.jobs[i] = s.jobs[i + 1]
      /\ DOMAIN t.jobs \subseteq Nat
  BY DEF PopEffect, Shifted
<1>3. \A i \in DOMAIN t.jobs : Waits(t, i) => Waits(s, i + 1)
  BY <1>2 DEF Waits
<1>4. \A i, l \in DOMAIN t.jobs :
          Waits(t, i) /\ Waits(t, l) /\ t.jobs[i].promise = t.jobs[l].promise => i = l
  <2> SUFFICES ASSUME NEW i \in DOMAIN t.jobs, NEW l \in DOMAIN t.jobs, Waits(t, i), Waits(t, l),
                      t.jobs[i].promise = t.jobs[l].promise
               PROVE  i = l
    OBVIOUS
  <2>1. i + 1 = l + 1
    BY <1>2, <1>3 DEF SettleInv
  <2> QED BY <1>2, <2>1
<1>5. \A a \in DOMAIN t.pair, i \in DOMAIN t.jobs :
          Unused(t, a) /\ Waits(t, i) => t.pair[a].promise # t.jobs[i].promise
  BY <1>1, <1>2, <1>3 DEF SettleInv, Unused
<1>6. \A i \in DOMAIN t.jobs : Waits(t, i) => Pending(t, t.jobs[i].promise)
  BY <1>1, <1>2, <1>3 DEF SettleInv, Pending
<1> QED BY <1>1, <1>4, <1>5, <1>6 DEF SettleInv, Unused, Pending

LEMMA PopPairSettle ==
    ASSUME NEW s, NEW t, NEW j, RefInv(s), SettleInv(s), PopPairEffect(s, t, j)
    PROVE  SettleInv(t)
<1> DEFINE m == Len(s.pair) + 1
<1>1. t.prom = s.prom /\ t.twice = s.twice
  BY DEF PopPairEffect
<1>2. /\ \A i \in DOMAIN t.jobs : i + 1 \in DOMAIN s.jobs /\ i + 1 # 1 /\ t.jobs[i] = s.jobs[i + 1]
      /\ DOMAIN t.jobs \subseteq Nat /\ 1 \in DOMAIN s.jobs /\ j = s.jobs[1]
  BY DEF PopPairEffect, Shifted
<1>3. \A i \in DOMAIN t.jobs : Waits(t, i) => Waits(s, i + 1)
  BY <1>2 DEF Waits
<1>4. Waits(s, 1)
  BY <1>2 DEF Waits, PopPairEffect
<1>5. /\ \A k \in DOMAIN s.pair : k \in DOMAIN t.pair /\ k # m /\ t.pair[k] = s.pair[k]
      /\ \A k \in DOMAIN t.pair : k \in DOMAIN s.pair \/ k = m
      /\ t.pair[m].promise = j.promise
  BY DEF PopPairEffect, Added
<1> HIDE DEF m
<1>6. \A i, l \in DOMAIN t.jobs :
          Waits(t, i) /\ Waits(t, l) /\ t.jobs[i].promise = t.jobs[l].promise => i = l
  <2> SUFFICES ASSUME NEW i \in DOMAIN t.jobs, NEW l \in DOMAIN t.jobs, Waits(t, i), Waits(t, l),
                      t.jobs[i].promise = t.jobs[l].promise
               PROVE  i = l
    OBVIOUS
  <2>1. i + 1 = l + 1
    BY <1>2, <1>3 DEF SettleInv
  <2> QED BY <1>2, <2>1
<1>7. \A k \in DOMAIN s.pair : Unused(t, k) => Unused(s, k)
  BY <1>5 DEF Unused
<1>8. \A i \in DOMAIN t.jobs : Waits(t, i) => t.jobs[i].promise # j.promise
  BY <1>2, <1>3, <1>4 DEF SettleInv
<1>9. \A k \in DOMAIN s.pair : Unused(s, k) => s.pair[k].promise # j.promise
  BY <1>2, <1>4 DEF SettleInv
<1>10. \A a \in DOMAIN t.pair, i \in DOMAIN t.jobs :
          Unused(t, a) /\ Waits(t, i) => t.pair[a].promise # t.jobs[i].promise
  BY <1>2, <1>3, <1>5, <1>7, <1>8 DEF SettleInv
<1>11. \A i \in DOMAIN t.jobs : Waits(t, i) => Pending(t, t.jobs[i].promise)
  BY <1>1, <1>2, <1>3 DEF SettleInv, Pending
<1>12. \A a \in DOMAIN t.pair : Unused(t, a) => Pending(t, t.pair[a].promise)
  <2>1. Pending(s, j.promise)
    BY <1>2, <1>4 DEF SettleInv
  <2> QED BY <1>1, <1>5, <1>7, <2>1 DEF SettleInv, Pending
<1>13. \A a, b \in DOMAIN t.pair :
          Unused(t, a) /\ Unused(t, b) /\ t.pair[a].promise = t.pair[b].promise => a = b
  BY <1>5, <1>7, <1>9 DEF SettleInv
<1> QED BY <1>1, <1>6, <1>10, <1>11, <1>12, <1>13 DEF SettleInv

-----------------------------------------------------------------------------
(***************************************************************************)
(* Every then reacts once, in order.                                       *)
(***************************************************************************)
\* Nothing about promises, thens and jobs changes.
LEMMA SameReact ==
    ASSUME NEW s, NEW t, ReactInv(s), t.jobs = s.jobs, t.thens = s.thens, t.ran = s.ran,
           \A n \in DOMAIN s.thens : s.thens[n].p \in DOMAIN s.prom,
           \A p \in DOMAIN s.prom : p \in DOMAIN t.prom /\ t.prom[p] = s.prom[p],
           \A p \in DOMAIN t.prom : p \in DOMAIN s.prom \/ t.prom[p] = Fresh
    PROVE  ReactInv(t)
<1>1. ASSUME NEW p \in DOMAIN t.prom, NEW x \in Sides
      PROVE  /\ ~Pending(t, p) => t.prom[p].reactions[x] = <<>>
             /\ \A i, j \in DOMAIN t.prom[p].reactions[x] :
                   i < j => t.prom[p].reactions[x][i].n < t.prom[p].reactions[x][j].n
  <2>1. CASE p \in DOMAIN s.prom
    BY <2>1 DEF ReactInv, ListInv, Pending
  <2>2. CASE t.prom[p] = Fresh
    <3>1. t.prom[p].reactions[x] = <<>>
      BY <2>2 DEF Fresh, Both
    <3> QED BY <3>1
  <2> QED BY <2>1, <2>2
<1>2. \A n \in DOMAIN t.thens : Placed(t, n)
  BY SMTT(40) DEF ReactInv, Placed, Pending, IsReaction
<1>3. QueueInv(t) /\ RanInv(t)
  BY DEF ReactInv, QueueInv, RanInv
<1> QED BY <1>1, <1>2, <1>3 DEF ReactInv, ListInv

LEMMA CapReact ==
    ASSUME NEW s, NEW t, RefInv(s), ReactInv(s), CapEffect(s, t)
    PROVE  ReactInv(t)
<1>1. t.jobs = s.jobs /\ t.thens = s.thens /\ t.ran = s.ran
  BY DEF CapEffect
<1>2. /\ \A p \in DOMAIN s.prom : p \in DOMAIN t.prom /\ t.prom[p] = s.prom[p]
      /\ \A p \in DOMAIN t.prom : p \in DOMAIN s.prom \/ t.prom[p] = Fresh
  BY DEF CapEffect, Added
<1>3. \A n \in DOMAIN s.thens : s.thens[n].p \in DOMAIN s.prom
  BY DEF RefInv, ThenOK
<1> QED BY <1>1, <1>2, <1>3, SameReact

LEMMA QuietReact ==
    ASSUME NEW s, NEW t, RefInv(s), ReactInv(s), QuietEffect(s, t)
    PROVE  ReactInv(t)
<1>1. t.prom = s.prom /\ t.jobs = s.jobs /\ t.thens = s.thens /\ t.ran = s.ran
  BY DEF QuietEffect
<1>2. \A n \in DOMAIN s.thens : s.thens[n].p \in DOMAIN s.prom
  BY DEF RefInv, ThenOK
<1> QED BY <1>1, <1>2, SameReact

\* A job that is no reaction is queued.
LEMMA OtherReact ==
    ASSUME NEW s, NEW t, NEW e, ReactInv(s), s \in States,
           t.prom = s.prom, t.thens = s.thens, t.ran = s.ran, Added(s.jobs, t.jobs, e), e.job # "reaction"
    PROVE  ReactInv(t)
<1>1. /\ \A i \in DOMAIN s.jobs : i \in DOMAIN t.jobs /\ t.jobs[i] = s.jobs[i]
      /\ \A i \in DOMAIN t.jobs : t.jobs[i].job = "reaction" => i \in DOMAIN s.jobs /\ t.jobs[i] = s.jobs[i]
  BY DEF Added
<1>2. \A n \in DOMAIN t.thens : Placed(t, n)
  BY SMTT(40), <1>1 DEF ReactInv, Placed, Pending, IsReaction
<1>3. QueueInv(t)
  BY <1>1 DEF ReactInv, QueueInv
<1>4. ListInv(t) /\ RanInv(t)
  BY DEF ReactInv, ListInv, Pending, RanInv
<1> QED BY <1>2, <1>3, <1>4 DEF ReactInv

LEMMA FollowReact ==
    ASSUME NEW s, NEW t, NEW k, NEW v, RefInv(s), ReactInv(s), FollowEffect(s, t, k, v)
    PROVE  ReactInv(t)
<1>1. t.prom = s.prom /\ t.thens = s.thens /\ t.ran = s.ran
      /\ Added(s.jobs, t.jobs, Follow(s.pair[k].promise, v))
  BY DEF FollowEffect
<1>2. Follow(s.pair[k].promise, v).job # "reaction" /\ s \in States
  BY DEF Follow, Entry, RefInv
<1> QED BY <1>1, <1>2, OtherReact

LEMMA CallbackReact ==
    ASSUME NEW s, NEW t, RefInv(s), ReactInv(s), CallbackEffect(s, t)
    PROVE  ReactInv(t)
<1>1. t.prom = s.prom /\ t.thens = s.thens /\ t.ran = s.ran /\ Added(s.jobs, t.jobs, Simple("finrec"))
  BY DEF CallbackEffect
<1>2. Simple("finrec").job # "reaction" /\ s \in States
  BY DEF Simple, Entry, RefInv
<1> QED BY <1>1, <1>2, OtherReact

LEMMA PopReact ==
    ASSUME NEW s, NEW t, NEW j, RefInv(s), ReactInv(s), PopEffect(s, t, j)
    PROVE  ReactInv(t)
<1>1. t.prom = s.prom /\ t.thens = s.thens /\ j = s.jobs[1]
      /\ t.ran = IF j.job = "reaction" THEN s.ran \cup {j.n} ELSE s.ran
  BY DEF PopEffect
<1>2. /\ \A i \in DOMAIN t.jobs : i \in Nat /\ i + 1 \in DOMAIN s.jobs /\ i + 1 > 1 /\ t.jobs[i] = s.jobs[i + 1]
      /\ \A i \in DOMAIN s.jobs : i \in Nat /\ i >= 1 /\ (i = 1 \/ (i - 1 \in DOMAIN t.jobs /\ t.jobs[i - 1] = s.jobs[i]))
      /\ 1 \in DOMAIN s.jobs
  BY DEF PopEffect, Shifted
<1>3. ListInv(t)
  BY <1>1 DEF ReactInv, ListInv, Pending
<1>4. \A i \in DOMAIN s.jobs : s.jobs[i].job = "reaction" =>
        /\ s.jobs[i].n \in DOMAIN s.thens /\ s.jobs[i].n \in Nat
        /\ ~Pending(s, s.thens[s.jobs[i].n].p)
  <2> SUFFICES ASSUME NEW i \in DOMAIN s.jobs, s.jobs[i].job = "reaction"
               PROVE  /\ s.jobs[i].n \in DOMAIN s.thens /\ s.jobs[i].n \in Nat
                      /\ ~Pending(s, s.thens[s.jobs[i].n].p)
    OBVIOUS
  <2>1. QueuedOK(s, s.jobs[i]) /\ s.jobs[i] \in Entries
    BY Elements DEF RefInv
  <2> QED BY <2>1 DEF QueuedOK, JobOK, Pending, Outcome, Entries
<1>5. ASSUME NEW n \in DOMAIN t.thens PROVE Placed(t, n)
  <2>1. Placed(s, n)
    BY <1>1 DEF ReactInv
  <2>2. CASE Pending(s, s.thens[n].p)
    <3>1. j.job = "reaction" => j.n # n
      BY <1>1, <1>2, <1>4, <2>2
    <3> QED BY ZenonT(60), <1>1, <2>1, <2>2, <3>1 DEF Placed, Pending
  <2>3. CASE ~Pending(s, s.thens[n].p)
    <3> SUFFICES ASSUME n \notin t.ran PROVE \E i \in DOMAIN t.jobs : IsReaction(t, i, n)
      BY <1>1, <2>3 DEF Placed, Pending
    <3>1. n \notin s.ran
      BY <1>1
    <3>2. PICK i \in DOMAIN s.jobs : IsReaction(s, i, n)
      BY <2>1, <2>3, <3>1 DEF Placed
    <3>3. i # 1
      BY <1>1, <3>2 DEF IsReaction
    <3>4. i - 1 \in DOMAIN t.jobs /\ t.jobs[i - 1] = s.jobs[i]
      BY <1>2, <3>3
    <3> QED BY <3>2, <3>4 DEF IsReaction
  <2> QED BY <2>2, <2>3
<1>6. QueueInv(t)
  <2>1. ASSUME NEW a \in DOMAIN t.jobs, NEW b \in DOMAIN t.jobs,
               t.jobs[a].job = "reaction", t.jobs[b].job = "reaction", a < b,
               t.thens[t.jobs[a].n].p = t.thens[t.jobs[b].n].p
        PROVE  t.jobs[a].n < t.jobs[b].n
    <3>1. a + 1 < b + 1
      BY <1>2, <2>1
    <3> QED BY <1>1, <1>2, <2>1, <3>1 DEF ReactInv, QueueInv
  <2>2. ASSUME NEW a \in DOMAIN t.jobs, t.jobs[a].job = "reaction"
        PROVE  t.jobs[a].n \notin t.ran
    <3>1. t.jobs[a].n \notin s.ran
      BY <1>2, <2>2 DEF ReactInv, QueueInv
    <3>2. ASSUME j.job = "reaction", j.n = t.jobs[a].n PROVE FALSE
      <4>1. s.jobs[1].n < s.jobs[a + 1].n
        BY <1>1, <1>2, <2>2, <3>2 DEF ReactInv, QueueInv
      <4>2. s.jobs[1].n = s.jobs[a + 1].n /\ s.jobs[1].n \in Nat
        BY <1>1, <1>2, <1>4, <3>2
      <4> QED BY <4>1, <4>2
    <3> QED BY <1>1, <3>1, <3>2
  <2> QED BY <2>1, <2>2 DEF QueueInv
<1>7. RanInv(t)
  <2>1. t.ran \subseteq DOMAIN t.thens
    BY <1>1, <1>2, <1>4 DEF ReactInv, RanInv
  <2>2. ASSUME NEW n \in t.ran, NEW m \in DOMAIN t.thens, m < n, t.thens[m].p = t.thens[n].p
        PROVE  m \in t.ran
    <3>1. CASE n \in s.ran
      BY <1>1, <2>2, <3>1 DEF ReactInv, RanInv
    <3>2. CASE n \notin s.ran
      <4>1. j.job = "reaction" /\ n = j.n
        BY <1>1, <3>2
      <4>2. ~Pending(s, s.thens[m].p)
        BY <1>1, <1>2, <1>4, <2>2, <4>1
      <4>3. ASSUME m \notin s.ran PROVE FALSE
        <5>1. PICK i \in DOMAIN s.jobs : s.jobs[i].job = "reaction" /\ s.jobs[i].n = m
          BY <1>1, <4>2, <4>3 DEF ReactInv, Placed, IsReaction
        <5>2. i # 1 /\ i > 1 /\ m \in Nat /\ n \in Nat
          BY <1>1, <1>2, <1>4, <2>2, <4>1, <5>1
        <5>3. n < m
          BY <1>1, <1>2, <2>2, <4>1, <5>1, <5>2 DEF ReactInv, QueueInv
        <5> QED BY <2>2, <5>2, <5>3
      <4> QED BY <1>1, <4>3
    <3> QED BY <3>1, <3>2
  <2> QED BY <2>1, <2>2 DEF RanInv
<1> QED BY <1>3, <1>5, <1>6, <1>7 DEF ReactInv

LEMMA PopPairReact ==
    ASSUME NEW s, NEW t, NEW j, RefInv(s), ReactInv(s), PopPairEffect(s, t, j)
    PROVE  ReactInv(t)
<1>1. t.prom = s.prom /\ t.thens = s.thens /\ t.ran = s.ran /\ s.jobs[1].job # "reaction"
  BY DEF PopPairEffect
<1>2. /\ \A i \in DOMAIN t.jobs : i \in Nat /\ i + 1 \in DOMAIN s.jobs /\ t.jobs[i] = s.jobs[i + 1]
      /\ \A i \in DOMAIN s.jobs : i = 1 \/ (i - 1 \in DOMAIN t.jobs /\ t.jobs[i - 1] = s.jobs[i])
  BY DEF PopPairEffect, Shifted
<1>3. ListInv(t) /\ RanInv(t)
  BY <1>1 DEF ReactInv, ListInv, RanInv, Pending
<1>4. \A n \in DOMAIN t.thens : Placed(t, n)
  <2>1. \A n : (\E i \in DOMAIN s.jobs : IsReaction(s, i, n)) => \E i \in DOMAIN t.jobs : IsReaction(t, i, n)
    BY <1>1, <1>2 DEF IsReaction
  <2> QED BY <1>1, <2>1 DEF ReactInv, Placed, Pending
<1>5. QueueInv(t)
  <2>1. ASSUME NEW a \in DOMAIN t.jobs, NEW b \in DOMAIN t.jobs,
               t.jobs[a].job = "reaction", t.jobs[b].job = "reaction", a < b,
               t.thens[t.jobs[a].n].p = t.thens[t.jobs[b].n].p
        PROVE  t.jobs[a].n < t.jobs[b].n
    <3>1. a + 1 < b + 1
      BY <1>2, <2>1
    <3> QED BY <1>1, <1>2, <2>1, <3>1 DEF ReactInv, QueueInv
  <2>2. \A a \in DOMAIN t.jobs : t.jobs[a].job = "reaction" => t.jobs[a].n \notin t.ran
    BY <1>1, <1>2 DEF ReactInv, QueueInv
  <2> QED BY <2>1, <2>2 DEF QueueInv
<1> QED BY <1>3, <1>4, <1>5 DEF ReactInv

LEMMA ThenReact ==
    ASSUME NEW s, NEW t, NEW p \in DOMAIN s.prom, NEW fns, NEW cap, RefInv(s), ReactInv(s),
           ThenEffect(s, t, p, fns, cap)
    PROVE  ReactInv(t)
<1> DEFINE m == Len(s.thens) + 1
           l == Len(s.jobs) + 1
           q == s.prom[p]
<1>1. ThenFacts(s, t, p, fns, cap, m) /\ s \in States
  BY ThenParts DEF RefInv
<1>2. /\ l \notin DOMAIN s.jobs
      /\ \A i \in DOMAIN s.jobs : i \in Nat /\ i \in DOMAIN t.jobs /\ i < l /\ t.jobs[i] = s.jobs[i]
      /\ \A i \in DOMAIN t.jobs : i \in Nat /\ (i \in DOMAIN s.jobs \/ i = l)
      /\ Pending(s, p) => l \notin DOMAIN t.jobs
      /\ ~Pending(s, p) => l \in DOMAIN t.jobs /\ t.jobs[l].job = "reaction" /\ t.jobs[l].n = m
  BY <1>1, ThenJobs
<1>3. \A x \in Sides :
        IF Pending(s, p)
        THEN Added(q.reactions[x], t.prom[p].reactions[x], Listed1(s, fns, cap, x))
        ELSE t.prom[p].reactions[x] = q.reactions[x]
  BY DEF ThenEffect
<1>4. \A x \in Sides : Listed1(s, fns, cap, x).n = m
  BY DEF Listed1
<1>5. \A x \in Sides : \A i \in DOMAIN q.reactions[x] : q.reactions[x][i].n \in DOMAIN s.thens
  BY DEF RefInv, PromiseOK, ListedOK
<1>6. \A i \in DOMAIN s.jobs : s.jobs[i].job = "reaction" => s.jobs[i].n \in DOMAIN s.thens
  BY DEF RefInv, QueuedOK, JobOK
<1>7. \A n \in DOMAIN s.thens : s.thens[n].p \in DOMAIN s.prom
  BY DEF RefInv, ThenOK
<1> HIDE DEF m, l
<1>8. ASSUME NEW r \in DOMAIN t.prom, NEW x \in Sides
      PROVE  /\ ~Pending(t, r) => t.prom[r].reactions[x] = <<>>
             /\ \A i, j \in DOMAIN t.prom[r].reactions[x] :
                   i < j => t.prom[r].reactions[x][i].n < t.prom[r].reactions[x][j].n
  <2>1. CASE r # p
    BY <1>1, <2>1 DEF ThenFacts, ReactInv, ListInv, Pending
  <2>2. CASE r = p /\ ~Pending(s, p)
    BY <1>1, <1>3, <2>2 DEF ThenFacts, ReactInv, ListInv, Pending
  <2>3. CASE r = p /\ Pending(s, p)
    <3> DEFINE a == q.reactions[x]
               b == t.prom[p].reactions[x]
    <3>1. Added(a, b, Listed1(s, fns, cap, x)) /\ Pending(t, p)
      BY <1>1, <1>3, <2>3 DEF ThenFacts, Pending
    <3>2. \A i, j \in DOMAIN a : i < j => a[i].n < a[j].n
      BY DEF ReactInv, ListInv
    <3>3. \A i \in DOMAIN a : a[i].n < m
      BY <1>1, <1>5 DEF ThenFacts
    <3> HIDE DEF a, b
    <3>4. \A i, j \in DOMAIN b : i < j => b[i].n < b[j].n
      BY <1>4, <3>1, <3>2, <3>3 DEF Added
    <3> QED BY <2>3, <3>1, <3>4 DEF b
  <2> QED BY <2>1, <2>2, <2>3
<1>9. ASSUME NEW n \in DOMAIN t.thens PROVE Placed(t, n)
  <2>1. CASE n \in DOMAIN s.thens
    <3> DEFINE r == s.thens[n].p
    <3>1. Placed(s, n) /\ r \in DOMAIN s.prom /\ t.thens[n].p = r
      BY <1>1, <1>7, <2>1 DEF ThenFacts, ReactInv
    <3> HIDE DEF r
    <3>2. CASE ~Pending(s, r)
      <4>1. ~Pending(t, r) /\ t.ran = s.ran
        BY <1>1, <3>1, <3>2 DEF ThenFacts, Pending
      <4>2. n \notin s.ran => \E i \in DOMAIN s.jobs : IsReaction(s, i, n)
        BY <3>1, <3>2 DEF Placed, r
      <4>3. n \notin s.ran => \E i \in DOMAIN t.jobs : IsReaction(t, i, n)
        BY <1>2, <4>2 DEF IsReaction
      <4> QED BY <3>1, <4>1, <4>3 DEF Placed
    <3>3. CASE Pending(s, r)
      <4>1. Pending(t, r) /\ n \notin t.ran
        BY <1>1, <3>1, <3>3 DEF ThenFacts, Pending, Placed, r
      <4>2. ASSUME NEW x \in Sides
            PROVE  \E i \in DOMAIN t.prom[r].reactions[x] : t.prom[r].reactions[x][i].n = n
        <5>1. PICK i \in DOMAIN s.prom[r].reactions[x] : s.prom[r].reactions[x][i].n = n
          BY <3>1, <3>3 DEF Placed, r
        <5>2. CASE r # p
          BY <1>1, <3>1, <5>1, <5>2 DEF ThenFacts
        <5>3. CASE r = p
          <6>1. Added(q.reactions[x], t.prom[p].reactions[x], Listed1(s, fns, cap, x))
            BY <1>3, <3>3, <5>3
          <6>2. i \in DOMAIN t.prom[r].reactions[x] /\ t.prom[r].reactions[x][i] = s.prom[r].reactions[x][i]
            BY <5>1, <5>3, <6>1 DEF Added
          <6> QED BY <5>1, <6>2
        <5> QED BY <5>2, <5>3
      <4> QED BY <3>1, <4>1, <4>2 DEF Placed
    <3> QED BY <3>2, <3>3
  <2>2. CASE n = m
    <3>1. m \notin t.ran /\ t.thens[m].p = p
      BY <1>1 DEF ThenFacts, ReactInv, RanInv
    <3>2. CASE Pending(s, p)
      <4>1. Pending(t, p)
        BY <1>1, <3>2 DEF ThenFacts, Pending
      <4>2. ASSUME NEW x \in Sides
            PROVE  \E i \in DOMAIN t.prom[p].reactions[x] : t.prom[p].reactions[x][i].n = m
        BY SMTT(40), <1>3, <1>4, <3>2 DEF Added
      <4> QED BY <2>2, <3>1, <4>1, <4>2 DEF Placed
    <3>3. CASE ~Pending(s, p)
      <4>1. ~Pending(t, p)
        BY <1>1, <3>3 DEF ThenFacts, Pending
      <4>2. IsReaction(t, l, m) /\ l \in DOMAIN t.jobs
        BY <1>2, <3>3 DEF IsReaction
      <4> QED BY <2>2, <3>1, <4>1, <4>2 DEF Placed
    <3> QED BY <3>2, <3>3
  <2> QED BY <1>1, <2>1, <2>2 DEF ThenFacts
<1>10. QueueInv(t)
  <2>1. t.ran = s.ran /\ \A n \in DOMAIN s.thens : n < m /\ t.thens[n] = s.thens[n]
    BY <1>1 DEF ThenFacts
  <2>2. m \notin s.ran
    BY <1>1 DEF ThenFacts, ReactInv, RanInv
  <2>3. \A i \in DOMAIN t.jobs : i \in DOMAIN s.jobs \/ t.jobs[i].n = m
    BY <1>2
  <2>4. \A i \in DOMAIN t.jobs : t.jobs[i].job = "reaction" => t.jobs[i].n \notin t.ran
    BY <1>2, <2>1, <2>2, <2>3 DEF ReactInv, QueueInv
  <2>5. ASSUME NEW i \in DOMAIN t.jobs, NEW j \in DOMAIN t.jobs,
               t.jobs[i].job = "reaction", t.jobs[j].job = "reaction", i < j,
               t.thens[t.jobs[i].n].p = t.thens[t.jobs[j].n].p
        PROVE  t.jobs[i].n < t.jobs[j].n
    <3>1. i \in DOMAIN s.jobs
      BY <1>2, <2>5
    <3>2. t.jobs[i] = s.jobs[i] /\ s.jobs[i].n \in DOMAIN s.thens
      BY <1>2, <1>6, <2>5, <3>1
    <3>3. CASE j \in DOMAIN s.jobs
      <4>1. t.jobs[j] = s.jobs[j] /\ s.jobs[j].n \in DOMAIN s.thens
        BY <1>2, <1>6, <2>5, <3>3
      <4> QED BY <2>1, <2>5, <3>1, <3>2, <3>3, <4>1 DEF ReactInv, QueueInv
    <3>4. CASE j \notin DOMAIN s.jobs
      BY <2>1, <2>3, <3>2, <3>4
    <3> QED BY <3>3, <3>4
  <2> QED BY <2>4, <2>5 DEF QueueInv
<1>11. RanInv(t)
  <2>1. /\ t.ran = s.ran /\ \A n \in DOMAIN s.thens : n \in Nat /\ n \in DOMAIN t.thens /\ n < m /\ t.thens[n] = s.thens[n]
        /\ \A n \in DOMAIN t.thens : n \in DOMAIN s.thens \/ n = m
        /\ m \in Nat
    BY <1>1 DEF ThenFacts
  <2>2. s.ran \subseteq DOMAIN s.thens
    BY DEF ReactInv, RanInv
  <2>3. ASSUME NEW n \in t.ran, NEW k \in DOMAIN t.thens, k < n, t.thens[k].p = t.thens[n].p
        PROVE  k \in t.ran
    <3>1. n \in s.ran /\ n \in DOMAIN s.thens /\ n < m /\ n \in Nat
      BY <2>1, <2>2
    <3>2. k # m
      BY <2>1, <2>3, <3>1
    <3>3. k \in DOMAIN s.thens
      BY <2>1, <3>2
    <3> QED BY <2>1, <2>3, <3>1, <3>3 DEF ReactInv, RanInv
  <2> QED BY <2>1, <2>2, <2>3 DEF RanInv
<1> QED BY <1>8, <1>9, <1>10, <1>11 DEF ReactInv, ListInv

LEMMA SettleReact ==
    ASSUME NEW s, NEW t, NEW k \in DOMAIN s.pair, NEW side \in Sides, NEW v, RefInv(s), ReactInv(s),
           SettleEffect(s, t, k, side, v), Pending(s, s.pair[k].promise)
    PROVE  ReactInv(t)
<1> DEFINE p == s.pair[k].promise
           rs == s.prom[p].reactions[side]
           l == Len(s.jobs)
<1>1. SettleFacts(s, t, k, side, v, p, rs) /\ Pending(s, p)
  BY SettleParts
<1>2. p \in DOMAIN s.prom /\ s \in States
  BY DEF RefInv
<1>3. \A i \in DOMAIN rs : rs[i].n \in DOMAIN s.thens /\ s.thens[rs[i].n].p = p
  <2>1. PromiseOK(s, p)
    BY <1>2 DEF RefInv
  <2>2. \A i \in DOMAIN rs : ListedOK(s, p, side, rs[i])
    BY ZenonT(60), <2>1 DEF PromiseOK
  <2> HIDE DEF p, rs
  <2> QED BY <2>2 DEF ListedOK
<1>4. \A i, j \in DOMAIN rs : i < j => rs[i].n < rs[j].n
  BY <1>2 DEF ReactInv, ListInv
<1>5. \A n \in DOMAIN s.thens : s.thens[n].p = p => n \notin s.ran /\ \E i \in DOMAIN rs : rs[i].n = n
  <2> SUFFICES ASSUME NEW n \in DOMAIN s.thens, s.thens[n].p = p
               PROVE  n \notin s.ran /\ \E i \in DOMAIN rs : rs[i].n = n
    BY ZenonT(60)
  <2>1. Placed(s, n)
    BY DEF ReactInv
  <2> HIDE DEF p
  <2> QED BY <1>1, <2>1 DEF Placed
<1>6. \A i \in DOMAIN s.jobs : s.jobs[i].job = "reaction" =>
        s.jobs[i].n \in DOMAIN s.thens /\ s.thens[s.jobs[i].n].p # p
  <2> HIDE DEF p
  <2> SUFFICES ASSUME NEW i \in DOMAIN s.jobs, s.jobs[i].job = "reaction"
               PROVE  s.jobs[i].n \in DOMAIN s.thens /\ s.thens[s.jobs[i].n].p # p
    OBVIOUS
  <2>1. QueuedOK(s, s.jobs[i])
    BY DEF RefInv
  <2> QED BY <1>1, <2>1 DEF QueuedOK, JobOK, Pending, Outcome
<1> HIDE DEF p, rs, l
<1>7. /\ \A q \in DOMAIN s.prom : q # p => t.prom[q] = s.prom[q]
      /\ DOMAIN t.prom = DOMAIN s.prom /\ ~Pending(t, p) /\ t.thens = s.thens /\ t.ran = s.ran
      /\ \A x \in Sides : t.prom[p].reactions[x] = <<>>
  BY <1>1 DEF SettleFacts, Pending, Outcome
<1>8. /\ l \in Nat /\ DOMAIN s.jobs = 1..l /\ DOMAIN rs \subseteq Nat
      /\ \A i \in DOMAIN s.jobs : i \in DOMAIN t.jobs /\ t.jobs[i] = s.jobs[i]
      /\ \A i \in DOMAIN rs : /\ l + i \in DOMAIN t.jobs
                              /\ t.jobs[l + i].job = "reaction" /\ t.jobs[l + i].n = rs[i].n
      /\ \A i \in DOMAIN t.jobs : \/ i \in DOMAIN s.jobs
                                  \/ /\ i > l /\ i - l \in DOMAIN rs /\ i \notin DOMAIN s.jobs
                                     /\ t.jobs[i].job = "reaction" /\ t.jobs[i].n = rs[i - l].n
  <2>1. DOMAIN rs \subseteq Nat /\ l \in Nat /\ DOMAIN s.jobs = 1..l
    BY <1>1 DEF SettleFacts, l
  <2>2. \A i \in DOMAIN t.jobs : \/ i \in DOMAIN s.jobs
                                 \/ /\ i > l /\ i - l \in DOMAIN rs
                                    /\ t.jobs[i] = Job(rs[i - l], side, v)
    BY <1>1 DEF SettleFacts, l
  <2>3. \A i \in DOMAIN t.jobs : i > l => i \notin DOMAIN s.jobs
    BY <2>1
  <2>4. \A i \in DOMAIN rs : l + i \in DOMAIN t.jobs /\ t.jobs[l + i] = Job(rs[i], side, v)
    BY <1>1 DEF SettleFacts, l
  <2>5. \A i \in DOMAIN s.jobs : i \in DOMAIN t.jobs /\ t.jobs[i] = s.jobs[i]
    BY <1>1 DEF SettleFacts
  <2> QED BY <2>1, <2>2, <2>3, <2>4, <2>5, JobFields
<1>9. ListInv(t)
  <2> SUFFICES ASSUME NEW r \in DOMAIN t.prom, NEW x \in Sides
               PROVE  /\ ~Pending(t, r) => t.prom[r].reactions[x] = <<>>
                      /\ \A i, j \in DOMAIN t.prom[r].reactions[x] :
                            i < j => t.prom[r].reactions[x][i].n < t.prom[r].reactions[x][j].n
    BY DEF ListInv
  <2>1. CASE r # p
    BY <1>7, <2>1 DEF ReactInv, ListInv, Pending
  <2>2. CASE r = p
    BY <1>7, <2>2
  <2> QED BY <2>1, <2>2
<1>10. ASSUME NEW n \in DOMAIN t.thens PROVE Placed(t, n)
  <2> DEFINE r == s.thens[n].p
  <2>1. Placed(s, n) /\ r \in DOMAIN s.prom /\ t.thens[n].p = r /\ n \in DOMAIN s.thens
    BY <1>7 DEF ReactInv, RefInv, ThenOK
  <2> HIDE DEF r
  <2>2. CASE r = p
    <3>1. PICK i \in DOMAIN rs : rs[i].n = n
      BY <1>5, <2>1, <2>2 DEF r
    <3>2. l + i \in DOMAIN t.jobs /\ IsReaction(t, l + i, n)
      BY <1>8, <3>1 DEF IsReaction
    <3> QED BY <1>7, <2>1, <2>2, <3>2 DEF Placed
  <2>3. CASE r # p
    <3>1. t.prom[r] = s.prom[r]
      BY <1>7, <2>1, <2>3
    <3>2. (\E i \in DOMAIN s.jobs : IsReaction(s, i, n)) => \E i \in DOMAIN t.jobs : IsReaction(t, i, n)
      BY <1>8 DEF IsReaction
    <3>3. t.thens[n] = s.thens[n] /\ s.thens[n].p = r /\ t.ran = s.ran
      BY <1>7 DEF r
    <3>4. CASE Pending(s, r)
      BY <2>1, <3>1, <3>3, <3>4 DEF Placed, Pending
    <3>5. CASE ~Pending(s, r)
      BY <2>1, <3>1, <3>2, <3>3, <3>5 DEF Placed, Pending
    <3> QED BY <3>4, <3>5
  <2> QED BY <2>2, <2>3
<1>11. QueueInv(t)
  <2>1. ASSUME NEW i \in DOMAIN t.jobs, t.jobs[i].job = "reaction"
        PROVE  t.jobs[i].n \notin t.ran
    <3>1. CASE i \in DOMAIN s.jobs
      BY <1>7, <1>8, <2>1, <3>1 DEF ReactInv, QueueInv
    <3>2. CASE i \notin DOMAIN s.jobs
      BY <1>3, <1>5, <1>7, <1>8, <3>2
    <3> QED BY <3>1, <3>2
  <2>2. ASSUME NEW i \in DOMAIN t.jobs, NEW j \in DOMAIN t.jobs,
               t.jobs[i].job = "reaction", t.jobs[j].job = "reaction", i < j,
               t.thens[t.jobs[i].n].p = t.thens[t.jobs[j].n].p
        PROVE  t.jobs[i].n < t.jobs[j].n
    <3>1. CASE i \in DOMAIN s.jobs /\ j \in DOMAIN s.jobs
      BY <1>7, <1>8, <2>2, <3>1 DEF ReactInv, QueueInv
    <3>2. CASE i \notin DOMAIN s.jobs /\ j \notin DOMAIN s.jobs
      <4>1. /\ i > l /\ i - l \in DOMAIN rs /\ t.jobs[i].n = rs[i - l].n
            /\ j > l /\ j - l \in DOMAIN rs /\ t.jobs[j].n = rs[j - l].n
        BY <1>8, <3>2
      <4>2. i - l < j - l
        <5>1. i - l \in Nat /\ j - l \in Nat /\ l \in Nat
          BY <1>8, <4>1
        <5>2. i \in Int /\ j \in Int
          <6>1. t \in States
            BY <1>1 DEF SettleFacts
          <6> QED BY <6>1, Elements
        <5> QED BY <2>2, <5>1, <5>2
      <4> QED BY <1>4, <4>1, <4>2
    <3>3. CASE i \in DOMAIN s.jobs /\ j \notin DOMAIN s.jobs
      <4>1. s.thens[t.jobs[j].n].p = p
        BY <1>3, <1>8, <3>3
      <4>2. s.thens[t.jobs[i].n].p # p
        BY <1>6, <1>8, <2>2, <3>3
      <4> QED BY <1>7, <2>2, <4>1, <4>2
    <3>4. CASE i \notin DOMAIN s.jobs /\ j \in DOMAIN s.jobs
      <4>1. i > l /\ j <= l
        BY <1>8, <3>4
      <4>2. i \in Int /\ j \in Int /\ l \in Int
        <5>1. t \in States
          BY <1>1 DEF SettleFacts
        <5> QED BY <1>8, <5>1, Elements
      <4> QED BY <2>2, <4>1, <4>2
    <3> QED BY <3>1, <3>2, <3>3, <3>4
  <2> QED BY <2>1, <2>2 DEF QueueInv
<1>12. RanInv(t)
  BY <1>7 DEF ReactInv, RanInv
<1> QED BY <1>9, <1>10, <1>11, <1>12 DEF ReactInv

-----------------------------------------------------------------------------
(***************************************************************************)
(* The tracker.                                                            *)
(***************************************************************************)
LEMMA CapTrack ==
    ASSUME NEW s, NEW t, TrackInv(s), CapEffect(s, t)
    PROVE  TrackInv(t)
<1>1. /\ \A p \in DOMAIN s.prom : p \in DOMAIN t.prom /\ t.prom[p] = s.prom[p]
      /\ \A p \in DOMAIN t.prom : p \in DOMAIN s.prom \/ t.prom[p].state = "pending"
      /\ t.unhandled = s.unhandled
  BY DEF CapEffect, Added, Fresh
<1> QED BY <1>1 DEF TrackInv

LEMMA SettleTrack ==
    ASSUME NEW s, NEW t, NEW k \in DOMAIN s.pair, NEW side \in Sides, NEW v, RefInv(s), TrackInv(s),
           SettleEffect(s, t, k, side, v), Pending(s, s.pair[k].promise)
    PROVE  TrackInv(t)
<1> DEFINE p == s.pair[k].promise
           rs == s.prom[p].reactions[side]
<1>1. SettleFacts(s, t, k, side, v, p, rs) /\ Pending(s, p)
  BY SettleParts
<1> HIDE DEF p, rs
<1>2. /\ DOMAIN t.prom = DOMAIN s.prom /\ \A q \in DOMAIN s.prom : q # p => t.prom[q] = s.prom[q]
      /\ t.prom[p].state = Outcome(side) /\ t.prom[p].handled = s.prom[p].handled /\ p \in DOMAIN s.prom
      /\ t.unhandled = IF side = 1 /\ ~s.prom[p].handled THEN s.unhandled \cup {p} ELSE s.unhandled
  BY <1>1 DEF SettleFacts
<1>3. p \notin s.unhandled
  BY <1>1 DEF TrackInv, Pending
<1> QED BY <1>2, <1>3 DEF TrackInv, Outcome, Sides

LEMMA ThenTrack ==
    ASSUME NEW s, NEW t, NEW p \in DOMAIN s.prom, NEW fns, NEW cap, TrackInv(s), ThenEffect(s, t, p, fns, cap)
    PROVE  TrackInv(t)
<1>1. ThenFacts(s, t, p, fns, cap, Len(s.thens) + 1)
  BY ThenParts
<1>2. /\ DOMAIN t.prom = DOMAIN s.prom /\ \A q \in DOMAIN s.prom : q # p => t.prom[q] = s.prom[q]
      /\ t.prom[p].state = s.prom[p].state /\ t.prom[p].handled
  BY <1>1 DEF ThenFacts
<1>3. t.unhandled = IF s.prom[p].state = "rejected" /\ ~s.prom[p].handled THEN s.unhandled \ {p} ELSE s.unhandled
  BY DEF ThenEffect
<1> QED BY <1>2, <1>3 DEF TrackInv

-----------------------------------------------------------------------------
(***************************************************************************)
(* Who has a pair, and the functions of an item: what a step keeps.        *)
(***************************************************************************)
LEMMA FunctionFields ==
    /\ \A k, x : Settle(k, x).fn = "settle" /\ Settle(k, x).k = k /\ Settle(k, x).side = x
    /\ \A c, n, x : /\ Element(c, n, x).fn = "element" /\ Element(c, n, x).k = c
                    /\ Element(c, n, x).n = n /\ Element(c, n, x).side = x
    /\ \A x : Finally(x).fn = "finally" /\ Finally(x).side = x
    /\ \A x, v : Thunk(x, v).fn = "thunk" /\ Thunk(x, v).side = x /\ Thunk(x, v).v = v
    /\ NoHandler.fn = "undefined" /\ User.fn = "user"
BY DEF Settle, Element, Finally, Thunk, NoHandler, User, Function

LEMMA BothIs ==
    /\ \A f, g : Both(f, g)[0] = f /\ Both(f, g)[1] = g /\ Both(f, g) = [x \in Sides |-> Both(f, g)[x]]
    /\ Sides = {0, 1}
BY DEF Both, Sides

\* The functions of an item depend on what does not change.
LEMMA ItemFnsKept ==
    ASSUME NEW s, NEW t, NEW c, NEW n, t.comb[c].k = s.comb[c].k, t.comb[c].kind = s.comb[c].kind
    PROVE  ItemFns(t, c, n) = ItemFns(s, c, n)
BY DEF ItemFns

\* What somebody has in s, somebody has in t.
LEMMA HasKept ==
    ASSUME NEW s, NEW t, NEW Z, NEW W, Grows(s, t), s.held \subseteq t.held,
           \A n \in DOMAIN s.thens : Live(s, n, Z) => Live(t, n, W)
    PROVE  /\ \A k : HasPair(s, k, Z) => HasPair(t, k, W)
           /\ \A c \in DOMAIN s.comb : \A n : HasItem(s, c, n, Z) => HasItem(t, c, n, W)
<1>1. ASSUME NEW k, HasPair(s, k, Z)
      PROVE  HasPair(t, k, W)
  <2>1. CASE \E h \in s.held : h.fn = "settle" /\ h.k = k
    BY <2>1 DEF HasPair
  <2>2. CASE \E n \in DOMAIN s.thens : Live(s, n, Z) /\ s.thens[n].cap = k
    BY <2>2 DEF HasPair, Grows
  <2>3. CASE \E n \in DOMAIN s.thens : Live(s, n, Z) /\ s.thens[n].fns = Both(Settle(k, 0), Settle(k, 1))
    BY <2>3 DEF HasPair, Grows
  <2>4. CASE \E c \in DOMAIN s.comb : s.comb[c].k = k
    BY <2>4 DEF HasPair, Grows
  <2> QED BY <1>1, <2>1, <2>2, <2>3, <2>4 DEF HasPair
<1>2. ASSUME NEW c \in DOMAIN s.comb, NEW n, HasItem(s, c, n, Z)
      PROVE  HasItem(t, c, n, W)
  <2>1. ItemFns(t, c, n) = ItemFns(s, c, n) /\ s.comb[c].called \subseteq t.comb[c].called
    BY ItemFnsKept DEF Grows
  <2>2. CASE \E x \in Sides : ItemFns(s, c, n)[x] \in s.held
    BY <2>1, <2>2 DEF HasItem
  <2>3. CASE \E m \in DOMAIN s.thens : Live(s, m, Z) /\ s.thens[m].fns = ItemFns(s, c, n)
    BY <2>1, <2>3 DEF HasItem, Grows
  <2>4. CASE \E x \in Sides : <<n, x>> \in s.comb[c].called
    BY <2>1, <2>4 DEF HasItem
  <2> QED BY <1>2, <2>2, <2>3, <2>4 DEF HasItem
<1> QED BY <1>1, <1>2

\* So only what is new needs to be looked at.
LEMMA KeepFrom ==
    ASSUME NEW s, NEW t, NEW X, NEW Y, NEW Z, NEW V, NEW U, NEW W, RefInv(s), KeepInv(s, X, Y, Z),
           Grows(s, t), s.held \subseteq t.held,
           \A n \in DOMAIN s.thens : Live(s, n, Z) => Live(t, n, W),
           WayInv(t),
           \A k \in DOMAIN t.pair : Unused(t, k) =>
              k \in V \/ HasPair(t, k, W) \/ (k \in DOMAIN s.pair /\ k \notin X),
           \A c \in DOMAIN t.comb : Unused(t, t.comb[c].k) =>
              /\ \/ <<c, 0>> \in U \/ Counts(t, c)
                 \/ c \in DOMAIN s.comb /\ t.comb[c] = s.comb[c] /\ <<c, 0>> \notin Y
              /\ \A n \in DOMAIN t.comb[c].items :
                    \/ <<c, n>> \in U \/ HasItem(t, c, n, W)
                    \/ c \in DOMAIN s.comb /\ n \in DOMAIN s.comb[c].items /\ <<c, n>> \notin Y
    PROVE  KeepInv(t, V, U, W)
<1>1. /\ \A k : HasPair(s, k, Z) => HasPair(t, k, W)
      /\ \A c \in DOMAIN s.comb : \A n : HasItem(s, c, n, Z) => HasItem(t, c, n, W)
  BY HasKept
<1>2. \A k \in DOMAIN s.pair : Unused(t, k) => Unused(s, k)
  BY DEF Unused, Grows
<1>3. PairInv(t, V, W)
  BY <1>1, <1>2 DEF PairInv, KeepInv
<1>4. CombInv(t, U, W)
  <2> SUFFICES ASSUME NEW c \in DOMAIN t.comb, Unused(t, t.comb[c].k)
               PROVE  /\ <<c, 0>> \in U \/ Counts(t, c)
                      /\ \A n \in DOMAIN t.comb[c].items : <<c, n>> \in U \/ HasItem(t, c, n, W)
    BY DEF CombInv
  <2>1. CASE c \in DOMAIN s.comb
    <3>1. t.comb[c].k = s.comb[c].k /\ s.comb[c].k \in DOMAIN s.pair
      BY <2>1 DEF Grows, RefInv, CombOK
    <3>2. /\ <<c, 0>> \in Y \/ Counts(s, c)
          /\ \A n \in DOMAIN s.comb[c].items : <<c, n>> \in Y \/ HasItem(s, c, n, Z)
      BY <1>2, <2>1, <3>1 DEF KeepInv, CombInv
    <3>3. t.comb[c] = s.comb[c] /\ Counts(s, c) => Counts(t, c)
      BY DEF Counts
    <3> QED BY <1>1, <2>1, <3>1, <3>2, <3>3
  <2>2. CASE c \notin DOMAIN s.comb
    BY <2>2
  <2> QED BY <2>1, <2>2
<1> QED BY <1>3, <1>4 DEF KeepInv

LEMMA CapKeep ==
    ASSUME NEW s, NEW t, NEW X, NEW Y, NEW Z, RefInv(s), KeepInv(s, X, Y, Z), CapEffect(s, t)
    PROVE  KeepInv(t, X \cup {Len(s.pair) + 1}, Y, Z)
<1> DEFINE l == Len(s.pair) + 1
<1>1. Grows(s, t)
  BY CapRef
<1>2. /\ l \in DOMAIN t.pair /\ ~t.pair[l].done /\ t.pair[l].promise = Len(s.prom) + 1
      /\ \A k \in DOMAIN t.pair : k \in DOMAIN s.pair \/ k = l
      /\ \A k \in DOMAIN s.pair : k \in DOMAIN t.pair /\ t.pair[k] = s.pair[k]
      /\ \A p \in DOMAIN t.prom : p \in DOMAIN s.prom \/ p = Len(s.prom) + 1
      /\ \A p \in DOMAIN s.prom : t.prom[p] = s.prom[p]
      /\ t.comb = s.comb /\ t.jobs = s.jobs /\ t.held = s.held /\ t.thens = s.thens /\ t.ran = s.ran
  BY DEF CapEffect, Added
<1> HIDE DEF l
<1>3. WayInv(t)
  <2> SUFFICES ASSUME NEW p \in DOMAIN t.prom, Pending(t, p)
               PROVE  \/ \E k \in DOMAIN t.pair : Unused(t, k) /\ t.pair[k].promise = p
                      \/ \E i \in DOMAIN t.jobs : Waits(t, i) /\ t.jobs[i].promise = p
    BY DEF WayInv
  <2>1. CASE p \in DOMAIN s.prom
    BY <1>2, <2>1 DEF KeepInv, WayInv, Pending, Unused, Waits
  <2>2. CASE p = Len(s.prom) + 1
    BY <1>2, <2>2 DEF Unused
  <2> QED BY <1>2, <2>1, <2>2
<1>4. \A n \in DOMAIN s.thens : Live(s, n, Z) => Live(t, n, Z)
  BY <1>2 DEF Live
<1> QED
  <2>1. \A c \in DOMAIN t.comb : c \in DOMAIN s.comb /\ t.comb[c] = s.comb[c]
    BY <1>2
  <2>2. \A c \in DOMAIN t.comb : Unused(t, t.comb[c].k) =>
              /\ \/ <<c, 0>> \in Y \/ Counts(t, c)
                 \/ c \in DOMAIN s.comb /\ t.comb[c] = s.comb[c] /\ <<c, 0>> \notin Y
              /\ \A n \in DOMAIN t.comb[c].items :
                    \/ <<c, n>> \in Y \/ HasItem(t, c, n, Z)
                    \/ c \in DOMAIN s.comb /\ n \in DOMAIN s.comb[c].items /\ <<c, n>> \notin Y
    BY <2>1
  <2> QED BY <1>1, <1>2, <1>3, <1>4, <2>2, KeepFrom DEF l

\* Combinators, thens and functions are not changed.
SameKept(s, t) == t.comb = s.comb /\ t.held = s.held /\ t.thens = s.thens /\ t.ran = s.ran
LEMMA SameKeep ==
    ASSUME NEW s, NEW t, NEW k, NEW X, NEW V, NEW Y, NEW U, NEW Z, RefInv(s), KeepInv(s, X, Y, Z), Grows(s, t),
           SameKept(s, t), WayInv(t), DOMAIN t.pair = DOMAIN s.pair, ~Unused(t, k), X \subseteq V \cup {k},
           \A c, n : <<c, n>> \in Y => <<c, n>> \in U \/ (n = 0 /\ s.comb[c].k = k)
    PROVE  KeepInv(t, V, U, Z)
<1>1. \A c \in DOMAIN t.comb : c \in DOMAIN s.comb /\ t.comb[c] = s.comb[c]
  BY DEF SameKept
<1>5. \A c \in DOMAIN s.comb : 0 \notin DOMAIN s.comb[c].items
  BY Elements DEF RefInv, Combinators
<1>2. \A c \in DOMAIN t.comb : Unused(t, t.comb[c].k) =>
            /\ \/ <<c, 0>> \in U \/ Counts(t, c)
               \/ c \in DOMAIN s.comb /\ t.comb[c] = s.comb[c] /\ <<c, 0>> \notin Y
            /\ \A n \in DOMAIN t.comb[c].items :
                  \/ <<c, n>> \in U \/ HasItem(t, c, n, Z)
                  \/ c \in DOMAIN s.comb /\ n \in DOMAIN s.comb[c].items /\ <<c, n>> \notin Y
  BY <1>1, <1>5
<1>3. \A l \in DOMAIN t.pair : Unused(t, l) =>
            l \in V \/ HasPair(t, l, Z) \/ (l \in DOMAIN s.pair /\ l \notin X)
  OBVIOUS
<1>4. s.held \subseteq t.held /\ \A n \in DOMAIN s.thens : Live(s, n, Z) => Live(t, n, Z)
  BY DEF Live, SameKept
<1> QED BY <1>2, <1>3, <1>4, KeepFrom

LEMMA FollowKeep ==
    ASSUME NEW s, NEW t, NEW k \in DOMAIN s.pair, NEW v \in AllValues, NEW X, NEW V, NEW Y, NEW U, NEW Z, RefInv(s),
           KeepInv(s, X, Y, Z), FollowEffect(s, t, k, v), ValueOK(s, v), v[1] \in {"prom", "thenable"},
           X \subseteq V \cup {k},
           \A c, n : <<c, n>> \in Y => <<c, n>> \in U \/ (n = 0 /\ s.comb[c].k = k)
    PROVE  KeepInv(t, V, U, Z)
<1>1. Grows(s, t) /\ SameKept(s, t) /\ DOMAIN t.pair = DOMAIN s.pair
  BY FollowRef DEF FollowEffect, Changed, SameKept
<1>2. t.pair[k].done /\ \A l \in DOMAIN s.pair : l # k => t.pair[l] = s.pair[l]
  BY UsedPairIs DEF FollowEffect, Changed, RefInv
<1>3. /\ t.prom = s.prom /\ \A i \in DOMAIN s.jobs : i \in DOMAIN t.jobs /\ t.jobs[i] = s.jobs[i]
      /\ \E i \in DOMAIN t.jobs : t.jobs[i] = Follow(s.pair[k].promise, v)
  BY DEF FollowEffect, Added
<1>4. \E i \in DOMAIN t.jobs : Waits(t, i) /\ t.jobs[i].promise = s.pair[k].promise
  BY <1>3 DEF Waits, Follow, Entry
<1>5. WayInv(t)
  <2> SUFFICES ASSUME NEW p \in DOMAIN s.prom, Pending(s, p)
               PROVE  \/ \E l \in DOMAIN t.pair : Unused(t, l) /\ t.pair[l].promise = p
                      \/ \E i \in DOMAIN t.jobs : Waits(t, i) /\ t.jobs[i].promise = p
    BY <1>3 DEF WayInv, Pending
  <2>1. CASE \E i \in DOMAIN s.jobs : Waits(s, i) /\ s.jobs[i].promise = p
    BY <1>3, <2>1 DEF Waits
  <2>2. CASE \E l \in DOMAIN s.pair : Unused(s, l) /\ s.pair[l].promise = p
    BY <1>1, <1>2, <1>4, <2>2 DEF Unused
  <2> QED BY <2>1, <2>2 DEF KeepInv, WayInv
<1> QED BY <1>1, <1>2, <1>5, SameKeep DEF Unused

LEMMA SettleKeep ==
    ASSUME NEW s, NEW t, NEW k \in DOMAIN s.pair, NEW side \in Sides, NEW v \in AllValues, NEW X, NEW V,
           NEW Y, NEW U, NEW Z, RefInv(s), KeepInv(s, X, Y, Z), Pending(s, s.pair[k].promise),
           SettleEffect(s, t, k, side, v), Giveable(s, k, v), Final(side, v), X \subseteq V \cup {k},
           \A c, n : <<c, n>> \in Y => <<c, n>> \in U \/ (n = 0 /\ s.comb[c].k = k)
    PROVE  KeepInv(t, V, U, Z)
<1> DEFINE q == s.pair[k].promise
           rs == s.prom[q].reactions[side]
<1>1. Grows(s, t)
  BY SettleRef
<1>2. SettleFacts(s, t, k, side, v, q, rs)
  BY SettleParts
<1>3. \A l \in DOMAIN s.pair : s.pair[l].promise # q => l # k
  OBVIOUS
<1> HIDE DEF q, rs
<1>4. SameKept(s, t) /\ DOMAIN t.pair = DOMAIN s.pair /\ ~Unused(t, k)
  BY <1>2 DEF SettleFacts, SameKept, Unused
<1>5. WayInv(t)
  <2> SUFFICES ASSUME NEW p \in DOMAIN t.prom, Pending(t, p)
               PROVE  \/ \E l \in DOMAIN t.pair : Unused(t, l) /\ t.pair[l].promise = p
                      \/ \E i \in DOMAIN t.jobs : Waits(t, i) /\ t.jobs[i].promise = p
    BY DEF WayInv
  <2>1. p # q /\ p \in DOMAIN s.prom /\ Pending(s, p)
    BY <1>2 DEF SettleFacts, Pending, Outcome
  <2>2. CASE \E i \in DOMAIN s.jobs : Waits(s, i) /\ s.jobs[i].promise = p
    BY <1>2, <2>2 DEF Waits, SettleFacts
  <2>3. CASE \E l \in DOMAIN s.pair : Unused(s, l) /\ s.pair[l].promise = p
    BY <1>2, <1>3, <2>1, <2>3 DEF Unused, SettleFacts
  <2> QED BY <2>1, <2>2, <2>3 DEF KeepInv, WayInv
<1> QED BY <1>1, <1>4, <1>5, SameKeep

\* A then has the pair that it settles, and the functions it calls.
LEMMA ThenKeep ==
    ASSUME NEW s, NEW t, NEW p \in DOMAIN s.prom, NEW fns \in [Sides -> AllFunctions],
           NEW cap \in {0} \cup DOMAIN s.pair, NEW X, NEW V, NEW Y, NEW U, NEW Z,
           RefInv(s), ReactInv(s), KeepInv(s, X, Y, Z),
           ThenEffect(s, t, p, fns, cap), \A x \in Sides : FunctionOK(s, fns[x]),
           \A k \in X : k \in V \/ k = cap \/ fns = Both(Settle(k, 0), Settle(k, 1)),
           \A c, n : <<c, n>> \in Y => <<c, n>> \in U \/ (n # 0 /\ fns = ItemFns(s, c, n))
    PROVE  KeepInv(t, V, U, Z)
<1>1. Grows(s, t)
  BY ThenRef
<1> DEFINE m == Len(s.thens) + 1
<1>2. ThenFacts(s, t, p, fns, cap, m)
  BY ThenParts
<1>3. \A i \in DOMAIN s.jobs : i \in DOMAIN t.jobs /\ t.jobs[i] = s.jobs[i]
  BY ThenJobs DEF RefInv
<1> HIDE DEF m
<1>4. Live(t, m, Z)
  BY <1>2 DEF ThenFacts, Live, ReactInv, RanInv
<1>5. WayInv(t)
  BY <1>2, <1>3 DEF KeepInv, WayInv, ThenFacts, Unused, Waits, Pending
<1>6. s.held \subseteq t.held /\ \A n \in DOMAIN s.thens : Live(s, n, Z) => Live(t, n, Z)
  BY <1>2 DEF Live, ThenFacts
<1>7. \A k : (k = cap \/ fns = Both(Settle(k, 0), Settle(k, 1))) => HasPair(t, k, Z)
  BY <1>2, <1>4 DEF HasPair, ThenFacts
<1>8. \A c, n : fns = ItemFns(t, c, n) => HasItem(t, c, n, Z)
  BY <1>2, <1>4 DEF HasItem, ThenFacts
<1>9. t.pair = s.pair /\ t.comb = s.comb
  BY <1>2 DEF ThenFacts
<1>10. \A c, n : ItemFns(t, c, n) = ItemFns(s, c, n)
  BY <1>9, ItemFnsKept
<1>11. \A k \in DOMAIN t.pair : Unused(t, k) =>
              k \in V \/ HasPair(t, k, Z) \/ (k \in DOMAIN s.pair /\ k \notin X)
  BY <1>7, <1>9
<1>12. \A c \in DOMAIN t.comb : Unused(t, t.comb[c].k) =>
              /\ \/ <<c, 0>> \in U \/ Counts(t, c)
                 \/ c \in DOMAIN s.comb /\ t.comb[c] = s.comb[c] /\ <<c, 0>> \notin Y
              /\ \A n \in DOMAIN t.comb[c].items :
                    \/ <<c, n>> \in U \/ HasItem(t, c, n, Z)
                    \/ c \in DOMAIN s.comb /\ n \in DOMAIN s.comb[c].items /\ <<c, n>> \notin Y
  BY <1>8, <1>9, <1>10
<1> QED BY <1>1, <1>5, <1>6, <1>11, <1>12, KeepFrom

\* Functions are given to JavaScript code.
LEMMA HeldKeep ==
    ASSUME NEW s, NEW t, NEW H, NEW X, NEW V, NEW Y, NEW U, NEW Z,
           RefInv(s), KeepInv(s, X, Y, Z), HeldEffect(s, t, H), \A h \in H : HeldOK(s, h),
           \A k \in X : k \in V \/ \E h \in H : h.fn = "settle" /\ h.k = k,
           \A c, n : <<c, n>> \in Y => <<c, n>> \in U \/ (n # 0 /\ \E x \in Sides : ItemFns(s, c, n)[x] \in H)
    PROVE  KeepInv(t, V, U, Z)
<1>1. Grows(s, t)
  BY HeldRef
<1>2. /\ t.prom = s.prom /\ t.pair = s.pair /\ t.comb = s.comb /\ t.jobs = s.jobs
      /\ t.thens = s.thens /\ t.ran = s.ran /\ t.held = s.held \cup H
  BY DEF HeldEffect, QuietEffect
<1>3. WayInv(t)
  BY <1>2 DEF KeepInv, WayInv, Unused, Waits, Pending
<1>4. s.held \subseteq t.held /\ \A n \in DOMAIN s.thens : Live(s, n, Z) => Live(t, n, Z)
  BY <1>2 DEF Live
<1>5. \A k : (\E h \in H : h.fn = "settle" /\ h.k = k) => HasPair(t, k, Z)
  BY <1>2 DEF HasPair
<1>6. \A c, n : (\E x \in Sides : ItemFns(s, c, n)[x] \in H) => HasItem(t, c, n, Z)
  <2> TAKE c, n
  <2>1. ItemFns(t, c, n) = ItemFns(s, c, n)
    BY <1>2, ItemFnsKept
  <2> QED BY <1>2, <2>1 DEF HasItem
<1>7. \A k \in DOMAIN t.pair : Unused(t, k) =>
            k \in V \/ HasPair(t, k, Z) \/ (k \in DOMAIN s.pair /\ k \notin X)
  BY <1>2, <1>5
<1>8. \A c \in DOMAIN t.comb : Unused(t, t.comb[c].k) =>
            /\ \/ <<c, 0>> \in U \/ Counts(t, c)
               \/ c \in DOMAIN s.comb /\ t.comb[c] = s.comb[c] /\ <<c, 0>> \notin Y
            /\ \A n \in DOMAIN t.comb[c].items :
                  \/ <<c, n>> \in U \/ HasItem(t, c, n, Z)
                  \/ c \in DOMAIN s.comb /\ n \in DOMAIN s.comb[c].items /\ <<c, n>> \notin Y
  BY <1>2, <1>6
<1> QED BY <1>1, <1>3, <1>4, <1>7, <1>8, KeepFrom

\* Nothing is given or used.
LEMMA PlainKeep ==
    ASSUME NEW s, NEW t, NEW X, NEW Y, NEW Z, NEW W, KeepInv(s, X, Y, Z), RefInv(s),
           t.prom = s.prom, t.pair = s.pair, t.comb = s.comb, t.held = s.held, t.thens = s.thens,
           \A i \in DOMAIN s.jobs : Waits(s, i) =>
              \E j \in DOMAIN t.jobs : Waits(t, j) /\ t.jobs[j].promise = s.jobs[i].promise,
           s.ran \subseteq t.ran, t.ran \subseteq s.ran \cup W, Z \subseteq W
    PROVE  KeepInv(t, X, Y, W)
<1>1. Grows(s, t)
  BY DEF Grows
<1>2. WayInv(t)
  BY DEF KeepInv, WayInv, Unused, Pending
<1>3. s.held \subseteq t.held /\ \A n \in DOMAIN s.thens : Live(s, n, Z) => Live(t, n, W)
  BY DEF Live
<1> QED BY <1>1, <1>2, <1>3, KeepFrom

LEMMA FinalKeep ==
    ASSUME NEW s, NEW t, NEW f, NEW X, NEW Y, NEW Z, RefInv(s), KeepInv(s, X, Y, Z), FinalEffect(s, t, f)
    PROVE  KeepInv(t, X, Y, Z)
BY PlainKeep DEF FinalEffect, QuietEffect, Waits

LEMMA CallbackKeep ==
    ASSUME NEW s, NEW t, NEW X, NEW Y, NEW Z, RefInv(s), KeepInv(s, X, Y, Z), CallbackEffect(s, t)
    PROVE  KeepInv(t, X, Y, Z)
<1>1. \A i \in DOMAIN s.jobs : i \in DOMAIN t.jobs /\ t.jobs[i] = s.jobs[i]
  BY DEF CallbackEffect, Added
<1> QED BY <1>1, PlainKeep DEF CallbackEffect, Waits

\* A job that is no thenable is taken: its reaction runs.
LEMMA PopKeep ==
    ASSUME NEW s, NEW t, NEW j, NEW Y, NEW X, RefInv(s), KeepInv(s, X, Y, {}), PopEffect(s, t, j),
           j.job # "thenable"
    PROVE  KeepInv(t, X, Y, Running(j))
<1>1. \A i \in DOMAIN s.jobs : i = 1 \/ (i - 1 \in DOMAIN t.jobs /\ t.jobs[i - 1] = s.jobs[i])
  BY DEF PopEffect, Shifted
<1>2. ~Waits(s, 1)
  BY DEF Waits, PopEffect
<1>3. \A i \in DOMAIN s.jobs : Waits(s, i) =>
              \E l \in DOMAIN t.jobs : Waits(t, l) /\ t.jobs[l].promise = s.jobs[i].promise
  BY <1>1, <1>2 DEF Waits
<1>4. s.ran \subseteq t.ran /\ t.ran \subseteq s.ran \cup Running(j)
  BY DEF PopEffect, Running
<1>5. t.prom = s.prom /\ t.pair = s.pair /\ t.comb = s.comb /\ t.held = s.held /\ t.thens = s.thens
  BY DEF PopEffect
<1> QED BY <1>3, <1>4, <1>5, PlainKeep

LEMMA PopPairKeep ==
    ASSUME NEW s, NEW t, NEW j, NEW X, NEW Y, NEW Z, RefInv(s), KeepInv(s, X, Y, Z), PopPairEffect(s, t, j)
    PROVE  KeepInv(t, X \cup {Len(s.pair) + 1}, Y, Z)
<1> DEFINE l == Len(s.pair) + 1
<1>1. Grows(s, t)
  BY PopPairRef
<1>2. /\ l \in DOMAIN t.pair /\ ~t.pair[l].done /\ t.pair[l].promise = j.promise
      /\ \A k \in DOMAIN t.pair : k \in DOMAIN s.pair \/ k = l
      /\ \A k \in DOMAIN s.pair : k \in DOMAIN t.pair /\ t.pair[k] = s.pair[k]
  BY DEF PopPairEffect, Added
<1>3. /\ t.prom = s.prom /\ t.comb = s.comb /\ t.held = s.held /\ t.thens = s.thens /\ t.ran = s.ran
      /\ \A i \in DOMAIN s.jobs : i = 1 \/ (i - 1 \in DOMAIN t.jobs /\ t.jobs[i - 1] = s.jobs[i])
      /\ s.jobs[1] = j
  BY DEF PopPairEffect, Shifted
<1> HIDE DEF l
<1>4. WayInv(t)
  <2> SUFFICES ASSUME NEW p \in DOMAIN s.prom, Pending(s, p)
               PROVE  \/ \E k \in DOMAIN t.pair : Unused(t, k) /\ t.pair[k].promise = p
                      \/ \E i \in DOMAIN t.jobs : Waits(t, i) /\ t.jobs[i].promise = p
    BY <1>3 DEF WayInv, Pending
  <2>1. CASE \E k \in DOMAIN s.pair : Unused(s, k) /\ s.pair[k].promise = p
    BY <1>2, <2>1 DEF Unused
  <2>2. CASE \E i \in DOMAIN s.jobs : Waits(s, i) /\ s.jobs[i].promise = p
    <3>1. PICK i \in DOMAIN s.jobs : Waits(s, i) /\ s.jobs[i].promise = p
      BY <2>2
    <3>2. CASE i = 1
      BY <1>2, <1>3, <3>1, <3>2 DEF Unused
    <3>3. CASE i # 1
      BY <1>3, <3>1, <3>3 DEF Waits
    <3> QED BY <3>2, <3>3
  <2> QED BY <2>1, <2>2 DEF KeepInv, WayInv
<1>5. \A n \in DOMAIN s.thens : Live(s, n, Z) => Live(t, n, Z)
  BY <1>3 DEF Live
<1>6. \A c \in DOMAIN t.comb : c \in DOMAIN s.comb /\ t.comb[c] = s.comb[c]
  BY <1>3
<1>7. \A c \in DOMAIN t.comb : Unused(t, t.comb[c].k) =>
            /\ \/ <<c, 0>> \in Y \/ Counts(t, c)
               \/ c \in DOMAIN s.comb /\ t.comb[c] = s.comb[c] /\ <<c, 0>> \notin Y
            /\ \A n \in DOMAIN t.comb[c].items :
                  \/ <<c, n>> \in Y \/ HasItem(t, c, n, Z)
                  \/ c \in DOMAIN s.comb /\ n \in DOMAIN s.comb[c].items /\ <<c, n>> \notin Y
  BY <1>6
<1> QED BY <1>1, <1>2, <1>3, <1>4, <1>5, <1>7, KeepFrom DEF l

LEMMA NewCombKeep ==
    ASSUME NEW s, NEW t, NEW kind, NEW k \in DOMAIN s.pair, NEW X, NEW V, NEW Y, NEW Z, RefInv(s),
           KeepInv(s, X, Y, Z), NewCombEffect(s, t, kind, k), X \subseteq V \cup {k}
    PROVE  KeepInv(t, V, Y, Z)
<1> DEFINE m == Len(s.comb) + 1
           C == [kind |-> kind, k |-> k, rem |-> 1, called |-> {},
                 values |-> <<>>, items |-> <<>>, open |-> TRUE]
<1>1. Grows(s, t)
  BY NewCombRef
<1>2. /\ m \in DOMAIN t.comb /\ t.comb[m] = C
      /\ \A c \in DOMAIN t.comb : c = m \/ (c \in DOMAIN s.comb /\ t.comb[c] = s.comb[c])
      /\ t.prom = s.prom /\ t.pair = s.pair /\ t.jobs = s.jobs /\ t.thens = s.thens /\ t.ran = s.ran
      /\ t.held = s.held
  BY DEF NewCombEffect, Added, QuietEffect
<1>3. t.comb[m].k = k /\ t.comb[m].items = <<>> /\ t.comb[m].rem = 1 /\ t.comb[m].called = {} /\ t.comb[m].open
  BY <1>2
<1> HIDE DEF m, C
<1>4. WayInv(t)
  BY <1>2 DEF KeepInv, WayInv, Unused, Waits, Pending
<1>5. s.held \subseteq t.held /\ \A n \in DOMAIN s.thens : Live(s, n, Z) => Live(t, n, Z)
  BY <1>2 DEF Live
<1>6. HasPair(t, k, Z)
  BY <1>2, <1>3 DEF HasPair
<1>7. Counts(t, m) /\ DOMAIN t.comb[m].items = {}
  <2>1. Cardinality({}) = 0 /\ Len(<<>>) = 0 /\ DOMAIN <<>> = {}
    BY FS_EmptySet
  <2> QED BY <1>3, <2>1 DEF Counts
<1>8. \A l \in DOMAIN t.pair : Unused(t, l) =>
            l \in V \/ HasPair(t, l, Z) \/ (l \in DOMAIN s.pair /\ l \notin X)
  BY <1>2, <1>6
<1>9. \A c \in DOMAIN t.comb : Unused(t, t.comb[c].k) =>
            /\ \/ <<c, 0>> \in Y \/ Counts(t, c)
               \/ c \in DOMAIN s.comb /\ t.comb[c] = s.comb[c] /\ <<c, 0>> \notin Y
            /\ \A n \in DOMAIN t.comb[c].items :
                  \/ <<c, n>> \in Y \/ HasItem(t, c, n, Z)
                  \/ c \in DOMAIN s.comb /\ n \in DOMAIN s.comb[c].items /\ <<c, n>> \notin Y
  BY <1>2, <1>7
<1> QED BY <1>1, <1>4, <1>5, <1>8, <1>9, KeepFrom

\* One combinator is changed: its count is right, or its pair is about to be
\* used, and its new items are about to be given away.
LEMMA CombKeep ==
    ASSUME NEW s, NEW t, NEW c \in DOMAIN s.comb, NEW X, NEW Y, NEW U, NEW Z, RefInv(s),
           KeepInv(s, X, Y, Z), CombEffect(s, t, c), Grows(s, t), Y \subseteq U,
           Unused(s, s.comb[c].k) => <<c, 0>> \in U \/ Counts(t, c),
           \A n \in DOMAIN t.comb[c].items : n \in DOMAIN s.comb[c].items \/ <<c, n>> \in U
    PROVE  KeepInv(t, X, U, Z)
<1>1. /\ t.prom = s.prom /\ t.pair = s.pair /\ t.jobs = s.jobs /\ t.thens = s.thens /\ t.ran = s.ran
      /\ t.held = s.held /\ DOMAIN t.comb = DOMAIN s.comb
      /\ \A d \in DOMAIN s.comb : d # c => t.comb[d] = s.comb[d]
      /\ t.comb[c].k = s.comb[c].k
  BY DEF CombEffect, QuietEffect, Changed, Grows
<1>2. WayInv(t)
  BY <1>1 DEF KeepInv, WayInv, Unused, Waits, Pending
<1>3. s.held \subseteq t.held /\ \A n \in DOMAIN s.thens : Live(s, n, Z) => Live(t, n, Z)
  BY <1>1 DEF Live
<1>4. Unused(t, t.comb[c].k) => Unused(s, s.comb[c].k)
  BY <1>1 DEF Unused
<1>5. \A d \in DOMAIN t.comb : Unused(t, t.comb[d].k) =>
            /\ \/ <<d, 0>> \in U \/ Counts(t, d)
               \/ d \in DOMAIN s.comb /\ t.comb[d] = s.comb[d] /\ <<d, 0>> \notin Y
            /\ \A n \in DOMAIN t.comb[d].items :
                  \/ <<d, n>> \in U \/ HasItem(t, d, n, Z)
                  \/ d \in DOMAIN s.comb /\ n \in DOMAIN s.comb[d].items /\ <<d, n>> \notin Y
  <2> TAKE d \in DOMAIN t.comb
  <2>1. CASE d = c
    BY <1>1, <1>4, <2>1
  <2>2. CASE d # c
    BY <1>1, <2>2
  <2> QED BY <2>1, <2>2
<1> QED BY <1>1, <1>2, <1>3, <1>5, KeepFrom

\* What a combinator counts with: it is finite.
LEMMA CountedSets ==
    ASSUME NEW s, NEW c \in DOMAIN s.comb, RefInv(s)
    PROVE  /\ s.comb[c].rem \in Int /\ Len(s.comb[c].items) \in Nat
           /\ DOMAIN s.comb[c].items = 1..Len(s.comb[c].items)
           /\ IsFiniteSet(s.comb[c].called) /\ Cardinality(s.comb[c].called) \in Nat
<1>1. s.comb[c] \in Combinators /\ CombOK(s, c)
  BY Elements DEF RefInv
<1>2. s.comb[c].rem \in Int /\ s.comb[c].items \in Seq([p : Nat, native : BOOLEAN])
  BY <1>1 DEF Combinators
<1>3. Len(s.comb[c].items) \in Nat /\ DOMAIN s.comb[c].items = 1..Len(s.comb[c].items)
  BY <1>2
<1>4. IsFiniteSet(DOMAIN s.comb[c].items) /\ IsFiniteSet(Sides)
  <2>1. Sides = 0..1 /\ 0 \in Int /\ 1 \in Int /\ Len(s.comb[c].items) \in Int
    BY <1>3 DEF Sides
  <2>2. IsFiniteSet(0..1) /\ IsFiniteSet(1..Len(s.comb[c].items))
    BY <2>1, FS_Interval
  <2> QED BY <1>3, <2>1, <2>2
<1>5. IsFiniteSet((DOMAIN s.comb[c].items) \X Sides)
  BY <1>4, FS_Product
<1>6. IsFiniteSet(s.comb[c].called)
  BY <1>1, <1>5, FS_Subset DEF CombOK
<1> QED BY <1>2, <1>3, <1>6, FS_CardinalityType

LEMMA CountKeep ==
    ASSUME NEW s, NEW t, NEW c \in DOMAIN s.comb, NEW p \in DOMAIN s.prom, NEW native, NEW X, NEW Z,
           RefInv(s), KeepInv(s, X, {}, Z), CountEffect(s, t, c, p, native)
    PROVE  KeepInv(t, X, {<<c, Len(s.comb[c].items) + 1>>}, Z)
<1>1. Grows(s, t) /\ CombEffect(s, t, c)
  BY CountRef DEF CountEffect
<1>2. /\ s.comb[c].rem \in Int /\ Len(s.comb[c].items) \in Nat /\ Cardinality(s.comb[c].called) \in Nat
  BY CountedSets
<1>3. /\ t.comb[c].rem = s.comb[c].rem + (IF s.comb[c].kind = "race" THEN 0 ELSE 1)
      /\ Len(t.comb[c].items) = Len(s.comb[c].items) + 1
      /\ \A n \in DOMAIN t.comb[c].items : n \in DOMAIN s.comb[c].items \/ n = Len(s.comb[c].items) + 1
      /\ t.comb[c].kind = s.comb[c].kind /\ t.comb[c].k = s.comb[c].k
      /\ t.comb[c].called = s.comb[c].called /\ t.comb[c].open = s.comb[c].open
  BY DEF CountEffect, Added
<1>4. Counts(s, c) => Counts(t, c)
  BY <1>2, <1>3 DEF Counts
<1>5. Unused(s, s.comb[c].k) => Counts(t, c)
  BY <1>4 DEF KeepInv, CombInv
<1> QED BY <1>1, <1>3, <1>5, CombKeep

\* The loop ends.  If everything has answered, the pair is about to be used.
LEMMA EndKeep ==
    ASSUME NEW s, NEW t, NEW c \in DOMAIN s.comb, NEW X, NEW Z, NEW U, NEW r,
           RefInv(s), KeepInv(s, X, {}, Z), EndEffect(s, t, c, r),
           \/ <<c, 0>> \in U
           \/ s.comb[c].kind = "race"
           \/ s.comb[c].open /\ s.comb[c].rem # 1 /\ r = s.comb[c].rem - 1
    PROVE  KeepInv(t, X, U, Z)
<1>1. Grows(s, t) /\ CombEffect(s, t, c)
  BY EndRef DEF EndEffect
<1>2. /\ s.comb[c].rem \in Int /\ Len(s.comb[c].items) \in Nat /\ Cardinality(s.comb[c].called) \in Nat
  BY CountedSets
<1>3. /\ t.comb[c].rem = r /\ ~t.comb[c].open /\ t.comb[c].items = s.comb[c].items
      /\ t.comb[c].kind = s.comb[c].kind /\ t.comb[c].called = s.comb[c].called
  BY DEF EndEffect
<1>4. Counts(s, c) => <<c, 0>> \in U \/ Counts(t, c)
  BY <1>2, <1>3 DEF Counts
<1>5. Unused(s, s.comb[c].k) => <<c, 0>> \in U \/ Counts(t, c)
  BY <1>4 DEF KeepInv, CombInv
<1> QED BY <1>1, <1>3, <1>5, CombKeep

\* An item answers.
LEMMA AnswerKeep ==
    ASSUME NEW s, NEW t, NEW c \in DOMAIN s.comb, NEW n \in DOMAIN s.comb[c].items, NEW side \in Sides, NEW v,
           NEW X, NEW Z, NEW U,
           RefInv(s), KeepInv(s, X, {}, Z), s.comb[c].kind # "race", AnswerEffect(s, t, c, n, side, v),
           <<n, side>> \notin s.comb[c].called, s.comb[c].rem # 1 \/ <<c, 0>> \in U
    PROVE  KeepInv(t, X, U, Z)
<1>1. Grows(s, t) /\ CombEffect(s, t, c)
  BY AnswerRef DEF AnswerEffect
<1>2. /\ s.comb[c].rem \in Int /\ Len(s.comb[c].items) \in Nat /\ Cardinality(s.comb[c].called) \in Nat
      /\ IsFiniteSet(s.comb[c].called)
  BY CountedSets
<1>3. /\ t.comb[c].rem = s.comb[c].rem - 1 /\ t.comb[c].open = s.comb[c].open
      /\ t.comb[c].items = s.comb[c].items
      /\ t.comb[c].kind = s.comb[c].kind /\ t.comb[c].called = s.comb[c].called \cup {<<n, side>>}
  BY DEF AnswerEffect
<1>4. Cardinality(t.comb[c].called) = Cardinality(s.comb[c].called) + 1
  BY <1>2, <1>3, FS_AddElement
<1>5. Counts(s, c) => <<c, 0>> \in U \/ Counts(t, c)
  BY SMTT(40), <1>2, <1>3, <1>4 DEF Counts
<1>6. Unused(s, s.comb[c].k) => <<c, 0>> \in U \/ Counts(t, c)
  BY <1>5 DEF KeepInv, CombInv
<1> QED BY <1>1, <1>3, <1>6, CombKeep

\* A reaction has run to its end: its pair is used, its functions are called.
Spent(s, n) ==
    /\ \A k \in DOMAIN s.pair : Unused(s, k) =>
          s.thens[n].cap # k /\ s.thens[n].fns # Both(Settle(k, 0), Settle(k, 1))
    /\ \A c \in DOMAIN s.comb : \A m : Unused(s, s.comb[c].k) /\ s.thens[n].fns = ItemFns(s, c, m) =>
          \E x \in Sides : <<m, x>> \in s.comb[c].called
LEMMA SpentKeep ==
    ASSUME NEW s, NEW n, NEW X, NEW Y, KeepInv(s, X, Y, {n}), Spent(s, n)
    PROVE  KeepInv(s, X, Y, {})
<1>1. \A m \in DOMAIN s.thens : Live(s, m, {n}) => m = n \/ Live(s, m, {})
  BY DEF Live
<1>2. ASSUME NEW k \in DOMAIN s.pair, Unused(s, k), HasPair(s, k, {n})
      PROVE  HasPair(s, k, {})
  BY <1>1, <1>2 DEF HasPair, Spent
<1>3. ASSUME NEW c \in DOMAIN s.comb, NEW m, Unused(s, s.comb[c].k), HasItem(s, c, m, {n})
      PROVE  HasItem(s, c, m, {})
  BY <1>1, <1>3 DEF HasItem, Spent
<1> QED BY <1>2, <1>3 DEF KeepInv, PairInv, CombInv

\* A reaction whose function is none of the engine's and has a pair that is
\* used has run to its end; so has one whose function was called.
CallDone(s, h) ==
    /\ h.fn = "settle" => ~Unused(s, h.k)
    /\ h.fn = "element" => <<h.n, h.side>> \in s.comb[h.k].called
LEMMA CalledSpent ==
    ASSUME NEW s, NEW n, NEW side \in Sides, NEW h, s.thens[n].fns[side] = h, CallDone(s, h),
           ~Unused(s, s.thens[n].cap)
    PROVE  Spent(s, n)
<1>1. ASSUME NEW k \in DOMAIN s.pair, Unused(s, k), s.thens[n].fns = Both(Settle(k, 0), Settle(k, 1))
      PROVE  FALSE
  <2>1. h = Settle(k, side)
    BY <1>1, BothIs
  <2> QED BY <1>1, <2>1, FunctionFields DEF CallDone
<1>2. ASSUME NEW c \in DOMAIN s.comb, NEW m, Unused(s, s.comb[c].k), s.thens[n].fns = ItemFns(s, c, m)
      PROVE  \E x \in Sides : <<m, x>> \in s.comb[c].called
  <2>1. h = Settle(s.comb[c].k, side) \/ h = Element(c, m, side)
    BY <1>2, BothIs DEF ItemFns
  <2>2. CASE h = Settle(s.comb[c].k, side)
    BY <1>2, <2>2, FunctionFields DEF CallDone
  <2>3. CASE h = Element(c, m, side)
    BY <2>3, FunctionFields DEF CallDone
  <2> QED BY <2>1, <2>2, <2>3
<1> QED BY <1>1, <1>2 DEF Spent

-----------------------------------------------------------------------------
(***************************************************************************)
(* The operations keep the invariant.                                      *)
(***************************************************************************)
CoreInv(s) == RefInv(s) /\ SettleInv(s) /\ ReactInv(s) /\ TrackInv(s)
Good(s, X, Y, Z) == CoreInv(s) /\ KeepInv(s, X, Y, Z)

LEMMA GrowsSame ==
    ASSUME NEW s
    PROVE  Grows(s, s)
BY DEF Grows

LEMMA GrowsOn ==
    ASSUME NEW s, NEW t, NEW u, Grows(s, t), Grows(t, u)
    PROVE  Grows(s, u)
<1>1. \A p \in DOMAIN s.prom :
          /\ p \in DOMAIN u.prom
          /\ ~Pending(s, p) => u.prom[p].state = s.prom[p].state /\ u.prom[p].result = s.prom[p].result
  <2>1. \A p \in DOMAIN s.prom : p \in DOMAIN t.prom /\ (~Pending(s, p) => ~Pending(t, p))
    BY DEF Grows, Pending
  <2> QED BY <2>1 DEF Grows
<1>2. \A k \in DOMAIN s.pair :
          /\ k \in DOMAIN u.pair /\ u.pair[k].promise = s.pair[k].promise
          /\ s.pair[k].done => u.pair[k].done
  BY DEF Grows
<1>3. \A c \in DOMAIN s.comb :
          /\ c \in DOMAIN u.comb /\ u.comb[c].k = s.comb[c].k /\ u.comb[c].kind = s.comb[c].kind
          /\ \A n \in DOMAIN s.comb[c].items : n \in DOMAIN u.comb[c].items
          /\ s.comb[c].called \subseteq u.comb[c].called
  <2> TAKE c \in DOMAIN s.comb
  <2>1. /\ c \in DOMAIN t.comb /\ t.comb[c].k = s.comb[c].k /\ t.comb[c].kind = s.comb[c].kind
        /\ \A n \in DOMAIN s.comb[c].items : n \in DOMAIN t.comb[c].items
        /\ s.comb[c].called \subseteq t.comb[c].called
    BY DEF Grows
  <2>2. /\ c \in DOMAIN u.comb /\ u.comb[c].k = t.comb[c].k /\ u.comb[c].kind = t.comb[c].kind
        /\ \A n \in DOMAIN t.comb[c].items : n \in DOMAIN u.comb[c].items
        /\ t.comb[c].called \subseteq u.comb[c].called
    BY <2>1 DEF Grows
  <2> QED BY <2>1, <2>2
<1>4. \A n \in DOMAIN s.thens : n \in DOMAIN u.thens /\ u.thens[n] = s.thens[n]
  BY DEF Grows
<1>5. s.ran \subseteq u.ran
  BY DEF Grows
<1> QED BY <1>1, <1>2, <1>3, <1>4, <1>5 DEF Grows

LEMMA SameTrack ==
    ASSUME NEW s, NEW t, TrackInv(s), t.prom = s.prom, t.unhandled = s.unhandled
    PROVE  TrackInv(t)
BY DEF TrackInv

\* A state that keeps everything but combinators and functions keeps the rest.
LEMMA QuietCore ==
    ASSUME NEW s, NEW t, CoreInv(s), QuietEffect(s, t), RefInv(t)
    PROVE  CoreInv(t)
BY QuietSettle, QuietReact, SameTrack DEF CoreInv, QuietEffect

LEMMA CapabilityGood ==
    ASSUME NEW s, NEW X, NEW Y, NEW Z, Good(s, X, Y, Z), NEW t, t = NewCapability(s)
    PROVE  /\ Good(t, X \cup {Len(t.pair)}, Y, Z) /\ Grows(s, t) /\ SameKept(s, t) /\ t.finals = s.finals
           /\ Len(t.pair) \in DOMAIN t.pair /\ Len(t.pair) \notin DOMAIN s.pair
           /\ Len(t.prom) = Len(s.prom) + 1 /\ Len(t.prom) \in DOMAIN t.prom
           /\ Len(t.prom) \notin DOMAIN s.prom /\ t.pair[Len(t.pair)].promise = Len(t.prom)
<1>1. CapEffect(s, t) /\ Len(t.pair) = Len(s.pair) + 1 /\ Len(t.prom) = Len(s.prom) + 1
  BY NewCapabilityIs DEF Good, CoreInv, RefInv
<1>2. CoreInv(t) /\ Grows(s, t)
  BY <1>1, CapRef, CapSettle, CapReact, CapTrack DEF Good, CoreInv
<1>3. KeepInv(t, X \cup {Len(t.pair)}, Y, Z)
  BY <1>1, CapKeep DEF Good, CoreInv
<1>4. /\ Len(t.pair) \in DOMAIN t.pair /\ Len(t.pair) \notin DOMAIN s.pair
      /\ Len(t.prom) \in DOMAIN t.prom /\ Len(t.prom) \notin DOMAIN s.prom
      /\ t.pair[Len(t.pair)].promise = Len(t.prom)
  BY <1>1 DEF CapEffect, Added
<1>5. SameKept(s, t) /\ t.finals = s.finals
  BY <1>1 DEF CapEffect, SameKept
<1> QED BY <1>1, <1>2, <1>3, <1>4, <1>5 DEF Good

\* Pair k was to be used, or to give the result of a combinator.
UsesUp(s, k, X, V, Y, U) ==
    /\ X \subseteq V \cup {k}
    /\ \A c, n : <<c, n>> \in Y => <<c, n>> \in U \/ (n = 0 /\ s.comb[c].k = k)

\* js_promise_resolve_function_call
LEMMA ResolvingGood ==
    ASSUME NEW s, NEW X, NEW V, NEW Y, NEW U, NEW Z, Good(s, X, Y, Z),
           NEW k \in DOMAIN s.pair, NEW side \in Sides, NEW v \in AllValues, Giveable(s, k, v),
           UsesUp(s, k, X, V, Y, U),
           NEW t, t = CallResolving(s, k, side, v)
    PROVE  /\ Good(t, V, U, Z) /\ Grows(s, t) /\ SameKept(s, t) /\ t.finals = s.finals
           /\ ~Unused(t, k) /\ Len(t.prom) = Len(s.prom) /\ DOMAIN t.prom = DOMAIN s.prom
           /\ t.pair[k].promise = s.pair[k].promise
<1> USE DEF Good, CoreInv
<1>0. X \subseteq V \cup {k} /\ \A c, n : <<c, n>> \in Y => <<c, n>> \in U \/ (n = 0 /\ s.comb[c].k = k)
  BY DEF UsesUp
<1>1. Resolvable(s, k, side, v)
  BY DEF Resolvable, RefInv, SettleInv, Unused
<1>2. CASE s.pair[k].done /\ t = s
  <2>1. Grows(s, t) /\ SameKept(s, t) /\ ~Unused(t, k)
    BY <1>2, GrowsSame DEF SameKept, Unused
  <2>2. KeepInv(t, V, U, Z)
    BY <1>0, <1>2, <2>1, SameKeep DEF KeepInv
  <2> QED BY <1>2, <2>1, <2>2
<1>3. CASE ~s.pair[k].done /\ Follows(s, k, side, v) /\ FollowEffect(s, t, k, v)
  <2>1. ValueOK(s, v) /\ v[1] \in {"prom", "thenable"}
    BY <1>3 DEF Follows, Giveable
  <2>2. Grows(s, t) /\ RefInv(t) /\ SettleInv(t) /\ ReactInv(t)
    BY <1>3, <2>1, FollowRef, FollowSettle, FollowReact
  <2>3. TrackInv(t) /\ KeepInv(t, V, U, Z)
    BY <1>0, <1>3, <2>1, SameTrack, FollowKeep DEF FollowEffect
  <2>4. t.pair[k].done
    BY <1>3, UsedPairIs DEF FollowEffect, Changed, RefInv
  <2>5. SameKept(s, t) /\ t.finals = s.finals /\ t.prom = s.prom
    BY <1>3 DEF FollowEffect, SameKept
  <2> QED BY <2>2, <2>3, <2>4, <2>5 DEF Unused, Grows
<1>4. CASE ~s.pair[k].done /\ \E side2 \in Sides, w \in AllValues :
                 SettledAs(s, k, side, v, side2, w) /\ SettleEffect(s, t, k, side2, w)
  <2>1. PICK side2 \in Sides, w \in AllValues :
                 SettledAs(s, k, side, v, side2, w) /\ SettleEffect(s, t, k, side2, w)
    BY <1>4
  <2>2. Giveable(s, k, w) /\ Final(side2, w)
    <3>1. ValueOK(s, TypeError)
      BY DEF TypeError, ValueOK
    <3>2. CASE side2 = side /\ w = v /\ (side = 0 => v[1] \notin {"prom", "thenable", "broken"})
      BY <3>2 DEF Final
    <3>3. CASE side2 = 1 /\ w = TypeError
      BY <3>1, <3>3 DEF Final, Giveable
    <3> QED BY <2>1, <3>2, <3>3 DEF SettledAs
  <2>3. Pending(s, s.pair[k].promise)
    BY <1>4 DEF SettleInv, Unused
  <2>4. Grows(s, t) /\ RefInv(t)
    BY <2>1, <2>2, <2>3, SettleRef
  <2>5. SettleInv(t) /\ ReactInv(t) /\ TrackInv(t)
    BY <1>4, <2>1, <2>3, SettleSettle, SettleReact, SettleTrack
  <2>6. KeepInv(t, V, U, Z)
    BY <1>0, <2>1, <2>2, <2>3, SettleKeep
  <2>7. t.pair[k].done
    <3>1. UsedPair(s, k).done
      BY ZenonT(60), UsedPairIs DEF RefInv
    <3> QED BY ZenonT(60), <2>1, <3>1 DEF SettleEffect, Changed
  <2>8. SameKept(s, t) /\ t.finals = s.finals /\ Len(t.prom) = Len(s.prom) /\ DOMAIN t.prom = DOMAIN s.prom
    BY ZenonT(60), <2>1 DEF SettleEffect, SameKept, Changed
  <2> QED BY <2>4, <2>5, <2>6, <2>7, <2>8 DEF Unused, Grows
<1> QED BY <1>1, <1>2, <1>3, <1>4, CallResolvingIs

\* The pairs and items that were to be given away are given to a then.
GivenTo(s, fns, cap, X, V, Y, U) ==
    /\ \A k \in X : k \in V \/ k = cap \/ fns = Both(Settle(k, 0), Settle(k, 1))
    /\ \A c, n : <<c, n>> \in Y => <<c, n>> \in U \/ (n # 0 /\ fns = ItemFns(s, c, n))

ThenArgs(s, p, f, g) ==
    p \in DOMAIN s.prom /\ f \in AllFunctions /\ g \in AllFunctions /\ FunctionOK(s, f) /\ FunctionOK(s, g)

\* perform_promise_then
LEMMA PerformThenGood ==
    ASSUME NEW s, NEW X, NEW V, NEW Y, NEW U, NEW Z, Good(s, X, Y, Z), NEW p, NEW f, NEW g, ThenArgs(s, p, f, g), 
           NEW cap, cap = 0 \/ cap \in DOMAIN s.pair,
           GivenTo(s, Both(f, g), cap, X, V, Y, U),
           NEW t, t = PerformThen(s, p, f, g, cap)
    PROVE  /\ Good(t, V, U, Z) /\ Grows(s, t) /\ Len(t.prom) = Len(s.prom) /\ DOMAIN t.prom = DOMAIN s.prom
           /\ t.comb = s.comb /\ t.held = s.held /\ t.ran = s.ran /\ t.finals = s.finals /\ t.pair = s.pair
<1> USE DEF Good, CoreInv, ThenArgs
<1>1. s \in States /\ cap \in Nat
  BY Elements DEF RefInv
<1> DEFINE fns == Both(f, g)
<1>2. fns \in [Sides -> AllFunctions] /\ \A x \in Sides : FunctionOK(s, fns[x])
  BY ConstantTypes, BothIs
<1>3. ThenEffect(s, t, p, fns, cap)
  BY <1>1, PerformThenIs
<1>4. \A k \in X : k \in V \/ k = cap \/ fns = Both(Settle(k, 0), Settle(k, 1))
  BY DEF GivenTo
<1>5. \A c, n : <<c, n>> \in Y => <<c, n>> \in U \/ (n # 0 /\ fns = ItemFns(s, c, n))
  BY DEF GivenTo
<1> HIDE DEF fns
<1>6. Grows(s, t) /\ RefInv(t)
  BY <1>2, <1>3, ThenRef
<1>7. SettleInv(t) /\ ReactInv(t) /\ TrackInv(t)
  BY <1>3, ThenSettle, ThenReact, ThenTrack
<1>8. KeepInv(t, V, U, Z)
  BY <1>2, <1>3, <1>4, <1>5, ThenKeep
<1>9. /\ t.comb = s.comb /\ t.held = s.held /\ t.ran = s.ran /\ t.finals = s.finals /\ t.pair = s.pair
      /\ Len(t.prom) = Len(s.prom) /\ DOMAIN t.prom = DOMAIN s.prom
  BY <1>3 DEF ThenEffect, Changed
<1> QED BY <1>6, <1>7, <1>8, <1>9

TakesAll(s, fns, X, Y) ==
    /\ \A k \in X : fns = Both(Settle(k, 0), Settle(k, 1))
    /\ \A c, n : <<c, n>> \in Y => n # 0 /\ fns = ItemFns(s, c, n)

\* js_promise_then
LEMMA ThenGood ==
    ASSUME NEW s, NEW X, NEW Y, NEW Z, Good(s, X, Y, Z), NEW p, NEW f, NEW g, ThenArgs(s, p, f, g),
           TakesAll(s, Both(f, g), X, Y),
           NEW t, t = Then(s, p, f, g)
    PROVE  /\ Good(t, {}, {}, Z) /\ Grows(s, t) /\ Len(t.prom) = Len(s.prom) + 1
           /\ Len(t.prom) \in DOMAIN t.prom
           /\ t.comb = s.comb /\ t.held = s.held /\ t.ran = s.ran /\ t.finals = s.finals
<1> DEFINE c == NewCapability(s)
           k == Len(c.pair)
<1>1. /\ Good(c, X \cup {k}, Y, Z) /\ Grows(s, c) /\ SameKept(s, c) /\ c.finals = s.finals
      /\ k \in DOMAIN c.pair /\ Len(c.prom) = Len(s.prom) + 1 /\ Len(c.prom) \in DOMAIN c.prom
  BY CapabilityGood
<1>2. t = PerformThen(c, p, f, g, k)
  BY DEF Then
<1> HIDE DEF c, k
<1>3. ThenArgs(c, p, f, g)
  BY <1>1, GrowsKeeps DEF Good, CoreInv, Grows, ThenArgs
<1>4. \A d, n : ItemFns(c, d, n) = ItemFns(s, d, n)
  BY <1>1, ItemFnsKept DEF SameKept
<1>5. GivenTo(c, Both(f, g), k, X \cup {k}, {}, Y, {})
  BY <1>4 DEF GivenTo, TakesAll
<1>7. /\ Good(t, {}, {}, Z) /\ Grows(c, t) /\ Len(t.prom) = Len(c.prom) /\ DOMAIN t.prom = DOMAIN c.prom
      /\ t.comb = c.comb /\ t.held = c.held /\ t.ran = c.ran /\ t.finals = c.finals
  <2> DEFINE E == {}
             K == X \cup {k}
  <2>1. k = 0 \/ k \in DOMAIN c.pair
    BY <1>1
  <2>2. GivenTo(c, Both(f, g), k, K, E, Y, E) /\ Good(c, K, Y, Z)
    BY <1>1, <1>5
  <2> HIDE DEF E, K
  <2>3. /\ Good(t, E, E, Z) /\ Grows(c, t) /\ Len(t.prom) = Len(c.prom) /\ DOMAIN t.prom = DOMAIN c.prom
        /\ t.comb = c.comb /\ t.held = c.held /\ t.ran = c.ran /\ t.finals = c.finals
    <3>1. Good(PerformThen(c, p, f, g, k), E, E, Z)
      BY <1>3, <2>1, <2>2, PerformThenGood
    <3>2. Grows(c, t)
      BY <1>2, <1>3, <2>1, <2>2, PerformThenGood
    <3> QED BY <1>2, <1>3, <2>1, <2>2, <3>1, <3>2, PerformThenGood
  <2> QED BY <2>3 DEF E
<1>8. Grows(s, t)
  BY <1>1, <1>7, GrowsOn
<1> QED BY <1>1, <1>7, <1>8 DEF SameKept

\* A promise that is made and resolved or rejected at once.
LEMMA MadeGood ==
    ASSUME NEW s, NEW Z, Good(s, {}, {}, Z), NEW side \in Sides, NEW v \in AllValues, ValueOK(s, v),
           NEW c, c = NewCapability(s), NEW t, t = CallResolving(c, Len(c.pair), side, v)
    PROVE  /\ Good(t, {}, {}, Z) /\ Grows(s, t) /\ SameKept(s, t) /\ t.finals = s.finals
           /\ Len(s.prom) + 1 \in DOMAIN t.prom
<1> DEFINE k == Len(c.pair)
<1>1. /\ Good(c, {} \cup {k}, {}, Z) /\ Grows(s, c) /\ SameKept(s, c) /\ c.finals = s.finals
      /\ k \in DOMAIN c.pair /\ Len(c.prom) = Len(s.prom) + 1 /\ Len(c.prom) \in DOMAIN c.prom
  BY CapabilityGood
<1>2. t = CallResolving(c, k, side, v)
  OBVIOUS
<1> HIDE DEF k
<1>3. Giveable(c, k, v)
  BY <1>1, GrowsKeeps DEF Giveable, Good, CoreInv
<1>4. Good(c, {k}, {}, Z)
  <2>1. {} \cup {k} = {k}
    OBVIOUS
  <2> QED BY <1>1, <2>1
<1>5. /\ Good(t, {}, {}, Z) /\ Grows(c, t) /\ SameKept(c, t) /\ t.finals = c.finals
      /\ DOMAIN t.prom = DOMAIN c.prom
  <2> DEFINE E == {}
             K == {k}
  <2>1. UsesUp(c, k, K, E, E, E) /\ Good(c, K, E, Z)
    BY <1>4 DEF UsesUp
  <2> HIDE DEF E, K
  <2>2. /\ Good(t, E, E, Z) /\ Grows(c, t) /\ SameKept(c, t) /\ t.finals = c.finals
        /\ DOMAIN t.prom = DOMAIN c.prom
    BY <1>1, <1>2, <1>3, <2>1, ResolvingGood
  <2> QED BY <2>2 DEF E
<1>6. Grows(s, t)
  BY <1>1, <1>5, GrowsOn
<1> QED BY <1>1, <1>5, <1>6 DEF SameKept

\* js_promise_resolve
LEMMA StaticGood ==
    ASSUME NEW s, NEW Z, Good(s, {}, {}, Z), NEW v \in AllValues, ValueOK(s, v), NEW t, t = StaticResolve(s, v)
    PROVE  /\ Good(t, {}, {}, Z) /\ Grows(s, t) /\ SameKept(s, t) /\ t.finals = s.finals
           /\ Resolved(s, v) \in DOMAIN t.prom
<1>1. CASE v[1] = "prom"
  BY <1>1, GrowsSame DEF StaticResolve, Resolved, SameKept, ValueOK
<1>2. CASE v[1] # "prom"
  <2>1. t = CallResolving(NewCapability(s), Len(NewCapability(s).pair), 0, v)
    BY <1>2 DEF StaticResolve
  <2>2. Resolved(s, v) = Len(s.prom) + 1 /\ 0 \in Sides
    BY <1>2 DEF Resolved, Sides
  <2> QED BY <2>1, <2>2, MadeGood
<1> QED BY <1>1, <1>2

\* A resolving function is called.
LEMMA SettledGood ==
    ASSUME NEW s, NEW Y, NEW Z, Good(s, {}, Y, Z), NEW k \in DOMAIN s.pair, NEW side \in Sides,
           NEW v \in AllValues, Giveable(s, k, v), \A c, n : <<c, n>> \in Y => n = 0 /\ s.comb[c].k = k,
           NEW t, t = CallResolving(s, k, side, v)
    PROVE  /\ Good(t, {}, {}, Z) /\ Grows(s, t) /\ SameKept(s, t) /\ t.finals = s.finals
           /\ ~Unused(t, k) /\ Len(t.prom) = Len(s.prom)
<1> DEFINE E == {}
<1>1. UsesUp(s, k, E, E, Y, E) /\ Good(s, E, Y, Z)
  BY DEF UsesUp
<1> HIDE DEF E
<1>2. /\ Good(t, E, E, Z) /\ Grows(s, t) /\ SameKept(s, t) /\ t.finals = s.finals
      /\ ~Unused(t, k) /\ Len(t.prom) = Len(s.prom)
  BY <1>1, ResolvingGood
<1> QED BY <1>2 DEF E

LEMMA CompleteGood ==
    ASSUME NEW s, NEW Z, Good(s, {}, {}, Z), NEW cap, cap = 0 \/ cap \in DOMAIN s.pair, NEW side \in Sides,
           NEW v \in AllValues, ValueOK(s, v), NEW t, t = Complete(s, cap, side, v)
    PROVE  /\ Good(t, {}, {}, Z) /\ Grows(s, t) /\ SameKept(s, t) /\ t.finals = s.finals
           /\ ~Unused(t, cap) /\ Len(t.prom) = Len(s.prom)
<1>1. CASE cap = 0
  <2>1. 0 \notin DOMAIN s.pair
    BY Elements DEF Good, CoreInv, RefInv
  <2> QED BY <1>1, <2>1, GrowsSame DEF Complete, SameKept, Unused
<1>2. CASE cap # 0
  <2>1. t = CallResolving(s, cap, side, v) /\ Giveable(s, cap, v)
    BY <1>2 DEF Complete, Giveable
  <2>2. \A c, n : <<c, n>> \in {} => n = 0 /\ s.comb[c].k = cap
    OBVIOUS
  <2> QED BY <1>2, <2>1, <2>2, SettledGood
<1> QED BY <1>1, <1>2

\* The result of a combinator: its array or its AggregateError.
Full(C, c) == <<IF C.kind = "any" THEN "aggregate" ELSE "array", c>>
LEMMA FullIs ==
    ASSUME NEW s, RefInv(s), NEW c \in DOMAIN s.comb, NEW C, s.comb[c].k = C.k
    PROVE  Full(C, c) \in AllValues /\ Giveable(s, C.k, Full(C, c))
<1>1. c \in Int
  BY Elements DEF RefInv
<1>2. Full(C, c) = <<"aggregate", c>> \/ Full(C, c) = <<"array", c>>
  BY DEF Full
<1>3. CASE Full(C, c) = <<"aggregate", c>>
  BY <1>1, <1>3 DEF AllValues, Giveable
<1>4. CASE Full(C, c) = <<"array", c>>
  BY <1>1, <1>4 DEF AllValues, Giveable
<1> QED BY <1>2, <1>3, <1>4

\* js_promise_all_resolve_element
LEMMA ElementGood ==
    ASSUME NEW s, NEW Z, Good(s, {}, {}, Z), NEW c \in DOMAIN s.comb, NEW n \in DOMAIN s.comb[c].items,
           s.comb[c].kind # "race", NEW side \in Sides, NEW v \in AllValues,
           NEW t, t = CallElement(s, c, n, side, v)
    PROVE  /\ Good(t, {}, {}, Z) /\ Grows(s, t) /\ t.thens = s.thens /\ <<n, side>> \in t.comb[c].called
<1> DEFINE C == s.comb[c]
           d == AnswerAt(s, c, n, side, v)
           r == IF C.kind = "any" THEN 1 ELSE 0
<1>1. CASE <<n, side>> \in s.comb[c].called
  BY <1>1, GrowsSame DEF CallElement
<1>2. CASE <<n, side>> \notin s.comb[c].called
  <2>1. t = IF C.rem # 1 THEN d ELSE CallResolving(d, C.k, r, Full(C, c))
    BY <1>2 DEF CallElement, AnswerAt, Full
  <2>2. r \in Sides /\ CoreInv(s) /\ RefInv(s) /\ s \in States /\ KeepInv(s, {}, {}, Z) /\ CombOK(s, c)
    BY DEF Sides, Good, CoreInv, RefInv
  <2>3. AnswerEffect(s, d, c, n, side, v)
    BY <2>2, AnswerAtIs DEF CombOK
  <2> HIDE DEF d, r
  <2>4. QuietEffect(s, d) /\ d.comb[c].k = C.k /\ <<n, side>> \in d.comb[c].called /\ c \in DOMAIN d.comb
        /\ d.thens = s.thens
    BY <2>3 DEF AnswerEffect, CombEffect, QuietEffect, Changed
  <2>5. Grows(s, d) /\ RefInv(d)
    BY <2>2, <2>3, AnswerRef
  <2>6. CoreInv(d)
    BY <2>2, <2>4, <2>5, QuietCore
  <2>7. CASE C.rem # 1
    <3>1. KeepInv(d, {}, {}, Z)
      BY <1>2, <2>2, <2>3, <2>7, AnswerKeep
    <3> QED BY <2>1, <2>4, <2>5, <2>6, <2>7, <3>1 DEF Good
  <2>8. CASE C.rem = 1
    <3> DEFINE Y == {<<c, 0>>}
    <3>1. \A a, b : <<a, b>> \in Y => b = 0 /\ d.comb[a].k = C.k
      BY <2>4
    <3>2. <<c, 0>> \in Y
      OBVIOUS
    <3> HIDE DEF Y
    <3>3. KeepInv(d, {}, Y, Z)
      BY <1>2, <2>2, <2>3, <3>2, AnswerKeep
    <3>4. Good(d, {}, Y, Z)
      BY <2>6, <3>3 DEF Good
    <3>5. Full(C, c) \in AllValues /\ Giveable(d, C.k, Full(C, c)) /\ C.k \in DOMAIN d.pair
      BY <2>2, <2>4, <2>5, FullIs DEF CombOK, QuietEffect
    <3>6. t = CallResolving(d, C.k, r, Full(C, c))
      BY <2>1, <2>8
    <3> HIDE DEF C
    <3>7. Good(t, {}, {}, Z) /\ Grows(d, t) /\ SameKept(d, t)
      BY <2>2, <3>1, <3>4, <3>5, <3>6, SettledGood
    <3>8. Grows(s, t)
      BY <2>5, <3>7, GrowsOn
    <3> QED BY <2>4, <3>7, <3>8 DEF SameKept
  <2> QED BY <2>7, <2>8
<1> QED BY <1>1, <1>2

\* A native function is called.
LEMMA CallGood ==
    ASSUME NEW s, NEW Z, Good(s, {}, {}, Z), NEW h \in AllFunctions, FunctionOK(s, h),
           NEW v \in AllValues, ValueOK(s, v), NEW t, t = Call(s, h, v)
    PROVE  Good(t, {}, {}, Z) /\ Grows(s, t) /\ t.thens = s.thens /\ CallDone(t, h)
<1>1. CASE h.fn = "settle"
  <2>1. t = CallResolving(s, h.k, h.side, v) /\ h.k \in DOMAIN s.pair /\ h.side \in Sides /\ Giveable(s, h.k, v)
    BY <1>1 DEF Call, FunctionOK, Giveable, AllFunctions
  <2>2. \A c, n : <<c, n>> \in {} => n = 0 /\ s.comb[c].k = h.k
    OBVIOUS
  <2>3. Good(t, {}, {}, Z) /\ Grows(s, t) /\ SameKept(s, t) /\ ~Unused(t, h.k)
    BY <2>1, <2>2, SettledGood
  <2> QED BY <1>1, <2>3 DEF SameKept, CallDone
<1>2. CASE h.fn = "element"
  <2>1. /\ t = CallElement(s, h.k, h.n, h.side, v) /\ h.side \in Sides
        /\ h.k \in DOMAIN s.comb /\ h.n \in DOMAIN s.comb[h.k].items /\ s.comb[h.k].kind # "race"
    BY <1>2 DEF Call, FunctionOK, AllFunctions
  <2>2. Good(t, {}, {}, Z) /\ Grows(s, t) /\ t.thens = s.thens /\ <<h.n, h.side>> \in t.comb[h.k].called
    BY <2>1, ElementGood
  <2> QED BY <1>2, <2>2 DEF CallDone
<1>3. CASE h.fn \notin {"settle", "element"}
  BY <1>3, GrowsSame DEF Call, CallDone
<1> QED BY <1>1, <1>2, <1>3

\* What is called stays called, and what is used stays used.
LEMMA DoneKept ==
    ASSUME NEW s, NEW t, Grows(s, t), RefInv(s)
    PROVE  /\ \A k \in DOMAIN s.pair : ~Unused(s, k) => ~Unused(t, k)
           /\ \A h : FunctionOK(s, h) /\ CallDone(s, h) => CallDone(t, h)
BY DEF Grows, Unused, CallDone, FunctionOK

\* What a reaction is about.
ReactionArgs(s, j) ==
    /\ j.n \in DOMAIN s.thens /\ j.side \in Sides /\ j.v \in AllValues /\ ValueOK(s, j.v)
    /\ j.handler \in AllFunctions /\ FunctionOK(s, j.handler)
    /\ j.cap = 0 \/ j.cap \in DOMAIN s.pair
    /\ s.thens[j.n].cap = j.cap /\ s.thens[j.n].fns[j.side] = j.handler
LEMMA ReactionArgsAre ==
    ASSUME NEW s, RefInv(s), NEW j \in Entries, j.job = "reaction", JobOK(s, j)
    PROVE  ReactionArgs(s, j)
<1>1. /\ j.n \in DOMAIN s.thens /\ j.cap = s.thens[j.n].cap /\ j.handler = s.thens[j.n].fns[j.side]
      /\ s.prom[s.thens[j.n].p].result = j.v
  BY DEF JobOK
<1>2. j.side \in Sides /\ j.v \in AllValues /\ j.handler \in AllFunctions
  BY DEF Entries
<1>3. ThenOK(s, j.n)
  BY <1>1 DEF RefInv
<1>4. s.thens[j.n].p \in DOMAIN s.prom /\ (j.cap = 0 \/ j.cap \in DOMAIN s.pair) /\ FunctionOK(s, j.handler)
  BY <1>1, <1>2, <1>3 DEF ThenOK
<1>5. PromiseOK(s, s.thens[j.n].p)
  BY <1>4 DEF RefInv
<1>6. ValueOK(s, j.v)
  BY ZenonT(60), <1>1, <1>5 DEF PromiseOK
<1> QED BY <1>1, <1>2, <1>4, <1>6 DEF ReactionArgs

LEMMA ArgsKept ==
    ASSUME NEW s, NEW t, RefInv(s), Grows(s, t), NEW j, ReactionArgs(s, j)
    PROVE  ReactionArgs(t, j)
<1>1. t.thens[j.n] = s.thens[j.n] /\ j.n \in DOMAIN t.thens
  BY DEF Grows, ReactionArgs
<1>2. ValueOK(t, j.v) /\ FunctionOK(t, j.handler)
  BY GrowsKeeps DEF ReactionArgs
<1>3. j.cap = 0 \/ j.cap \in DOMAIN t.pair
  BY DEF Grows, ReactionArgs
<1> QED BY <1>1, <1>2, <1>3 DEF ReactionArgs

\* A reaction that is complete has run to its end.
LEMMA CompleteSpent ==
    ASSUME NEW s, NEW j, ReactionArgs(s, j), Good(s, {}, {}, {j.n}), CallDone(s, j.handler),
           NEW side \in Sides, NEW v \in AllValues, ValueOK(s, v), NEW t, t = Complete(s, j.cap, side, v)
    PROVE  Good(t, {}, {}, {}) /\ Grows(s, t) /\ SameKept(s, t) /\ t.finals = s.finals
<1>1. /\ Good(t, {}, {}, {j.n}) /\ Grows(s, t) /\ SameKept(s, t) /\ t.finals = s.finals
      /\ ~Unused(t, j.cap)
  BY CompleteGood DEF ReactionArgs
<1>2. RefInv(s) /\ ReactionArgs(t, j) /\ CallDone(t, j.handler)
  BY <1>1, ArgsKept, DoneKept DEF ReactionArgs, Good, CoreInv
<1>3. Spent(t, j.n)
  <2>1. /\ t.thens[j.n].fns[j.side] = j.handler /\ j.side \in Sides /\ ~Unused(t, t.thens[j.n].cap)
    BY <1>1, <1>2 DEF ReactionArgs
  <2> QED BY <1>2, <2>1, CalledSpent
<1>4. KeepInv(t, {}, {}, {})
  BY <1>1, <1>3, SpentKeep DEF Good
<1> QED BY <1>1, <1>4 DEF Good

\* promise_reaction_job with a native handler
LEMMA ReactionGood ==
    ASSUME NEW s, NEW j, ReactionArgs(s, j), Good(s, {}, {}, {j.n}), j.handler.fn \notin {"user", "finally"},
           NEW t, t = Reaction(s, j)
    PROVE  Good(t, {}, {}, {}) /\ Grows(s, t)
<1>1. CASE j.handler.fn = "undefined"
  <2>1. t = Complete(s, j.cap, j.side, j.v) /\ CallDone(s, j.handler)
    BY <1>1 DEF Reaction, CallDone
  <2> QED BY <2>1, CompleteSpent DEF ReactionArgs
<1>2. CASE j.handler.fn = "thunk"
  <2>1. t = Complete(s, j.cap, j.handler.side, j.handler.v) /\ CallDone(s, j.handler)
    BY <1>2 DEF Reaction, CallDone
  <2>2. j.handler.side \in Sides /\ j.handler.v \in AllValues /\ ValueOK(s, j.handler.v)
    BY <1>2 DEF ReactionArgs, AllFunctions, FunctionOK
  <2> QED BY <2>1, <2>2, CompleteSpent
<1>3. CASE j.handler.fn \notin {"undefined", "thunk"}
  <2> DEFINE u == Call(s, j.handler, j.v)
  <2>1. t = Complete(u, j.cap, 0, Undefined)
    BY <1>3 DEF Reaction
  <2>2. Good(u, {}, {}, {j.n}) /\ Grows(s, u) /\ CallDone(u, j.handler)
    BY CallGood DEF ReactionArgs
  <2> HIDE DEF u
  <2>3. ReactionArgs(u, j) /\ ValueOK(u, Undefined) /\ 0 \in Sides /\ Undefined \in AllValues
    BY <2>2, ArgsKept, ConstantTypes DEF Good, CoreInv, ValueOK, Undefined, Sides
  <2>4. Good(t, {}, {}, {}) /\ Grows(u, t)
    BY <2>1, <2>2, <2>3, CompleteSpent
  <2> QED BY <2>2, <2>4, GrowsOn
<1> QED BY <1>1, <1>2, <1>3

\* js_promise_then_finally_func
LEMMA AfterFinallyGood ==
    ASSUME NEW s, NEW j, ReactionArgs(s, j), Good(s, {}, {}, {j.n}), j.handler.fn \in {"user", "finally"},
           NEW v \in AllValues, ValueOK(s, v), NEW t, t = AfterFinally(s, j, v)
    PROVE  Good(t, {}, {}, {}) /\ Grows(s, t)
<1> DEFINE a == StaticResolve(s, v)
           p == Resolved(s, v)
           th == Thunk(j.handler.side, j.v)
           q == Then(a, p, th, NoHandler)
           w == Promise(Len(q.prom))
<1>1. t = Complete(q, j.cap, 0, w)
  BY DEF AfterFinally
<1>2. Good(a, {}, {}, {j.n}) /\ Grows(s, a) /\ p \in DOMAIN a.prom
  BY StaticGood
<1>3. ReactionArgs(a, j)
  BY <1>2, ArgsKept DEF Good, CoreInv
<1>4. ThenArgs(a, p, th, NoHandler)
  <2>1. th \in AllFunctions /\ NoHandler \in AllFunctions
    BY ConstantTypes DEF ReactionArgs, AllFunctions
  <2>2. FunctionOK(a, th) /\ FunctionOK(a, NoHandler)
    BY <1>3, FunctionFields DEF FunctionOK, ReactionArgs
  <2> QED BY <1>2, <2>1, <2>2 DEF ThenArgs
<1>5. q = Then(a, p, th, NoHandler) /\ w = Promise(Len(q.prom))
  OBVIOUS
<1> HIDE DEF a, p, th, q, w
<1>6. TakesAll(a, Both(th, NoHandler), {}, {})
  BY DEF TakesAll
<1>7. Good(q, {}, {}, {j.n}) /\ Grows(a, q) /\ Len(q.prom) \in DOMAIN q.prom
  BY <1>2, <1>4, <1>5, <1>6, ThenGood
<1>8. Grows(s, q) /\ ReactionArgs(q, j)
  BY <1>2, <1>3, <1>7, GrowsOn, ArgsKept DEF Good, CoreInv
<1>9. w \in AllValues /\ ValueOK(q, w) /\ 0 \in Sides
  <2>1. Len(q.prom) \in Nat
    BY <1>7, Elements DEF Good, CoreInv, RefInv
  <2> QED BY ZenonT(60), <1>5, <1>7, <2>1, ConstantTypes DEF ValueOK, Promise, Sides
<1>10. CallDone(q, j.handler)
  BY DEF CallDone
<1>11. Good(t, {}, {}, {}) /\ Grows(q, t)
  BY <1>1, <1>7, <1>8, <1>9, <1>10, CompleteSpent
<1> QED BY <1>8, <1>11, GrowsOn

\* The functions of an item are good.
LEMMA ItemFnsOK ==
    ASSUME NEW s, RefInv(s), NEW c \in DOMAIN s.comb, NEW n \in DOMAIN s.comb[c].items
    PROVE  /\ \A x \in Sides : ItemFns(s, c, n)[x] \in AllFunctions /\ HeldOK(s, ItemFns(s, c, n)[x])
           /\ Both(ItemFns(s, c, n)[0], ItemFns(s, c, n)[1]) = ItemFns(s, c, n)
           /\ n # 0
<1>1. s.comb[c].k \in DOMAIN s.pair /\ s.comb[c].k \in Nat /\ c \in Nat
  BY Elements DEF RefInv, CombOK
<1>2. n \in Nat /\ n # 0
  BY CountedSets
<1>3. ASSUME NEW x \in Sides
      PROVE  ItemFns(s, c, n)[x] \in AllFunctions /\ HeldOK(s, ItemFns(s, c, n)[x])
  <2>1. \/ ItemFns(s, c, n)[x] = Settle(s.comb[c].k, x)
        \/ ItemFns(s, c, n)[x] = Element(c, n, x) /\ s.comb[c].kind # "race"
    BY BothIs DEF ItemFns
  <2>2. CASE ItemFns(s, c, n)[x] = Settle(s.comb[c].k, x)
    <3> DEFINE h == Settle(s.comb[c].k, x)
    <3>1. h \in AllFunctions /\ h.fn = "settle" /\ h.k = s.comb[c].k
      <4>1. h \in AllFunctions
        BY <1>1, ConstantTypes, Zenon
      <4>2. h.fn = "settle" /\ h.k = s.comb[c].k
        BY DEF Settle, Function
      <4> QED BY <4>1, <4>2
    <3> HIDE DEF h
    <3>2. HeldOK(s, h)
      BY <1>1, <3>1 DEF HeldOK, FunctionOK
    <3> QED BY <2>2, <3>1, <3>2 DEF h
  <2>3. CASE ItemFns(s, c, n)[x] = Element(c, n, x) /\ s.comb[c].kind # "race"
    <3> DEFINE h == Element(c, n, x)
    <3>1. h \in AllFunctions /\ h.fn = "element" /\ h.k = c /\ h.n = n
      <4>1. h \in AllFunctions
        BY <1>1, <1>2, ConstantTypes, Zenon
      <4>2. h.fn = "element" /\ h.k = c /\ h.n = n
        BY DEF Element, Function
      <4> QED BY <4>1, <4>2
    <3> HIDE DEF h
    <3>2. HeldOK(s, h)
      BY <2>3, <3>1 DEF HeldOK, FunctionOK
    <3> QED BY <2>3, <3>1, <3>2 DEF h
  <2> QED BY <2>1, <2>2, <2>3
<1>4. Both(ItemFns(s, c, n)[0], ItemFns(s, c, n)[1]) = ItemFns(s, c, n)
  BY BothIs DEF ItemFns
<1> QED BY <1>2, <1>3, <1>4

\* Functions are given to JavaScript code.
LEMMA HeldGood ==
    ASSUME NEW s, NEW X, NEW Y, NEW Z, Good(s, X, Y, Z), NEW H \in SUBSET AllFunctions, \A h \in H : HeldOK(s, h),
           \A k \in X : \E h \in H : h.fn = "settle" /\ h.k = k,
           \A c, n : <<c, n>> \in Y => n # 0 /\ \E x \in Sides : ItemFns(s, c, n)[x] \in H,
           NEW t, t = [s EXCEPT !.held = @ \cup H]
    PROVE  Good(t, {}, {}, Z) /\ Grows(s, t) /\ QuietEffect(s, t)
<1>1. CoreInv(s) /\ RefInv(s) /\ s \in States /\ KeepInv(s, X, Y, Z)
  BY DEF Good, CoreInv, RefInv
<1>2. HeldEffect(s, t, H)
  BY <1>1, HeldIs
<1>3. Grows(s, t) /\ RefInv(t) /\ QuietEffect(s, t)
  BY <1>1, <1>2, HeldRef DEF HeldEffect
<1>4. CoreInv(t)
  BY <1>1, <1>3, QuietCore
<1>5. KeepInv(t, {}, {}, Z)
  BY <1>1, <1>2, HeldKeep
<1> QED BY <1>3, <1>4, <1>5 DEF Good

\* One round of the loop of a combinator
LEMMA AddItemGood ==
    ASSUME NEW s, NEW Z, Good(s, {}, {}, Z), NEW c \in DOMAIN s.comb, NEW v \in AllValues, ValueOK(s, v),
           NEW native \in BOOLEAN, NEW t, t = AddItem(s, c, v, native)
    PROVE  Good(t, {}, {}, Z) /\ Grows(s, t)
<1> DEFINE a == StaticResolve(s, v)
           p == Resolved(s, v)
           b == Counted(a, c, p, native)
           m == Len(b.comb[c].items)
           fns == ItemFns(b, c, m)
           Y == {<<c, m>>}
<1>1. /\ native => t = Then(b, p, fns[0], fns[1])
      /\ ~native => t = [b EXCEPT !.held = @ \cup {fns[0], fns[1]}]
  BY DEF AddItem
<1>2. Good(a, {}, {}, Z) /\ Grows(s, a) /\ SameKept(s, a) /\ p \in DOMAIN a.prom
  BY StaticGood
<1>3. b = Counted(a, c, p, native) /\ m = Len(b.comb[c].items) /\ fns = ItemFns(b, c, m)
  OBVIOUS
<1> HIDE DEF a, p, b, m, fns
<1>4. a \in States /\ RefInv(a) /\ CoreInv(a) /\ KeepInv(a, {}, {}, Z) /\ c \in DOMAIN a.comb /\ p \in Nat
  BY <1>2, Elements DEF Good, CoreInv, RefInv, SameKept
<1>5. CountEffect(a, b, c, p, native)
  BY <1>3, <1>4, CountedIs
<1>6. Grows(a, b) /\ RefInv(b) /\ m \in DOMAIN b.comb[c].items /\ m = Len(a.comb[c].items) + 1
  BY <1>2, <1>3, <1>4, <1>5, CountRef
<1>7. QuietEffect(a, b) /\ c \in DOMAIN b.comb /\ p \in DOMAIN b.prom
  BY <1>2, <1>4, <1>5 DEF CountEffect, CombEffect, Changed, QuietEffect
<1>8. CoreInv(b)
  BY <1>4, <1>6, <1>7, QuietCore
<1>9. KeepInv(b, {}, Y, Z)
  BY <1>2, <1>4, <1>5, <1>6, CountKeep
<1>10. \A d, n : <<d, n>> \in Y => d = c /\ n = m
  OBVIOUS
<1> HIDE DEF Y
<1>11. Good(b, {}, Y, Z) /\ Grows(s, b)
  BY <1>2, <1>6, <1>8, <1>9, GrowsOn DEF Good
<1>12. /\ \A x \in Sides : fns[x] \in AllFunctions /\ HeldOK(b, fns[x])
       /\ Both(fns[0], fns[1]) = fns /\ m # 0
  BY <1>3, <1>6, <1>7, ItemFnsOK
<1>13. CASE native
  <2>1. ThenArgs(b, p, fns[0], fns[1])
    BY <1>7, <1>12, BothIs DEF ThenArgs, HeldOK
  <2>2. TakesAll(b, Both(fns[0], fns[1]), {}, Y)
    BY <1>3, <1>10, <1>12 DEF TakesAll
  <2>3. Good(t, {}, {}, Z) /\ Grows(b, t)
    <3> DEFINE f == fns[0]
               g == fns[1]
               E == {}
    <3>1. ThenArgs(b, p, f, g) /\ TakesAll(b, Both(f, g), E, Y) /\ t = Then(b, p, f, g) /\ Good(b, E, Y, Z)
      BY <1>1, <1>11, <1>13, <2>1, <2>2
    <3> HIDE DEF f, g, E
    <3>2. Good(t, {}, {}, Z)
      BY <3>1, ThenGood
    <3>3. Grows(b, t)
      BY <3>1, ThenGood
    <3> QED BY <3>2, <3>3
  <2> QED BY <1>11, <2>3, GrowsOn
<1>14. CASE ~native
  <2> DEFINE H == {fns[0], fns[1]}
  <2>1. t = [b EXCEPT !.held = @ \cup H]
    BY <1>1, <1>14
  <2>2. H \in SUBSET AllFunctions /\ \A h \in H : HeldOK(b, h)
    BY <1>12, BothIs
  <2>3. \A d, n : <<d, n>> \in Y => n # 0 /\ \E x \in Sides : ItemFns(b, d, n)[x] \in H
    BY <1>3, <1>10, <1>12, BothIs
  <2> HIDE DEF H
  <2>4. \A k \in {} : \E h \in H : h.fn = "settle" /\ h.k = k
    OBVIOUS
  <2>5. Good(t, {}, {}, Z) /\ Grows(b, t)
    BY <1>11, <2>1, <2>2, <2>3, <2>4, HeldGood
  <2> QED BY <1>11, <2>5, GrowsOn
<1> QED BY <1>13, <1>14

\* The loop is over and the pair of the combinator is called.
LEMMA ClosedGood ==
    ASSUME NEW s, NEW Z, Good(s, {}, {}, Z), NEW c \in DOMAIN s.comb, NEW d, NEW r, EndEffect(s, d, c, r),
           NEW side \in Sides, NEW v \in AllValues, Giveable(d, s.comb[c].k, v),
           NEW t, t = CallResolving(d, s.comb[c].k, side, v)
    PROVE  Good(t, {}, {}, Z) /\ Grows(s, t)
<1> DEFINE Y == {<<c, 0>>}
           k == s.comb[c].k
<1>1. RefInv(s) /\ CoreInv(s) /\ KeepInv(s, {}, {}, Z) /\ k \in DOMAIN s.pair
  BY DEF Good, CoreInv, RefInv, CombOK
<1>2. QuietEffect(s, d) /\ d.comb[c].k = k
  BY DEF EndEffect, CombEffect
<1>3. \A a, b : <<a, b>> \in Y => b = 0 /\ d.comb[a].k = k
  BY <1>2
<1>4. <<c, 0>> \in Y
  OBVIOUS
<1>5. t = CallResolving(d, k, side, v) /\ Giveable(d, k, v)
  OBVIOUS
<1> HIDE DEF Y, k
<1>6. Grows(s, d) /\ RefInv(d)
  BY <1>1, EndRef
<1>7. CoreInv(d)
  BY <1>1, <1>2, <1>6, QuietCore
<1>8. KeepInv(d, {}, Y, Z)
  BY <1>1, <1>4, EndKeep
<1>9. Good(d, {}, Y, Z) /\ k \in DOMAIN d.pair
  BY <1>1, <1>2, <1>7, <1>8 DEF Good, QuietEffect
<1>10. Good(t, {}, {}, Z) /\ Grows(d, t)
  BY <1>3, <1>5, <1>9, SettledGood
<1> QED BY <1>6, <1>10, GrowsOn

LEMMA EndItemsGood ==
    ASSUME NEW s, NEW Z, Good(s, {}, {}, Z), NEW c \in DOMAIN s.comb, s.comb[c].open,
           NEW t, t = EndItems(s, c)
    PROVE  Good(t, {}, {}, Z) /\ Grows(s, t)
<1> DEFINE C == s.comb[c]
           d == EndAt(s, c)
           side == IF C.kind = "any" THEN 1 ELSE 0
<1>1. s \in States /\ RefInv(s) /\ CoreInv(s) /\ KeepInv(s, {}, {}, Z) /\ side \in Sides
  BY DEF Good, CoreInv, RefInv, Sides
<1>2. /\ EndEffect(s, d, c, C.rem - 1)
      /\ EndEffect(s, CloseAt(s, c), c, C.rem)
  BY <1>1, EndAtIs
<1>3. t = IF C.kind = "race" THEN CloseAt(s, c)
          ELSE IF C.rem # 1 THEN d ELSE CallResolving(d, C.k, side, Full(C, c))
  BY DEF EndItems, EndAt, CloseAt, Full
<1> HIDE DEF d, side
<1>4. ASSUME NEW r, EndEffect(s, t, c, r), KeepInv(t, {}, {}, Z)
      PROVE  Good(t, {}, {}, Z) /\ Grows(s, t)
  <2>1. Grows(s, t) /\ RefInv(t) /\ QuietEffect(s, t)
    <3>1. Grows(s, t) /\ RefInv(t)
      BY <1>1, <1>4, EndRef
    <3>2. QuietEffect(s, t)
      BY <1>4 DEF EndEffect, CombEffect
    <3> QED BY <3>1, <3>2
  <2>2. CoreInv(t)
    BY <1>1, <2>1, QuietCore
  <2> QED BY <1>4, <2>1, <2>2 DEF Good
<1>5. CASE C.kind = "race"
  <2>1. EndEffect(s, t, c, C.rem)
    BY <1>2, <1>3, <1>5
  <2>2. KeepInv(t, {}, {}, Z)
    BY <1>1, <1>5, <2>1, EndKeep
  <2> QED BY <1>4, <2>1, <2>2
<1>6. CASE C.kind # "race" /\ C.rem # 1
  <2>1. EndEffect(s, t, c, C.rem - 1)
    BY <1>2, <1>3, <1>6
  <2>2. KeepInv(t, {}, {}, Z)
    BY <1>1, <1>6, <2>1, EndKeep
  <2> QED BY <1>4, <2>1, <2>2
<1>7. CASE C.kind # "race" /\ C.rem = 1
  <2>1. t = CallResolving(d, C.k, side, Full(C, c))
    BY <1>3, <1>7
  <2>2. RefInv(d) /\ c \in DOMAIN d.comb /\ d.comb[c].k = C.k
    <3>1. RefInv(d)
      BY <1>1, <1>2, EndRef, ZenonT(60)
    <3>2. c \in DOMAIN d.comb /\ d.comb[c].k = C.k
      BY <1>2 DEF EndEffect, CombEffect, Changed
    <3> QED BY <3>1, <3>2
  <2>3. Full(C, c) \in AllValues /\ Giveable(d, C.k, Full(C, c))
    BY <2>2, FullIs
  <2> QED BY <1>1, <1>2, <2>1, <2>3, ClosedGood
<1> QED BY <1>5, <1>6, <1>7

LEMMA FailItemsGood ==
    ASSUME NEW s, NEW Z, Good(s, {}, {}, Z), NEW c \in DOMAIN s.comb, NEW v \in AllValues, ValueOK(s, v),
           NEW t, t = FailItems(s, c, v)
    PROVE  Good(t, {}, {}, Z) /\ Grows(s, t)
<1> DEFINE d == CloseAt(s, c)
           k == s.comb[c].k
<1>1. s \in States /\ RefInv(s) /\ 1 \in Sides
  BY DEF Good, CoreInv, RefInv, Sides
<1>2. EndEffect(s, d, c, s.comb[c].rem)
  BY <1>1, EndAtIs
<1>3. t = CallResolving(d, k, 1, v)
  BY DEF FailItems, CloseAt
<1> HIDE DEF d
<1>4. Giveable(d, k, v)
  <2>1. Grows(s, d)
    BY <1>1, <1>2, EndRef
  <2>2. ValueOK(d, v)
    BY <1>1, <2>1, GrowsKeeps
  <2> QED BY <2>2 DEF Giveable
<1> QED BY <1>1, <1>2, <1>3, <1>4, ClosedGood

-----------------------------------------------------------------------------
(***************************************************************************)
(* The actions keep the invariant.                                         *)
(***************************************************************************)
Inv(s, f, c) ==
    /\ Good(s, {}, {}, Running(f)) /\ FrameInv(s, f)
    /\ c \in {"script", "jobs", "check", "end", "exit"} /\ (c # "script" => f = Main)
LEMMA PromiseInvIs ==
    PromiseInv <=> Inv(st, frame, pc)
BY DEF PromiseInv, Inv, Good, CoreInv

LEMMA ValuesOK ==
    ASSUME PromiseAssumption, RefInv(st)
    PROVE  /\ \A v \in Values : v \in AllValues /\ ValueOK(st, v)
           /\ \A v \in Reasons : v \in AllValues /\ ValueOK(st, v)
           /\ Visible \subseteq DOMAIN st.prom
<1>1. Visible \subseteq DOMAIN st.prom
  BY DEF Visible
<1>2. ASSUME NEW v \in Reasons
      PROVE  v \in AllValues /\ ValueOK(st, v)
  BY DEF Reasons, PromiseAssumption, AllValues, ValueOK
<1>3. ASSUME NEW v \in Values
      PROVE  v \in AllValues /\ ValueOK(st, v)
  <2>1. CASE v \in {"val"} \X Vals
    BY <1>2, <2>1 DEF Reasons
  <2>2. CASE v \in {Promise(p) : p \in Visible}
    <3>1. PICK p \in DOMAIN st.prom : v = Promise(p)
      BY <1>1, <2>2
    <3>2. p \in Nat
      BY Elements DEF RefInv
    <3> QED BY <3>1, <3>2 DEF Promise, AllValues, ValueOK
  <2>3. CASE v \in {<<"thenable", 0>>, <<"broken", 0>>}
    BY SMTT(40), <2>3 DEF AllValues, ValueOK
  <2> QED BY <2>1, <2>2, <2>3 DEF Values
<1> QED BY <1>1, <1>2, <1>3

LEMMA FrameKept ==
    ASSUME NEW s, NEW t, NEW f, RefInv(s), Grows(s, t), FrameInv(s, f)
    PROVE  FrameInv(t, f)
BY GrowsKeeps DEF FrameInv, Grows

LEMMA MainFrame ==
    /\ Running(Main) = {} /\ Main \in Entries
    /\ \A s : FrameInv(s, Main)
<1>1. Main \in Entries
  BY ConstantTypes DEF Main
<1>2. Main.job = "main"
  BY DEF Main, Simple, Entry
<1> QED BY <1>1, <1>2 DEF Running, FrameInv

\* What scripts do.
LEMMA ScriptKeeps ==
    ASSUME Inv(st, frame, pc), NEW op, NEW s, Script(op, s), Good(s, {}, {}, Running(frame)), Grows(st, s)
    PROVE  Inv(st, frame, pc)'
<1>1. st' = s /\ pc' = pc /\ frame' = frame
  BY DEF Script
<1>2. FrameInv(s, frame)
  BY FrameKept DEF Inv, Good, CoreInv
<1>3. Inv(s, frame, pc)
  BY <1>2 DEF Inv
<1> QED BY <1>1, <1>3

LEMMA InvParts ==
    ASSUME Inv(st, frame, pc)
    PROVE  Good(st, {}, {}, Running(frame)) /\ CoreInv(st) /\ RefInv(st) /\ st \in States
BY DEF Inv, Good, CoreInv, RefInv

\* The two functions of a new pair.
LEMMA PairGood ==
    ASSUME NEW s, NEW Z, NEW k \in DOMAIN s.pair, Good(s, {k}, {}, Z),
           NEW t, t = [s EXCEPT !.held = @ \cup {Settle(k, 0), Settle(k, 1)}]
    PROVE  Good(t, {}, {}, Z) /\ Grows(s, t) /\ QuietEffect(s, t)
<1> DEFINE H == {Settle(k, 0), Settle(k, 1)}
           K == {k}
           E == {}
<1>1. k \in Nat /\ 0 \in Sides /\ 1 \in Sides
  BY Elements DEF Good, CoreInv, RefInv, Sides
<1>2. ASSUME NEW h, h = Settle(k, 0) \/ h = Settle(k, 1)
      PROVE  h \in AllFunctions /\ h.fn = "settle" /\ h.k = k
  <2>1. h \in AllFunctions
    BY <1>1, <1>2, ConstantTypes
  <2>2. h.fn = "settle" /\ h.k = k
    BY <1>2 DEF Settle, Function
  <2> QED BY <2>1, <2>2
<1>3. H \in SUBSET AllFunctions /\ \A h \in H : h.fn = "settle" /\ h.k = k
  BY <1>2
<1>4. Settle(k, 0) \in H /\ K = {k} /\ t = [s EXCEPT !.held = @ \cup H] /\ Good(s, K, E, Z)
      /\ \A c, n : <<c, n>> \notin E
  OBVIOUS
<1> HIDE DEF H, K, E
<1>5. \A h \in H : HeldOK(s, h)
  BY <1>3 DEF HeldOK, FunctionOK
<1>6. \A l \in K : \E h \in H : h.fn = "settle" /\ h.k = l
  BY <1>3, <1>4
<1> QED BY <1>3, <1>4, <1>5, <1>6, HeldGood

LEMMA NewPromiseKeeps ==
    ASSUME PromiseAssumption, Inv(st, frame, pc), NewPromise
    PROVE  Inv(st, frame, pc)'
<1> DEFINE c == NewCapability(st)
           k == Len(c.pair)
           h == [c EXCEPT !.held = @ \cup {Settle(k, 0), Settle(k, 1)}]
           Z == Running(frame)
<1>1. Script("new", h) \/ \E v \in Reasons : Script("new", CallResolving(h, k, 1, v))
  BY DEF NewPromise
<1>2. Good(c, {} \cup {k}, {}, Z) /\ Grows(st, c) /\ k \in DOMAIN c.pair
  BY InvParts, CapabilityGood
<1>3. h = [c EXCEPT !.held = @ \cup {Settle(k, 0), Settle(k, 1)}]
  OBVIOUS
<1> HIDE DEF c, k, h, Z
<1>4. Good(c, {k}, {}, Z)
  <2>1. {} \cup {k} = {k}
    OBVIOUS
  <2> QED BY <1>2, <2>1
<1>5. Good(h, {}, {}, Z) /\ Grows(c, h) /\ k \in DOMAIN h.pair
  BY <1>2, <1>3, <1>4, PairGood DEF QuietEffect
<1>6. Grows(st, h)
  BY <1>2, <1>5, GrowsOn
<1>7. CASE Script("new", h)
  BY <1>5, <1>6, <1>7, ScriptKeeps DEF Z
<1>8. ASSUME NEW v \in Reasons, Script("new", CallResolving(h, k, 1, v))
      PROVE  Inv(st, frame, pc)'
  <2> DEFINE t == CallResolving(h, k, 1, v)
  <2>1. v \in AllValues /\ ValueOK(st, v) /\ 1 \in Sides
    BY InvParts, ValuesOK DEF Sides
  <2>2. Giveable(h, k, v)
    BY <1>6, <2>1, GrowsKeeps, InvParts DEF Giveable
  <2>3. \A a, b : <<a, b>> \in {} => b = 0 /\ h.comb[a].k = k
    OBVIOUS
  <2>4. Good(t, {}, {}, Z) /\ Grows(h, t)
    BY <1>5, <2>1, <2>2, <2>3, SettledGood
  <2> HIDE DEF t
  <2>5. Grows(st, t)
    BY <1>6, <2>4, GrowsOn
  <2> QED BY <1>8, <2>4, <2>5, ScriptKeeps DEF Z, t
<1> QED BY <1>1, <1>7, <1>8

LEMMA CallHeldKeeps ==
    ASSUME PromiseAssumption, Inv(st, frame, pc), CallHeld
    PROVE  Inv(st, frame, pc)'
<1>1. PICK h \in st.held : \E v \in IF h.side = 0 THEN Values ELSE Reasons : Script("settle", Call(st, h, v))
  BY DEF CallHeld
<1>2. PICK v \in Values \cup Reasons : Script("settle", Call(st, h, v))
  BY <1>1
<1>3. v \in AllValues /\ ValueOK(st, v)
  BY <1>2, InvParts, ValuesOK
<1>4. h \in AllFunctions /\ FunctionOK(st, h)
  BY InvParts, StateParts DEF RefInv, HeldOK
<1>5. Good(Call(st, h, v), {}, {}, Running(frame)) /\ Grows(st, Call(st, h, v))
  BY <1>3, <1>4, InvParts, CallGood
<1> QED BY <1>2, <1>5, ScriptKeeps

LEMMA StaticKeeps ==
    ASSUME PromiseAssumption, Inv(st, frame, pc), Static
    PROVE  Inv(st, frame, pc)'
<1>1. ASSUME NEW v \in Values, Script("static", StaticResolve(st, v))
      PROVE  Inv(st, frame, pc)'
  <2>1. v \in AllValues /\ ValueOK(st, v)
    BY InvParts, ValuesOK
  <2>2. Good(StaticResolve(st, v), {}, {}, Running(frame)) /\ Grows(st, StaticResolve(st, v))
    BY <2>1, InvParts, StaticGood
  <2> QED BY <1>1, <2>2, ScriptKeeps
<1>2. ASSUME NEW v \in Reasons, NEW c, c = NewCapability(st),
             Script("static", CallResolving(c, Len(c.pair), 1, v))
      PROVE  Inv(st, frame, pc)'
  <2> DEFINE t == CallResolving(c, Len(c.pair), 1, v)
  <2>1. v \in AllValues /\ ValueOK(st, v) /\ 1 \in Sides
    BY InvParts, ValuesOK DEF Sides
  <2>2. Good(t, {}, {}, Running(frame)) /\ Grows(st, t)
    BY <1>2, <2>1, InvParts, MadeGood
  <2> HIDE DEF t
  <2> QED BY <1>2, <2>2, ScriptKeeps DEF t
<1> QED BY <1>1, <1>2 DEF Static

LEMMA SimpleFunctionsOK ==
    /\ User \in AllFunctions /\ NoHandler \in AllFunctions
    /\ \A x \in Sides : Finally(x) \in AllFunctions
    /\ \A s : FunctionOK(s, User) /\ FunctionOK(s, NoHandler)
    /\ \A s, x : FunctionOK(s, Finally(x))
<1>1. User.fn = "user" /\ NoHandler.fn = "undefined" /\ \A x : Finally(x).fn = "finally"
  BY DEF User, NoHandler, Finally, Function
<1> QED BY <1>1, ConstantTypes DEF FunctionOK

\* A then of a script.
LEMMA ScriptThen ==
    ASSUME NEW s, NEW Z, Good(s, {}, {}, Z), NEW p, NEW f, NEW g, ThenArgs(s, p, f, g),
           NEW t, t = Then(s, p, f, g)
    PROVE  Good(t, {}, {}, Z) /\ Grows(s, t) /\ Len(t.prom) \in DOMAIN t.prom
<1> DEFINE E == {}
<1>1. TakesAll(s, Both(f, g), E, E) /\ Good(s, E, E, Z)
  BY DEF TakesAll
<1> HIDE DEF E
<1>2. Good(t, {}, {}, Z)
  BY <1>1, ThenGood
<1>3. Grows(s, t) /\ Len(t.prom) \in DOMAIN t.prom
  BY <1>1, ThenGood
<1> QED BY <1>2, <1>3

LEMMA CallThenKeeps ==
    ASSUME PromiseAssumption, Inv(st, frame, pc), CallThen
    PROVE  Inv(st, frame, pc)'
<1>1. PICK p \in Visible, f \in {User, NoHandler}, g \in {User, NoHandler} : Script("then", Then(st, p, f, g))
  BY DEF CallThen
<1>2. ThenArgs(st, p, f, g)
  BY InvParts, ValuesOK, SimpleFunctionsOK DEF ThenArgs
<1>3. Good(Then(st, p, f, g), {}, {}, Running(frame)) /\ Grows(st, Then(st, p, f, g))
  BY <1>2, InvParts, ScriptThen
<1> QED BY <1>1, <1>3, ScriptKeeps

LEMMA FinalGood ==
    ASSUME NEW s, NEW Z, Good(s, {}, {}, Z), NEW f \in Nat \X Nat, NEW t, t = [s EXCEPT !.finals = @ \cup {f}]
    PROVE  Good(t, {}, {}, Z) /\ Grows(s, t)
<1>1. CoreInv(s) /\ RefInv(s) /\ s \in States /\ KeepInv(s, {}, {}, Z)
  BY DEF Good, CoreInv, RefInv
<1>2. FinalEffect(s, t, f)
  BY <1>1, FinalIs
<1>3. Grows(s, t) /\ RefInv(t)
  BY <1>1, <1>2, FinalRef
<1>4. KeepInv(t, {}, {}, Z)
  BY <1>1, <1>2, FinalKeep
<1>5. QuietEffect(s, t)
  BY <1>2 DEF FinalEffect
<1> QED BY <1>1, <1>3, <1>4, <1>5, QuietCore DEF Good

LEMMA CallFinallyKeeps ==
    ASSUME PromiseAssumption, Inv(st, frame, pc), CallFinally
    PROVE  Inv(st, frame, pc)'
<1>1. PICK p \in Visible :
        LET s == Then(st, p, Finally(0), Finally(1)) IN
        Script("finally", [s EXCEPT !.finals = @ \cup {<<p, Len(s.prom)>>}])
  BY DEF CallFinally
<1> DEFINE s == Then(st, p, Finally(0), Finally(1))
           f == <<p, Len(s.prom)>>
           t == [s EXCEPT !.finals = @ \cup {f}]
<1>2. Script("finally", t)
  BY <1>1
<1>3. ThenArgs(st, p, Finally(0), Finally(1))
  BY InvParts, ValuesOK, SimpleFunctionsOK DEF ThenArgs, Sides
<1>4. Good(s, {}, {}, Running(frame)) /\ Grows(st, s) /\ Len(s.prom) \in DOMAIN s.prom
  BY <1>3, InvParts, ScriptThen
<1> HIDE DEF s
<1>5. p \in Nat /\ Len(s.prom) \in Nat
  BY <1>4, InvParts, ValuesOK, Elements DEF Good, CoreInv, RefInv
<1>6. f \in Nat \X Nat
  BY <1>5
<1> HIDE DEF f
<1>7. Good(t, {}, {}, Running(frame)) /\ Grows(s, t)
  BY <1>4, <1>6, FinalGood
<1> HIDE DEF t
<1>8. Grows(st, t)
  BY <1>4, <1>7, GrowsOn
<1> QED BY <1>2, <1>7, <1>8, ScriptKeeps

LEMMA AwaitKeeps ==
    ASSUME PromiseAssumption, Inv(st, frame, pc), Await
    PROVE  Inv(st, frame, pc)'
<1>1. PICK v \in Values : Script("await", PerformThen(StaticResolve(st, v), Resolved(st, v), User, User, 0))
  BY DEF Await
<1> DEFINE s == StaticResolve(st, v)
           p == Resolved(st, v)
           t == PerformThen(s, p, User, User, 0)
           E == {}
           Z == Running(frame)
<1>2. v \in AllValues /\ ValueOK(st, v)
  BY InvParts, ValuesOK
<1>3. Good(s, E, E, Z) /\ Grows(st, s) /\ p \in DOMAIN s.prom
  BY <1>2, InvParts, StaticGood
<1>4. ThenArgs(s, p, User, User)
  BY <1>3, SimpleFunctionsOK DEF ThenArgs
<1>5. GivenTo(s, Both(User, User), 0, E, E, E, E)
  BY DEF GivenTo
<1> HIDE DEF s, p, E, Z
<1>6. Good(t, E, E, Z)
  BY <1>3, <1>4, <1>5, PerformThenGood
<1>7. Grows(s, t)
  BY <1>3, <1>4, <1>5, PerformThenGood
<1>8. Script("await", t)
  BY <1>1 DEF s, p
<1> HIDE DEF t
<1>9. Grows(st, t)
  BY <1>3, <1>7, GrowsOn
<1> QED BY <1>6, <1>8, <1>9, ScriptKeeps DEF E, Z

LEMMA CombineKeeps ==
    ASSUME PromiseAssumption, Inv(st, frame, pc), Combine
    PROVE  Inv(st, frame, pc)'
<1>1. PICK kind \in {"all", "allSettled", "any", "race"} : Script(kind, NewCombinator(st, kind))
  BY DEF Combine
<1> DEFINE c == NewCapability(st)
           k == Len(c.pair)
           t == NewCombinator(st, kind)
           Z == Running(frame)
           K == {} \cup {k}
           E == {}
<1>2. Good(c, K, E, Z) /\ Grows(st, c) /\ k \in DOMAIN c.pair
  BY InvParts, CapabilityGood
<1>3. NewCombEffect(c, t, kind, k)
  BY InvParts, NewCombinatorIs
<1>4. K \subseteq E \cup {k}
  OBVIOUS
<1> HIDE DEF c, k, t, Z, K, E
<1>5. CoreInv(c) /\ RefInv(c) /\ KeepInv(c, K, E, Z)
  BY <1>2 DEF Good, CoreInv
<1>6. Grows(c, t) /\ RefInv(t)
  BY <1>2, <1>3, <1>5, NewCombRef
<1>7. CoreInv(t)
  <2>1. QuietEffect(c, t)
    BY <1>3 DEF NewCombEffect
  <2> QED BY <1>5, <1>6, <2>1, QuietCore
<1>8. KeepInv(t, E, E, Z)
  BY <1>2, <1>3, <1>4, <1>5, NewCombKeep
<1>9. Good(t, {}, {}, Z) /\ Grows(st, t)
  BY <1>2, <1>6, <1>7, <1>8, GrowsOn DEF Good, E
<1> QED BY <1>1, <1>9, ScriptKeeps DEF Z, t

LEMMA CombineItemKeeps ==
    ASSUME PromiseAssumption, Inv(st, frame, pc), CombineItem
    PROVE  Inv(st, frame, pc)'
<1>1. PICK c \in DOMAIN st.comb, v \in Values, native \in BOOLEAN :
         Script(st.comb[c].kind, AddItem(st, c, v, native))
  BY DEF CombineItem
<1>2. v \in AllValues /\ ValueOK(st, v)
  BY InvParts, ValuesOK
<1>3. Good(AddItem(st, c, v, native), {}, {}, Running(frame)) /\ Grows(st, AddItem(st, c, v, native))
  BY <1>2, InvParts, AddItemGood
<1> QED BY <1>1, <1>3, ScriptKeeps

LEMMA CombineEndKeeps ==
    ASSUME PromiseAssumption, Inv(st, frame, pc), CombineEnd
    PROVE  Inv(st, frame, pc)'
<1>1. PICK c \in DOMAIN st.comb :
         /\ Innermost(c)
         /\ \/ Script(st.comb[c].kind, EndItems(st, c))
            \/ \E v \in Reasons : Script(st.comb[c].kind, FailItems(st, c, v))
  BY DEF CombineEnd
<1>2. st.comb[c].open
  BY <1>1 DEF Innermost
<1>3. CASE Script(st.comb[c].kind, EndItems(st, c))
  <2>1. Good(EndItems(st, c), {}, {}, Running(frame)) /\ Grows(st, EndItems(st, c))
    BY <1>2, InvParts, EndItemsGood
  <2> QED BY <1>3, <2>1, ScriptKeeps
<1>4. ASSUME NEW v \in Reasons, Script(st.comb[c].kind, FailItems(st, c, v))
      PROVE  Inv(st, frame, pc)'
  <2>1. v \in AllValues /\ ValueOK(st, v)
    BY InvParts, ValuesOK
  <2>2. Good(FailItems(st, c, v), {}, {}, Running(frame)) /\ Grows(st, FailItems(st, c, v))
    BY <2>1, InvParts, FailItemsGood
  <2> QED BY <1>4, <2>2, ScriptKeeps
<1> QED BY <1>1, <1>3, <1>4

LEMMA QueueCallbackKeeps ==
    ASSUME Inv(st, frame, pc), QueueCallback
    PROVE  Inv(st, frame, pc)'
<1> DEFINE t == [st EXCEPT !.jobs = Append(@, Simple("finrec"))]
           Z == Running(frame)
<1>1. Script("collect", t)
  BY DEF QueueCallback
<1>2. CoreInv(st) /\ RefInv(st) /\ SettleInv(st) /\ ReactInv(st) /\ TrackInv(st) /\ KeepInv(st, {}, {}, Z)
  BY InvParts DEF Good, CoreInv
<1>3. CallbackEffect(st, t)
  BY InvParts, CallbackIs
<1> HIDE DEF t, Z
<1>4. Grows(st, t) /\ RefInv(t) /\ SettleInv(t) /\ ReactInv(t)
  BY <1>2, <1>3, CallbackRef, CallbackSettle, CallbackReact
<1>5. TrackInv(t) /\ KeepInv(t, {}, {}, Z)
  BY <1>2, <1>3, SameTrack, CallbackKeep DEF CallbackEffect
<1> QED BY <1>1, <1>4, <1>5, ScriptKeeps DEF Good, CoreInv, Z

\* The function that was running ends.
LEMMA EndedGood ==
    ASSUME Inv(st, frame, pc), NEW side \in Sides, NEW v \in AllValues, ValueOK(st, v)
    PROVE  Good(Ended(side, v), {}, {}, {}) /\ Grows(st, Ended(side, v))
<1> DEFINE t == Ended(side, v)
<1>0. FrameInv(st, frame) /\ Good(st, {}, {}, Running(frame)) /\ RefInv(st)
  BY InvParts DEF Inv
<1>1. CASE frame.job = "reaction"
  <2>1. ReactionArgs(st, frame) /\ frame.handler.fn \in {"user", "finally"}
    BY <1>0, <1>1, ReactionArgsAre DEF FrameInv
  <2>2. Good(st, {}, {}, {frame.n})
    BY <1>0, <1>1 DEF Running
  <2>3. CASE frame.handler.fn = "finally" /\ side = 0
    <3>1. t = AfterFinally(st, frame, v)
      BY <1>1, <2>3 DEF Ended
    <3> HIDE DEF t
    <3>2. Good(t, {}, {}, {}) /\ Grows(st, t)
      BY <2>1, <2>2, <3>1, AfterFinallyGood
    <3> QED BY <3>2 DEF t
  <2>4. CASE ~(frame.handler.fn = "finally" /\ side = 0)
    <3>1. t = Complete(st, frame.cap, side, v)
      BY <1>1, <2>4 DEF Ended
    <3>2. CallDone(st, frame.handler)
      BY <2>1 DEF CallDone
    <3> HIDE DEF t
    <3>3. Good(t, {}, {}, {}) /\ Grows(st, t)
      BY <2>1, <2>2, <3>1, <3>2, CompleteSpent
    <3> QED BY <3>3 DEF t
  <2> QED BY <2>3, <2>4
<1>2. CASE frame.job # "reaction"
  <2>1. Good(st, {}, {}, {})
    BY <1>0, <1>2 DEF Running
  <2>2. CASE t = st
    BY <2>1, <2>2, GrowsSame
  <2>3. CASE frame.job = "thenable" /\ side = 1
    <3>1. t = CallResolving(st, frame.cap, 1, v) /\ frame.cap \in DOMAIN st.pair /\ Giveable(st, frame.cap, v)
      BY <1>0, <2>3 DEF Ended, FrameInv, Giveable
    <3>2. 1 \in Sides /\ \A a, b : <<a, b>> \in {} => b = 0 /\ st.comb[a].k = frame.cap
      BY DEF Sides
    <3> HIDE DEF t
    <3>3. Good(t, {}, {}, {}) /\ Grows(st, t)
      BY <2>1, <3>1, <3>2, SettledGood
    <3> QED BY <3>3 DEF t
  <2> QED BY <1>2, <2>2, <2>3 DEF Ended, Sides
<1> QED BY <1>1, <1>2

LEMMA ReturnKeeps ==
    ASSUME PromiseAssumption, Inv(st, frame, pc), Return
    PROVE  Inv(st, frame, pc)'
<1>1. PICK side \in Sides, v \in Values \cup Reasons :
        st' = Ended(side, v) /\ pc' \in {"check", "jobs"} /\ frame' = Main
  BY DEF Return
<1>2. v \in AllValues /\ ValueOK(st, v)
  BY InvParts, ValuesOK
<1>3. Good(st', {}, {}, {})
  BY <1>1, <1>2, EndedGood
<1>4. Inv(st', Main, pc')
  BY <1>1, <1>3, MainFrame DEF Inv
<1> QED BY <1>1, <1>4

\* The first job is taken, and it is no thenable.
LEMMA PoppedGood ==
    ASSUME Good(st, {}, {}, {}), st.jobs # <<>>, NEW j, j = Head(st.jobs), j.job # "thenable",
           NEW t, t = Popped(j)
    PROVE  /\ Good(t, {}, {}, Running(j)) /\ Grows(st, t) /\ j \in Entries /\ QueuedOK(t, j)
           /\ j.job = "reaction" => j.n \in t.ran
<1>1. RefInv(st) /\ SettleInv(st) /\ ReactInv(st) /\ TrackInv(st) /\ KeepInv(st, {}, {}, {}) /\ st \in States
  BY DEF Good, CoreInv, RefInv
<1>2. j = st.jobs[1] /\ j \in Entries /\ 1 \in DOMAIN st.jobs /\ PopEffect(st, t, j)
  BY <1>1, PoppedIs
<1>3. Grows(st, t) /\ RefInv(t) /\ SettleInv(t) /\ ReactInv(t)
  BY <1>1, <1>2, PopRef, PopSettle, PopReact
<1>4. TrackInv(t)
  BY <1>1, <1>2, SameTrack DEF PopEffect
<1>5. KeepInv(t, {}, {}, Running(j))
  BY <1>1, <1>2, PopKeep
<1>6. QueuedOK(t, j)
  BY <1>1, <1>2, <1>3, GrowsKeeps DEF RefInv
<1>7. j.job = "reaction" => j.n \in t.ran
  BY <1>2 DEF PopEffect
<1> QED BY <1>2, <1>3, <1>4, <1>5, <1>6, <1>7 DEF Good, CoreInv

\* The first job is taken, and it makes its promise follow a thenable.
LEMMA PoppedPairGood ==
    ASSUME Good(st, {}, {}, {}), st.jobs # <<>>, NEW j, j = Head(st.jobs), j.job = "thenable",
           NEW c, c = NewPair(Popped(j), j.promise)
    PROVE  /\ Good(c, {Len(c.pair)}, {}, {}) /\ Grows(st, c) /\ Len(c.pair) \in DOMAIN c.pair
           /\ ValueOK(c, j.v)
<1>1. RefInv(st) /\ SettleInv(st) /\ ReactInv(st) /\ TrackInv(st) /\ KeepInv(st, {}, {}, {}) /\ st \in States
  BY DEF Good, CoreInv, RefInv
<1>2. PopPairEffect(st, c, j) /\ Len(c.pair) = Len(st.pair) + 1
  BY <1>1, PopPairIs
<1>3. j = st.jobs[1] /\ j \in Entries /\ 1 \in DOMAIN st.jobs
  BY <1>1, PoppedIs
<1>4. Grows(st, c) /\ RefInv(c) /\ SettleInv(c) /\ ReactInv(c)
  BY <1>1, <1>2, PopPairRef, PopPairSettle, PopPairReact
<1>5. TrackInv(c)
  BY <1>1, <1>2, SameTrack DEF PopPairEffect
<1>6. KeepInv(c, {Len(c.pair)}, {}, {})
  <2>1. KeepInv(c, {} \cup {Len(st.pair) + 1}, {}, {})
    BY <1>1, <1>2, PopPairKeep
  <2>2. {} \cup {Len(st.pair) + 1} = {Len(c.pair)}
    BY <1>2
  <2> QED BY <2>1, <2>2
<1>7. Len(c.pair) \in DOMAIN c.pair
  BY <1>2 DEF PopPairEffect, Added
<1>8. QueuedOK(st, j)
  BY <1>1, <1>3 DEF RefInv
<1>9. ValueOK(st, j.v)
  BY <1>8 DEF QueuedOK, JobOK
<1>10. ValueOK(c, j.v)
  BY <1>1, <1>4, <1>9, GrowsKeeps
<1> QED BY <1>4, <1>5, <1>6, <1>7, <1>10 DEF Good, CoreInv

LEMMA RunNativeKeeps ==
    ASSUME Inv(st, frame, pc), RunNative
    PROVE  Inv(st, frame, pc)'
<1> DEFINE j == Head(st.jobs)
           c == NewPair(Popped(j), j.promise)
           k == Len(c.pair)
           d == Popped(j)
<1>1. /\ pc = "jobs" /\ st.jobs # <<>> /\ IsNative(j) /\ pc' = pc /\ frame' = frame
      /\ st' = IF j.job = "reaction" THEN Reaction(d, j) ELSE Then(c, j.v[2], Settle(k, 0), Settle(k, 1))
  BY DEF RunNative
<1>2. frame = Main /\ Good(st, {}, {}, {}) /\ RefInv(st)
  BY <1>1, MainFrame, InvParts DEF Inv
<1>3. d = Popped(j) /\ c = NewPair(Popped(j), j.promise) /\ k = Len(c.pair) /\ j = Head(st.jobs)
  OBVIOUS
<1> HIDE DEF j, c, k, d
<1>4. CASE j.job = "reaction"
  <2>1. st' = Reaction(d, j) /\ j.handler.fn \notin {"user", "finally"}
    BY <1>1, <1>4 DEF IsNative
  <2>2. Good(d, {}, {}, Running(j)) /\ j \in Entries /\ QueuedOK(d, j)
    BY <1>1, <1>2, <1>3, <1>4, PoppedGood
  <2>3. ReactionArgs(d, j) /\ Good(d, {}, {}, {j.n})
    BY <1>4, <2>2, ReactionArgsAre DEF QueuedOK, Good, CoreInv, Running
  <2>4. Good(st', {}, {}, {})
    BY <2>1, <2>3, ReactionGood
  <2>5. Inv(st', Main, pc')
    BY <1>1, <2>4, MainFrame DEF Inv
  <2> QED BY <1>1, <1>2, <2>5
<1>5. CASE j.job # "reaction"
  <2> DEFINE p == j.v[2]
             f == Settle(k, 0)
             g == Settle(k, 1)
             K == {k}
             E == {}
  <2>1. st' = Then(c, p, f, g) /\ j.job = "thenable" /\ j.v[1] = "prom"
    BY <1>1, <1>5 DEF IsNative
  <2>2. Good(c, K, E, E) /\ k \in DOMAIN c.pair /\ ValueOK(c, j.v)
    BY <1>1, <1>2, <1>3, <2>1, PoppedPairGood
  <2>3. f \in AllFunctions /\ g \in AllFunctions
    BY <2>2, Elements, ConstantTypes DEF Good, CoreInv, RefInv, Sides
  <2>4. f.fn = "settle" /\ f.k = k /\ g.fn = "settle" /\ g.k = k
    BY DEF Settle, Function
  <2>5. TakesAll(c, Both(f, g), K, E)
    BY DEF TakesAll
  <2>6. p \in DOMAIN c.prom
    BY <2>1, <2>2 DEF ValueOK
  <2> HIDE DEF p, f, g, K, E
  <2>7. ThenArgs(c, p, f, g)
    BY <2>2, <2>3, <2>4, <2>6 DEF ThenArgs, FunctionOK
  <2>8. Good(st', {}, {}, E)
    BY <2>1, <2>2, <2>5, <2>7, ThenGood
  <2>9. Inv(st', Main, pc')
    BY <1>1, <2>8, MainFrame DEF Inv, E
  <2> QED BY <1>1, <1>2, <2>9
<1> QED BY <1>4, <1>5

LEMMA RunScriptKeeps ==
    ASSUME Inv(st, frame, pc), RunScript
    PROVE  Inv(st, frame, pc)'
<1> DEFINE j == Head(st.jobs)
           c == NewPair(Popped(j), j.promise)
           k == Len(c.pair)
           d == Popped(j)
           h == [c EXCEPT !.held = @ \cup {Settle(k, 0), Settle(k, 1)}]
           e == Entry("thenable", 0, k, NoHandler, 0, 0, Undefined)
<1>1. /\ pc = "jobs" /\ st.jobs # <<>> /\ ~IsNative(j) /\ pc' = "script"
      /\ IF j.job = "thenable" THEN st' = h /\ frame' = e ELSE st' = d /\ frame' = j
  BY DEF RunScript
<1>2. Good(st, {}, {}, {}) /\ RefInv(st)
  BY <1>1, MainFrame, InvParts DEF Inv
<1>3. /\ d = Popped(j) /\ c = NewPair(Popped(j), j.promise) /\ k = Len(c.pair) /\ j = Head(st.jobs)
      /\ h = [c EXCEPT !.held = @ \cup {Settle(k, 0), Settle(k, 1)}]
      /\ e = Entry("thenable", 0, k, NoHandler, 0, 0, Undefined)
  OBVIOUS
<1> HIDE DEF j, c, k, d, h, e
<1>4. CASE j.job = "thenable"
  <2>1. Good(c, {k}, {}, {}) /\ k \in DOMAIN c.pair
    BY <1>1, <1>2, <1>3, <1>4, PoppedPairGood
  <2>2. Good(h, {}, {}, {}) /\ k \in DOMAIN h.pair
    <3> DEFINE E == {}
    <3>1. Good(c, {k}, {}, E)
      BY <2>1
    <3> HIDE DEF E
    <3>2. Good(h, {}, {}, E) /\ QuietEffect(c, h)
      BY <1>3, <2>1, <3>1, PairGood
    <3> QED BY <2>1, <3>2 DEF QuietEffect, E
  <2>3. e.job = "thenable" /\ e.cap = k
    BY <1>3 DEF Entry
  <2>4. e \in Entries
    <3>1. k \in Nat
      BY <2>1, Elements DEF Good, CoreInv, RefInv
    <3>2. NoHandler \in AllFunctions /\ Undefined \in AllValues /\ 0 \in Sides
      BY ConstantTypes DEF Sides
    <3> QED BY <1>3, <3>1, <3>2 DEF Entry, Entries
  <2>5. Inv(h, e, "script")
    BY <2>2, <2>3, <2>4 DEF Inv, FrameInv, Running
  <2> QED BY <1>1, <1>4, <2>5
<1>5. CASE j.job # "thenable"
  <2>1. /\ Good(d, {}, {}, Running(j)) /\ j \in Entries /\ QueuedOK(d, j)
        /\ j.job = "reaction" => j.n \in d.ran
    BY <1>1, <1>2, <1>3, <1>5, PoppedGood
  <2>2. j.job = "reaction" => j.handler.fn \in {"user", "finally"}
    BY <1>1 DEF IsNative
  <2>3. Inv(d, j, "script")
    BY <1>5, <2>1, <2>2 DEF Inv, FrameInv, QueuedOK
  <2> QED BY <1>1, <1>5, <2>3
<1> QED BY <1>4, <1>5

\* The host loop goes on to its next part.
LEMMA LoopKeeps ==
    ASSUME Inv(st, frame, pc), Drained \/ Check
    PROVE  Inv(st, frame, pc)'
<1>1. st' = st /\ frame' = frame /\ pc' \in {"script", "check", "end", "exit"} /\ frame = Main
  BY DEF Drained, Check, Inv
<1>2. Inv(st, Main, pc')
  BY <1>1 DEF Inv
<1> QED BY <1>1, <1>2

LEMMA InitGood ==
    ASSUME Init
    PROVE  Inv(st, frame, pc)
<1> DEFINE e == Empty
<1>1. st = e /\ frame = Main /\ pc = "script"
  BY DEF Init
<1>2. /\ e.prom = <<>> /\ e.pair = <<>> /\ e.comb = <<>> /\ e.jobs = <<>> /\ e.unhandled = {} /\ e.held = {}
      /\ e.thens = <<>> /\ e.ran = {} /\ e.finals = {} /\ e.twice = FALSE
  BY DEF Empty
<1>3. e \in States
  BY DEF Empty, States
<1> HIDE DEF e
<1>4. /\ DOMAIN e.prom = {} /\ DOMAIN e.pair = {} /\ DOMAIN e.comb = {} /\ DOMAIN e.jobs = {}
      /\ DOMAIN e.thens = {}
  BY <1>2
<1>5. RefInv(e) /\ SettleInv(e)
  BY <1>2, <1>3, <1>4 DEF RefInv, SettleInv
<1>6. ReactInv(e)
  BY <1>2, <1>4 DEF ReactInv, ListInv, QueueInv, RanInv
<1>7. TrackInv(e)
  BY <1>2, <1>4 DEF TrackInv
<1>8. KeepInv(e, {}, {}, {})
  BY <1>4 DEF KeepInv, WayInv, PairInv, CombInv
<1>9. Inv(e, Main, "script")
  BY <1>5, <1>6, <1>7, <1>8, MainFrame DEF Inv, Good, CoreInv
<1> QED BY <1>1, <1>9

LEMMA InvStep ==
    ASSUME PromiseAssumption, Inv(st, frame, pc), [Next]_vars
    PROVE  Inv(st, frame, pc)'
<1>1. CASE NewPromise
  BY <1>1, NewPromiseKeeps
<1>2. CASE CallHeld
  BY <1>2, CallHeldKeeps
<1>3. CASE Static
  BY <1>3, StaticKeeps
<1>4. CASE CallThen
  BY <1>4, CallThenKeeps
<1>5. CASE CallFinally
  BY <1>5, CallFinallyKeeps
<1>6. CASE Await
  BY <1>6, AwaitKeeps
<1>7. CASE Combine
  BY <1>7, CombineKeeps
<1>8. CASE CombineItem
  BY <1>8, CombineItemKeeps
<1>9. CASE CombineEnd
  BY <1>9, CombineEndKeeps
<1>10. CASE QueueCallback
  BY <1>10, QueueCallbackKeeps
<1>11. CASE Return
  BY <1>11, ReturnKeeps
<1>12. CASE RunNative
  BY <1>12, RunNativeKeeps
<1>13. CASE RunScript
  BY <1>13, RunScriptKeeps
<1>14. CASE Drained \/ Check
  BY <1>14, LoopKeeps
<1>15. CASE UNCHANGED vars
  BY <1>15 DEF vars
<1> QED BY <1>1, <1>2, <1>3, <1>4, <1>5, <1>6, <1>7, <1>8, <1>9, <1>10, <1>11, <1>12, <1>13, <1>14, <1>15
        DEF Next

\* Nothing that scripts do breaks the invariant on which settling once and
\* reacting once rest.
THEOREM PromiseInvariant ==
    ASSUME PromiseAssumption
    PROVE  Spec => []PromiseInv
<1>1. Init => Inv(st, frame, pc)
  BY InitGood
<1>2. Inv(st, frame, pc) /\ [Next]_vars => Inv(st, frame, pc)'
  BY InvStep
<1>3. Inv(st, frame, pc) => PromiseInv
  BY PromiseInvIs
<1> QED BY <1>1, <1>2, <1>3, PTL DEF Spec

-----------------------------------------------------------------------------
(***************************************************************************)
(* A promise is settled once, and every then on it reacts once.            *)
(***************************************************************************)
LEMMA TypesFollow ==
    ASSUME Inv(st, frame, pc)
    PROVE  TypeOK
<1>1. RefInv(st) /\ ReactInv(st) /\ TrackInv(st) /\ st \in States
  BY InvParts DEF CoreInv
<1>2. ASSUME NEW p \in DOMAIN st.prom
      PROVE  /\ st.prom[p].state \in {"pending", "fulfilled", "rejected"}
             /\ ~Pending(st, p) => st.prom[p].reactions = Both(<<>>, <<>>)
             /\ \A x \in Sides : \A r \in Range(st.prom[p].reactions[x]) : r.cap \in 0..Len(st.pair)
  <2>1. st.prom[p].state \in {"pending", "fulfilled", "rejected"} /\ st.prom[p].reactions \in [Sides -> Seq(Listeds)]
    BY <1>1, Elements DEF Promises
  <2>2. ASSUME ~Pending(st, p)
        PROVE  st.prom[p].reactions = Both(<<>>, <<>>)
    <3>1. \A x \in Sides : st.prom[p].reactions[x] = <<>>
      BY <1>1, <2>2 DEF ReactInv, ListInv
    <3> DEFINE R == st.prom[p].reactions
    <3>2. R = [x \in Sides |-> R[x]]
      BY <2>1
    <3> HIDE DEF R
    <3>3. R = [x \in Sides |-> <<>>]
      BY <3>1, <3>2 DEF R
    <3> QED BY <3>3 DEF R, Both
  <2>3. ASSUME NEW x \in Sides, NEW r \in Range(st.prom[p].reactions[x])
        PROVE  r.cap \in 0..Len(st.pair)
    <3>1. PICK i \in DOMAIN st.prom[p].reactions[x] : r = st.prom[p].reactions[x][i]
      BY DEF Range
    <3>2. PromiseOK(st, p)
      BY <1>1 DEF RefInv
    <3>3. ListedOK(st, p, x, r)
      BY <3>1, <3>2 DEF PromiseOK
    <3>4. ThenOK(st, r.n) /\ r.cap = st.thens[r.n].cap
      BY <1>1, <3>3 DEF ListedOK, RefInv
    <3>5. r.cap = 0 \/ r.cap \in DOMAIN st.pair
      BY <3>4 DEF ThenOK
    <3> QED BY <1>1, <3>5, Elements
  <2> QED BY <2>1, <2>2, <2>3
<1>3. \A h \in st.held : h.k \in DOMAIN (IF h.fn = "settle" THEN st.pair ELSE st.comb)
  BY <1>1 DEF RefInv, HeldOK, FunctionOK
<1>4. \A k \in DOMAIN st.pair : st.pair[k].promise \in DOMAIN st.prom
  BY <1>1 DEF RefInv
<1>5. st.unhandled \subseteq DOMAIN st.prom
  BY <1>1 DEF TrackInv
<1> QED BY <1>2, <1>3, <1>4, <1>5 DEF TypeOK, Inv

LEMMA OnceFollows ==
    ASSUME Inv(st, frame, pc), NEW n \in DOMAIN st.thens, NEW x \in Sides
    PROVE  Cardinality(Listed(st, n, x)) + Cardinality(Queued(st, n)) + (IF n \in st.ran THEN 1 ELSE 0) = 1
<1>1. RefInv(st) /\ ReactInv(st) /\ st \in States
  BY InvParts DEF CoreInv
<1> DEFINE p == st.thens[n].p
           rs == st.prom[p].reactions[x]
           L == Listed(st, n, x)
           Q == Queued(st, n)
<1>2. p \in DOMAIN st.prom /\ Placed(st, n) /\ st.prom[p] \in Promises
  BY <1>1, Elements DEF RefInv, ThenOK, ReactInv
<1>3. L = {i \in DOMAIN rs : rs[i].n = n} /\ Q = {i \in DOMAIN st.jobs : IsReaction(st, i, n)}
  BY DEF Listed, Queued, IsReaction
<1>4. DOMAIN rs \subseteq Nat /\ DOMAIN st.jobs \subseteq Nat
  BY SMTT(40), <1>1, <1>2, Elements DEF Promises
<1>5. \A i, j \in DOMAIN rs : i < j => rs[i].n < rs[j].n
  BY <1>1, <1>2 DEF ReactInv, ListInv
<1>6. n \in Nat
  BY <1>1, Elements
<1>7. \A i \in Q : ~Pending(st, p) /\ n \notin st.ran
  <2> SUFFICES ASSUME NEW i \in DOMAIN st.jobs, IsReaction(st, i, n)
               PROVE  ~Pending(st, p) /\ n \notin st.ran
    BY <1>3
  <2>1. QueuedOK(st, st.jobs[i])
    BY <1>1 DEF RefInv
  <2>2. st.prom[p].state = Outcome(st.jobs[i].side)
    BY <2>1 DEF QueuedOK, JobOK, IsReaction
  <2>3. n \notin st.ran
    BY <1>1 DEF ReactInv, QueueInv, IsReaction
  <2> QED BY <2>2, <2>3 DEF Pending, Outcome
<1>8. \A i, j \in Q : i = j
  <2> SUFFICES ASSUME NEW i \in Q, NEW j \in Q, i < j
               PROVE  FALSE
    BY SMTT(40), <1>3, <1>4
  <2>1. st.jobs[i].n < st.jobs[j].n
    BY <1>1, <1>3 DEF ReactInv, QueueInv, IsReaction
  <2> QED BY <1>3, <1>6, <2>1 DEF IsReaction
<1>9. \A i, j \in L : i = j
  <2> HIDE DEF rs
  <2> QED BY <1>3, <1>4, <1>5, <1>6
<1>10. ~Pending(st, p) => L = {}
  <2>1. ~Pending(st, p) => rs = <<>>
    BY <1>1, <1>2 DEF ReactInv, ListInv
  <2> QED BY SMTT(40), <1>3, <2>1
<1>11. Pending(st, p) => L # {} /\ n \notin st.ran
  BY ZenonT(60), <1>2, <1>3 DEF Placed
<1>12. ~Pending(st, p) /\ n \notin st.ran => Q # {}
  BY <1>2, <1>3 DEF Placed
<1> HIDE DEF L, Q, p, rs
<1>13. Cardinality({}) = 0 /\ \A S : S # {} /\ (\A i, j \in S : i = j) => Cardinality(S) = 1
  <2>1. ASSUME NEW S, S # {}, \A i, j \in S : i = j
        PROVE  Cardinality(S) = 1
    <3>1. PICK i : i \in S
      BY <2>1
    <3>2. S = {i}
      BY <2>1, <3>1
    <3> QED BY <3>2, FS_Singleton
  <2> QED BY <2>1, FS_EmptySet
<1>14. Cardinality(L) + Cardinality(Q) + (IF n \in st.ran THEN 1 ELSE 0) = 1
  <2>1. CASE Pending(st, p)
    <3>1. Cardinality(L) = 1 /\ Q = {} /\ n \notin st.ran
      BY <1>7, <1>9, <1>11, <1>13, <2>1
    <3> QED BY <1>13, <3>1
  <2>2. CASE ~Pending(st, p) /\ n \in st.ran
    <3>1. L = {} /\ Q = {}
      BY <1>7, <1>10, <2>2
    <3> QED BY <1>13, <2>2, <3>1
  <2>3. CASE ~Pending(st, p) /\ n \notin st.ran
    <3>1. L = {} /\ Cardinality(Q) = 1
      BY <1>8, <1>10, <1>12, <1>13, <2>3
    <3> QED BY <1>13, <2>3, <3>1
  <2> QED BY <2>1, <2>2, <2>3
<1> QED BY <1>14 DEF L, Q

\* A promise is settled once: fulfill_or_reject_promise is never called for
\* one that is.  Every then reacts once, in the order of the calls.  Whatever
\* scripts, thenables and combinators do with the resolving functions.
THEOREM SettlesOnce ==
    ASSUME PromiseAssumption
    PROVE  Spec => []SettlesAndReactsOnce
<1>1. Init => Inv(st, frame, pc)
  BY InitGood
<1>2. Inv(st, frame, pc) /\ [Next]_vars => Inv(st, frame, pc)'
  BY InvStep
<1>3. Inv(st, frame, pc) => SettlesAndReactsOnce
  <2> SUFFICES ASSUME Inv(st, frame, pc)
               PROVE  SettlesAndReactsOnce
    OBVIOUS
  <2>1. TypeOK /\ NeverSettledTwice
    BY TypesFollow, InvParts DEF CoreInv, SettleInv, NeverSettledTwice
  <2>2. ReactsOnceInOrder
    <3> SUFFICES ASSUME NEW n \in DOMAIN st.thens
                 PROVE  /\ \A x \in Sides :
                              Cardinality(Listed(st, n, x)) + Cardinality(Queued(st, n))
                              + (IF n \in st.ran THEN 1 ELSE 0) = 1
                        /\ n \in st.ran => \A m \in 1..n : st.thens[m].p = st.thens[n].p => m \in st.ran
      BY DEF ReactsOnceInOrder
    <3>1. RanInv(st) /\ \A m \in 1..n : m \in DOMAIN st.thens /\ (m < n \/ m = n)
      BY InvParts, Elements DEF CoreInv, ReactInv
    <3>2. n \in st.ran => \A m \in 1..n : st.thens[m].p = st.thens[n].p => m \in st.ran
      BY <3>1 DEF RanInv
    <3> QED BY <3>2, OnceFollows
  <2> QED BY <2>1, <2>2 DEF SettlesAndReactsOnce
<1> QED BY <1>1, <1>2, <1>3, PTL DEF Spec

-----------------------------------------------------------------------------
(***************************************************************************)
(* No promise is forgotten.                                                *)
(***************************************************************************)
\* A combinator that is not done waits for one of its items.
LEMMA Unanswered ==
    ASSUME NEW s, RefInv(s), NEW c \in DOMAIN s.comb, Counts(s, c), s.comb[c].kind # "race", ~s.comb[c].open
    PROVE  \E n \in DOMAIN s.comb[c].items : \A x \in Sides : <<n, x>> \notin s.comb[c].called
<1> DEFINE T == s.comb[c].called
           m == Len(s.comb[c].items)
           f == [n \in 1..m |-> <<n, CHOOSE x \in Sides : <<n, x>> \in T>>]
<1>1. m \in Nat /\ DOMAIN s.comb[c].items = 1..m /\ IsFiniteSet(T) /\ Cardinality(T) \in Nat
  BY CountedSets
<1>2. Cardinality(T) < m
  BY <1>1, CountedSets DEF Counts
<1>3. IsFiniteSet(1..m) /\ Cardinality(1..m) = m
  <2>1. 1 \in Int /\ m \in Int
    BY <1>1
  <2>2. IsFiniteSet(1..m) /\ Cardinality(1..m) = IF 1 > m THEN 0 ELSE m - 1 + 1
    BY <2>1, FS_Interval
  <2> QED BY <1>1, <2>2
<1> HIDE DEF T, m
<1>4. SUFFICES ASSUME \A n \in 1..m : \E x \in Sides : <<n, x>> \in T
               PROVE  FALSE
  BY <1>1 DEF T
<1>5. \A n \in 1..m : <<n, CHOOSE x \in Sides : <<n, x>> \in T>> \in T
  BY <1>4
<1>6. f \in [1..m -> T]
  BY <1>5
<1>7. \A a, b \in 1..m : f[a] = f[b] => a = b
  OBVIOUS
<1> HIDE DEF f
<1>8. \E a, b \in 1..m : a # b /\ f[a] = f[b]
  BY <1>1, <1>2, <1>3, <1>6, FS_PigeonHole
<1> QED BY <1>7, <1>8

\* The reactions that wait.
LEMMA ReactionsAre ==
    /\ \A p \in DOMAIN st.prom, x \in Sides : \A r \in Range(st.prom[p].reactions[x]) : r \in Reactions(st)
    /\ \A j \in Range(st.jobs) : j.job = "reaction" => j \in Reactions(st)
<1>1. ASSUME NEW p \in DOMAIN st.prom, NEW x \in Sides, NEW r \in Range(st.prom[p].reactions[x])
      PROVE  r \in Reactions(st)
  BY DEF Reactions
<1>2. ASSUME NEW j \in Range(st.jobs), j.job = "reaction"
      PROVE  j \in Reactions(st)
  <2>1. j \in {i \in Range(st.jobs) : i.job = "reaction"}
    BY <1>2
  <2> QED BY <2>1 DEF Reactions
<1> QED BY <1>1, <1>2

\* A then that is live has a reaction that waits, or it runs.
LEMMA LiveReacts ==
    ASSUME Inv(st, frame, pc), NEW n \in DOMAIN st.thens, Live(st, n, Running(frame))
    PROVE  \/ \E r \in Reactions(st) : /\ r.cap = st.thens[n].cap
                                       /\ \E x \in Sides : r.handler = st.thens[n].fns[x]
           \/ /\ frame.job = "reaction" /\ frame.cap = st.thens[n].cap
              /\ \E x \in Sides : st.thens[n].fns[x].fn \in {"user", "finally"}
<1>1. RefInv(st) /\ ReactInv(st) /\ st \in States /\ FrameInv(st, frame)
  BY InvParts DEF CoreInv, Inv
<1>2. CASE n \in st.ran
  <2>1. frame.job = "reaction" /\ frame.n = n
    BY <1>2 DEF Live, Running
  <2>2. JobOK(st, frame) /\ frame.handler.fn \in {"user", "finally"} /\ frame.side \in Sides
    BY <1>1, <2>1 DEF FrameInv, Entries
  <2> QED BY <2>1, <2>2 DEF JobOK
<1>3. CASE n \notin st.ran
  <2> DEFINE p == st.thens[n].p
  <2>1. p \in DOMAIN st.prom /\ Placed(st, n) /\ PromiseOK(st, p)
    BY <1>1 DEF RefInv, ThenOK, ReactInv
  <2>2. CASE Pending(st, p)
    <3>1. PICK i \in DOMAIN st.prom[p].reactions[0] : st.prom[p].reactions[0][i].n = n
      BY ZenonT(60), <2>1, <2>2 DEF Placed, Sides
    <3> DEFINE r == st.prom[p].reactions[0][i]
    <3>2. ListedOK(st, p, 0, r)
      BY ZenonT(60), <2>1, <3>1 DEF PromiseOK, Sides
    <3>3. r \in Range(st.prom[p].reactions[0])
      BY <3>1 DEF Range
    <3>4. r \in Reactions(st)
      BY <2>1, <3>3, ReactionsAre DEF Sides
    <3>5. r.n = n
      BY <3>1
    <3> HIDE DEF r, p
    <3> QED BY <3>2, <3>4, <3>5 DEF ListedOK, Sides
  <2>3. CASE ~Pending(st, p)
    <3>1. PICK i \in DOMAIN st.jobs : IsReaction(st, i, n)
      BY <1>3, <2>1, <2>3 DEF Placed
    <3> DEFINE j == st.jobs[i]
    <3>2. QueuedOK(st, j) /\ j.side \in Sides
      BY <1>1, Elements DEF RefInv, Entries
    <3>3. j \in Range(st.jobs) /\ j.job = "reaction" /\ j.n = n
      BY <3>1 DEF Range, IsReaction
    <3> HIDE DEF j
    <3>4. j \in Reactions(st)
      BY <3>3, ReactionsAre
    <3> QED BY <3>2, <3>3, <3>4 DEF QueuedOK, JobOK
  <2> QED BY <2>2, <2>3
<1> QED BY <1>2, <1>3

\* So its pair can be called, and its functions.
LEMMA LiveCallable ==
    ASSUME Inv(st, frame, pc), NEW n \in DOMAIN st.thens, Live(st, n, Running(frame))
    PROVE  /\ st.thens[n].cap \in Callable(st, frame)
           /\ (\A x \in Sides : st.thens[n].fns[x].fn \in {"settle", "element"}) =>
                 \E x \in Sides : st.thens[n].fns[x] \in Functions(st)
<1>1. CASE \E r \in Reactions(st) : r.cap = st.thens[n].cap /\ \E x \in Sides : r.handler = st.thens[n].fns[x]
  <2>1. PICK r \in Reactions(st) : r.cap = st.thens[n].cap /\ \E x \in Sides : r.handler = st.thens[n].fns[x]
    BY <1>1
  <2>2. r.handler \in Functions(st)
    BY DEF Functions
  <2>3. r.cap \in Callable(st, frame)
    BY DEF Callable
  <2> QED BY <2>1, <2>2, <2>3
<1>2. CASE /\ frame.job = "reaction" /\ frame.cap = st.thens[n].cap
           /\ \E x \in Sides : st.thens[n].fns[x].fn \in {"user", "finally"}
  <2>1. frame.cap \in Callable(st, frame)
    BY <1>2 DEF Callable
  <2> QED BY <1>2, <2>1
<1> QED BY <1>1, <1>2, LiveReacts

\* A function that can be called can use its pair, or its combinator's.
LEMMA FunctionCallable ==
    ASSUME NEW h \in Functions(st)
    PROVE  /\ h.fn = "settle" => h.k \in Callable(st, frame)
           /\ h.fn = "element" => st.comb[h.k].k \in Callable(st, frame)
BY DEF Callable

\* The functions of an item can use the pair of its combinator.
LEMMA ItemCallable ==
    ASSUME Inv(st, frame, pc), NEW c \in DOMAIN st.comb, NEW n, HasItem(st, c, n, Running(frame)),
           \A x \in Sides : <<n, x>> \notin st.comb[c].called
    PROVE  st.comb[c].k \in Callable(st, frame)
<1>1. ASSUME NEW x \in Sides
      PROVE  \/ ItemFns(st, c, n)[x].fn = "settle" /\ ItemFns(st, c, n)[x].k = st.comb[c].k
             \/ ItemFns(st, c, n)[x].fn = "element" /\ ItemFns(st, c, n)[x].k = c
  <2>1. ItemFns(st, c, n)[x] = Settle(st.comb[c].k, x) \/ ItemFns(st, c, n)[x] = Element(c, n, x)
    BY BothIs DEF ItemFns
  <2> QED BY <2>1 DEF Settle, Element, Function
<1>2. ASSUME NEW x \in Sides, ItemFns(st, c, n)[x] \in Functions(st)
      PROVE  st.comb[c].k \in Callable(st, frame)
  <2> DEFINE h == ItemFns(st, c, n)[x]
  <2>1. h \in Functions(st) /\ ((h.fn = "settle" /\ h.k = st.comb[c].k) \/ (h.fn = "element" /\ h.k = c))
    BY <1>1, <1>2
  <2> HIDE DEF h
  <2> QED BY <2>1, FunctionCallable
<1>3. CASE \E x \in Sides : ItemFns(st, c, n)[x] \in st.held
  BY <1>2, <1>3 DEF Functions
<1>4. CASE \E m \in DOMAIN st.thens : Live(st, m, Running(frame)) /\ st.thens[m].fns = ItemFns(st, c, n)
  <2>1. PICK m \in DOMAIN st.thens : Live(st, m, Running(frame)) /\ st.thens[m].fns = ItemFns(st, c, n)
    BY <1>4
  <2>2. \A x \in Sides : st.thens[m].fns[x].fn \in {"settle", "element"}
    BY <1>1, <2>1
  <2> QED BY <1>2, <2>1, <2>2, LiveCallable
<1> QED BY <1>3, <1>4 DEF HasItem

LEMMA WayFollows ==
    ASSUME Inv(st, frame, pc), NEW p \in DOMAIN st.prom, Pending(st, p)
    PROVE  \/ \E j \in Range(st.jobs) : j.job = "thenable" /\ j.promise = p
           \/ \E k \in Callable(st, frame) : k # 0 /\ st.pair[k].promise = p /\ ~st.pair[k].done
           \/ \E C \in Range(st.comb) : C.kind = "race" /\ C.items = <<>> /\ st.pair[C.k].promise = p
<1> DEFINE Z == Running(frame)
<1>1. RefInv(st) /\ st \in States /\ KeepInv(st, {}, {}, Z)
  BY InvParts DEF Good
<1>2. CASE \E i \in DOMAIN st.jobs : Waits(st, i) /\ st.jobs[i].promise = p
  BY <1>2 DEF Range, Waits
<1>3. ASSUME NEW k \in DOMAIN st.pair, Unused(st, k), st.pair[k].promise = p
      PROVE  \/ \E l \in Callable(st, frame) : l # 0 /\ st.pair[l].promise = p /\ ~st.pair[l].done
             \/ \E C \in Range(st.comb) : C.kind = "race" /\ C.items = <<>> /\ st.pair[C.k].promise = p
  <2>1. k # 0 /\ st.pair[k].promise = p /\ ~st.pair[k].done
    BY <1>1, <1>3, Elements DEF Unused
  <2>2. SUFFICES \/ k \in Callable(st, frame)
                 \/ \E C \in Range(st.comb) : C.kind = "race" /\ C.items = <<>> /\ C.k = k
    BY <2>1
  <2>3. HasPair(st, k, Z)
    BY <1>1, <1>3 DEF KeepInv, PairInv
  <2>4. CASE \E h \in st.held : h.fn = "settle" /\ h.k = k
    BY <2>4, FunctionCallable DEF Functions
  <2>5. CASE \E n \in DOMAIN st.thens : Live(st, n, Z) /\ st.thens[n].cap = k
    BY <2>5, LiveCallable
  <2>6. CASE \E n \in DOMAIN st.thens : Live(st, n, Z) /\ st.thens[n].fns = Both(Settle(k, 0), Settle(k, 1))
    <3>1. PICK n \in DOMAIN st.thens : Live(st, n, Z) /\ st.thens[n].fns = Both(Settle(k, 0), Settle(k, 1))
      BY <2>6
    <3>2. \A x \in Sides : st.thens[n].fns[x] = Settle(k, x)
      BY <3>1, BothIs
    <3>3. \A x \in Sides : st.thens[n].fns[x].fn = "settle" /\ st.thens[n].fns[x].k = k
      <4>1. \A x : Settle(k, x).fn = "settle" /\ Settle(k, x).k = k
        BY DEF Settle, Function
      <4> QED BY <3>2, <4>1
    <3>4. \E x \in Sides : st.thens[n].fns[x] \in Functions(st)
      BY <3>1, <3>3, LiveCallable
    <3> QED BY <3>3, <3>4, FunctionCallable
  <2>7. CASE \E c \in DOMAIN st.comb : st.comb[c].k = k
    <3>1. PICK c \in DOMAIN st.comb : st.comb[c].k = k
      BY <2>7
    <3>2. Counts(st, c) /\ \A n \in DOMAIN st.comb[c].items : HasItem(st, c, n, Z)
      BY <1>1, <1>3, <3>1 DEF KeepInv, CombInv
    <3>3. st.comb[c] \in Range(st.comb) /\ CombOK(st, c) /\ st.comb[c] \in Combinators
      BY <1>1, Elements DEF Range, RefInv
    <3>4. CASE st.comb[c].open
      BY <3>1, <3>3, <3>4 DEF Callable
    <3>5. CASE st.comb[c].kind = "race"
      <4>1. CASE st.comb[c].items = <<>>
        BY <3>1, <3>3, <3>5, <4>1
      <4>2. CASE st.comb[c].items # <<>>
        <5>1. 1 \in DOMAIN st.comb[c].items
          BY <3>3, <4>2 DEF Combinators
        <5>2. st.comb[c].called = {}
          BY <3>3, <3>5 DEF CombOK
        <5> QED BY <3>1, <3>2, <5>1, <5>2, ItemCallable
      <4> QED BY <4>1, <4>2
    <3>6. CASE ~st.comb[c].open /\ st.comb[c].kind # "race"
      <4>1. PICK n \in DOMAIN st.comb[c].items : \A x \in Sides : <<n, x>> \notin st.comb[c].called
        BY <1>1, <3>2, <3>6, Unanswered
      <4> QED BY <3>1, <3>2, <4>1, ItemCallable
    <3> QED BY <3>4, <3>5, <3>6
  <2> QED BY <2>3, <2>4, <2>5, <2>6, <2>7 DEF HasPair
<1> QED BY <1>1, <1>2, <1>3 DEF KeepInv, WayInv

\* While a promise is pending, somebody can still settle it, unless it is that
\* of a race between nothing; and the tracker of rejections that decides
\* whether the program fails knows exactly the rejected promises nobody handles.
THEOREM NobodyForgotten ==
    ASSUME PromiseAssumption
    PROVE  Spec => []NoneForgotten
<1>1. Init => Inv(st, frame, pc)
  BY InitGood
<1>2. Inv(st, frame, pc) /\ [Next]_vars => Inv(st, frame, pc)'
  BY InvStep
<1>3. Inv(st, frame, pc) => NoneForgotten
  <2> SUFFICES ASSUME Inv(st, frame, pc)
               PROVE  NoneForgotten
    OBVIOUS
  <2>1. PendingHasAWay
    BY WayFollows DEF PendingHasAWay
  <2>2. TrackerExact
    BY InvParts DEF CoreInv, TrackInv, TrackerExact
  <2> QED BY <2>1, <2>2 DEF NoneForgotten
<1> QED BY <1>1, <1>2, <1>3, PTL DEF Spec

-----------------------------------------------------------------------------
(***************************************************************************)
(* finally and the combinators give the outcomes they were given.          *)
(***************************************************************************)
\* What a promise d passes on is the outcome of p, for <<p, d>> in R: the
\* promises that finally returned, and those its functions made on the way.
\* A pair of d that is not used up is then in the hands of one reaction: the
\* one of finally on p, the one that waits for the callback's promise, or the
\* one with which d follows another promise with the outcome of p.
Onward(R, p, v) == v[1] = "prom" /\ <<p, v[2]>> \in R
HasOutcome(s, p, side, v) == s.prom[p].state = Outcome(side) /\ s.prom[p].result = v
Forwards(s, n, p) ==
    \/ s.thens[n].p = p /\ s.thens[n].fns = Both(Finally(0), Finally(1))
    \/ \E side \in Sides, v \in AllValues :
          s.thens[n].fns = Both(Thunk(side, v), NoHandler) /\ HasOutcome(s, p, side, v)
Fulfills(h, k) == h.fn = "settle" /\ h.k = k /\ h.side = 0
Bound(s, R, n, k, p) ==
    /\ s.thens[n].cap = k => Forwards(s, n, p)
    /\ \A x \in Sides : Fulfills(s.thens[n].fns[x], k) => x = 0 /\ <<p, s.thens[n].p>> \in R
Entrusted(s, R, k, p) ==
    /\ \A h \in s.held : ~Fulfills(h, k)
    /\ \A c \in DOMAIN s.comb : s.comb[c].k # k
    /\ \A n \in DOMAIN s.thens : Bound(s, R, n, k, p)
Passes(s, R, p, d) ==
    /\ p \in DOMAIN s.prom /\ d \in DOMAIN s.prom
    /\ s.prom[d].state = "fulfilled" => HasOutcome(s, p, 0, s.prom[d].result)
    /\ \A k \in DOMAIN s.pair : Unused(s, k) /\ s.pair[k].promise = d => Entrusted(s, R, k, p)
    /\ \A i \in DOMAIN s.jobs : Waits(s, i) /\ s.jobs[i].promise = d => Onward(R, p, s.jobs[i].v)
PassInv(s, R) == \A p, d : <<p, d>> \in R => Passes(s, R, p, d)

\* The answers of a combinator are those of its items: a function of an item
\* is called by the reaction on the item's promise, or it is a script's and
\* the item not a native one.
Answered(s, c, n, x) ==
    /\ s.comb[c].values[n] # Hole
    /\ s.comb[c].items[n].native =>
          /\ HasOutcome(s, s.comb[c].items[n].p, x, s.comb[c].values[n].v)
          /\ s.comb[c].values[n].side = x
AnsweredTwice(s, c) == \E n \in DOMAIN s.comb[c].items : <<n, 0>> \in s.comb[c].called /\ <<n, 1>> \in s.comb[c].called
Covered(s, c) ==
    \/ AnsweredTwice(s, c)
    \/ ~s.comb[c].open /\ \A n \in DOMAIN s.comb[c].items : \E x \in Sides : <<n, x>> \in s.comb[c].called
ArrayOf(c, v) == v = <<"array", c>> \/ v = <<"aggregate", c>>
AtHome(s, n, x) ==
    LET h == s.thens[n].fns[x] IN
    h.fn = "element" => h.side = x /\ s.comb[h.k].items[h.n].p = s.thens[n].p
GivenAway(s, h) == h.fn = "element" => ~s.comb[h.k].items[h.n].native
ValueInv(s) ==
    \A c \in DOMAIN s.comb, x \in Sides : \A n \in DOMAIN s.comb[c].items :
        <<n, x>> \in s.comb[c].called => Answered(s, c, n, x)
ResultInv(s) ==
    \A c \in DOMAIN s.comb, p \in DOMAIN s.prom : ArrayOf(c, s.prom[p].result) => Covered(s, c)
HomeInv(s) ==
    /\ \A n \in DOMAIN s.thens, x \in Sides : AtHome(s, n, x)
    /\ \A h \in s.held : GivenAway(s, h)
AnswerInv(s) == ValueInv(s) /\ ResultInv(s) /\ HomeInv(s)

LEMMA OutcomeKept ==
    ASSUME NEW s, NEW t, Grows(s, t), NEW p \in DOMAIN s.prom, NEW side, NEW v, HasOutcome(s, p, side, v)
    PROVE  HasOutcome(t, p, side, v)
<1>1. ~Pending(s, p)
  BY DEF HasOutcome, Outcome, Pending
<1> QED BY <1>1 DEF HasOutcome, Grows

LEMMA EntrustKept ==
    ASSUME NEW s, NEW t, NEW R, NEW k, NEW p \in DOMAIN s.prom, Entrusted(s, R, k, p), Grows(s, t),
           \A h \in t.held : h \in s.held \/ ~Fulfills(h, k),
           \A c \in DOMAIN t.comb : c \in DOMAIN s.comb \/ t.comb[c].k # k,
           \A n \in DOMAIN t.thens : n \in DOMAIN s.thens \/ Bound(t, R, n, k, p)
    PROVE  Entrusted(t, R, k, p)
<1>1. \A h \in t.held : ~Fulfills(h, k)
  BY DEF Entrusted
<1>2. \A c \in DOMAIN t.comb : t.comb[c].k # k
  BY DEF Entrusted, Grows
<1>3. ASSUME NEW n \in DOMAIN s.thens
      PROVE  Bound(t, R, n, k, p)
  <2>1. Bound(s, R, n, k, p) /\ t.thens[n] = s.thens[n]
    BY <1>3 DEF Entrusted, Grows
  <2>2. Forwards(s, n, p) => Forwards(t, n, p)
    BY <2>1, OutcomeKept DEF Forwards
  <2> QED BY <2>1, <2>2 DEF Bound
<1> QED BY <1>1, <1>2, <1>3 DEF Entrusted

\* Nobody passes anything on with d.
Free(R, d) == \A p : <<p, d>> \notin R

\* What a step must see to if it is not to disturb what is passed on.
NoNewOwner(s, t, R) ==
    /\ \A h \in t.held : h \in s.held \/
          \A k \in DOMAIN s.pair : Unused(s, k) /\ Fulfills(h, k) => Free(R, s.pair[k].promise)
    /\ \A c \in DOMAIN t.comb : c \in DOMAIN s.comb \/
          \A k \in DOMAIN s.pair : Unused(s, k) /\ t.comb[c].k = k => Free(R, s.pair[k].promise)
    /\ \A n \in DOMAIN t.thens : n \in DOMAIN s.thens \/
          \A k \in DOMAIN s.pair : Unused(s, k) =>
             \A p : <<p, s.pair[k].promise>> \in R => Bound(t, R, n, k, p)
JobsOnward(s, t, R) ==
    \A i \in DOMAIN t.jobs : Waits(t, i) =>
       \/ \E j \in DOMAIN s.jobs : s.jobs[j] = t.jobs[i]
       \/ \A p : <<p, t.jobs[i].promise>> \in R => Onward(R, p, t.jobs[i].v)
FulfilledRight(s, t, R) ==
    \A d \in DOMAIN s.prom : t.prom[d].state = "fulfilled" =>
       \/ s.prom[d].state = "fulfilled"
       \/ \A p : <<p, d>> \in R => HasOutcome(t, p, 0, t.prom[d].result)
PairsRight(s, t, R) ==
    \A k \in DOMAIN t.pair : Unused(t, k) =>
       k \in DOMAIN s.pair \/ \A p : <<p, t.pair[k].promise>> \in R => Entrusted(t, R, k, p)

LEMMA PassFrom ==
    ASSUME NEW s, NEW t, NEW R, PassInv(s, R), Grows(s, t), NoNewOwner(s, t, R), JobsOnward(s, t, R),
           FulfilledRight(s, t, R), PairsRight(s, t, R)
    PROVE  PassInv(t, R)
<1> SUFFICES ASSUME NEW p, NEW d, <<p, d>> \in R
             PROVE  Passes(t, R, p, d)
  BY DEF PassInv
<1>1. Passes(s, R, p, d)
  BY DEF PassInv
<1>2. p \in DOMAIN s.prom /\ d \in DOMAIN s.prom /\ p \in DOMAIN t.prom /\ d \in DOMAIN t.prom
  BY <1>1 DEF Passes, Grows
<1>3. ASSUME t.prom[d].state = "fulfilled"
      PROVE  HasOutcome(t, p, 0, t.prom[d].result)
  <2>1. CASE s.prom[d].state = "fulfilled"
    <3>1. HasOutcome(s, p, 0, s.prom[d].result)
      BY <1>1, <2>1 DEF Passes
    <3>2. t.prom[d].result = s.prom[d].result
      BY <1>2, <2>1 DEF Grows, Pending
    <3> QED BY <1>2, <3>1, <3>2, OutcomeKept
  <2>2. CASE s.prom[d].state # "fulfilled"
    BY <1>2, <1>3, <2>2 DEF FulfilledRight
  <2> QED BY <2>1, <2>2
<1>4. ASSUME NEW k \in DOMAIN t.pair, Unused(t, k), t.pair[k].promise = d
      PROVE  Entrusted(t, R, k, p)
  <2>1. CASE k \in DOMAIN s.pair
    <3>1. Unused(s, k) /\ s.pair[k].promise = d
      BY <1>4, <2>1 DEF Grows, Unused
    <3>2. Entrusted(s, R, k, p) /\ ~Free(R, d)
      BY <1>1, <2>1, <3>1 DEF Passes, Free
    <3>3. /\ \A h \in t.held : h \in s.held \/ ~Fulfills(h, k)
          /\ \A c \in DOMAIN t.comb : c \in DOMAIN s.comb \/ t.comb[c].k # k
          /\ \A n \in DOMAIN t.thens : n \in DOMAIN s.thens \/ Bound(t, R, n, k, p)
      BY <2>1, <3>1, <3>2 DEF NoNewOwner
    <3> QED BY <1>2, <3>2, <3>3, EntrustKept
  <2>2. CASE k \notin DOMAIN s.pair
    BY <1>4, <2>2 DEF PairsRight
  <2> QED BY <2>1, <2>2
<1>5. ASSUME NEW i \in DOMAIN t.jobs, Waits(t, i), t.jobs[i].promise = d
      PROVE  Onward(R, p, t.jobs[i].v)
  <2>1. CASE \E j \in DOMAIN s.jobs : s.jobs[j] = t.jobs[i]
    BY <1>1, <1>5, <2>1 DEF Passes, Waits
  <2>2. CASE ~\E j \in DOMAIN s.jobs : s.jobs[j] = t.jobs[i]
    BY <1>5, <2>2 DEF JobsOnward
  <2> QED BY <2>1, <2>2
<1> QED BY <1>2, <1>3, <1>4, <1>5 DEF Passes

\* A pair that was just made is in nobody's hands.
LEMMA FreshEntrusted ==
    ASSUME NEW s, RefInv(s), NEW t, t.held = s.held, t.comb = s.comb, t.thens = s.thens,
           NEW k, k \notin DOMAIN s.pair, k # 0, NEW R, NEW p
    PROVE  Entrusted(t, R, k, p)
<1>1. \A h \in t.held : ~Fulfills(h, k)
  BY DEF RefInv, HeldOK, FunctionOK, Fulfills
<1>2. \A c \in DOMAIN t.comb : t.comb[c].k # k
  BY DEF RefInv, CombOK
<1>3. ASSUME NEW n \in DOMAIN s.thens
      PROVE  s.thens[n].cap # k /\ \A x \in Sides : ~Fulfills(s.thens[n].fns[x], k)
  <2>1. ThenOK(s, n)
    BY <1>3 DEF RefInv
  <2> QED BY SMTT(40), <2>1 DEF ThenOK, FunctionOK, Fulfills
<1> QED BY <1>1, <1>2, <1>3 DEF Entrusted, Bound

-----------------------------------------------------------------------------
\* A step that gives nothing to anybody.
LEMMA SamePass ==
    ASSUME NEW s, NEW t, NEW R, PassInv(s, R), Grows(s, t), SameKept(s, t),
           JobsOnward(s, t, R), FulfilledRight(s, t, R), PairsRight(s, t, R)
    PROVE  PassInv(t, R)
<1>1. NoNewOwner(s, t, R)
  BY DEF NoNewOwner, SameKept
<1> QED BY <1>1, PassFrom

LEMMA CapPass ==
    ASSUME NEW s, NEW t, NEW R, RefInv(s), PassInv(s, R), CapEffect(s, t)
    PROVE  PassInv(t, R)
<1>1. Grows(s, t) /\ SameKept(s, t)
  BY CapRef DEF CapEffect, SameKept
<1>2. JobsOnward(s, t, R)
  BY DEF JobsOnward, CapEffect
<1>3. FulfilledRight(s, t, R)
  BY DEF FulfilledRight, CapEffect, Added
<1>4. PairsRight(s, t, R)
  <2> SUFFICES ASSUME NEW k \in DOMAIN t.pair, k \notin DOMAIN s.pair, NEW p, <<p, t.pair[k].promise>> \in R
               PROVE  FALSE
    BY DEF PairsRight
  <2>1. t.pair[k].promise = Len(s.prom) + 1 /\ Len(s.prom) + 1 \notin DOMAIN s.prom
    BY DEF CapEffect, Added
  <2> QED BY <2>1 DEF PassInv, Passes
<1> QED BY <1>1, <1>2, <1>3, <1>4, SamePass

\* A value that a resolving function may be called with.
MayGive(s, R, k, side, v) ==
    side = 0 /\ Unused(s, k) =>
       \A p : <<p, s.pair[k].promise>> \in R => Onward(R, p, v) \/ HasOutcome(s, p, 0, v)

LEMMA OldPairs ==
    ASSUME NEW s, NEW t, NEW R, DOMAIN t.pair = DOMAIN s.pair
    PROVE  PairsRight(s, t, R)
BY DEF PairsRight

LEMMA FollowPass ==
    ASSUME NEW s, NEW t, NEW R, NEW k \in DOMAIN s.pair, NEW v \in AllValues, RefInv(s), PassInv(s, R),
           FollowEffect(s, t, k, v), ValueOK(s, v), v[1] \in {"prom", "thenable"}, Unused(s, k),
           MayGive(s, R, k, 0, v)
    PROVE  PassInv(t, R)
<1>1. Grows(s, t) /\ SameKept(s, t) /\ PairsRight(s, t, R)
  BY FollowRef, OldPairs DEF FollowEffect, SameKept, Changed
<1>2. FulfilledRight(s, t, R)
  BY DEF FulfilledRight, FollowEffect
<1>3. ASSUME NEW p, <<p, s.pair[k].promise>> \in R
      PROVE  Onward(R, p, v)
  <2>1. p \in DOMAIN s.prom
    BY <1>3 DEF PassInv, Passes
  <2>2. PromiseOK(s, p)
    BY <2>1 DEF RefInv
  <2>3. ~HasOutcome(s, p, 0, v)
    BY <2>2 DEF HasOutcome, PromiseOK, Outcome
  <2> QED BY <1>3, <2>3 DEF MayGive
<1>4. JobsOnward(s, t, R)
  <2> SUFFICES ASSUME NEW i \in DOMAIN t.jobs
               PROVE  \/ \E j \in DOMAIN s.jobs : s.jobs[j] = t.jobs[i]
                      \/ \A p : <<p, t.jobs[i].promise>> \in R => Onward(R, p, t.jobs[i].v)
    BY DEF JobsOnward
  <2>1. CASE i \in DOMAIN s.jobs
    BY <2>1 DEF FollowEffect, Added
  <2>2. CASE i \notin DOMAIN s.jobs
    <3>1. t.jobs[i] = Follow(s.pair[k].promise, v)
      BY <2>2 DEF FollowEffect, Added
    <3>2. t.jobs[i].promise = s.pair[k].promise /\ t.jobs[i].v = v
      BY <3>1 DEF Follow, Entry
    <3> QED BY <1>3, <3>2
  <2> QED BY <2>1, <2>2
<1> QED BY <1>1, <1>2, <1>4, SamePass

LEMMA SettlePass ==
    ASSUME NEW s, NEW t, NEW R, NEW k \in DOMAIN s.pair, NEW side \in Sides, NEW v \in AllValues, RefInv(s),
           PassInv(s, R), Pending(s, s.pair[k].promise), SettleEffect(s, t, k, side, v), Giveable(s, k, v),
           Final(side, v), Unused(s, k), MayGive(s, R, k, side, v)
    PROVE  PassInv(t, R)
<1> DEFINE d == s.pair[k].promise
           rs == s.prom[d].reactions[side]
<1>1. Grows(s, t)
  BY SettleRef
<1>2. SettleFacts(s, t, k, side, v, d, rs)
  BY SettleParts
<1> HIDE DEF d, rs
<1>3. SameKept(s, t) /\ PairsRight(s, t, R)
  BY <1>2, OldPairs DEF SettleFacts, SameKept
<1>4. JobsOnward(s, t, R)
  <2> SUFFICES ASSUME NEW i \in DOMAIN t.jobs, Waits(t, i)
               PROVE  \E j \in DOMAIN s.jobs : s.jobs[j] = t.jobs[i]
    BY DEF JobsOnward
  <2>1. CASE i \in DOMAIN s.jobs
    BY <1>2, <2>1 DEF SettleFacts
  <2>2. CASE i \notin DOMAIN s.jobs
    <3>1. t.jobs[i] = Job(rs[i - Len(s.jobs)], side, v)
      BY <1>2, <2>2 DEF SettleFacts
    <3> QED BY <3>1, JobFields DEF Waits
  <2> QED BY <2>1, <2>2
<1>5. FulfilledRight(s, t, R)
  <2> SUFFICES ASSUME NEW e \in DOMAIN s.prom, t.prom[e].state = "fulfilled", s.prom[e].state # "fulfilled",
                      NEW p, <<p, e>> \in R
               PROVE  HasOutcome(t, p, 0, t.prom[e].result)
    BY DEF FulfilledRight
  <2>1. e = d /\ t.prom[d].state = Outcome(side) /\ t.prom[d].result = v
    BY <1>2 DEF SettleFacts
  <2>2. side = 0
    BY <2>1 DEF Outcome, Sides
  <2>3. Onward(R, p, v) \/ HasOutcome(s, p, 0, v)
    BY <2>1, <2>2 DEF MayGive, d
  <2>4. HasOutcome(s, p, 0, v) /\ p \in DOMAIN s.prom
    BY <2>2, <2>3 DEF Onward, Final, PassInv, Passes
  <2> QED BY <1>1, <2>1, <2>4, OutcomeKept
<1> QED BY <1>1, <1>3, <1>4, <1>5, SamePass

\* Jobs come from the queue, and promises and pairs stay.
LEMMA PlainPass ==
    ASSUME NEW s, NEW t, NEW R, PassInv(s, R), Grows(s, t), t.prom = s.prom, t.pair = s.pair,
           t.comb = s.comb, t.held = s.held, t.thens = s.thens,
           \A i \in DOMAIN t.jobs : Waits(t, i) => \E j \in DOMAIN s.jobs : s.jobs[j] = t.jobs[i]
    PROVE  PassInv(t, R)
<1>1. NoNewOwner(s, t, R) /\ JobsOnward(s, t, R) /\ FulfilledRight(s, t, R) /\ PairsRight(s, t, R)
  BY DEF NoNewOwner, JobsOnward, FulfilledRight, PairsRight
<1> QED BY <1>1, PassFrom

LEMMA CallbackPass ==
    ASSUME NEW s, NEW t, NEW R, RefInv(s), PassInv(s, R), CallbackEffect(s, t)
    PROVE  PassInv(t, R)
<1>1. Grows(s, t)
  BY CallbackRef
<1>2. ASSUME NEW i \in DOMAIN t.jobs, Waits(t, i)
      PROVE  \E j \in DOMAIN s.jobs : s.jobs[j] = t.jobs[i]
  <2>1. CASE i \in DOMAIN s.jobs
    BY <2>1 DEF CallbackEffect, Added
  <2>2. CASE i \notin DOMAIN s.jobs
    BY <1>2, <2>2 DEF CallbackEffect, Added, Waits, Simple, Entry
  <2> QED BY <2>1, <2>2
<1> QED BY <1>1, <1>2, PlainPass DEF CallbackEffect

LEMMA PopPass ==
    ASSUME NEW s, NEW t, NEW R, NEW j, RefInv(s), PassInv(s, R), PopEffect(s, t, j)
    PROVE  PassInv(t, R)
<1>1. Grows(s, t)
  BY PopRef
<1>2. \A i \in DOMAIN t.jobs : \E l \in DOMAIN s.jobs : s.jobs[l] = t.jobs[i]
  BY DEF PopEffect, Shifted
<1> QED BY <1>1, <1>2, PlainPass DEF PopEffect

LEMMA PopPairPass ==
    ASSUME NEW s, NEW t, NEW R, NEW j, RefInv(s), PassInv(s, R), PopPairEffect(s, t, j)
    PROVE  /\ PassInv(t, R)
           /\ \A p : <<p, t.pair[Len(s.pair) + 1].promise>> \in R => Onward(R, p, j.v)
<1>1. Grows(s, t) /\ SameKept(s, t)
  BY PopPairRef DEF PopPairEffect, SameKept
<1>2. JobsOnward(s, t, R) /\ FulfilledRight(s, t, R)
  BY DEF JobsOnward, FulfilledRight, PopPairEffect, Shifted
<1>3. PairsRight(s, t, R)
  <2> SUFFICES ASSUME NEW k \in DOMAIN t.pair, k \notin DOMAIN s.pair, NEW p
               PROVE  Entrusted(t, R, k, p)
    BY DEF PairsRight
  <2>1. k # 0
    BY DEF PopPairEffect, Added
  <2> QED BY <2>1, FreshEntrusted DEF PopPairEffect
<1>4. ASSUME NEW p, <<p, t.pair[Len(s.pair) + 1].promise>> \in R
      PROVE  Onward(R, p, j.v)
  <2>1. t.pair[Len(s.pair) + 1].promise = j.promise
    BY DEF PopPairEffect, Added
  <2>2. Passes(s, R, p, j.promise)
    BY <1>4, <2>1 DEF PassInv
  <2>3. 1 \in DOMAIN s.jobs /\ Waits(s, 1) /\ s.jobs[1] = j
    BY DEF PopPairEffect, Shifted, Waits
  <2> QED BY <2>2, <2>3 DEF Passes
<1> QED BY <1>1, <1>2, <1>3, <1>4, SamePass

LEMMA HeldPass ==
    ASSUME NEW s, NEW t, NEW R, NEW H, RefInv(s), PassInv(s, R), HeldEffect(s, t, H), \A h \in H : HeldOK(s, h),
           \A h \in H, k \in DOMAIN s.pair : Unused(s, k) /\ Fulfills(h, k) => Free(R, s.pair[k].promise)
    PROVE  PassInv(t, R)
<1>1. Grows(s, t)
  BY HeldRef
<1>2. NoNewOwner(s, t, R)
  BY DEF NoNewOwner, HeldEffect, QuietEffect
<1>3. JobsOnward(s, t, R) /\ FulfilledRight(s, t, R) /\ PairsRight(s, t, R)
  BY DEF JobsOnward, FulfilledRight, PairsRight, HeldEffect, QuietEffect
<1> QED BY <1>1, <1>2, <1>3, PassFrom

LEMMA FinalPass ==
    ASSUME NEW s, NEW t, NEW R, NEW f, RefInv(s), PassInv(s, R), FinalEffect(s, t, f)
    PROVE  PassInv(t, R)
<1>1. Grows(s, t)
  BY FinalRef
<1> QED BY <1>1, PlainPass DEF FinalEffect, QuietEffect

LEMMA NewCombPass ==
    ASSUME NEW s, NEW t, NEW R, NEW kind, NEW k \in DOMAIN s.pair, RefInv(s), PassInv(s, R),
           NewCombEffect(s, t, kind, k), Free(R, s.pair[k].promise)
    PROVE  PassInv(t, R)
<1>1. Grows(s, t)
  BY NewCombRef
<1>2. \A c \in DOMAIN t.comb : c \in DOMAIN s.comb \/ t.comb[c].k = k
  BY DEF NewCombEffect, Added
<1>3. NoNewOwner(s, t, R)
  BY <1>2 DEF NoNewOwner, NewCombEffect, QuietEffect
<1>4. JobsOnward(s, t, R) /\ FulfilledRight(s, t, R) /\ PairsRight(s, t, R)
  BY DEF JobsOnward, FulfilledRight, PairsRight, NewCombEffect, QuietEffect
<1> QED BY <1>1, <1>3, <1>4, PassFrom

LEMMA CombPass ==
    ASSUME NEW s, NEW t, NEW R, NEW c, PassInv(s, R), Grows(s, t), CombEffect(s, t, c)
    PROVE  PassInv(t, R)
<1>1. NoNewOwner(s, t, R)
  BY DEF NoNewOwner, CombEffect, QuietEffect, Changed
<1>2. JobsOnward(s, t, R) /\ FulfilledRight(s, t, R) /\ PairsRight(s, t, R)
  BY DEF JobsOnward, FulfilledRight, PairsRight, CombEffect, QuietEffect
<1> QED BY <1>1, <1>2, PassFrom

\* The functions that a then may be called with.
MayTake(s, R, p, fns, cap) ==
    \A k \in DOMAIN s.pair : Unused(s, k) =>
       \A q : <<q, s.pair[k].promise>> \in R =>
          /\ cap # k
          /\ \A x \in Sides : Fulfills(fns[x], k) => x = 0 /\ <<q, p>> \in R

LEMMA ThenPass ==
    ASSUME NEW s, NEW t, NEW R, NEW p \in DOMAIN s.prom, NEW fns \in [Sides -> AllFunctions],
           NEW cap \in {0} \cup DOMAIN s.pair, RefInv(s), PassInv(s, R), ThenEffect(s, t, p, fns, cap),
           \A x \in Sides : FunctionOK(s, fns[x]), MayTake(s, R, p, fns, cap)
    PROVE  PassInv(t, R)
<1>1. Grows(s, t)
  BY ThenRef
<1> DEFINE m == Len(s.thens) + 1
<1>2. ThenFacts(s, t, p, fns, cap, m)
  BY ThenParts
<1>6. s \in States
  BY DEF RefInv
<1> HIDE DEF m
<1>3. NoNewOwner(s, t, R)
  <2>1. ASSUME NEW n \in DOMAIN t.thens, n \notin DOMAIN s.thens, NEW k \in DOMAIN s.pair, Unused(s, k),
               NEW q, <<q, s.pair[k].promise>> \in R
        PROVE  Bound(t, R, n, k, q)
    <3>1. t.thens[n].p = p /\ t.thens[n].fns = fns /\ t.thens[n].cap = cap
      BY <1>2, <2>1 DEF ThenFacts
    <3> QED BY <2>1, <3>1 DEF MayTake, Bound
  <2>2. t.held = s.held /\ t.comb = s.comb
    BY <1>2 DEF ThenFacts
  <2> QED BY <2>1, <2>2 DEF NoNewOwner
<1>4. FulfilledRight(s, t, R) /\ PairsRight(s, t, R)
  BY <1>2 DEF FulfilledRight, PairsRight, ThenFacts
<1>5. JobsOnward(s, t, R)
  <2> SUFFICES ASSUME NEW i \in DOMAIN t.jobs, Waits(t, i)
               PROVE  \E j \in DOMAIN s.jobs : s.jobs[j] = t.jobs[i]
    BY DEF JobsOnward
  <2>1. i \in DOMAIN s.jobs /\ t.jobs[i] = s.jobs[i]
    BY <1>6, ThenJobs DEF Waits
  <2> QED BY <2>1
<1> QED BY <1>1, <1>3, <1>4, <1>5, PassFrom

\* A promise that finally returns, or that its functions wait for, passes on
\* the outcome of q.
LEMMA NewPasses ==
    ASSUME NEW s, NEW c, NEW t, NEW R, RefInv(s), CapEffect(s, c), NEW p \in DOMAIN c.prom, NEW fns,
           ThenEffect(c, t, p, fns, Len(s.pair) + 1), NEW q \in DOMAIN s.prom,
           \/ p = q /\ fns = Both(Finally(0), Finally(1))
           \/ \E side \in Sides, v \in AllValues :
                 fns = Both(Thunk(side, v), NoHandler) /\ HasOutcome(s, q, side, v)
    PROVE  Passes(t, R, q, Len(s.prom) + 1)
<1> DEFINE k == Len(s.pair) + 1
           d == Len(s.prom) + 1
           m == Len(c.thens) + 1
<1>1. /\ k \notin DOMAIN s.pair /\ k # 0 /\ d \notin DOMAIN s.prom /\ d \in DOMAIN c.prom
      /\ c.prom[d].state = "pending" /\ c.prom[q] = s.prom[q] /\ q \in DOMAIN c.prom
      /\ \A l \in DOMAIN c.pair : l = k \/ (l \in DOMAIN s.pair /\ c.pair[l] = s.pair[l])
      /\ c.jobs = s.jobs /\ c.held = s.held /\ c.comb = s.comb /\ c.thens = s.thens
  BY DEF CapEffect, Added, Fresh
<1>2. ThenFacts(c, t, p, fns, k, m)
  BY ThenParts
<1>3. \A i \in DOMAIN t.jobs : Waits(t, i) => i \in DOMAIN s.jobs /\ t.jobs[i] = s.jobs[i]
  <2>1. c \in States
    BY DEF CapEffect
  <2> QED BY <1>1, <2>1, ThenJobs DEF Waits
<1>4. Entrusted(c, R, k, q)
  BY <1>1, FreshEntrusted
<1> HIDE DEF k, d, m
<1>5. \A i \in DOMAIN s.jobs : s.jobs[i].job = "thenable" => s.jobs[i].promise # d
  BY <1>1 DEF RefInv, QueuedOK, JobOK
<1>6. \A l \in DOMAIN s.pair : s.pair[l].promise # d
  BY <1>1 DEF RefInv
<1>7. Entrusted(t, R, k, q)
  <2>1. Bound(t, R, m, k, q)
    <3>1. Forwards(t, m, q)
      BY <1>1, <1>2 DEF Forwards, HasOutcome, ThenFacts
    <3>2. \A x \in Sides : ~Fulfills(fns[x], k)
      <4>1. \A x \in Sides : fns[x].fn \in {"finally", "thunk", "undefined"}
        BY BothIs, FunctionFields
      <4> QED BY <4>1 DEF Fulfills
    <3> QED BY <1>2, <3>1, <3>2 DEF Bound, ThenFacts
  <2>2. ASSUME NEW n \in DOMAIN c.thens
        PROVE  Bound(t, R, n, k, q)
    <3>1. t.thens[n] = s.thens[n] /\ n \in DOMAIN s.thens
      BY <1>1, <1>2 DEF ThenFacts
    <3>2. ThenOK(s, n)
      BY <3>1 DEF RefInv
    <3> QED BY SMTT(40), <1>1, <3>1, <3>2 DEF Bound, ThenOK, FunctionOK, Fulfills
  <2> QED BY <1>2, <1>4, <2>1, <2>2 DEF Entrusted, ThenFacts
<1>8. t.pair = c.pair /\ DOMAIN t.prom = DOMAIN c.prom /\ t.prom[d].state = "pending"
  BY <1>1, <1>2 DEF ThenFacts
<1>9. Passes(t, R, q, d)
  BY <1>1, <1>3, <1>5, <1>6, <1>7, <1>8 DEF Passes, Waits, Unused
<1> QED BY <1>9 DEF d

LEMMA PassMore ==
    ASSUME NEW s, NEW R, PassInv(s, R), NEW p, NEW d, Passes(s, R, p, d)
    PROVE  PassInv(s, R \cup {<<p, d>>})
<1> DEFINE S == R \cup {<<p, d>>}
<1>1. \A q, e, x : <<q, e>> \in R => <<q, e>> \in S
  OBVIOUS
<1>2. \A q, e : <<q, e>> \in S => <<q, e>> \in R \/ (q = p /\ e = d)
  OBVIOUS
<1> HIDE DEF S
<1>3. \A k, q : Entrusted(s, R, k, q) => Entrusted(s, S, k, q)
  BY <1>1 DEF Entrusted, Bound
<1>4. \A q, v : Onward(R, q, v) => Onward(S, q, v)
  BY <1>1 DEF Onward
<1>5. \A q, e : Passes(s, R, q, e) => Passes(s, S, q, e)
  BY <1>3, <1>4 DEF Passes
<1>6. PassInv(s, S)
  BY <1>2, <1>5 DEF PassInv
<1> QED BY <1>6 DEF S

-----------------------------------------------------------------------------
\* What the answers of the items need of a step that changes no combinator.
ResultsRight(s, t) ==
    \A p \in DOMAIN t.prom :
       \/ p \in DOMAIN s.prom /\ t.prom[p].result = s.prom[p].result
       \/ \A c \in DOMAIN s.comb : ArrayOf(c, t.prom[p].result) => Covered(s, c)

LEMMA AnswerFrom ==
    ASSUME NEW s, NEW t, RefInv(s), AnswerInv(s), Grows(s, t), t.comb = s.comb, ResultsRight(s, t),
           \A n \in DOMAIN t.thens, x \in Sides : n \in DOMAIN s.thens \/ AtHome(t, n, x),
           \A h \in t.held : h \in s.held \/ GivenAway(t, h)
    PROVE  AnswerInv(t)
<1>1. ValueInv(t)
  <2> SUFFICES ASSUME NEW c \in DOMAIN s.comb, NEW x \in Sides, NEW n \in DOMAIN s.comb[c].items,
                      <<n, x>> \in s.comb[c].called
               PROVE  Answered(t, c, n, x)
    BY DEF ValueInv
  <2>1. Answered(s, c, n, x)
    BY DEF AnswerInv, ValueInv
  <2>2. s.comb[c].items[n].p \in DOMAIN s.prom
    BY DEF RefInv, CombOK
  <2> QED BY <2>1, <2>2, OutcomeKept DEF Answered
<1>2. ResultInv(t)
  <2>1. \A c : Covered(t, c) <=> Covered(s, c)
    BY DEF Covered, AnsweredTwice
  <2> QED BY <2>1 DEF AnswerInv, ResultInv, ResultsRight
<1>3. HomeInv(t)
  <2>1. ASSUME NEW n \in DOMAIN s.thens, NEW x \in Sides
        PROVE  AtHome(t, n, x)
    <3>1. AtHome(s, n, x) /\ t.thens[n] = s.thens[n]
      BY <2>1 DEF AnswerInv, HomeInv, Grows
    <3> QED BY ZenonT(60), <3>1 DEF AtHome
  <2>2. \A h \in s.held : GivenAway(t, h)
    BY DEF AnswerInv, HomeInv, GivenAway
  <2> QED BY <2>1, <2>2 DEF HomeInv
<1> QED BY <1>1, <1>2, <1>3 DEF AnswerInv

LEMMA SameAnswers ==
    ASSUME NEW s, NEW t, RefInv(s), AnswerInv(s), Grows(s, t), SameKept(s, t), ResultsRight(s, t)
    PROVE  AnswerInv(t)
BY AnswerFrom DEF SameKept

LEMMA CapAnswers ==
    ASSUME NEW s, NEW t, RefInv(s), AnswerInv(s), CapEffect(s, t)
    PROVE  AnswerInv(t)
<1>1. Grows(s, t) /\ SameKept(s, t)
  BY CapRef DEF CapEffect, SameKept
<1>2. \A p \in DOMAIN t.prom : (p \in DOMAIN s.prom /\ t.prom[p] = s.prom[p]) \/ t.prom[p].result = Undefined
  BY DEF CapEffect, Added, Fresh
<1>3. \A c : ~ArrayOf(c, Undefined)
  BY DEF ArrayOf, Undefined
<1> QED BY <1>1, <1>2, <1>3, SameAnswers DEF ResultsRight

\* Steps that settle nothing.
LEMMA PlainAnswers ==
    ASSUME NEW s, NEW t, RefInv(s), AnswerInv(s), Grows(s, t), t.prom = s.prom, t.comb = s.comb,
           t.held = s.held, t.thens = s.thens
    PROVE  AnswerInv(t)
BY AnswerFrom DEF ResultsRight

LEMMA SettleAnswers ==
    ASSUME NEW s, NEW t, NEW k \in DOMAIN s.pair, NEW side \in Sides, NEW v \in AllValues, RefInv(s),
           AnswerInv(s), Pending(s, s.pair[k].promise), SettleEffect(s, t, k, side, v), Giveable(s, k, v),
           Final(side, v), ValueOK(s, v) \/ Covered(s, v[2])
    PROVE  AnswerInv(t)
<1> DEFINE d == s.pair[k].promise
           rs == s.prom[d].reactions[side]
<1>1. Grows(s, t)
  BY SettleRef
<1>2. SettleFacts(s, t, k, side, v, d, rs)
  BY SettleParts
<1> HIDE DEF d, rs
<1>3. SameKept(s, t)
  BY <1>2 DEF SettleFacts, SameKept
<1>4. ASSUME NEW c \in DOMAIN s.comb, ArrayOf(c, v)
      PROVE  Covered(s, c)
  <2>1. v[2] = c /\ v[1] \in {"array", "aggregate"}
    BY <1>4 DEF ArrayOf
  <2>2. CASE ValueOK(s, v)
    <3>1. s.pair[s.comb[c].k].promise \in DOMAIN s.prom
      BY DEF RefInv, CombOK
    <3>2. s.prom[s.pair[s.comb[c].k].promise].result = v
      BY <2>1, <2>2 DEF ValueOK
    <3> QED BY <1>4, <3>1, <3>2 DEF AnswerInv, ResultInv
  <2> QED BY <2>1, <2>2
<1>5. \A p \in DOMAIN t.prom : (p \in DOMAIN s.prom /\ t.prom[p] = s.prom[p]) \/ t.prom[p].result = v
  BY <1>2 DEF SettleFacts
<1>6. ResultsRight(s, t)
  BY <1>4, <1>5 DEF ResultsRight
<1> QED BY <1>1, <1>3, <1>6, SameAnswers

LEMMA ThenAnswers ==
    ASSUME NEW s, NEW t, NEW p \in DOMAIN s.prom, NEW fns \in [Sides -> AllFunctions],
           NEW cap \in {0} \cup DOMAIN s.pair, RefInv(s), AnswerInv(s), ThenEffect(s, t, p, fns, cap),
           \A x \in Sides : FunctionOK(s, fns[x]),
           \A x \in Sides : fns[x].fn = "element" =>
              fns[x].side = x /\ s.comb[fns[x].k].items[fns[x].n].p = p
    PROVE  AnswerInv(t)
<1>1. Grows(s, t)
  BY ThenRef
<1>2. ThenFacts(s, t, p, fns, cap, Len(s.thens) + 1)
  BY ThenParts
<1>3. t.comb = s.comb /\ t.held = s.held /\ ResultsRight(s, t)
  BY <1>2 DEF ThenFacts, ResultsRight
<1>4. \A n \in DOMAIN t.thens : n \in DOMAIN s.thens \/ (t.thens[n].p = p /\ t.thens[n].fns = fns)
  BY <1>2 DEF ThenFacts
<1>5. \A n \in DOMAIN t.thens, x \in Sides : n \in DOMAIN s.thens \/ AtHome(t, n, x)
  BY ZenonT(60), <1>3, <1>4 DEF AtHome
<1> QED BY <1>1, <1>3, <1>5, AnswerFrom

LEMMA HeldAnswers ==
    ASSUME NEW s, NEW t, NEW H, RefInv(s), AnswerInv(s), HeldEffect(s, t, H), \A h \in H : HeldOK(s, h),
           \A h \in H : GivenAway(s, h)
    PROVE  AnswerInv(t)
<1>1. Grows(s, t)
  BY HeldRef
<1>2. t.prom = s.prom /\ t.comb = s.comb /\ t.thens = s.thens /\ t.held = s.held \cup H
  BY DEF HeldEffect, QuietEffect
<1>3. \A h \in t.held : h \in s.held \/ GivenAway(t, h)
  BY <1>2 DEF GivenAway
<1> QED BY <1>1, <1>2, <1>3, AnswerFrom DEF ResultsRight

-----------------------------------------------------------------------------
\* A step that changes one combinator.
LEMMA AnswerComb ==
    ASSUME NEW s, NEW t, NEW c \in DOMAIN s.comb, RefInv(s), AnswerInv(s), CombEffect(s, t, c), Grows(s, t),
           \A n \in DOMAIN s.comb[c].items : t.comb[c].items[n] = s.comb[c].items[n],
           \A n \in DOMAIN t.comb[c].items, x \in Sides : <<n, x>> \in t.comb[c].called => Answered(t, c, n, x),
           Covered(s, c) => Covered(t, c)
    PROVE  AnswerInv(t)
<1>1. /\ t.prom = s.prom /\ t.thens = s.thens /\ t.held = s.held /\ DOMAIN t.comb = DOMAIN s.comb
      /\ \A d \in DOMAIN s.comb : d # c => t.comb[d] = s.comb[d]
  BY DEF CombEffect, QuietEffect, Changed
<1>2. \A d \in DOMAIN s.comb : \A n \in DOMAIN s.comb[d].items : t.comb[d].items[n] = s.comb[d].items[n]
  BY <1>1
<1>3. ValueInv(t)
  <2> SUFFICES ASSUME NEW d \in DOMAIN s.comb, d # c, NEW x \in Sides, NEW n \in DOMAIN s.comb[d].items,
                      <<n, x>> \in s.comb[d].called
               PROVE  Answered(t, d, n, x)
    BY <1>1 DEF ValueInv
  <2>1. Answered(s, d, n, x) /\ t.comb[d] = s.comb[d]
    BY <1>1 DEF AnswerInv, ValueInv
  <2> QED BY <1>1, <2>1 DEF Answered, HasOutcome
<1>4. ResultInv(t)
  <2>1. \A d \in DOMAIN s.comb : d # c => (Covered(s, d) => Covered(t, d))
    BY <1>1 DEF Covered, AnsweredTwice
  <2> QED BY <1>1, <2>1 DEF AnswerInv, ResultInv
<1>5. ASSUME NEW n \in DOMAIN s.thens, NEW x \in Sides
      PROVE  AtHome(t, n, x)
  <2>1. AtHome(s, n, x) /\ ThenOK(s, n)
    BY DEF AnswerInv, HomeInv, RefInv
  <2>2. FunctionOK(s, s.thens[n].fns[x])
    BY <2>1 DEF ThenOK
  <2> DEFINE h == s.thens[n].fns[x]
  <2>3. h.fn = "element" => h.side = x /\ s.comb[h.k].items[h.n].p = s.thens[n].p
    BY ZenonT(60), <2>1 DEF AtHome
  <2>4. h.fn = "element" => t.comb[h.k].items[h.n] = s.comb[h.k].items[h.n]
    BY ZenonT(60), <1>2, <2>2 DEF FunctionOK
  <2>5. t.thens[n].fns[x] = h /\ t.thens[n].p = s.thens[n].p
    BY <1>1
  <2> HIDE DEF h
  <2> QED BY <2>3, <2>4, <2>5 DEF AtHome
<1>6. ASSUME NEW h \in s.held
      PROVE  GivenAway(t, h)
  <2>1. GivenAway(s, h) /\ FunctionOK(s, h)
    BY DEF AnswerInv, HomeInv, RefInv, HeldOK
  <2> QED BY <1>2, <2>1 DEF GivenAway, FunctionOK
<1>7. HomeInv(t)
  BY <1>1, <1>5, <1>6 DEF HomeInv
<1> QED BY <1>3, <1>4, <1>7 DEF AnswerInv

\* One more item: the loop is open, so that the array is not due yet.
LEMMA CountAnswers ==
    ASSUME NEW s, NEW t, NEW c \in DOMAIN s.comb, NEW p \in DOMAIN s.prom, NEW native, RefInv(s), AnswerInv(s),
           CountEffect(s, t, c, p, native), s.comb[c].open
    PROVE  AnswerInv(t)
<1>1. Grows(s, t) /\ CombEffect(s, t, c)
  BY CountRef DEF CountEffect
<1>2. /\ t.comb[c].called = s.comb[c].called /\ t.prom = s.prom /\ CombOK(s, c)
      /\ \A n \in DOMAIN s.comb[c].items : n \in DOMAIN t.comb[c].items /\ t.comb[c].items[n] = s.comb[c].items[n]
      /\ \A n \in DOMAIN s.comb[c].values : t.comb[c].values[n] = s.comb[c].values[n]
  BY DEF CountEffect, CombEffect, QuietEffect, Added, RefInv
<1>3. ASSUME NEW n \in DOMAIN t.comb[c].items, NEW x \in Sides, <<n, x>> \in t.comb[c].called
      PROVE  Answered(t, c, n, x)
  <2>1. n \in DOMAIN s.comb[c].items /\ n \in DOMAIN s.comb[c].values
    BY <1>2, <1>3 DEF CombOK
  <2>2. Answered(s, c, n, x)
    BY <1>2, <1>3, <2>1 DEF AnswerInv, ValueInv
  <2> QED BY <1>2, <2>1, <2>2 DEF Answered, HasOutcome
<1>4. Covered(s, c) => Covered(t, c)
  BY <1>2 DEF Covered, AnsweredTwice
<1> QED BY <1>1, <1>2, <1>3, <1>4, AnswerComb

LEMMA EndAnswers ==
    ASSUME NEW s, NEW t, NEW c \in DOMAIN s.comb, NEW r, RefInv(s), AnswerInv(s), EndEffect(s, t, c, r)
    PROVE  AnswerInv(t)
<1>1. Grows(s, t) /\ CombEffect(s, t, c)
  BY EndRef DEF EndEffect
<1>2. /\ t.comb[c].called = s.comb[c].called /\ t.comb[c].items = s.comb[c].items
      /\ t.comb[c].values = s.comb[c].values /\ t.comb[c].open = FALSE /\ t.prom = s.prom
  BY DEF EndEffect, CombEffect, QuietEffect
<1>3. ASSUME NEW n \in DOMAIN t.comb[c].items, NEW x \in Sides, <<n, x>> \in t.comb[c].called
      PROVE  Answered(t, c, n, x)
  <2>1. Answered(s, c, n, x)
    BY <1>2, <1>3 DEF AnswerInv, ValueInv
  <2> QED BY <1>2, <2>1 DEF Answered, HasOutcome
<1>4. Covered(s, c) => Covered(t, c)
  BY <1>2 DEF Covered, AnsweredTwice
<1> QED BY <1>1, <1>2, <1>3, <1>4, AnswerComb

\* An item answers with the outcome of its promise, or its then is a script's.
LEMMA AnswerAnswers ==
    ASSUME NEW s, NEW t, NEW c \in DOMAIN s.comb, NEW n \in DOMAIN s.comb[c].items, NEW side \in Sides, NEW v,
           RefInv(s), AnswerInv(s), s.comb[c].kind # "race", AnswerEffect(s, t, c, n, side, v),
           s.comb[c].items[n].native => HasOutcome(s, s.comb[c].items[n].p, side, v)
    PROVE  AnswerInv(t)
<1>1. Grows(s, t) /\ CombEffect(s, t, c)
  BY AnswerRef DEF AnswerEffect
<1>2. /\ t.comb[c].called = s.comb[c].called \cup {<<n, side>>} /\ t.comb[c].items = s.comb[c].items
      /\ t.comb[c].open = s.comb[c].open /\ t.prom = s.prom /\ CombOK(s, c)
      /\ t.comb[c].values[n] = [side |-> side, v |-> v]
      /\ \A m \in DOMAIN s.comb[c].values : m # n => t.comb[c].values[m] = s.comb[c].values[m]
  BY DEF AnswerEffect, CombEffect, QuietEffect, Changed, RefInv
<1>3. ASSUME NEW m \in DOMAIN s.comb[c].items, NEW x \in Sides, <<m, x>> \in t.comb[c].called
      PROVE  Answered(t, c, m, x)
  <2>1. CASE m # n
    <3>1. <<m, x>> \in s.comb[c].called /\ m \in DOMAIN s.comb[c].values
      BY <1>2, <1>3, <2>1 DEF CombOK
    <3>2. Answered(s, c, m, x)
      BY <3>1 DEF AnswerInv, ValueInv
    <3> QED BY <1>2, <2>1, <3>1, <3>2 DEF Answered, HasOutcome
  <2>2. CASE m = n
    <3>1. t.comb[c].values[n].side = side /\ t.comb[c].values[n].v = v
      BY <1>2
    <3>2. t.comb[c].values[n] # Hole
      BY <3>1 DEF Hole, Sides
    <3>3. ASSUME s.comb[c].items[n].native
          PROVE  x = side
      <4>1. HasOutcome(s, s.comb[c].items[n].p, side, v)
        BY <3>3
      <4>2. CASE <<n, x>> \in s.comb[c].called
        <5>1. Answered(s, c, n, x)
          BY <4>2 DEF AnswerInv, ValueInv
        <5>2. Outcome(x) = Outcome(side)
          BY <3>3, <4>1, <5>1 DEF Answered, HasOutcome
        <5> QED BY <5>2 DEF Outcome, Sides
      <4>3. CASE <<n, x>> \notin s.comb[c].called
        BY <1>2, <1>3, <2>2, <4>3
      <4> QED BY <4>2, <4>3
    <3>4. s.comb[c].items[n].native => HasOutcome(t, s.comb[c].items[n].p, side, v)
      BY <1>2 DEF HasOutcome
    <3> QED BY <1>2, <2>2, <3>1, <3>2, <3>3, <3>4 DEF Answered
  <2> QED BY <2>1, <2>2
<1>4. Covered(s, c) => Covered(t, c)
  BY <1>2 DEF Covered, AnsweredTwice
<1> QED BY <1>1, <1>2, <1>3, <1>4, AnswerComb

LEMMA NewCombAnswers ==
    ASSUME NEW s, NEW t, NEW kind, NEW k \in DOMAIN s.pair, RefInv(s), AnswerInv(s), NewCombEffect(s, t, kind, k)
    PROVE  AnswerInv(t)
<1> DEFINE m == Len(s.comb) + 1
<1>1. /\ t.prom = s.prom /\ t.thens = s.thens /\ t.held = s.held
      /\ m \notin DOMAIN s.comb /\ \A d \in DOMAIN t.comb : d = m \/ d \in DOMAIN s.comb
      /\ \A d \in DOMAIN s.comb : t.comb[d] = s.comb[d]
      /\ t.comb[m].called = {}
  BY DEF NewCombEffect, QuietEffect, Added
<1> HIDE DEF m
<1>2. ValueInv(t)
  <2> SUFFICES ASSUME NEW d \in DOMAIN s.comb, NEW x \in Sides, NEW n \in DOMAIN s.comb[d].items,
                      <<n, x>> \in s.comb[d].called
               PROVE  Answered(t, d, n, x)
    BY <1>1 DEF ValueInv
  <2>1. Answered(s, d, n, x) /\ t.comb[d] = s.comb[d]
    BY <1>1 DEF AnswerInv, ValueInv
  <2> QED BY <1>1, <2>1 DEF Answered, HasOutcome
<1>3. ResultInv(t)
  <2>1. \A d \in DOMAIN s.comb : Covered(s, d) => Covered(t, d)
    BY <1>1 DEF Covered, AnsweredTwice
  <2>2. ASSUME NEW p \in DOMAIN s.prom, ArrayOf(m, s.prom[p].result)
        PROVE  FALSE
    <3>1. ValueOK(s, s.prom[p].result)
      BY DEF RefInv, PromiseOK
    <3> DEFINE v == s.prom[p].result
    <3>2. v[1] \in {"array", "aggregate"} /\ v[2] = m
      BY <2>2 DEF ArrayOf
    <3> HIDE DEF v
    <3>3. ValueOK(s, v)
      BY <3>1 DEF v
    <3> QED BY <1>1, <3>2, <3>3 DEF ValueOK
  <2> QED BY <1>1, <2>1, <2>2 DEF AnswerInv, ResultInv
<1>4. ASSUME NEW n \in DOMAIN s.thens, NEW x \in Sides
      PROVE  AtHome(t, n, x)
  <2>1. AtHome(s, n, x) /\ ThenOK(s, n)
    BY DEF AnswerInv, HomeInv, RefInv
  <2>2. FunctionOK(s, s.thens[n].fns[x])
    BY <2>1 DEF ThenOK
  <2> QED BY ZenonT(60), <1>1, <2>1, <2>2 DEF AtHome, FunctionOK
<1>5. ASSUME NEW h \in s.held
      PROVE  GivenAway(t, h)
  <2>1. GivenAway(s, h) /\ FunctionOK(s, h)
    BY DEF AnswerInv, HomeInv, RefInv, HeldOK
  <2> QED BY <1>1, <2>1 DEF GivenAway, FunctionOK
<1>6. HomeInv(t)
  BY <1>1, <1>4, <1>5 DEF HomeInv
<1> QED BY <1>2, <1>3, <1>6 DEF AnswerInv

\* As many answers as items, and one more if the loop is open: every item has
\* answered, or one has answered twice.
LEMMA Covers ==
    ASSUME NEW s, RefInv(s), NEW c \in DOMAIN s.comb,
           Cardinality(s.comb[c].called) >= Len(s.comb[c].items) + (IF s.comb[c].open THEN 1 ELSE 0)
    PROVE  Covered(s, c)
<1> DEFINE T == s.comb[c].called
           m == Len(s.comb[c].items)
           f == [e \in T |-> e[1]]
<1>1. m \in Nat /\ DOMAIN s.comb[c].items = 1..m /\ IsFiniteSet(T) /\ Cardinality(T) \in Nat
  BY CountedSets
<1>2. IsFiniteSet(1..m) /\ Cardinality(1..m) = m
  <2>1. 1 \in Int /\ m \in Int
    BY <1>1
  <2>2. IsFiniteSet(1..m) /\ Cardinality(1..m) = IF 1 > m THEN 0 ELSE m - 1 + 1
    BY <2>1, FS_Interval
  <2> QED BY <1>1, <2>2
<1>3. T \subseteq (1..m) \X Sides
  BY <1>1 DEF RefInv, CombOK
<1>4. Cardinality(T) >= m + (IF s.comb[c].open THEN 1 ELSE 0)
  OBVIOUS
<1> HIDE DEF T, m
<1>5. ASSUME NEW S, IsFiniteSet(S), Cardinality(S) < Cardinality(T), \A e \in T : e[1] \in S
      PROVE  AnsweredTwice(s, c)
  <2>1. f \in [T -> S]
    BY <1>5
  <2>2. \A e \in T : f[e] = e[1]
    OBVIOUS
  <2> HIDE DEF f
  <2>3. PICK a \in T, b \in T : a # b /\ f[a] = f[b]
    BY <1>1, <1>5, <2>1, FS_PigeonHole
  <2>4. PICK n \in 1..m, x \in Sides, y \in Sides : a = <<n, x>> /\ b = <<n, y>> /\ x # y
    BY <1>3, <2>2, <2>3
  <2>5. (x = 0 /\ y = 1) \/ (x = 1 /\ y = 0)
    BY <2>4 DEF Sides
  <2> QED BY <1>1, <2>4, <2>5 DEF AnsweredTwice, T
<1>6. CASE s.comb[c].open
  <2>1. Cardinality(1..m) < Cardinality(T) /\ \A e \in T : e[1] \in 1..m
    BY <1>1, <1>2, <1>3, <1>4, <1>6
  <2> QED BY <1>2, <1>5, <2>1 DEF Covered
<1>7. CASE ~s.comb[c].open /\ \E n \in 1..m : \A x \in Sides : <<n, x>> \notin T
  <2>1. PICK n \in 1..m : \A x \in Sides : <<n, x>> \notin T
    BY <1>7
  <2> DEFINE S == (1..m) \ {n}
  <2>2. IsFiniteSet(S) /\ Cardinality(S) = m - 1
    BY <1>2, FS_RemoveElement
  <2>3. \A e \in T : e[1] \in S
    BY <1>3, <2>1
  <2> HIDE DEF S
  <2>4. Cardinality(S) < Cardinality(T)
    BY <1>1, <1>4, <1>7, <2>2
  <2> QED BY <1>5, <2>2, <2>3, <2>4 DEF Covered
<1>8. CASE ~s.comb[c].open /\ ~\E n \in 1..m : \A x \in Sides : <<n, x>> \notin T
  BY <1>1, <1>8 DEF Covered, T
<1> QED BY <1>6, <1>7, <1>8

-----------------------------------------------------------------------------
(***************************************************************************)
(* The calls pass outcomes on.                                             *)
(***************************************************************************)
\* What the calls need of a state: who has what does not matter here, so that
\* everything may be about to be given away.
Sound(s) == CoreInv(s) /\ WayInv(s)
AnyPair == Nat
AnyItem == Nat \X Nat
LEMMA SoundGood ==
    ASSUME NEW s, Sound(s)
    PROVE  Good(s, AnyPair, AnyItem, {})
<1>1. RefInv(s) /\ s \in States
  BY DEF Sound, CoreInv, RefInv
<1>2. PairInv(s, AnyPair, {})
  BY <1>1, Elements DEF PairInv, AnyPair
<1>3. CombInv(s, AnyItem, {})
  <2> SUFFICES ASSUME NEW c \in DOMAIN s.comb
               PROVE  <<c, 0>> \in AnyItem /\ \A n \in DOMAIN s.comb[c].items : <<c, n>> \in AnyItem
    BY DEF CombInv
  <2>1. c \in Nat /\ \A n \in DOMAIN s.comb[c].items : n \in Nat
    BY <1>1, Elements, CountedSets
  <2> QED BY <2>1 DEF AnyItem
<1> QED BY <1>2, <1>3 DEF Good, KeepInv, Sound

LEMMA GoodSound ==
    ASSUME NEW s, NEW X, NEW Y, NEW Z, Good(s, X, Y, Z)
    PROVE  Sound(s)
BY DEF Good, KeepInv, Sound

Passed(s, R) == Sound(s) /\ PassInv(s, R) /\ AnswerInv(s)

\* js_new_promise_capability
LEMMA CapabilityPassed ==
    ASSUME NEW s, NEW R, Passed(s, R), NEW t, t = NewCapability(s)
    PROVE  /\ Passed(t, R) /\ Grows(s, t) /\ SameKept(s, t) /\ CapEffect(s, t)
           /\ Len(t.pair) \in DOMAIN t.pair /\ Len(t.pair) \notin DOMAIN s.pair
           /\ Len(t.pair) = Len(s.pair) + 1 /\ Len(t.prom) = Len(s.prom) + 1
           /\ Len(t.prom) \in DOMAIN t.prom /\ t.finals = s.finals
           /\ Free(R, t.pair[Len(t.pair)].promise)
           /\ \A k \in DOMAIN t.pair : k = Len(t.pair) \/ (k \in DOMAIN s.pair /\ t.pair[k] = s.pair[k])
<1>1. RefInv(s) /\ PassInv(s, R) /\ AnswerInv(s) /\ Sound(s) /\ s \in States
  BY DEF Passed, Sound, CoreInv, RefInv
<1> DEFINE X == AnyPair
           Y == AnyItem
           Z == {}
<1>2. Good(s, X, Y, Z)
  BY <1>1, SoundGood
<1> HIDE DEF X, Y, Z
<1>3. Good(t, X \cup {Len(t.pair)}, Y, Z)
  BY <1>2, CapabilityGood
<1>4. /\ Grows(s, t) /\ SameKept(s, t) /\ t.finals = s.finals
      /\ Len(t.pair) \in DOMAIN t.pair /\ Len(t.pair) \notin DOMAIN s.pair
      /\ Len(t.prom) = Len(s.prom) + 1 /\ Len(t.prom) \in DOMAIN t.prom
      /\ Len(t.prom) \notin DOMAIN s.prom /\ t.pair[Len(t.pair)].promise = Len(t.prom)
  BY <1>2, CapabilityGood, ZenonT(60)
<1>5. CapEffect(s, t) /\ Len(t.pair) = Len(s.pair) + 1
  BY <1>1, NewCapabilityIs
<1>6. PassInv(t, R) /\ AnswerInv(t)
  BY <1>1, <1>5, CapPass, CapAnswers
<1>7. Sound(t)
  BY <1>3, GoodSound
<1>8. Free(R, t.pair[Len(t.pair)].promise)
  BY <1>1, <1>4 DEF Free, PassInv, Passes
<1>9. \A k \in DOMAIN t.pair : k = Len(t.pair) \/ (k \in DOMAIN s.pair /\ t.pair[k] = s.pair[k])
  BY <1>5 DEF CapEffect, Added
<1> QED BY <1>4, <1>5, <1>6, <1>7, <1>8, <1>9 DEF Passed

\* The array of a combinator is given when it is due.
Due(s, k, v) == Giveable(s, k, v) /\ (Unused(s, k) => ValueOK(s, v) \/ Covered(s, v[2]))

\* js_promise_resolve_function_call
LEMMA ResolvingPassed ==
    ASSUME NEW s, NEW R, Passed(s, R), NEW k \in DOMAIN s.pair, NEW side \in Sides, NEW v \in AllValues,
           Due(s, k, v), MayGive(s, R, k, side, v), NEW t, t = CallResolving(s, k, side, v)
    PROVE  /\ Passed(t, R) /\ Grows(s, t) /\ SameKept(s, t) /\ t.finals = s.finals
           /\ DOMAIN t.prom = DOMAIN s.prom
<1>1. RefInv(s) /\ SettleInv(s) /\ PassInv(s, R) /\ AnswerInv(s) /\ Sound(s) /\ s \in States /\ Giveable(s, k, v)
  BY DEF Passed, Sound, CoreInv, RefInv, Due
<1> DEFINE X == AnyPair
           Y == AnyItem
           Z == {}
<1>2. Good(s, X, Y, Z)
  BY <1>1, SoundGood
<1> HIDE DEF X, Y, Z
<1>3. UsesUp(s, k, X, X, Y, Y)
  BY DEF UsesUp
<1>4. Good(t, X, Y, Z) /\ Grows(s, t) /\ SameKept(s, t) /\ t.finals = s.finals /\ DOMAIN t.prom = DOMAIN s.prom
  BY <1>1, <1>2, <1>3, ResolvingGood
<1>5. Sound(t)
  BY <1>4, GoodSound
<1>6. Resolvable(s, k, side, v)
  BY <1>1 DEF Resolvable, RefInv, SettleInv, Unused
<1>7. CASE s.pair[k].done /\ t = s
  BY <1>4, <1>7
<1>8. CASE ~s.pair[k].done /\ Follows(s, k, side, v) /\ FollowEffect(s, t, k, v)
  <2>1. ValueOK(s, v) /\ v[1] \in {"prom", "thenable"} /\ Unused(s, k) /\ side = 0
    BY <1>1, <1>8 DEF Follows, Giveable, Unused
  <2>2. PassInv(t, R)
    BY <1>1, <1>8, <2>1, FollowPass
  <2>3. t.prom = s.prom /\ t.comb = s.comb /\ t.held = s.held /\ t.thens = s.thens
    BY <1>8 DEF FollowEffect
  <2>4. AnswerInv(t)
    BY <1>1, <1>4, <2>3, PlainAnswers
  <2> QED BY <1>4, <1>5, <2>2, <2>4 DEF Passed
<1>9. CASE ~s.pair[k].done /\ \E side2 \in Sides, w \in AllValues :
                 SettledAs(s, k, side, v, side2, w) /\ SettleEffect(s, t, k, side2, w)
  <2>1. PICK side2 \in Sides, w \in AllValues :
                 SettledAs(s, k, side, v, side2, w) /\ SettleEffect(s, t, k, side2, w)
    BY <1>9
  <2>2. Unused(s, k) /\ Pending(s, s.pair[k].promise)
    BY <1>1, <1>9 DEF SettleInv, Unused
  <2>3. /\ Giveable(s, k, w) /\ Final(side2, w) /\ MayGive(s, R, k, side2, w)
        /\ ValueOK(s, w) \/ Covered(s, w[2])
    <3>1. ValueOK(s, TypeError)
      BY DEF TypeError, ValueOK
    <3>2. CASE side2 = side /\ w = v /\ (side = 0 => v[1] \notin {"prom", "thenable", "broken"})
      BY <1>1, <2>2, <3>2 DEF Final, Due
    <3>3. CASE side2 = 1 /\ w = TypeError
      BY <3>1, <3>3 DEF Final, Giveable, MayGive
    <3> QED BY <2>1, <3>2, <3>3 DEF SettledAs
  <2>4. PassInv(t, R)
    BY <1>1, <2>1, <2>2, <2>3, SettlePass
  <2>5. AnswerInv(t)
    BY <1>1, <2>1, <2>2, <2>3, SettleAnswers
  <2> QED BY <1>4, <1>5, <2>4, <2>5 DEF Passed
<1> QED BY <1>6, <1>7, <1>8, <1>9, CallResolvingIs

\* A function of an item is on the item's promise.
HomeFns(s, p, fns) ==
    \A x \in Sides : fns[x].fn = "element" =>
       fns[x].side = x /\ s.comb[fns[x].k].items[fns[x].n].p = p

\* perform_promise_then
LEMMA PerformThenPassed ==
    ASSUME NEW s, NEW R, Passed(s, R), NEW p, NEW f, NEW g, ThenArgs(s, p, f, g),
           NEW cap, cap = 0 \/ cap \in DOMAIN s.pair, MayTake(s, R, p, Both(f, g), cap), HomeFns(s, p, Both(f, g)),
           NEW t, t = PerformThen(s, p, f, g, cap)
    PROVE  /\ Passed(t, R) /\ Grows(s, t) /\ ThenEffect(s, t, p, Both(f, g), cap) /\ t.pair = s.pair
           /\ t.comb = s.comb /\ t.held = s.held /\ t.finals = s.finals /\ DOMAIN t.prom = DOMAIN s.prom
           /\ Len(t.prom) = Len(s.prom)
<1>1. RefInv(s) /\ PassInv(s, R) /\ AnswerInv(s) /\ Sound(s) /\ s \in States
  BY DEF Passed, Sound, CoreInv, RefInv
<1> DEFINE X == AnyPair
           Y == AnyItem
           Z == {}
           fns == Both(f, g)
<1>2. Good(s, X, Y, Z)
  BY <1>1, SoundGood
<1> HIDE DEF X, Y, Z
<1>3. GivenTo(s, fns, cap, X, X, Y, Y)
  BY DEF GivenTo
<1>4. cap \in {0} \cup DOMAIN s.pair /\ cap \in Nat /\ p \in DOMAIN s.prom
  BY <1>1, Elements DEF ThenArgs
<1>5. fns \in [Sides -> AllFunctions] /\ \A x \in Sides : FunctionOK(s, fns[x])
  BY ConstantTypes, BothIs DEF ThenArgs
<1>6. ThenEffect(s, t, p, fns, cap)
  BY <1>1, <1>4, PerformThenIs DEF ThenArgs
<1>7. /\ Good(t, X, Y, Z) /\ Grows(s, t) /\ t.comb = s.comb /\ t.held = s.held /\ t.finals = s.finals
      /\ t.pair = s.pair /\ DOMAIN t.prom = DOMAIN s.prom /\ Len(t.prom) = Len(s.prom)
  <2>1. Good(t, X, Y, Z) /\ Grows(s, t)
    <3>1. Good(t, X, Y, Z)
      BY <1>2, <1>3, PerformThenGood
    <3>2. Grows(s, t)
      BY <1>2, <1>3, PerformThenGood
    <3> QED BY <3>1, <3>2
  <2>2. /\ t.comb = s.comb /\ t.held = s.held /\ t.finals = s.finals
        /\ t.pair = s.pair /\ DOMAIN t.prom = DOMAIN s.prom /\ Len(t.prom) = Len(s.prom)
    BY <1>6 DEF ThenEffect, Changed
  <2> QED BY <2>1, <2>2
<1>8. Sound(t)
  BY <1>7, GoodSound
<1>9. /\ MayTake(s, R, p, fns, cap)
      /\ \A x \in Sides : fns[x].fn = "element" =>
            fns[x].side = x /\ s.comb[fns[x].k].items[fns[x].n].p = p
  BY DEF HomeFns
<1>10. PassInv(t, R)
  <2> HIDE DEF fns
  <2> QED BY <1>1, <1>4, <1>5, <1>6, <1>9, ThenPass
<1>11. AnswerInv(t)
  <2> HIDE DEF fns
  <2> QED BY <1>1, <1>4, <1>5, <1>6, <1>9, ThenAnswers
<1> QED BY <1>7, <1>8, <1>6, <1>10, <1>11 DEF Passed

\* js_promise_then
LEMMA ThenPassed ==
    ASSUME NEW s, NEW R, Passed(s, R), NEW p, NEW f, NEW g, ThenArgs(s, p, f, g),
           MayTake(s, R, p, Both(f, g), 0), HomeFns(s, p, Both(f, g)),
           NEW t, t = Then(s, p, f, g)
    PROVE  /\ Passed(t, R) /\ Grows(s, t) /\ t.finals = s.finals /\ t.comb = s.comb /\ t.held = s.held
           /\ Len(t.prom) = Len(s.prom) + 1 /\ Len(t.prom) \in DOMAIN t.prom
           /\ \E c : CapEffect(s, c) /\ ThenEffect(c, t, p, Both(f, g), Len(s.pair) + 1)
<1> DEFINE c == NewCapability(s)
           k == Len(c.pair)
           fns == Both(f, g)
<1>1. /\ Passed(c, R) /\ Grows(s, c) /\ SameKept(s, c) /\ CapEffect(s, c)
      /\ k \in DOMAIN c.pair /\ k \notin DOMAIN s.pair /\ k = Len(s.pair) + 1 /\ Len(c.prom) = Len(s.prom) + 1
      /\ Len(c.prom) \in DOMAIN c.prom /\ c.finals = s.finals
      /\ Free(R, c.pair[k].promise)
      /\ \A l \in DOMAIN c.pair : l = k \/ (l \in DOMAIN s.pair /\ c.pair[l] = s.pair[l])
  BY CapabilityPassed
<1>2. t = PerformThen(c, p, f, g, k)
  BY DEF Then
<1>3. RefInv(s)
  BY DEF Passed, Sound, CoreInv
<1> HIDE DEF c, k
<1>4. ThenArgs(c, p, f, g)
  BY <1>1, <1>3, GrowsKeeps DEF Grows, ThenArgs
<1>5. MayTake(c, R, p, fns, k)
  <2> SUFFICES ASSUME NEW l \in DOMAIN c.pair, Unused(c, l), NEW q, <<q, c.pair[l].promise>> \in R
               PROVE  k # l /\ \A x \in Sides : Fulfills(fns[x], l) => x = 0 /\ <<q, p>> \in R
    BY DEF MayTake
  <2>1. l # k /\ l \in DOMAIN s.pair /\ c.pair[l] = s.pair[l]
    BY <1>1 DEF Free
  <2>2. Unused(s, l) /\ <<q, s.pair[l].promise>> \in R
    BY <2>1 DEF Unused
  <2> HIDE DEF fns
  <2>3. MayTake(s, R, p, fns, 0)
    BY DEF fns
  <2> QED BY <2>1, <2>2, <2>3 DEF MayTake
<1>6. HomeFns(c, p, fns)
  BY <1>1 DEF HomeFns, SameKept
<1>7. k = 0 \/ k \in DOMAIN c.pair
  BY <1>1
<1>8. Passed(t, R) /\ Grows(c, t) /\ ThenEffect(c, t, p, Both(f, g), k)
  BY <1>1, <1>2, <1>4, <1>5, <1>6, <1>7, PerformThenPassed
<1>9. /\ t.comb = c.comb /\ t.held = c.held /\ t.finals = c.finals /\ DOMAIN t.prom = DOMAIN c.prom
      /\ Len(t.prom) = Len(c.prom)
  BY <1>1, <1>2, <1>4, <1>5, <1>6, <1>7, PerformThenPassed
<1>10. Grows(s, t)
  BY <1>1, <1>8, GrowsOn
<1> QED BY <1>1, <1>8, <1>9, <1>10 DEF SameKept

LEMMA PassedParts ==
    ASSUME NEW s, NEW R, Passed(s, R)
    PROVE  CoreInv(s) /\ RefInv(s) /\ s \in States /\ PassInv(s, R) /\ AnswerInv(s) /\ Sound(s)
BY DEF Passed, Sound, CoreInv, RefInv

LEMMA QuietSound ==
    ASSUME NEW s, NEW t, Sound(s), QuietEffect(s, t), RefInv(t)
    PROVE  Sound(t)
<1>1. CoreInv(t)
  BY QuietCore DEF Sound
<1>2. t.prom = s.prom /\ t.pair = s.pair /\ t.jobs = s.jobs
  BY DEF QuietEffect
<1>3. WayInv(t)
  BY <1>2 DEF Sound, WayInv, Unused, Waits, Pending
<1> QED BY <1>1, <1>3 DEF Sound

\* A promise that is made and resolved or rejected at once
LEMMA MadePassed ==
    ASSUME NEW s, NEW R, Passed(s, R), NEW side \in Sides, NEW v \in AllValues, ValueOK(s, v),
           NEW c, c = NewCapability(s), NEW t, t = CallResolving(c, Len(c.pair), side, v)
    PROVE  /\ Passed(t, R) /\ Grows(s, t) /\ SameKept(s, t) /\ t.finals = s.finals
           /\ Len(s.prom) + 1 \in DOMAIN t.prom
<1> DEFINE k == Len(c.pair)
<1>1. /\ Passed(c, R) /\ Grows(s, c) /\ SameKept(s, c) /\ k \in DOMAIN c.pair /\ c.finals = s.finals
      /\ Len(c.prom) = Len(s.prom) + 1 /\ Len(c.prom) \in DOMAIN c.prom
      /\ Free(R, c.pair[k].promise)
  BY CapabilityPassed
<1>2. t = CallResolving(c, k, side, v)
  OBVIOUS
<1> HIDE DEF k
<1>3. ValueOK(c, v)
  BY <1>1, PassedParts, GrowsKeeps
<1>4. Due(c, k, v) /\ MayGive(c, R, k, side, v)
  BY <1>1, <1>3 DEF Due, Giveable, MayGive, Free
<1>5. /\ Passed(t, R) /\ Grows(c, t) /\ SameKept(c, t) /\ t.finals = c.finals /\ DOMAIN t.prom = DOMAIN c.prom
  BY <1>1, <1>2, <1>4, ResolvingPassed
<1>6. Grows(s, t)
  BY <1>1, <1>5, GrowsOn
<1> QED BY <1>1, <1>5, <1>6 DEF SameKept

\* js_promise_resolve
LEMMA StaticPassed ==
    ASSUME NEW s, NEW R, Passed(s, R), NEW v \in AllValues, ValueOK(s, v), NEW t, t = StaticResolve(s, v)
    PROVE  /\ Passed(t, R) /\ Grows(s, t) /\ SameKept(s, t) /\ t.finals = s.finals
           /\ Resolved(s, v) \in DOMAIN t.prom
<1>1. CASE v[1] = "prom"
  BY <1>1, GrowsSame DEF StaticResolve, Resolved, SameKept, ValueOK
<1>2. CASE v[1] # "prom"
  <2>1. t = CallResolving(NewCapability(s), Len(NewCapability(s).pair), 0, v)
    BY <1>2 DEF StaticResolve
  <2>2. Resolved(s, v) = Len(s.prom) + 1 /\ 0 \in Sides
    BY <1>2 DEF Resolved, Sides
  <2> QED BY <2>1, <2>2, MadePassed
<1> QED BY <1>1, <1>2

LEMMA CompletePassed ==
    ASSUME NEW s, NEW R, Passed(s, R), NEW cap, cap = 0 \/ cap \in DOMAIN s.pair, NEW side \in Sides,
           NEW v \in AllValues, ValueOK(s, v), MayGive(s, R, cap, side, v), NEW t, t = Complete(s, cap, side, v)
    PROVE  Passed(t, R) /\ Grows(s, t) /\ t.finals = s.finals
<1>1. CASE cap = 0
  BY <1>1, GrowsSame DEF Complete
<1>2. CASE cap # 0
  <2>1. t = CallResolving(s, cap, side, v) /\ Due(s, cap, v) /\ cap \in DOMAIN s.pair
    BY <1>2 DEF Complete, Due, Giveable
  <2> QED BY <2>1, ResolvingPassed
<1> QED BY <1>1, <1>2

\* A combinator, and a script, have no pair with which an outcome is passed on.
LEMMA CombFree ==
    ASSUME NEW s, NEW R, PassInv(s, R), NEW c \in DOMAIN s.comb, Unused(s, s.comb[c].k)
    PROVE  Free(R, s.pair[s.comb[c].k].promise)
<1> SUFFICES ASSUME NEW p, <<p, s.pair[s.comb[c].k].promise>> \in R
             PROVE  FALSE
  BY DEF Free
<1>1. Passes(s, R, p, s.pair[s.comb[c].k].promise)
  BY DEF PassInv
<1>2. Entrusted(s, R, s.comb[c].k, p)
  BY <1>1 DEF Passes, Unused
<1> QED BY <1>2 DEF Entrusted

LEMMA HeldFree ==
    ASSUME NEW s, NEW R, PassInv(s, R), NEW h \in s.held, NEW k, Fulfills(h, k), Unused(s, k)
    PROVE  Free(R, s.pair[k].promise)
<1> SUFFICES ASSUME NEW p, <<p, s.pair[k].promise>> \in R
             PROVE  FALSE
  BY DEF Free
<1>1. Passes(s, R, p, s.pair[k].promise)
  BY DEF PassInv
<1>2. Entrusted(s, R, k, p)
  BY <1>1 DEF Passes, Unused
<1> QED BY <1>2 DEF Entrusted

\* What a then does with a pair with which the outcome of p is passed on.
LEMMA ThenBound ==
    ASSUME NEW s, NEW R, PassInv(s, R), NEW n \in DOMAIN s.thens, NEW k, Unused(s, k),
           NEW p, <<p, s.pair[k].promise>> \in R
    PROVE  Bound(s, R, n, k, p)
<1>1. Passes(s, R, p, s.pair[k].promise)
  BY DEF PassInv
<1>2. Entrusted(s, R, k, p)
  BY <1>1 DEF Passes, Unused
<1> QED BY <1>2 DEF Entrusted

\* js_promise_all_resolve_element
LEMMA ElementPassed ==
    ASSUME NEW s, NEW R, Passed(s, R), NEW c \in DOMAIN s.comb, NEW n \in DOMAIN s.comb[c].items,
           s.comb[c].kind # "race", Unused(s, s.comb[c].k) => Counts(s, c), NEW side \in Sides, NEW v \in AllValues,
           s.comb[c].items[n].native => HasOutcome(s, s.comb[c].items[n].p, side, v),
           NEW t, t = CallElement(s, c, n, side, v)
    PROVE  Passed(t, R) /\ Grows(s, t) /\ t.thens = s.thens /\ t.finals = s.finals
<1> DEFINE C == s.comb[c]
           d == AnswerAt(s, c, n, side, v)
           r == IF C.kind = "any" THEN 1 ELSE 0
<1>1. CASE <<n, side>> \in s.comb[c].called
  BY <1>1, GrowsSame DEF CallElement
<1>2. CASE <<n, side>> \notin s.comb[c].called
  <2>1. t = IF C.rem # 1 THEN d ELSE CallResolving(d, C.k, r, Full(C, c))
    BY <1>2 DEF CallElement, AnswerAt, Full
  <2>2. /\ r \in Sides /\ CoreInv(s) /\ RefInv(s) /\ s \in States /\ PassInv(s, R) /\ AnswerInv(s) /\ Sound(s)
        /\ CombOK(s, c)
    BY PassedParts DEF Sides, RefInv
  <2>3. AnswerEffect(s, d, c, n, side, v)
    BY <2>2, AnswerAtIs DEF CombOK
  <2> HIDE DEF d, r
  <2>4. /\ QuietEffect(s, d) /\ CombEffect(s, d, c) /\ d.comb[c].k = C.k /\ c \in DOMAIN d.comb
        /\ d.thens = s.thens /\ d.finals = s.finals /\ d.pair = s.pair
        /\ d.comb[c].called = C.called \cup {<<n, side>>}
        /\ d.comb[c].items = C.items /\ d.comb[c].open = C.open
    BY <2>3 DEF AnswerEffect, CombEffect, QuietEffect, Changed
  <2>5. Grows(s, d) /\ RefInv(d)
    BY <2>2, <2>3, AnswerRef
  <2>6. Sound(d) /\ PassInv(d, R) /\ AnswerInv(d)
    <3>1. Sound(d)
      BY <2>2, <2>4, <2>5, QuietSound
    <3>2. PassInv(d, R)
      BY <2>2, <2>4, <2>5, CombPass
    <3>3. AnswerInv(d)
      BY <2>2, <2>3, AnswerAnswers
    <3> QED BY <3>1, <3>2, <3>3
  <2>7. Passed(d, R)
    BY <2>6 DEF Passed
  <2>8. CASE C.rem # 1
    BY <2>1, <2>4, <2>5, <2>7, <2>8
  <2>9. CASE C.rem = 1
    <3>1. Full(C, c) \in AllValues /\ Giveable(d, C.k, Full(C, c)) /\ C.k \in DOMAIN d.pair
      BY <2>2, <2>4, <2>5, FullIs DEF CombOK, QuietEffect
    <3>2. Full(C, c)[2] = c
      BY DEF Full
    <3>3. ASSUME Unused(d, C.k)
          PROVE  Covered(d, c) /\ Free(R, d.pair[C.k].promise)
      <4>1. Counts(s, c)
        BY <2>4, <3>3 DEF Unused
      <4>2. Cardinality(C.called \cup {<<n, side>>}) = Cardinality(C.called) + 1 /\ Cardinality(C.called) \in Nat
            /\ Len(C.items) \in Nat
        BY <1>2, <2>2, CountedSets, FS_AddElement
      <4>3. Cardinality(d.comb[c].called) >= Len(d.comb[c].items) + (IF d.comb[c].open THEN 1 ELSE 0)
        <5> DEFINE a == Cardinality(C.called)
                   b == Len(C.items)
                   o == IF C.open THEN 1 ELSE 0
        <5>1. 1 = b - a + o
          BY <2>9, <4>1 DEF Counts
        <5>2. a \in Nat /\ b \in Nat /\ o \in Nat
          BY <4>2
        <5>3. Cardinality(d.comb[c].called) = a + 1 /\ Len(d.comb[c].items) = b
              /\ (IF d.comb[c].open THEN 1 ELSE 0) = o
          BY <2>4, <4>2
        <5> HIDE DEF a, b, o
        <5> QED BY <5>1, <5>2, <5>3
      <4>4. Covered(d, c)
        BY <2>4, <2>5, <4>3, Covers
      <4>5. Free(R, d.pair[C.k].promise)
        BY <2>4, <2>6, <3>3, CombFree
      <4> QED BY <4>4, <4>5
    <3>4. Due(d, C.k, Full(C, c)) /\ MayGive(d, R, C.k, r, Full(C, c))
      BY <3>1, <3>2, <3>3 DEF Due, MayGive, Free
    <3>5. t = CallResolving(d, C.k, r, Full(C, c))
      BY <2>1, <2>9
    <3> HIDE DEF C
    <3>6. Passed(t, R) /\ Grows(d, t) /\ SameKept(d, t) /\ t.finals = d.finals
      BY <2>2, <2>7, <3>1, <3>4, <3>5, ResolvingPassed
    <3>7. Grows(s, t)
      BY <2>5, <3>6, GrowsOn
    <3> QED BY <2>4, <3>6, <3>7 DEF SameKept
  <2> QED BY <2>8, <2>9
<1> QED BY <1>1, <1>2

\* A script calls a function it has.
CombsCount(s) == \A c \in DOMAIN s.comb : Unused(s, s.comb[c].k) => Counts(s, c)
LEMMA HeldCallPassed ==
    ASSUME NEW s, NEW R, Passed(s, R), CombsCount(s), NEW h \in s.held, NEW v \in AllValues, ValueOK(s, v),
           NEW t, t = Call(s, h, v)
    PROVE  Passed(t, R) /\ Grows(s, t) /\ t.finals = s.finals
<1>1. h \in AllFunctions /\ HeldOK(s, h) /\ GivenAway(s, h) /\ PassInv(s, R)
  BY PassedParts, StateParts DEF RefInv, AnswerInv, HomeInv
<1>2. CASE h.fn = "settle"
  <2>1. t = CallResolving(s, h.k, h.side, v) /\ h.k \in DOMAIN s.pair /\ h.side \in Sides /\ Due(s, h.k, v)
    BY <1>1, <1>2 DEF Call, HeldOK, FunctionOK, Due, Giveable, AllFunctions
  <2>2. MayGive(s, R, h.k, h.side, v)
    <3>1. h.side = 0 /\ Unused(s, h.k) => Free(R, s.pair[h.k].promise)
      BY <1>1, <1>2, HeldFree DEF Fulfills
    <3> QED BY <3>1 DEF MayGive, Free
  <2> QED BY <2>1, <2>2, ResolvingPassed
<1>3. CASE h.fn = "element"
  <2>1. /\ t = CallElement(s, h.k, h.n, h.side, v) /\ h.side \in Sides
        /\ h.k \in DOMAIN s.comb /\ h.n \in DOMAIN s.comb[h.k].items /\ s.comb[h.k].kind # "race"
    BY <1>1, <1>3 DEF Call, HeldOK, FunctionOK, AllFunctions
  <2>2. ~s.comb[h.k].items[h.n].native
    BY <1>1, <1>3 DEF GivenAway
  <2>3. Unused(s, s.comb[h.k].k) => Counts(s, h.k)
    BY <2>1 DEF CombsCount
  <2> QED BY <2>1, <2>2, <2>3, ElementPassed
<1> QED BY <1>1, <1>2, <1>3 DEF HeldOK

-----------------------------------------------------------------------------
\* What the pair of a reaction, if an outcome is passed on with it, says of
\* the functions of its then.
LEMMA CapForwards ==
    ASSUME NEW s, NEW R, PassInv(s, R), NEW j, ReactionArgs(s, j), Unused(s, j.cap),
           NEW p, <<p, s.pair[j.cap].promise>> \in R
    PROVE  Forwards(s, j.n, p)
<1>1. Bound(s, R, j.n, j.cap, p)
  BY ThenBound DEF ReactionArgs
<1> QED BY <1>1 DEF Bound, ReactionArgs

\* A function that is none of finally's settles no such pair.
LEMMA PlainMayGive ==
    ASSUME NEW s, NEW R, PassInv(s, R), NEW j, ReactionArgs(s, j), NEW side, NEW v,
           side = 0 => j.handler.fn \notin {"undefined", "thunk", "finally"}
    PROVE  MayGive(s, R, j.cap, side, v)
<1> SUFFICES ASSUME side = 0, Unused(s, j.cap), NEW p, <<p, s.pair[j.cap].promise>> \in R
             PROVE  FALSE
  BY DEF MayGive
<1>1. Forwards(s, j.n, p)
  BY CapForwards
<1>2. s.thens[j.n].fns[j.side] = j.handler /\ j.side \in {0, 1}
  BY DEF ReactionArgs, Sides
<1>3. ASSUME s.thens[j.n].fns = Both(Finally(0), Finally(1))
      PROVE  FALSE
  BY <1>2, <1>3, BothIs, FunctionFields
<1>4. ASSUME NEW x, NEW w, s.thens[j.n].fns = Both(Thunk(x, w), NoHandler)
      PROVE  FALSE
  BY <1>2, <1>4, BothIs, FunctionFields
<1> QED BY <1>1, <1>3, <1>4 DEF Forwards

\* The default functions and the thunk of finally give what finally was given.
LEMMA ThunkMayGive ==
    ASSUME NEW s, NEW R, PassInv(s, R), NEW j, ReactionArgs(s, j), j.handler.fn = "thunk"
    PROVE  MayGive(s, R, j.cap, j.handler.side, j.handler.v)
<1> SUFFICES ASSUME j.handler.side = 0, Unused(s, j.cap), NEW p, <<p, s.pair[j.cap].promise>> \in R
             PROVE  HasOutcome(s, p, 0, j.handler.v)
  BY DEF MayGive
<1>1. Forwards(s, j.n, p)
  BY CapForwards
<1>2. s.thens[j.n].fns[j.side] = j.handler /\ j.side \in {0, 1}
  BY DEF ReactionArgs, Sides
<1>3. ASSUME s.thens[j.n].fns = Both(Finally(0), Finally(1))
      PROVE  FALSE
  BY <1>2, <1>3, BothIs, FunctionFields
<1>4. ASSUME NEW x, NEW w, s.thens[j.n].fns = Both(Thunk(x, w), NoHandler), HasOutcome(s, p, x, w)
      PROVE  HasOutcome(s, p, 0, j.handler.v)
  <2>1. j.handler = Thunk(x, w)
    BY <1>2, <1>4, BothIs, FunctionFields
  <2> QED BY <1>4, <2>1, FunctionFields
<1> QED BY <1>1, <1>3, <1>4 DEF Forwards
LEMMA DefaultMayGive ==
    ASSUME NEW s, NEW R, PassInv(s, R), NEW j, ReactionArgs(s, j), j.handler.fn = "undefined"
    PROVE  MayGive(s, R, j.cap, j.side, j.v)
<1> SUFFICES ASSUME j.side = 0, Unused(s, j.cap), NEW p, <<p, s.pair[j.cap].promise>> \in R
             PROVE  FALSE
  BY DEF MayGive
<1>1. Forwards(s, j.n, p)
  BY CapForwards
<1>2. s.thens[j.n].fns[0] = j.handler
  BY DEF ReactionArgs
<1>3. ASSUME s.thens[j.n].fns = Both(Finally(0), Finally(1))
      PROVE  FALSE
  BY <1>2, <1>3, BothIs, FunctionFields
<1>4. ASSUME NEW x, NEW w, s.thens[j.n].fns = Both(Thunk(x, w), NoHandler)
      PROVE  FALSE
  BY <1>2, <1>4, BothIs, FunctionFields
<1> QED BY <1>1, <1>3, <1>4 DEF Forwards

\* A reaction passes on the outcome of the promise of its then.
LEMMA FollowMayGive ==
    ASSUME NEW s, NEW R, RefInv(s), PassInv(s, R), NEW j, j.job = "reaction", JobOK(s, j), ReactionArgs(s, j),
           j.handler.fn = "settle"
    PROVE  MayGive(s, R, j.handler.k, j.handler.side, j.v)
<1> DEFINE k == j.handler.k
           q == s.thens[j.n].p
<1> SUFFICES ASSUME j.handler.side = 0, Unused(s, k), NEW p, <<p, s.pair[k].promise>> \in R
             PROVE  HasOutcome(s, p, 0, j.v)
  BY DEF MayGive
<1>1. Bound(s, R, j.n, k, p)
  BY ThenBound DEF ReactionArgs
<1>2. Fulfills(s.thens[j.n].fns[j.side], k) /\ j.side \in Sides
  BY DEF Fulfills, ReactionArgs
<1>3. j.side = 0 /\ <<p, q>> \in R
  BY <1>1, <1>2 DEF Bound
<1>4. HasOutcome(s, q, 0, j.v) /\ q \in DOMAIN s.prom
  BY <1>3 DEF JobOK, HasOutcome, RefInv, ThenOK
<1>5. Passes(s, R, p, q)
  BY <1>3 DEF PassInv
<1>6. s.prom[q].state = "fulfilled" /\ s.prom[q].result = j.v
  BY <1>4 DEF HasOutcome, Outcome
<1> QED BY <1>5, <1>6 DEF Passes

\* The handler is called.
LEMMA HandlerPassed ==
    ASSUME NEW s, NEW R, Passed(s, R), CombsCount(s), NEW j, j.job = "reaction", JobOK(s, j), ReactionArgs(s, j),
           j.handler.fn \in {"settle", "element"}, NEW t, t = Call(s, j.handler, j.v)
    PROVE  Passed(t, R) /\ Grows(s, t) /\ t.thens = s.thens /\ t.finals = s.finals
<1> DEFINE h == j.handler
<1>0. /\ h \in AllFunctions /\ FunctionOK(s, h) /\ PassInv(s, R) /\ RefInv(s) /\ AnswerInv(s)
      /\ j.v \in AllValues /\ ValueOK(s, j.v) /\ h.side \in Sides
  BY PassedParts DEF ReactionArgs, AllFunctions
<1>1. CASE h.fn = "settle"
  <2>1. t = CallResolving(s, h.k, h.side, j.v) /\ h.k \in DOMAIN s.pair /\ Due(s, h.k, j.v)
    BY <1>0, <1>1 DEF Call, FunctionOK, Due, Giveable
  <2>2. MayGive(s, R, h.k, h.side, j.v)
    BY <1>0, <1>1, FollowMayGive
  <2> HIDE DEF h
  <2>3. Passed(t, R) /\ Grows(s, t) /\ SameKept(s, t) /\ t.finals = s.finals
    BY <1>0, <2>1, <2>2, ResolvingPassed
  <2> QED BY <2>3 DEF SameKept
<1>2. CASE h.fn = "element"
  <2>1. /\ t = CallElement(s, h.k, h.n, h.side, j.v)
        /\ h.k \in DOMAIN s.comb /\ h.n \in DOMAIN s.comb[h.k].items /\ s.comb[h.k].kind # "race"
    BY <1>0, <1>2 DEF Call, FunctionOK
  <2>2. Unused(s, s.comb[h.k].k) => Counts(s, h.k)
    BY <2>1 DEF CombsCount
  <2>3. HasOutcome(s, s.comb[h.k].items[h.n].p, h.side, j.v)
    <3>1. j.n \in DOMAIN s.thens /\ j.side \in Sides /\ s.thens[j.n].fns[j.side] = h
      BY DEF ReactionArgs
    <3>2. AtHome(s, j.n, j.side)
      BY <1>0, <3>1 DEF AnswerInv, HomeInv
    <3>3. h.side = j.side /\ s.comb[h.k].items[h.n].p = s.thens[j.n].p
      BY <1>2, <3>1, <3>2 DEF AtHome
    <3>4. HasOutcome(s, s.thens[j.n].p, j.side, j.v)
      BY DEF JobOK, HasOutcome
    <3> QED BY <3>3, <3>4
  <2> HIDE DEF h
  <2> QED BY <1>0, <2>1, <2>2, <2>3, ElementPassed
<1> QED BY <1>1, <1>2

\* promise_reaction_job with a native handler
LEMMA ReactionPassed ==
    ASSUME NEW s, NEW R, Passed(s, R), CombsCount(s), NEW j, j.job = "reaction", JobOK(s, j), ReactionArgs(s, j),
           j.handler.fn \notin {"user", "finally"}, NEW t, t = Reaction(s, j)
    PROVE  Passed(t, R) /\ t.finals = s.finals
<1> DEFINE h == j.handler
<1>0. /\ PassInv(s, R) /\ RefInv(s) /\ h \in AllFunctions /\ FunctionOK(s, h) /\ h.side \in Sides /\ h.v \in AllValues
      /\ j.side \in Sides /\ j.v \in AllValues /\ ValueOK(s, j.v) /\ (j.cap = 0 \/ j.cap \in DOMAIN s.pair)
  BY PassedParts DEF ReactionArgs, AllFunctions
<1>1. CASE h.fn = "undefined"
  <2>1. t = Complete(s, j.cap, j.side, j.v) /\ MayGive(s, R, j.cap, j.side, j.v)
    BY <1>0, <1>1, DefaultMayGive DEF Reaction
  <2> QED BY SMTT(40), <1>0, <2>1, CompletePassed
<1>2. CASE h.fn = "thunk"
  <2>1. t = Complete(s, j.cap, h.side, h.v) /\ MayGive(s, R, j.cap, h.side, h.v) /\ ValueOK(s, h.v)
    BY <1>0, <1>2, ThunkMayGive DEF Reaction, FunctionOK
  <2> HIDE DEF h
  <2> QED BY SMTT(40), <1>0, <2>1, CompletePassed
<1>3. CASE h.fn \in {"settle", "element"}
  <2> DEFINE u == Call(s, h, j.v)
  <2>1. t = Complete(u, j.cap, 0, Undefined)
    BY <1>3 DEF Reaction
  <2>2. Passed(u, R) /\ Grows(s, u) /\ u.thens = s.thens /\ u.finals = s.finals
    BY <1>3, HandlerPassed
  <2> HIDE DEF u
  <2>3. ReactionArgs(u, j) /\ PassInv(u, R)
    BY <1>0, <2>2, ArgsKept, PassedParts
  <2>4. MayGive(u, R, j.cap, 0, Undefined)
    BY ZenonT(60), <1>3, <2>3, PlainMayGive
  <2>5. Undefined \in AllValues /\ ValueOK(u, Undefined) /\ 0 \in Sides /\ (j.cap = 0 \/ j.cap \in DOMAIN u.pair)
    BY ZenonT(60), <2>3, ConstantTypes DEF Undefined, ValueOK, Sides, ReactionArgs
  <2> QED BY <2>1, <2>2, <2>4, <2>5, CompletePassed
<1> QED BY <1>0, <1>1, <1>2, <1>3 DEF AllFunctions

\* Functions that are none of a pair's or an item's take nothing.
LEMMA PlainTake ==
    ASSUME NEW s \in States, NEW R, NEW p, NEW f, NEW g, f.fn \notin {"settle", "element"},
           g.fn \notin {"settle", "element"}
    PROVE  MayTake(s, R, p, Both(f, g), 0) /\ HomeFns(s, p, Both(f, g))
<1>1. \A x \in Sides : Both(f, g)[x].fn \notin {"settle", "element"}
  BY BothIs
<1>2. \A k \in DOMAIN s.pair : k # 0
  BY Elements
<1> QED BY <1>1, <1>2 DEF MayTake, HomeFns, Fulfills

\* The promise that a function of finally was called for is the one finally
\* was called on.
LEMMA FinallyForwards ==
    ASSUME NEW s, NEW R, PassInv(s, R), NEW j, j.job = "reaction", JobOK(s, j), ReactionArgs(s, j),
           j.handler.fn = "finally", Unused(s, j.cap), NEW p, <<p, s.pair[j.cap].promise>> \in R
    PROVE  p = s.thens[j.n].p /\ HasOutcome(s, p, j.handler.side, j.v)
<1>1. Forwards(s, j.n, p)
  BY CapForwards
<1>2. s.thens[j.n].fns[j.side] = j.handler /\ j.side \in {0, 1}
  BY DEF ReactionArgs, Sides
<1>3. ASSUME NEW x, NEW w, s.thens[j.n].fns = Both(Thunk(x, w), NoHandler)
      PROVE  FALSE
  BY <1>2, <1>3, BothIs, FunctionFields
<1>4. s.thens[j.n].p = p /\ s.thens[j.n].fns = Both(Finally(0), Finally(1))
  BY <1>1, <1>3 DEF Forwards
<1>5. j.handler.side = j.side
  BY <1>2, <1>4, BothIs, FunctionFields
<1>6. HasOutcome(s, s.thens[j.n].p, j.side, j.v)
  BY DEF JobOK, HasOutcome
<1> QED BY <1>4, <1>5, <1>6

LEMMA PassedMore ==
    ASSUME NEW s, NEW R, Passed(s, R), NEW p, NEW d, Passes(s, R, p, d)
    PROVE  Passed(s, R \cup {<<p, d>>})
BY PassMore DEF Passed

\* js_promise_then_finally_func
LEMMA AfterFinallyPassed ==
    ASSUME NEW s, NEW R, Passed(s, R), NEW j, j.job = "reaction", JobOK(s, j), ReactionArgs(s, j),
           j.handler.fn = "finally", NEW v \in AllValues, ValueOK(s, v), NEW t, t = AfterFinally(s, j, v)
    PROVE  \E Q : R \subseteq Q /\ Passed(t, Q) /\ t.finals = s.finals
<1> DEFINE a == StaticResolve(s, v)
           r == Resolved(s, v)
           f == Thunk(j.handler.side, j.v)
           g == NoHandler
           q == Then(a, r, f, g)
           new == Len(q.prom)
           p == s.thens[j.n].p
           d == s.pair[j.cap].promise
<1>1. t = Complete(q, j.cap, 0, Promise(new))
  BY DEF AfterFinally
<1>2. Passed(a, R) /\ Grows(s, a) /\ SameKept(s, a) /\ a.finals = s.finals /\ r \in DOMAIN a.prom
  BY StaticPassed
<1>3. q = Then(a, r, f, g) /\ new = Len(q.prom)
  OBVIOUS
<1>4. RefInv(s) /\ s \in States /\ PassInv(s, R)
  BY PassedParts
<1>5. j.handler.side \in Sides /\ j.v \in AllValues /\ ValueOK(s, j.v) /\ j.n \in DOMAIN s.thens
  BY DEF ReactionArgs, AllFunctions
<1>6. f.fn = "thunk" /\ g.fn = "undefined" /\ f.v = j.v
  BY FunctionFields
<1>7. f \in AllFunctions /\ g \in AllFunctions
  BY <1>5, ConstantTypes
<1>8. Both(f, g) = Both(Thunk(j.handler.side, j.v), NoHandler)
  OBVIOUS
<1> HIDE DEF a, r, f, g, q, new
<1>9. a \in States /\ RefInv(a) /\ ValueOK(a, j.v)
  BY <1>2, <1>4, <1>5, PassedParts, GrowsKeeps
<1>10. ThenArgs(a, r, f, g)
  BY <1>2, <1>6, <1>7, <1>9 DEF ThenArgs, FunctionOK
<1>11. MayTake(a, R, r, Both(f, g), 0) /\ HomeFns(a, r, Both(f, g))
  BY <1>6, <1>9, PlainTake
<1>12. /\ Passed(q, R) /\ Grows(a, q) /\ q.finals = a.finals /\ new = Len(a.prom) + 1 /\ new \in DOMAIN q.prom
       /\ \E c : CapEffect(a, c) /\ ThenEffect(c, q, r, Both(f, g), Len(a.pair) + 1)
  BY <1>2, <1>3, <1>10, <1>11, ThenPassed
<1>13. Grows(s, q) /\ q.finals = s.finals /\ q \in States
  BY <1>2, <1>12, GrowsOn, PassedParts
<1>14. ReactionArgs(q, j)
  BY <1>4, <1>13, ArgsKept
<1>15. /\ j.cap = 0 \/ j.cap \in DOMAIN q.pair
       /\ 0 \in Sides /\ Promise(new) \in AllValues /\ ValueOK(q, Promise(new)) /\ new \in Nat
  <2>1. new \in Nat
    BY <1>12, <1>13, Elements
  <2>2. Promise(new) \in AllValues
    BY <2>1, ConstantTypes
  <2>3. ValueOK(q, Promise(new))
    BY ZenonT(60), <1>12 DEF Promise, ValueOK
  <2> QED BY <1>14, <2>1, <2>2, <2>3 DEF ReactionArgs, Sides
<1>16. CASE Unused(s, j.cap) /\ \E x : <<x, d>> \in R
  <2>1. <<p, d>> \in R /\ HasOutcome(s, p, j.handler.side, j.v)
    BY <1>4, <1>16, FinallyForwards
  <2>2. p \in DOMAIN s.prom /\ d \in DOMAIN s.prom
    BY <1>4, <2>1 DEF PassInv, Passes
  <2>3. HasOutcome(a, p, j.handler.side, j.v) /\ p \in DOMAIN a.prom /\ d \in DOMAIN a.prom
    BY SMTT(40), <1>2, <2>1, <2>2, OutcomeKept DEF Grows
  <2>4. PICK c : CapEffect(a, c) /\ ThenEffect(c, q, r, Both(f, g), Len(a.pair) + 1)
    BY <1>12
  <2>5. r \in DOMAIN c.prom
    BY <1>2, <2>4 DEF CapEffect, Added
  <2>6. \E side \in Sides, w \in AllValues : Both(f, g) = Both(Thunk(side, w), NoHandler) /\ HasOutcome(a, p, side, w)
    BY <1>5, <1>8, <2>3
  <2>7. Passes(q, R, p, new)
    <3> DEFINE fns == Both(f, g)
    <3>1. /\ ThenEffect(c, q, r, fns, Len(a.pair) + 1)
          /\ \E side \in Sides, w \in AllValues : fns = Both(Thunk(side, w), NoHandler) /\ HasOutcome(a, p, side, w)
      BY <2>4, <2>6
    <3> HIDE DEF fns, p
    <3>2. Passes(q, R, p, Len(a.prom) + 1)
      BY <1>9, <2>3, <2>4, <2>5, <3>1, NewPasses
    <3> QED BY <1>12, <3>2
  <2> DEFINE Q == R \cup {<<p, new>>}
  <2>8. R \subseteq Q /\ <<p, new>> \in Q /\ \A x, y : <<x, y>> \in Q => <<x, y>> \in R \/ y = new
    OBVIOUS
  <2> HIDE DEF p
  <2>9. Passed(q, Q)
    BY <1>12, <2>7, PassedMore
  <2> HIDE DEF Q
  <2>10. d # new
    BY <1>9, <1>12, <2>3, Elements
  <2>11. MayGive(q, Q, j.cap, 0, Promise(new))
    <3> SUFFICES ASSUME NEW x, <<x, q.pair[j.cap].promise>> \in Q
                 PROVE  Onward(Q, x, Promise(new))
      BY DEF MayGive
    <3>1. q.pair[j.cap].promise = d
      BY <1>13, <1>16 DEF Grows, Unused
    <3>2. <<x, d>> \in R
      BY <2>8, <2>10, <3>1
    <3>3. x = p
      BY <1>4, <1>16, <3>2, FinallyForwards DEF p
    <3> QED BY <2>8, <3>3 DEF Onward, Promise
  <2>12. Passed(t, Q) /\ t.finals = q.finals
    <3> DEFINE w == Promise(new)
    <3>1. /\ t = Complete(q, j.cap, 0, w) /\ w \in AllValues /\ ValueOK(q, w) /\ MayGive(q, Q, j.cap, 0, w)
          /\ 0 \in Sides /\ (j.cap = 0 \/ j.cap \in DOMAIN q.pair)
      BY <1>1, <1>15, <2>11
    <3> HIDE DEF w
    <3> QED BY <2>9, <3>1, CompletePassed
  <2> QED BY <1>13, <2>8, <2>12
<1>17. CASE ~(Unused(s, j.cap) /\ \E x : <<x, d>> \in R)
  <2>1. MayGive(q, R, j.cap, 0, Promise(new))
    <3> SUFFICES ASSUME Unused(q, j.cap), NEW x, <<x, q.pair[j.cap].promise>> \in R
                 PROVE  FALSE
      BY DEF MayGive
    <3>1. j.cap \in DOMAIN s.pair
      <4>1. j.cap \in DOMAIN q.pair /\ j.cap # 0
        BY <1>13, Elements DEF Unused
      <4> QED BY <4>1 DEF ReactionArgs
    <3>2. Unused(s, j.cap) /\ q.pair[j.cap].promise = d
      BY <1>13, <3>1 DEF Grows, Unused
    <3> QED BY <1>17, <3>2
  <2>2. Passed(t, R) /\ t.finals = q.finals
    <3> DEFINE w == Promise(new)
    <3>1. /\ t = Complete(q, j.cap, 0, w) /\ w \in AllValues /\ ValueOK(q, w) /\ MayGive(q, R, j.cap, 0, w)
          /\ 0 \in Sides /\ (j.cap = 0 \/ j.cap \in DOMAIN q.pair)
      BY <1>1, <1>15, <2>1
    <3> HIDE DEF w
    <3>2. Passed(q, R)
      BY <1>12
    <3> QED BY <3>1, <3>2, CompletePassed
  <2> QED BY <1>13, <2>2
<1> QED BY <1>16, <1>17

\* The function that was running ends.
LEMMA EndedPassed ==
    ASSUME NEW R, Passed(st, R), FrameInv(st, frame), NEW side \in Sides, NEW v \in AllValues, ValueOK(st, v)
    PROVE  \E Q : R \subseteq Q /\ Passed(Ended(side, v), Q) /\ Ended(side, v).finals = st.finals
<1> DEFINE t == Ended(side, v)
<1>0. PassInv(st, R) /\ RefInv(st)
  BY PassedParts
<1>1. CASE frame.job = "reaction"
  <2>1. ReactionArgs(st, frame) /\ JobOK(st, frame) /\ frame.handler.fn \in {"user", "finally"}
    BY <1>0, <1>1, ReactionArgsAre DEF FrameInv
  <2>2. CASE frame.handler.fn = "finally" /\ side = 0
    <3>1. t = AfterFinally(st, frame, v)
      BY <1>1, <2>2 DEF Ended
    <3> HIDE DEF t
    <3>2. \E Q : R \subseteq Q /\ Passed(t, Q) /\ t.finals = st.finals
      BY <1>1, <2>1, <2>2, <3>1, AfterFinallyPassed
    <3> QED BY <3>2 DEF t
  <2>3. CASE ~(frame.handler.fn = "finally" /\ side = 0)
    <3>1. t = Complete(st, frame.cap, side, v) /\ (frame.cap = 0 \/ frame.cap \in DOMAIN st.pair)
      BY <1>1, <2>1, <2>3 DEF Ended, ReactionArgs
    <3>2. MayGive(st, R, frame.cap, side, v)
      BY <1>0, <2>1, <2>3, PlainMayGive
    <3> HIDE DEF t
    <3>3. Passed(t, R) /\ t.finals = st.finals
      BY <3>1, <3>2, CompletePassed
    <3> QED BY <3>3 DEF t
  <2> QED BY <2>2, <2>3
<1>2. CASE frame.job # "reaction"
  <2>1. CASE t = st
    BY <2>1
  <2>2. CASE frame.job = "thenable" /\ side = 1
    <3>1. t = CallResolving(st, frame.cap, 1, v) /\ frame.cap \in DOMAIN st.pair /\ Due(st, frame.cap, v)
      BY <2>2 DEF Ended, FrameInv, Due, Giveable
    <3>2. 1 \in Sides /\ MayGive(st, R, frame.cap, 1, v)
      BY DEF Sides, MayGive
    <3> HIDE DEF t
    <3>3. Passed(t, R) /\ t.finals = st.finals
      BY <3>1, <3>2, ResolvingPassed
    <3> QED BY <3>3 DEF t
  <2> QED BY <1>2, <2>1, <2>2 DEF Ended, Sides
<1> QED BY <1>1, <1>2

-----------------------------------------------------------------------------
\* The functions of an item
LEMMA ItemFnsAre ==
    ASSUME NEW s, NEW c, NEW n, NEW x \in Sides
    PROVE  ItemFns(s, c, n)[x] = Settle(s.comb[c].k, x) \/ ItemFns(s, c, n)[x] = Element(c, n, x)
BY BothIs DEF ItemFns

LEMMA ItemFnsFree ==
    ASSUME NEW s, NEW R, PassInv(s, R), NEW c \in DOMAIN s.comb, NEW n, NEW x \in Sides,
           NEW k, Unused(s, k), Fulfills(ItemFns(s, c, n)[x], k)
    PROVE  Free(R, s.pair[k].promise)
<1> DEFINE h == ItemFns(s, c, n)[x]
<1>1. h.fn = "settle" /\ h.k = k
  BY DEF Fulfills
<1>2. h = Settle(s.comb[c].k, x) \/ h = Element(c, n, x)
  BY ItemFnsAre
<1> HIDE DEF h
<1>3. s.comb[c].k = k
  BY <1>1, <1>2, FunctionFields
<1> QED BY <1>3, CombFree

LEMMA ItemFnsHome ==
    ASSUME NEW s, NEW c, NEW n, NEW x \in Sides, ItemFns(s, c, n)[x].fn = "element"
    PROVE  ItemFns(s, c, n)[x].side = x /\ ItemFns(s, c, n)[x].k = c /\ ItemFns(s, c, n)[x].n = n
<1> DEFINE h == ItemFns(s, c, n)[x]
<1>1. h = Settle(s.comb[c].k, x) \/ h = Element(c, n, x)
  BY ItemFnsAre
<1>2. h.fn = "element"
  OBVIOUS
<1> HIDE DEF h
<1>3. h.side = x /\ h.k = c /\ h.n = n
  BY <1>1, <1>2, FunctionFields
<1> QED BY <1>3 DEF h

\* Functions are given to JavaScript code.
LEMMA HeldPassed ==
    ASSUME NEW s, NEW R, Passed(s, R), NEW H \in SUBSET AllFunctions, \A h \in H : HeldOK(s, h) /\ GivenAway(s, h),
           \A h \in H, k \in DOMAIN s.pair : Unused(s, k) /\ Fulfills(h, k) => Free(R, s.pair[k].promise),
           NEW t, t = [s EXCEPT !.held = @ \cup H]
    PROVE  Passed(t, R) /\ t.finals = s.finals /\ QuietEffect(s, t) /\ Grows(s, t)
<1>1. RefInv(s) /\ s \in States /\ PassInv(s, R) /\ AnswerInv(s) /\ Sound(s)
  BY PassedParts
<1>2. HeldEffect(s, t, H)
  BY <1>1, HeldIs
<1>3. Grows(s, t) /\ RefInv(t) /\ QuietEffect(s, t) /\ t.finals = s.finals
  BY <1>1, <1>2, HeldRef DEF HeldEffect
<1>4. Sound(t)
  BY <1>1, <1>3, QuietSound
<1>5. PassInv(t, R)
  BY <1>1, <1>2, HeldPass
<1>6. AnswerInv(t)
  BY <1>1, <1>2, HeldAnswers
<1> QED BY <1>3, <1>4, <1>5, <1>6 DEF Passed

\* One round of the loop of a combinator
LEMMA AddItemPassed ==
    ASSUME NEW s, NEW R, Passed(s, R), NEW c \in DOMAIN s.comb, s.comb[c].open, NEW v \in AllValues, ValueOK(s, v),
           NEW native \in BOOLEAN, NEW t, t = AddItem(s, c, v, native)
    PROVE  Passed(t, R) /\ t.finals = s.finals
<1> DEFINE a == StaticResolve(s, v)
           p == Resolved(s, v)
           b == Counted(a, c, p, native)
           m == Len(b.comb[c].items)
           fns == ItemFns(b, c, m)
<1>1. /\ native => t = Then(b, p, fns[0], fns[1])
      /\ ~native => t = [b EXCEPT !.held = @ \cup {fns[0], fns[1]}]
  BY DEF AddItem
<1>2. Passed(a, R) /\ Grows(s, a) /\ SameKept(s, a) /\ a.finals = s.finals /\ p \in DOMAIN a.prom
  BY StaticPassed
<1>3. b = Counted(a, c, p, native) /\ m = Len(b.comb[c].items) /\ fns = ItemFns(b, c, m)
  OBVIOUS
<1> HIDE DEF a, p, b, m, fns
<1>4. /\ a \in States /\ RefInv(a) /\ PassInv(a, R) /\ AnswerInv(a) /\ Sound(a)
      /\ c \in DOMAIN a.comb /\ a.comb[c].open
  BY <1>2, PassedParts DEF SameKept
<1>5. CountEffect(a, b, c, p, native)
  BY <1>2, <1>3, <1>4, CountedIs, Elements
<1>6. Grows(a, b) /\ RefInv(b) /\ m \in DOMAIN b.comb[c].items /\ m = Len(a.comb[c].items) + 1
  BY <1>2, <1>3, <1>4, <1>5, CountRef
<1>7. /\ QuietEffect(a, b) /\ CombEffect(a, b, c) /\ c \in DOMAIN b.comb /\ p \in DOMAIN b.prom
      /\ b.finals = a.finals /\ b.comb[c].items[m] = [p |-> p, native |-> native]
  BY <1>2, <1>4, <1>5, <1>6 DEF CountEffect, CombEffect, Changed, QuietEffect, Added
<1>8. Sound(b)
  BY <1>4, <1>6, <1>7, QuietSound
<1>9. PassInv(b, R)
  BY <1>4, <1>6, <1>7, CombPass
<1>10. AnswerInv(b)
  BY <1>2, <1>4, <1>5, CountAnswers
<1>11. Passed(b, R)
  BY <1>8, <1>9, <1>10 DEF Passed
<1>12. /\ \A x \in Sides : fns[x] \in AllFunctions /\ HeldOK(b, fns[x])
       /\ Both(fns[0], fns[1]) = fns /\ m # 0
  BY <1>3, <1>6, <1>7, ItemFnsOK
<1>13. \A x \in Sides, k \in DOMAIN b.pair : Unused(b, k) /\ Fulfills(fns[x], k) => Free(R, b.pair[k].promise)
  BY <1>3, <1>7, <1>9, ItemFnsFree
<1>14. \A x \in Sides : fns[x].fn = "element" => fns[x].side = x /\ fns[x].k = c /\ fns[x].n = m
  BY <1>3, ItemFnsHome
<1>15. CASE native
  <2> DEFINE f == fns[0]
             g == fns[1]
  <2>1. ThenArgs(b, p, f, g)
    BY <1>7, <1>12, BothIs DEF ThenArgs, HeldOK
  <2>2. b.comb[c].items[m].p = p
    BY <1>7
  <2>3. HomeFns(b, p, fns)
    BY <1>14, <2>2 DEF HomeFns
  <2>4. MayTake(b, R, p, fns, 0)
    <3>1. \A k \in DOMAIN b.pair : k # 0
      BY <1>11, PassedParts, Elements
    <3> QED BY <1>13, <3>1 DEF MayTake, Free
  <2>5. Both(f, g) = fns /\ t = Then(b, p, f, g)
    BY <1>1, <1>12, <1>15
  <2> HIDE DEF f, g
  <2>6. MayTake(b, R, p, Both(f, g), 0) /\ HomeFns(b, p, Both(f, g))
    BY <2>3, <2>4, <2>5
  <2>7. Passed(t, R) /\ t.finals = b.finals
    BY <1>11, <2>1, <2>5, <2>6, ThenPassed
  <2> QED BY <1>2, <1>7, <2>7
<1>16. CASE ~native
  <2> DEFINE H == {fns[0], fns[1]}
  <2>1. t = [b EXCEPT !.held = @ \cup H]
    BY <1>1, <1>16
  <2>2. \A h \in H : \E x \in Sides : h = fns[x]
    BY BothIs
  <2> HIDE DEF H
  <2>3. H \in SUBSET AllFunctions
    BY <1>12, <2>2
  <2>4. ~b.comb[c].items[m].native
    BY <1>7, <1>16
  <2>5. \A h \in H : HeldOK(b, h) /\ GivenAway(b, h)
    BY <1>12, <1>14, <2>2, <2>4 DEF GivenAway
  <2>6. \A h \in H, k \in DOMAIN b.pair : Unused(b, k) /\ Fulfills(h, k) => Free(R, b.pair[k].promise)
    BY <1>13, <2>2
  <2>7. Passed(t, R) /\ t.finals = b.finals
    BY <1>11, <2>1, <2>3, <2>5, <2>6, HeldPassed
  <2> QED BY <1>2, <1>7, <2>7
<1> QED BY <1>15, <1>16

\* The loop of a combinator ends.
LEMMA ClosedPassed ==
    ASSUME NEW s, NEW R, Passed(s, R), NEW c \in DOMAIN s.comb, NEW d, NEW r, EndEffect(s, d, c, r)
    PROVE  /\ Passed(d, R) /\ Grows(s, d) /\ d.finals = s.finals /\ d.pair = s.pair
           /\ c \in DOMAIN d.comb /\ s.comb[c].k \in DOMAIN d.pair /\ RefInv(d)
<1>1. RefInv(s) /\ s \in States /\ PassInv(s, R) /\ AnswerInv(s) /\ Sound(s) /\ CombOK(s, c)
  BY PassedParts DEF RefInv
<1>2. QuietEffect(s, d) /\ CombEffect(s, d, c) /\ d.finals = s.finals /\ c \in DOMAIN d.comb /\ d.pair = s.pair
  BY DEF EndEffect, CombEffect, Changed, QuietEffect
<1>3. Grows(s, d) /\ RefInv(d)
  BY <1>1, EndRef
<1>4. Sound(d)
  BY <1>1, <1>2, <1>3, QuietSound
<1>5. PassInv(d, R)
  BY <1>1, <1>2, <1>3, CombPass
<1>6. AnswerInv(d)
  BY <1>1, EndAnswers
<1> QED BY <1>1, <1>2, <1>3, <1>4, <1>5, <1>6 DEF Passed, CombOK

LEMMA EndItemsPassed ==
    ASSUME NEW s, NEW R, Passed(s, R), CombsCount(s), NEW c \in DOMAIN s.comb, s.comb[c].open,
           NEW t, t = EndItems(s, c)
    PROVE  Passed(t, R) /\ t.finals = s.finals
<1> DEFINE C == s.comb[c]
           d == EndAt(s, c)
           side == IF C.kind = "any" THEN 1 ELSE 0
<1>1. s \in States /\ RefInv(s) /\ side \in Sides
  BY PassedParts DEF Sides
<1>2. /\ EndEffect(s, d, c, C.rem - 1)
      /\ EndEffect(s, CloseAt(s, c), c, C.rem)
  BY <1>1, EndAtIs
<1>3. t = IF C.kind = "race" THEN CloseAt(s, c)
          ELSE IF C.rem # 1 THEN d ELSE CallResolving(d, C.k, side, Full(C, c))
  BY DEF EndItems, EndAt, CloseAt, Full
<1> HIDE DEF d, side
<1>4. CASE C.kind = "race"
  <2>1. EndEffect(s, t, c, C.rem)
    BY <1>2, <1>3, <1>4
  <2> QED BY <2>1, ClosedPassed
<1>5. CASE C.kind # "race" /\ C.rem # 1
  <2>1. EndEffect(s, t, c, C.rem - 1)
    BY <1>2, <1>3, <1>5
  <2> QED BY <2>1, ClosedPassed
<1>6. CASE C.kind # "race" /\ C.rem = 1
  <2>1. t = CallResolving(d, C.k, side, Full(C, c))
    BY <1>3, <1>6
  <2>2. /\ Passed(d, R) /\ RefInv(d) /\ c \in DOMAIN d.comb /\ d.finals = s.finals /\ d.pair = s.pair
        /\ C.k \in DOMAIN d.pair
    BY <1>2, ClosedPassed
  <2>3. /\ d.comb[c].k = C.k /\ d.comb[c].open = FALSE /\ d.comb[c].items = C.items
        /\ d.comb[c].called = C.called
    BY <1>2 DEF EndEffect
  <2>4. Full(C, c) \in AllValues /\ Giveable(d, C.k, Full(C, c)) /\ Full(C, c)[2] = c
    BY <2>2, <2>3, FullIs DEF Full
  <2>5. ASSUME Unused(d, C.k)
        PROVE  Covered(d, c) /\ Free(R, d.pair[C.k].promise)
    <3>1. Counts(s, c)
      BY <2>2, <2>5 DEF Unused, CombsCount
    <3>2. Cardinality(d.comb[c].called) >= Len(d.comb[c].items) + (IF d.comb[c].open THEN 1 ELSE 0)
      <4> DEFINE x == Cardinality(C.called)
                 y == Len(C.items)
      <4>1. 1 = y - x + 1
        BY <1>6, <3>1 DEF Counts
      <4>2. x \in Nat /\ y \in Nat
        BY <1>1, CountedSets
      <4>3. Cardinality(d.comb[c].called) = x /\ Len(d.comb[c].items) = y /\ d.comb[c].open = FALSE
        BY <2>3
      <4> HIDE DEF x, y
      <4> QED BY <4>1, <4>2, <4>3
    <3>3. Covered(d, c)
      BY <2>2, <3>2, Covers
    <3>4. PassInv(d, R)
      BY <2>2, PassedParts
    <3>5. Free(R, d.pair[C.k].promise)
      BY <2>2, <2>3, <2>5, <3>4, CombFree
    <3> QED BY <3>3, <3>5
  <2> DEFINE k == C.k
             w == Full(C, c)
  <2>6. Due(d, k, w) /\ MayGive(d, R, k, side, w)
    BY <2>4, <2>5 DEF Due, MayGive, Free
  <2>7. t = CallResolving(d, k, side, w) /\ w \in AllValues /\ k \in DOMAIN d.pair
    BY <2>1, <2>2, <2>4
  <2> HIDE DEF k, w
  <2>8. Passed(t, R) /\ t.finals = d.finals
    BY <1>1, <2>2, <2>6, <2>7, ResolvingPassed
  <2> QED BY <2>2, <2>8
<1> QED BY <1>4, <1>5, <1>6

LEMMA FailItemsPassed ==
    ASSUME NEW s, NEW R, Passed(s, R), NEW c \in DOMAIN s.comb, NEW v \in AllValues, ValueOK(s, v),
           NEW t, t = FailItems(s, c, v)
    PROVE  Passed(t, R) /\ t.finals = s.finals
<1> DEFINE d == CloseAt(s, c)
           k == s.comb[c].k
<1>1. s \in States /\ RefInv(s) /\ 1 \in Sides
  BY PassedParts DEF Sides
<1>2. EndEffect(s, d, c, s.comb[c].rem)
  BY <1>1, EndAtIs
<1>3. t = CallResolving(d, k, 1, v)
  BY DEF FailItems, CloseAt
<1> HIDE DEF d
<1>4. Passed(d, R) /\ Grows(s, d) /\ d.finals = s.finals /\ k \in DOMAIN d.pair
  BY <1>2, ClosedPassed
<1>5. ValueOK(d, v)
  BY <1>1, <1>4, GrowsKeeps
<1>6. Due(d, k, v) /\ MayGive(d, R, k, 1, v)
  BY <1>5 DEF Due, Giveable, MayGive
<1> HIDE DEF k
<1>7. Passed(t, R) /\ t.finals = d.finals
  BY <1>1, <1>3, <1>4, <1>6, ResolvingPassed
<1> QED BY <1>4, <1>7

LEMMA NewCombinatorPassed ==
    ASSUME NEW s, NEW R, Passed(s, R), NEW kind \in {"all", "allSettled", "any", "race"},
           NEW t, t = NewCombinator(s, kind)
    PROVE  Passed(t, R) /\ t.finals = s.finals
<1> DEFINE c == NewCapability(s)
           k == Len(c.pair)
<1>1. Passed(c, R) /\ k \in DOMAIN c.pair /\ c.finals = s.finals /\ Free(R, c.pair[k].promise)
  BY CapabilityPassed
<1>2. NewCombEffect(c, t, kind, k)
  BY PassedParts, NewCombinatorIs
<1> HIDE DEF c, k
<1>3. RefInv(c) /\ PassInv(c, R) /\ AnswerInv(c) /\ Sound(c)
  BY <1>1, PassedParts
<1>4. Grows(c, t) /\ RefInv(t)
  BY <1>1, <1>2, <1>3, NewCombRef
<1>5. QuietEffect(c, t) /\ t.finals = c.finals
  BY <1>2 DEF NewCombEffect
<1>6. Sound(t)
  BY <1>3, <1>4, <1>5, QuietSound
<1>7. PassInv(t, R)
  BY <1>1, <1>2, <1>3, NewCombPass
<1>8. AnswerInv(t)
  BY <1>1, <1>2, <1>3, NewCombAnswers
<1> QED BY <1>1, <1>5, <1>6, <1>7, <1>8 DEF Passed

-----------------------------------------------------------------------------
(***************************************************************************)
(* The actions pass outcomes on.                                           *)
(***************************************************************************)
PassOn(s) == \E R : s.finals \subseteq R /\ Passed(s, R)

LEMMA GoodCounts ==
    ASSUME NEW s, NEW Z, Good(s, {}, {}, Z)
    PROVE  CombsCount(s)
BY DEF Good, KeepInv, CombInv, CombsCount

LEMMA ScriptPasses ==
    ASSUME NEW op, NEW s, Script(op, s), PassOn(s)
    PROVE  PassOn(st')
BY DEF Script

\* The two functions of a pair with which no outcome is passed on.
LEMMA PairPassed ==
    ASSUME NEW s, NEW R, Passed(s, R), NEW k \in DOMAIN s.pair, Free(R, s.pair[k].promise),
           NEW t, t = [s EXCEPT !.held = @ \cup {Settle(k, 0), Settle(k, 1)}]
    PROVE  Passed(t, R) /\ t.finals = s.finals /\ QuietEffect(s, t) /\ Grows(s, t)
<1> DEFINE H == {Settle(k, 0), Settle(k, 1)}
<1>1. k \in Nat /\ 0 \in Sides /\ 1 \in Sides
  BY PassedParts, Elements DEF Sides
<1>2. ASSUME NEW h, h = Settle(k, 0) \/ h = Settle(k, 1)
      PROVE  h \in AllFunctions /\ h.fn = "settle" /\ h.k = k
  <2>1. h \in AllFunctions
    BY <1>1, <1>2, ConstantTypes
  <2>2. h.fn = "settle" /\ h.k = k
    BY <1>2 DEF Settle, Function
  <2> QED BY <2>1, <2>2
<1>3. H \in SUBSET AllFunctions /\ (\A h \in H : h.fn = "settle" /\ h.k = k) /\ t = [s EXCEPT !.held = @ \cup H]
  BY <1>2
<1> HIDE DEF H
<1>4. \A h \in H : HeldOK(s, h) /\ GivenAway(s, h)
  BY <1>3 DEF HeldOK, FunctionOK, GivenAway
<1>5. \A h \in H, l \in DOMAIN s.pair : Unused(s, l) /\ Fulfills(h, l) => Free(R, s.pair[l].promise)
  BY <1>3 DEF Fulfills
<1> QED BY <1>3, <1>4, <1>5, HeldPassed

LEMMA NewPromisePasses ==
    ASSUME PromiseAssumption, NEW R, st.finals \subseteq R, Passed(st, R), NewPromise
    PROVE  PassOn(st')
<1> DEFINE c == NewCapability(st)
           k == Len(c.pair)
           h == [c EXCEPT !.held = @ \cup {Settle(k, 0), Settle(k, 1)}]
<1>1. Script("new", h) \/ \E v \in Reasons : Script("new", CallResolving(h, k, 1, v))
  BY DEF NewPromise
<1>2. /\ Passed(c, R) /\ Grows(st, c) /\ k \in DOMAIN c.pair /\ c.finals = st.finals
      /\ Free(R, c.pair[k].promise)
  BY CapabilityPassed
<1>3. h = [c EXCEPT !.held = @ \cup {Settle(k, 0), Settle(k, 1)}]
  OBVIOUS
<1> HIDE DEF c, k, h
<1>4. Passed(h, R) /\ h.finals = c.finals /\ Grows(c, h) /\ k \in DOMAIN h.pair
  BY <1>2, <1>3, PairPassed DEF QuietEffect
<1>5. CASE Script("new", h)
  <2>1. PassOn(h)
    BY <1>2, <1>4 DEF PassOn
  <2> QED BY <1>5, <2>1, ScriptPasses
<1>6. ASSUME NEW v \in Reasons, Script("new", CallResolving(h, k, 1, v))
      PROVE  PassOn(st')
  <2> DEFINE t == CallResolving(h, k, 1, v)
  <2>1. v \in AllValues /\ ValueOK(st, v) /\ 1 \in Sides
    BY PassedParts, ValuesOK DEF Sides
  <2>2. Grows(st, h)
    BY <1>2, <1>4, GrowsOn
  <2>3. ValueOK(h, v)
    BY <2>1, <2>2, PassedParts, GrowsKeeps
  <2>4. Due(h, k, v) /\ MayGive(h, R, k, 1, v)
    BY <2>3 DEF Due, Giveable, MayGive
  <2>5. Passed(t, R) /\ t.finals = h.finals
    BY <1>4, <2>1, <2>4, ResolvingPassed
  <2> HIDE DEF t
  <2>6. PassOn(t)
    BY <1>2, <1>4, <2>5 DEF PassOn
  <2> QED BY <1>6, <2>6, ScriptPasses DEF t
<1> QED BY <1>1, <1>5, <1>6

LEMMA CallHeldPasses ==
    ASSUME PromiseAssumption, Inv(st, frame, pc), NEW R, st.finals \subseteq R, Passed(st, R), CallHeld
    PROVE  PassOn(st')
<1>1. PICK h \in st.held : \E v \in IF h.side = 0 THEN Values ELSE Reasons : Script("settle", Call(st, h, v))
  BY DEF CallHeld
<1>2. PICK v \in Values \cup Reasons : Script("settle", Call(st, h, v))
  BY <1>1
<1>3. v \in AllValues /\ ValueOK(st, v)
  BY <1>2, InvParts, ValuesOK
<1>4. CombsCount(st)
  BY InvParts, GoodCounts
<1>5. Passed(Call(st, h, v), R) /\ Call(st, h, v).finals = st.finals
  BY <1>3, <1>4, HeldCallPassed
<1>6. PassOn(Call(st, h, v))
  BY <1>5 DEF PassOn
<1> QED BY <1>2, <1>6, ScriptPasses

LEMMA StaticPasses ==
    ASSUME PromiseAssumption, NEW R, st.finals \subseteq R, Passed(st, R), Static
    PROVE  PassOn(st')
<1>1. ASSUME NEW v \in Values, Script("static", StaticResolve(st, v))
      PROVE  PassOn(st')
  <2>1. v \in AllValues /\ ValueOK(st, v)
    BY PassedParts, ValuesOK
  <2>2. Passed(StaticResolve(st, v), R) /\ StaticResolve(st, v).finals = st.finals
    BY <2>1, StaticPassed
  <2>3. PassOn(StaticResolve(st, v))
    BY <2>2 DEF PassOn
  <2> QED BY <1>1, <2>3, ScriptPasses
<1>2. ASSUME NEW v \in Reasons, NEW c, c = NewCapability(st),
             Script("static", CallResolving(c, Len(c.pair), 1, v))
      PROVE  PassOn(st')
  <2> DEFINE t == CallResolving(c, Len(c.pair), 1, v)
  <2>1. v \in AllValues /\ ValueOK(st, v) /\ 1 \in Sides
    BY PassedParts, ValuesOK DEF Sides
  <2>2. Passed(t, R) /\ t.finals = st.finals
    BY <1>2, <2>1, MadePassed
  <2> HIDE DEF t
  <2>3. PassOn(t)
    BY <2>2 DEF PassOn
  <2> QED BY <1>2, <2>3, ScriptPasses DEF t
<1> QED BY <1>1, <1>2 DEF Static

LEMMA CallThenPasses ==
    ASSUME PromiseAssumption, NEW R, st.finals \subseteq R, Passed(st, R), CallThen
    PROVE  PassOn(st')
<1>1. PICK p \in Visible, f \in {User, NoHandler}, g \in {User, NoHandler} : Script("then", Then(st, p, f, g))
  BY DEF CallThen
<1>2. ThenArgs(st, p, f, g)
  BY PassedParts, ValuesOK, SimpleFunctionsOK DEF ThenArgs
<1>3. MayTake(st, R, p, Both(f, g), 0) /\ HomeFns(st, p, Both(f, g))
  BY FunctionFields, PassedParts, PlainTake
<1>4. Passed(Then(st, p, f, g), R) /\ Then(st, p, f, g).finals = st.finals
  BY <1>2, <1>3, ThenPassed
<1>5. PassOn(Then(st, p, f, g))
  BY <1>4 DEF PassOn
<1> QED BY <1>1, <1>5, ScriptPasses

\* finally: its promise passes on the outcome of the one it is called on.
LEMMA CallFinallyPasses ==
    ASSUME PromiseAssumption, NEW R, st.finals \subseteq R, Passed(st, R), CallFinally
    PROVE  PassOn(st')
<1>1. PICK p \in Visible :
        LET s == Then(st, p, Finally(0), Finally(1)) IN
        Script("finally", [s EXCEPT !.finals = @ \cup {<<p, Len(s.prom)>>}])
  BY DEF CallFinally
<1> DEFINE f == Finally(0)
           g == Finally(1)
           fns == Both(f, g)
           s == Then(st, p, f, g)
           new == Len(s.prom)
           e == <<p, new>>
           t == [s EXCEPT !.finals = @ \cup {e}]
           Q == R \cup {<<p, new>>}
<1>2. Script("finally", t) /\ s = Then(st, p, f, g) /\ new = Len(s.prom)
  BY <1>1
<1>3. ThenArgs(st, p, f, g) /\ p \in DOMAIN st.prom
  BY PassedParts, ValuesOK, SimpleFunctionsOK DEF ThenArgs, Sides
<1>4. f.fn = "finally" /\ g.fn = "finally" /\ Both(f, g) = Both(Finally(0), Finally(1))
  BY FunctionFields
<1>5. st \in States /\ RefInv(st)
  BY PassedParts
<1> HIDE DEF f, g, s, new
<1>6. MayTake(st, R, p, Both(f, g), 0) /\ HomeFns(st, p, Both(f, g))
  BY <1>4, <1>5, PlainTake
<1>7. /\ Passed(s, R) /\ s.finals = st.finals /\ new = Len(st.prom) + 1
      /\ \E c : CapEffect(st, c) /\ ThenEffect(c, s, p, Both(f, g), Len(st.pair) + 1)
  BY <1>2, <1>3, <1>6, ThenPassed
<1>8. PICK c : CapEffect(st, c) /\ ThenEffect(c, s, p, Both(f, g), Len(st.pair) + 1)
  BY <1>7
<1>9. p \in DOMAIN c.prom /\ fns = Both(Finally(0), Finally(1)) /\ ThenEffect(c, s, p, fns, Len(st.pair) + 1)
  BY <1>3, <1>4, <1>8 DEF CapEffect, Added
<1>10. Passes(s, R, p, new)
  <2> HIDE DEF fns
  <2>1. p = p /\ fns = Both(Finally(0), Finally(1))
    BY <1>9
  <2>2. Passes(s, R, p, Len(st.prom) + 1)
    BY <1>3, <1>5, <1>8, <1>9, <2>1, NewPasses
  <2> QED BY <1>7, <2>2
<1>11. Passed(s, Q)
  BY <1>7, <1>10, PassedMore
<1>12. e \in Nat \X Nat /\ e \in Q /\ R \subseteq Q
  <2>1. p \in Nat /\ Len(st.prom) \in Nat
    BY <1>3, <1>5, Elements
  <2> QED BY <1>7, <2>1
<1> HIDE DEF e, Q
<1>13. RefInv(s) /\ s \in States /\ PassInv(s, Q) /\ AnswerInv(s) /\ Sound(s)
  BY <1>11, PassedParts
<1>14. FinalEffect(s, t, e)
  BY <1>12, <1>13, FinalIs
<1> HIDE DEF t
<1>15. Grows(s, t) /\ RefInv(t)
  BY <1>13, <1>14, FinalRef
<1>16. /\ QuietEffect(s, t) /\ t.finals = s.finals \cup {e} /\ t.prom = s.prom /\ t.comb = s.comb
       /\ t.held = s.held /\ t.thens = s.thens
  BY <1>14 DEF FinalEffect, QuietEffect
<1>17. Sound(t)
  BY <1>13, <1>15, <1>16, QuietSound
<1>18. PassInv(t, Q)
  BY <1>13, <1>14, FinalPass
<1>19. AnswerInv(t)
  BY <1>13, <1>15, <1>16, PlainAnswers
<1>20. PassOn(t)
  <2>1. t.finals \subseteq Q
    BY <1>7, <1>12, <1>16
  <2> QED BY <1>17, <1>18, <1>19, <2>1 DEF PassOn, Passed
<1> QED BY <1>2, <1>20, ScriptPasses

LEMMA AwaitPasses ==
    ASSUME PromiseAssumption, NEW R, st.finals \subseteq R, Passed(st, R), Await
    PROVE  PassOn(st')
<1>1. PICK v \in Values : Script("await", PerformThen(StaticResolve(st, v), Resolved(st, v), User, User, 0))
  BY DEF Await
<1> DEFINE s == StaticResolve(st, v)
           p == Resolved(st, v)
           f == User
           t == PerformThen(s, p, f, f, 0)
<1>2. v \in AllValues /\ ValueOK(st, v)
  BY PassedParts, ValuesOK
<1>3. Passed(s, R) /\ s.finals = st.finals /\ p \in DOMAIN s.prom
  BY <1>2, StaticPassed
<1>4. ThenArgs(s, p, f, f) /\ f.fn = "user"
  BY <1>3, SimpleFunctionsOK, FunctionFields DEF ThenArgs
<1>5. Script("await", t) /\ t = PerformThen(s, p, f, f, 0)
  BY <1>1
<1> HIDE DEF s, p, f, t
<1>6. MayTake(s, R, p, Both(f, f), 0) /\ HomeFns(s, p, Both(f, f))
  BY <1>3, <1>4, PassedParts, PlainTake
<1>7. Passed(t, R)
  BY <1>3, <1>4, <1>5, <1>6, PerformThenPassed
<1>8. t.finals = s.finals
  BY <1>3, <1>4, <1>5, <1>6, PerformThenPassed
<1>9. PassOn(t)
  BY <1>3, <1>7, <1>8 DEF PassOn
<1> QED BY <1>5, <1>9, ScriptPasses

LEMMA CombinePasses ==
    ASSUME NEW R, st.finals \subseteq R, Passed(st, R), Combine
    PROVE  PassOn(st')
<1>1. PICK kind \in {"all", "allSettled", "any", "race"} : Script(kind, NewCombinator(st, kind))
  BY DEF Combine
<1>2. Passed(NewCombinator(st, kind), R) /\ NewCombinator(st, kind).finals = st.finals
  BY NewCombinatorPassed
<1>3. PassOn(NewCombinator(st, kind))
  BY <1>2 DEF PassOn
<1> QED BY <1>1, <1>3, ScriptPasses

LEMMA CombineItemPasses ==
    ASSUME PromiseAssumption, NEW R, st.finals \subseteq R, Passed(st, R), CombineItem
    PROVE  PassOn(st')
<1>1. PICK c \in DOMAIN st.comb, v \in Values, native \in BOOLEAN :
         Innermost(c) /\ Script(st.comb[c].kind, AddItem(st, c, v, native))
  BY DEF CombineItem
<1>2. v \in AllValues /\ ValueOK(st, v) /\ st.comb[c].open
  BY <1>1, PassedParts, ValuesOK DEF Innermost
<1>3. Passed(AddItem(st, c, v, native), R) /\ AddItem(st, c, v, native).finals = st.finals
  BY <1>2, AddItemPassed
<1>4. PassOn(AddItem(st, c, v, native))
  BY <1>3 DEF PassOn
<1> QED BY <1>1, <1>4, ScriptPasses

LEMMA CombineEndPasses ==
    ASSUME PromiseAssumption, Inv(st, frame, pc), NEW R, st.finals \subseteq R, Passed(st, R), CombineEnd
    PROVE  PassOn(st')
<1>1. PICK c \in DOMAIN st.comb :
         /\ Innermost(c)
         /\ \/ Script(st.comb[c].kind, EndItems(st, c))
            \/ \E v \in Reasons : Script(st.comb[c].kind, FailItems(st, c, v))
  BY DEF CombineEnd
<1>2. st.comb[c].open /\ CombsCount(st)
  BY <1>1, InvParts, GoodCounts DEF Innermost
<1>3. CASE Script(st.comb[c].kind, EndItems(st, c))
  <2>1. Passed(EndItems(st, c), R) /\ EndItems(st, c).finals = st.finals
    BY <1>2, EndItemsPassed
  <2>2. PassOn(EndItems(st, c))
    BY <2>1 DEF PassOn
  <2> QED BY <1>3, <2>2, ScriptPasses
<1>4. ASSUME NEW v \in Reasons, Script(st.comb[c].kind, FailItems(st, c, v))
      PROVE  PassOn(st')
  <2>1. v \in AllValues /\ ValueOK(st, v)
    BY PassedParts, ValuesOK
  <2>2. Passed(FailItems(st, c, v), R) /\ FailItems(st, c, v).finals = st.finals
    BY <2>1, FailItemsPassed
  <2>3. PassOn(FailItems(st, c, v))
    BY <2>2 DEF PassOn
  <2> QED BY <1>4, <2>3, ScriptPasses
<1> QED BY <1>1, <1>3, <1>4

LEMMA QueueCallbackPasses ==
    ASSUME Inv(st, frame, pc), Inv(st, frame, pc)', NEW R, st.finals \subseteq R, Passed(st, R), QueueCallback
    PROVE  PassOn(st')
<1> DEFINE t == [st EXCEPT !.jobs = Append(@, Simple("finrec"))]
<1>1. Script("collect", t)
  BY DEF QueueCallback
<1>2. st \in States /\ RefInv(st) /\ PassInv(st, R) /\ AnswerInv(st)
  BY PassedParts
<1>3. CallbackEffect(st, t)
  BY <1>2, CallbackIs
<1>4. t = st'
  BY <1>1 DEF Script
<1>5. Sound(t)
  <2>1. Good(st', {}, {}, Running(frame'))
    BY DEF Inv
  <2> QED BY <1>4, <2>1, GoodSound
<1> HIDE DEF t
<1>6. Grows(st, t) /\ PassInv(t, R)
  BY <1>2, <1>3, CallbackRef, CallbackPass
<1>7. t.prom = st.prom /\ t.comb = st.comb /\ t.held = st.held /\ t.thens = st.thens /\ t.finals = st.finals
  BY <1>3 DEF CallbackEffect
<1>8. AnswerInv(t)
  BY <1>2, <1>6, <1>7, PlainAnswers
<1>9. PassOn(t)
  BY <1>5, <1>6, <1>7, <1>8 DEF PassOn, Passed
<1> QED BY <1>1, <1>9, ScriptPasses

LEMMA ReturnPasses ==
    ASSUME PromiseAssumption, Inv(st, frame, pc), NEW R, st.finals \subseteq R, Passed(st, R), Return
    PROVE  PassOn(st')
<1>1. PICK side \in Sides, v \in Values \cup Reasons : st' = Ended(side, v)
  BY DEF Return
<1>2. v \in AllValues /\ ValueOK(st, v) /\ FrameInv(st, frame)
  BY InvParts, ValuesOK DEF Inv
<1>3. PICK Q : R \subseteq Q /\ Passed(st', Q) /\ st'.finals = st.finals
  BY <1>1, <1>2, EndedPassed
<1> QED BY <1>3 DEF PassOn

\* The first job is taken.
LEMMA PoppedPassed ==
    ASSUME NEW R, Passed(st, R), Good(st, {}, {}, {}), st.jobs # <<>>, NEW j, j = Head(st.jobs),
           j.job # "thenable", NEW t, t = Popped(j)
    PROVE  Passed(t, R) /\ t.finals = st.finals
<1>1. RefInv(st) /\ st \in States /\ PassInv(st, R) /\ AnswerInv(st)
  BY PassedParts
<1>2. PopEffect(st, t, j)
  BY <1>1, PoppedIs
<1>3. Grows(st, t) /\ Good(t, {}, {}, Running(j))
  BY PoppedGood
<1>4. /\ t.prom = st.prom /\ t.comb = st.comb /\ t.held = st.held /\ t.thens = st.thens
      /\ t.finals = st.finals
  BY <1>2 DEF PopEffect
<1>5. PassInv(t, R)
  BY <1>1, <1>2, PopPass
<1>6. AnswerInv(t)
  BY <1>1, <1>3, <1>4, PlainAnswers
<1> QED BY <1>3, <1>4, <1>5, <1>6, GoodSound DEF Passed

LEMMA PoppedPairPassed ==
    ASSUME NEW R, Passed(st, R), Good(st, {}, {}, {}), st.jobs # <<>>, NEW j, j = Head(st.jobs),
           j.job = "thenable", NEW c, c = NewPair(Popped(j), j.promise), NEW k, k = Len(c.pair)
    PROVE  /\ Passed(c, R) /\ c.finals = st.finals /\ k \in DOMAIN c.pair /\ ValueOK(c, j.v)
           /\ \A p : <<p, c.pair[k].promise>> \in R => Onward(R, p, j.v)
<1>1. RefInv(st) /\ st \in States /\ PassInv(st, R) /\ AnswerInv(st)
  BY PassedParts
<1>2. PopPairEffect(st, c, j) /\ k = Len(st.pair) + 1
  BY <1>1, PopPairIs
<1>3. Good(c, {k}, {}, {}) /\ Grows(st, c) /\ k \in DOMAIN c.pair /\ ValueOK(c, j.v)
  BY PoppedPairGood
<1>4. /\ c.prom = st.prom /\ c.comb = st.comb /\ c.held = st.held /\ c.thens = st.thens
      /\ c.finals = st.finals
  BY <1>2 DEF PopPairEffect
<1>5. PassInv(c, R) /\ \A p : <<p, c.pair[k].promise>> \in R => Onward(R, p, j.v)
  BY <1>1, <1>2, PopPairPass
<1>6. AnswerInv(c)
  BY <1>1, <1>3, <1>4, PlainAnswers
<1> QED BY ZenonT(60), <1>3, <1>4, <1>5, <1>6, GoodSound DEF Passed

LEMMA RunNativePasses ==
    ASSUME Inv(st, frame, pc), NEW R, st.finals \subseteq R, Passed(st, R), RunNative
    PROVE  PassOn(st')
<1> DEFINE j == Head(st.jobs)
           c == NewPair(Popped(j), j.promise)
           k == Len(c.pair)
           d == Popped(j)
<1>1. /\ pc = "jobs" /\ st.jobs # <<>> /\ IsNative(j)
      /\ st' = IF j.job = "reaction" THEN Reaction(d, j) ELSE Then(c, j.v[2], Settle(k, 0), Settle(k, 1))
  BY DEF RunNative
<1>2. Good(st, {}, {}, {})
  BY <1>1, MainFrame, InvParts DEF Inv
<1>3. d = Popped(j) /\ c = NewPair(Popped(j), j.promise) /\ k = Len(c.pair) /\ j = Head(st.jobs)
  OBVIOUS
<1> HIDE DEF j, c, k, d
<1>4. CASE j.job = "reaction"
  <2>1. st' = Reaction(d, j) /\ j.handler.fn \notin {"user", "finally"}
    BY <1>1, <1>4 DEF IsNative
  <2>2. Good(d, {}, {}, Running(j)) /\ j \in Entries /\ QueuedOK(d, j)
    BY <1>1, <1>2, <1>3, <1>4, PoppedGood
  <2>3. ReactionArgs(d, j) /\ JobOK(d, j) /\ CombsCount(d)
    BY <1>4, <2>2, ReactionArgsAre, GoodCounts DEF QueuedOK, Good, CoreInv
  <2>4. Passed(d, R) /\ d.finals = st.finals
    BY <1>1, <1>2, <1>3, <1>4, PoppedPassed
  <2>5. Passed(st', R) /\ st'.finals = d.finals
    BY <1>4, <2>1, <2>3, <2>4, ReactionPassed
  <2> QED BY <2>4, <2>5 DEF PassOn
<1>5. CASE j.job # "reaction"
  <2> DEFINE p == j.v[2]
             f == Settle(k, 0)
             g == Settle(k, 1)
  <2>1. st' = Then(c, p, f, g) /\ j.job = "thenable" /\ j.v[1] = "prom"
    BY <1>1, <1>5 DEF IsNative
  <2>2. /\ Passed(c, R) /\ c.finals = st.finals /\ k \in DOMAIN c.pair /\ ValueOK(c, j.v)
        /\ \A q : <<q, c.pair[k].promise>> \in R => Onward(R, q, j.v)
    BY <1>1, <1>2, <1>3, <2>1, PoppedPairPassed
  <2>3. c \in States /\ \A l \in DOMAIN c.pair : l \in Nat /\ l # 0
    BY <2>2, PassedParts, Elements
  <2>4. f \in AllFunctions /\ g \in AllFunctions
    BY <2>2, <2>3, ConstantTypes DEF Sides
  <2>5. f.fn = "settle" /\ f.k = k /\ f.side = 0 /\ g.fn = "settle" /\ g.k = k /\ g.side = 1
    BY FunctionFields
  <2>6. p \in DOMAIN c.prom
    BY <2>1, <2>2 DEF ValueOK
  <2>7. \A q : <<q, c.pair[k].promise>> \in R => <<q, p>> \in R
    BY <2>2 DEF Onward
  <2> HIDE DEF p, f, g
  <2>8. ThenArgs(c, p, f, g)
    BY <2>2, <2>4, <2>5, <2>6 DEF ThenArgs, FunctionOK
  <2>9. MayTake(c, R, p, Both(f, g), 0)
    <3>1. \A l : \A x \in Sides : Fulfills(Both(f, g)[x], l) => x = 0 /\ l = k
      BY <2>5, BothIs DEF Fulfills
    <3> QED BY <2>3, <2>7, <3>1 DEF MayTake
  <2>10. HomeFns(c, p, Both(f, g))
    BY <2>5, BothIs DEF HomeFns
  <2>11. Passed(st', R) /\ st'.finals = c.finals
    BY <2>1, <2>2, <2>8, <2>9, <2>10, ThenPassed
  <2> QED BY <2>2, <2>11 DEF PassOn
<1> QED BY <1>4, <1>5

LEMMA RunScriptPasses ==
    ASSUME Inv(st, frame, pc), NEW R, st.finals \subseteq R, Passed(st, R), RunScript
    PROVE  PassOn(st')
<1> DEFINE j == Head(st.jobs)
           c == NewPair(Popped(j), j.promise)
           k == Len(c.pair)
           d == Popped(j)
           h == [c EXCEPT !.held = @ \cup {Settle(k, 0), Settle(k, 1)}]
<1>1. /\ pc = "jobs" /\ st.jobs # <<>> /\ ~IsNative(j)
      /\ IF j.job = "thenable" THEN st' = h ELSE st' = d
  BY DEF RunScript
<1>2. Good(st, {}, {}, {})
  BY <1>1, MainFrame, InvParts DEF Inv
<1>3. /\ d = Popped(j) /\ c = NewPair(Popped(j), j.promise) /\ k = Len(c.pair) /\ j = Head(st.jobs)
      /\ h = [c EXCEPT !.held = @ \cup {Settle(k, 0), Settle(k, 1)}]
  OBVIOUS
<1> HIDE DEF j, c, k, d, h
<1>4. CASE j.job = "thenable"
  <2>1. /\ Passed(c, R) /\ c.finals = st.finals /\ k \in DOMAIN c.pair
        /\ \A p : <<p, c.pair[k].promise>> \in R => Onward(R, p, j.v)
    BY <1>1, <1>2, <1>3, <1>4, PoppedPairPassed
  <2>2. Free(R, c.pair[k].promise)
    BY <1>1, <1>4, <2>1 DEF IsNative, Onward, Free
  <2>3. Passed(c, R) /\ k \in DOMAIN c.pair
    BY <2>1
  <2>4. Passed(h, R) /\ h.finals = c.finals
    BY <1>3, <2>2, <2>3, PairPassed
  <2> QED BY <1>1, <1>4, <2>1, <2>4 DEF PassOn
<1>5. CASE j.job # "thenable"
  <2>1. Passed(d, R) /\ d.finals = st.finals
    BY <1>1, <1>2, <1>3, <1>5, PoppedPassed
  <2> QED BY <1>1, <1>5, <2>1 DEF PassOn
<1> QED BY <1>4, <1>5

LEMMA PassStep ==
    ASSUME PromiseAssumption, Inv(st, frame, pc), PassOn(st), [Next]_vars
    PROVE  PassOn(st')
<1>0. PICK R : st.finals \subseteq R /\ Passed(st, R)
  BY DEF PassOn
<1>1. CASE NewPromise
  BY <1>0, <1>1, NewPromisePasses
<1>2. CASE CallHeld
  BY <1>0, <1>2, CallHeldPasses
<1>3. CASE Static
  BY <1>0, <1>3, StaticPasses
<1>4. CASE CallThen
  BY <1>0, <1>4, CallThenPasses
<1>5. CASE CallFinally
  BY <1>0, <1>5, CallFinallyPasses
<1>6. CASE Await
  BY <1>0, <1>6, AwaitPasses
<1>7. CASE Combine
  BY <1>0, <1>7, CombinePasses
<1>8. CASE CombineItem
  BY <1>0, <1>8, CombineItemPasses
<1>9. CASE CombineEnd
  BY <1>0, <1>9, CombineEndPasses
<1>10. CASE QueueCallback
  <2>1. Inv(st, frame, pc)'
    BY InvStep
  <2> QED BY <1>0, <1>10, <2>1, QueueCallbackPasses
<1>11. CASE Return
  BY <1>0, <1>11, ReturnPasses
<1>12. CASE RunNative
  BY <1>0, <1>12, RunNativePasses
<1>13. CASE RunScript
  BY <1>0, <1>13, RunScriptPasses
<1>14. CASE Drained \/ Check \/ UNCHANGED vars
  <2>1. st' = st
    BY <1>14 DEF Drained, Check, vars
  <2> QED BY <2>1
<1> QED BY <1>1, <1>2, <1>3, <1>4, <1>5, <1>6, <1>7, <1>8, <1>9, <1>10, <1>11, <1>12, <1>13, <1>14
        DEF Next

LEMMA InitPasses ==
    ASSUME Init
    PROVE  PassOn(st)
<1> DEFINE e == Empty
           N == {}
<1>1. st = e
  BY DEF Init
<1>2. /\ e.prom = <<>> /\ e.pair = <<>> /\ e.comb = <<>> /\ e.jobs = <<>> /\ e.held = {}
      /\ e.thens = <<>> /\ e.finals = {}
  BY DEF Empty
<1>3. Sound(st)
  BY InitGood, InvParts, GoodSound
<1>4. \A p, d : <<p, d>> \notin N
  OBVIOUS
<1> HIDE DEF e, N
<1>5. DOMAIN e.prom = {} /\ DOMAIN e.comb = {} /\ DOMAIN e.thens = {}
  BY <1>2
<1>6. AnswerInv(e)
  BY <1>2, <1>5 DEF AnswerInv, ValueInv, ResultInv, HomeInv
<1>7. PassInv(e, N)
  BY <1>4 DEF PassInv
<1> QED BY <1>1, <1>2, <1>3, <1>6, <1>7 DEF PassOn, Passed

\* A promise of finally that is fulfilled has the outcome of its promise.
LEMMA FinallyFollows ==
    ASSUME PassOn(st)
    PROVE  FinallyPassesOn
<1>1. PICK R : st.finals \subseteq R /\ Passed(st, R)
  BY DEF PassOn
<1>2. st \in States /\ PassInv(st, R)
  BY <1>1, PassedParts
<1> SUFFICES ASSUME NEW f \in st.finals, st.prom[f[2]].state = "fulfilled"
             PROVE  st.prom[f[1]].state = "fulfilled" /\ st.prom[f[2]].result = st.prom[f[1]].result
  BY DEF FinallyPassesOn
<1>3. f = <<f[1], f[2]>> /\ f \in R
  BY <1>1, <1>2, StateParts
<1>4. Passes(st, R, f[1], f[2])
  BY <1>2, <1>3 DEF PassInv
<1>5. HasOutcome(st, f[1], 0, st.prom[f[2]].result)
  BY <1>4 DEF Passes
<1> QED BY <1>5 DEF HasOutcome, Outcome

\* The array of a combinator has the answers of its items.
LEMMA AnswersFollow ==
    ASSUME PassOn(st)
    PROVE  AnswersInPlace
<1>1. RefInv(st) /\ AnswerInv(st)
  BY PassedParts DEF PassOn
<1> SUFFICES ASSUME NEW c \in DOMAIN st.comb, ArrayOf(c, st.prom[st.pair[st.comb[c].k].promise].result),
                    ~AnsweredTwice(st, c), NEW n \in DOMAIN st.comb[c].values
             PROVE  /\ st.comb[c].values[n] # Hole
                    /\ st.comb[c].items[n].native =>
                          /\ ~Pending(st, st.comb[c].items[n].p)
                          /\ st.comb[c].values[n].v = st.prom[st.comb[c].items[n].p].result
                          /\ st.comb[c].values[n].side =
                                IF st.prom[st.comb[c].items[n].p].state = "rejected" THEN 1 ELSE 0
  BY ZenonT(60) DEF AnswersInPlace, ArrayOf, AnsweredTwice
<1>2. CombOK(st, c)
  BY <1>1 DEF RefInv
<1>3. n \in DOMAIN st.comb[c].items /\ st.pair[st.comb[c].k].promise \in DOMAIN st.prom
  BY ZenonT(60), <1>1, <1>2 DEF CombOK, RefInv
<1>4. Covered(st, c)
  BY <1>1, <1>3 DEF AnswerInv, ResultInv
<1>5. PICK x \in Sides : <<n, x>> \in st.comb[c].called
  BY ZenonT(60), <1>3, <1>4 DEF Covered
<1>6. Answered(st, c, n, x)
  BY ZenonT(60), <1>1, <1>3, <1>5 DEF AnswerInv, ValueInv
<1>7. ASSUME st.comb[c].items[n].native
      PROVE  /\ ~Pending(st, st.comb[c].items[n].p)
             /\ st.comb[c].values[n].v = st.prom[st.comb[c].items[n].p].result
             /\ st.comb[c].values[n].side = IF st.prom[st.comb[c].items[n].p].state = "rejected" THEN 1 ELSE 0
  <2>1. HasOutcome(st, st.comb[c].items[n].p, x, st.comb[c].values[n].v) /\ st.comb[c].values[n].side = x
    BY ZenonT(60), <1>6, <1>7 DEF Answered
  <2>2. x = 0 \/ x = 1
    BY DEF Sides
  <2> QED BY ZenonT(60), <2>1, <2>2 DEF HasOutcome, Outcome, Pending
<1> QED BY ZenonT(60), <1>6, <1>7 DEF Answered

\* A promise of finally is fulfilled only as its promise was, whatever the
\* callback did; and the arrays of all, allSettled and any have every item's
\* answer in its place.
THEOREM OutcomesArePassedOn ==
    ASSUME PromiseAssumption
    PROVE  Spec => []OutcomesPassOn
<1>1. Init => Inv(st, frame, pc) /\ PassOn(st)
  BY InitGood, InitPasses
<1>2. Inv(st, frame, pc) /\ PassOn(st) /\ [Next]_vars => (Inv(st, frame, pc) /\ PassOn(st))'
  BY InvStep, PassStep
<1>3. PassOn(st) => OutcomesPassOn
  BY FinallyFollows, AnswersFollow DEF OutcomesPassOn
<1> QED BY <1>1, <1>2, <1>3, PTL DEF Spec

-----------------------------------------------------------------------------

(***************************************************************************)
(* Searching and deleting in lists.                                        *)
(***************************************************************************)

\* A nonempty set of positions has a first one.
LEMMA FirstPosition ==
    ASSUME NEW I \in SUBSET Nat, I # {}
    PROVE  Min(I) \in I /\ \A i \in I : Min(I) <= i
<1>1. IsWellFoundedOn(OpToRel(<, Nat), Nat)
  BY NatLessThanWellFounded
<1>2. PICK m \in I : \A i \in I : ~ (<<i, m>> \in OpToRel(<, Nat))
  BY <1>1, WFMin
<1>3. \A i \in I : ~ (i < m)
  BY <1>2 DEF OpToRel
<1>4. \E x \in I : \A y \in I : x <= y
  BY <1>3
<1> QED BY <1>4 DEF Min

\* list_del
LEMMA RemoveAtIs ==
    ASSUME NEW S, NEW s \in Seq(S), NEW i \in 1..Len(s)
    PROVE  /\ RemoveAt(s, i) \in Seq(S)
           /\ Len(RemoveAt(s, i)) = Len(s) - 1
           /\ \A j \in 1..(Len(s) - 1) : RemoveAt(s, i)[j] = s[IF j < i THEN j ELSE j + 1]
<1> DEFINE a == SubSeq(s, 1, i - 1)
<1> DEFINE b == SubSeq(s, i + 1, Len(s))
<1>1. a \in Seq(S) /\ Len(a) = i - 1 /\ \A j \in 1..(i - 1) : a[j] = s[j]
  OBVIOUS
<1>2. b \in Seq(S) /\ Len(b) = Len(s) - i /\ \A j \in 1..(Len(s) - i) : b[j] = s[i + j]
  OBVIOUS
<1> HIDE DEF a, b
<1>3. a \o b \in Seq(S) /\ Len(a \o b) = Len(s) - 1
  <2>1. a \o b \in Seq(S) /\ Len(a \o b) = Len(a) + Len(b)
    BY <1>1, <1>2, ConcatProperties
  <2>2. Len(s) \in Nat
    OBVIOUS
  <2> QED BY <1>1, <1>2, <2>1, <2>2
<1>4. ASSUME NEW j \in 1..(Len(s) - 1)
      PROVE  (a \o b)[j] = s[IF j < i THEN j ELSE j + 1]
  <2>1. CASE j < i
    BY <1>1, <1>2, <2>1
  <2>2. CASE ~ (j < i)
    <3>1. (a \o b)[j] = b[j - (i - 1)]
      BY <1>1, <1>2, <2>2
    <3>2. j - (i - 1) \in 1..(Len(s) - i) /\ i + (j - (i - 1)) = j + 1
      BY <2>2
    <3> QED BY <1>2, <2>2, <3>1, <3>2
  <2> QED BY <2>1, <2>2
<1> QED BY <1>3, <1>4 DEF RemoveAt, a, b

\* Where what is at j was before the deletion at i.
At(i, j) == IF j < i THEN j ELSE j + 1

\* The others keep their order, so that none of them is there twice.
LEMMA RemoveAtPositions ==
    ASSUME NEW S, NEW s \in Seq(S), NEW i \in 1..Len(s)
    PROVE  /\ RemoveAt(s, i) \in Seq(S)
           /\ \A j \in 1..Len(RemoveAt(s, i)) :
                  RemoveAt(s, i)[j] = s[At(i, j)] /\ At(i, j) \in 1..Len(s)
           /\ \A j, k \in 1..Len(RemoveAt(s, i)) : At(i, j) = At(i, k) => j = k
<1>1. Len(s) \in Nat
  OBVIOUS
<1>2. \A j \in 1..(Len(s) - 1) : At(i, j) \in 1..Len(s)
  BY <1>1 DEF At
<1>3. \A j, k \in 1..(Len(s) - 1) : At(i, j) = At(i, k) => j = k
  BY <1>1 DEF At
<1>4. /\ RemoveAt(s, i) \in Seq(S) /\ Len(RemoveAt(s, i)) = Len(s) - 1
      /\ \A j \in 1..(Len(s) - 1) : RemoveAt(s, i)[j] = s[At(i, j)]
  BY RemoveAtIs DEF At
<1> QED BY <1>2, <1>3, <1>4

\* What is not deleted is still there.
LEMMA RemoveAtKeeps ==
    ASSUME NEW S, NEW s \in Seq(S), NEW i \in 1..Len(s), NEW n \in 1..Len(s), n # i
    PROVE  \E j \in 1..Len(RemoveAt(s, i)) : RemoveAt(s, i)[j] = s[n]
<1> DEFINE j == IF n < i THEN n ELSE n - 1
<1>1. j \in 1..(Len(s) - 1) /\ n = IF j < i THEN j ELSE j + 1
  OBVIOUS
<1> HIDE DEF j
<1>2. RemoveAt(s, i)[j] = s[n] /\ Len(RemoveAt(s, i)) = Len(s) - 1
  BY <1>1, RemoveAtIs
<1> QED BY <1>1, <1>2

\* The entries of the lists.
TimerEntry == [tok : Toks, id : {-1} \cup 1..MaxId, left : 0..MaxDelay]
FdEntry == [fd : Fds, fn : SUBSET {1, 2}]

\* find_timer_by_id
LEMMA FindTimerIs ==
    ASSUME LoopTypeOK, NEW id \in Int, FindTimer(id) # 0
    PROVE  FindTimer(id) \in 1..Len(timers) /\ timers[FindTimer(id)].id = id /\ id > 0
<1> DEFINE I == {i \in 1..Len(timers) : timers[i].id = id}
<1>1. I \in SUBSET Nat /\ Len(timers) \in Nat
  BY DEF LoopTypeOK
<1>2. id > 0 /\ I # {} /\ FindTimer(id) = Min(I)
  BY DEF FindTimer, SelectInSeq
<1> QED BY <1>1, <1>2, FirstPosition

\* The first timer that is due.
LEMMA ExpiredIs ==
    ASSUME LoopTypeOK, Expired # 0
    PROVE  /\ Expired \in 1..Len(timers) /\ timers[Expired].left = 0
           /\ \A m \in 1..(Expired - 1) : timers[m].left # 0
<1> DEFINE I == {i \in 1..Len(timers) : timers[i].left = 0}
<1>1. I \in SUBSET Nat /\ Len(timers) \in Nat
  BY DEF LoopTypeOK
<1>2. I # {} /\ Expired = Min(I)
  BY DEF Expired, SelectInSeq
<1>3. Expired \in I /\ \A i \in I : Expired <= i
  BY <1>1, <1>2, FirstPosition
<1> QED BY <1>1, <1>3

\* find_rh
LEMMA FindRhIs ==
    ASSUME LoopTypeOK, NEW fd
    PROVE  /\ FindRh(fd) # 0 => FindRh(fd) \in 1..Len(rw) /\ rw[FindRh(fd)].fd = fd
           /\ FindRh(fd) = 0 => \A n \in 1..Len(rw) : rw[n].fd # fd
<1> DEFINE I == {i \in 1..Len(rw) : rw[i].fd = fd}
<1>1. I \in SUBSET Nat /\ Len(rw) \in Nat /\ 0 \notin I
  BY DEF LoopTypeOK
<1>2. FindRh(fd) = IF I # {} THEN Min(I) ELSE 0
  BY DEF FindRh, SelectInSeq
<1>3. I # {} => Min(I) \in I
  BY <1>1, FirstPosition
<1> QED BY <1>1, <1>2, <1>3

\* find_sh
LEMMA FindShIs ==
    ASSUME LoopTypeOK, NEW s
    PROVE  /\ FindSh(s) # 0 => FindSh(s) \in 1..Len(sh) /\ sh[FindSh(s)] = s
           /\ FindSh(s) = 0 => \A n \in 1..Len(sh) : sh[n] # s
<1> DEFINE I == {i \in 1..Len(sh) : sh[i] = s}
<1>1. I \in SUBSET Nat /\ Len(sh) \in Nat /\ 0 \notin I
  BY DEF LoopTypeOK
<1>2. FindSh(s) = IF I # {} THEN Min(I) ELSE 0
  BY DEF FindSh, SelectInSeq
<1>3. I # {} => Min(I) \in I
  BY <1>1, FirstPosition
<1> QED BY <1>1, <1>2, <1>3

(***************************************************************************)
(* The lists.                                                              *)
(***************************************************************************)

\* What LoopTypeOK says of the lists, for any lists.
TimersOK(ts) ==
    /\ ts \in Seq(TimerEntry)
    /\ \A m, n \in 1..Len(ts) : ts[m].tok = ts[n].tok => m = n
RwOK(rs) ==
    /\ rs \in Seq(FdEntry)
    /\ \A m, n \in 1..Len(rs) : rs[m].fd = rs[n].fd => m = n
    /\ \A n \in 1..Len(rs) : rs[n].fn # {}
ShOK(ss) == ss \in Seq(Sigs) /\ \A m, n \in 1..Len(ss) : ss[m] = ss[n] => m = n
ListsOK(ts, rs, ss) == TimersOK(ts) /\ RwOK(rs) /\ ShOK(ss)

\* The lists as LoopTypeOK and EntriesHaveFunctions describe them.
LEMMA ListsNow == LoopTypeOK /\ EntriesHaveFunctions => ListsOK(timers, rw, sh)
<1> SUFFICES ASSUME LoopTypeOK, EntriesHaveFunctions PROVE ListsOK(timers, rw, sh)
  OBVIOUS
<1>1. TimersOK(timers)
  BY DEF LoopTypeOK, TimersOK, TimerEntry
<1>2. RwOK(rw)
  BY DEF LoopTypeOK, EntriesHaveFunctions, RwOK, FdEntry
<1>3. ShOK(sh)
  BY DEF LoopTypeOK, ShOK, IsInjective
<1> QED BY <1>1, <1>2, <1>3 DEF ListsOK

\* The same lists after a step.
LEMMA ListsNext ==
    ASSUME ListsOK(timers', rw', sh'), nextId' \in 1..MaxId, pending' \subseteq Sigs
    PROVE  LoopTypeOK' /\ EntriesHaveFunctions'
<1>1. /\ timers' \in Seq([tok : Toks, id : {-1} \cup 1..MaxId, left : 0..MaxDelay])
      /\ \A m, n \in DOMAIN timers' : timers'[m].tok = timers'[n].tok => m = n
  BY DEF ListsOK, TimersOK, TimerEntry
<1>2. /\ rw' \in Seq([fd : Fds, fn : SUBSET {1, 2}])
      /\ \A m, n \in DOMAIN rw' : rw'[m].fd = rw'[n].fd => m = n
      /\ \A n \in DOMAIN rw' : rw'[n].fn # {}
  BY DEF ListsOK, RwOK, FdEntry
<1>3. sh' \in Seq(Sigs) /\ IsInjective(sh')
  BY DEF ListsOK, ShOK, IsInjective
<1> QED BY <1>1, <1>2, <1>3 DEF LoopTypeOK, EntriesHaveFunctions

\* A timer is added.
LEMMA TimerAdded ==
    ASSUME NEW ts, TimersOK(ts), NEW th \in TimerEntry, \A n \in 1..Len(ts) : ts[n].tok # th.tok
    PROVE  TimersOK(Append(ts, th))
BY DEF TimersOK

\* A timer is deleted.
LEMMA TimerDeleted ==
    ASSUME NEW ts, TimersOK(ts), NEW n \in 1..Len(ts)
    PROVE  TimersOK(RemoveAt(ts, n))
<1> DEFINE r == RemoveAt(ts, n)
<1>1. ts \in Seq(TimerEntry)
  BY DEF TimersOK
<1>2. /\ r \in Seq(TimerEntry)
      /\ \A j \in 1..Len(r) : r[j] = ts[At(n, j)] /\ At(n, j) \in 1..Len(ts)
      /\ \A j, k \in 1..Len(r) : At(n, j) = At(n, k) => j = k
  BY <1>1, RemoveAtPositions
<1> HIDE DEF r
<1>3. TimersOK(r)
  BY <1>2 DEF TimersOK
<1> QED BY <1>3 DEF r

\* Time passes.
LEMMA TimersTick ==
    ASSUME LoopAssumption, NEW ts, TimersOK(ts)
    PROVE  TimersOK([n \in DOMAIN ts |-> [ts[n] EXCEPT !.left = Less(@)]])
<1>1. \A th \in TimerEntry : /\ [th EXCEPT !.left = Less(@)] \in TimerEntry
                         /\ [th EXCEPT !.left = Less(@)].tok = th.tok
  BY DEF TimerEntry, Less, LoopAssumption
<1>2. DOMAIN ts = 1..Len(ts) /\ Len(ts) \in Nat /\ \A n \in 1..Len(ts) : ts[n] \in TimerEntry
  BY DEF TimersOK
<1> DEFINE r == [n \in 1..Len(ts) |-> [ts[n] EXCEPT !.left = Less(@)]]
<1>3. r \in [1..Len(ts) -> TimerEntry] /\ \A n \in 1..Len(ts) : r[n].tok = ts[n].tok
  BY <1>1, <1>2
<1> HIDE DEF r
<1>4. r \in Seq(TimerEntry) /\ DOMAIN r = 1..Len(ts)
  BY <1>2, <1>3, SeqDef
<1>5. Len(r) = Len(ts)
  BY <1>2, <1>4, LenProperties
<1>6. TimersOK(r)
  BY <1>3, <1>4, <1>5 DEF TimersOK
<1> QED BY <1>2, <1>6 DEF r

\* A handler of a descriptor is set.
LEMMA RwSet ==
    ASSUME LoopTypeOK, RwOK(rw), NEW fd \in Fds, NEW k \in {1, 2}
    PROVE  RwOK(IF FindRh(fd) = 0 THEN Append(rw, [fd |-> fd, fn |-> {k}])
                ELSE [rw EXCEPT ![FindRh(fd)].fn = @ \cup {k}])
<1>1. CASE FindRh(fd) = 0
  <2>1. \A n \in 1..Len(rw) : rw[n].fd # fd
    BY <1>1, FindRhIs
  <2> DEFINE e == [fd |-> fd, fn |-> {k}]
  <2>2. e \in FdEntry /\ e.fd = fd /\ e.fn # {}
    BY DEF FdEntry
  <2> HIDE DEF e
  <2>4. RwOK(Append(rw, e))
    BY <2>1, <2>2, AppendProperties DEF RwOK
  <2> QED BY <1>1, <2>4 DEF e
<1>2. CASE FindRh(fd) # 0
  <2> DEFINE n == FindRh(fd)
  <2> DEFINE e == [rw[n] EXCEPT !.fn = @ \cup {k}]
  <2>1. n \in 1..Len(rw)
    BY <1>2, FindRhIs
  <2>2. rw[n] \in FdEntry
    BY <2>1 DEF RwOK
  <2>3. e \in FdEntry /\ e.fd = rw[n].fd /\ e.fn # {}
    BY <2>2 DEF FdEntry
  <2>4. [rw EXCEPT ![n].fn = @ \cup {k}] = [rw EXCEPT ![n] = e]
    BY <2>1, <2>2 DEF RwOK
  <2> HIDE DEF n, e
  <2>5. RwOK([rw EXCEPT ![n] = e])
    BY <2>1, <2>3 DEF RwOK
  <2> QED BY <1>2, <2>4, <2>5 DEF n
<1> QED BY <1>1, <1>2

\* And deleted.
LEMMA RwCleared ==
    ASSUME RwOK(rw), NEW n \in 1..Len(rw), NEW k \in {1, 2}
    PROVE  RwOK(WithoutRw(n, k))
<1>1. CASE rw[n].fn \subseteq {k}
  <2> DEFINE r == RemoveAt(rw, n)
  <2>1. rw \in Seq(FdEntry)
    BY DEF RwOK
  <2>2. /\ r \in Seq(FdEntry)
        /\ \A j \in 1..Len(r) : r[j] = rw[At(n, j)] /\ At(n, j) \in 1..Len(rw)
        /\ \A j, l \in 1..Len(r) : At(n, j) = At(n, l) => j = l
    BY <2>1, RemoveAtPositions
  <2> HIDE DEF r
  <2>3. /\ \A m, l \in 1..Len(rw) : rw[m].fd = rw[l].fd => m = l
        /\ \A m \in 1..Len(rw) : rw[m].fn # {}
    BY DEF RwOK
  <2>4. \A m, l \in 1..Len(r) : r[m].fd = r[l].fd => m = l
    BY <2>2, <2>3
  <2>5. \A m \in 1..Len(r) : r[m].fn # {}
    BY <2>2, <2>3
  <2>6. RwOK(r)
    BY <2>2, <2>4, <2>5 DEF RwOK
  <2> QED BY <1>1, <2>6 DEF r, WithoutRw
<1>2. CASE ~ (rw[n].fn \subseteq {k})
  <2> DEFINE e == [rw[n] EXCEPT !.fn = @ \ {k}]
  <2>1. rw[n] \in FdEntry
    BY DEF RwOK
  <2>2. e \in FdEntry /\ e.fd = rw[n].fd /\ e.fn # {}
    BY <1>2, <2>1 DEF FdEntry
  <2>3. [rw EXCEPT ![n].fn = @ \ {k}] = [rw EXCEPT ![n] = e]
    BY <2>1 DEF RwOK
  <2> HIDE DEF e
  <2>4. RwOK([rw EXCEPT ![n] = e])
    BY <2>2 DEF RwOK
  <2> QED BY <1>2, <2>3, <2>4 DEF WithoutRw
<1> QED BY <1>1, <1>2

\* A handler of a signal is set.
LEMMA ShSet ==
    ASSUME LoopTypeOK, ShOK(sh), NEW s \in Sigs
    PROVE  ShOK(IF FindSh(s) # 0 THEN sh ELSE Append(sh, s))
<1>1. CASE FindSh(s) = 0
  <2>1. \A n \in 1..Len(sh) : sh[n] # s
    BY <1>1, FindShIs
  <2>2. ShOK(Append(sh, s))
    BY <2>1 DEF ShOK
  <2> QED BY <1>1, <2>2
<1> QED BY <1>1

\* Deletion of a handler of a signal.
LEMMA ShReset ==
    ASSUME ShOK(sh), NEW n \in 1..Len(sh)
    PROVE  ShOK(RemoveAt(sh, n))
<1> DEFINE r == RemoveAt(sh, n)
<1>1. sh \in Seq(Sigs)
  BY DEF ShOK
<1>2. /\ r \in Seq(Sigs)
      /\ \A j \in 1..Len(r) : r[j] = sh[At(n, j)] /\ At(n, j) \in 1..Len(sh)
      /\ \A j, k \in 1..Len(r) : At(n, j) = At(n, k) => j = k
  BY <1>1, RemoveAtPositions
<1> HIDE DEF r
<1>3. ShOK(r)
  BY <1>2 DEF ShOK
<1> QED BY <1>3 DEF r

(***************************************************************************)
(* The steps.                                                              *)
(***************************************************************************)

\* Operations of scripts keep the record of what runs.
LEMMA OpKeepsRun ==
    ASSUME RunInv, SignalInv, NEW touched, Op(touched), <<>> \notin touched
    PROVE  RunInv' /\ loop'.pc = "script"
<1>1. /\ loop.pc = "script" /\ loop' = [loop EXCEPT !.ops = @ + 1, !.gone = @ \/ loop.running \in touched]
  BY DEF Op
<1>2. /\ loop'.pc = loop.pc /\ loop'.running = loop.running /\ loop'.dup = loop.dup
      /\ loop'.gone = (loop.gone \/ loop.running \in touched)
      /\ HasFields(loop')
  BY <1>1 DEF RunInv, HasFields, Fields
<1> QED BY <1>1, <1>2 DEF RunInv, HasFields, Fields, RunsWhatItHolds

\* What scripts do.
LEMMA ScriptStep ==
    ASSUME LoopAssumption, LoopInv, LoopScript
    PROVE  LoopInv'
<1> USE DEF LoopInv
<1>1. ListsOK(timers, rw, sh) /\ nextId \in 1..MaxId /\ pending \subseteq Sigs
  BY ListsNow DEF LoopTypeOK
<1>2. TimersOK(timers) /\ RwOK(rw) /\ ShOK(sh)
  BY <1>1 DEF ListsOK
<1>3. ASSUME NEW touched, Op(touched), <<>> \notin touched, ListsOK(timers', rw', sh'),
             nextId' \in 1..MaxId, UNCHANGED <<pending, owed>>
      PROVE  LoopInv'
  <2>1. RunInv' /\ loop'.pc = "script"
    BY <1>3, OpKeepsRun
  <2>2. SignalInv'
    BY <1>3, <2>1 DEF SignalInv
  <2> QED BY <1>1, <1>3, <2>1, <2>2, ListsNext
<1>4. ASSUME NEW t \in Toks, NEW d \in 0..MaxDelay, SetTimeout(t, d) \/ SleepAsync(t, d)
      PROVE  LoopInv'
  <2>1. PICK id \in {-1} \cup 1..MaxId :
             timers' = Append(timers, [tok |-> t, id |-> id, left |-> d])
    BY <1>1, <1>4 DEF SetTimeout, SleepAsync
  <2>2. \A n \in 1..Len(timers) : timers[n].tok # t
    BY <1>2, <1>4 DEF SetTimeout, SleepAsync, InUse, TimersOK
  <2>3. [tok |-> t, id |-> id, left |-> d] \in TimerEntry
    BY DEF TimerEntry
  <2>4. TimersOK(timers')
    BY <1>2, <2>1, <2>2, <2>3, TimerAdded
  <2>5. /\ Op({}) /\ nextId' \in 1..MaxId
        /\ UNCHANGED <<rw, sh, pending, owed>>
    BY <1>1, <1>4 DEF SetTimeout, SleepAsync, NextId, LoopAssumption
  <2> QED BY <1>2, <1>3, <2>4, <2>5 DEF ListsOK
<1>5. ASSUME NEW id \in -1..MaxId, ClearTimeout(id)
      PROVE  LoopInv'
  <2>1. FindTimer(id) \in 1..Len(timers)
    BY <1>5, FindTimerIs DEF ClearTimeout, LoopAssumption
  <2>2. TimersOK(timers')
    BY <1>2, <1>5, <2>1, TimerDeleted DEF ClearTimeout
  <2> QED BY <1>1, <1>2, <1>3, <1>5, <2>2 DEF ClearTimeout, ListsOK
<1>6. ASSUME NEW fd \in Fds, NEW k \in {1, 2}, SetRwHandler(fd, k)
      PROVE  LoopInv'
  <2>1. RwOK(rw')
    BY <1>2, <1>6, RwSet DEF SetRwHandler
  <2>2. <<>> \notin {<<"fd", fd, k>>}
    OBVIOUS
  <2> QED BY <1>1, <1>2, <1>3, <1>6, <2>1, <2>2 DEF SetRwHandler, ListsOK
<1>7. ASSUME NEW fd \in Fds, NEW k \in {1, 2}, ClearRwHandler(fd, k)
      PROVE  LoopInv'
  <2>1. FindRh(fd) \in 1..Len(rw)
    BY <1>7, FindRhIs DEF ClearRwHandler
  <2>2. RwOK(rw')
    BY <1>2, <1>7, <2>1, RwCleared DEF ClearRwHandler
  <2>3. <<>> \notin {<<"fd", fd, k>>}
    OBVIOUS
  <2> QED BY <1>1, <1>2, <1>3, <1>7, <2>2, <2>3 DEF ClearRwHandler, ListsOK
<1>8. ASSUME NEW c, Consume(c)
      PROVE  LoopInv'
  BY <1>1, <1>3, <1>8 DEF Consume
<1>9. ASSUME NEW s \in Sigs, SetSignal(s)
      PROVE  LoopInv'
  <2>1. ShOK(sh')
    BY <1>2, <1>9, ShSet DEF SetSignal
  <2>2. <<>> \notin {<<"signal", s>>}
    OBVIOUS
  <2> QED BY <1>1, <1>2, <1>3, <1>9, <2>1, <2>2 DEF SetSignal, ListsOK
<1>10. ASSUME NEW s \in Sigs, ResetSignal(s)
       PROVE  LoopInv'
  <2>1. FindSh(s) \in 1..Len(sh)
    BY <1>10, FindShIs DEF ResetSignal
  <2>2. ShOK(sh')
    BY <1>2, <1>10, <2>1, ShReset DEF ResetSignal
  <2>3. <<>> \notin {<<"signal", s>>}
    OBVIOUS
  <2> QED BY <1>1, <1>2, <1>3, <1>10, <2>2, <2>3 DEF ResetSignal, ListsOK
<1> QED BY <1>4, <1>5, <1>6, <1>7, <1>8, <1>9, <1>10 DEF LoopScript

\* call_handler
LEMMA CallHandlerIs ==
    ASSUME RunInv, NEW who
    PROVE  /\ HasFields(CallHandler(who))
           /\ CallHandler(who).pc = "script" /\ CallHandler(who).running = who
           /\ CallHandler(who).dup = TRUE /\ CallHandler(who).gone = FALSE
BY DEF RunInv, CallHandler, HasFields, Fields

\* The steps of the loop.
LEMMA LoopStep ==
    ASSUME LoopInv, Loop
    PROVE  LoopInv'
<1> USE DEF LoopInv
<1>1. ListsOK(timers, rw, sh) /\ nextId \in 1..MaxId /\ pending \subseteq Sigs
  BY ListsNow DEF LoopTypeOK
<1>2. TimersOK(timers) /\ RwOK(rw) /\ ShOK(sh)
  BY <1>1 DEF ListsOK
<1>3. CASE HandlerReturns \/ PrepareSelect \/ Select \/ TimedOut
  <2>1. UNCHANGED <<timers, nextId, rw, sh, pending, owed>>
    BY <1>3 DEF HandlerReturns, PrepareSelect, Select, TimedOut
  <2>2. LoopTypeOK' /\ EntriesHaveFunctions'
    BY <1>1, <2>1, ListsNext
  <2>3. RunInv' /\ loop'.pc # "clear"
    BY <1>3 DEF HandlerReturns, PrepareSelect, Select, TimedOut, RunInv, HasFields, Fields, RunsWhatItHolds
  <2> QED BY <2>1, <2>2, <2>3 DEF SignalInv
<1>4. CASE CheckSignals
  <2>1. UNCHANGED <<timers, nextId, rw, sh, pending, owed>>
    BY <1>4 DEF CheckSignals
  <2>2. LoopTypeOK' /\ EntriesHaveFunctions'
    BY <1>1, <2>1, ListsNext
  <2> DEFINE I == {n \in 1..Len(sh) : sh[n] \in pending}
  <2>3. I \in SUBSET Nat /\ 0 \notin I
    OBVIOUS
  <2>4. /\ loop.pc = "poll"
        /\ loop' = IF I = {} THEN [loop EXCEPT !.pc = "timers"]
                   ELSE [loop EXCEPT !.pc = "clear", !.sig = sh[Min(I)], !.mask = pending]
    <3>1. SelectInSeq(sh, LAMBDA n : n \in pending) = IF I # {} THEN Min(I) ELSE 0
      BY DEF SelectInSeq
    <3>2. I # {} => Min(I) # 0
      BY <2>3, FirstPosition
    <3> HIDE DEF I
    <3> QED BY <1>4, <3>1, <3>2 DEF CheckSignals
  <2>5. I # {} => sh[Min(I)] \in pending
    BY <2>3, FirstPosition
  <2> HIDE DEF I
  <2>6. RunInv'
    BY <2>4 DEF RunInv, HasFields, Fields, RunsWhatItHolds
  <2>7. SignalInv'
    BY <1>1, <2>1, <2>4, <2>5 DEF RunInv, HasFields, Fields, SignalInv
  <2> QED BY <2>2, <2>6, <2>7
<1>5. CASE ClearPending
  <2> DEFINE l == CallHandler(<<"signal", loop.sig>>)
  <2>1. HasFields(l) /\ l.pc = "script" /\ l.running = <<"signal", loop.sig>> /\ l.dup = TRUE
        /\ l.gone = FALSE
    BY CallHandlerIs
  <2>2. loop' = [l EXCEPT !.sig = None, !.mask = {}]
    BY <1>5 DEF ClearPending
  <2> HIDE DEF l
  <2>3. RunInv' /\ loop'.pc = "script"
    BY <2>1, <2>2 DEF RunInv, HasFields, Fields, RunsWhatItHolds
  <2>4. PICK p \in {pending, loop.mask} : pending' = p \ {loop.sig}
    BY <1>5 DEF ClearPending, Cleared
  <2>5. pending' \subseteq owed' /\ pending' \subseteq Sigs
    BY <1>1, <1>5, <2>4 DEF ClearPending, SignalInv
  <2>6. UNCHANGED <<timers, nextId, rw, sh>>
    BY <1>5 DEF ClearPending
  <2> QED BY <1>1, <2>3, <2>5, <2>6, ListsNext DEF SignalInv
<1>6. CASE End
  <2>1. ShOK(sh') /\ UNCHANGED <<timers, nextId, rw, pending, owed>>
    BY <1>6 DEF End, ShOK
  <2>2. LoopTypeOK' /\ EntriesHaveFunctions'
    BY <1>1, <1>2, <2>1, ListsNext DEF ListsOK
  <2>3. RunInv' /\ loop'.pc # "clear"
    BY <1>6 DEF End, RunInv, HasFields, Fields, RunsWhatItHolds
  <2> QED BY <2>1, <2>2, <2>3 DEF SignalInv
<1>7. ASSUME NEW who, loop' = CallHandler(who), TimersOK(timers'),
             UNCHANGED <<nextId, rw, sh, pending, owed>>
      PROVE  LoopInv'
  <2>1. RunInv' /\ loop'.pc # "clear"
    BY <1>7, CallHandlerIs DEF RunInv, HasFields, Fields, RunsWhatItHolds
  <2>2. LoopTypeOK' /\ EntriesHaveFunctions'
    BY <1>1, <1>2, <1>7, ListsNext DEF ListsOK
  <2> QED BY <1>7, <2>1, <2>2 DEF SignalInv
<1>8. CASE FireTimer
  <2>1. TimersOK(timers')
    BY <1>2, <1>8, ExpiredIs, TimerDeleted DEF FireTimer
  <2> QED BY <1>7, <1>8, <2>1 DEF FireTimer
<1>9. CASE Dispatch
  <2>1. PICK who : loop' = CallHandler(who)
    BY <1>9 DEF Dispatch
  <2>2. UNCHANGED <<timers, nextId, rw, sh, pending, owed>>
    BY <1>9 DEF Dispatch
  <2> QED BY <1>2, <1>7, <2>1, <2>2
<1> QED BY <1>3, <1>4, <1>5, <1>6, <1>8, <1>9 DEF Loop

\* What happens around it.
LEMMA WorldStep ==
    ASSUME LoopAssumption, LoopInv, World
    PROVE  LoopInv'
<1> USE DEF LoopInv
<1>1. ListsOK(timers, rw, sh) /\ nextId \in 1..MaxId /\ pending \subseteq Sigs
  BY ListsNow DEF LoopTypeOK
<1>2. TimersOK(timers) /\ RwOK(rw) /\ ShOK(sh)
  BY <1>1 DEF ListsOK
<1>3. CASE Tick
  <2>1. TimersOK(timers') /\ UNCHANGED <<nextId, rw, sh, pending, owed>>
    BY <1>2, <1>3, TimersTick DEF Tick
  <2>2. LoopTypeOK' /\ EntriesHaveFunctions'
    BY <1>1, <1>2, <2>1, ListsNext DEF ListsOK
  <2>3. loop' = loop \/ (loop.pc = "blocked" /\ loop' = [loop EXCEPT !.sleep = Less(@)])
    BY <1>3 DEF Tick
  <2>4. RunInv' /\ loop'.pc = loop.pc /\ loop'.sig = loop.sig /\ loop'.mask = loop.mask
    BY <2>3 DEF RunInv, HasFields, Fields, RunsWhatItHolds
  <2> QED BY <2>1, <2>2, <2>4 DEF SignalInv
<1>4. ASSUME NEW s \in Sigs, Signal(s) PROVE LoopInv'
  <2>1. /\ pending' = pending \cup {s} /\ owed' = owed \cup {s}
        /\ \/ loop' = loop
           \/ loop.pc = "blocked" /\ loop' = [loop EXCEPT !.pc = "poll", !.sleep = 0]
        /\ UNCHANGED <<timers, nextId, rw, sh>>
    BY <1>4 DEF Signal
  <2>2. RunInv'
    BY <2>1 DEF RunInv, HasFields, Fields, RunsWhatItHolds
  <2>3. SignalInv'
    BY <1>1, <2>1 DEF SignalInv, RunInv, HasFields, Fields
  <2>4. LoopTypeOK' /\ EntriesHaveFunctions'
    BY <1>1, <2>1, ListsNext
  <2> QED BY <2>2, <2>3, <2>4
<1>5. ASSUME NEW c, DataComes(c) PROVE LoopInv'
  <2>1. UNCHANGED <<timers, nextId, rw, sh, pending, loop, owed>>
    BY <1>5 DEF DataComes
  <2>2. LoopTypeOK' /\ EntriesHaveFunctions'
    BY <1>1, <2>1, ListsNext
  <2> QED BY <2>1, <2>2 DEF SignalInv, RunInv, HasFields, Fields, RunsWhatItHolds
<1> QED BY <1>3, <1>4, <1>5 DEF World

\* Initially the main script runs, with empty lists.
LEMMA LoopInitially == ASSUME LoopAssumption PROVE LoopInit => LoopInv
<1> SUFFICES ASSUME LoopInit PROVE LoopInv
  OBVIOUS
<1>1. LoopTypeOK
  BY DEF LoopInit, LoopTypeOK, LoopAssumption, IsInjective
<1>2. RunInv
  BY DEF LoopInit, RunInv, HasFields, Fields, RunsWhatItHolds
<1>3. SignalInv /\ EntriesHaveFunctions
  BY DEF LoopInit, SignalInv, EntriesHaveFunctions
<1> QED BY <1>1, <1>2, <1>3 DEF LoopInv

\* It is an invariant.
LEMMA LoopInvariant == ASSUME LoopAssumption PROVE LoopSpec => []LoopInv
<1>1. LoopInit => LoopInv
  BY LoopInitially
<1>2. LoopInv /\ [LoopNext]_loopVars => LoopInv'
  <2> SUFFICES ASSUME LoopInv, [LoopNext]_loopVars PROVE LoopInv'
    OBVIOUS
  <2>1. CASE LoopNext
    BY <2>1, ScriptStep, LoopStep, WorldStep DEF LoopNext
  <2>2. CASE UNCHANGED loopVars
    BY <2>2 DEF loopVars, LoopInv, LoopTypeOK, RunInv, HasFields, Fields, RunsWhatItHolds, SignalInv, EntriesHaveFunctions
  <2> QED BY <2>1, <2>2
<1> QED BY <1>1, <1>2, PTL DEF LoopSpec

\* A timer that is deleted is the one that is called, or it was cancelled by
\* its own number.
LEMMA WhoDeletesTimers ==
    ASSUME LoopAssumption, LoopInv, [LoopNext]_loopVars, NEW n \in DOMAIN timers, timers[n].tok \notin InUse'
    PROVE  \/ timers[n].id > 0
           \/ FireTimer /\ n = Expired
<1>1. timers \in Seq(TimerEntry) /\ n \in 1..Len(timers)
  BY DEF LoopInv, LoopTypeOK, TimerEntry
<1>2. ASSUME NEW ts, timers' = ts, \E j \in DOMAIN ts : ts[j].tok = timers[n].tok
      PROVE  FALSE
  BY <1>2 DEF InUse
<1>3. CASE timers' = timers
  BY <1>3, <1>2
<1>4. ASSUME NEW th, timers' = Append(timers, th) PROVE FALSE
  <2>1. n \in DOMAIN Append(timers, th) /\ Append(timers, th)[n] = timers[n]
    BY <1>1
  <2> QED BY <1>2, <1>4, <2>1
<1>5. ASSUME NEW i \in 1..Len(timers), timers' = RemoveAt(timers, i) PROVE n = i
  <2>1. SUFFICES ASSUME n # i PROVE FALSE
    OBVIOUS
  <2>2. PICK j \in 1..Len(RemoveAt(timers, i)) : RemoveAt(timers, i)[j] = timers[n]
    BY <1>1, <2>1, RemoveAtKeeps
  <2>3. RemoveAt(timers, i) \in Seq(TimerEntry)
    BY <1>1, RemoveAtIs
  <2>4. j \in DOMAIN RemoveAt(timers, i)
    BY <2>3
  <2> QED BY <1>2, <1>5, <2>2, <2>4
<1>6. ASSUME NEW id \in -1..MaxId, ClearTimeout(id) PROVE timers[n].id > 0
  <2>1. FindTimer(id) \in 1..Len(timers) /\ timers[FindTimer(id)].id = id /\ id > 0
    BY <1>6, FindTimerIs DEF ClearTimeout, LoopAssumption, LoopInv
  <2>2. n = FindTimer(id)
    BY <1>5, <1>6, <2>1 DEF ClearTimeout
  <2> QED BY <2>1, <2>2
<1>7. CASE FireTimer
  BY <1>5, <1>7, ExpiredIs DEF FireTimer, LoopInv
<1>8. CASE Tick
  <2>1. timers' = [m \in DOMAIN timers |-> [timers[m] EXCEPT !.left = Less(@)]]
    BY <1>8 DEF Tick
  <2>2. timers[n] \in TimerEntry
    BY <1>1
  <2>3. n \in DOMAIN timers' /\ timers'[n].tok = timers[n].tok
    BY <2>1, <2>2 DEF TimerEntry
  <2> QED BY <1>2, <2>3
<1>9. ASSUME NEW t, NEW d, SetTimeout(t, d) \/ SleepAsync(t, d) PROVE FALSE
  BY <1>4, <1>9 DEF SetTimeout, SleepAsync
<1>10. CASE UNCHANGED loopVars
  BY <1>3, <1>10 DEF loopVars
<1>11. ASSUME NEW fd, NEW k, SetRwHandler(fd, k) \/ ClearRwHandler(fd, k) \/ Consume(<<fd, k>>)
       PROVE  FALSE
  BY <1>3, <1>2, <1>11 DEF SetRwHandler, ClearRwHandler, Consume
<1>12. ASSUME NEW s, SetSignal(s) \/ ResetSignal(s) \/ Signal(s) PROVE FALSE
  BY <1>3, <1>2, <1>12 DEF SetSignal, ResetSignal, Signal
<1>13. ASSUME NEW c, DataComes(c) PROVE FALSE
  BY <1>2, <1>13 DEF DataComes
<1>14. CASE HandlerReturns \/ CheckSignals \/ ClearPending \/ End \/ PrepareSelect \/ Select \/ Dispatch
            \/ TimedOut
  BY <1>3, <1>14 DEF HandlerReturns, CheckSignals, ClearPending, End, PrepareSelect, Select, Dispatch, TimedOut
<1>15. CASE LoopScript
  BY <1>6, <1>9, <1>11, <1>12, <1>15 DEF LoopScript
<1>16. CASE Loop
  BY <1>7, <1>14, <1>16 DEF Loop
<1>17. CASE World
  BY <1>8, <1>12, <1>13, <1>17 DEF World
<1> QED BY <1>10, <1>15, <1>16, <1>17 DEF LoopNext

\* From "timers" only FireTimer calls anything.
LEMMA WhoCallsTimers ==
    ASSUME LoopInv, [LoopNext]_loopVars, loop.pc = "timers", loop'.running # <<>>
    PROVE  FireTimer
<1> USE DEF LoopInv, RunInv, HasFields, Fields
<1>1. loop.running = <<>>
  OBVIOUS
<1>2. CASE LoopScript
  BY <1>2 DEF LoopScript, SetTimeout, SleepAsync, ClearTimeout, SetRwHandler, ClearRwHandler, Consume,
              SetSignal, ResetSignal, Op
<1>3. CASE End \/ PrepareSelect
  BY <1>1, <1>3 DEF End, PrepareSelect
<1>4. CASE HandlerReturns \/ CheckSignals \/ ClearPending \/ Select \/ Dispatch \/ TimedOut
  BY <1>4 DEF HandlerReturns, CheckSignals, ClearPending, Select, Dispatch, TimedOut
<1>5. CASE World
  BY <1>1, <1>5 DEF World, Tick, Signal, DataComes
<1>6. CASE UNCHANGED loopVars
  BY <1>1, <1>6 DEF loopVars
<1> QED BY <1>2, <1>3, <1>4, <1>5, <1>6 DEF LoopNext, Loop

\* For any timers, descriptors and signals, and whatever handlers do to
\* themselves and to each other while they run: js_os_poll calls what it
\* holds, calls the handler of a signal only for a signal that has come since
\* the last call, calls timers in their order, keeps no entry without a
\* function, and no clearTimeout cancels a sleepAsync.
THEOREM HandlersAreCalledRight ==
    ASSUME LoopAssumption
    PROVE  LoopSpec => HandlersCalledRight
<1>1. LoopInv => LoopTypeOK /\ RunsWhatItHolds /\ EntriesHaveFunctions /\ CalledForASignal
  BY DEF LoopInv, RunInv, SignalInv, CalledForASignal
<1> DEFINE InOrder == \A n \in DOMAIN timers :
          loop.pc = "timers" /\ loop'.running = <<"timer", timers[n].tok>> =>
              \A m \in 1..(n - 1) : timers[m].left > timers[n].left
<1> DEFINE Kept == \A n \in DOMAIN timers : timers[n].id = -1 /\ timers[n].tok \notin InUse' =>
          loop'.running = <<"timer", timers[n].tok>>
<1>2. LoopInv /\ [LoopNext]_loopVars => [InOrder]_loopVars
  <2> SUFFICES ASSUME LoopInv, [LoopNext]_loopVars, NEW n \in DOMAIN timers, loop.pc = "timers",
                      loop'.running = <<"timer", timers[n].tok>>, NEW m \in 1..(n - 1)
               PROVE  timers[m].left > timers[n].left
    OBVIOUS
  <2>1. FireTimer
    BY WhoCallsTimers
  <2>2. TimersOK(timers)
    BY ListsNow DEF LoopInv, ListsOK
  <2>3. /\ Expired \in 1..Len(timers) /\ timers[Expired].left = 0
        /\ \A j \in 1..(Expired - 1) : timers[j].left # 0
    BY <2>1, ExpiredIs DEF FireTimer, LoopInv
  <2>4. loop'.running = <<"timer", timers[Expired].tok>>
    BY <2>1, CallHandlerIs DEF FireTimer, LoopInv
  <2>5. n = Expired
    BY <2>2, <2>3, <2>4 DEF TimersOK
  <2>6. timers[m] \in TimerEntry
    BY <2>2, <2>3, <2>5 DEF TimersOK
  <2> QED BY <2>3, <2>5, <2>6 DEF TimerEntry
<1>3. LoopInv /\ [LoopNext]_loopVars => [Kept]_loopVars
  <2> SUFFICES ASSUME LoopInv, [LoopNext]_loopVars, NEW n \in DOMAIN timers, timers[n].id = -1,
                      timers[n].tok \notin InUse'
               PROVE  loop'.running = <<"timer", timers[n].tok>>
    OBVIOUS
  <2>1. FireTimer /\ n = Expired
    BY WhoDeletesTimers
  <2> QED BY <2>1, CallHandlerIs DEF FireTimer, LoopInv
<1>4. LoopSpec => []LoopInv
  BY LoopInvariant
<1>5. LoopSpec => [](LoopTypeOK /\ RunsWhatItHolds /\ EntriesHaveFunctions /\ CalledForASignal)
  BY <1>1, <1>4, PTL
<1>6. LoopSpec => [][InOrder]_loopVars /\ [][Kept]_loopVars
  <2> HIDE DEF InOrder, Kept
  <2> QED BY <1>2, <1>3, <1>4, PTL DEF LoopSpec
<1> QED BY <1>5, <1>6 DEF HandlersCalledRight, TimersInOrder, SleepsAreKept
=============================================================================
