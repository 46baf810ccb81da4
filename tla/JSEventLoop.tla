----------------------------- MODULE JSEventLoop -----------------------------
(***************************************************************************)
(* The event loop of the main thread of qjs: js_std_loop and js_os_poll    *)
(* with timers, read and write handlers and signals.  (The ports of        *)
(* workers, which js_os_poll serves as well, are the subject of JSWorker,  *)
(* and the jobs between two polls that of JSPromise.)                      *)
(*                                                                         *)
(* A script, first the main program and then one callback at a time, does  *)
(* any operations in any order and returns.  Time passes and signals come  *)
(* at any point.  A time is what is left of it, 0 once it is over.         *)
(***************************************************************************)
EXTENDS Integers, Sequences, SequencesExt, FiniteSetsExt

CONSTANTS
    Toks,      \* timers
    Fds,       \* file descriptors
    Sigs,      \* signal numbers
    MaxDelay,  \* bound: the longest delay a script asks for
    MaxSleep,  \* the 10000 ms that select waits at most when there are timers
    MaxId,     \* INT32_MAX, the last timer_id
    MaxOps,    \* bound: operations of one callback
    None       \* no timer, no signal

LoopAssumption ==
    /\ MaxDelay \in Nat /\ MaxSleep \in Nat \ {0} /\ MaxId \in Nat \ {0} /\ MaxOps \in Nat
    /\ None \notin Toks \cup Fds \cup Sigs

VARIABLES
    timers,   \* os_timers: records of tok, id (timer_id) and left (timeout)
    nextId,   \* next_timer_id
    rw,       \* os_rw_handlers: records of fd and fn, which of rw_func are not null
    sh,       \* os_signal_handlers: signal numbers
    pending,  \* os_pending_signals
    loop,     \* where the loop is, see LoopInit
    ready,    \* <<fd, k>> with data to read (1) or room to write (2)
    owed      \* history: signals that came since their handler was last called

loopVars == <<timers, nextId, rw, sh, pending, loop, ready, owed>>

LoopInit ==
    /\ timers = <<>> /\ nextId = 1
    /\ rw = <<>> /\ sh = <<>> /\ pending = {} /\ ready = {} /\ owed = {}
    /\ loop = [pc |-> "script", ops |-> 0,
               running |-> <<>>,  \* the handler being called
               dup |-> FALSE,     \* whether call_handler holds its function
               gone |-> FALSE,    \* whether the list has given the function up
               sig |-> None, mask |-> {}, sleep |-> 0]

-----------------------------------------------------------------------------
(***************************************************************************)
(* What scripts do.                                                        *)
(***************************************************************************)
\* An operation of a script; touched: the handler whose function it frees.
Op(touched) ==
    /\ loop.pc = "script" /\ loop.ops < MaxOps
    /\ loop' = [loop EXCEPT !.ops = @ + 1, !.gone = @ \/ loop.running \in touched]

InUse == {timers[n].tok : n \in DOMAIN timers}

\* Mutant: the numbers go on for ever.
NextIdOverflows == nextId + 1

\* After INT32_MAX comes 1.
NextId == IF nextId = MaxId THEN 1 ELSE nextId + 1

\* js_os_setTimeout
SetTimeout(t, delay) ==
    /\ t \notin InUse
    /\ Op({})
    /\ timers' = Append(timers, [tok |-> t, id |-> nextId, left |-> delay])
    /\ nextId' = NextId
    /\ UNCHANGED <<rw, sh, pending, ready, owed>>

\* js_os_sleepAsync
SleepAsync(t, delay) ==
    /\ t \notin InUse
    /\ Op({})
    /\ timers' = Append(timers, [tok |-> t, id |-> -1, left |-> delay])
    /\ UNCHANGED <<nextId, rw, sh, pending, ready, owed>>

\* Mutant: any number is looked up.
FindTimerAny(id) == SelectInSeq(timers, LAMBDA th : th.id = id)

\* find_timer_by_id
FindTimer(id) == IF id <= 0 THEN 0 ELSE SelectInSeq(timers, LAMBDA th : th.id = id)

\* js_os_clearTimeout
ClearTimeout(id) ==
    /\ FindTimer(id) # 0
    /\ Op({})
    /\ timers' = RemoveAt(timers, FindTimer(id))
    /\ UNCHANGED <<nextId, rw, sh, pending, ready, owed>>

FindRh(fd) == SelectInSeq(rw, LAMBDA r : r.fd = fd)

\* js_os_setReadHandler, also setWriteHandler
SetRwHandler(fd, k) ==
    LET n == FindRh(fd) IN
    /\ Op({<<"fd", fd, k>>})
    /\ rw' = IF n = 0 THEN Append(rw, [fd |-> fd, fn |-> {k}]) ELSE [rw EXCEPT ![n].fn = @ \cup {k}]
    /\ UNCHANGED <<timers, nextId, sh, pending, ready, owed>>

\* Mutant: an entry without functions stays.
WithoutRwKept(n, k) == [rw EXCEPT ![n].fn = @ \ {k}]

WithoutRw(n, k) ==
    IF rw[n].fn \subseteq {k} THEN RemoveAt(rw, n) ELSE [rw EXCEPT ![n].fn = @ \ {k}]

ClearRwHandler(fd, k) ==
    /\ FindRh(fd) # 0
    /\ Op({<<"fd", fd, k>>})
    /\ rw' = WithoutRw(FindRh(fd), k)
    /\ UNCHANGED <<timers, nextId, sh, pending, ready, owed>>

FindSh(s) == SelectInSeq(sh, LAMBDA n : n = s)

\* js_os_signal
SetSignal(s) ==
    /\ Op({<<"signal", s>>})
    /\ sh' = IF FindSh(s) # 0 THEN sh ELSE Append(sh, s)
    /\ UNCHANGED <<timers, nextId, rw, pending, ready, owed>>

\* With null or undefined; a signal that is pending stays so.
ResetSignal(s) ==
    /\ FindSh(s) # 0
    /\ Op({<<"signal", s>>})
    /\ sh' = RemoveAt(sh, FindSh(s))
    /\ UNCHANGED <<timers, nextId, rw, pending, ready, owed>>

\* The script reads what there is, or fills the buffer.
Consume(c) ==
    /\ c \in ready
    /\ Op({})
    /\ ready' = ready \ {c}
    /\ UNCHANGED <<timers, nextId, rw, sh, pending, owed>>

-----------------------------------------------------------------------------
(***************************************************************************)
(* The loop.                                                               *)
(***************************************************************************)
\* Mutant: the function is only borrowed from the handler.
CallBorrowed(who) ==
    [loop EXCEPT !.pc = "script", !.ops = 0, !.running = who, !.dup = FALSE, !.gone = FALSE,
                 !.sleep = 0]

\* call_handler: holds the function itself for as long as it runs.
CallHandler(who) ==
    [loop EXCEPT !.pc = "script", !.ops = 0, !.running = who, !.dup = TRUE, !.gone = FALSE,
                 !.sleep = 0]

\* The script returns; js_std_loop polls again.
HandlerReturns ==
    /\ loop.pc = "script"
    /\ loop' = [loop EXCEPT !.pc = "poll", !.ops = 0, !.running = <<>>, !.dup = FALSE, !.gone = FALSE]
    /\ UNCHANGED <<timers, nextId, rw, sh, pending, ready, owed>>

\* js_os_poll, signals: the first handler with a pending signal.
CheckSignals ==
    LET due == SelectInSeq(sh, LAMBDA s : s \in pending) IN
    /\ loop.pc = "poll"
    /\ loop' = IF due = 0 THEN [loop EXCEPT !.pc = "timers"]
               ELSE [loop EXCEPT !.pc = "clear", !.sig = sh[due], !.mask = pending]
    /\ UNCHANGED <<timers, nextId, rw, sh, pending, ready, owed>>

\* Mutant: the bit stays set.
ClearedNot(p, s) == p

Cleared(p, s) == p \ {s}

\* os_pending_signals &= ~mask, on a plain variable: the build may read it
\* again or use the value it has read for the test.
ClearPending ==
    /\ loop.pc = "clear"
    /\ \E p \in {pending, loop.mask} : pending' = Cleared(p, loop.sig)
    /\ loop' = [CallHandler(<<"signal", loop.sig>>) EXCEPT !.sig = None, !.mask = {}]
    /\ owed' = owed \ {loop.sig}
    /\ UNCHANGED <<timers, nextId, rw, sh, ready>>

\* Mutant: the timer that was set last comes first.
ExpiredLast == SelectLastInSeq(timers, LAMBDA th : th.left = 0)

Expired == SelectInSeq(timers, LAMBDA th : th.left = 0)

NoMoreEvents == timers = <<>> /\ rw = <<>>

\* Nothing is left to wait for: js_std_loop ends, js_std_free_handlers.
End ==
    /\ loop.pc = "timers" /\ NoMoreEvents
    /\ loop' = [loop EXCEPT !.pc = "ended"]
    /\ sh' = <<>>
    /\ UNCHANGED <<timers, nextId, rw, pending, ready, owed>>

\* The first timer that has expired is freed and its function called.
FireTimer ==
    /\ loop.pc = "timers" /\ Expired # 0
    /\ loop' = CallHandler(<<"timer", timers[Expired].tok>>)
    /\ timers' = RemoveAt(timers, Expired)
    /\ UNCHANGED <<nextId, rw, sh, pending, ready, owed>>

\* min_delay, or -1 for tvp = NULL
MinDelay ==
    IF timers = <<>> THEN -1 ELSE Min({MaxSleep} \cup {timers[n].left : n \in DOMAIN timers})

PrepareSelect ==
    /\ loop.pc = "timers" /\ ~NoMoreEvents /\ Expired = 0
    /\ loop' = [loop EXCEPT !.pc = "select", !.sleep = MinDelay]
    /\ UNCHANGED <<timers, nextId, rw, sh, pending, ready, owed>>

Select ==
    /\ loop.pc = "select"
    /\ loop' = [loop EXCEPT !.pc = "blocked"]
    /\ UNCHANGED <<timers, nextId, rw, sh, pending, ready, owed>>

Watched == {c \in ready : \E n \in DOMAIN rw : rw[n].fd = c[1] /\ c[2] \in rw[n].fn}

\* select returns with descriptors: the first entry that has one is called,
\* reading before writing, and the poll is over.
Dispatch ==
    LET n == SelectInSeq(rw, LAMBDA r : \E k \in r.fn : <<r.fd, k>> \in ready)
        k == Min({k \in rw[n].fn : <<rw[n].fd, k>> \in ready})
    IN
    /\ loop.pc = "blocked" /\ Watched # {}
    /\ loop' = CallHandler(<<"fd", rw[n].fd, k>>)
    /\ UNCHANGED <<timers, nextId, rw, sh, pending, ready, owed>>

\* select returns with nothing.
TimedOut ==
    /\ loop.pc = "blocked" /\ Watched = {} /\ loop.sleep = 0
    /\ loop' = [loop EXCEPT !.pc = "poll"]
    /\ UNCHANGED <<timers, nextId, rw, sh, pending, ready, owed>>

Loop == HandlerReturns \/ CheckSignals \/ ClearPending \/ End \/ FireTimer \/ PrepareSelect
        \/ Select \/ Dispatch \/ TimedOut

-----------------------------------------------------------------------------
(***************************************************************************)
(* The world.                                                              *)
(***************************************************************************)
Less(n) == IF n > 0 THEN n - 1 ELSE n

Tick ==
    /\ loop.pc # "ended"
    /\ timers' = [n \in DOMAIN timers |-> [timers[n] EXCEPT !.left = Less(@)]]
    /\ loop' = IF loop.pc = "blocked" THEN [loop EXCEPT !.sleep = Less(@)] ELSE loop
    /\ timers' # timers \/ loop' # loop
    /\ UNCHANGED <<nextId, rw, sh, pending, ready, owed>>

\* os_signal_handler; a blocked select fails with EINTR.
Signal(s) ==
    /\ FindSh(s) # 0
    /\ pending' = pending \cup {s}
    /\ owed' = owed \cup {s}
    /\ loop' = IF loop.pc = "blocked" THEN [loop EXCEPT !.pc = "poll", !.sleep = 0] ELSE loop
    /\ UNCHANGED <<timers, nextId, rw, sh, ready>>

DataComes(c) ==
    /\ ready' = ready \cup {c}
    /\ UNCHANGED <<timers, nextId, rw, sh, pending, loop, owed>>

LoopScript ==
    \/ \E t \in Toks, d \in 0..MaxDelay : SetTimeout(t, d) \/ SleepAsync(t, d)
    \/ \E id \in -1..MaxId : ClearTimeout(id)
    \/ \E fd \in Fds, k \in {1, 2} : SetRwHandler(fd, k) \/ ClearRwHandler(fd, k) \/ Consume(<<fd, k>>)
    \/ \E s \in Sigs : SetSignal(s) \/ ResetSignal(s)

World ==
    \/ Tick
    \/ \E s \in Sigs : Signal(s)
    \/ \E c \in Fds \X {1, 2} : DataComes(c)

LoopNext == LoopScript \/ Loop \/ World

LoopSpec == LoopInit /\ [][LoopNext]_loopVars

\* Callbacks return, the loop goes on, time passes.
LoopFairSpec == LoopSpec /\ WF_loopVars(Loop) /\ WF_loopVars(Tick)

-----------------------------------------------------------------------------
(***************************************************************************)
(* Properties.                                                             *)
(***************************************************************************)
\* The lists keep their types, timer_id stays in the range of an int32, and
\* no timer is in its list twice.
LoopTypeOK ==
    /\ timers \in Seq([tok : Toks, id : {-1} \cup 1..MaxId, left : 0..MaxDelay])
    /\ \A m, n \in DOMAIN timers : timers[m].tok = timers[n].tok => m = n
    /\ nextId \in 1..MaxId
    /\ rw \in Seq([fd : Fds, fn : SUBSET {1, 2}])
    /\ \A m, n \in DOMAIN rw : rw[m].fd = rw[n].fd => m = n
    /\ sh \in Seq(Sigs) /\ IsInjective(sh)
    /\ pending \subseteq Sigs

\* A handler that removes or replaces itself while it runs does not take its
\* function away from under the call.
RunsWhatItHolds == loop.gone => loop.dup

\* An entry of os_rw_handlers has a function: js_os_poll ends the program
\* only once the list is empty, so an empty entry would keep it alive for ever.
EntriesHaveFunctions == \A n \in DOMAIN rw : rw[n].fn # {}

\* A handler of a signal is called only if the signal has come since it was
\* last called, however signals, polls and changes of handlers interleave.
CalledForASignal == loop.pc = "clear" => loop.sig \in owed

\* Timers that are due are called in the order in which they were set: none
\* before one that was set earlier and is due no later.
TimersInOrder ==
    [][\A n \in DOMAIN timers :
          loop.pc = "timers" /\ loop'.running = <<"timer", timers[n].tok>> =>
              \A m \in 1..(n - 1) : timers[m].left > timers[n].left]_loopVars

\* No handle of another timer, and no number a program makes up, cancels a
\* sleepAsync: its promise would stay pending for ever.
SleepsAreKept ==
    [][\A n \in DOMAIN timers : timers[n].id = -1 /\ timers[n].tok \notin InUse' =>
          loop'.running = <<"timer", timers[n].tok>>]_loopVars

\* What js_os_poll and the functions that set handlers owe to scripts.
HandlersCalledRight ==
    /\ [](LoopTypeOK /\ RunsWhatItHolds /\ EntriesHaveFunctions /\ CalledForASignal)
    /\ TimersInOrder /\ SleepsAreKept

\* A timer is called or cancelled in the end, also when other timers set
\* themselves again without delay and descriptors are always ready.  Only
\* signals that come without end keep it waiting: they are looked at first.
EveryTimerFires == \A t \in Toks : t \in InUse ~> (t \notin InUse \/ pending # {})

-----------------------------------------------------------------------------
(***************************************************************************)
(* What makes them inductive.                                              *)
(***************************************************************************)

\* A record with the fields of the loop.
Fields == {"pc", "ops", "running", "dup", "gone", "sig", "mask", "sleep"}
HasFields(l) == l = [f \in Fields |-> l[f]]

\* Nothing runs outside of scripts, and what runs is held.
RunInv ==
    /\ HasFields(loop)
    /\ loop.dup \in BOOLEAN /\ loop.gone \in BOOLEAN
    /\ loop.pc # "script" => loop.running = <<>>
    /\ loop.running # <<>> => loop.dup
    /\ RunsWhatItHolds

\* The signals that js_os_poll may find pending have come since the last calls
\* of their handlers, also those it has read and not yet written back.
SignalInv ==
    /\ pending \subseteq owed
    /\ loop.pc = "clear" => /\ loop.sig \in loop.mask /\ loop.mask \subseteq owed
                            /\ loop.mask \subseteq Sigs

LoopInv == LoopTypeOK /\ RunInv /\ SignalInv /\ EntriesHaveFunctions
=============================================================================
