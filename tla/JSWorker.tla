------------------------------ MODULE JSWorker ------------------------------
(***************************************************************************)
(* os.Worker of quickjs-libc: the main thread and one worker thread, each  *)
(* with a runtime of its own, and the two message pipes between them.  A   *)
(* pipe is a queue under a mutex, a waker (a file descriptor pipe that     *)
(* select waits on) and an atomic reference count.  A message may carry a  *)
(* SharedArrayBuffer, whose memory has an atomic count too.                *)
(*                                                                         *)
(* JavaScript code ("run") posts messages, sets and clears onmessage and   *)
(* drops the Worker object; between its turns a thread is in js_std_loop.  *)
(***************************************************************************)
EXTENDS Integers, Sequences, FiniteSets

CONSTANTS
    MaxMessages, \* bound: messages a thread posts
    MaxOwn,      \* bound: SharedArrayBuffer objects of a thread
    MayFail      \* whether the main script may end with an exception

WorkerAssumption == MaxMessages \in Nat /\ MaxOwn \in Nat /\ MayFail \in BOOLEAN

Threads == {"main", "worker"}
Other(t) == IF t = "main" THEN "worker" ELSE "main"
NoOne == "none"
NoMessage == [n |-> 0, sab |-> FALSE]

VARIABLES
    pipe,    \* pipe[t]: what t receives from
    pc,      \* where each thread is
    obj,     \* whether its Worker object (Worker.parent in the worker) exists
    port,    \* whether it has an onmessage handler in port_list
    hand,    \* the message it is posting or has taken
    own,     \* how many objects of it share the buffer
    sab,     \* ref_count of the buffer
    sent,    \* history: what it has posted
    got,     \* history: what it has taken from its queue
    failed,  \* history: the main script has thrown
    fault    \* an assertion failed, or freed memory was used

vars == <<pipe, pc, obj, port, hand, own, sab, sent, got, failed, fault>>

NoPipe == [live |-> FALSE, q |-> <<>>, bytes |-> 0, rc |-> 0, lock |-> NoOne]

Init ==
    /\ pipe = [t \in Threads |-> NoPipe]
    /\ pc = [t \in Threads |-> IF t = "main" THEN "run" ELSE "none"]
    /\ obj = [t \in Threads |-> FALSE]
    /\ port = [t \in Threads |-> FALSE]
    /\ hand = [t \in Threads |-> NoMessage]
    /\ own = [t \in Threads |-> IF t = "main" THEN 1 ELSE 0]
    /\ sab = 1
    /\ sent = [t \in Threads |-> <<>>]
    /\ got = [t \in Threads |-> <<>>]
    /\ failed = FALSE
    /\ fault = FALSE

\* The process runs until the main thread is done.
At(t, where) == pc[t] = where /\ pc["main"] # "done"
Go(t, where) == pc' = [pc EXCEPT ![t] = where]

-----------------------------------------------------------------------------
(***************************************************************************)
(* Counted references.  A change takes n[t] references from pipe t.        *)
(***************************************************************************)
\* The messages of a pipe that is freed are freed with it.
Freed(n) == {t \in Threads : pipe[t].live /\ n[t] > 0 /\ pipe[t].rc = n[t]}
Carried(q) == Cardinality({k \in 1..Len(q) : q[k].sab})
SabsOf(t, ts) == IF t \in ts THEN Carried(pipe[t].q) ELSE 0
SabsIn(ts) == SabsOf("main", ts) + SabsOf("worker", ts)

\* js_free_message_pipe
Release(n) ==
    pipe' = [t \in Threads |->
                IF t \in Freed(n) THEN NoPipe ELSE [pipe[t] EXCEPT !.rc = @ - n[t]]]
BadRelease(n) == \E t \in Threads : n[t] > 0 /\ (~pipe[t].live \/ pipe[t].rc < n[t])

\* What the finalizer of the Worker object of t gives back: both pipes, and
\* the port's reference to the pipe it receives from.
Finalizer(t) == [u \in Threads |-> IF ~obj[t] THEN 0 ELSE IF u = t /\ port[t] THEN 2 ELSE 1]

-----------------------------------------------------------------------------
(***************************************************************************)
(* Creation.                                                               *)
(***************************************************************************)
\* js_worker_ctor: a reference to each pipe for the thread, one for the
\* object.
New ==
    /\ At("main", "run")
    /\ pc["worker"] = "none"
    /\ pipe' = [t \in Threads |-> [NoPipe EXCEPT !.live = TRUE, !.rc = 2]]
    /\ obj' = [obj EXCEPT !["main"] = TRUE]
    /\ Go("worker", "start")
    /\ UNCHANGED <<port, hand, own, sab, sent, got, failed, fault>>

\* js_os_init in the worker: Worker.parent.
Import ==
    /\ At("worker", "start")
    /\ pipe' = [t \in Threads |-> [pipe[t] EXCEPT !.rc = @ + 1]]
    /\ fault' = (fault \/ \E t \in Threads : ~pipe[t].live)
    /\ obj' = [obj EXCEPT !["worker"] = TRUE]
    /\ Go("worker", "run")
    /\ UNCHANGED <<port, hand, own, sab, sent, got, failed>>

-----------------------------------------------------------------------------
(***************************************************************************)
(* postMessage.                                                            *)
(***************************************************************************)
\* Mutant: the message does not hold the buffer.
PostUncounted(t, s) ==
    /\ At(t, "run")
    /\ obj[t]
    /\ Len(sent[t]) < MaxMessages
    /\ s => own[t] > 0
    /\ hand' = [hand EXCEPT ![t] = [n |-> Len(sent[t]) + 1, sab |-> s]]
    /\ Go(t, "lock")
    /\ UNCHANGED <<pipe, obj, port, own, sab, sent, got, failed, fault>>

\* The message is written, and the buffer in it counted.
Post(t, s) ==
    /\ At(t, "run")
    /\ obj[t]
    /\ Len(sent[t]) < MaxMessages
    /\ s => own[t] > 0
    /\ hand' = [hand EXCEPT ![t] = [n |-> Len(sent[t]) + 1, sab |-> s]]
    /\ sab' = IF s THEN sab + 1 ELSE sab
    /\ fault' = (fault \/ (s /\ sab = 0))
    /\ Go(t, "lock")
    /\ UNCHANGED <<pipe, obj, port, own, sent, got, failed>>

Lock(t, p, from, to) ==
    /\ At(t, from)
    /\ pipe[p].lock = NoOne
    /\ pipe' = [pipe EXCEPT ![p].lock = t]
    /\ fault' = (fault \/ ~pipe[p].live)
    /\ Go(t, to)
    /\ UNCHANGED <<obj, port, hand, own, sab, sent, got, failed>>

PostLock(t) == Lock(t, Other(t), "lock", "signal")

\* js_waker_signal, for the first message.  It gives up when write fails, also
\* for EINTR, since its test of errno is always true; a write of one byte to a
\* pipe that holds at most one neither blocks nor fails, so it is not modelled.
Signal(t) ==
    /\ At(t, "signal")
    /\ pipe' = [pipe EXCEPT ![Other(t)].bytes = IF pipe[Other(t)].q = <<>> THEN @ + 1 ELSE @]
    /\ Go(t, "add")
    /\ UNCHANGED <<obj, port, hand, own, sab, sent, got, failed, fault>>

\* Mutant: the message overtakes those that wait.
AddFirst(t) ==
    /\ At(t, "add")
    /\ pipe' = [pipe EXCEPT ![Other(t)].q = <<hand[t]>> \o @, ![Other(t)].lock = NoOne]
    /\ sent' = [sent EXCEPT ![t] = Append(@, hand[t])]
    /\ hand' = [hand EXCEPT ![t] = NoMessage]
    /\ Go(t, "run")
    /\ UNCHANGED <<obj, port, own, sab, got, failed, fault>>

Add(t) ==
    /\ At(t, "add")
    /\ pipe' = [pipe EXCEPT ![Other(t)].q = Append(@, hand[t]), ![Other(t)].lock = NoOne]
    /\ sent' = [sent EXCEPT ![t] = Append(@, hand[t])]
    /\ hand' = [hand EXCEPT ![t] = NoMessage]
    /\ Go(t, "run")
    /\ UNCHANGED <<obj, port, own, sab, got, failed, fault>>

-----------------------------------------------------------------------------
(***************************************************************************)
(* The rest of what JavaScript code does.                                  *)
(***************************************************************************)
\* Mutant: a handler keeps the pipe without counting.
SetHandlerUncounted(t) ==
    /\ At(t, "run")
    /\ obj[t]
    /\ port' = [port EXCEPT ![t] = TRUE]
    /\ UNCHANGED <<pipe, pc, obj, hand, own, sab, sent, got, failed, fault>>

\* onmessage = f
SetHandler(t) ==
    /\ At(t, "run")
    /\ obj[t]
    /\ pipe' = [pipe EXCEPT ![t].rc = IF port[t] THEN @ ELSE @ + 1]
    /\ fault' = (fault \/ ~pipe[t].live)
    /\ port' = [port EXCEPT ![t] = TRUE]
    /\ UNCHANGED <<pc, obj, hand, own, sab, sent, got, failed>>

\* onmessage = null
ClearHandler(t) ==
    LET n == [u \in Threads |-> IF u = t /\ port[t] THEN 1 ELSE 0] IN
    /\ At(t, "run")
    /\ obj[t]
    /\ Release(n)
    /\ sab' = sab - SabsIn(Freed(n))
    /\ fault' = (fault \/ BadRelease(n))
    /\ port' = [port EXCEPT ![t] = FALSE]
    /\ UNCHANGED <<pc, obj, hand, own, sent, got, failed>>

\* The Worker object is collected: js_worker_finalizer.
DropObject(t) ==
    LET n == Finalizer(t) IN
    /\ At(t, "run")
    /\ obj[t]
    /\ Release(n)
    /\ sab' = sab - SabsIn(Freed(n))
    /\ fault' = (fault \/ BadRelease(n))
    /\ obj' = [obj EXCEPT ![t] = FALSE]
    /\ port' = [port EXCEPT ![t] = FALSE]
    /\ UNCHANGED <<pc, hand, own, sent, got, failed>>

\* A SharedArrayBuffer object is collected: js_sab_free.
DropBuffer(t) ==
    /\ At(t, "run")
    /\ own[t] > 0
    /\ own' = [own EXCEPT ![t] = @ - 1]
    /\ sab' = sab - 1
    /\ fault' = (fault \/ sab = 0)
    /\ UNCHANGED <<pipe, pc, obj, port, hand, sent, got, failed>>

EndTurn(t) ==
    /\ At(t, "run")
    /\ Go(t, "poll")
    /\ UNCHANGED <<pipe, obj, port, hand, own, sab, sent, got, failed, fault>>

\* eval_file fails in main() of qjs: the loop is left out.
Fail ==
    /\ MayFail
    /\ At("main", "run")
    /\ Go("main", "handlers")
    /\ failed' = TRUE
    /\ UNCHANGED <<pipe, obj, port, hand, own, sab, sent, got, fault>>

-----------------------------------------------------------------------------
(***************************************************************************)
(* js_os_poll and handle_posted_message.                                   *)
(***************************************************************************)
\* No handler is left: the loop ends.  Or select returns.
Poll(t) ==
    /\ At(t, "poll")
    /\ port[t] => pipe[t].bytes > 0
    /\ Go(t, IF port[t] THEN "take" ELSE "handlers")
    /\ fault' = (fault \/ (port[t] /\ ~pipe[t].live))
    /\ UNCHANGED <<pipe, obj, port, hand, own, sab, sent, got, failed>>

TakeLock(t) == Lock(t, t, "take", "taken")

\* Mutant: the waker is cleared although messages are left.
TakeClears(t) ==
    /\ At(t, "taken")
    /\ pipe[t].q # <<>>
    /\ pipe' = [pipe EXCEPT ![t].q = Tail(@), ![t].bytes = 0, ![t].lock = NoOne]
    /\ hand' = [hand EXCEPT ![t] = Head(pipe[t].q)]
    /\ got' = [got EXCEPT ![t] = Append(@, Head(pipe[t].q))]
    /\ Go(t, "read")
    /\ UNCHANGED <<obj, port, own, sab, sent, failed, fault>>

\* The first message; that there is one says SelectTellsTheTruth.
\* js_waker_clear would block on an empty waker, with the mutex held; it reads
\* at most 16 bytes.
Take(t) ==
    /\ At(t, "taken")
    /\ pipe[t].q # <<>>
    /\ Len(pipe[t].q) = 1 => pipe[t].bytes > 0
    /\ pipe' = [pipe EXCEPT ![t].q = Tail(@), ![t].lock = NoOne,
                            ![t].bytes = IF Len(pipe[t].q) # 1 THEN @
                                         ELSE IF @ > 16 THEN @ - 16 ELSE 0]
    /\ hand' = [hand EXCEPT ![t] = Head(pipe[t].q)]
    /\ got' = [got EXCEPT ![t] = Append(@, Head(pipe[t].q))]
    /\ Go(t, "read")
    /\ UNCHANGED <<obj, port, own, sab, sent, failed, fault>>

\* JS_ReadObject makes an object that shares the buffer, or fails.
Read(t, ok) ==
    /\ At(t, "read")
    /\ (ok /\ hand[t].sab) => own[t] < MaxOwn
    /\ own' = [own EXCEPT ![t] = IF ok /\ hand[t].sab THEN @ + 1 ELSE @]
    /\ sab' = IF ok /\ hand[t].sab THEN sab + 1 ELSE sab
    /\ fault' = (fault \/ (ok /\ hand[t].sab /\ sab = 0))
    /\ Go(t, IF ok THEN "free" ELSE "freeonly")
    /\ UNCHANGED <<pipe, obj, port, hand, sent, got, failed>>

\* js_free_message, then the call of the handler.
FreeMessage(t) ==
    /\ At(t, "free") \/ At(t, "freeonly")
    /\ hand' = [hand EXCEPT ![t] = NoMessage]
    /\ sab' = IF hand[t].sab THEN sab - 1 ELSE sab
    /\ fault' = (fault \/ (hand[t].sab /\ sab = 0))
    /\ Go(t, IF pc[t] = "free" THEN "run" ELSE "poll")
    /\ UNCHANGED <<pipe, obj, port, own, sent, got, failed>>

-----------------------------------------------------------------------------
(***************************************************************************)
(* The end of a thread.                                                    *)
(***************************************************************************)
\* js_std_free_handlers: the references the worker thread was started with.
\* The thread state, with the head of port_list, is freed.
FreeHandlers(t) ==
    LET n == [u \in Threads |-> IF t = "worker" THEN 1 ELSE 0] IN
    /\ At(t, "handlers")
    /\ Release(n)
    /\ sab' = sab - SabsIn(Freed(n))
    /\ fault' = (fault \/ BadRelease(n))
    /\ Go(t, "runtime")
    /\ UNCHANGED <<obj, port, hand, own, sent, got, failed>>

\* JS_FreeRuntime finalizes what is left; a port is unlinked from its list.
FreeRuntime(t) ==
    LET n == Finalizer(t) IN
    /\ At(t, "runtime")
    /\ Release(n)
    /\ sab' = sab - own[t] - SabsIn(Freed(n))
    /\ fault' = (fault \/ BadRelease(n) \/ (obj[t] /\ port[t]) \/ sab < own[t])
    /\ obj' = [obj EXCEPT ![t] = FALSE]
    /\ port' = [port EXCEPT ![t] = FALSE]
    /\ own' = [own EXCEPT ![t] = 0]
    /\ Go(t, "done")
    /\ UNCHANGED <<hand, sent, got, failed>>

Script(t) ==
    \/ \E s \in BOOLEAN : Post(t, s)
    \/ SetHandler(t) \/ ClearHandler(t) \/ DropObject(t) \/ DropBuffer(t)
Step(t) ==
    \/ PostLock(t) \/ Signal(t) \/ Add(t)
    \/ EndTurn(t) \/ Poll(t) \/ TakeLock(t) \/ Take(t)
    \/ \E ok \in BOOLEAN : Read(t, ok)
    \/ FreeMessage(t) \/ FreeHandlers(t) \/ FreeRuntime(t)

Next == New \/ Import \/ Fail \/ \E t \in Threads : Script(t) \/ Step(t)

Spec == Init /\ [][Next]_vars
FairSpec == Spec /\ WF_vars(Import) /\ \A t \in Threads : WF_vars(Step(t))

-----------------------------------------------------------------------------
(***************************************************************************)
(* Properties.                                                             *)
(***************************************************************************)
Messages == [n : Nat, sab : BOOLEAN]
Pipes == [live : BOOLEAN, q : Seq(Messages), bytes : Nat, rc : Nat, lock : Threads \cup {NoOne}]

TypeOK ==
    /\ pipe \in [Threads -> Pipes]
    /\ pc \in [Threads -> {"none", "start", "run", "lock", "signal", "add", "poll", "take", "taken",
                           "read", "free", "freeonly", "handlers", "runtime", "done"}]
    /\ obj \in [Threads -> BOOLEAN] /\ port \in [Threads -> BOOLEAN]
    /\ hand \in [Threads -> Messages]
    /\ own \in [Threads -> Nat] /\ sab \in Nat
    /\ \A t \in Threads : port[t] => obj[t]

\* No counter goes below 0, and nothing is done to a pipe, a buffer or a list
\* that was freed, in whatever order the two threads let go.  The exception:
\* when the main script throws, main() of qjs frees the thread state before
\* the runtime whose ports are still linked to it.
NoFault == fault => failed

\* The waker is readable when there are messages and only then, whenever the
\* mutex is free: select never sleeps on a message, never spins without one,
\* and js_waker_clear never blocks with the mutex held.
WakerTellsMessages ==
    \A t \in Threads : pipe[t].lock = NoOne =>
        pipe[t].bytes = IF pipe[t].q = <<>> THEN 0 ELSE 1

\* What made select return is still there when handle_posted_message has the
\* mutex: it never finds the queue empty.
SelectTellsTheTruth == \A t \in Threads : At(t, "taken") => pipe[t].q # <<>>

\* Messages arrive in the order they were posted, each once: what was taken
\* and what waits is what was posted, as long as the pipe exists.
FirstInFirstOut ==
    \A t \in Threads : pipe[t].live => sent[Other(t)] = got[t] \o pipe[t].q

\* The buffer is counted once for every object that shares it and every
\* message that carries it, also while it is being posted or read.
InHand(t) == IF hand[t].sab THEN 1 ELSE 0
BufferCounted ==
    sab = own["main"] + own["worker"] + SabsIn(Threads) + InHand("main") + InHand("worker")

\* When both threads have ended, the pipes, their messages and the buffer are
\* freed.
NothingLeft ==
    (\A t \in Threads : pc[t] = "done") =>
        sab = 0 /\ \A t \in Threads : pipe[t] = NoPipe

\* Both together, as the threads see them: the order of the messages, and the
\* life of what they share.
MessagesInOrder ==
    TypeOK /\ WakerTellsMessages /\ SelectTellsTheTruth /\ FirstInFirstOut
SharedUntilReleased == NoFault /\ BufferCounted /\ NothingLeft

(***************************************************************************)
(* What makes them inductive.                                              *)
(***************************************************************************)
\* The references to pipe p: the worker thread has one until its handlers are
\* freed, each Worker object one, and the handler of p one.
One(b) == IF b THEN 1 ELSE 0
Refs(p) ==
    One(pc["worker"] \notin {"none", "runtime", "done"})
    + One(obj["main"]) + One(obj["worker"]) + One(port[p])

\* The count of a pipe is the number of its references, and it lives as long
\* as there is one.
RefInv ==
    \A p \in Threads :
        /\ pipe[p].rc = Refs(p)
        /\ pipe[p].live <=> pipe[p].rc > 0
        /\ ~pipe[p].live => pipe[p].q = <<>> /\ pipe[p].bytes = 0 /\ pipe[p].lock = NoOne

\* A thread uses a pipe only while it has a reference: it posts with its
\* Worker object and takes with its handler.  It ends with a handler only when
\* the main script has thrown.
UseInv ==
    \A t \in Threads :
        /\ pc[t] \in {"lock", "signal", "add"} => obj[t]
        /\ pc[t] \in {"take", "taken"} => port[t]
        /\ pc[t] \in {"handlers", "runtime"} /\ port[t] => failed /\ t = "main"
        /\ pc[t] = "done" => ~obj[t] /\ own[t] = 0
        /\ hand[t].sab => pc[t] \in {"lock", "signal", "add", "read", "free", "freeonly"}

\* Before there is a worker, nothing of it exists and nothing was said.
StartInv ==
    /\ pc["main"] \notin {"none", "start"}
    /\ pc["worker"] \in {"none", "start"} => ~obj["worker"]
    /\ pc["worker"] = "none" =>
          ~obj["main"] /\ \A t \in Threads : sent[t] = <<>> /\ got[t] = <<>>

\* Only the end of a main thread whose script has thrown does harm.
FaultInv == fault => failed /\ pc["main"] = "done"

\* The mutex of a pipe is held by its reader at "taken" and by the poster at
\* "signal" and "add", and by nobody else.
LockInv ==
    \A p \in Threads :
        /\ pipe[p].lock = p <=> pc[p] = "taken"
        /\ pipe[p].lock = Other(p) <=> pc[Other(p)] \in {"signal", "add"}

\* There is one byte for a queue that has messages or is about to.
WakerInv ==
    \A p \in Threads :
        pipe[p].bytes = One(pipe[p].q # <<>> \/ pc[Other(p)] = "add")

\* Nobody but the reader takes the byte away that it was woken by.
ReadyInv ==
    \A t \in Threads : pc[t] \in {"take", "taken"} => pipe[t].bytes > 0

\* The messages of the histories have their type.
HistoryInv ==
    /\ sent \in [Threads -> Seq(Messages)]
    /\ got \in [Threads -> Seq(Messages)]
    /\ failed \in BOOLEAN /\ fault \in BOOLEAN

WorkerInv ==
    /\ TypeOK /\ HistoryInv /\ StartInv /\ RefInv /\ UseInv /\ FaultInv
    /\ LockInv /\ WakerInv /\ FirstInFirstOut /\ BufferCounted

\* A message that waits is taken, as long as the receiver has a handler and
\* the process lives.
MessagesArrive ==
    \A t \in Threads : \A n \in 1..MaxMessages :
        (\E k \in DOMAIN pipe[t].q : pipe[t].q[k].n = n)
            ~> ((\A k \in DOMAIN pipe[t].q : pipe[t].q[k].n # n) \/ ~port[t] \/ pc["main"] = "done")
=============================================================================
