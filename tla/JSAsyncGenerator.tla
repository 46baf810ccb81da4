-------------------------- MODULE JSAsyncGenerator --------------------------
(***************************************************************************)
(* An asynchronous generator of QuickJS.  Its methods next, return and     *)
(* throw may be called at any time, by the program or by the body itself;  *)
(* the calls wait in a queue, each with its promise, and                   *)
(* js_async_generator_resume_next takes them from there.                   *)
(*                                                                         *)
(* What the body does between two stops is free: it yields, delegates with *)
(* yield*, awaits, returns or throws.  `running' holds while it is on the  *)
(* stack.  Not modelled: lack of memory, and getters that run in the       *)
(* middle of a resolution of a promise.                                    *)
(***************************************************************************)
EXTENDS Integers, Sequences

CONSTANTS
    MaxCalls,  \* bound: calls of next, return and throw
    MaxStops   \* bound: yields and awaits of the body

BoundsAssumption == MaxCalls \in Nat /\ MaxStops \in Nat

Magic == {"NEXT", "RETURN", "THROW"}

State == {"SUSPENDED_START", "SUSPENDED_YIELD", "SUSPENDED_YIELD_STAR",
          "EXECUTING", "AWAITING_RETURN", "COMPLETED"}

VARIABLES
    s,       \* JSAsyncGeneratorData and what the properties need, see NewGenerator
    calls,   \* calls so far: the call number r is the request r
    stops    \* yields and awaits so far

vars == <<s, calls, stops>>

NewGenerator ==
    [state |-> "SUSPENDED_START",
     queue |-> <<>>,         \* requests, [id, type]
     func |-> TRUE,          \* func_state is not NULL
     running |-> FALSE,      \* inside async_func_resume
     awaits |-> FALSE,       \* the promise of an await has reactions
     returns |-> 0,          \* so many promises of js_async_generator_completed_return
     given |-> <<>>,         \* history: [id, thrown], what the body was resumed with
     answers |-> <<>>,       \* history: [id, how, from], how the requests were answered
     fault |-> FALSE]        \* an assert failed, NULL was used, or an empty queue

Init == s = NewGenerator /\ calls = 0 /\ stops = 0

Check(g, holds) == [g EXCEPT !.fault = @ \/ ~holds]

-----------------------------------------------------------------------------
\* js_async_generator_resolve and _reject: the first in the queue is answered.
\* `from' is what the answer comes from, the body or the request itself.
Answer(g, how, from) ==
    IF g.queue = <<>> THEN [g EXCEPT !.fault = TRUE]
    ELSE [g EXCEPT !.queue = Tail(@),
                   !.answers = Append(@, [id |-> Head(g.queue).id, how |-> how, from |-> from])]

\* js_async_generator_complete
Complete(g) ==
    IF g.state = "COMPLETED" THEN g
    ELSE [Check(g, g.func) EXCEPT !.state = "COMPLETED", !.func = FALSE]

\* COMPLETED in js_async_generator_resume_next: one request, and no other.
AnswerCompleted(g) ==
    CASE Head(g.queue).type = "NEXT" -> Answer(g, "done", "request")
      [] Head(g.queue).type = "RETURN" ->
            [g EXCEPT !.state = "AWAITING_RETURN", !.returns = @ + 1]
      [] Head(g.queue).type = "THROW" -> Answer(g, "rejected", "request")

\* async_func_resume is called for the first request.
Resume(g) ==
    [Check(g, g.func /\ ~g.running) EXCEPT !.state = "EXECUTING", !.running = TRUE]

Give(g, thrown) ==
    [g EXCEPT !.given = Append(@, [id |-> Head(g.queue).id, thrown |-> thrown])]

\* js_async_generator_resume_next up to where the body runs or nothing is left.
ResumeNext(g) ==
    LET type == Head(g.queue).type IN
    CASE g.queue = <<>> -> g
      [] g.queue # <<>> /\ g.state = "EXECUTING" -> Resume(g)
      [] g.queue # <<>> /\ g.state = "AWAITING_RETURN" -> g
      [] g.queue # <<>> /\ g.state = "SUSPENDED_START" ->
            IF type = "NEXT" THEN Resume(Give(g, FALSE)) ELSE AnswerCompleted(Complete(g))
      [] g.queue # <<>> /\ g.state = "COMPLETED" -> AnswerCompleted(g)
      [] g.queue # <<>> /\ g.state \in {"SUSPENDED_YIELD", "SUSPENDED_YIELD_STAR"} ->
            Resume(Give(g, type = "THROW" /\ g.state = "SUSPENDED_YIELD"))

-----------------------------------------------------------------------------
\* Mutant: the generator is resumed although the body is in the middle of it.
IsFreeAlways(g) == TRUE

\* Whether a call resumes the generator.
IsFree(g) == g.state # "EXECUTING"

\* Mutant: list_add instead of list_add_tail.
EnqueueFirst(g, type) == [g EXCEPT !.queue = <<[id |-> calls + 1, type |-> type]>> \o @]

Enqueue(g, type) == [g EXCEPT !.queue = Append(@, [id |-> calls + 1, type |-> type])]

\* js_async_generator_next.  While the body runs, the caller is the body.
Call(type) ==
    LET g == Enqueue(s, type) IN
    /\ calls < MaxCalls
    /\ calls' = calls + 1
    /\ s' = IF IsFree(g) THEN ResumeNext(g) ELSE g
    /\ UNCHANGED stops

\* The body gives control back: the rest of js_async_generator_resume_next.
Stopped == [s EXCEPT !.running = FALSE]

\* Mutant: the answer before the new state, from where the loop goes on.
YieldLate(g, state) == ResumeNext(Answer(g, "value", "body"))

\* Mutant: the loop ends after a yield.
YieldedOnly(g, state) == Answer([g EXCEPT !.state = state], "value", "body")

Yielded(g, state) == ResumeNext(Answer([g EXCEPT !.state = state], "value", "body"))

Yield(state) ==
    /\ s.running /\ stops < MaxStops
    /\ s' = Yielded(Stopped, state)
    /\ stops' = stops + 1
    /\ UNCHANGED calls

Await ==
    /\ s.running /\ stops < MaxStops
    /\ s' = [Check(Stopped, ~s.awaits) EXCEPT !.awaits = TRUE]
    /\ stops' = stops + 1
    /\ UNCHANGED calls

\* The value to await gives an error: it is thrown in the body at once.
AwaitFails ==
    /\ s.running /\ stops < MaxStops
    /\ s' = Resume(Stopped)
    /\ stops' = stops + 1
    /\ UNCHANGED calls

\* The end of the body, by return or by an exception.
Finish(how) ==
    /\ s.running
    /\ s' = ResumeNext(Answer(Complete(Stopped), how, "body"))
    /\ UNCHANGED <<calls, stops>>

\* js_async_generator_resolve_function for an await: a job.
Awaited ==
    /\ s.awaits /\ ~s.running
    /\ s' = ResumeNext([Check(s, s.state = "EXECUTING" /\ s.func /\ s.queue # <<>>) EXCEPT !.awaits = FALSE])
    /\ UNCHANGED <<calls, stops>>

\* js_async_generator_resolve_function for a return() on a completed generator.
AfterReturn(g, how) ==
    Answer([Check(g, g.state \in {"AWAITING_RETURN", "COMPLETED"}) EXCEPT
                !.returns = @ - 1, !.state = "COMPLETED"], how, "request")

Returned(how) ==
    /\ s.returns > 0 /\ ~s.running
    /\ s' = AfterReturn(s, how)
    /\ UNCHANGED <<calls, stops>>

Body ==
    \/ Yield("SUSPENDED_YIELD") \/ Yield("SUSPENDED_YIELD_STAR")
    \/ Await \/ AwaitFails
    \/ Finish("done") \/ Finish("rejected")

Jobs == Awaited \/ Returned("done") \/ Returned("rejected")

Next == (\E type \in Magic : Call(type)) \/ Body \/ Jobs

Spec == Init /\ [][Next]_vars

-----------------------------------------------------------------------------
(***************************************************************************)
(* Properties.                                                             *)
(***************************************************************************)
\* func_state is NULL exactly in the states AWAITING_RETURN and COMPLETED, as
\* its comment says, and at most one job of this generator is outstanding.
TypeOK ==
    /\ s.state \in State
    /\ s.func <=> s.state \notin {"AWAITING_RETURN", "COMPLETED"}
    /\ s.running \/ s.awaits <=> s.state = "EXECUTING"
    /\ s.returns = (IF s.state = "AWAITING_RETURN" THEN 1 ELSE 0)
    /\ \A k \in DOMAIN s.queue : s.queue[k] \in [id : 1..calls, type : Magic]

\* No assert of the generator fails, no function that was freed is resumed and
\* none that still runs, and nobody takes from an empty queue.
NoFault == ~s.fault

\* Requests are answered in the order of the calls, each once, whatever is
\* called while the body runs, awaits or is through.
AnsweredInOrder ==
    /\ \A k \in DOMAIN s.answers : s.answers[k].id = k
    /\ \A k \in DOMAIN s.queue : s.queue[k].id = Len(s.answers) + k

\* What the body yields, returns or throws answers the request it was resumed
\* with, and after its end nothing is answered by it or given to it.
BodyAnswersItsRequest ==
    /\ \A k \in DOMAIN s.given : s.given[k].id = k
    /\ \A k \in DOMAIN s.answers : s.answers[k].from = "body" <=> k \in DOMAIN s.given
    /\ Len(s.given) <= Len(s.answers) + 1

\* As long as the generator is not complete no call is left waiting: when the
\* body has stopped and nothing is outstanding that would go on, the queue is
\* empty.
AnsweredUntilComplete ==
    ~s.running /\ ~s.awaits /\ s.returns = 0 /\ s.queue # <<>> => s.state = "COMPLETED"

\* All of them, as a caller sees the generator.
GeneratorAnswers ==
    /\ TypeOK /\ NoFault
    /\ AnsweredInOrder /\ BodyAnswersItsRequest /\ AnsweredUntilComplete

(***************************************************************************)
(* What makes them inductive, said of a generator g after n calls.         *)
(***************************************************************************)
Suspended == {"SUSPENDED_START", "SUSPENDED_YIELD", "SUSPENDED_YIELD_STAR"}
Over == {"AWAITING_RETURN", "COMPLETED"}

Generators ==
    [state : State, queue : Seq([id : Nat, type : Magic]), func : BOOLEAN, running : BOOLEAN,
     awaits : BOOLEAN, returns : Nat, given : Seq([id : Nat, thrown : BOOLEAN]),
     answers : Seq([id : Nat, how : {"value", "done", "rejected"}, from : {"body", "request"}]),
     fault : BOOLEAN]

\* The state says who goes on: the body or an await for EXECUTING, one promise
\* for AWAITING_RETURN, a call for the others.
StateInv(g) ==
    /\ g.func <=> g.state \notin Over
    /\ (g.running \/ g.awaits) <=> g.state = "EXECUTING"
    /\ ~(g.running /\ g.awaits)
    /\ g.returns = (IF g.state = "AWAITING_RETURN" THEN 1 ELSE 0)
    /\ g.state \in {"EXECUTING", "AWAITING_RETURN"} => g.queue # <<>>

\* Every call is answered or in the queue, in the order of the calls.
OrderInv(g, n) ==
    /\ Len(g.answers) + Len(g.queue) = n
    /\ \A k \in 1..Len(g.answers) : g.answers[k].id = k
    /\ \A k \in 1..Len(g.queue) : g.queue[k].id = Len(g.answers) + k

\* The body was resumed for the requests it has answered, and for one more
\* exactly while it executes.
BodyInv(g) ==
    /\ \A k \in 1..Len(g.given) : g.given[k].id = k
    /\ \A k \in 1..Len(g.answers) : g.answers[k].from = "body" <=> k <= Len(g.given)
    /\ g.state = "EXECUTING" => Len(g.given) = Len(g.answers) + 1
    /\ g.state \in Suspended => Len(g.given) = Len(g.answers)
    /\ g.state \in Over => Len(g.given) <= Len(g.answers)

Coherent(g, n) == g \in Generators /\ ~g.fault /\ StateInv(g) /\ OrderInv(g, n) /\ BodyInv(g)

\* A suspended generator has no calls to attend to.
Attended(g) == g.state \in Suspended => g.queue = <<>>

GeneratorInv == calls \in Nat /\ Coherent(s, calls) /\ Attended(s)
=============================================================================
