----------------------- MODULE JSAsyncGeneratorProofs -----------------------
(***************************************************************************)
(* Proofs about JSAsyncGenerator, for any number of calls and stops.       *)
(***************************************************************************)
EXTENDS JSAsyncGenerator, SequenceTheorems, TLAPS

\* The elements of the queue, what a resumption gives the body, and answers.
Request == [id : Nat, type : Magic]
Gift == [id : Nat, thrown : BOOLEAN]
Reply == [id : Nat, how : {"value", "done", "rejected"}, from : {"body", "request"}]

\* One more here is one less there.
LEMMA OneOver == \A x, y \in Nat : (x + 1) + (y - 1) = x + y
OBVIOUS

(***************************************************************************)
(* The parts of js_async_generator_resume_next, as functions of the        *)
(* generator.                                                              *)
(***************************************************************************)

\* The types of the fields.
LEMMA FieldTypes ==
    ASSUME NEW g \in Generators
    PROVE  /\ g.state \in State /\ g.queue \in Seq(Request) /\ g.func \in BOOLEAN
           /\ g.running \in BOOLEAN /\ g.awaits \in BOOLEAN /\ g.returns \in Nat
           /\ g.given \in Seq(Gift) /\ g.answers \in Seq(Reply) /\ g.fault \in BOOLEAN
           /\ Len(g.queue) \in Nat /\ Len(g.given) \in Nat /\ Len(g.answers) \in Nat
<1>1. /\ g.state \in State /\ g.queue \in Seq(Request) /\ g.func \in BOOLEAN
      /\ g.running \in BOOLEAN /\ g.awaits \in BOOLEAN /\ g.returns \in Nat
      /\ g.given \in Seq(Gift) /\ g.answers \in Seq(Reply) /\ g.fault \in BOOLEAN
  BY DEF Generators, Request, Gift, Reply
<1> QED BY <1>1, LenProperties

\* A check that holds changes nothing.
LEMMA CheckHolds ==
    ASSUME NEW g \in Generators, NEW holds \in BOOLEAN, holds
    PROVE  Check(g, holds) = g
<1>1. (g.fault \/ ~holds) = g.fault
  BY DEF Generators
<1>2. Check(g, holds) = [g EXCEPT !.fault = g.fault]
  BY <1>1 DEF Check
<1> QED BY <1>2 DEF Generators

\* The first request of a queue.
LEMMA FirstRequest ==
    ASSUME NEW g \in Generators, NEW n \in Nat, OrderInv(g, n), g.queue # <<>>
    PROVE  /\ Head(g.queue) \in Request /\ Head(g.queue).id = Len(g.answers) + 1
           /\ Head(g.queue).type \in Magic
           /\ Tail(g.queue) \in Seq(Request) /\ Len(Tail(g.queue)) = Len(g.queue) - 1
           /\ \A k \in 1..Len(Tail(g.queue)) : Tail(g.queue)[k] = g.queue[k + 1]
           /\ Len(g.queue) > 0
<1>1. g.queue \in Seq(Request) /\ Len(g.queue) \in Nat /\ Len(g.answers) \in Nat
  BY FieldTypes
<1>2. Head(g.queue) \in Request /\ Tail(g.queue) \in Seq(Request)
      /\ Len(Tail(g.queue)) = Len(g.queue) - 1
      /\ \A k \in 1..Len(Tail(g.queue)) : Tail(g.queue)[k] = g.queue[k + 1]
  BY <1>1, HeadTailProperties
<1>3. Len(g.queue) > 0 /\ Head(g.queue) = g.queue[1]
  BY <1>1, EmptySeq
<1>4. Head(g.queue).id = Len(g.answers) + 1
  BY <1>1, <1>3 DEF OrderInv
<1> QED BY <1>2, <1>3, <1>4 DEF Request

\* js_async_generator_resolve and _reject: the order is kept.
LEMMA AnswerEffect ==
    ASSUME NEW g \in Generators, NEW n \in Nat, OrderInv(g, n), g.queue # <<>>,
           NEW how \in {"value", "done", "rejected"}, NEW from \in {"body", "request"}
    PROVE  LET h == Answer(g, how, from) IN
           /\ h \in Generators /\ OrderInv(h, n)
           /\ h.queue = Tail(g.queue) /\ Len(h.answers) = Len(g.answers) + 1
           /\ \A k \in 1..Len(g.answers) : h.answers[k] = g.answers[k]
           /\ h.answers[Len(g.answers) + 1].from = from
           /\ h.state = g.state /\ h.func = g.func /\ h.running = g.running /\ h.awaits = g.awaits
           /\ h.returns = g.returns /\ h.given = g.given /\ h.fault = g.fault
<1> DEFINE r == [id |-> Head(g.queue).id, how |-> how, from |-> from]
           a == Append(g.answers, r)
           q == Tail(g.queue)
           h == [g EXCEPT !.queue = q, !.answers = a]
<1>1. /\ g.queue \in Seq(Request) /\ Len(g.queue) \in Nat
      /\ g.answers \in Seq(Reply) /\ Len(g.answers) \in Nat
  BY FieldTypes
<1>2. r \in Reply /\ r.id = Len(g.answers) + 1 /\ r.from = from
  BY FirstRequest DEF Reply, Request
<1> HIDE DEF r
<1>3. a \in Seq(Reply) /\ Len(a) = Len(g.answers) + 1 /\ a[Len(g.answers) + 1] = r
      /\ \A k \in 1..Len(g.answers) : a[k] = g.answers[k]
  BY <1>1, <1>2, AppendProperties
<1>4. q \in Seq(Request) /\ Len(q) = Len(g.queue) - 1 /\ Len(g.queue) > 0
      /\ \A k \in 1..Len(q) : q[k] = g.queue[k + 1]
  BY FirstRequest
<1> HIDE DEF a, q
<1>5. /\ h \in Generators /\ h.queue = q /\ h.answers = a
      /\ h.state = g.state /\ h.func = g.func /\ h.running = g.running /\ h.awaits = g.awaits
      /\ h.returns = g.returns /\ h.given = g.given /\ h.fault = g.fault
  BY <1>3, <1>4 DEF Generators, Request, Reply
<1>6. h = Answer(g, how, from)
  BY DEF Answer, a, q, r
<1> HIDE DEF h
<1>7. OrderInv(h, n)
  <2>1. Len(h.answers) + Len(h.queue) = n
    <3>1. Len(g.answers) + Len(g.queue) = n
      BY DEF OrderInv
    <3>2. Len(h.answers) = Len(g.answers) + 1 /\ Len(h.queue) = Len(g.queue) - 1
      BY <1>3, <1>4, <1>5
    <3>3. Len(g.answers) \in Nat /\ Len(g.queue) \in Nat
      BY <1>1
    <3>4. (Len(g.answers) + 1) + (Len(g.queue) - 1) = Len(g.answers) + Len(g.queue)
      BY ONLY <3>3, OneOver
    <3> QED BY ONLY <3>1, <3>2, <3>4, Zenon
  <2>2. \A k \in 1..Len(h.answers) : h.answers[k].id = k
    <3> SUFFICES ASSUME NEW k \in 1..Len(a) PROVE a[k].id = k
      BY <1>5
    <3>1. CASE k \in 1..Len(g.answers)
      BY <1>3, <3>1 DEF OrderInv
    <3>2. CASE k = Len(g.answers) + 1
      BY <1>2, <1>3, <3>2
    <3> QED BY <1>1, <1>3, <3>1, <3>2
  <2>3. \A k \in 1..Len(h.queue) : h.queue[k].id = Len(h.answers) + k
    <3> SUFFICES ASSUME NEW k \in 1..Len(q) PROVE q[k].id = Len(a) + k
      BY <1>5
    <3>1. k + 1 \in 1..Len(g.queue) /\ q[k] = g.queue[k + 1]
      BY <1>1, <1>4
    <3>2. g.queue[k + 1].id = Len(g.answers) + (k + 1)
      BY <3>1 DEF OrderInv
    <3>3. q[k].id = Len(g.answers) + (k + 1)
      BY <3>1, <3>2
    <3>4. Len(a) = Len(g.answers) + 1 /\ k \in Int /\ Len(g.answers) \in Nat
      BY <1>1, <1>3
    <3> QED BY <3>3, <3>4
  <2> QED BY <2>1, <2>2, <2>3 DEF OrderInv
<1>8. /\ h \in Generators /\ OrderInv(h, n)
      /\ h.queue = Tail(g.queue) /\ Len(h.answers) = Len(g.answers) + 1
      /\ \A k \in 1..Len(g.answers) : h.answers[k] = g.answers[k]
      /\ h.answers[Len(g.answers) + 1].from = from
      /\ h.state = g.state /\ h.func = g.func /\ h.running = g.running /\ h.awaits = g.awaits
      /\ h.returns = g.returns /\ h.given = g.given /\ h.fault = g.fault
  <2>1. h.queue = Tail(g.queue)
    BY <1>5 DEF q
  <2>2. Len(h.answers) = Len(g.answers) + 1 /\ h.answers[Len(g.answers) + 1].from = from
        /\ \A k \in 1..Len(g.answers) : h.answers[k] = g.answers[k]
    BY <1>2, <1>3, <1>5
  <2> QED BY <1>5, <1>7, <2>1, <2>2
<1> QED BY ONLY <1>6, <1>8, Zenon

\* A request that the end of the generator answers.
LEMMA AnswerFromRequest ==
    ASSUME NEW g, NEW n \in Nat, Coherent(g, n), g.queue # <<>>, g.state = "COMPLETED",
           NEW how \in {"value", "done", "rejected"}
    PROVE  Coherent(Answer(g, how, "request"), n) /\ Answer(g, how, "request").state = "COMPLETED"
<1> DEFINE h == Answer(g, how, "request")
<1>1. g \in Generators /\ ~g.fault /\ StateInv(g) /\ OrderInv(g, n) /\ BodyInv(g)
  BY DEF Coherent
<1>2. /\ h \in Generators /\ OrderInv(h, n) /\ Len(h.answers) = Len(g.answers) + 1
      /\ \A k \in 1..Len(g.answers) : h.answers[k] = g.answers[k]
      /\ h.answers[Len(g.answers) + 1].from = "request"
      /\ h.state = g.state /\ h.func = g.func /\ h.running = g.running /\ h.awaits = g.awaits
      /\ h.returns = g.returns /\ h.given = g.given /\ h.fault = g.fault
  BY <1>1, AnswerEffect
<1> HIDE DEF h
<1>3. StateInv(h)
  BY <1>1, <1>2 DEF StateInv
<1>4. Len(g.given) \in Nat /\ Len(g.answers) \in Nat
  BY <1>1, FieldTypes
<1>5. BodyInv(h)
  <2>1. Len(g.given) <= Len(g.answers)
    BY <1>1 DEF BodyInv, Over
  <2>2. ASSUME NEW k \in 1..Len(h.answers)
        PROVE  h.answers[k].from = "body" <=> k <= Len(h.given)
    <3>1. CASE k \in 1..Len(g.answers)
      BY <1>1, <1>2, <3>1 DEF BodyInv
    <3>2. CASE k = Len(g.answers) + 1
      BY <1>2, <1>4, <2>1, <3>2
    <3> QED BY <1>2, <1>4, <3>1, <3>2
  <2>3. \A k \in 1..Len(h.given) : h.given[k].id = k
    BY <1>1, <1>2 DEF BodyInv
  <2> QED BY <1>2, <1>4, <2>1, <2>2, <2>3 DEF BodyInv, Suspended
<1>6. Coherent(h, n)
  BY <1>1, <1>2, <1>3, <1>5 DEF Coherent
<1> QED BY <1>2, <1>6 DEF h

\* js_async_generator_complete leaves a generator that is over.
LEMMA CompleteCoherent ==
    ASSUME NEW g, NEW n \in Nat, Coherent(g, n), g.state \in Suspended
    PROVE  /\ Coherent(Complete(g), n) /\ Complete(g).state = "COMPLETED"
           /\ Complete(g).queue = g.queue
<1> DEFINE h == [g EXCEPT !.state = "COMPLETED", !.func = FALSE]
<1>1. g \in Generators /\ ~g.fault /\ StateInv(g) /\ OrderInv(g, n) /\ BodyInv(g)
  BY DEF Coherent
<1>2. g.func \in BOOLEAN /\ g.func /\ g.state # "COMPLETED"
  BY <1>1 DEF StateInv, Suspended, Over, Generators
<1>3. Complete(g) = h
  <2>1. Check(g, g.func) = g
    BY <1>1, <1>2, CheckHolds
  <2> QED BY <1>2, <2>1 DEF Complete
<1>4. /\ h \in Generators /\ h.state = "COMPLETED" /\ h.func = FALSE /\ h.queue = g.queue
      /\ h.running = g.running /\ h.awaits = g.awaits /\ h.returns = g.returns
      /\ h.given = g.given /\ h.answers = g.answers /\ h.fault = g.fault
  BY <1>1 DEF Generators, State
<1> HIDE DEF h
<1>5. StateInv(h)
  BY <1>1, <1>4 DEF StateInv, Suspended, Over
<1>6. OrderInv(h, n)
  BY <1>1, <1>4 DEF OrderInv
<1>7. BodyInv(h)
  <2>1. Len(g.given) = Len(g.answers) /\ Len(g.given) \in Nat
    BY <1>1, FieldTypes DEF BodyInv
  <2> QED BY <1>1, <1>4, <2>1 DEF BodyInv, Suspended
<1> QED BY <1>1, <1>3, <1>4, <1>5, <1>6, <1>7 DEF Coherent

\* A generator that is over takes one request.
LEMMA AnswerCompletedCoherent ==
    ASSUME NEW g, NEW n \in Nat, Coherent(g, n), g.queue # <<>>, g.state = "COMPLETED"
    PROVE  Coherent(AnswerCompleted(g), n) /\ AnswerCompleted(g).state \in Over
<1>1. g \in Generators /\ ~g.fault /\ StateInv(g) /\ OrderInv(g, n) /\ BodyInv(g)
  BY DEF Coherent
<1>2. Head(g.queue).type \in Magic
  BY <1>1, FirstRequest
<1>3. CASE Head(g.queue).type = "NEXT"
  BY <1>3, AnswerFromRequest DEF AnswerCompleted, Over
<1>4. CASE Head(g.queue).type = "THROW"
  BY <1>4, AnswerFromRequest DEF AnswerCompleted, Over
<1>5. CASE Head(g.queue).type = "RETURN"
  <2> DEFINE c == g.returns + 1
             h == [g EXCEPT !.state = "AWAITING_RETURN", !.returns = c]
  <2>1. AnswerCompleted(g) = h
    BY <1>5 DEF AnswerCompleted
  <2>0. c \in Nat /\ c = 1
    BY <1>1, FieldTypes DEF StateInv
  <2> HIDE DEF c
  <2>2. /\ h \in Generators /\ h.state = "AWAITING_RETURN" /\ h.returns = c
        /\ h.queue = g.queue /\ h.func = g.func /\ h.running = g.running /\ h.awaits = g.awaits
        /\ h.given = g.given /\ h.answers = g.answers /\ h.fault = g.fault
    BY <1>1, <2>0 DEF Generators, State
  <2> HIDE DEF h
  <2>3. StateInv(h)
    BY <1>1, <2>0, <2>2 DEF StateInv, Over
  <2>4. OrderInv(h, n)
    BY <1>1, <2>2 DEF OrderInv
  <2>5. BodyInv(h)
    BY <1>1, <2>2 DEF BodyInv, Over, Suspended
  <2> QED BY <1>1, <2>1, <2>2, <2>3, <2>4, <2>5 DEF Coherent, Over
<1> QED BY <1>2, <1>3, <1>4, <1>5 DEF Magic

\* The body is resumed with the first request.
LEMMA ResumeCoherent ==
    ASSUME NEW g, NEW n \in Nat, Coherent(g, n), g.queue # <<>>, g.state \in Suspended,
           NEW thrown \in BOOLEAN
    PROVE  /\ Coherent(Resume(Give(g, thrown)), n)
           /\ Resume(Give(g, thrown)).state = "EXECUTING"
<1> DEFINE e == [id |-> Head(g.queue).id, thrown |-> thrown]
           v == Append(g.given, e)
           f == [g EXCEPT !.given = v]
           h == [f EXCEPT !.state = "EXECUTING", !.running = TRUE]
<1>1. g \in Generators /\ ~g.fault /\ StateInv(g) /\ OrderInv(g, n) /\ BodyInv(g)
  BY DEF Coherent
<1>2. /\ g.given \in Seq(Gift) /\ Len(g.given) \in Nat /\ Len(g.answers) \in Nat
      /\ g.func \in BOOLEAN /\ g.running \in BOOLEAN /\ g.awaits \in BOOLEAN
  BY <1>1, FieldTypes
<1>3. Len(g.given) = Len(g.answers)
  BY <1>1 DEF BodyInv
<1>4. e \in Gift /\ e.id = Len(g.given) + 1
  BY <1>1, <1>3, FirstRequest DEF Gift, Request
<1> HIDE DEF e
<1>5. v \in Seq(Gift) /\ Len(v) = Len(g.given) + 1 /\ v[Len(g.given) + 1] = e
      /\ \A k \in 1..Len(g.given) : v[k] = g.given[k]
  BY <1>2, <1>4, AppendProperties
<1> HIDE DEF v
<1>6. f \in Generators /\ f.func = g.func /\ f.running = g.running
  BY <1>1, <1>5 DEF Generators, Gift
<1>7. g.func /\ ~g.running /\ ~g.awaits
  BY <1>1 DEF StateInv, Suspended, Over
<1>8. Resume(Give(g, thrown)) = h
  <2>1. Give(g, thrown) = f
    BY DEF Give, v, e
  <2> HIDE DEF f
  <2>2. Check(f, f.func /\ ~f.running) = f
    BY <1>2, <1>6, <1>7, CheckHolds
  <2> QED BY <2>1, <2>2 DEF Resume
<1>9. /\ h \in Generators /\ h.state = "EXECUTING" /\ h.running = TRUE /\ h.given = v
      /\ h.queue = g.queue /\ h.func = g.func /\ h.awaits = g.awaits /\ h.returns = g.returns
      /\ h.answers = g.answers /\ h.fault = g.fault
  BY <1>1, <1>5 DEF Generators, State, Gift
<1> HIDE DEF f, h
<1>10. StateInv(h)
  BY <1>1, <1>7, <1>9 DEF StateInv, Over, Suspended
<1>11. OrderInv(h, n)
  BY <1>1, <1>9 DEF OrderInv
<1>12. BodyInv(h)
  <2>1. \A k \in 1..Len(h.given) : h.given[k].id = k
    <3> SUFFICES ASSUME NEW k \in 1..Len(v) PROVE v[k].id = k
      BY <1>9
    <3>1. CASE k \in 1..Len(g.given)
      BY <1>1, <1>5, <3>1 DEF BodyInv
    <3>2. CASE k = Len(g.given) + 1
      BY <1>4, <1>5, <3>2
    <3> QED BY <1>2, <1>5, <3>1, <3>2
  <2>2. \A k \in 1..Len(h.answers) : h.answers[k].from = "body" <=> k <= Len(h.given)
    <3> SUFFICES ASSUME NEW k \in 1..Len(g.answers)
                 PROVE  g.answers[k].from = "body" <=> k <= Len(v)
      BY <1>9
    <3>1. g.answers[k].from = "body" <=> k <= Len(g.given)
      BY <1>1 DEF BodyInv
    <3> QED BY <1>2, <1>3, <1>5, <3>1
  <2>3. Len(h.given) = Len(h.answers) + 1
    BY <1>3, <1>5, <1>9
  <2> QED BY <1>9, <2>1, <2>2, <2>3 DEF BodyInv, Suspended, Over
<1> QED BY <1>1, <1>8, <1>9, <1>10, <1>11, <1>12 DEF Coherent

\* js_async_generator_resume_next on a generator whose body is not in the
\* middle of a request: afterwards nobody waits for a suspended body.
LEMMA ResumeNextCoherent ==
    ASSUME NEW g, NEW n \in Nat, Coherent(g, n), g.state # "EXECUTING"
    PROVE  Coherent(ResumeNext(g), n) /\ Attended(ResumeNext(g))
<1>1. g \in Generators /\ g.state \in State /\ OrderInv(g, n)
  BY FieldTypes DEF Coherent
<1>2. CASE g.queue = <<>>
  BY <1>2 DEF ResumeNext, Attended
<1>3. CASE g.queue # <<>> /\ g.state = "AWAITING_RETURN"
  BY <1>3 DEF ResumeNext, Attended, Suspended
<1>4. CASE g.queue # <<>> /\ g.state = "COMPLETED"
  <2>1. ResumeNext(g) = AnswerCompleted(g)
    BY <1>4 DEF ResumeNext
  <2> QED BY <1>4, <2>1, AnswerCompletedCoherent DEF Attended, Over, Suspended
<1>5. CASE g.queue # <<>> /\ g.state = "SUSPENDED_START" /\ Head(g.queue).type = "NEXT"
  <2>1. ResumeNext(g) = Resume(Give(g, FALSE))
    BY <1>5 DEF ResumeNext
  <2> QED BY <1>5, <2>1, ResumeCoherent DEF Attended, Suspended
<1>6. CASE g.queue # <<>> /\ g.state = "SUSPENDED_START" /\ Head(g.queue).type # "NEXT"
  <2>1. ResumeNext(g) = AnswerCompleted(Complete(g))
    BY <1>6 DEF ResumeNext
  <2>2. Coherent(Complete(g), n) /\ Complete(g).state = "COMPLETED" /\ Complete(g).queue # <<>>
    BY <1>6, CompleteCoherent DEF Suspended
  <2> QED BY <2>1, <2>2, AnswerCompletedCoherent DEF Attended, Over, Suspended
<1>7. CASE g.queue # <<>> /\ g.state \in {"SUSPENDED_YIELD", "SUSPENDED_YIELD_STAR"}
  <2>1. ResumeNext(g) = Resume(Give(g, Head(g.queue).type = "THROW" /\ g.state = "SUSPENDED_YIELD"))
    BY <1>7 DEF ResumeNext
  <2>2. g.state \in Suspended
    BY <1>7 DEF Suspended
  <2> QED BY <1>7, <2>1, <2>2, ResumeCoherent DEF Attended, Suspended
<1> QED BY <1>1, <1>2, <1>3, <1>4, <1>5, <1>6, <1>7 DEF State

\* What the body does answers the request it was resumed for.
LEMMA AnswerFromBody ==
    ASSUME NEW g \in Generators, NEW n \in Nat, OrderInv(g, n), ~g.fault, g.queue # <<>>,
           ~g.running, ~g.awaits, g.returns = 0,
           g.state \in {"SUSPENDED_YIELD", "SUSPENDED_YIELD_STAR", "COMPLETED"},
           g.func <=> g.state # "COMPLETED",
           Len(g.given) = Len(g.answers) + 1,
           \A k \in 1..Len(g.given) : g.given[k].id = k,
           \A k \in 1..Len(g.answers) : g.answers[k].from = "body" <=> k <= Len(g.given),
           NEW how \in {"value", "done", "rejected"}
    PROVE  /\ Coherent(Answer(g, how, "body"), n)
           /\ Answer(g, how, "body").state = g.state
<1> DEFINE h == Answer(g, how, "body")
<1>1. /\ h \in Generators /\ OrderInv(h, n) /\ Len(h.answers) = Len(g.answers) + 1
      /\ \A k \in 1..Len(g.answers) : h.answers[k] = g.answers[k]
      /\ h.answers[Len(g.answers) + 1].from = "body"
      /\ h.state = g.state /\ h.func = g.func /\ h.running = g.running /\ h.awaits = g.awaits
      /\ h.returns = g.returns /\ h.given = g.given /\ h.fault = g.fault
  BY AnswerEffect
<1> HIDE DEF h
<1>2. StateInv(h)
  BY <1>1 DEF StateInv, Over
<1>3. Len(g.given) \in Nat /\ Len(g.answers) \in Nat
  BY FieldTypes
<1>4. BodyInv(h)
  <2>1. ASSUME NEW k \in 1..Len(h.answers)
        PROVE  h.answers[k].from = "body" <=> k <= Len(h.given)
    <3>1. CASE k \in 1..Len(g.answers)
      BY <1>1, <3>1
    <3>2. CASE k = Len(g.answers) + 1
      BY <1>1, <1>3, <3>2
    <3> QED BY <1>1, <1>3, <3>1, <3>2
  <2>2. \A k \in 1..Len(h.given) : h.given[k].id = k
    BY <1>1
  <2> QED BY <1>1, <1>3, <2>1, <2>2 DEF BodyInv
<1> QED BY <1>1, <1>2, <1>4 DEF Coherent, h

\* A body on the stack has a request to answer.
LEMMA RunningBody ==
    ASSUME NEW g, NEW n \in Nat, Coherent(g, n), g.running
    PROVE  /\ g \in Generators /\ OrderInv(g, n) /\ ~g.fault
           /\ g.state = "EXECUTING" /\ g.queue # <<>> /\ ~g.awaits /\ g.returns = 0 /\ g.func
           /\ Len(g.given) = Len(g.answers) + 1
           /\ \A k \in 1..Len(g.given) : g.given[k].id = k
           /\ \A k \in 1..Len(g.answers) : g.answers[k].from = "body" <=> k <= Len(g.given)
<1>1. g \in Generators /\ OrderInv(g, n) /\ ~g.fault /\ StateInv(g) /\ BodyInv(g)
  BY DEF Coherent
<1>2. g.state = "EXECUTING" /\ g.queue # <<>> /\ ~g.awaits /\ g.returns = 0 /\ g.func
  BY <1>1 DEF StateInv, Over
<1> QED BY <1>1, <1>2 DEF BodyInv

(***************************************************************************)
(* The steps.                                                              *)
(***************************************************************************)

\* js_async_generator_next: the request goes behind the others.
LEMMA EnqueueCoherent ==
    ASSUME NEW n \in Nat, Coherent(s, n), calls = n, NEW type \in Magic
    PROVE  /\ Coherent(Enqueue(s, type), n + 1) /\ Enqueue(s, type).state = s.state
<1> DEFINE r == [id |-> calls + 1, type |-> type]
           q == Append(s.queue, r)
           h == [s EXCEPT !.queue = q]
<1>1. s \in Generators /\ ~s.fault /\ StateInv(s) /\ OrderInv(s, n) /\ BodyInv(s)
  BY DEF Coherent
<1>2. s.queue \in Seq(Request) /\ Len(s.queue) \in Nat /\ Len(s.answers) \in Nat
  BY <1>1, FieldTypes
<1>3. r \in Request /\ r.id = n + 1
  BY DEF Request
<1> HIDE DEF r
<1>4. q \in Seq(Request) /\ q # <<>> /\ Len(q) = Len(s.queue) + 1 /\ q[Len(s.queue) + 1] = r
      /\ \A k \in 1..Len(s.queue) : q[k] = s.queue[k]
  BY <1>2, <1>3, AppendProperties
<1>5. Enqueue(s, type) = h
  BY DEF Enqueue, q, r
<1> HIDE DEF q
<1>6. /\ h \in Generators /\ h.queue = q /\ h.answers = s.answers
      /\ h.state = s.state /\ h.func = s.func /\ h.running = s.running /\ h.awaits = s.awaits
      /\ h.returns = s.returns /\ h.given = s.given /\ h.fault = s.fault
  BY <1>1, <1>4 DEF Generators, Request
<1> HIDE DEF h
<1>7. StateInv(h)
  BY <1>1, <1>4, <1>6 DEF StateInv
<1>8. OrderInv(h, n + 1)
  <2>0. Len(s.answers) + Len(s.queue) = n
    BY <1>1 DEF OrderInv
  <2>1. \A x, y \in Nat : x + (y + 1) = (x + y) + 1
    OBVIOUS
  <2>2. Len(s.answers) + (Len(s.queue) + 1) = n + 1
    BY ONLY <1>2, <2>0, <2>1, Zenon
  <2>3. Len(h.answers) + Len(h.queue) = n + 1
    BY <1>4, <1>6, <2>2
  <2>4. \A k \in 1..Len(h.answers) : h.answers[k].id = k
    BY <1>1, <1>6 DEF OrderInv
  <2>5. ASSUME NEW k \in 1..Len(h.queue) PROVE h.queue[k].id = Len(h.answers) + k
    <3>1. CASE k \in 1..Len(s.queue)
      BY <1>1, <1>4, <1>6, <3>1 DEF OrderInv
    <3>2. CASE k = Len(s.queue) + 1
      BY <1>3, <1>4, <1>6, <2>2, <3>2
    <3> QED BY <1>2, <1>4, <1>6, <3>1, <3>2
  <2> QED BY <2>3, <2>4, <2>5 DEF OrderInv
<1>9. BodyInv(h)
  BY <1>1, <1>6 DEF BodyInv
<1> QED BY <1>1, <1>5, <1>6, <1>7, <1>8, <1>9 DEF Coherent

\* A call, also one that the body makes.
LEMMA CallStep ==
    ASSUME GeneratorInv, NEW type \in Magic, Call(type)
    PROVE  GeneratorInv'
<1> DEFINE g == Enqueue(s, type)
<1>1. calls \in Nat /\ Coherent(s, calls) /\ calls' = calls + 1
      /\ s' = IF IsFree(g) THEN ResumeNext(g) ELSE g
  BY DEF GeneratorInv, Call
<1>2. Coherent(g, calls + 1)
  BY <1>1, EnqueueCoherent
<1> HIDE DEF g
<1>3. CASE IsFree(g)
  BY <1>1, <1>2, <1>3, ResumeNextCoherent DEF IsFree, GeneratorInv
<1>4. CASE ~IsFree(g)
  BY <1>1, <1>2, <1>4 DEF IsFree, GeneratorInv, Attended, Suspended
<1> QED BY <1>3, <1>4

\* A yield.
LEMMA YieldStep ==
    ASSUME GeneratorInv, NEW state \in {"SUSPENDED_YIELD", "SUSPENDED_YIELD_STAR"}, Yield(state)
    PROVE  GeneratorInv'
<1> DEFINE g == [s EXCEPT !.running = FALSE, !.state = state]
<1>1. calls \in Nat /\ Coherent(s, calls) /\ calls' = calls /\ s.running
  BY DEF GeneratorInv, Yield
<1>2. /\ s \in Generators /\ OrderInv(s, calls) /\ ~s.fault
      /\ s.queue # <<>> /\ ~s.awaits /\ s.returns = 0 /\ s.func
      /\ Len(s.given) = Len(s.answers) + 1
      /\ \A k \in 1..Len(s.given) : s.given[k].id = k
      /\ \A k \in 1..Len(s.answers) : s.answers[k].from = "body" <=> k <= Len(s.given)
  BY <1>1, RunningBody
<1>3. s' = ResumeNext(Answer(g, "value", "body"))
  <2>1. g = [Stopped EXCEPT !.state = state]
    BY <1>2 DEF Stopped, Generators
  <2> QED BY <2>1 DEF Yield, Yielded
<1>4. /\ g \in Generators /\ g.state = state /\ g.running = FALSE
      /\ g.queue = s.queue /\ g.func = s.func /\ g.awaits = s.awaits /\ g.returns = s.returns
      /\ g.given = s.given /\ g.answers = s.answers /\ g.fault = s.fault
  BY <1>2 DEF Generators, State
<1> HIDE DEF g
<1>5. OrderInv(g, calls)
  BY <1>2, <1>4 DEF OrderInv
<1>6. Coherent(Answer(g, "value", "body"), calls) /\ Answer(g, "value", "body").state = state
  <2>1. /\ calls \in Nat /\ g \in Generators /\ OrderInv(g, calls) /\ ~g.fault /\ g.queue # <<>>
        /\ ~g.running /\ ~g.awaits /\ g.returns = 0 /\ g.state = state
        /\ g.state \in {"SUSPENDED_YIELD", "SUSPENDED_YIELD_STAR", "COMPLETED"}
        /\ g.func <=> g.state # "COMPLETED"
        /\ Len(g.given) = Len(g.answers) + 1
        /\ "value" \in {"value", "done", "rejected"}
    BY <1>1, <1>2, <1>4, <1>5
  <2>2. /\ \A k \in 1..Len(g.given) : g.given[k].id = k
        /\ \A k \in 1..Len(g.answers) : g.answers[k].from = "body" <=> k <= Len(g.given)
    BY <1>2, <1>4
  <2> QED BY ONLY <2>1, <2>2, AnswerFromBody
<1>7. Coherent(s', calls) /\ Attended(s')
  BY <1>1, <1>3, <1>6, ResumeNextCoherent
<1> QED BY <1>1, <1>7 DEF GeneratorInv

\* The end of the body.
LEMMA FinishStep ==
    ASSUME GeneratorInv, NEW how \in {"done", "rejected"}, Finish(how)
    PROVE  GeneratorInv'
<1> DEFINE g == [s EXCEPT !.running = FALSE, !.state = "COMPLETED", !.func = FALSE]
<1>1. calls \in Nat /\ Coherent(s, calls) /\ calls' = calls /\ s.running
  BY DEF GeneratorInv, Finish
<1>2. /\ s \in Generators /\ OrderInv(s, calls) /\ ~s.fault /\ s.state = "EXECUTING"
      /\ s.queue # <<>> /\ ~s.awaits /\ s.returns = 0 /\ s.func
      /\ Len(s.given) = Len(s.answers) + 1
      /\ \A k \in 1..Len(s.given) : s.given[k].id = k
      /\ \A k \in 1..Len(s.answers) : s.answers[k].from = "body" <=> k <= Len(s.given)
  BY <1>1, RunningBody
<1>3. Complete(Stopped) = g
  <2>1. /\ Stopped \in Generators /\ Stopped.func = s.func /\ Stopped.state = s.state
        /\ s.func \in BOOLEAN
    BY <1>2 DEF Stopped, Generators
  <2>2. Check(Stopped, Stopped.func) = Stopped
    BY <1>2, <2>1, CheckHolds
  <2>3. Complete(Stopped) = [Stopped EXCEPT !.state = "COMPLETED", !.func = FALSE]
    BY <1>2, <2>1, <2>2 DEF Complete
  <2> QED BY <1>2, <2>3 DEF Stopped, Generators
<1>4. /\ g \in Generators /\ g.state = "COMPLETED" /\ g.running = FALSE /\ g.func = FALSE
      /\ g.queue = s.queue /\ g.awaits = s.awaits /\ g.returns = s.returns
      /\ g.given = s.given /\ g.answers = s.answers /\ g.fault = s.fault
  BY <1>2 DEF Generators, State
<1> HIDE DEF g
<1>5. OrderInv(g, calls)
  BY <1>2, <1>4 DEF OrderInv
<1>6. Coherent(Answer(g, how, "body"), calls) /\ Answer(g, how, "body").state = "COMPLETED"
  <2>1. /\ calls \in Nat /\ g \in Generators /\ OrderInv(g, calls) /\ ~g.fault /\ g.queue # <<>>
        /\ ~g.running /\ ~g.awaits /\ g.returns = 0 /\ g.state = "COMPLETED"
        /\ g.state \in {"SUSPENDED_YIELD", "SUSPENDED_YIELD_STAR", "COMPLETED"}
        /\ g.func <=> g.state # "COMPLETED"
        /\ Len(g.given) = Len(g.answers) + 1
        /\ how \in {"value", "done", "rejected"}
    BY <1>1, <1>2, <1>4, <1>5
  <2>2. /\ \A k \in 1..Len(g.given) : g.given[k].id = k
        /\ \A k \in 1..Len(g.answers) : g.answers[k].from = "body" <=> k <= Len(g.given)
    BY <1>2, <1>4
  <2> QED BY ONLY <2>1, <2>2, AnswerFromBody
<1>7. s' = ResumeNext(Answer(g, how, "body"))
  BY <1>3 DEF Finish
<1>8. Coherent(s', calls) /\ Attended(s')
  BY <1>1, <1>6, <1>7, ResumeNextCoherent
<1> QED BY <1>1, <1>8 DEF GeneratorInv

\* An executing generator changes hands between its body and an await.
LEMMA Handover ==
    ASSUME NEW g, NEW n \in Nat, Coherent(g, n), g.state = "EXECUTING",
           NEW runs \in BOOLEAN, NEW waits \in BOOLEAN, runs <=> ~waits
    PROVE  LET h == [g EXCEPT !.running = runs, !.awaits = waits] IN
           Coherent(h, n) /\ Attended(h)
<1> DEFINE h == [g EXCEPT !.running = runs, !.awaits = waits]
<1>1. g \in Generators /\ ~g.fault /\ StateInv(g) /\ OrderInv(g, n) /\ BodyInv(g)
  BY DEF Coherent
<1>2. /\ h \in Generators /\ h.running = runs /\ h.awaits = waits /\ h.state = g.state
      /\ h.queue = g.queue /\ h.func = g.func /\ h.returns = g.returns
      /\ h.given = g.given /\ h.answers = g.answers /\ h.fault = g.fault
  BY <1>1 DEF Generators
<1> HIDE DEF h
<1>3. StateInv(h)
  BY <1>1, <1>2 DEF StateInv
<1>4. OrderInv(h, n) /\ BodyInv(h)
  BY <1>1, <1>2 DEF OrderInv, BodyInv
<1>5. Coherent(h, n) /\ Attended(h)
  BY <1>1, <1>2, <1>3, <1>4 DEF Coherent, Attended, Suspended
<1> QED BY <1>5 DEF h

\* An await.
LEMMA AwaitStep ==
    ASSUME GeneratorInv, Await
    PROVE  GeneratorInv'
<1>1. calls \in Nat /\ Coherent(s, calls) /\ calls' = calls /\ s.running
  BY DEF GeneratorInv, Await
<1>2. s \in Generators /\ s.state = "EXECUTING" /\ ~s.awaits /\ s.awaits \in BOOLEAN
  <2>1. s \in Generators /\ s.state = "EXECUTING" /\ ~s.awaits /\ s.func
    BY <1>1, RunningBody
  <2> QED BY <2>1, FieldTypes
<1>3. Check(Stopped, ~s.awaits) = Stopped
  <2>1. Stopped \in Generators
    BY <1>2 DEF Stopped, Generators
  <2> QED BY <1>2, <2>1, CheckHolds
<1>4. s' = [s EXCEPT !.running = FALSE, !.awaits = TRUE]
  BY <1>2, <1>3 DEF Await, Stopped, Generators
<1>5. Coherent(s', calls) /\ Attended(s')
  BY <1>1, <1>2, <1>4, Handover
<1> QED BY <1>1, <1>5 DEF GeneratorInv

\* An await whose value gives an error goes on at once.
LEMMA AwaitFailsStep ==
    ASSUME GeneratorInv, AwaitFails
    PROVE  GeneratorInv'
<1>1. calls \in Nat /\ Coherent(s, calls) /\ calls' = calls /\ s.running
  BY DEF GeneratorInv, AwaitFails
<1>2. s \in Generators /\ s.state = "EXECUTING" /\ ~s.awaits /\ s.func /\ s.awaits \in BOOLEAN
  <2>1. s \in Generators /\ s.state = "EXECUTING" /\ ~s.awaits /\ s.func
    BY <1>1, RunningBody
  <2> QED BY <2>1, FieldTypes
<1>3. Check(Stopped, Stopped.func /\ ~Stopped.running) = Stopped
  <2>1. Stopped \in Generators /\ Stopped.func = s.func /\ Stopped.running = FALSE
    BY <1>2 DEF Stopped, Generators
  <2> QED BY <1>2, <2>1, CheckHolds
<1>4. s' = [s EXCEPT !.running = TRUE, !.awaits = FALSE]
  <2>1. s' = [Stopped EXCEPT !.state = "EXECUTING", !.running = TRUE]
    BY <1>3 DEF AwaitFails, Resume
  <2> QED BY <1>2, <2>1 DEF Stopped, Generators
<1>5. Coherent(s', calls) /\ Attended(s')
  BY <1>1, <1>2, <1>4, Handover
<1> QED BY <1>1, <1>5 DEF GeneratorInv

\* The job of an await.
LEMMA AwaitedStep ==
    ASSUME GeneratorInv, Awaited
    PROVE  GeneratorInv'
<1> DEFINE g == [s EXCEPT !.awaits = FALSE]
<1>1. calls \in Nat /\ Coherent(s, calls) /\ calls' = calls /\ s.awaits /\ ~s.running
  BY DEF GeneratorInv, Awaited
<1>2. s \in Generators /\ StateInv(s)
  BY <1>1 DEF Coherent
<1>3. s.state = "EXECUTING" /\ s.func /\ s.queue # <<>>
  BY <1>1, <1>2 DEF StateInv, Over
<1>4. Check(s, s.state = "EXECUTING" /\ s.func /\ s.queue # <<>>) = s
  BY <1>2, <1>3, CheckHolds
<1>5. /\ g \in Generators /\ g.queue = s.queue /\ g.state = s.state /\ g.func = s.func
      /\ g.running = s.running /\ g.running \in BOOLEAN
  BY <1>2 DEF Generators
<1>6. s' = ResumeNext(g)
  BY <1>4 DEF Awaited
<1>7. s' = [s EXCEPT !.running = TRUE, !.awaits = FALSE]
  <2> HIDE DEF g
  <2>1. ResumeNext(g) = Resume(g)
    BY <1>3, <1>5 DEF ResumeNext
  <2>2. Check(g, g.func /\ ~g.running) = g
    BY <1>1, <1>3, <1>5, CheckHolds
  <2>3. s' = [g EXCEPT !.state = "EXECUTING", !.running = TRUE]
    BY <1>6, <2>1, <2>2 DEF Resume
  <2> QED BY <1>2, <1>3, <2>3 DEF g, Generators
<1>8. Coherent(s', calls) /\ Attended(s')
  BY <1>1, <1>3, <1>7, Handover
<1> QED BY <1>1, <1>8 DEF GeneratorInv

\* The job of a return() on a generator that is over.
LEMMA ReturnedStep ==
    ASSUME GeneratorInv, NEW how \in {"done", "rejected"}, Returned(how)
    PROVE  GeneratorInv'
<1> DEFINE c == s.returns - 1
           g == [s EXCEPT !.returns = c, !.state = "COMPLETED"]
<1>1. calls \in Nat /\ Coherent(s, calls) /\ calls' = calls /\ s.returns > 0
      /\ s' = AfterReturn(s, how)
  BY DEF GeneratorInv, Returned
<1>2. s \in Generators /\ ~s.fault /\ StateInv(s) /\ OrderInv(s, calls) /\ BodyInv(s)
  BY <1>1 DEF Coherent
<1>3. s.state = "AWAITING_RETURN" /\ s.queue # <<>> /\ c = 0
  BY <1>1, <1>2 DEF StateInv
<1>4. s' = Answer(g, how, "request")
  <2>1. Check(s, s.state \in {"AWAITING_RETURN", "COMPLETED"}) = s
    BY <1>2, <1>3, CheckHolds
  <2> QED BY <1>1, <2>1 DEF AfterReturn
<1> HIDE DEF c
<1>5. /\ g \in Generators /\ g.state = "COMPLETED" /\ g.returns = 0
      /\ g.queue = s.queue /\ g.func = s.func /\ g.running = s.running /\ g.awaits = s.awaits
      /\ g.given = s.given /\ g.answers = s.answers /\ g.fault = s.fault
  BY <1>2, <1>3 DEF Generators, State
<1> HIDE DEF g
<1>6. StateInv(g)
  BY <1>2, <1>3, <1>5 DEF StateInv, Over
<1>7. OrderInv(g, calls) /\ BodyInv(g)
  BY <1>2, <1>3, <1>5 DEF OrderInv, BodyInv, Over, Suspended
<1>8. Coherent(g, calls)
  BY <1>2, <1>5, <1>6, <1>7 DEF Coherent
<1>9. Coherent(s', calls) /\ s'.state = "COMPLETED"
  BY <1>1, <1>3, <1>4, <1>5, <1>8, AnswerFromRequest
<1> QED BY <1>1, <1>9 DEF GeneratorInv, Attended, Suspended

(***************************************************************************)
(* The theorem.                                                            *)
(***************************************************************************)

\* A new generator is coherent, and every step keeps it so.
LEMMA GeneratorInvariant == Spec => []GeneratorInv
<1>1. Init => GeneratorInv
  <2> SUFFICES ASSUME Init PROVE GeneratorInv
    OBVIOUS
  <2>1. s = NewGenerator /\ calls = 0
    BY DEF Init
  <2>2. /\ s.state = "SUSPENDED_START" /\ s.queue = <<>> /\ s.func = TRUE /\ s.running = FALSE
        /\ s.awaits = FALSE /\ s.returns = 0 /\ s.given = <<>> /\ s.answers = <<>>
        /\ s.fault = FALSE
    BY <2>1 DEF NewGenerator
  <2>3. s \in Generators
    BY <2>1, EmptySeq DEF NewGenerator, Generators, State
  <2>4. Len(<<>>) = 0
    BY EmptySeq
  <2>5. StateInv(s) /\ OrderInv(s, 0) /\ BodyInv(s)
    BY <2>2, <2>4 DEF StateInv, OrderInv, BodyInv, Over, Suspended
  <2> QED BY <2>1, <2>2, <2>3, <2>5 DEF GeneratorInv, Coherent, Attended
<1>2. ASSUME GeneratorInv, [Next]_vars PROVE GeneratorInv'
  <2>1. ASSUME NEW type \in Magic, Call(type) PROVE GeneratorInv'
    BY <1>2, <2>1, CallStep
  <2>2. CASE Body
    BY <1>2, <2>2, YieldStep, AwaitStep, AwaitFailsStep, FinishStep DEF Body
  <2>3. CASE Jobs
    BY <1>2, <2>3, AwaitedStep, ReturnedStep DEF Jobs
  <2>4. CASE UNCHANGED vars
    BY <1>2, <2>4 DEF GeneratorInv, vars
  <2> QED BY <1>2, <2>1, <2>2, <2>3, <2>4 DEF Next
<1> QED BY <1>1, <1>2, PTL DEF Spec

\* Whatever is called while the body runs, awaits, returns or is through, the
\* calls of next, return and throw are answered in order, each once, with what
\* the body did when it was resumed for that call, and no assert fails.
THEOREM GeneratorAnswersItsCalls == Spec => []GeneratorAnswers
<1>1. ASSUME GeneratorInv PROVE GeneratorAnswers
  <2>1. /\ calls \in Nat /\ s \in Generators /\ ~s.fault /\ StateInv(s) /\ OrderInv(s, calls)
        /\ BodyInv(s) /\ Attended(s)
    BY <1>1 DEF GeneratorInv, Coherent
  <2>2. /\ s.state \in State /\ s.queue \in Seq(Request)
        /\ s.given \in Seq(Gift) /\ s.answers \in Seq(Reply)
        /\ Len(s.queue) \in Nat /\ Len(s.given) \in Nat /\ Len(s.answers) \in Nat
    BY <2>1, FieldTypes
  <2>3. /\ DOMAIN s.queue = 1..Len(s.queue) /\ DOMAIN s.given = 1..Len(s.given)
        /\ DOMAIN s.answers = 1..Len(s.answers)
    BY <2>2, LenProperties
  <2>4. TypeOK
    <3>1. ASSUME NEW k \in 1..Len(s.queue)
          PROVE  s.queue[k] \in [id : 1..calls, type : Magic]
      <4>1. s.queue[k] \in Request /\ s.queue[k].id = Len(s.answers) + k
        BY <2>1, <2>2, ElementOfSeq DEF OrderInv
      <4>2. Len(s.answers) + Len(s.queue) = calls
        BY <2>1 DEF OrderInv
      <4>3. \A a, q \in Nat : \A i \in 1..q : a + i \in 1..(a + q)
        OBVIOUS
      <4>4. Len(s.answers) + k \in 1..(Len(s.answers) + Len(s.queue))
        BY ONLY <2>2, <4>3, Zenon
      <4> QED BY <4>1, <4>2, <4>4 DEF Request
    <3>2. \A k \in DOMAIN s.queue : s.queue[k] \in [id : 1..calls, type : Magic]
      BY <2>3, <3>1
    <3> QED BY <2>1, <2>2, <3>2 DEF TypeOK, StateInv, Over
  <2>5. AnsweredInOrder
    BY <2>1, <2>3 DEF AnsweredInOrder, OrderInv
  <2>6. BodyAnswersItsRequest
    <3>1. Len(s.given) <= Len(s.answers) + 1
      BY <2>1, <2>2 DEF BodyInv, State, Over, Suspended
    <3>2. \A k \in DOMAIN s.answers : s.answers[k].from = "body" <=> k \in DOMAIN s.given
      BY <2>1, <2>2, <2>3 DEF BodyInv
    <3> QED BY <2>1, <2>3, <3>1, <3>2 DEF BodyAnswersItsRequest, BodyInv
  <2>7. AnsweredUntilComplete
    BY <2>1, <2>2 DEF AnsweredUntilComplete, StateInv, Attended, State, Suspended
  <2> QED BY <2>1, <2>4, <2>5, <2>6, <2>7 DEF GeneratorAnswers, NoFault
<1> QED BY <1>1, GeneratorInvariant, PTL
=============================================================================
