--------------------------- MODULE JSWorkerProofs ---------------------------
(***************************************************************************)
(* Proofs about JSWorker: for any number of messages and of objects that   *)
(* share the buffer, and whether or not the main script may throw.         *)
(***************************************************************************)
EXTENDS JSWorker, SequenceTheorems, FiniteSetTheorems, TLAPS

(***************************************************************************)
(* Queues.                                                                 *)
(***************************************************************************)

\* How many messages of a queue carry the buffer is a number.
LEMMA CarriedType ==
    ASSUME NEW q \in Seq(Messages)
    PROVE  /\ Carried(q) \in Nat
           /\ IsFiniteSet({k \in 1..Len(q) : q[k].sab})
<1>1. Len(q) \in Nat
  BY LenProperties
<1>2. IsFiniteSet(1..Len(q))
  BY <1>1, FS_Interval
<1>3. IsFiniteSet({k \in 1..Len(q) : q[k].sab})
  BY <1>2, FS_Subset
<1> QED BY <1>3, FS_CardinalityType DEF Carried

\* An empty queue carries none.
LEMMA CarriedEmpty == Carried(<<>>) = 0
<1>1. {k \in 1..Len(<<>>) : <<>>[k].sab} = {}
  OBVIOUS
<1> QED BY <1>1, FS_EmptySet DEF Carried

\* A message that is added counts once.
LEMMA CarriedAppend ==
    ASSUME NEW q \in Seq(Messages), NEW m \in Messages
    PROVE  Carried(Append(q, m)) = Carried(q) + One(m.sab)
<1> DEFINE K == {k \in 1..Len(q) : q[k].sab}
           r == Append(q, m)
           R == {k \in 1..Len(r) : r[k].sab}
<1>1. Len(q) \in Nat /\ Len(r) = Len(q) + 1 /\ r[Len(q) + 1] = m
      /\ \A i \in 1..Len(q) : r[i] = q[i]
  BY LenProperties, AppendProperties
<1>2. IsFiniteSet(K) /\ Cardinality(K) \in Nat
  BY CarriedType DEF Carried
<1>3. Len(q) + 1 \notin K
  BY <1>1
<1>4. R = IF m.sab THEN K \cup {Len(q) + 1} ELSE K
  <2> HIDE DEF r
  <2> QED BY <1>1
<1>5. Cardinality(K \cup {Len(q) + 1}) = Cardinality(K) + 1
  BY <1>2, <1>3, FS_AddElement
<1> HIDE DEF K, R
<1>6. Cardinality(R) = Cardinality(K) + One(m.sab)
  BY <1>2, <1>4, <1>5 DEF One
<1> QED BY <1>6 DEF Carried, K, R

\* The first message that is taken no longer counts.
LEMMA CarriedTail ==
    ASSUME NEW q \in Seq(Messages), q # <<>>
    PROVE  Carried(q) = Carried(Tail(q)) + One(Head(q).sab)
<1> DEFINE K == {k \in 1..Len(q) : q[k].sab}
           r == Tail(q)
           R == {k \in 1..Len(r) : r[k].sab}
           f == [k \in R |-> k + 1]
<1>1. /\ r \in Seq(Messages) /\ Len(q) \in Nat /\ Len(q) > 0 /\ Len(r) = Len(q) - 1
      /\ \A i \in 1..Len(r) : r[i] = q[i + 1]
      /\ Head(q) = q[1]
  BY LenProperties, HeadTailProperties, EmptySeq
<1>2. IsFiniteSet(R) /\ Cardinality(R) \in Nat
  BY <1>1, CarriedType DEF Carried
<1> HIDE DEF r
<1>3. f \in Bijection(R, K \ {1})
  <2>1. f \in [R -> K \ {1}]
    BY <1>1
  <2>2. \A a, b \in R : f[a] = f[b] => a = b
    BY <1>1
  <2>3. \A c \in K \ {1} : c - 1 \in R /\ f[c - 1] = c
    BY <1>1
  <2> HIDE DEF K, R, f
  <2>4. \A c \in K \ {1} : \E a \in R : f[a] = c
    BY <2>3
  <2> QED BY <2>1, <2>2, <2>4 DEF Bijection, Injection, Surjection, IsInjective
<1>4. ExistsBijection(R, K \ {1})
  BY <1>3 DEF ExistsBijection
<1> HIDE DEF K, R, f
<1>5. Cardinality(K \ {1}) = Cardinality(R) /\ IsFiniteSet(K \ {1})
  BY <1>2, <1>4, FS_Bijection
<1>6. (K \ {1}) \cup {1} = K \cup {1}
  OBVIOUS
<1>7. 1 \in K <=> q[1].sab
  BY <1>1 DEF K
<1>8. Cardinality(K) = Cardinality(R) + One(q[1].sab)
  <2>1. CASE q[1].sab
    <3>1. (K \ {1}) \cup {1} = K
      BY <1>7, <2>1
    <3>2. Cardinality((K \ {1}) \cup {1}) = Cardinality(K \ {1}) + 1
      BY <1>5, FS_AddElement
    <3> QED BY <3>1, <3>2, <1>5, <1>2, <2>1 DEF One
  <2>2. CASE ~q[1].sab
    <3>1. K \ {1} = K
      BY <1>7, <2>2
    <3>2. One(q[1].sab) = 0
      BY <2>2 DEF One
    <3>3. Cardinality(K) = Cardinality(R)
      BY <3>1, <1>5
    <3> QED BY <3>2, <3>3, <1>2
  <2> QED BY <2>1, <2>2
<1> QED BY <1>8, <1>1 DEF Carried, K, R, r

\* What was taken and what waits is the same before a message is taken and
\* after it.
LEMMA TakenInOrder ==
    ASSUME NEW g \in Seq(Messages), NEW q \in Seq(Messages), q # <<>>
    PROVE  /\ Append(g, Head(q)) \o Tail(q) = g \o q
           /\ Append(g, Head(q)) \in Seq(Messages)
           /\ Tail(q) \in Seq(Messages) /\ Head(q) \in Messages
           /\ Tail(q) = <<>> <=> Len(q) = 1
<1>1. Head(q) \in Messages /\ Tail(q) \in Seq(Messages)
  BY HeadTailProperties
<1>2. Append(g, Head(q)) \in Seq(Messages)
  BY <1>1, AppendProperties
<1>3. Append(g, Head(q)) \o Tail(q) = g \o q
  <2> DEFINE l == Append(g, Head(q)) \o Tail(q)
             r == g \o q
  <2>1. l \in Seq(Messages) /\ r \in Seq(Messages)
    BY <1>1, <1>2, ConcatProperties
  <2>2. /\ Len(Append(g, Head(q))) = Len(g) + 1 /\ Len(Tail(q)) = Len(q) - 1
        /\ Len(g) \in Nat /\ Len(q) \in Nat /\ Len(q) > 0
    BY <1>1, AppendProperties, HeadTailProperties, LenProperties, EmptySeq
  <2>3. Len(l) = Len(g) + Len(q) /\ Len(r) = Len(g) + Len(q)
    BY <1>1, <1>2, <2>2, ConcatProperties
  <2>4. \A i \in 1..Len(l) : l[i] = r[i]
    <3> SUFFICES ASSUME NEW i \in 1..Len(l) PROVE l[i] = r[i]
      OBVIOUS
    <3> HIDE DEF l, r
    <3>1. i \in Int /\ 1 <= i /\ i <= Len(g) + Len(q)
      BY <2>2, <2>3
    <3>2. r[i] = IF i <= Len(g) THEN g[i] ELSE q[i - Len(g)]
      BY <3>1, <2>2, ConcatProperties DEF r
    <3>3. l[i] = IF i <= Len(g) + 1 THEN Append(g, Head(q))[i] ELSE Tail(q)[i - (Len(g) + 1)]
      BY <3>1, <2>2, <1>1, <1>2, ConcatProperties DEF l
    <3>4. Append(g, Head(q))[Len(g) + 1] = Head(q) /\ \A k \in 1..Len(g) : Append(g, Head(q))[k] = g[k]
      BY <1>1, AppendProperties
    <3>5. Head(q) = q[1] /\ \A k \in 1..(Len(q) - 1) : Tail(q)[k] = q[k + 1]
      BY <2>2, HeadTailProperties
    <3>6. CASE i <= Len(g)
      BY <3>1, <3>2, <3>3, <3>4, <3>6, <2>2
    <3>7. CASE i = Len(g) + 1
      BY <3>1, <3>2, <3>3, <3>4, <3>5, <3>7, <2>2
    <3>8. CASE i > Len(g) + 1
      <4>1. i - (Len(g) + 1) \in 1..(Len(q) - 1) /\ (i - (Len(g) + 1)) + 1 = i - Len(g)
        BY <3>1, <3>8, <2>2
      <4>2. Tail(q)[i - (Len(g) + 1)] = q[i - Len(g)]
        BY <4>1, <3>5
      <4> QED BY <3>1, <3>2, <3>3, <4>2, <3>8, <2>2
    <3> QED BY <3>1, <3>6, <3>7, <3>8, <2>2
  <2> HIDE DEF l, r
  <2>5. l = r
    BY <2>1, <2>3, <2>4, SeqEqual
  <2> QED BY <2>5 DEF l, r
<1>4. Tail(q) = <<>> <=> Len(q) = 1
  <2>1. Len(Tail(q)) = Len(q) - 1 /\ Len(q) \in Nat
    BY HeadTailProperties, LenProperties
  <2>2. Tail(q) = <<>> <=> Len(Tail(q)) = 0
    BY <1>1, EmptySeq
  <2> QED BY <2>1, <2>2
<1> QED BY <1>1, <1>2, <1>3, <1>4

\* A message is added behind what was taken and what waits.
LEMMA AddedInOrder ==
    ASSUME NEW g \in Seq(Messages), NEW q \in Seq(Messages), NEW m \in Messages
    PROVE  /\ Append(g \o q, m) = g \o Append(q, m)
           /\ Append(q, m) \in Seq(Messages) /\ Append(q, m) # <<>>
<1>1. Append(q, m) = q \o <<m>> /\ Append(q, m) \in Seq(Messages) /\ Append(q, m) # <<>>
  BY AppendIsConcat, AppendProperties
<1>2. g \o q \in Seq(Messages) /\ <<m>> \in Seq(Messages)
  BY ConcatProperties
<1>3. Append(g \o q, m) = (g \o q) \o <<m>>
  BY <1>2, AppendIsConcat
<1>4. (g \o q) \o <<m>> = g \o (q \o <<m>>)
  BY <1>2, ConcatAssociative
<1> QED BY <1>1, <1>3, <1>4

(***************************************************************************)
(* What the invariant says of the buffer, with the sums written out.       *)
(***************************************************************************)

\* Each thread holds the buffer with its objects, the messages that wait for
\* it and the message in its hand.
LEMMA HeldBy ==
    ASSUME WorkerInv
    PROVE  /\ \A p \in Threads : Carried(pipe[p].q) \in Nat /\ InHand(p) \in {0, 1} /\ own[p] \in Nat
           /\ sab = own["main"] + own["worker"] + (Carried(pipe["main"].q) + Carried(pipe["worker"].q))
                     + InHand("main") + InHand("worker")
<1>1. TypeOK /\ BufferCounted
  BY DEF WorkerInv
<1>2. \A p \in Threads : Carried(pipe[p].q) \in Nat /\ InHand(p) \in {0, 1} /\ own[p] \in Nat
  BY <1>1, CarriedType DEF TypeOK, Pipes, InHand
<1>3. sab = own["main"] + own["worker"] + (Carried(pipe["main"].q) + Carried(pipe["worker"].q))
            + InHand("main") + InHand("worker")
  BY <1>1 DEF BufferCounted, SabsIn, SabsOf, Threads
<1> QED BY <1>2, <1>3

(***************************************************************************)
(* The steps that move a thread along.                                     *)
(***************************************************************************)

\* A thread that ends its turn keeps what it has.
LEMMA EndTurnStep ==
    ASSUME WorkerInv, NEW t \in Threads, EndTurn(t)
    PROVE  WorkerInv'
<1> USE DEF Threads, Other, NoOne
<1>0. TypeOK /\ HistoryInv /\ StartInv /\ RefInv /\ UseInv /\ FaultInv
      /\ LockInv /\ WakerInv /\ FirstInFirstOut /\ BufferCounted
  BY DEF WorkerInv
<1>1. /\ pc[t] = "run" /\ pc["main"] # "done" /\ pc' = [pc EXCEPT ![t] = "poll"]
      /\ UNCHANGED <<pipe, obj, port, hand, own, sab, sent, got, failed, fault>>
  BY DEF EndTurn, At, Go
<1>2. TypeOK'
  BY <1>0, <1>1 DEF TypeOK
<1>3. HistoryInv'
  BY <1>0, <1>1 DEF HistoryInv
<1>4. StartInv'
  BY <1>0, <1>1 DEF StartInv, TypeOK
<1>5. RefInv'
  BY <1>0, <1>1 DEF RefInv, Refs, One, TypeOK
<1>6. UseInv'
  BY <1>0, <1>1 DEF UseInv, TypeOK
<1>7. FaultInv'
  BY <1>0, <1>1 DEF FaultInv, TypeOK
<1>8. LockInv'
  BY <1>0, <1>1 DEF LockInv, TypeOK
<1>9. WakerInv'
  BY <1>0, <1>1 DEF WakerInv, One, TypeOK
<1>10. FirstInFirstOut'
  BY <1>0, <1>1 DEF FirstInFirstOut
<1>11. BufferCounted'
  BY <1>0, <1>1 DEF BufferCounted, SabsIn, SabsOf, InHand
<1> QED BY <1>2, <1>3, <1>4, <1>5, <1>6, <1>7, <1>8, <1>9, <1>10, <1>11 DEF WorkerInv

\* A script that throws leaves its handlers where they are.
LEMMA FailStep ==
    ASSUME WorkerInv, Fail
    PROVE  WorkerInv'
<1> USE DEF Threads, Other, NoOne
<1>0. TypeOK /\ HistoryInv /\ StartInv /\ RefInv /\ UseInv /\ FaultInv
      /\ LockInv /\ WakerInv /\ FirstInFirstOut /\ BufferCounted
  BY DEF WorkerInv
<1>1. /\ pc["main"] = "run" /\ pc' = [pc EXCEPT !["main"] = "handlers"] /\ failed' = TRUE
      /\ UNCHANGED <<pipe, obj, port, hand, own, sab, sent, got, fault>>
  BY DEF Fail, At, Go
<1>2. TypeOK'
  BY <1>0, <1>1 DEF TypeOK
<1>3. HistoryInv'
  BY <1>0, <1>1 DEF HistoryInv
<1>4. StartInv'
  BY <1>0, <1>1 DEF StartInv, TypeOK
<1>5. RefInv'
  BY <1>0, <1>1 DEF RefInv, Refs, One, TypeOK
<1>6. UseInv'
  BY <1>0, <1>1 DEF UseInv, TypeOK
<1>7. FaultInv'
  BY <1>0, <1>1 DEF FaultInv, TypeOK
<1>8. LockInv'
  BY <1>0, <1>1 DEF LockInv, TypeOK
<1>9. WakerInv'
  BY <1>0, <1>1 DEF WakerInv, One, TypeOK
<1>10. FirstInFirstOut'
  BY <1>0, <1>1 DEF FirstInFirstOut
<1>11. BufferCounted'
  BY <1>0, <1>1 DEF BufferCounted, SabsIn, SabsOf, InHand
<1> QED BY <1>2, <1>3, <1>4, <1>5, <1>6, <1>7, <1>8, <1>9, <1>10, <1>11 DEF WorkerInv

\* The loop goes on with a pipe that is there.
LEMMA PollStep ==
    ASSUME WorkerInv, NEW t \in Threads, Poll(t)
    PROVE  WorkerInv'
<1> USE DEF Threads, Other, NoOne
<1>0. TypeOK /\ HistoryInv /\ StartInv /\ RefInv /\ UseInv /\ FaultInv
      /\ LockInv /\ WakerInv /\ FirstInFirstOut /\ BufferCounted
  BY DEF WorkerInv
<1>1. /\ pc[t] = "poll" /\ pc["main"] # "done"
      /\ pc' = [pc EXCEPT ![t] = IF port[t] THEN "take" ELSE "handlers"]
      /\ fault' = (fault \/ (port[t] /\ ~pipe[t].live))
      /\ UNCHANGED <<pipe, obj, port, hand, own, sab, sent, got, failed>>
  BY DEF Poll, At, Go
<1>2. TypeOK'
  BY <1>0, <1>1 DEF TypeOK
<1>3. HistoryInv'
  <2>1. fault' \in BOOLEAN
    BY <1>1
  <2> QED BY <1>0, <1>1, <2>1 DEF HistoryInv
<1>4. StartInv'
  BY <1>0, <1>1 DEF StartInv, TypeOK
<1>5. RefInv'
  BY <1>0, <1>1 DEF RefInv, Refs, One, TypeOK
<1>6. UseInv'
  BY <1>0, <1>1 DEF UseInv, TypeOK
<1>7. FaultInv'
  <2>1. port[t] => pipe[t].live
    BY <1>0 DEF RefInv, Refs, One, TypeOK
  <2> QED BY <1>0, <1>1, <2>1 DEF FaultInv, TypeOK
<1>8. LockInv'
  BY <1>0, <1>1 DEF LockInv, TypeOK
<1>9. WakerInv'
  BY <1>0, <1>1 DEF WakerInv, One, TypeOK
<1>10. FirstInFirstOut'
  BY <1>0, <1>1 DEF FirstInFirstOut
<1>11. BufferCounted'
  BY <1>0, <1>1 DEF BufferCounted, SabsIn, SabsOf, InHand
<1> QED BY <1>2, <1>3, <1>4, <1>5, <1>6, <1>7, <1>8, <1>9, <1>10, <1>11 DEF WorkerInv

(***************************************************************************)
(* The mutex and the waker.                                                *)
(***************************************************************************)

\* Posting begins with the mutex of a pipe that is there.
LEMMA PostLockStep ==
    ASSUME WorkerInv, NEW t \in Threads, PostLock(t)
    PROVE  WorkerInv'
<1> USE DEF Threads, Other, NoOne
<1>0. TypeOK /\ HistoryInv /\ StartInv /\ RefInv /\ UseInv /\ FaultInv
      /\ LockInv /\ WakerInv /\ FirstInFirstOut /\ BufferCounted
  BY DEF WorkerInv
<1>1. /\ pc[t] = "lock" /\ pc["main"] # "done" /\ pc' = [pc EXCEPT ![t] = "signal"]
      /\ pipe[Other(t)].lock = NoOne /\ fault' = (fault \/ ~pipe[Other(t)].live)
      /\ UNCHANGED <<obj, port, hand, own, sab, sent, got, failed>>
  BY DEF PostLock, Lock, At, Go
<1>2. /\ pipe' \in [Threads -> Pipes]
      /\ \A p \in Threads :
            /\ pipe'[p].live = pipe[p].live
            /\ pipe'[p].q = pipe[p].q
            /\ pipe'[p].bytes = pipe[p].bytes
            /\ pipe'[p].rc = pipe[p].rc
            /\ pipe'[p].lock = IF p = Other(t) THEN t ELSE pipe[p].lock
  <2>1. pipe' = [pipe EXCEPT ![Other(t)].lock = t]
    BY DEF PostLock, Lock, At, Go
  <2>2. pipe \in [Threads -> Pipes]
    BY <1>0 DEF TypeOK
  <2>3. pipe' = [pipe EXCEPT ![Other(t)] = [pipe[Other(t)] EXCEPT !.lock = t]]
    BY <2>1
  <2> QED BY ONLY t \in Threads, <2>2, <2>3 DEF Pipes, Threads, Other, NoOne
<1>3. TypeOK'
  BY <1>0, <1>1, <1>2 DEF TypeOK
<1>4. HistoryInv'
  <2>1. fault' \in BOOLEAN
    BY <1>1
  <2> QED BY <1>0, <1>1, <1>2, <2>1 DEF HistoryInv
<1>5. StartInv'
  BY <1>0, <1>1, <1>2 DEF StartInv, TypeOK
<1>6. RefInv'
  <2>1. pipe[Other(t)].live
    BY <1>0, <1>1 DEF RefInv, Refs, One, UseInv, TypeOK
  <2> QED BY <1>0, <1>1, <1>2, <2>1 DEF RefInv, Refs, One, TypeOK
<1>7. UseInv'
  BY <1>0, <1>1, <1>2 DEF UseInv, TypeOK
<1>8. FaultInv'
  <2>1. pipe[Other(t)].live
    BY <1>0, <1>1 DEF RefInv, Refs, One, UseInv, TypeOK
  <2> QED BY <1>0, <1>1, <2>1 DEF FaultInv, TypeOK
<1>9. LockInv'
  BY <1>0, <1>1, <1>2 DEF LockInv, TypeOK
<1>10. WakerInv'
  BY <1>0, <1>1, <1>2 DEF WakerInv, One, TypeOK
<1>11. FirstInFirstOut'
  BY <1>0, <1>1, <1>2 DEF FirstInFirstOut
<1>12. BufferCounted'
  BY <1>0, <1>1, <1>2 DEF BufferCounted, SabsIn, SabsOf, InHand
<1> QED BY <1>3, <1>4, <1>5, <1>6, <1>7, <1>8, <1>9, <1>10, <1>11, <1>12 DEF WorkerInv

\* And so does taking.
LEMMA TakeLockStep ==
    ASSUME WorkerInv, NEW t \in Threads, TakeLock(t)
    PROVE  WorkerInv'
<1> USE DEF Threads, Other, NoOne
<1>0. TypeOK /\ HistoryInv /\ StartInv /\ RefInv /\ UseInv /\ FaultInv
      /\ LockInv /\ WakerInv /\ FirstInFirstOut /\ BufferCounted
  BY DEF WorkerInv
<1>1. /\ pc[t] = "take" /\ pc["main"] # "done" /\ pc' = [pc EXCEPT ![t] = "taken"]
      /\ pipe[t].lock = NoOne /\ fault' = (fault \/ ~pipe[t].live)
      /\ UNCHANGED <<obj, port, hand, own, sab, sent, got, failed>>
  BY DEF TakeLock, Lock, At, Go
<1>2. /\ pipe' \in [Threads -> Pipes]
      /\ \A p \in Threads :
            /\ pipe'[p].live = pipe[p].live
            /\ pipe'[p].q = pipe[p].q
            /\ pipe'[p].bytes = pipe[p].bytes
            /\ pipe'[p].rc = pipe[p].rc
            /\ pipe'[p].lock = IF p = t THEN t ELSE pipe[p].lock
  <2>1. pipe' = [pipe EXCEPT ![t].lock = t]
    BY DEF TakeLock, Lock, At, Go
  <2>2. pipe \in [Threads -> Pipes]
    BY <1>0 DEF TypeOK
  <2>3. pipe' = [pipe EXCEPT ![t] = [pipe[t] EXCEPT !.lock = t]]
    BY <2>1
  <2> QED BY ONLY t \in Threads, <2>2, <2>3 DEF Pipes, Threads, Other, NoOne
<1>3. TypeOK'
  BY <1>0, <1>1, <1>2 DEF TypeOK
<1>4. HistoryInv'
  <2>1. fault' \in BOOLEAN
    BY <1>1
  <2> QED BY <1>0, <1>1, <1>2, <2>1 DEF HistoryInv
<1>5. StartInv'
  BY <1>0, <1>1, <1>2 DEF StartInv, TypeOK
<1>6. RefInv'
  <2>1. pipe[t].live
    BY <1>0, <1>1 DEF RefInv, Refs, One, UseInv, TypeOK
  <2> QED BY <1>0, <1>1, <1>2, <2>1 DEF RefInv, Refs, One, TypeOK
<1>7. UseInv'
  BY <1>0, <1>1, <1>2 DEF UseInv, TypeOK
<1>8. FaultInv'
  <2>1. pipe[t].live
    BY <1>0, <1>1 DEF RefInv, Refs, One, UseInv, TypeOK
  <2> QED BY <1>0, <1>1, <2>1 DEF FaultInv, TypeOK
<1>9. LockInv'
  BY <1>0, <1>1, <1>2 DEF LockInv, TypeOK
<1>10. WakerInv'
  BY <1>0, <1>1, <1>2 DEF WakerInv, One, TypeOK
<1>11. FirstInFirstOut'
  BY <1>0, <1>1, <1>2 DEF FirstInFirstOut
<1>12. BufferCounted'
  BY <1>0, <1>1, <1>2 DEF BufferCounted, SabsIn, SabsOf, InHand
<1> QED BY <1>3, <1>4, <1>5, <1>6, <1>7, <1>8, <1>9, <1>10, <1>11, <1>12 DEF WorkerInv

\* The waker is signalled for the first message.
LEMMA SignalStep ==
    ASSUME WorkerInv, NEW t \in Threads, Signal(t)
    PROVE  WorkerInv'
<1> USE DEF Threads, Other, NoOne
<1>0. TypeOK /\ HistoryInv /\ StartInv /\ RefInv /\ UseInv /\ FaultInv
      /\ LockInv /\ WakerInv /\ FirstInFirstOut /\ BufferCounted
  BY DEF WorkerInv
<1>1. /\ pc[t] = "signal" /\ pc["main"] # "done" /\ pc' = [pc EXCEPT ![t] = "add"]
      /\ UNCHANGED <<obj, port, hand, own, sab, sent, got, failed, fault>>
  BY DEF Signal, At, Go
<1>2. /\ pipe' \in [Threads -> Pipes]
      /\ \A p \in Threads :
            /\ pipe'[p].live = pipe[p].live
            /\ pipe'[p].q = pipe[p].q
            /\ pipe'[p].bytes = IF p = Other(t) /\ pipe[p].q = <<>> THEN pipe[p].bytes + 1 ELSE pipe[p].bytes
            /\ pipe'[p].rc = pipe[p].rc
            /\ pipe'[p].lock = pipe[p].lock
  <2>1. pipe' = [pipe EXCEPT ![Other(t)].bytes = IF pipe[Other(t)].q = <<>> THEN @ + 1 ELSE @]
    BY DEF Signal, At, Go
  <2> DEFINE b == IF pipe[Other(t)].q = <<>> THEN pipe[Other(t)].bytes + 1 ELSE pipe[Other(t)].bytes
  <2>2. pipe \in [Threads -> Pipes]
    BY <1>0 DEF TypeOK
  <2>3. b \in Nat
    BY <2>2 DEF Pipes
  <2>4. pipe' = [pipe EXCEPT ![Other(t)] = [pipe[Other(t)] EXCEPT !.bytes = b]]
    BY <2>1
  <2> HIDE DEF b
  <2>5. /\ pipe' \in [Threads -> Pipes]
        /\ \A p \in Threads :
              /\ pipe'[p].live = pipe[p].live /\ pipe'[p].q = pipe[p].q
              /\ pipe'[p].bytes = IF p = Other(t) THEN b ELSE pipe[p].bytes
              /\ pipe'[p].rc = pipe[p].rc /\ pipe'[p].lock = pipe[p].lock
    BY <2>2, <2>3, <2>4 DEF Pipes
  <2> QED BY <2>5 DEF b
<1>3. TypeOK'
  BY <1>0, <1>1, <1>2 DEF TypeOK
<1>4. HistoryInv'
  BY <1>0, <1>1, <1>2 DEF HistoryInv
<1>5. StartInv'
  BY <1>0, <1>1, <1>2 DEF StartInv, TypeOK
<1>6. RefInv'
  <2>1. pipe[Other(t)].live
    BY <1>0, <1>1 DEF RefInv, Refs, One, UseInv, TypeOK
  <2> QED BY <1>0, <1>1, <1>2, <2>1 DEF RefInv, Refs, One, TypeOK
<1>7. UseInv'
  BY <1>0, <1>1, <1>2 DEF UseInv, TypeOK
<1>8. FaultInv'
  BY <1>0, <1>1, <1>2 DEF FaultInv, TypeOK
<1>9. LockInv'
  BY <1>0, <1>1, <1>2 DEF LockInv, TypeOK
<1>10. WakerInv'
  BY <1>0, <1>1, <1>2 DEF WakerInv, One, TypeOK
<1>11. FirstInFirstOut'
  BY <1>0, <1>1, <1>2 DEF FirstInFirstOut
<1>12. BufferCounted'
  BY <1>0, <1>1, <1>2 DEF BufferCounted, SabsIn, SabsOf, InHand
<1> QED BY <1>3, <1>4, <1>5, <1>6, <1>7, <1>8, <1>9, <1>10, <1>11, <1>12 DEF WorkerInv

(***************************************************************************)
(* Messages.                                                               *)
(***************************************************************************)

\* A message is added behind the others.
LEMMA AddStep ==
    ASSUME WorkerInv, NEW t \in Threads, Add(t)
    PROVE  WorkerInv'
<1> USE DEF Threads, Other, NoOne
<1>0. TypeOK /\ HistoryInv /\ StartInv /\ RefInv /\ UseInv /\ FaultInv
      /\ LockInv /\ WakerInv /\ FirstInFirstOut /\ BufferCounted
  BY DEF WorkerInv
<1>1. /\ pc[t] = "add" /\ pc["main"] # "done" /\ pc' = [pc EXCEPT ![t] = "run"]
      /\ sent' = [sent EXCEPT ![t] = Append(@, hand[t])]
      /\ hand' = [hand EXCEPT ![t] = NoMessage]
      /\ UNCHANGED <<obj, port, own, sab, got, failed, fault>>
  BY DEF Add, At, Go
<1>2. /\ pipe' \in [Threads -> Pipes]
      /\ \A p \in Threads :
            /\ pipe'[p].live = pipe[p].live
            /\ pipe'[p].q = IF p = Other(t) THEN Append(pipe[p].q, hand[t]) ELSE pipe[p].q
            /\ pipe'[p].bytes = pipe[p].bytes
            /\ pipe'[p].rc = pipe[p].rc
            /\ pipe'[p].lock = IF p = Other(t) THEN NoOne ELSE pipe[p].lock
  <2>1. pipe' = [pipe EXCEPT ![Other(t)].q = Append(@, hand[t]), ![Other(t)].lock = NoOne]
    BY DEF Add, At, Go
  <2> DEFINE a == Append(pipe[Other(t)].q, hand[t])
  <2>2. pipe \in [Threads -> Pipes]
    BY <1>0 DEF TypeOK
  <2>3. a \in Seq(Messages)
    BY <1>0, AddedInOrder DEF TypeOK, Pipes
  <2>4. pipe' = [pipe EXCEPT ![Other(t)] = [pipe[Other(t)] EXCEPT !.q = a, !.lock = NoOne]]
    BY <2>1
  <2> HIDE DEF a
  <2>5. /\ pipe' \in [Threads -> Pipes]
        /\ \A p \in Threads :
              /\ pipe'[p].live = pipe[p].live /\ pipe'[p].bytes = pipe[p].bytes
              /\ pipe'[p].q = IF p = Other(t) THEN a ELSE pipe[p].q
              /\ pipe'[p].rc = pipe[p].rc
              /\ pipe'[p].lock = IF p = Other(t) THEN NoOne ELSE pipe[p].lock
    BY <2>2, <2>3, <2>4 DEF Pipes
  <2> QED BY <2>5 DEF a
<1>3. /\ hand[t] \in Messages /\ \A p \in Threads : pipe[p].q \in Seq(Messages)
      /\ Append(pipe[Other(t)].q, hand[t]) # <<>>
  BY <1>0, AppendProperties DEF TypeOK, Pipes
<1>4. TypeOK'
  BY <1>0, <1>1, <1>2, <1>3 DEF TypeOK, Messages, NoMessage
<1>5. HistoryInv'
  BY <1>0, <1>1, <1>2, <1>3 DEF HistoryInv
<1>6. StartInv'
  BY <1>0, <1>1, <1>2 DEF StartInv, UseInv, TypeOK
<1>7. RefInv'
  <2>1. pipe[Other(t)].live
    BY <1>0, <1>1 DEF RefInv, Refs, One, UseInv, TypeOK
  <2> QED BY <1>0, <1>1, <1>2, <2>1 DEF RefInv, Refs, One, TypeOK
<1>8. UseInv'
  BY <1>0, <1>1, <1>2, <1>3 DEF UseInv, TypeOK, NoMessage
<1>9. FaultInv'
  BY <1>0, <1>1, <1>2 DEF FaultInv, TypeOK
<1>10. LockInv'
  BY <1>0, <1>1, <1>2 DEF LockInv, TypeOK
<1>11. WakerInv'
  <2>1. pc[t] = "add" /\ pc'[t] # "add" /\ pc'[Other(t)] = pc[Other(t)]
    BY <1>0, <1>1 DEF TypeOK
  <2>2. pipe[Other(t)].bytes = 1 /\ pipe[t].bytes = One(pipe[t].q # <<>> \/ pc[Other(t)] = "add")
    BY <1>0, <2>1 DEF WakerInv, One
  <2>3. pipe'[Other(t)].bytes = 1 /\ pipe'[Other(t)].q # <<>>
    BY <1>2, <1>3, <2>2
  <2>4. pipe'[t].bytes = pipe[t].bytes /\ pipe'[t].q = pipe[t].q
    BY <1>2
  <2>5. pipe'[t].bytes = One(pipe'[t].q # <<>> \/ pc'[Other(t)] = "add")
    BY ONLY <2>1, <2>2, <2>4
  <2>6. pipe'[Other(t)].bytes = One(pipe'[Other(t)].q # <<>> \/ pc'[t] = "add")
    BY ONLY <2>3 DEF One
  <2> QED BY ONLY t \in Threads, <2>5, <2>6 DEF WakerInv, Threads, Other
<1>12. FirstInFirstOut'
  <2>1. sent \in [Threads -> Seq(Messages)] /\ got \in [Threads -> Seq(Messages)]
    BY <1>0 DEF HistoryInv
  <2>2. pipe[Other(t)].live
    BY <1>0, <1>1 DEF RefInv, Refs, One, UseInv, TypeOK
  <2>3. sent[t] = got[Other(t)] \o pipe[Other(t)].q
    BY <1>0, <2>2 DEF FirstInFirstOut
  <2>4. sent'[t] = Append(sent[t], hand[t]) /\ sent'[Other(t)] = sent[Other(t)]
    BY <1>1, <2>1
  <2>5. Append(sent[t], hand[t]) = got[Other(t)] \o Append(pipe[Other(t)].q, hand[t])
    <3>1. Append(got[Other(t)] \o pipe[Other(t)].q, hand[t])
             = got[Other(t)] \o Append(pipe[Other(t)].q, hand[t])
      <4>1. /\ got[Other(t)] \in Seq(Messages) /\ pipe[Other(t)].q \in Seq(Messages)
            /\ hand[t] \in Messages
        BY <2>1, <1>3
      <4> QED BY ONLY <4>1, AddedInOrder, Zenon
    <3> QED BY ONLY <3>1, <2>3, Zenon
  <2>6. sent'[t] = got'[Other(t)] \o pipe'[Other(t)].q
    BY <1>1, <1>2, <2>4, <2>5
  <2>7. pipe'[t].live => sent'[Other(t)] = got'[t] \o pipe'[t].q
    BY <1>0, <1>1, <1>2, <2>4 DEF FirstInFirstOut
  <2> QED BY <2>6, <2>7 DEF FirstInFirstOut
<1>13. BufferCounted'
  <2>1. Carried(Append(pipe[Other(t)].q, hand[t])) = Carried(pipe[Other(t)].q) + InHand(t)
    BY <1>3, CarriedAppend DEF One, InHand
  <2>2. InHand(t)' = 0 /\ InHand(Other(t))' = InHand(Other(t))
    BY <1>0, <1>1 DEF InHand, NoMessage, TypeOK
  <2>3. /\ Carried(pipe'[Other(t)].q) = Carried(pipe[Other(t)].q) + InHand(t)
        /\ pipe'[t].q = pipe[t].q
    BY <1>2, <2>1
  <2>6. sab' = own'["main"] + own'["worker"] + (Carried(pipe'["main"].q) + Carried(pipe'["worker"].q))
               + InHand("main")' + InHand("worker")'
    <3>1. /\ \A p \in Threads : Carried(pipe[p].q) \in Nat /\ InHand(p) \in {0, 1} /\ own[p] \in Nat
          /\ sab = own["main"] + own["worker"] + (Carried(pipe["main"].q) + Carried(pipe["worker"].q))
                    + InHand("main") + InHand("worker")
      BY HeldBy
    <3>2. sab' = sab /\ own' = own
      BY <1>1
    <3>3. CASE t = "main"
      BY ONLY <2>2, <2>3, <3>1, <3>2, <3>3 DEF Threads, Other
    <3>4. CASE t = "worker"
      BY ONLY <2>2, <2>3, <3>1, <3>2, <3>4 DEF Threads, Other
    <3> QED BY <3>3, <3>4
  <2> QED BY <2>6 DEF BufferCounted, SabsIn, SabsOf
<1> QED BY <1>4, <1>5, <1>6, <1>7, <1>8, <1>9, <1>10, <1>11, <1>12, <1>13 DEF WorkerInv

\* The first message is taken, and the waker cleared with the last one.
LEMMA TakeStep ==
    ASSUME WorkerInv, NEW t \in Threads, Take(t)
    PROVE  WorkerInv'
<1> USE DEF Threads, Other, NoOne
<1>0. TypeOK /\ HistoryInv /\ StartInv /\ RefInv /\ UseInv /\ FaultInv
      /\ LockInv /\ WakerInv /\ FirstInFirstOut /\ BufferCounted
  BY DEF WorkerInv
<1>1. /\ pc[t] = "taken" /\ pc["main"] # "done" /\ pc' = [pc EXCEPT ![t] = "read"]
      /\ pipe[t].q # <<>>
      /\ hand' = [hand EXCEPT ![t] = Head(pipe[t].q)]
      /\ got' = [got EXCEPT ![t] = Append(@, Head(pipe[t].q))]
      /\ UNCHANGED <<obj, port, own, sab, sent, failed, fault>>
  BY DEF Take, At, Go
<1>2. /\ pipe' \in [Threads -> Pipes]
      /\ \A p \in Threads :
            /\ pipe'[p].live = pipe[p].live
            /\ pipe'[p].q = IF p = t THEN Tail(pipe[p].q) ELSE pipe[p].q
            /\ pipe'[p].bytes = IF p = t /\ Len(pipe[t].q) = 1 THEN 0 ELSE pipe[p].bytes
            /\ pipe'[p].rc = pipe[p].rc
            /\ pipe'[p].lock = IF p = t THEN NoOne ELSE pipe[p].lock
  <2>1. pipe' = [pipe EXCEPT ![t].q = Tail(@), ![t].lock = NoOne,
                              ![t].bytes = IF Len(pipe[t].q) # 1 THEN @
                                           ELSE IF @ > 16 THEN @ - 16 ELSE 0]
    BY DEF Take, At, Go
  <2> DEFINE a == Tail(pipe[t].q)
             b == IF Len(pipe[t].q) = 1 THEN 0 ELSE pipe[t].bytes
             e == IF Len(pipe[t].q) # 1 THEN pipe[t].bytes
                  ELSE IF pipe[t].bytes > 16 THEN pipe[t].bytes - 16 ELSE 0
  <2>2. pipe \in [Threads -> Pipes]
    BY <1>0 DEF TypeOK
  <2>3. a \in Seq(Messages) /\ b \in Nat
    BY <2>2, <1>1, HeadTailProperties DEF Pipes
  <2>4. pipe[t].bytes = 1
    BY <1>0, <1>1 DEF WakerInv, One
  <2>5. pipe' = [pipe EXCEPT ![t] = [pipe[t] EXCEPT !.q = a, !.lock = NoOne, !.bytes = b]]
    <3>1. e = b
      BY <2>4
    <3>2. pipe' = [pipe EXCEPT ![t].q = a, ![t].lock = NoOne, ![t].bytes = e]
      BY <2>1
    <3> HIDE DEF a, b, e
    <3> QED BY <2>2, <3>1, <3>2
  <2> HIDE DEF a, b
  <2>6. /\ pipe' \in [Threads -> Pipes]
        /\ \A p \in Threads :
              /\ pipe'[p].live = pipe[p].live
              /\ pipe'[p].q = IF p = t THEN a ELSE pipe[p].q
              /\ pipe'[p].bytes = IF p = t THEN b ELSE pipe[p].bytes
              /\ pipe'[p].rc = pipe[p].rc
              /\ pipe'[p].lock = IF p = t THEN NoOne ELSE pipe[p].lock
    BY <2>2, <2>3, <2>5 DEF Pipes
  <2> QED BY <2>6 DEF a, b
<1>3. /\ pipe[t].q \in Seq(Messages) /\ Head(pipe[t].q) \in Messages /\ Tail(pipe[t].q) \in Seq(Messages)
      /\ Append(got[t], Head(pipe[t].q)) \in Seq(Messages)
      /\ Append(got[t], Head(pipe[t].q)) \o Tail(pipe[t].q) = got[t] \o pipe[t].q
      /\ Tail(pipe[t].q) = <<>> <=> Len(pipe[t].q) = 1
  BY <1>0, <1>1, TakenInOrder DEF TypeOK, Pipes, HistoryInv
<1>4. TypeOK'
  BY <1>0, <1>1, <1>2, <1>3 DEF TypeOK
<1>5. HistoryInv'
  BY <1>0, <1>1, <1>2, <1>3 DEF HistoryInv
<1>6. StartInv'
  BY <1>0, <1>1, <1>2 DEF StartInv, UseInv, TypeOK
<1>7. RefInv'
  <2>1. pipe[t].live
    BY <1>0, <1>1 DEF RefInv, Refs, One, UseInv, TypeOK
  <2> QED BY <1>0, <1>1, <1>2, <2>1 DEF RefInv, Refs, One, TypeOK
<1>8. UseInv'
  BY <1>0, <1>1, <1>2 DEF UseInv, TypeOK
<1>9. FaultInv'
  BY <1>0, <1>1, <1>2 DEF FaultInv, TypeOK
<1>10. LockInv'
  BY <1>0, <1>1, <1>2 DEF LockInv, TypeOK
<1>11. WakerInv'
  <2>1. pc[Other(t)] # "add" /\ pc'[Other(t)] = pc[Other(t)]
    BY <1>0, <1>1 DEF LockInv, TypeOK
  <2>2. pc[t] # "add" /\ pc'[t] # "add"
    BY <1>0, <1>1 DEF TypeOK
  <2>3. /\ pipe[t].bytes = 1
        /\ pipe[Other(t)].bytes = One(pipe[Other(t)].q # <<>> \/ pc[t] = "add")
    BY <1>0, <1>1 DEF WakerInv, One
  <2>4. /\ pipe'[t].bytes = IF Len(pipe[t].q) = 1 THEN 0 ELSE 1
        /\ pipe'[t].q = <<>> <=> Len(pipe[t].q) = 1
        /\ pipe'[Other(t)].bytes = pipe[Other(t)].bytes /\ pipe'[Other(t)].q = pipe[Other(t)].q
    BY <1>2, <1>3, <2>3
  <2>5. pipe'[t].bytes = One(pipe'[t].q # <<>> \/ pc'[Other(t)] = "add")
    BY ONLY <2>1, <2>4 DEF One
  <2>6. pipe'[Other(t)].bytes = One(pipe'[Other(t)].q # <<>> \/ pc'[t] = "add")
    BY ONLY <2>2, <2>3, <2>4
  <2> QED BY ONLY t \in Threads, <2>5, <2>6 DEF WakerInv, Threads, Other
<1>12. FirstInFirstOut'
  <2>1. got'[t] = Append(got[t], Head(pipe[t].q)) /\ got'[Other(t)] = got[Other(t)]
    BY <1>0, <1>1 DEF HistoryInv
  <2>2. pipe[t].live
    BY <1>0, <1>1 DEF RefInv, Refs, One, UseInv, TypeOK
  <2>3. sent[Other(t)] = got[t] \o pipe[t].q
    BY <1>0, <2>2 DEF FirstInFirstOut
  <2>4. got'[t] \o pipe'[t].q = got[t] \o pipe[t].q
    BY <1>2, <1>3, <2>1
  <2>5. pipe'[Other(t)].live => sent'[t] = got'[Other(t)] \o pipe'[Other(t)].q
    BY <1>0, <1>1, <1>2, <2>1 DEF FirstInFirstOut
  <2> QED BY <1>1, <2>3, <2>4, <2>5 DEF FirstInFirstOut
<1>13. BufferCounted'
  <2>1. Carried(pipe[t].q) = Carried(Tail(pipe[t].q)) + One(Head(pipe[t].q).sab)
    BY <1>1, <1>3, CarriedTail
  <2>2. /\ InHand(t) = 0 /\ InHand(t)' = One(Head(pipe[t].q).sab)
        /\ InHand(Other(t))' = InHand(Other(t))
    BY <1>0, <1>1 DEF InHand, One, UseInv, TypeOK
  <2>3. pipe'[t].q = Tail(pipe[t].q) /\ pipe'[Other(t)].q = pipe[Other(t)].q
    BY <1>2
  <2>4. Carried(Tail(pipe[t].q)) \in Nat /\ InHand(t)' \in {0, 1}
    BY <1>3, <2>2, CarriedType DEF One
  <2>6. sab' = own'["main"] + own'["worker"] + (Carried(pipe'["main"].q) + Carried(pipe'["worker"].q))
               + InHand("main")' + InHand("worker")'
    <3>1. CASE t = "main"
      BY <1>1, HeldBy, <2>1, <2>2, <2>3, <2>4, <3>1
    <3>2. CASE t = "worker"
      BY <1>1, HeldBy, <2>1, <2>2, <2>3, <2>4, <3>2
    <3> QED BY <3>1, <3>2
  <2> QED BY <2>6 DEF BufferCounted, SabsIn, SabsOf
<1> QED BY <1>4, <1>5, <1>6, <1>7, <1>8, <1>9, <1>10, <1>11, <1>12, <1>13 DEF WorkerInv

(***************************************************************************)
(* The buffer.                                                             *)
(***************************************************************************)

\* Who posts the buffer has an object that holds it; the message holds it too.
LEMMA PostStep ==
    ASSUME WorkerInv, NEW t \in Threads, NEW s \in BOOLEAN, Post(t, s)
    PROVE  WorkerInv'
<1> USE DEF Threads, Other, NoOne
<1>0. TypeOK /\ HistoryInv /\ StartInv /\ RefInv /\ UseInv /\ FaultInv
      /\ LockInv /\ WakerInv /\ FirstInFirstOut /\ BufferCounted
  BY DEF WorkerInv
<1>1. /\ pc[t] = "run" /\ pc["main"] # "done" /\ pc' = [pc EXCEPT ![t] = "lock"]
      /\ obj[t] /\ (s => own[t] > 0)
      /\ hand' = [hand EXCEPT ![t] = [n |-> Len(sent[t]) + 1, sab |-> s]]
      /\ sab' = (IF s THEN sab + 1 ELSE sab) /\ fault' = (fault \/ (s /\ sab = 0))
      /\ UNCHANGED <<pipe, obj, port, own, sent, got, failed>>
  BY DEF Post, At, Go
<1>2. /\ hand' \in [Threads -> Messages] /\ hand'[t].sab = s /\ hand'[Other(t)] = hand[Other(t)]
      /\ s => sab > 0
  <2>1. Len(sent[t]) + 1 \in Nat
    BY <1>0, LenProperties DEF HistoryInv
  <2>2. hand' \in [Threads -> Messages] /\ hand'[t].sab = s /\ hand'[Other(t)] = hand[Other(t)]
    BY <1>0, <1>1, <2>1 DEF TypeOK, Messages
  <2>3. s => sab > 0
    <3>1. s => own[t] > 0
      BY ONLY <1>1, Zenon
    <3>2. own[t] > 0 => sab > 0
      <4>1. CASE t = "main"
        BY <4>1, HeldBy
      <4>2. CASE t = "worker"
        BY <4>2, HeldBy
      <4> QED BY <4>1, <4>2
    <3> QED BY <3>1, <3>2
  <2> QED BY <2>2, <2>3
<1>3. TypeOK'
  BY <1>0, <1>1, <1>2 DEF TypeOK, Messages
<1>4. HistoryInv'
  <2>1. fault' \in BOOLEAN
    BY <1>1
  <2> QED BY <1>0, <1>1, <2>1 DEF HistoryInv
<1>5. StartInv'
  BY <1>0, <1>1 DEF StartInv, TypeOK
<1>6. RefInv'
  BY <1>0, <1>1 DEF RefInv, Refs, One, TypeOK
<1>7. UseInv'
  BY <1>0, <1>1, <1>2 DEF UseInv, TypeOK
<1>8. FaultInv'
  <2>1. ~fault
    BY <1>0, <1>1 DEF FaultInv
  <2>2. ~(s /\ sab = 0)
    BY <1>2
  <2>3. ~fault'
    BY ONLY <1>1, <2>1, <2>2, Zenon
  <2> QED BY <2>3 DEF FaultInv
<1>9. LockInv'
  BY <1>0, <1>1 DEF LockInv, TypeOK
<1>10. WakerInv'
  BY <1>0, <1>1 DEF WakerInv, One, TypeOK
<1>11. FirstInFirstOut'
  BY <1>0, <1>1 DEF FirstInFirstOut
<1>12. BufferCounted'
  <2>1. InHand(t) = 0 /\ InHand(t)' = One(s) /\ InHand(Other(t))' = InHand(Other(t))
    BY <1>0, <1>1, <1>2 DEF InHand, One, UseInv, TypeOK
  <2>2. sab' = sab + One(s) /\ One(s) \in {0, 1}
    BY <1>0, <1>1 DEF One, TypeOK
  <2>3. own' = own /\ pipe' = pipe
    BY <1>1
  <2>6. sab' = own'["main"] + own'["worker"] + (Carried(pipe'["main"].q) + Carried(pipe'["worker"].q))
               + InHand("main")' + InHand("worker")'
    <3>1. CASE t = "main"
      BY <1>0, HeldBy, <2>1, <2>2, <2>3, <3>1
    <3>2. CASE t = "worker"
      BY <1>0, HeldBy, <2>1, <2>2, <2>3, <3>2
    <3> QED BY <3>1, <3>2
  <2> QED BY <2>6 DEF BufferCounted, SabsIn, SabsOf
<1> QED BY <1>3, <1>4, <1>5, <1>6, <1>7, <1>8, <1>9, <1>10, <1>11, <1>12 DEF WorkerInv

\* An object that goes gives back the reference it had.
LEMMA DropBufferStep ==
    ASSUME WorkerInv, NEW t \in Threads, DropBuffer(t)
    PROVE  WorkerInv'
<1> USE DEF Threads, Other, NoOne
<1>0. TypeOK /\ HistoryInv /\ StartInv /\ RefInv /\ UseInv /\ FaultInv
      /\ LockInv /\ WakerInv /\ FirstInFirstOut /\ BufferCounted
  BY DEF WorkerInv
<1>1. /\ pc[t] = "run" /\ pc["main"] # "done" /\ own[t] > 0
      /\ own' = [own EXCEPT ![t] = @ - 1] /\ sab' = sab - 1 /\ fault' = (fault \/ sab = 0)
      /\ UNCHANGED <<pipe, pc, obj, port, hand, sent, got, failed>>
  BY DEF DropBuffer, At
<1>2. /\ sab \in Nat /\ sab > 0 /\ own[t] \in Nat
      /\ own'[t] = own[t] - 1 /\ own'[Other(t)] = own[Other(t)]
  BY <1>0, <1>1, HeldBy DEF TypeOK
<1>3. TypeOK'
  BY <1>0, <1>1, <1>2 DEF TypeOK
<1>4. HistoryInv'
  <2>1. fault' \in BOOLEAN
    BY <1>1
  <2> QED BY <1>0, <1>1, <2>1 DEF HistoryInv
<1>5. StartInv'
  BY <1>0, <1>1 DEF StartInv, TypeOK
<1>6. RefInv'
  BY <1>0, <1>1 DEF RefInv, Refs, One, TypeOK
<1>7. UseInv'
  BY <1>0, <1>1, <1>2 DEF UseInv, TypeOK
<1>8. FaultInv'
  <2>1. ~fault
    BY <1>0, <1>1 DEF FaultInv
  <2>2. ~(sab = 0)
    BY <1>2
  <2>3. ~fault'
    BY ONLY <1>1, <2>1, <2>2, Zenon
  <2> QED BY <2>3 DEF FaultInv
<1>9. LockInv'
  BY <1>0, <1>1 DEF LockInv, TypeOK
<1>10. WakerInv'
  BY <1>0, <1>1 DEF WakerInv, One, TypeOK
<1>11. FirstInFirstOut'
  BY <1>0, <1>1 DEF FirstInFirstOut
<1>12. BufferCounted'
  <2>1. InHand(t)' = InHand(t) /\ InHand(Other(t))' = InHand(Other(t)) /\ pipe' = pipe
    BY <1>1 DEF InHand
  <2>6. sab' = own'["main"] + own'["worker"] + (Carried(pipe'["main"].q) + Carried(pipe'["worker"].q))
               + InHand("main")' + InHand("worker")'
    <3>1. CASE t = "main"
      BY <1>1, HeldBy, <2>1, <1>2, <3>1
    <3>2. CASE t = "worker"
      BY <1>1, HeldBy, <2>1, <1>2, <3>2
    <3> QED BY <3>1, <3>2
  <2> QED BY <2>6 DEF BufferCounted, SabsIn, SabsOf
<1> QED BY <1>3, <1>4, <1>5, <1>6, <1>7, <1>8, <1>9, <1>10, <1>11, <1>12 DEF WorkerInv

\* The object that is made of a message holds the buffer, which the message holds.
LEMMA ReadStep ==
    ASSUME WorkerInv, NEW t \in Threads, NEW ok \in BOOLEAN, Read(t, ok)
    PROVE  WorkerInv'
<1> USE DEF Threads, Other, NoOne
<1>0. TypeOK /\ HistoryInv /\ StartInv /\ RefInv /\ UseInv /\ FaultInv
      /\ LockInv /\ WakerInv /\ FirstInFirstOut /\ BufferCounted
  BY DEF WorkerInv
<1>1. /\ pc[t] = "read" /\ pc["main"] # "done" /\ pc' = [pc EXCEPT ![t] = IF ok THEN "free" ELSE "freeonly"]
      /\ own' = [own EXCEPT ![t] = IF ok /\ hand[t].sab THEN @ + 1 ELSE @]
      /\ sab' = (IF ok /\ hand[t].sab THEN sab + 1 ELSE sab)
      /\ fault' = (fault \/ (ok /\ hand[t].sab /\ sab = 0))
      /\ UNCHANGED <<pipe, obj, port, hand, sent, got, failed>>
  BY DEF Read, At, Go
<1>2. /\ sab \in Nat /\ (hand[t].sab => sab > 0)
      /\ own' \in [Threads -> Nat] /\ own'[Other(t)] = own[Other(t)]
      /\ own'[t] = IF ok /\ hand[t].sab THEN own[t] + 1 ELSE own[t]
  <2>1. hand[t].sab => sab > 0
    BY HeldBy DEF InHand
  <2> QED BY <1>0, <1>1, <2>1 DEF TypeOK
<1>3. TypeOK'
  BY <1>0, <1>1, <1>2 DEF TypeOK
<1>4. HistoryInv'
  <2>1. fault' \in BOOLEAN
    BY <1>1
  <2> QED BY <1>0, <1>1, <2>1 DEF HistoryInv
<1>5. StartInv'
  BY <1>0, <1>1 DEF StartInv, TypeOK
<1>6. RefInv'
  BY <1>0, <1>1 DEF RefInv, Refs, One, TypeOK
<1>7. UseInv'
  BY <1>0, <1>1, <1>2 DEF UseInv, TypeOK
<1>8. FaultInv'
  <2>1. ~fault
    BY <1>0, <1>1 DEF FaultInv
  <2>2. ~(ok /\ hand[t].sab /\ sab = 0)
    BY <1>2
  <2>3. ~fault'
    BY ONLY <1>1, <2>1, <2>2, Zenon
  <2> QED BY <2>3 DEF FaultInv
<1>9. LockInv'
  BY <1>0, <1>1 DEF LockInv, TypeOK
<1>10. WakerInv'
  BY <1>0, <1>1 DEF WakerInv, One, TypeOK
<1>11. FirstInFirstOut'
  BY <1>0, <1>1 DEF FirstInFirstOut
<1>12. BufferCounted'
  <2>1. InHand(t)' = InHand(t) /\ InHand(Other(t))' = InHand(Other(t)) /\ pipe' = pipe
    BY <1>1 DEF InHand
  <2>6. sab' = own'["main"] + own'["worker"] + (Carried(pipe'["main"].q) + Carried(pipe'["worker"].q))
               + InHand("main")' + InHand("worker")'
    <3>1. CASE t = "main"
      BY <1>1, HeldBy, <2>1, <1>2, <3>1
    <3>2. CASE t = "worker"
      BY <1>1, HeldBy, <2>1, <1>2, <3>2
    <3> QED BY <3>1, <3>2
  <2> QED BY <2>6 DEF BufferCounted, SabsIn, SabsOf
<1> QED BY <1>3, <1>4, <1>5, <1>6, <1>7, <1>8, <1>9, <1>10, <1>11, <1>12 DEF WorkerInv

\* A message that is freed gives back the reference it had.
LEMMA FreeMessageStep ==
    ASSUME WorkerInv, NEW t \in Threads, FreeMessage(t)
    PROVE  WorkerInv'
<1> USE DEF Threads, Other, NoOne
<1>0. TypeOK /\ HistoryInv /\ StartInv /\ RefInv /\ UseInv /\ FaultInv
      /\ LockInv /\ WakerInv /\ FirstInFirstOut /\ BufferCounted
  BY DEF WorkerInv
<1>1. /\ pc[t] \in {"free", "freeonly"} /\ pc["main"] # "done"
      /\ pc' = [pc EXCEPT ![t] = IF pc[t] = "free" THEN "run" ELSE "poll"]
      /\ hand' = [hand EXCEPT ![t] = NoMessage]
      /\ sab' = (IF hand[t].sab THEN sab - 1 ELSE sab)
      /\ fault' = (fault \/ (hand[t].sab /\ sab = 0))
      /\ UNCHANGED <<pipe, obj, port, own, sent, got, failed>>
  BY DEF FreeMessage, At, Go
<1>2. /\ sab \in Nat /\ (hand[t].sab => sab > 0)
      /\ hand' \in [Threads -> Messages] /\ hand'[t].sab = FALSE /\ hand'[Other(t)] = hand[Other(t)]
  <2>1. hand[t].sab => sab > 0
    BY HeldBy DEF InHand
  <2> QED BY <1>0, <1>1, <2>1 DEF TypeOK, NoMessage, Messages
<1>3. TypeOK'
  BY <1>0, <1>1, <1>2 DEF TypeOK
<1>4. HistoryInv'
  <2>1. fault' \in BOOLEAN
    BY <1>1
  <2> QED BY <1>0, <1>1, <2>1 DEF HistoryInv
<1>5. StartInv'
  BY <1>0, <1>1 DEF StartInv, TypeOK
<1>6. RefInv'
  BY <1>0, <1>1 DEF RefInv, Refs, One, TypeOK
<1>7. UseInv'
  BY <1>0, <1>1, <1>2 DEF UseInv, TypeOK
<1>8. FaultInv'
  <2>1. ~fault
    BY <1>0, <1>1 DEF FaultInv
  <2>2. ~(hand[t].sab /\ sab = 0)
    BY <1>2
  <2>3. ~fault'
    BY ONLY <1>1, <2>1, <2>2, Zenon
  <2> QED BY <2>3 DEF FaultInv
<1>9. LockInv'
  BY <1>0, <1>1 DEF LockInv, TypeOK
<1>10. WakerInv'
  BY <1>0, <1>1 DEF WakerInv, One, TypeOK
<1>11. FirstInFirstOut'
  BY <1>0, <1>1 DEF FirstInFirstOut
<1>12. BufferCounted'
  <2>1. /\ InHand(t)' = 0 /\ InHand(Other(t))' = InHand(Other(t)) /\ pipe' = pipe /\ own' = own
        /\ sab' = sab - InHand(t)
    BY <1>1, <1>2 DEF InHand
  <2>6. sab' = own'["main"] + own'["worker"] + (Carried(pipe'["main"].q) + Carried(pipe'["worker"].q))
               + InHand("main")' + InHand("worker")'
    <3>1. CASE t = "main"
      BY <1>0, HeldBy, <2>1, <1>2, <3>1
    <3>2. CASE t = "worker"
      BY <1>0, HeldBy, <2>1, <1>2, <3>2
    <3> QED BY <3>1, <3>2
  <2> QED BY <2>6 DEF BufferCounted, SabsIn, SabsOf
<1> QED BY <1>3, <1>4, <1>5, <1>6, <1>7, <1>8, <1>9, <1>10, <1>11, <1>12 DEF WorkerInv

(***************************************************************************)
(* References that are taken.                                              *)
(***************************************************************************)

\* A Worker object: two references to each pipe, the thread's and the object's.
LEMMA NewStep ==
    ASSUME WorkerInv, New
    PROVE  WorkerInv'
<1> USE DEF Threads, Other, NoOne
<1>0. TypeOK /\ HistoryInv /\ StartInv /\ RefInv /\ UseInv /\ FaultInv
      /\ LockInv /\ WakerInv /\ FirstInFirstOut /\ BufferCounted
  BY DEF WorkerInv
<1>1. /\ pc["main"] = "run" /\ pc["worker"] = "none" /\ pc' = [pc EXCEPT !["worker"] = "start"]
      /\ obj' = [obj EXCEPT !["main"] = TRUE]
      /\ UNCHANGED <<port, hand, own, sab, sent, got, failed, fault>>
  BY DEF New, At, Go
<1>2. /\ pipe' \in [Threads -> Pipes]
      /\ \A p \in Threads :
            /\ pipe'[p].live = TRUE
            /\ pipe'[p].q = <<>>
            /\ pipe'[p].bytes = 0
            /\ pipe'[p].rc = 2
            /\ pipe'[p].lock = NoOne
  <2>1. pipe' = [t \in Threads |-> [NoPipe EXCEPT !.live = TRUE, !.rc = 2]]
    BY DEF New, At, Go
  <2>2. NoPipe \in Pipes /\ NoPipe.q = <<>> /\ NoPipe.bytes = 0 /\ NoPipe.lock = NoOne
    BY EmptySeq DEF NoPipe, Pipes
  <2> QED BY <2>1, <2>2 DEF Pipes
<1>3. TypeOK'
  BY <1>0, <1>1, <1>2 DEF TypeOK
<1>4. HistoryInv'
  BY <1>0, <1>1, <1>2 DEF HistoryInv
<1>5. StartInv'
  BY <1>0, <1>1, <1>2 DEF StartInv, TypeOK
<1>6. RefInv'
  BY <1>0, <1>1, <1>2 DEF RefInv, Refs, One, StartInv, TypeOK
<1>7. UseInv'
  BY <1>0, <1>1, <1>2 DEF UseInv, TypeOK
<1>8. FaultInv'
  BY <1>0, <1>1, <1>2 DEF FaultInv, TypeOK
<1>9. LockInv'
  BY <1>0, <1>1, <1>2 DEF LockInv, TypeOK
<1>10. WakerInv'
  BY <1>0, <1>1, <1>2 DEF WakerInv, One, TypeOK
<1>11. FirstInFirstOut'
  <2>1. \A t \in Threads : sent[t] = <<>> /\ got[t] = <<>>
    BY <1>0, <1>1 DEF StartInv
  <2>2. <<>> \o <<>> = <<>>
    BY EmptySeq, ConcatEmptySeq
  <2> QED BY <1>1, <1>2, <2>1, <2>2 DEF FirstInFirstOut
<1>12. BufferCounted'
  <2>1. \A p \in Threads : pipe'[p].q = pipe[p].q
    BY <1>0, <1>1, <1>2 DEF RefInv, Refs, One, StartInv, TypeOK
  <2> QED BY <1>0, <1>1, <2>1 DEF BufferCounted, SabsIn, SabsOf, InHand
<1> QED BY <1>3, <1>4, <1>5, <1>6, <1>7, <1>8, <1>9, <1>10, <1>11, <1>12 DEF WorkerInv

\* Worker.parent: another reference to each, to pipes that the thread keeps.
LEMMA ImportStep ==
    ASSUME WorkerInv, Import
    PROVE  WorkerInv'
<1> USE DEF Threads, Other, NoOne
<1>0. TypeOK /\ HistoryInv /\ StartInv /\ RefInv /\ UseInv /\ FaultInv
      /\ LockInv /\ WakerInv /\ FirstInFirstOut /\ BufferCounted
  BY DEF WorkerInv
<1>1. /\ pc["worker"] = "start" /\ pc["main"] # "done" /\ pc' = [pc EXCEPT !["worker"] = "run"]
      /\ fault' = (fault \/ \E t \in Threads : ~pipe[t].live)
      /\ obj' = [obj EXCEPT !["worker"] = TRUE]
      /\ UNCHANGED <<port, hand, own, sab, sent, got, failed>>
  BY DEF Import, At, Go
<1>2. /\ pipe' \in [Threads -> Pipes]
      /\ \A p \in Threads :
            /\ pipe'[p].live = pipe[p].live
            /\ pipe'[p].q = pipe[p].q
            /\ pipe'[p].bytes = pipe[p].bytes
            /\ pipe'[p].rc = pipe[p].rc + 1
            /\ pipe'[p].lock = pipe[p].lock
  <2>1. pipe' = [t \in Threads |-> [pipe[t] EXCEPT !.rc = @ + 1]]
    BY DEF Import, At, Go
  <2> QED BY <1>0, <1>1, <2>1 DEF TypeOK, Pipes, Messages
<1>3. TypeOK'
  BY <1>0, <1>1, <1>2 DEF TypeOK
<1>4. HistoryInv'
  <2>1. fault' \in BOOLEAN
    BY <1>1
  <2> QED BY <1>0, <1>1, <1>2, <2>1 DEF HistoryInv
<1>5. StartInv'
  BY <1>0, <1>1, <1>2 DEF StartInv, TypeOK
<1>6. RefInv'
  BY <1>0, <1>1, <1>2 DEF RefInv, Refs, One, StartInv, TypeOK
<1>7. UseInv'
  BY <1>0, <1>1, <1>2 DEF UseInv, TypeOK
<1>8. FaultInv'
  <2>1. ~fault
    BY <1>0, <1>1 DEF FaultInv
  <2>2. ~\E t \in Threads : ~pipe[t].live
    BY <1>0, <1>1 DEF RefInv, Refs, One, TypeOK
  <2>3. ~fault'
    BY ONLY <1>1, <2>1, <2>2, Zenon
  <2> QED BY <2>3 DEF FaultInv
<1>9. LockInv'
  BY <1>0, <1>1, <1>2 DEF LockInv, TypeOK
<1>10. WakerInv'
  BY <1>0, <1>1, <1>2 DEF WakerInv, One, TypeOK
<1>11. FirstInFirstOut'
  BY <1>0, <1>1, <1>2 DEF FirstInFirstOut
<1>12. BufferCounted'
  BY <1>0, <1>1, <1>2 DEF BufferCounted, SabsIn, SabsOf, InHand
<1> QED BY <1>3, <1>4, <1>5, <1>6, <1>7, <1>8, <1>9, <1>10, <1>11, <1>12 DEF WorkerInv

\* A handler: a reference to the pipe that the object already keeps.
LEMMA SetHandlerStep ==
    ASSUME WorkerInv, NEW t \in Threads, SetHandler(t)
    PROVE  WorkerInv'
<1> USE DEF Threads, Other, NoOne
<1>0. TypeOK /\ HistoryInv /\ StartInv /\ RefInv /\ UseInv /\ FaultInv
      /\ LockInv /\ WakerInv /\ FirstInFirstOut /\ BufferCounted
  BY DEF WorkerInv
<1>1. /\ pc[t] = "run" /\ pc["main"] # "done" /\ obj[t]
      /\ fault' = (fault \/ ~pipe[t].live) /\ port' = [port EXCEPT ![t] = TRUE]
      /\ UNCHANGED <<pc, obj, hand, own, sab, sent, got, failed>>
  BY DEF SetHandler, At
<1>2. /\ pipe' \in [Threads -> Pipes]
      /\ \A p \in Threads :
            /\ pipe'[p].live = pipe[p].live
            /\ pipe'[p].q = pipe[p].q
            /\ pipe'[p].bytes = pipe[p].bytes
            /\ pipe'[p].rc = IF p = t /\ ~port[t] THEN pipe[p].rc + 1 ELSE pipe[p].rc
            /\ pipe'[p].lock = pipe[p].lock
  <2>1. pipe' = [pipe EXCEPT ![t].rc = IF port[t] THEN @ ELSE @ + 1]
    BY DEF SetHandler, At
  <2> DEFINE c == IF port[t] THEN pipe[t].rc ELSE pipe[t].rc + 1
  <2>2. pipe \in [Threads -> Pipes]
    BY <1>0 DEF TypeOK
  <2>3. c \in Nat
    BY <2>2 DEF Pipes
  <2>4. pipe' = [pipe EXCEPT ![t] = [pipe[t] EXCEPT !.rc = c]]
    BY <2>1
  <2> HIDE DEF c
  <2>5. /\ pipe' \in [Threads -> Pipes]
        /\ \A p \in Threads :
              /\ pipe'[p].live = pipe[p].live /\ pipe'[p].q = pipe[p].q
              /\ pipe'[p].bytes = pipe[p].bytes /\ pipe'[p].lock = pipe[p].lock
              /\ pipe'[p].rc = IF p = t THEN c ELSE pipe[p].rc
    BY <2>2, <2>3, <2>4 DEF Pipes
  <2> QED BY <2>5 DEF c
<1>3. TypeOK'
  BY <1>0, <1>1, <1>2 DEF TypeOK
<1>4. HistoryInv'
  <2>1. fault' \in BOOLEAN
    BY <1>1
  <2> QED BY <1>0, <1>1, <1>2, <2>1 DEF HistoryInv
<1>5. StartInv'
  BY <1>0, <1>1, <1>2 DEF StartInv, TypeOK
<1>6. RefInv'
  BY <1>0, <1>1, <1>2 DEF RefInv, Refs, One, TypeOK
<1>7. UseInv'
  BY <1>0, <1>1, <1>2 DEF UseInv, TypeOK
<1>8. FaultInv'
  <2>1. pipe[t].live
    BY <1>0, <1>1 DEF RefInv, Refs, One, TypeOK
  <2> QED BY <1>0, <1>1, <2>1 DEF FaultInv, TypeOK
<1>9. LockInv'
  BY <1>0, <1>1, <1>2 DEF LockInv, TypeOK
<1>10. WakerInv'
  BY <1>0, <1>1, <1>2 DEF WakerInv, One, TypeOK
<1>11. FirstInFirstOut'
  BY <1>0, <1>1, <1>2 DEF FirstInFirstOut
<1>12. BufferCounted'
  BY <1>0, <1>1, <1>2 DEF BufferCounted, SabsIn, SabsOf, InHand
<1> QED BY <1>3, <1>4, <1>5, <1>6, <1>7, <1>8, <1>9, <1>10, <1>11, <1>12 DEF WorkerInv

(***************************************************************************)
(* References that are given back.                                         *)
(***************************************************************************)

\* Who gives back no more references than a pipe has does no harm; a pipe is
\* freed with the last one, and the messages that wait in it give back the
\* buffer.
LEMMA ReleaseEffect ==
    ASSUME WorkerInv, NEW n \in [Threads -> Nat], \A p \in Threads : n[p] <= pipe[p].rc,
           Release(n)
    PROVE  /\ ~BadRelease(n)
           /\ pipe' \in [Threads -> Pipes]
           /\ \A p \in Threads :
                 /\ pipe'[p].rc = pipe[p].rc - n[p]
                 /\ pipe'[p].live <=> pipe'[p].rc > 0
                 /\ IF pipe'[p].rc > 0
                    THEN /\ pipe[p].live /\ pipe'[p].q = pipe[p].q
                         /\ pipe'[p].bytes = pipe[p].bytes /\ pipe'[p].lock = pipe[p].lock
                    ELSE pipe'[p].q = <<>> /\ pipe'[p].bytes = 0 /\ pipe'[p].lock = NoOne
           /\ SabsIn(Freed(n)) \in Nat
           /\ \A p \in Threads : Carried(pipe'[p].q) \in Nat
           /\ Carried(pipe'["main"].q) + Carried(pipe'["worker"].q) + SabsIn(Freed(n))
                 = Carried(pipe["main"].q) + Carried(pipe["worker"].q)
<1>0. pipe \in [Threads -> Pipes] /\ RefInv
  BY DEF WorkerInv, TypeOK
<1>1. \A p \in Threads : pipe[p] \in Pipes /\ pipe[p].rc \in Nat /\ n[p] \in Nat
  BY <1>0 DEF Pipes
<1>2. ~BadRelease(n)
  <2> SUFFICES ASSUME NEW p \in Threads, n[p] > 0
               PROVE  pipe[p].live /\ ~(pipe[p].rc < n[p])
    BY DEF BadRelease
  <2>1. n[p] <= pipe[p].rc /\ (pipe[p].live <=> pipe[p].rc > 0)
    BY <1>0 DEF RefInv
  <2> QED BY <1>1, <2>1
<1>3. NoPipe \in Pipes /\ ~NoPipe.live /\ NoPipe.q = <<>> /\ NoPipe.bytes = 0 /\ NoPipe.rc = 0
      /\ NoPipe.lock = NoOne
  BY EmptySeq DEF NoPipe, Pipes, NoOne
<1>4. \A p \in Threads :
         pipe'[p] = IF p \in Freed(n) THEN NoPipe ELSE [pipe[p] EXCEPT !.rc = @ - n[p]]
  BY DEF Release
<1>5. ASSUME NEW p \in Threads
      PROVE  /\ pipe'[p] \in Pipes
             /\ pipe'[p].rc = pipe[p].rc - n[p]
             /\ pipe'[p].live <=> pipe'[p].rc > 0
             /\ IF pipe'[p].rc > 0
                THEN /\ pipe[p].live /\ pipe'[p].q = pipe[p].q
                     /\ pipe'[p].bytes = pipe[p].bytes /\ pipe'[p].lock = pipe[p].lock
                ELSE pipe'[p].q = <<>> /\ pipe'[p].bytes = 0 /\ pipe'[p].lock = NoOne
             /\ SabsOf(p, Freed(n)) + Carried(pipe'[p].q) = Carried(pipe[p].q)
             /\ SabsOf(p, Freed(n)) \in Nat /\ Carried(pipe'[p].q) \in Nat
  <2>0. n[p] <= pipe[p].rc /\ pipe[p].rc \in Nat /\ n[p] \in Nat /\ pipe[p] \in Pipes
    BY <1>1
  <2>1. (pipe[p].live <=> pipe[p].rc > 0)
        /\ (~pipe[p].live => pipe[p].q = <<>> /\ pipe[p].bytes = 0 /\ pipe[p].lock = NoOne)
    BY <1>0 DEF RefInv
  <2>2. Carried(pipe[p].q) \in Nat /\ Carried(<<>>) = 0
    BY <2>0, CarriedType, CarriedEmpty DEF Pipes
  <2>3. CASE p \in Freed(n)
    <3>1. pipe'[p] = NoPipe
      BY <1>4, <2>3
    <3>2. pipe[p].rc = n[p]
      BY <2>3 DEF Freed
    <3>3. SabsOf(p, Freed(n)) = Carried(pipe[p].q)
      BY <2>3 DEF SabsOf
    <3>4. Carried(pipe'[p].q) = 0
      BY <3>1, <1>3, <2>2
    <3> QED BY <1>3, <2>0, <2>2, <3>1, <3>2, <3>3, <3>4
  <2>4. CASE p \notin Freed(n)
    <3>1. pipe'[p] = [pipe[p] EXCEPT !.rc = pipe[p].rc - n[p]]
      BY <1>4, <2>4
    <3>2. pipe[p].rc - n[p] \in Nat
      BY <2>0
    <3>3. /\ pipe'[p] \in Pipes /\ pipe'[p].rc = pipe[p].rc - n[p] /\ pipe'[p].live = pipe[p].live
          /\ pipe'[p].q = pipe[p].q /\ pipe'[p].bytes = pipe[p].bytes /\ pipe'[p].lock = pipe[p].lock
      BY <2>0, <3>1, <3>2 DEF Pipes
    <3>4. pipe[p].live => pipe[p].rc - n[p] > 0
      BY <2>0, <2>1, <2>4 DEF Freed
    <3>5. SabsOf(p, Freed(n)) = 0 /\ Carried(pipe'[p].q) = Carried(pipe[p].q)
      BY <2>4, <3>3 DEF SabsOf
    <3>6. pipe[p].live \in BOOLEAN
      BY <2>0 DEF Pipes
    <3>7. pipe'[p].live <=> pipe'[p].rc > 0
      BY <2>0, <2>1, <3>2, <3>3, <3>4, <3>6
    <3>8. pipe'[p].rc > 0 => pipe[p].live
      BY <3>3, <3>7
    <3>9. ~(pipe'[p].rc > 0) => pipe'[p].q = <<>> /\ pipe'[p].bytes = 0 /\ pipe'[p].lock = NoOne
      BY <2>1, <3>3, <3>7
    <3> QED BY <2>2, <3>3, <3>5, <3>7, <3>8, <3>9
  <2> QED BY <2>3, <2>4
<1>6. pipe' \in [Threads -> Pipes]
  BY <1>5 DEF Release
<1>7. /\ SabsIn(Freed(n)) \in Nat
      /\ Carried(pipe'["main"].q) + Carried(pipe'["worker"].q) + SabsIn(Freed(n))
            = Carried(pipe["main"].q) + Carried(pipe["worker"].q)
  <2>1. "main" \in Threads /\ "worker" \in Threads
    BY DEF Threads
  <2>2. /\ SabsOf("main", Freed(n)) + Carried(pipe'["main"].q) = Carried(pipe["main"].q)
        /\ SabsOf("main", Freed(n)) \in Nat /\ Carried(pipe'["main"].q) \in Nat
        /\ SabsOf("worker", Freed(n)) + Carried(pipe'["worker"].q) = Carried(pipe["worker"].q)
        /\ SabsOf("worker", Freed(n)) \in Nat /\ Carried(pipe'["worker"].q) \in Nat
    BY <1>5, <2>1
  <2> QED BY <2>2 DEF SabsIn
<1> QED BY <1>2, <1>5, <1>6, <1>7

\* onmessage = null gives back the reference of the handler.
LEMMA ClearHandlerStep ==
    ASSUME WorkerInv, NEW t \in Threads, ClearHandler(t)
    PROVE  WorkerInv'
<1> USE DEF Threads, Other, NoOne
<1> DEFINE n == [u \in Threads |-> IF u = t /\ port[t] THEN 1 ELSE 0]
<1>0. TypeOK /\ HistoryInv /\ StartInv /\ RefInv /\ UseInv /\ FaultInv
      /\ LockInv /\ WakerInv /\ FirstInFirstOut /\ BufferCounted
  BY DEF WorkerInv
<1>1. /\ pc[t] = "run" /\ pc["main"] # "done" /\ obj[t] /\ Release(n)
      /\ sab' = sab - SabsIn(Freed(n)) /\ fault' = (fault \/ BadRelease(n))
      /\ port' = [port EXCEPT ![t] = FALSE]
      /\ UNCHANGED <<pc, obj, hand, own, sent, got, failed>>
  BY DEF ClearHandler, At
<1>2. /\ ~BadRelease(n)
      /\ pipe' \in [Threads -> Pipes]
      /\ \A p \in Threads :
            /\ pipe'[p].rc = pipe[p].rc - n[p]
            /\ pipe'[p].live <=> pipe'[p].rc > 0
            /\ IF pipe'[p].rc > 0
               THEN /\ pipe[p].live /\ pipe'[p].q = pipe[p].q
                    /\ pipe'[p].bytes = pipe[p].bytes /\ pipe'[p].lock = pipe[p].lock
               ELSE pipe'[p].q = <<>> /\ pipe'[p].bytes = 0 /\ pipe'[p].lock = NoOne
      /\ SabsIn(Freed(n)) \in Nat
      /\ \A p \in Threads : Carried(pipe'[p].q) \in Nat
      /\ Carried(pipe'["main"].q) + Carried(pipe'["worker"].q) + SabsIn(Freed(n))
            = Carried(pipe["main"].q) + Carried(pipe["worker"].q)
  <2>1. n \in [Threads -> Nat]
    BY <1>0 DEF TypeOK
  <2>2. \A p \in Threads : n[p] <= pipe[p].rc
    BY <1>0, <1>1 DEF RefInv, Refs, One, TypeOK
  <2> HIDE DEF n
  <2> QED BY <1>1, <2>1, <2>2, ReleaseEffect
<1>3. \A p \in Threads : Refs(p)' = pipe[p].rc - n[p]
  BY <1>0, <1>1 DEF RefInv, Refs, One, UseInv, StartInv, TypeOK
<1> HIDE DEF n
<1>4. /\ own["main"] \in Nat /\ own["worker"] \in Nat
      /\ InHand("main") \in Nat /\ InHand("worker") \in Nat
      /\ Carried(pipe'["main"].q) \in Nat /\ Carried(pipe'["worker"].q) \in Nat
      /\ SabsIn(Freed(n)) \in Nat
      /\ sab = own["main"] + own["worker"]
               + (Carried(pipe'["main"].q) + Carried(pipe'["worker"].q) + SabsIn(Freed(n)))
               + InHand("main") + InHand("worker")
  <2>1. /\ own["main"] \in Nat /\ own["worker"] \in Nat
        /\ InHand("main") \in Nat /\ InHand("worker") \in Nat
        /\ sab = own["main"] + own["worker"] + (Carried(pipe["main"].q) + Carried(pipe["worker"].q))
                 + InHand("main") + InHand("worker")
    BY HeldBy
  <2>2. Carried(pipe'["main"].q) \in Nat /\ Carried(pipe'["worker"].q) \in Nat /\ SabsIn(Freed(n)) \in Nat
    BY <1>2
  <2> QED BY ONLY <1>2, <2>1, <2>2, Zenon
<1>5. sab - own[t] - SabsIn(Freed(n)) \in Nat /\ sab - SabsIn(Freed(n)) \in Nat /\ own[t] <= sab
  <2>1. CASE t = "main"
    BY ONLY <1>4, <2>1
  <2>2. CASE t = "worker"
    BY ONLY <1>4, <2>2
  <2> QED BY <2>1, <2>2
<1>7. TypeOK'
  BY <1>0, <1>1, <1>2, <1>5 DEF TypeOK
<1>8. HistoryInv'
  <2>1. fault' \in BOOLEAN
    BY <1>1
  <2> QED BY <1>0, <1>1, <1>2, <2>1 DEF HistoryInv
<1>9. StartInv'
  BY <1>0, <1>1, <1>2 DEF StartInv, TypeOK
<1>10. RefInv'
  BY <1>2, <1>3 DEF RefInv, Pipes
<1>11. UseInv'
  BY <1>0, <1>1, <1>2 DEF UseInv, TypeOK
<1>12. FaultInv'
  <2>1. ~fault
    BY <1>0, <1>1 DEF FaultInv
  <2>2. ~fault'
    BY ONLY <1>1, <1>2, <2>1, Zenon
  <2> QED BY <2>2 DEF FaultInv
<1>13. LockInv'
  <2> SUFFICES ASSUME NEW p \in Threads
               PROVE  /\ pipe'[p].lock = p <=> pc'[p] = "taken"
                      /\ pipe'[p].lock = Other(p) <=> pc'[Other(p)] \in {"signal", "add"}
    BY DEF LockInv
  <2>1. CASE pipe'[p].rc > 0
    BY <1>0, <1>1, <1>2, <2>1 DEF LockInv, TypeOK
  <2>2. CASE ~(pipe'[p].rc > 0)
    <3>1. ~obj'["main"] /\ ~obj'["worker"] /\ ~port'[p]
      BY <1>7, <1>10, <2>2 DEF RefInv, Refs, One, TypeOK
    <3>2. pc'[p] # "taken" /\ pc'[Other(p)] \notin {"signal", "add"}
      BY <1>11, <3>1 DEF UseInv
    <3> QED BY <1>2, <2>2, <3>2
  <2> QED BY <2>1, <2>2
<1>14. WakerInv'
  <2> SUFFICES ASSUME NEW p \in Threads
               PROVE  pipe'[p].bytes = One(pipe'[p].q # <<>> \/ pc'[Other(p)] = "add")
    BY DEF WakerInv
  <2>1. CASE pipe'[p].rc > 0
    BY <1>0, <1>1, <1>2, <2>1 DEF WakerInv, One, TypeOK
  <2>2. CASE ~(pipe'[p].rc > 0)
    <3>1. ~obj'["main"] /\ ~obj'["worker"]
      BY <1>7, <1>10, <2>2 DEF RefInv, Refs, One, TypeOK
    <3>2. pc'[Other(p)] # "add"
      BY <1>11, <3>1 DEF UseInv
    <3> QED BY <1>2, <2>2, <3>2 DEF One
  <2> QED BY <2>1, <2>2
<1>15. FirstInFirstOut'
  BY <1>0, <1>1, <1>2 DEF FirstInFirstOut
<1>16. BufferCounted'
  <2>1. \A p \in Threads : InHand(p)' = InHand(p) /\ own'[p] = own[p]
    BY <1>1 DEF InHand
  <2>2. sab' = own'["main"] + own'["worker"] + (Carried(pipe'["main"].q) + Carried(pipe'["worker"].q))
               + InHand("main")' + InHand("worker")'
    BY <1>1, <1>4, <2>1
  <2> QED BY <2>2 DEF BufferCounted, SabsIn, SabsOf
<1> QED BY <1>7, <1>8, <1>9, <1>10, <1>11, <1>12, <1>13, <1>14, <1>15, <1>16 DEF WorkerInv

\* The finalizer gives back what the object and its handler have.
LEMMA DropObjectStep ==
    ASSUME WorkerInv, NEW t \in Threads, DropObject(t)
    PROVE  WorkerInv'
<1> USE DEF Threads, Other, NoOne
<1> DEFINE n == Finalizer(t)
<1>0. TypeOK /\ HistoryInv /\ StartInv /\ RefInv /\ UseInv /\ FaultInv
      /\ LockInv /\ WakerInv /\ FirstInFirstOut /\ BufferCounted
  BY DEF WorkerInv
<1>1. /\ pc[t] = "run" /\ pc["main"] # "done" /\ obj[t] /\ Release(n)
      /\ sab' = sab - SabsIn(Freed(n)) /\ fault' = (fault \/ BadRelease(n))
      /\ obj' = [obj EXCEPT ![t] = FALSE] /\ port' = [port EXCEPT ![t] = FALSE]
      /\ UNCHANGED <<pc, hand, own, sent, got, failed>>
  BY DEF DropObject, At
<1>2. /\ ~BadRelease(n)
      /\ pipe' \in [Threads -> Pipes]
      /\ \A p \in Threads :
            /\ pipe'[p].rc = pipe[p].rc - n[p]
            /\ pipe'[p].live <=> pipe'[p].rc > 0
            /\ IF pipe'[p].rc > 0
               THEN /\ pipe[p].live /\ pipe'[p].q = pipe[p].q
                    /\ pipe'[p].bytes = pipe[p].bytes /\ pipe'[p].lock = pipe[p].lock
               ELSE pipe'[p].q = <<>> /\ pipe'[p].bytes = 0 /\ pipe'[p].lock = NoOne
      /\ SabsIn(Freed(n)) \in Nat
      /\ \A p \in Threads : Carried(pipe'[p].q) \in Nat
      /\ Carried(pipe'["main"].q) + Carried(pipe'["worker"].q) + SabsIn(Freed(n))
            = Carried(pipe["main"].q) + Carried(pipe["worker"].q)
  <2>1. n \in [Threads -> Nat]
    BY <1>0 DEF TypeOK, Finalizer
  <2>2. \A p \in Threads : n[p] <= pipe[p].rc
    BY <1>0, <1>1 DEF RefInv, Refs, One, TypeOK, Finalizer
  <2> HIDE DEF n
  <2> QED BY <1>1, <2>1, <2>2, ReleaseEffect
<1>3. \A p \in Threads : Refs(p)' = pipe[p].rc - n[p]
  <2> SUFFICES ASSUME NEW p \in Threads
               PROVE  Refs(p)' = pipe[p].rc - n[p]
    OBVIOUS
  <2>1. pipe[p].rc = Refs(p)
    BY <1>0 DEF RefInv
  <2>2. Refs(p)' = Refs(p) - n[p]
    BY <1>0, <1>1 DEF Refs, One, UseInv, StartInv, TypeOK, Finalizer
  <2> QED BY <2>1, <2>2
<1> HIDE DEF n
<1>4. /\ own["main"] \in Nat /\ own["worker"] \in Nat
      /\ InHand("main") \in Nat /\ InHand("worker") \in Nat
      /\ Carried(pipe'["main"].q) \in Nat /\ Carried(pipe'["worker"].q) \in Nat
      /\ SabsIn(Freed(n)) \in Nat
      /\ sab = own["main"] + own["worker"]
               + (Carried(pipe'["main"].q) + Carried(pipe'["worker"].q) + SabsIn(Freed(n)))
               + InHand("main") + InHand("worker")
  <2>1. /\ own["main"] \in Nat /\ own["worker"] \in Nat
        /\ InHand("main") \in Nat /\ InHand("worker") \in Nat
        /\ sab = own["main"] + own["worker"] + (Carried(pipe["main"].q) + Carried(pipe["worker"].q))
                 + InHand("main") + InHand("worker")
    BY HeldBy
  <2>2. Carried(pipe'["main"].q) \in Nat /\ Carried(pipe'["worker"].q) \in Nat /\ SabsIn(Freed(n)) \in Nat
    BY <1>2
  <2> QED BY ONLY <1>2, <2>1, <2>2, Zenon
<1>5. sab - own[t] - SabsIn(Freed(n)) \in Nat /\ sab - SabsIn(Freed(n)) \in Nat /\ own[t] <= sab
  <2>1. CASE t = "main"
    BY ONLY <1>4, <2>1
  <2>2. CASE t = "worker"
    BY ONLY <1>4, <2>2
  <2> QED BY <2>1, <2>2
<1>7. TypeOK'
  BY <1>0, <1>1, <1>2, <1>5 DEF TypeOK
<1>8. HistoryInv'
  <2>1. fault' \in BOOLEAN
    BY <1>1
  <2> QED BY <1>0, <1>1, <1>2, <2>1 DEF HistoryInv
<1>9. StartInv'
  BY <1>0, <1>1, <1>2 DEF StartInv, TypeOK
<1>10. RefInv'
  BY <1>2, <1>3 DEF RefInv, Pipes
<1>11. UseInv'
  BY <1>0, <1>1, <1>2 DEF UseInv, TypeOK
<1>12. FaultInv'
  <2>1. ~fault
    BY <1>0, <1>1 DEF FaultInv
  <2>2. ~fault'
    BY ONLY <1>1, <1>2, <2>1, Zenon
  <2> QED BY <2>2 DEF FaultInv
<1>13. LockInv'
  <2> SUFFICES ASSUME NEW p \in Threads
               PROVE  /\ pipe'[p].lock = p <=> pc'[p] = "taken"
                      /\ pipe'[p].lock = Other(p) <=> pc'[Other(p)] \in {"signal", "add"}
    BY DEF LockInv
  <2>1. CASE pipe'[p].rc > 0
    BY <1>0, <1>1, <1>2, <2>1 DEF LockInv, TypeOK
  <2>2. CASE ~(pipe'[p].rc > 0)
    <3>1. ~obj'["main"] /\ ~obj'["worker"] /\ ~port'[p]
      BY <1>7, <1>10, <2>2 DEF RefInv, Refs, One, TypeOK
    <3>2. pc'[p] # "taken" /\ pc'[Other(p)] \notin {"signal", "add"}
      BY <1>11, <3>1 DEF UseInv
    <3> QED BY <1>2, <2>2, <3>2
  <2> QED BY <2>1, <2>2
<1>14. WakerInv'
  <2> SUFFICES ASSUME NEW p \in Threads
               PROVE  pipe'[p].bytes = One(pipe'[p].q # <<>> \/ pc'[Other(p)] = "add")
    BY DEF WakerInv
  <2>1. CASE pipe'[p].rc > 0
    BY <1>0, <1>1, <1>2, <2>1 DEF WakerInv, One, TypeOK
  <2>2. CASE ~(pipe'[p].rc > 0)
    <3>1. ~obj'["main"] /\ ~obj'["worker"]
      BY <1>7, <1>10, <2>2 DEF RefInv, Refs, One, TypeOK
    <3>2. pc'[Other(p)] # "add"
      BY <1>11, <3>1 DEF UseInv
    <3> QED BY <1>2, <2>2, <3>2 DEF One
  <2> QED BY <2>1, <2>2
<1>15. FirstInFirstOut'
  BY <1>0, <1>1, <1>2 DEF FirstInFirstOut
<1>16. BufferCounted'
  <2>1. \A p \in Threads : InHand(p)' = InHand(p) /\ own'[p] = own[p]
    BY <1>1 DEF InHand
  <2>2. sab' = own'["main"] + own'["worker"] + (Carried(pipe'["main"].q) + Carried(pipe'["worker"].q))
               + InHand("main")' + InHand("worker")'
    BY <1>1, <1>4, <2>1
  <2> QED BY <2>2 DEF BufferCounted, SabsIn, SabsOf
<1> QED BY <1>7, <1>8, <1>9, <1>10, <1>11, <1>12, <1>13, <1>14, <1>15, <1>16 DEF WorkerInv

\* The worker thread gives back the references it was started with.
LEMMA FreeHandlersStep ==
    ASSUME WorkerInv, NEW t \in Threads, FreeHandlers(t)
    PROVE  WorkerInv'
<1> USE DEF Threads, Other, NoOne
<1> DEFINE n == [u \in Threads |-> IF t = "worker" THEN 1 ELSE 0]
<1>0. TypeOK /\ HistoryInv /\ StartInv /\ RefInv /\ UseInv /\ FaultInv
      /\ LockInv /\ WakerInv /\ FirstInFirstOut /\ BufferCounted
  BY DEF WorkerInv
<1>1. /\ pc[t] = "handlers" /\ pc["main"] # "done" /\ pc' = [pc EXCEPT ![t] = "runtime"] /\ Release(n)
      /\ sab' = sab - SabsIn(Freed(n)) /\ fault' = (fault \/ BadRelease(n))
      /\ UNCHANGED <<obj, port, hand, own, sent, got, failed>>
  BY DEF FreeHandlers, At, Go
<1>2. /\ ~BadRelease(n)
      /\ pipe' \in [Threads -> Pipes]
      /\ \A p \in Threads :
            /\ pipe'[p].rc = pipe[p].rc - n[p]
            /\ pipe'[p].live <=> pipe'[p].rc > 0
            /\ IF pipe'[p].rc > 0
               THEN /\ pipe[p].live /\ pipe'[p].q = pipe[p].q
                    /\ pipe'[p].bytes = pipe[p].bytes /\ pipe'[p].lock = pipe[p].lock
               ELSE pipe'[p].q = <<>> /\ pipe'[p].bytes = 0 /\ pipe'[p].lock = NoOne
      /\ SabsIn(Freed(n)) \in Nat
      /\ \A p \in Threads : Carried(pipe'[p].q) \in Nat
      /\ Carried(pipe'["main"].q) + Carried(pipe'["worker"].q) + SabsIn(Freed(n))
            = Carried(pipe["main"].q) + Carried(pipe["worker"].q)
  <2>1. n \in [Threads -> Nat]
    BY <1>0 DEF TypeOK
  <2>2. \A p \in Threads : n[p] <= pipe[p].rc
    BY <1>0, <1>1 DEF RefInv, Refs, One, TypeOK
  <2> HIDE DEF n
  <2> QED BY <1>1, <2>1, <2>2, ReleaseEffect
<1>3. \A p \in Threads : Refs(p)' = pipe[p].rc - n[p]
  BY <1>0, <1>1 DEF RefInv, Refs, One, UseInv, StartInv, TypeOK
<1> HIDE DEF n
<1>4. /\ own["main"] \in Nat /\ own["worker"] \in Nat
      /\ InHand("main") \in Nat /\ InHand("worker") \in Nat
      /\ Carried(pipe'["main"].q) \in Nat /\ Carried(pipe'["worker"].q) \in Nat
      /\ SabsIn(Freed(n)) \in Nat
      /\ sab = own["main"] + own["worker"]
               + (Carried(pipe'["main"].q) + Carried(pipe'["worker"].q) + SabsIn(Freed(n)))
               + InHand("main") + InHand("worker")
  <2>1. /\ own["main"] \in Nat /\ own["worker"] \in Nat
        /\ InHand("main") \in Nat /\ InHand("worker") \in Nat
        /\ sab = own["main"] + own["worker"] + (Carried(pipe["main"].q) + Carried(pipe["worker"].q))
                 + InHand("main") + InHand("worker")
    BY HeldBy
  <2>2. Carried(pipe'["main"].q) \in Nat /\ Carried(pipe'["worker"].q) \in Nat /\ SabsIn(Freed(n)) \in Nat
    BY <1>2
  <2> QED BY ONLY <1>2, <2>1, <2>2, Zenon
<1>5. sab - own[t] - SabsIn(Freed(n)) \in Nat /\ sab - SabsIn(Freed(n)) \in Nat /\ own[t] <= sab
  <2>1. CASE t = "main"
    BY ONLY <1>4, <2>1
  <2>2. CASE t = "worker"
    BY ONLY <1>4, <2>2
  <2> QED BY <2>1, <2>2
<1>7. TypeOK'
  BY <1>0, <1>1, <1>2, <1>5 DEF TypeOK
<1>8. HistoryInv'
  <2>1. fault' \in BOOLEAN
    BY <1>1
  <2> QED BY <1>0, <1>1, <1>2, <2>1 DEF HistoryInv
<1>9. StartInv'
  BY <1>0, <1>1, <1>2 DEF StartInv, TypeOK
<1>10. RefInv'
  BY <1>2, <1>3 DEF RefInv, Pipes
<1>11. UseInv'
  BY <1>0, <1>1, <1>2 DEF UseInv, TypeOK
<1>12. FaultInv'
  <2>1. ~fault
    BY <1>0, <1>1 DEF FaultInv
  <2>2. ~fault'
    BY ONLY <1>1, <1>2, <2>1, Zenon
  <2> QED BY <2>2 DEF FaultInv
<1>13. LockInv'
  <2> SUFFICES ASSUME NEW p \in Threads
               PROVE  /\ pipe'[p].lock = p <=> pc'[p] = "taken"
                      /\ pipe'[p].lock = Other(p) <=> pc'[Other(p)] \in {"signal", "add"}
    BY DEF LockInv
  <2>1. CASE pipe'[p].rc > 0
    BY <1>0, <1>1, <1>2, <2>1 DEF LockInv, TypeOK
  <2>2. CASE ~(pipe'[p].rc > 0)
    <3>1. ~obj'["main"] /\ ~obj'["worker"] /\ ~port'[p]
      BY <1>7, <1>10, <2>2 DEF RefInv, Refs, One, TypeOK
    <3>2. pc'[p] # "taken" /\ pc'[Other(p)] \notin {"signal", "add"}
      BY <1>11, <3>1 DEF UseInv
    <3> QED BY <1>2, <2>2, <3>2
  <2> QED BY <2>1, <2>2
<1>14. WakerInv'
  <2> SUFFICES ASSUME NEW p \in Threads
               PROVE  pipe'[p].bytes = One(pipe'[p].q # <<>> \/ pc'[Other(p)] = "add")
    BY DEF WakerInv
  <2>1. CASE pipe'[p].rc > 0
    BY <1>0, <1>1, <1>2, <2>1 DEF WakerInv, One, TypeOK
  <2>2. CASE ~(pipe'[p].rc > 0)
    <3>1. ~obj'["main"] /\ ~obj'["worker"]
      BY <1>7, <1>10, <2>2 DEF RefInv, Refs, One, TypeOK
    <3>2. pc'[Other(p)] # "add"
      BY <1>11, <3>1 DEF UseInv
    <3> QED BY <1>2, <2>2, <3>2 DEF One
  <2> QED BY <2>1, <2>2
<1>15. FirstInFirstOut'
  BY <1>0, <1>1, <1>2 DEF FirstInFirstOut
<1>16. BufferCounted'
  <2>1. \A p \in Threads : InHand(p)' = InHand(p) /\ own'[p] = own[p]
    BY <1>1 DEF InHand
  <2>2. sab' = own'["main"] + own'["worker"] + (Carried(pipe'["main"].q) + Carried(pipe'["worker"].q))
               + InHand("main")' + InHand("worker")'
    BY <1>1, <1>4, <2>1
  <2> QED BY <2>2 DEF BufferCounted, SabsIn, SabsOf
<1> QED BY <1>7, <1>8, <1>9, <1>10, <1>11, <1>12, <1>13, <1>14, <1>15, <1>16 DEF WorkerInv

\* JS_FreeRuntime gives back the rest.
LEMMA FreeRuntimeStep ==
    ASSUME WorkerInv, NEW t \in Threads, FreeRuntime(t)
    PROVE  WorkerInv'
<1> USE DEF Threads, Other, NoOne
<1> DEFINE n == Finalizer(t)
<1>0. TypeOK /\ HistoryInv /\ StartInv /\ RefInv /\ UseInv /\ FaultInv
      /\ LockInv /\ WakerInv /\ FirstInFirstOut /\ BufferCounted
  BY DEF WorkerInv
<1>1. /\ pc[t] = "runtime" /\ pc["main"] # "done" /\ pc' = [pc EXCEPT ![t] = "done"] /\ Release(n)
      /\ sab' = sab - own[t] - SabsIn(Freed(n))
      /\ fault' = (fault \/ BadRelease(n) \/ (obj[t] /\ port[t]) \/ sab < own[t])
      /\ obj' = [obj EXCEPT ![t] = FALSE] /\ port' = [port EXCEPT ![t] = FALSE]
      /\ own' = [own EXCEPT ![t] = 0]
      /\ UNCHANGED <<hand, sent, got, failed>>
  BY DEF FreeRuntime, At, Go
<1>2. /\ ~BadRelease(n)
      /\ pipe' \in [Threads -> Pipes]
      /\ \A p \in Threads :
            /\ pipe'[p].rc = pipe[p].rc - n[p]
            /\ pipe'[p].live <=> pipe'[p].rc > 0
            /\ IF pipe'[p].rc > 0
               THEN /\ pipe[p].live /\ pipe'[p].q = pipe[p].q
                    /\ pipe'[p].bytes = pipe[p].bytes /\ pipe'[p].lock = pipe[p].lock
               ELSE pipe'[p].q = <<>> /\ pipe'[p].bytes = 0 /\ pipe'[p].lock = NoOne
      /\ SabsIn(Freed(n)) \in Nat
      /\ \A p \in Threads : Carried(pipe'[p].q) \in Nat
      /\ Carried(pipe'["main"].q) + Carried(pipe'["worker"].q) + SabsIn(Freed(n))
            = Carried(pipe["main"].q) + Carried(pipe["worker"].q)
  <2>1. n \in [Threads -> Nat]
    BY <1>0 DEF TypeOK, Finalizer
  <2>2. \A p \in Threads : n[p] <= pipe[p].rc
    BY <1>0, <1>1 DEF RefInv, Refs, One, TypeOK, Finalizer
  <2> HIDE DEF n
  <2> QED BY <1>1, <2>1, <2>2, ReleaseEffect
<1>3. \A p \in Threads : Refs(p)' = pipe[p].rc - n[p]
  <2> SUFFICES ASSUME NEW p \in Threads
               PROVE  Refs(p)' = pipe[p].rc - n[p]
    OBVIOUS
  <2>1. pipe[p].rc = Refs(p)
    BY <1>0 DEF RefInv
  <2>2. Refs(p)' = Refs(p) - n[p]
    BY <1>0, <1>1 DEF Refs, One, UseInv, StartInv, TypeOK, Finalizer
  <2> QED BY <2>1, <2>2
<1> HIDE DEF n
<1>4. /\ own["main"] \in Nat /\ own["worker"] \in Nat
      /\ InHand("main") \in Nat /\ InHand("worker") \in Nat
      /\ Carried(pipe'["main"].q) \in Nat /\ Carried(pipe'["worker"].q) \in Nat
      /\ SabsIn(Freed(n)) \in Nat
      /\ sab = own["main"] + own["worker"]
               + (Carried(pipe'["main"].q) + Carried(pipe'["worker"].q) + SabsIn(Freed(n)))
               + InHand("main") + InHand("worker")
  <2>1. /\ own["main"] \in Nat /\ own["worker"] \in Nat
        /\ InHand("main") \in Nat /\ InHand("worker") \in Nat
        /\ sab = own["main"] + own["worker"] + (Carried(pipe["main"].q) + Carried(pipe["worker"].q))
                 + InHand("main") + InHand("worker")
    BY HeldBy
  <2>2. Carried(pipe'["main"].q) \in Nat /\ Carried(pipe'["worker"].q) \in Nat /\ SabsIn(Freed(n)) \in Nat
    BY <1>2
  <2> QED BY ONLY <1>2, <2>1, <2>2, Zenon
<1>5. sab - own[t] - SabsIn(Freed(n)) \in Nat /\ sab - SabsIn(Freed(n)) \in Nat /\ own[t] <= sab
  <2>1. CASE t = "main"
    BY ONLY <1>4, <2>1
  <2>2. CASE t = "worker"
    BY ONLY <1>4, <2>2
  <2> QED BY <2>1, <2>2
<1>7. TypeOK'
  BY <1>0, <1>1, <1>2, <1>5 DEF TypeOK
<1>8. HistoryInv'
  <2>1. fault' \in BOOLEAN
    BY <1>1
  <2> QED BY <1>0, <1>1, <1>2, <2>1 DEF HistoryInv
<1>9. StartInv'
  BY <1>0, <1>1, <1>2 DEF StartInv, TypeOK
<1>10. RefInv'
  BY <1>2, <1>3 DEF RefInv, Pipes
<1>11. UseInv'
  BY <1>0, <1>1, <1>2 DEF UseInv, TypeOK
<1>12. FaultInv'
  <2>1. ~fault
    BY <1>0, <1>1 DEF FaultInv
  <2>2. sab \in Nat /\ own[t] \in Nat /\ ~(sab < own[t])
    BY <1>0, <1>5 DEF TypeOK
  <2>3. fault' => obj[t] /\ port[t]
    BY ONLY <1>1, <1>2, <2>1, <2>2, Zenon
  <2>4. port[t] => failed /\ t = "main"
    BY <1>0, <1>1 DEF UseInv
  <2> QED BY <1>0, <1>1, <2>3, <2>4 DEF FaultInv, TypeOK
<1>13. LockInv'
  <2> SUFFICES ASSUME NEW p \in Threads
               PROVE  /\ pipe'[p].lock = p <=> pc'[p] = "taken"
                      /\ pipe'[p].lock = Other(p) <=> pc'[Other(p)] \in {"signal", "add"}
    BY DEF LockInv
  <2>1. CASE pipe'[p].rc > 0
    BY <1>0, <1>1, <1>2, <2>1 DEF LockInv, TypeOK
  <2>2. CASE ~(pipe'[p].rc > 0)
    <3>1. ~obj'["main"] /\ ~obj'["worker"] /\ ~port'[p]
      BY <1>7, <1>10, <2>2 DEF RefInv, Refs, One, TypeOK
    <3>2. pc'[p] # "taken" /\ pc'[Other(p)] \notin {"signal", "add"}
      BY <1>11, <3>1 DEF UseInv
    <3> QED BY <1>2, <2>2, <3>2
  <2> QED BY <2>1, <2>2
<1>14. WakerInv'
  <2> SUFFICES ASSUME NEW p \in Threads
               PROVE  pipe'[p].bytes = One(pipe'[p].q # <<>> \/ pc'[Other(p)] = "add")
    BY DEF WakerInv
  <2>1. CASE pipe'[p].rc > 0
    BY <1>0, <1>1, <1>2, <2>1 DEF WakerInv, One, TypeOK
  <2>2. CASE ~(pipe'[p].rc > 0)
    <3>1. ~obj'["main"] /\ ~obj'["worker"]
      BY <1>7, <1>10, <2>2 DEF RefInv, Refs, One, TypeOK
    <3>2. pc'[Other(p)] # "add"
      BY <1>11, <3>1 DEF UseInv
    <3> QED BY <1>2, <2>2, <3>2 DEF One
  <2> QED BY <2>1, <2>2
<1>15. FirstInFirstOut'
  BY <1>0, <1>1, <1>2 DEF FirstInFirstOut
<1>16. BufferCounted'
  <2>1. \A p \in Threads : InHand(p)' = InHand(p) /\ own'[p] = IF p = t THEN 0 ELSE own[p]
    BY <1>0, <1>1 DEF InHand, TypeOK
  <2>2. sab' = own'["main"] + own'["worker"] + (Carried(pipe'["main"].q) + Carried(pipe'["worker"].q))
               + InHand("main")' + InHand("worker")'
    <3>1. CASE t = "main"
      BY <1>1, <1>4, <2>1, <3>1
    <3>2. CASE t = "worker"
      BY <1>1, <1>4, <2>1, <3>2
    <3> QED BY <3>1, <3>2
  <2> QED BY <2>2 DEF BufferCounted, SabsIn, SabsOf
<1> QED BY <1>7, <1>8, <1>9, <1>10, <1>11, <1>12, <1>13, <1>14, <1>15, <1>16 DEF WorkerInv

(***************************************************************************)
(* The theorems.                                                           *)
(***************************************************************************)

\* The invariant holds when the main script begins.
LEMMA WorkerInitially == Init => WorkerInv
<1> SUFFICES ASSUME Init PROVE WorkerInv
  OBVIOUS
<1> USE DEF Threads, Other, NoOne
<1>1. NoPipe \in Pipes /\ ~NoPipe.live /\ NoPipe.q = <<>> /\ NoPipe.bytes = 0 /\ NoPipe.rc = 0
      /\ NoPipe.lock = NoOne
  BY EmptySeq DEF NoPipe, Pipes
<1>2. \A p \in Threads : pipe[p] = NoPipe
  BY DEF Init
<1>3. \A p \in Threads : hand[p] = NoMessage /\ ~obj[p] /\ ~port[p] /\ sent[p] = <<>> /\ got[p] = <<>>
  BY DEF Init
<1>4. pc["main"] = "run" /\ pc["worker"] = "none" /\ own["main"] = 1 /\ own["worker"] = 0 /\ sab = 1
      /\ ~fault
  BY DEF Init
<1>5. TypeOK
  BY <1>1 DEF Init, TypeOK, Messages, NoMessage
<1>6. HistoryInv
  BY EmptySeq DEF Init, HistoryInv
<1>7. StartInv
  BY <1>3, <1>4 DEF StartInv
<1>8. RefInv
  BY <1>1, <1>2, <1>3, <1>4 DEF RefInv, Refs, One
<1>9. UseInv
  BY <1>3, <1>4 DEF UseInv, NoMessage
<1>10. FaultInv
  BY <1>4 DEF FaultInv
<1>11. LockInv
  BY <1>1, <1>2, <1>4 DEF LockInv
<1>12. WakerInv
  BY <1>1, <1>2, <1>4 DEF WakerInv, One
<1>13. FirstInFirstOut
  BY <1>1, <1>2 DEF FirstInFirstOut
<1>14. BufferCounted
  <2>1. \A p \in Threads : Carried(pipe[p].q) = 0 /\ InHand(p) = 0
    BY <1>1, <1>2, <1>3, CarriedEmpty DEF InHand, NoMessage
  <2> QED BY <1>4, <2>1 DEF BufferCounted, SabsIn, SabsOf
<1> QED BY <1>5, <1>6, <1>7, <1>8, <1>9, <1>10, <1>11, <1>12, <1>13, <1>14 DEF WorkerInv

\* It holds after every step of either thread.
LEMMA WorkerStep ==
    ASSUME WorkerInv, [Next]_vars
    PROVE  WorkerInv'
<1>1. ASSUME New PROVE WorkerInv'
  BY <1>1, NewStep
<1>2. ASSUME Import PROVE WorkerInv'
  BY <1>2, ImportStep
<1>3. ASSUME Fail PROVE WorkerInv'
  BY <1>3, FailStep
<1>4. ASSUME NEW t \in Threads, Script(t) PROVE WorkerInv'
  <2>1. ASSUME NEW s \in BOOLEAN, Post(t, s) PROVE WorkerInv'
    BY <2>1, PostStep
  <2> QED BY <1>4, <2>1, SetHandlerStep, ClearHandlerStep, DropObjectStep, DropBufferStep DEF Script
<1>5. ASSUME NEW t \in Threads, Step(t) PROVE WorkerInv'
  <2>1. ASSUME NEW ok \in BOOLEAN, Read(t, ok) PROVE WorkerInv'
    BY <2>1, ReadStep
  <2> QED BY <1>5, <2>1, PostLockStep, SignalStep, AddStep, EndTurnStep, PollStep, TakeLockStep, TakeStep,
             FreeMessageStep, FreeHandlersStep, FreeRuntimeStep DEF Step
<1>6. CASE UNCHANGED vars
  <2>1. UNCHANGED pipe /\ UNCHANGED pc /\ UNCHANGED obj /\ UNCHANGED port /\ UNCHANGED hand
        /\ UNCHANGED own /\ UNCHANGED sab /\ UNCHANGED sent /\ UNCHANGED got
        /\ UNCHANGED failed /\ UNCHANGED fault
    BY <1>6 DEF vars
  <2> QED BY <2>1 DEF WorkerInv, TypeOK, HistoryInv, StartInv, RefInv, Refs, UseInv, FaultInv, LockInv,
             WakerInv, FirstInFirstOut, BufferCounted, SabsIn, SabsOf, InHand
<1> QED BY <1>1, <1>2, <1>3, <1>4, <1>5, <1>6 DEF Next

\* It is an invariant.
LEMMA WorkerInvariant == Spec => []WorkerInv
BY WorkerInitially, WorkerStep, PTL DEF Spec

\* A pipe that lives on keeps its bytes.
LEMMA ReleaseKeeps ==
    ASSUME TypeOK, NEW n, Release(n), NEW p \in Threads, pipe'[p].live
    PROVE  pipe'[p].bytes = pipe[p].bytes
<1>1. pipe'[p] = IF p \in Freed(n) THEN NoPipe ELSE [pipe[p] EXCEPT !.rc = @ - n[p]]
  BY DEF Release
<1>2. p \notin Freed(n)
  BY <1>1 DEF NoPipe
<1> QED BY <1>1, <1>2 DEF TypeOK, Pipes

\* The byte that a reader was woken by stays until the reader takes it.
LEMMA ReadyStep ==
    ASSUME WorkerInv, WorkerInv', ReadyInv, [Next]_vars
    PROVE  ReadyInv'
<1> USE DEF Threads, Other, NoOne
<1> SUFFICES ASSUME NEW p \in Threads, pc'[p] \in {"take", "taken"}
             PROVE  pipe'[p].bytes > 0
  BY DEF ReadyInv
<1>1. TypeOK /\ (pc[p] \in {"take", "taken"} => pipe[p].bytes > 0)
  BY DEF WorkerInv, ReadyInv
<1>2. pipe'[p].live
  <2>1. TypeOK' /\ RefInv' /\ UseInv'
    BY DEF WorkerInv
  <2>2. port'[p]
    BY <2>1 DEF UseInv
  <2> QED BY <2>1, <2>2 DEF RefInv, Refs, One
<1>3. ASSUME NEW t \in Threads, NEW n, Release(n),
             pc' = pc \/ pc' = [pc EXCEPT ![t] = "runtime"] \/ pc' = [pc EXCEPT ![t] = "done"]
      PROVE  pipe'[p].bytes > 0
  <2>1. pc[p] \in {"take", "taken"}
    BY <1>1, <1>3 DEF TypeOK
  <2> QED BY <1>1, <1>2, <1>3, <2>1, ReleaseKeeps
<1>4. CASE New
  BY <1>1, <1>4 DEF New, At, Go, TypeOK
<1>5. CASE Import
  <2>1. pc[p] \in {"take", "taken"} /\ pipe'[p] = [pipe[p] EXCEPT !.rc = @ + 1]
    BY <1>1, <1>5 DEF Import, At, Go, TypeOK
  <2> QED BY <1>1, <2>1 DEF TypeOK, Pipes
<1>6. CASE Fail
  BY <1>1, <1>6 DEF Fail, At, Go, TypeOK
<1>7. ASSUME NEW t \in Threads, Script(t) PROVE pipe'[p].bytes > 0
  <2>1. ASSUME NEW s \in BOOLEAN, Post(t, s) PROVE pipe'[p].bytes > 0
    BY <1>1, <2>1 DEF Post, At, Go, TypeOK
  <2>2. CASE SetHandler(t)
    <3>1. pc[p] \in {"take", "taken"} /\ pipe'[p].bytes = pipe[p].bytes
      BY <1>1, <2>2 DEF SetHandler, At, Go, TypeOK, Pipes
    <3> QED BY <1>1, <3>1
  <2>3. CASE ClearHandler(t)
    BY <1>3, <2>3 DEF ClearHandler
  <2>4. CASE DropObject(t)
    BY <1>3, <2>4 DEF DropObject
  <2>5. CASE DropBuffer(t)
    BY <1>1, <2>5 DEF DropBuffer
  <2> QED BY <1>7, <2>1, <2>2, <2>3, <2>4, <2>5 DEF Script
<1>8. ASSUME NEW t \in Threads, Step(t) PROVE pipe'[p].bytes > 0
  <2>1. CASE PostLock(t)
    <3>1. pc[p] \in {"take", "taken"} /\ pipe'[p].bytes = pipe[p].bytes
      BY <1>1, <2>1 DEF PostLock, Lock, At, Go, TypeOK, Pipes
    <3> QED BY <1>1, <3>1
  <2>2. CASE Signal(t)
    <3>1. pc[p] \in {"take", "taken"} /\ pipe[p].bytes \in Nat
      BY <1>1, <2>2 DEF Signal, At, Go, TypeOK, Pipes
    <3>2. pipe'[p].bytes \in {pipe[p].bytes, pipe[p].bytes + 1}
      BY <1>1, <2>2 DEF Signal, TypeOK, Pipes
    <3> QED BY <1>1, <3>1, <3>2
  <2>3. CASE Add(t)
    <3>1. pc[p] \in {"take", "taken"} /\ pipe'[p].bytes = pipe[p].bytes
      BY <1>1, <2>3 DEF Add, At, Go, TypeOK, Pipes
    <3> QED BY <1>1, <3>1
  <2>4. CASE EndTurn(t)
    BY <1>1, <2>4 DEF EndTurn, At, Go, TypeOK
  <2>5. CASE Poll(t)
    <3>1. pc'[t] = "take" => pipe[t].bytes > 0
      BY <1>1, <2>5 DEF Poll, Go, TypeOK
    <3>2. t # p => pc'[p] = pc[p]
      BY <2>5 DEF Poll, Go
    <3>3. pc'[t] \in {"take", "handlers"} /\ pipe' = pipe
      BY <1>1, <2>5 DEF Poll, Go, TypeOK
    <3> QED BY <1>1, <3>1, <3>2, <3>3
  <2>6. CASE TakeLock(t)
    <3>1. pc[p] \in {"take", "taken"} /\ pipe'[p].bytes = pipe[p].bytes
      BY <1>1, <2>6 DEF TakeLock, Lock, At, Go, TypeOK, Pipes
    <3> QED BY <1>1, <3>1
  <2>7. CASE Take(t)
    <3>1. p # t /\ pc[p] \in {"take", "taken"}
      BY <1>1, <2>7 DEF Take, At, Go, TypeOK
    <3>2. pipe'[p] = pipe[p]
      BY <1>1, <2>7, <3>1 DEF Take, TypeOK
    <3> QED BY <1>1, <3>1, <3>2
  <2>8. ASSUME NEW ok \in BOOLEAN, Read(t, ok) PROVE pipe'[p].bytes > 0
    BY <1>1, <2>8 DEF Read, At, Go, TypeOK
  <2>9. CASE FreeMessage(t)
    BY <1>1, <2>9 DEF FreeMessage, At, Go, TypeOK
  <2>10. CASE FreeHandlers(t)
    BY <1>3, <2>10 DEF FreeHandlers, Go
  <2>11. CASE FreeRuntime(t)
    BY <1>3, <2>11 DEF FreeRuntime, Go
  <2> QED BY <1>8, <2>1, <2>2, <2>3, <2>4, <2>5, <2>6, <2>7, <2>8, <2>9, <2>10, <2>11 DEF Step
<1>9. CASE UNCHANGED vars
  BY <1>1, <1>9 DEF vars
<1> QED BY <1>4, <1>5, <1>6, <1>7, <1>8, <1>9 DEF Next

\* And it is an invariant too.
LEMMA ReadyInvariant == Spec => []ReadyInv
<1>1. Init => ReadyInv
  BY DEF Init, ReadyInv
<1> QED BY <1>1, WorkerInvariant, ReadyStep, PTL DEF Spec

\* Whatever the two threads do, js_worker_postMessage and
\* handle_posted_message keep the messages in order, each once, and the waker
\* is readable exactly while messages wait and the mutex is free; who is woken
\* by it finds one.
THEOREM MessagesKeepTheirOrder == Spec => []MessagesInOrder
<1>1. ASSUME WorkerInv, ReadyInv PROVE MessagesInOrder
  <2> USE DEF Threads, Other, NoOne
  <2>1. TypeOK /\ LockInv /\ WakerInv /\ FirstInFirstOut
    BY <1>1 DEF WorkerInv
  <2>2. \A p \in Threads : pipe[p].lock = NoOne => pc[Other(p)] # "add"
    BY <2>1 DEF LockInv
  <2>3. WakerTellsMessages
    BY <2>1, <2>2 DEF WakerTellsMessages, WakerInv, One
  <2>4. SelectTellsTheTruth
    <3> SUFFICES ASSUME NEW t \in Threads, pc[t] = "taken" PROVE pipe[t].q # <<>>
      BY DEF SelectTellsTheTruth, At
    <3>1. pc[Other(t)] # "add"
      BY <2>1 DEF LockInv
    <3>2. pipe[t].bytes > 0
      BY <1>1 DEF ReadyInv
    <3> QED BY <2>1, <3>1, <3>2 DEF WakerInv, One
  <2> QED BY <2>1, <2>3, <2>4 DEF MessagesInOrder
<1> QED BY <1>1, WorkerInvariant, ReadyInvariant, PTL

\* In whatever order the threads let go of the Worker objects, the handlers,
\* the messages and the buffer: nothing is used after its free, no count goes
\* below 0, the buffer is counted once for every holder, and nothing is left
\* when both have ended.  The exception is in the code: a main script that
\* throws while it has a handler.
THEOREM SharedIsReleasedOnce == Spec => []SharedUntilReleased
<1>1. ASSUME WorkerInv PROVE SharedUntilReleased
  <2> USE DEF Threads, Other, NoOne
  <2>1. TypeOK /\ RefInv /\ UseInv /\ FaultInv /\ BufferCounted
    BY <1>1 DEF WorkerInv
  <2>2. NoFault
    BY <2>1 DEF NoFault, FaultInv
  <2>3. ASSUME \A t \in Threads : pc[t] = "done"
        PROVE  sab = 0 /\ \A t \in Threads : pipe[t] = NoPipe
    <3>1. \A t \in Threads : ~obj[t] /\ ~port[t] /\ own[t] = 0 /\ ~hand[t].sab
      BY <2>1, <2>3 DEF UseInv, TypeOK
    <3>2. ASSUME NEW t \in Threads
          PROVE  /\ pipe[t].rc = 0 /\ pipe[t].live = FALSE /\ pipe[t].q = <<>>
                 /\ pipe[t].bytes = 0 /\ pipe[t].lock = NoOne
      <4>1. pipe[t].rc = 0
        BY <2>1, <2>3, <3>1 DEF RefInv, Refs, One
      <4>2. ~pipe[t].live /\ pipe[t].live \in BOOLEAN
        BY <2>1, <4>1 DEF RefInv, TypeOK, Pipes
      <4> QED BY <2>1, <4>1, <4>2 DEF RefInv
    <3>3. \A t \in Threads : pipe[t] = NoPipe
      <4> SUFFICES ASSUME NEW t \in Threads PROVE pipe[t] = NoPipe
        OBVIOUS
      <4>1. pipe[t] \in Pipes
        BY <2>1 DEF TypeOK
      <4>2. pipe[t] = [live |-> pipe[t].live, q |-> pipe[t].q, bytes |-> pipe[t].bytes,
                       rc |-> pipe[t].rc, lock |-> pipe[t].lock]
        BY <4>1 DEF Pipes
      <4> QED BY <3>2, <4>2 DEF NoPipe
    <3>4. \A t \in Threads : Carried(pipe[t].q) = 0 /\ InHand(t) = 0
      BY <3>1, <3>2, CarriedEmpty DEF InHand
    <3>5. sab = 0
      BY <2>1, <3>1, <3>4 DEF BufferCounted, SabsIn, SabsOf
    <3> QED BY <3>3, <3>5
  <2>4. NothingLeft
    BY <2>3 DEF NothingLeft
  <2> QED BY <2>1, <2>2, <2>4 DEF SharedUntilReleased
<1> QED BY <1>1, WorkerInvariant, PTL
=============================================================================
