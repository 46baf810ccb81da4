--------------------------- MODULE JSAtomicsProofs ---------------------------
(***************************************************************************)
(* Proofs about JSAtomics, for any number of threads and cells.            *)
(***************************************************************************)
EXTENDS JSAtomics, FiniteSetTheorems, TLAPS

\* Initially nobody waits.
LEMMA AtomicsInitially == ASSUME AtomicsAssumption PROVE Init => AtomicsInv /\ LateInv
BY DEF AtomicsAssumption, Init, AtomicsInv, TypeOK, WaitersOnStack, OrderInv, PlaceInv, CauseInv,
       AnswersAgree, LateInv

\* The call of Atomics.wait.
LEMMA WaitStep ==
    ASSUME AtomicsInv, NEW t \in Threads, NEW c \in Cells, NEW v \in {0, 1}, Wait(t, c, v)
    PROVE  AtomicsInv'
<1> USE DEF Wait, Go, AtomicsInv
<1>1. TypeOK'
  BY DEF TypeOK
<1>2. WaitersOnStack'
  BY DEF TypeOK, WaitersOnStack
<1>3. OrderInv'
  BY DEF TypeOK, OrderInv
<1>4. PlaceInv'
  BY DEF TypeOK, PlaceInv
<1>5. CauseInv' /\ AnswersAgree'
  BY DEF TypeOK, CauseInv, AnswersAgree
<1> QED BY <1>1, <1>2, <1>3, <1>4, <1>5

\* The comparison.
LEMMA CompareStep ==
    ASSUME AtomicsAssumption, AtomicsInv, NEW t \in Threads, Compare(t)
    PROVE  AtomicsInv'
<1> USE DEF Compare, Go, Return, rest, AtomicsInv
<1>1. TypeOK'
  BY DEF TypeOK
<1>2. WaitersOnStack'
  BY DEF TypeOK, WaitersOnStack
<1>3. OrderInv'
  BY DEF TypeOK, OrderInv
<1>4. PlaceInv'
  BY DEF AtomicsAssumption, TypeOK, PlaceInv
<1>5. CauseInv' /\ AnswersAgree'
  BY DEF TypeOK, CauseInv, AnswersAgree
<1> QED BY <1>1, <1>2, <1>3, <1>4, <1>5

\* The entry in the list: behind all the others.
LEMMA SleepStep ==
    ASSUME AtomicsAssumption, AtomicsInv, NEW t \in Threads, Sleep(t)
    PROVE  AtomicsInv'
<1> USE DEF Sleep, Go, Link, rest, AtomicsInv
<1>0. t \notin list
  BY DEF WaitersOnStack
<1>1. TypeOK'
  BY DEF TypeOK
<1>2. WaitersOnStack'
  BY DEF TypeOK, WaitersOnStack
<1>3. OrderInv'
  BY <1>0 DEF TypeOK, OrderInv
<1>4. PlaceInv'
  BY DEF AtomicsAssumption, TypeOK, PlaceInv
<1>5. CauseInv' /\ AnswersAgree'
  BY DEF TypeOK, CauseInv, AnswersAgree
<1> QED BY <1>1, <1>2, <1>3, <1>4, <1>5

\* The two ways out of pthread_cond_wait.
LEMMA WakeStep ==
    ASSUME AtomicsInv, NEW t \in Threads, Woken(t) \/ Timeout(t)
    PROVE  AtomicsInv'
<1> USE DEF Woken, Timeout, Go, rest, AtomicsInv
<1>0. expired' \in [Threads -> BOOLEAN] /\ spurious' \in [Threads -> BOOLEAN]
  <2>1. expired \in [Threads -> BOOLEAN] /\ spurious \in [Threads -> BOOLEAN]
    BY DEF TypeOK
  <2> QED BY <2>1, Zenon
<1>1. TypeOK'
  BY <1>0 DEF TypeOK
<1>2. WaitersOnStack'
  BY DEF TypeOK, WaitersOnStack
<1>3. OrderInv'
  BY DEF TypeOK, OrderInv
<1>4. PlaceInv'
  BY DEF TypeOK, PlaceInv
<1>5. CauseInv' /\ AnswersAgree'
  BY DEF TypeOK, CauseInv, AnswersAgree
<1> QED BY <1>1, <1>2, <1>3, <1>4, <1>5

\* Whoever is taken off the list leaves the order of the others as it was.
LEMMA UnlinkKeepsOrder ==
    ASSUME TypeOK, OrderInv, NEW ws \in SUBSET Threads, Unlink(ws)
    PROVE  OrderInv'
<1>1. \A t \in Threads : \A u : u \in ahead'[t] <=> t \notin ws /\ u \in ahead[t] /\ u \notin ws
  BY DEF Unlink
<1>2. \A t : t \in list' <=> t \in list /\ t \notin ws
  BY DEF Unlink
<1>3. list \subseteq Threads /\ list' \subseteq Threads
  BY <1>2 DEF TypeOK
<1>4. \A t \in Threads : \A u : u \in ahead[t] => u \in list /\ u # t /\ t \in list
  BY DEF OrderInv
<1>5. \A t \in Threads : ahead'[t] \subseteq list' \ {t}
  BY <1>1, <1>2, <1>4
<1>6. \A t \in Threads \ list' : ahead'[t] = {}
  BY <1>1, <1>2, <1>4
<1>7. \A t \in list' : \A u \in ahead'[t] : ahead'[u] \subseteq ahead'[t]
  <2> SUFFICES ASSUME NEW t \in list', NEW u \in ahead'[t], NEW w \in ahead'[u]
               PROVE  w \in ahead'[t]
    OBVIOUS
  <2>1. t \in list /\ t \in Threads /\ t \notin ws /\ u \in ahead[t] /\ u \in Threads
    BY <1>1, <1>2, <1>3, <1>4
  <2>2. w \in ahead[u] /\ w \notin ws
    BY <1>1, <2>1
  <2>3. w \in ahead[t]
    BY <2>1, <2>2 DEF OrderInv
  <2> QED BY <1>1, <2>1, <2>2, <2>3
<1>8. \A t, u \in list' : t = u \/ t \in ahead'[u] \/ u \in ahead'[t]
  BY <1>1, <1>2, <1>3 DEF OrderInv
<1> QED BY <1>5, <1>6, <1>7, <1>8 DEF OrderInv

\* The way out of js_atomics_wait.
LEMMA RelockStep ==
    ASSUME AtomicsAssumption, AtomicsInv, NEW t \in Threads, Relock(t)
    PROVE  AtomicsInv'
<1> USE DEF Relock, Go, Return, AtomicsInv
<1>1. TypeOK'
  BY DEF TypeOK, Unlink
<1>2. WaitersOnStack'
  BY DEF TypeOK, WaitersOnStack, Unlink
<1>3. OrderInv'
  BY UnlinkKeepsOrder
<1>4. PlaceInv'
  BY DEF AtomicsAssumption, TypeOK, PlaceInv
<1>5. CauseInv' /\ AnswersAgree'
  BY DEF TypeOK, CauseInv, AnswersAgree
<1> QED BY <1>1, <1>2, <1>3, <1>4, <1>5

\* The store before a notify.
LEMMA StoreStep ==
    ASSUME AtomicsAssumption, AtomicsInv, NEW t \in Threads, NEW c \in Cells, NEW v \in {0, 1},
           NEW k \in Counts, Store(t, c, v, k)
    PROVE  AtomicsInv'
<1> USE DEF Store, Go, AtomicsInv
<1>1. TypeOK'
  BY DEF TypeOK, AtomicsAssumption
<1>2. WaitersOnStack'
  BY DEF TypeOK, WaitersOnStack
<1>3. OrderInv'
  BY DEF TypeOK, OrderInv
<1>4. PlaceInv'
  BY DEF TypeOK, PlaceInv
<1>5. CauseInv' /\ AnswersAgree'
  BY DEF TypeOK, CauseInv, AnswersAgree
<1> QED BY <1>1, <1>2, <1>3, <1>4, <1>5

\* Notify.
LEMMA NotifyStep ==
    ASSUME AtomicsAssumption, AtomicsInv, NEW t \in Threads, Notify(t)
    PROVE  AtomicsInv'
<1> DEFINE ws == Chosen(t)
<1>0. ws \subseteq list /\ ws \subseteq Threads
  BY DEF Chosen, Here, AtomicsInv, TypeOK
<1>1. /\ Return(t, "notify") /\ mutex = NoOne /\ Unlink(ws)
      /\ linked' = [w \in Threads |-> linked[w] /\ w \notin ws]
      /\ signalled' = [w \in Threads |-> signalled[w] \/ w \in ws]
      /\ counted' = [w \in Threads |-> counted[w] \/ w \in ws]
      /\ UNCHANGED <<mutex, expired, spurious, answer>>
  BY DEF Notify
<1> HIDE DEF ws
<1> USE DEF Go, Return, AtomicsInv
<1>2. TypeOK'
  BY <1>0, <1>1 DEF TypeOK, Unlink
<1>3. WaitersOnStack'
  BY <1>0, <1>1 DEF TypeOK, WaitersOnStack, Unlink
<1>4. OrderInv'
  BY <1>0, <1>1, UnlinkKeepsOrder
<1>5. PlaceInv'
  BY <1>0, <1>1 DEF AtomicsAssumption, TypeOK, PlaceInv
<1>6. \A w \in ws : linked[w] /\ pc[w] \in {"sleep", "relock"} /\ w # t
  BY <1>0, <1>1 DEF WaitersOnStack
<1>7. CauseInv' /\ AnswersAgree'
  BY <1>0, <1>1, <1>6 DEF TypeOK, CauseInv, AnswersAgree
<1> QED BY <1>2, <1>3, <1>4, <1>5, <1>7

\* All steps together.
LEMMA AtomicsStep ==
    ASSUME AtomicsAssumption
    PROVE  AtomicsInv /\ [Next]_vars => AtomicsInv'
<1> SUFFICES ASSUME AtomicsInv, [Next]_vars PROVE AtomicsInv'
  OBVIOUS
<1>1. ASSUME NEW t \in Threads, Call(t) PROVE AtomicsInv'
  BY <1>1, WaitStep, StoreStep DEF Call
<1>2. ASSUME NEW t \in Threads, Step(t) \/ Timeout(t) PROVE AtomicsInv'
  BY <1>2, CompareStep, SleepStep, WakeStep, RelockStep, NotifyStep DEF Step
<1>3. CASE UNCHANGED vars
  BY <1>3 DEF vars, AtomicsInv, TypeOK, WaitersOnStack, OrderInv, PlaceInv, CauseInv, AnswersAgree
<1> QED BY <1>1, <1>2, <1>3 DEF Next

\* It is an invariant.
LEMMA AtomicsInvariant == ASSUME AtomicsAssumption PROVE Spec => []AtomicsInv
<1>1. Init => AtomicsInv
  BY AtomicsInitially
<1>2. AtomicsInv /\ [Next]_vars => AtomicsInv'
  BY AtomicsStep
<1> QED BY <1>1, <1>2, PTL DEF Spec

\* A notify counts those it has chosen, nobody else counts anyone.
LEMMA WhoCounts ==
    ASSUME AtomicsInv, [Next]_vars, NEW w \in Threads, ~counted[w], counted'[w]
    PROVE  \E t \in Threads : Notify(t) /\ w \in Chosen(t)
<1>1. ASSUME NEW t \in Threads, Notify(t) PROVE w \in Chosen(t)
  BY <1>1 DEF Notify
<1>2. ASSUME NEW t \in Threads, NEW c \in Cells, NEW v \in {0, 1}, Wait(t, c, v) PROVE FALSE
  BY <1>2 DEF Wait, AtomicsInv, TypeOK
<1>3. ASSUME NEW t \in Threads, NEW c \in Cells, NEW v \in {0, 1}, NEW k \in Counts, Store(t, c, v, k)
      PROVE  FALSE
  BY <1>3 DEF Store
<1>4. ASSUME NEW t \in Threads, Compare(t) \/ Sleep(t) \/ Woken(t) \/ Relock(t) \/ Timeout(t)
      PROVE  FALSE
  BY <1>4 DEF Compare, Sleep, Woken, Relock, Timeout
<1>5. CASE UNCHANGED vars
  BY <1>5 DEF vars
<1> QED BY <1>1, <1>2, <1>3, <1>4, <1>5 DEF Next, Call, Step

\* Of two waiters on a cell, a notify that chooses one has chosen those ahead
\* of it.
LEMMA ChosenAreFirst ==
    ASSUME AtomicsAssumption, AtomicsInv, NEW t \in Threads, NEW w \in Chosen(t),
           NEW u \in Here(t), u \in ahead[w]
    PROVE  u \in Chosen(t)
<1> DEFINE W == ahead[w] \cap Here(t)
<1> DEFINE U == ahead[u] \cap Here(t)
<1>1. w \in Here(t) /\ Cardinality(W) < count[t]
  BY DEF Chosen
<1>2. w \in list /\ Here(t) \subseteq Threads /\ count[t] \in Nat
  BY <1>1 DEF Here, AtomicsInv, TypeOK
<1>3. ahead[u] \subseteq ahead[w]
  BY <1>2 DEF AtomicsInv, OrderInv
<1>4. IsFiniteSet(W)
  <2>1. W \in SUBSET Threads
    BY <1>2
  <2> QED BY <2>1, FS_Subset DEF AtomicsAssumption
<1>5. U \in SUBSET W
  BY <1>3
<1>6. IsFiniteSet(U) /\ Cardinality(U) <= Cardinality(W)
  BY <1>4, <1>5, FS_Subset
<1>7. Cardinality(U) \in Nat /\ Cardinality(W) \in Nat
  BY <1>4, <1>6, FS_CardinalityType
<1>8. Cardinality(U) < count[t]
  <2> HIDE DEF U, W
  <2> QED BY <1>1, <1>2, <1>6, <1>7
<1> QED BY <1>8 DEF Chosen

\* A notify that is for all chooses all.
LEMMA AllAreChosen ==
    ASSUME AtomicsAssumption, AtomicsInv, NotifiesAll, NEW t \in Threads, pc[t] = "notify"
    PROVE  Chosen(t) = Here(t)
<1> SUFFICES ASSUME NEW w \in Here(t) PROVE Cardinality(ahead[w] \cap Here(t)) < count[t]
  BY DEF Chosen
<1> DEFINE W == ahead[w] \cap Here(t)
<1>1. w \in Threads /\ count[t] \in Nat /\ Cardinality(Threads) <= count[t]
  BY DEF Here, AtomicsInv, TypeOK, PlaceInv, NotifiesAll
<1>2. W \in SUBSET (Threads \ {w})
  BY <1>1 DEF AtomicsInv, TypeOK, OrderInv
<1>3. IsFiniteSet(Threads) /\ Cardinality(Threads) \in Nat
  BY FS_CardinalityType DEF AtomicsAssumption
<1>4. IsFiniteSet(Threads \ {w}) /\ Cardinality(Threads \ {w}) = Cardinality(Threads) - 1
  BY <1>1, <1>3, FS_RemoveElement
<1>5. IsFiniteSet(W) /\ Cardinality(W) <= Cardinality(Threads \ {w})
  BY <1>2, <1>4, FS_Subset
<1>6. Cardinality(W) \in Nat
  BY <1>5, FS_CardinalityType
<1> HIDE DEF W
<1>7. Cardinality(W) < count[t]
  BY <1>1, <1>3, <1>4, <1>5, <1>6
<1> QED BY <1>7 DEF W

\* A step that keeps late waiters from sleeping.
LEMMA LateStep ==
    ASSUME AtomicsAssumption, NotifiesAll
    PROVE  AtomicsInv /\ LateInv /\ [Next]_vars => LateInv'
<1> SUFFICES ASSUME AtomicsInv, LateInv, [Next]_vars, NEW t \in Threads,
                    pc'[t] \in {"link", "sleep"}, mem'[ptr'[t]] # value'[t], ~signalled'[t]
             PROVE  \E u \in Threads : pc'[u] = "notify" /\ ptr'[u] = ptr'[t]
  BY DEF LateInv
<1> USE DEF AtomicsInv, TypeOK, Go
<1>1. ASSUME NEW x \in Threads, NEW c \in Cells, NEW v \in {0, 1}, Wait(x, c, v)
      PROVE  \E u \in Threads : pc'[u] = "notify" /\ ptr'[u] = ptr'[t]
  BY <1>1 DEF Wait, LateInv
<1>2. ASSUME NEW x \in Threads, NEW c \in Cells, NEW v \in {0, 1}, NEW k \in Counts,
             Store(x, c, v, k)
      PROVE  \E u \in Threads : pc'[u] = "notify" /\ ptr'[u] = ptr'[t]
  <2>1. t # x /\ pc[t] = pc'[t] /\ ptr'[t] = ptr[t] /\ value'[t] = value[t] /\ ~signalled[t]
    BY <1>2 DEF Store
  <2>2. CASE ptr[t] = c
    BY <1>2, <2>1, <2>2 DEF Store
  <2>3. CASE ptr[t] # c
    <3>1. mem[ptr[t]] # value[t]
      BY <1>2, <2>1, <2>3 DEF Store, PlaceInv
    <3>2. PICK u \in Threads : pc[u] = "notify" /\ ptr[u] = ptr[t]
      BY <2>1, <3>1 DEF LateInv
    <3> QED BY <1>2, <2>1, <3>2 DEF Store
  <2> QED BY <2>2, <2>3
<1>3. ASSUME NEW x \in Threads, Compare(x)
      PROVE  \E u \in Threads : pc'[u] = "notify" /\ ptr'[u] = ptr'[t]
  BY <1>3 DEF Compare, Return, rest, LateInv
<1>4. ASSUME NEW x \in Threads, Sleep(x)
      PROVE  \E u \in Threads : pc'[u] = "notify" /\ ptr'[u] = ptr'[t]
  BY <1>4 DEF Sleep, rest, LateInv, CauseInv
<1>5. ASSUME NEW x \in Threads, Woken(x) \/ Timeout(x)
      PROVE  \E u \in Threads : pc'[u] = "notify" /\ ptr'[u] = ptr'[t]
  BY <1>5 DEF Woken, Timeout, rest, LateInv
<1>6. ASSUME NEW x \in Threads, Relock(x)
      PROVE  \E u \in Threads : pc'[u] = "notify" /\ ptr'[u] = ptr'[t]
  BY <1>6 DEF Relock, Return, LateInv
<1>7. ASSUME NEW x \in Threads, Notify(x)
      PROVE  \E u \in Threads : pc'[u] = "notify" /\ ptr'[u] = ptr'[t]
  <2>1. /\ t # x /\ pc'[t] = pc[t] /\ ptr'[t] = ptr[t] /\ value'[t] = value[t] /\ mem' = mem
        /\ ~signalled[t] /\ t \notin Chosen(x) /\ pc[x] = "notify" /\ mutex = NoOne
    BY <1>7 DEF Notify, Return
  <2>2. pc[t] = "sleep" /\ t \in list
    BY <2>1 DEF AtomicsAssumption, PlaceInv, CauseInv, WaitersOnStack
  <2>3. ptr[t] # ptr[x]
    BY <2>1, <2>2, AllAreChosen DEF Here
  <2>4. PICK u \in Threads : pc[u] = "notify" /\ ptr[u] = ptr[t]
    BY <2>1, <2>2 DEF LateInv
  <2>5. u # x
    BY <2>3, <2>4
  <2> QED BY <1>7, <2>1, <2>4, <2>5 DEF Notify, Return
<1>8. CASE UNCHANGED vars
  BY <1>8 DEF vars, LateInv
<1> QED BY <1>1, <1>2, <1>3, <1>4, <1>5, <1>6, <1>7, <1>8 DEF Next, Call, Step

\* For any number of threads and cells: a waiter is in the list only while
\* js_atomics_wait runs, a waiter that answers "ok" was counted by a notify or
\* woke by itself, and js_atomics_notify wakes those who waited longest.
THEOREM NotifyIsAnswered ==
    ASSUME AtomicsAssumption
    PROVE  Spec => WaitersAnswerNotify
<1>1. AtomicsInv => TypeOK /\ WaitersOnStack /\ AnswersAgree
  BY DEF AtomicsInv
<1> DEFINE FairStep ==
      \A t, u \in Threads :
        (linked[t] /\ ~counted[t] /\ counted'[t] /\ linked[u] /\ ptr[u] = ptr[t] /\ ~counted'[u])
            => t \in ahead[u]
<1>2. AtomicsInv /\ [Next]_vars => [FairStep]_vars
  <2> SUFFICES ASSUME AtomicsInv, [Next]_vars, NEW t \in Threads, NEW u \in Threads,
                      linked[t], ~counted[t], counted'[t], linked[u], ptr[u] = ptr[t], ~counted'[u]
               PROVE  t \in ahead[u]
    OBVIOUS
  <2>1. PICK x \in Threads : Notify(x) /\ t \in Chosen(x)
    BY WhoCounts
  <2>2. t \in list /\ u \in list /\ t # u
    BY DEF AtomicsInv, WaitersOnStack
  <2>3. u \in Here(x) /\ u \notin Chosen(x)
    BY <2>1, <2>2 DEF Notify, Chosen, Here
  <2>4. u \notin ahead[t]
    BY <2>1, <2>3, ChosenAreFirst
  <2> QED BY <2>2, <2>4 DEF AtomicsInv, OrderInv
<1>3. Spec => []AtomicsInv
  BY AtomicsInvariant
<1>4. Spec => [](TypeOK /\ WaitersOnStack /\ AnswersAgree)
  BY <1>1, <1>3, PTL
<1>5. Spec => [][FairStep]_vars
  <2> HIDE DEF FairStep
  <2> QED BY <1>2, <1>3, PTL DEF Spec
<1> QED BY <1>4, <1>5 DEF WaitersAnswerNotify, Fair

\* Where every notify is for all, no interleaving of a store and its notify
\* with the comparison, the entry in the list, a timeout or another notify
\* leaves a thread asleep on a value that is gone with no notify to come.
THEOREM NobodySleepsLate ==
    ASSUME AtomicsAssumption, NotifiesAll
    PROVE  Spec => []NeverSleepsLate
<1>1. LateInv => NeverSleepsLate
  BY DEF LateInv, NeverSleepsLate, SleepsOnGone
<1>2. Init => LateInv
  BY AtomicsInitially
<1>3. AtomicsInv /\ LateInv /\ [Next]_vars => LateInv'
  BY LateStep
<1>4. Spec => []AtomicsInv
  BY AtomicsInvariant
<1> QED BY <1>1, <1>2, <1>3, <1>4, PTL DEF Spec
==============================================================================
