-------------------------- MODULE WriterGateProofs --------------------------
(***************************************************************************)
(* For every set of tasks: the writer gate is a mutual exclusion lock, no  *)
(* wake-up of its front waiter is ever lost, and every step of it is a     *)
(* step of FairLock, so it hands the lock out in the order of the          *)
(* requests.                                                               *)
(***************************************************************************)
EXTENDS WriterGate, TLAPS

\* The gate is locked exactly while a task holds its guard.
LockedIffHeld == locked <=> \E t \in Task : stage[t] = "holding"

IInv == TypeOK /\ LockedIffHeld /\ MutualExclusion /\ NoLostWakeup

\* No task is in the queue q twice.
OneEach(q) == \A i, j \in 1..Len(q) : q[i] = q[j] => i = j

\* w is the queue q without its k-th waiter, the task t.
Removed(w, q, k, t) ==
  /\ w \in Seq(Task)
  /\ Len(w) = Len(q) - 1
  /\ \A j \in 1..(Len(q) - 1) : w[j] = q[IF j < k THEN j ELSE j + 1]
  /\ \A u \in Task : (\E j \in 1..(Len(q) - 1) : w[j] = u)
                     <=> u # t /\ \E i \in 1..Len(q) : q[i] = u
  /\ \A i, j \in 1..(Len(q) - 1) : w[i] = w[j] => i = j

(* Removing the waiter of a queued task keeps the other waiters, in order. *)
LEMMA WithoutProperties ==
  ASSUME NEW q \in Seq(Task), NEW t \in Task, OneEach(q),
         NEW k \in 1..Len(q), q[k] = t
  PROVE  /\ Without(q, t) = [j \in 1..(Len(q) - 1) |-> q[IF j < k THEN j ELSE j + 1]]
         /\ Removed(Without(q, t), q, k, t)
<1> USE DEF OneEach
<1> DEFINE w == [j \in 1..(Len(q) - 1) |-> q[IF j < k THEN j ELSE j + 1]]
<1>1. (CHOOSE i \in 1..Len(q) : q[i] = t) = k
  OBVIOUS
<1>2. Without(q, t) = w
  BY <1>1 DEF Without
<1>3. Len(q) \in Nat /\ Len(q) - 1 \in Nat /\ k \in Nat
  OBVIOUS
<1>4. w \in Seq(Task) /\ Len(w) = Len(q) - 1
  <2>1. \A j \in 1..(Len(q) - 1) : (IF j < k THEN j ELSE j + 1) \in 1..Len(q)
    BY <1>3
  <2>2. w \in [1..(Len(q) - 1) -> Task]
    BY <1>3, <2>1
  <2> QED BY <1>3, <2>2
<1>5. \A j \in 1..(Len(q) - 1) : w[j] = q[IF j < k THEN j ELSE j + 1]
  OBVIOUS
<1> HIDE DEF w
<1>6. ASSUME NEW u \in Task
      PROVE (\E j \in 1..(Len(q) - 1) : w[j] = u)
            <=> u # t /\ \E i \in 1..Len(q) : q[i] = u
  <2>1. ASSUME NEW j \in 1..(Len(q) - 1), w[j] = u
        PROVE u # t /\ \E i \in 1..Len(q) : q[i] = u
    <3>1. PICK i \in 1..Len(q) : i # k /\ q[i] = u
      BY <1>3, <1>5, <2>1
    <3> QED BY <3>1
  <2>2. ASSUME u # t, NEW i \in 1..Len(q), q[i] = u
        PROVE \E j \in 1..(Len(q) - 1) : w[j] = u
    <3>1. CASE i < k
      BY <1>3, <1>5, <2>2, <3>1
    <3>2. CASE i > k
      <4>1. i - 1 \in 1..(Len(q) - 1) /\ ~(i - 1 < k) /\ (i - 1) + 1 = i
        BY <1>3, <3>2
      <4> QED BY <1>5, <2>2, <4>1
    <3> QED BY <1>3, <2>2, <3>1, <3>2
  <2> QED BY <2>1, <2>2
<1>7. ASSUME NEW i \in 1..(Len(q) - 1), NEW j \in 1..(Len(q) - 1), w[i] = w[j]
      PROVE i = j
  <2>1. (IF i < k THEN i ELSE i + 1) = (IF j < k THEN j ELSE j + 1)
    BY <1>3, <1>5, <1>7
  <2> QED BY <2>1, <1>3
<1> QED
  BY <1>2, <1>4, <1>5, <1>6, <1>7 DEF w, Removed

(* The facts about the queue that every step below uses. *)
LEMMA QueueFacts ==
  ASSUME NEW q \in Seq(Task)
  PROVE  /\ Len(q) \in Nat
         /\ q = <<>> <=> Len(q) = 0
         /\ \A i \in 1..Len(q) : q[i] \in Task
         /\ q # <<>> => /\ Head(q) = q[1]
                       /\ Tail(q) \in Seq(Task)
                       /\ Len(Tail(q)) = Len(q) - 1
                       /\ \A i \in 1..(Len(q) - 1) : Tail(q)[i] = q[i + 1]
         /\ \A t \in Task : /\ Append(q, t) \in Seq(Task)
                             /\ Len(Append(q, t)) = Len(q) + 1
                             /\ Append(q, t)[Len(q) + 1] = t
                             /\ \A i \in 1..Len(q) : Append(q, t)[i] = q[i]
OBVIOUS

LEMMA InitInv == Init => IInv
<1> SUFFICES ASSUME Init PROVE IInv
  OBVIOUS
<1> USE NoneNotTask DEF Init
<1>1. TypeOK
  <2>1. Fields
    <3>1. waiters \in Seq(Task)
      OBVIOUS
    <3>2. woken \in SUBSET Task /\ locked \in BOOLEAN
      OBVIOUS
    <3>3. stage \in [Task -> Stage]
      BY DEF Stage
    <3>4. target \in [Task -> Task \cup {None}]
      OBVIOUS
    <3>5. \A t \in Task : target[t] # None <=> stage[t] = "waking"
      OBVIOUS
    <3> QED BY <3>1, <3>2, <3>3, <3>4, <3>5 DEF Fields
  <2>2. Len(waiters) = 0
    OBVIOUS
  <2>3. OneWaiterEach
    BY <2>2 DEF OneWaiterEach
  <2> QED BY <2>1, <2>3 DEF TypeOK
<1>2. LockedIffHeld /\ MutualExclusion /\ NoLostWakeup
  BY DEF LockedIffHeld, MutualExclusion, NoLostWakeup
<1> QED BY <1>1, <1>2 DEF IInv

LEMMA PollAcquiresInv ==
  ASSUME IInv, NEW t \in Task, PollAcquires(t)
  PROVE  IInv'
<1> USE DEF IInv, PollAcquires, TypeOK
<1>1. TypeOK'
  BY DEF Fields, OneWaiterEach, Stage
<1>2. LockedIffHeld' /\ MutualExclusion' /\ NoLostWakeup'
  BY DEF TypeOK, Fields, LockedIffHeld, MutualExclusion, NoLostWakeup
<1> QED BY <1>1, <1>2

LEMMA PollQueuesInv ==
  ASSUME IInv, NEW t \in Task, PollQueues(t)
  PROVE  IInv'
<1> USE QueueFacts DEF IInv, PollQueues, TypeOK, Fields
<1>1. Fields'
  BY DEF Stage
<1>4. OneWaiterEach'
  <2> DEFINE n == Len(waiters)
  <2>1. /\ n \in Nat /\ Len(waiters') = n + 1 /\ waiters'[n + 1] = t
        /\ \A i \in 1..n : waiters'[i] = waiters[i]
    OBVIOUS
  <2>4. \A i \in 1..n : waiters[i] # t
    BY DEF OneWaiterEach
  <2> HIDE DEF n
  <2>2. \A u \in Task : (\E i \in 1..(n + 1) : waiters'[i] = u)
                         <=> u = t \/ \E i \in 1..n : waiters[i] = u
    BY <2>1
  <2>5. \A u \in Task : stage'[u] = "queued" <=> u = t \/ stage[u] = "queued"
    OBVIOUS
  <2>3. \A i, j \in 1..(n + 1) : waiters'[i] = waiters'[j] => i = j
    BY <2>1, <2>4 DEF OneWaiterEach, n
  <2> QED BY <2>1, <2>2, <2>3, <2>5 DEF OneWaiterEach, n
<1>2. LockedIffHeld' /\ MutualExclusion'
  BY DEF TypeOK, Fields, LockedIffHeld, MutualExclusion
<1>3. NoLostWakeup'
  <2> SUFFICES ASSUME ~locked PROVE NoLostWakeup'
    BY DEF NoLostWakeup
  <2>1. waiters # <<>> /\ Head(waiters') = Head(waiters)
    BY DEF TypeOK, Fields
  <2> QED BY <2>1 DEF NoLostWakeup
<1> QED BY <1>1, <1>2, <1>3, <1>4

LEMMA PollAgainInv ==
  ASSUME IInv, NEW t \in Task, PollAgain(t)
  PROVE  IInv'
<1> USE DEF IInv, PollAgain, IsFront
<1>1. CASE ~locked /\ IsFront(t)
  <2>5. /\ waiters # <<>> /\ waiters[1] = t
        /\ Tail(waiters) \in Seq(Task)
        /\ Len(Tail(waiters)) = Len(waiters) - 1
        /\ \A i \in 1..(Len(waiters) - 1) : Tail(waiters)[i] = waiters[i + 1]
        /\ Len(waiters) \in Nat \ {0}
    BY <1>1, QueueFacts DEF TypeOK, Fields
  <2>6. /\ waiters' = Tail(waiters) /\ locked' = TRUE
        /\ stage' = [stage EXCEPT ![t] = "holding"]
        /\ woken' = woken \ {t} /\ target' = target
    BY <1>1
  <2>7. stage \in [Task -> Stage] /\ stage[t] = "queued"
    BY DEF TypeOK, Fields
  <2>3. Fields'
    <3>1. /\ stage' \in [Task -> Stage] /\ locked' \in BOOLEAN
          /\ waiters' \in Seq(Task)
      BY <2>5, <2>6, <2>7 DEF Stage
    <3>2. /\ woken' \in SUBSET Task
          /\ target' \in [Task -> Task \cup {None}]
          /\ \A u \in Task : target'[u] # None <=> stage'[u] = "waking"
      BY <2>6, <2>7 DEF TypeOK, Fields
    <3> QED BY <3>1, <3>2 DEF Fields
  <2>4. OneWaiterEach'
    <3>9. PICK n \in Nat : Len(waiters) = n + 1
      <4>1. Len(waiters) - 1 \in Nat /\ Len(waiters) = (Len(waiters) - 1) + 1
        BY <2>5
      <4> QED BY <4>1
    <3>1. /\ n \in Nat /\ Len(waiters') = n /\ waiters[1] = t /\ Len(waiters) = n + 1
          /\ \A i \in 1..n : waiters'[i] = waiters[i + 1]
      <4>1. Len(waiters) - 1 = n
        BY <3>9
      <4> QED BY <2>5, <2>6, <3>9, <4>1
    <3>2. \A i \in 1..n : waiters'[i] # t
      BY <3>1 DEF TypeOK, OneWaiterEach
    <3>3. ASSUME NEW u \in Task, u # t, NEW i \in 1..(n + 1), waiters[i] = u
          PROVE \E j \in 1..n : waiters'[j] = u
      <4>1. i - 1 \in 1..n /\ waiters'[i - 1] = u
        BY <3>1, <3>3
      <4> QED BY <4>1
    <3>4. \A u \in Task : stage'[u] = "queued" <=> u # t /\ stage[u] = "queued"
      BY <2>6, <2>7
    <3>7. \A u \in Task : stage[u] = "queued" <=> \E i \in 1..(n + 1) : waiters[i] = u
      BY <3>1 DEF TypeOK, OneWaiterEach
    <3>8. \A i \in 1..n : i + 1 \in 1..(n + 1) /\ waiters'[i] = waiters[i + 1]
      BY <3>1
    <3>5. \A u \in Task : stage'[u] = "queued" <=> \E i \in 1..n : waiters'[i] = u
      BY <3>2, <3>3, <3>4, <3>7, <3>8
    <3>6. \A i, j \in 1..n : waiters'[i] = waiters'[j] => i = j
      BY <3>1 DEF TypeOK, OneWaiterEach
    <3> QED BY <3>1, <3>5, <3>6 DEF OneWaiterEach
  <2>1. TypeOK'
    BY <2>3, <2>4 DEF TypeOK, Fields
  <2>2. LockedIffHeld' /\ MutualExclusion' /\ NoLostWakeup'
    BY <1>1 DEF TypeOK, Fields, LockedIffHeld, MutualExclusion, NoLostWakeup
  <2> QED BY <2>1, <2>2
<1>2. CASE ~(~locked /\ IsFront(t))
  <2>1. TypeOK'
    BY <1>2 DEF TypeOK, Fields, OneWaiterEach, Stage
  <2>2. LockedIffHeld' /\ MutualExclusion'
    BY <1>2 DEF TypeOK, Fields, LockedIffHeld, MutualExclusion
  <2>3. NoLostWakeup'
    BY <1>2 DEF TypeOK, Fields, NoLostWakeup
  <2> QED BY <2>1, <2>2, <2>3
<1> QED BY <1>1, <1>2

LEMMA CancelInv ==
  ASSUME IInv, NEW t \in Task, Cancel(t)
  PROVE  IInv'
<1> USE NoneNotTask DEF IInv, Cancel, HandOff, Front
<1>1. PICK k \in 1..Len(waiters) : waiters[k] = t
  BY DEF TypeOK, OneWaiterEach
<1>6. waiters \in Seq(Task) /\ waiters' = Without(waiters, t)
  BY DEF TypeOK, Fields
<1>7. OneEach(waiters)
  BY DEF TypeOK, OneWaiterEach, OneEach
<1>2. /\ waiters' \in Seq(Task)
      /\ Len(waiters') = Len(waiters) - 1
      /\ \A j \in 1..(Len(waiters) - 1) :
           waiters'[j] = waiters[IF j < k THEN j ELSE j + 1]
      /\ \A u \in Task : (\E j \in 1..(Len(waiters) - 1) : waiters'[j] = u)
                         <=> u # t /\ \E i \in 1..Len(waiters) : waiters[i] = u
      /\ \A i, j \in 1..(Len(waiters) - 1) : waiters'[i] = waiters'[j] => i = j
  <2>1. Removed(Without(waiters, t), waiters, k, t)
    BY <1>1, <1>6, <1>7, WithoutProperties
  <2> QED BY <1>6, <2>1 DEF Removed
<1>3. TypeOK'
  <2>1. Fields'
    <3> DEFINE next == IF ~locked /\ IsFront(t) THEN Front(waiters') ELSE None
    <3>1. next \in Task \cup {None}
      BY <1>2
    <3> HIDE DEF next
    <3>2. /\ target' = [target EXCEPT ![t] = next]
          /\ stage' = [stage EXCEPT ![t] = IF next = None THEN "outside" ELSE "waking"]
      BY DEF next
    <3> QED BY <1>2, <3>1, <3>2 DEF TypeOK, Fields, Stage
  <2>2. \A u \in Task : stage'[u] = "queued" <=> u # t /\ stage[u] = "queued"
    BY DEF TypeOK, Fields
  <2>3. OneWaiterEach'
    BY <1>2, <2>2 DEF TypeOK, OneWaiterEach
  <2> QED BY <2>1, <2>3 DEF TypeOK, Fields
<1>4. LockedIffHeld' /\ MutualExclusion'
  BY DEF TypeOK, Fields, LockedIffHeld, MutualExclusion
<1>5. NoLostWakeup'
  <2> SUFFICES ASSUME ~locked, waiters' # <<>>
               PROVE  \/ Head(waiters') \in woken'
                      \/ \E u \in Task : target'[u] = Head(waiters')
    BY DEF NoLostWakeup
  <2>1. CASE IsFront(t)
    BY <2>1 DEF TypeOK, Fields
  <2>2. CASE ~IsFront(t)
    <3>1. k # 1 /\ waiters # <<>>
      BY <1>1, <2>2 DEF IsFront, TypeOK, Fields
    <3>2. waiters'[1] = waiters[1]
      BY <1>2, <3>1 DEF TypeOK, Fields
    <3>3. Head(waiters') = Head(waiters) /\ Head(waiters) # t
      BY <1>1, <1>2, <3>1, <3>2 DEF TypeOK, Fields
    <3>4. target[t] = None
      BY DEF TypeOK, Fields
    <3>5. Head(waiters) \in Task
      BY <3>1 DEF TypeOK, Fields
    <3> QED BY <3>1, <3>3, <3>4, <3>5 DEF NoLostWakeup, TypeOK, Fields
  <2> QED BY <2>1, <2>2
<1> QED BY <1>3, <1>4, <1>5

LEMMA ReleaseInv ==
  ASSUME IInv, NEW t \in Task, Release(t)
  PROVE  IInv'
<1> USE QueueFacts, NoneNotTask DEF IInv, Release, HandOff, Front
<1>1. TypeOK'
  <2>1. Front(waiters) \in Task \cup {None}
    BY DEF TypeOK, Fields
  <2>2. Fields'
    <3> DEFINE next == Front(waiters)
    <3>1. /\ target' = [target EXCEPT ![t] = next]
          /\ stage' = [stage EXCEPT ![t] = IF next = None THEN "outside" ELSE "waking"]
          /\ next \in Task \cup {None}
      BY <2>1
    <3> HIDE DEF next
    <3>2. locked' \in BOOLEAN /\ waiters' \in Seq(Task) /\ woken' \in SUBSET Task
      BY DEF TypeOK, Fields
    <3>3. stage' \in [Task -> Stage] /\ target' \in [Task -> Task \cup {None}]
      BY <3>1 DEF TypeOK, Fields, Stage
    <3>4. \A u \in Task : target'[u] # None <=> stage'[u] = "waking"
      BY <3>1 DEF TypeOK, Fields, Stage
    <3> QED BY <3>2, <3>3, <3>4 DEF Fields
  <2>3. \A u \in Task : stage'[u] = "queued" <=> stage[u] = "queued"
    BY DEF TypeOK, Fields
  <2>4. OneWaiterEach'
    BY <2>3 DEF TypeOK, OneWaiterEach
  <2> QED BY <2>2, <2>4 DEF TypeOK
<1>2. LockedIffHeld' /\ MutualExclusion'
  BY DEF TypeOK, Fields, LockedIffHeld, MutualExclusion
<1>3. NoLostWakeup'
  BY DEF TypeOK, Fields, NoLostWakeup
<1> QED BY <1>1, <1>2, <1>3

LEMMA WakeInv ==
  ASSUME IInv, NEW t \in Task, Wake(t)
  PROVE  IInv'
<1> USE QueueFacts, NoneNotTask DEF IInv, Wake
<1>1. TypeOK'
  <2>1. Fields'
    BY DEF TypeOK, Fields, Stage
  <2>2. \A u \in Task : stage'[u] = "queued" <=> stage[u] = "queued"
    BY DEF TypeOK, Fields
  <2>3. OneWaiterEach'
    BY <2>2 DEF TypeOK, OneWaiterEach
  <2> QED BY <2>1, <2>3 DEF TypeOK
<1>2. LockedIffHeld' /\ MutualExclusion'
  BY DEF TypeOK, Fields, LockedIffHeld, MutualExclusion
<1>3. NoLostWakeup'
  <2> SUFFICES ASSUME ~locked, waiters # <<>>
               PROVE  \/ Head(waiters) \in woken'
                      \/ \E u \in Task : target'[u] = Head(waiters)
    BY DEF NoLostWakeup
  <2>1. Head(waiters) \in Task /\ stage[Head(waiters)] = "queued"
    BY DEF TypeOK, Fields, OneWaiterEach
  <2>2. CASE target[t] = Head(waiters)
    BY <2>1, <2>2 DEF TypeOK, Fields
  <2>3. CASE target[t] # Head(waiters)
    BY <2>3 DEF NoLostWakeup, TypeOK, Fields
  <2> QED BY <2>2, <2>3
<1> QED BY <1>1, <1>2, <1>3

(* Every step of the gate keeps the invariant. *)
LEMMA StepInv == IInv /\ [Next]_vars => IInv'
<1> SUFFICES ASSUME IInv, [Next]_vars PROVE IInv'
  OBVIOUS
<1>1. CASE UNCHANGED vars
  BY <1>1 DEF vars, IInv, TypeOK, Fields, OneWaiterEach, LockedIffHeld, MutualExclusion, NoLostWakeup
<1>2. ASSUME NEW t \in Task,
             \/ PollAcquires(t) \/ PollQueues(t) \/ PollAgain(t)
             \/ Cancel(t) \/ Release(t) \/ Wake(t)
      PROVE  IInv'
  BY <1>2, PollAcquiresInv, PollQueuesInv, PollAgainInv, CancelInv,
     ReleaseInv, WakeInv
<1> QED BY <1>1, <1>2 DEF Next

(* The gate's state is well typed and its queue holds each waiting task    *)
(* once (WriterGateState, lib.rs:747-757).                                 *)
THEOREM TypeCorrect == Spec => []TypeOK
<1>1. IInv => TypeOK
  BY DEF IInv
<1> QED BY InitInv, StepInv, <1>1, PTL DEF Spec

(* Two tasks never hold the gate at once (WriterGateLock::poll and the     *)
(* guard's Drop, lib.rs:778-866).                                          *)
THEOREM MutexCorrect == Spec => []MutualExclusion
<1>1. IInv => MutualExclusion
  BY DEF IInv
<1> QED BY InitInv, StepInv, <1>1, PTL DEF Spec

(* A free gate with waiters always has its front waiter's wake under way:  *)
(* the two Drop implementations never lose it (lib.rs:824-866).            *)
THEOREM WakeupCorrect == Spec => []NoLostWakeup
<1>1. IInv => NoLostWakeup
  BY DEF IInv
<1> QED BY InitInv, StepInv, <1>1, PTL DEF Spec

-----------------------------------------------------------------------------
(* The refinement: what the abstract lock's holder is in each state. *)
LEMMA HolderIs ==
  ASSUME MutualExclusion, NEW t \in Task, stage[t] = "holding"
  PROVE  Holder = t
BY DEF MutualExclusion, Holder

LEMMA HolderNone ==
  ASSUME \A t \in Task : stage[t] # "holding"
  PROVE  Holder = None
BY DEF Holder

LEMMA HolderSame ==
  ASSUME \A t \in Task : stage'[t] = "holding" <=> stage[t] = "holding"
  PROVE  Holder' = Holder
BY DEF Holder

LEMMA NextHolderIs ==
  ASSUME MutualExclusion', NEW t \in Task, stage'[t] = "holding"
  PROVE  Holder' = t
BY DEF MutualExclusion, Holder

LEMMA NextHolderNone ==
  ASSUME \A t \in Task : stage'[t] # "holding"
  PROVE  Holder' = None
BY DEF Holder

LEMMA RefinementInit == Init => Lock!Init
BY HolderNone DEF Init, Lock!Init

LEMMA RefinementStep ==
  ASSUME IInv, IInv', [Next]_vars
  PROVE  [Lock!Next]_(Lock!vars)
<1> USE NoneNotTask DEF IInv
<1>1. CASE UNCHANGED vars
  BY <1>1, HolderSame DEF vars, Lock!vars
<1>2. ASSUME NEW t \in Task, PollAcquires(t)
      PROVE  Lock!TakeFree(t)
  <2>1. Holder = None
    BY <1>2, HolderNone DEF PollAcquires, LockedIffHeld
  <2>2. Holder' = t
    BY <1>2, NextHolderIs DEF PollAcquires, TypeOK, Fields
  <2> QED BY <1>2, <2>1, <2>2 DEF PollAcquires, Lock!TakeFree
<1>3. ASSUME NEW t \in Task, PollQueues(t)
      PROVE  Lock!Enqueue(t)
  <2>1. Holder' = Holder
    BY <1>3, HolderSame DEF PollQueues, TypeOK, Fields
  <2>2. Holder # t
    BY <1>3, HolderIs, HolderNone DEF PollQueues
  <2>3. t \notin Lock!Queued
    BY <1>3 DEF PollQueues, Lock!Queued, TypeOK, OneWaiterEach
  <2>4. Holder # None \/ waiters # <<>>
    BY <1>3, HolderIs DEF PollQueues, LockedIffHeld
  <2> QED BY <1>3, <2>1, <2>2, <2>3, <2>4 DEF PollQueues, Lock!Enqueue
<1>4. ASSUME NEW t \in Task, PollAgain(t)
      PROVE  Lock!Grant(t) \/ UNCHANGED Lock!vars
  <2>1. CASE ~locked /\ IsFront(t)
    <3>1. Holder = None
      BY <2>1, HolderNone DEF LockedIffHeld
    <3>2. /\ waiters # <<>> /\ Head(waiters) = t /\ waiters' = Tail(waiters)
          /\ stage' = [stage EXCEPT ![t] = "holding"]
      BY <1>4, <2>1 DEF PollAgain, IsFront
    <3>3. Holder' = t
      BY <3>2, NextHolderIs DEF TypeOK, Fields
    <3> QED BY <3>1, <3>2, <3>3 DEF Lock!Grant
  <2>2. CASE ~(~locked /\ IsFront(t))
    <3>1. UNCHANGED <<waiters, stage>>
      BY <1>4, <2>2 DEF PollAgain
    <3> QED BY <3>1, HolderSame DEF Lock!vars
  <2> QED BY <2>1, <2>2
<1>5. ASSUME NEW t \in Task, Cancel(t)
      PROVE  Lock!Withdraw(t)
  <2>1. PICK k \in 1..Len(waiters) : waiters[k] = t
    BY <1>5 DEF Cancel, TypeOK, OneWaiterEach
  <2>2. waiters \in Seq(Task) /\ OneEach(waiters) /\ waiters' = Without(waiters, t)
    BY <1>5 DEF Cancel, TypeOK, Fields, OneWaiterEach, OneEach
  <2>3. waiters' = [j \in 1..(Len(waiters) - 1) |-> waiters[IF j < k THEN j ELSE j + 1]]
    BY <2>1, <2>2, WithoutProperties
  <2>4. Holder' = Holder
    BY <1>5, HolderSame DEF Cancel, HandOff, TypeOK, Fields
  <2> QED BY <2>1, <2>3, <2>4 DEF Lock!Withdraw
<1>6. ASSUME NEW t \in Task, Release(t)
      PROVE  Lock!Release(t)
  <2>1. Holder = t
    BY <1>6, HolderIs DEF Release
  <2>2. \A u \in Task : stage'[u] # "holding"
    BY <1>6 DEF Release, LockedIffHeld
  <2>3. Holder' = None
    BY <2>2, NextHolderNone
  <2> QED BY <1>6, <2>1, <2>3 DEF Release, Lock!Release
<1>7. ASSUME NEW t \in Task, Wake(t)
      PROVE  UNCHANGED Lock!vars
  BY <1>7, HolderSame DEF Wake, Lock!vars, TypeOK, Fields
<1> QED BY <1>1, <1>2, <1>3, <1>4, <1>5, <1>6, <1>7 DEF Next, Lock!Next

(* Every behaviour of the gate, with cancellations and wakes in any order, *)
(* hands the lock out one task at a time and in the order of the requests  *)
(* (the test writer_gate_hands_off_to_three_queued_writers_in_fifo_order,  *)
(* lib.rs:874, shows one such order).                                      *)
THEOREM GateImplementsFairLock == Spec => LockSafety
<1>1. IInv /\ IInv' /\ [Next]_vars => [Lock!Next]_(Lock!vars)
  BY RefinementStep
<1> QED BY InitInv, StepInv, RefinementInit, <1>1, PTL DEF Spec, LockSafety, Lock!Safety

=============================================================================
