----------------------------- MODULE WriterGate -----------------------------
(***************************************************************************)
(* The asynchronous mutex in front of Store::insert_snapshot (WriterGate   *)
(* in tinytop-store/src/lib.rs).  A WriterGateLock future is polled by the *)
(* executor, queues itself with a ticket and its waker, and is polled      *)
(* again when woken; the guard's Drop frees the gate and wakes the front   *)
(* waiter, and so does the Drop of a queued front future.                  *)
(*                                                                         *)
(* One action is one critical section of the gate's internal std::Mutex.   *)
(* Both Drop implementations clone the waker inside the section and call   *)
(* wake() after it, so the wake is a step of its own (Wake) and anything   *)
(* may happen in between.                                                  *)
(*                                                                         *)
(* Abstraction: a ticket identifies one queued future and a task awaits at *)
(* most one future at a time, so the task itself stands for the ticket     *)
(* (next_ticket is a u64 and cannot come round while a task waits).        *)
(***************************************************************************)
EXTENDS Naturals, Sequences

CONSTANTS Task,   \* the tasks that insert snapshots: the loop, HTTP handlers
          None    \* no task

ASSUME NoneNotTask == None \notin Task

VARIABLES locked,    \* WriterGateState.locked
          waiters,   \* WriterGateState.waiters
          stage,     \* where each task is
          woken,     \* the queued tasks the executor has been told to poll
          target     \* the waker a dropping task has cloned and not yet woken

vars == <<locked, waiters, stage, woken, target>>

Stage == {"outside", "queued", "holding", "waking"}

\* A task is queued exactly while it has a waiter, and it has only one.
OneWaiterEach ==
  /\ \A t \in Task : stage[t] = "queued" <=> \E i \in 1..Len(waiters) : waiters[i] = t
  /\ \A i, j \in 1..Len(waiters) : waiters[i] = waiters[j] => i = j

Fields ==
  /\ locked \in BOOLEAN
  /\ waiters \in Seq(Task)
  /\ stage \in [Task -> Stage]
  /\ woken \in SUBSET Task
  /\ target \in [Task -> Task \cup {None}]
  /\ \A t \in Task : target[t] # None <=> stage[t] = "waking"

TypeOK == Fields /\ OneWaiterEach

Init ==
  /\ locked = FALSE
  /\ waiters = <<>>
  /\ stage = [t \in Task |-> "outside"]
  /\ woken = {}
  /\ target = [t \in Task |-> None]

-----------------------------------------------------------------------------
IsFront(t) == waiters # <<>> /\ Head(waiters) = t

Front(q) == IF q = <<>> THEN None ELSE Head(q)

\* VecDeque::retain: the queue without the waiter of task t.
Without(q, t) ==
  LET i == CHOOSE i \in 1..Len(q) : q[i] = t
  IN  [j \in 1..(Len(q) - 1) |-> q[IF j < i THEN j ELSE j + 1]]

\* The first poll of a future with no ticket.
PollAcquiresBarging(t) ==   \* variant: does not look at the queue
  /\ stage[t] = "outside"
  /\ ~locked
  /\ locked' = TRUE
  /\ stage' = [stage EXCEPT ![t] = "holding"]
  /\ UNCHANGED <<waiters, woken, target>>

PollAcquires(t) ==
  /\ stage[t] = "outside"
  /\ ~locked /\ waiters = <<>>
  /\ locked' = TRUE
  /\ stage' = [stage EXCEPT ![t] = "holding"]
  /\ UNCHANGED <<waiters, woken, target>>

PollQueues(t) ==
  /\ stage[t] = "outside"
  /\ locked \/ waiters # <<>>
  /\ waiters' = Append(waiters, t)
  /\ stage' = [stage EXCEPT ![t] = "queued"]
  /\ UNCHANGED <<locked, woken, target>>

PollAgainUnchecked(t) ==   \* variant: the front waiter does not look at locked
  /\ stage[t] = "queued"
  /\ woken' = woken \ {t}
  /\ UNCHANGED target
  /\ IF IsFront(t)
       THEN /\ waiters' = Tail(waiters)
            /\ locked' = TRUE
            /\ stage' = [stage EXCEPT ![t] = "holding"]
       ELSE UNCHANGED <<waiters, locked, stage>>

\* A later poll, of a future that has a ticket.  The executor polls a woken
\* task; a combinator around the future may also poll it without a wake.  A
\* poll that gets nothing keeps the (refreshed) waker and waits for the next
\* wake.
PollAgain(t) ==
  /\ stage[t] = "queued"
  /\ woken' = woken \ {t}
  /\ UNCHANGED target
  /\ IF ~locked /\ IsFront(t)
       THEN /\ waiters' = Tail(waiters)
            /\ locked' = TRUE
            /\ stage' = [stage EXCEPT ![t] = "holding"]
       ELSE UNCHANGED <<waiters, locked, stage>>

\* What the last part of both Drop implementations does with the waker it
\* has cloned, or not cloned, inside the critical section.
HandOff(t, next) ==
  /\ target' = [target EXCEPT ![t] = next]
  /\ stage' = [stage EXCEPT ![t] = IF next = None THEN "outside" ELSE "waking"]

CancelKeepsWaiter(t) ==   \* variant: the ticket stays in the queue
  /\ stage[t] = "queued"
  /\ woken' = woken \ {t}
  /\ HandOff(t, None)
  /\ UNCHANGED <<locked, waiters>>

CancelWakesNobody(t) ==   \* variant: no hand-off from a cancelled front waiter
  /\ stage[t] = "queued"
  /\ waiters' = Without(waiters, t)
  /\ woken' = woken \ {t}
  /\ HandOff(t, None)
  /\ UNCHANGED locked

\* Drop for WriterGateLock: the request is cancelled while it waits.
Cancel(t) ==
  /\ stage[t] = "queued"
  /\ waiters' = Without(waiters, t)
  /\ woken' = woken \ {t}
  /\ HandOff(t, IF ~locked /\ IsFront(t) THEN Front(waiters') ELSE None)
  /\ UNCHANGED locked

\* Drop for WriterGateGuard: the insert finished, failed or was cancelled.
Release(t) ==
  /\ stage[t] = "holding"
  /\ locked' = FALSE
  /\ HandOff(t, Front(waiters))
  /\ UNCHANGED <<waiters, woken>>

\* waker.wake(), outside the critical section.  Waking a future that is gone
\* is lost; waking a task that has queued again is a spurious wake.
Wake(t) ==
  /\ stage[t] = "waking"
  /\ woken' = IF stage[target[t]] = "queued" THEN woken \cup {target[t]} ELSE woken
  /\ target' = [target EXCEPT ![t] = None]
  /\ stage' = [stage EXCEPT ![t] = "outside"]
  /\ UNCHANGED <<locked, waiters>>

Next == \E t \in Task : \/ PollAcquires(t) \/ PollQueues(t) \/ PollAgain(t)
                        \/ Cancel(t) \/ Release(t) \/ Wake(t)

\* The executor polls a task that was woken, and a Drop runs to its end.
\* Nothing is assumed of a task that was not woken, of new requests or of
\* cancellations.
Fairness == \A t \in Task : /\ WF_vars(t \in woken /\ PollAgain(t))
                            /\ WF_vars(Wake(t))

Spec == Init /\ [][Next]_vars /\ Fairness

-----------------------------------------------------------------------------
(* At most one task is between the gate's lock and the guard's drop: "Keep *)
(* the cache read, typed write, and cache publication one state change"    *)
(* (lib.rs:1557).                                                          *)
MutualExclusion ==
  \A t, u \in Task : stage[t] = "holding" /\ stage[u] = "holding" => t = u

(* A free gate with a queue always has a wake for its front waiter under   *)
(* way: it was woken and not yet polled, or a Drop still holds its waker.  *)
(* No release, cancellation or poll in any order loses that wake.          *)
NoLostWakeup ==
  ~locked /\ waiters # <<>> =>
    \/ Head(waiters) \in woken
    \/ \E t \in Task : target[t] = Head(waiters)

(* The gate implements the fair lock, with the fairness of the lock: it is *)
(* granted in the order of the requests, and a waiter that stays at the    *)
(* front of a free gate gets it.                                           *)
Holder == IF \E t \in Task : stage[t] = "holding"
            THEN CHOOSE t \in Task : stage[t] = "holding"
            ELSE None

Lock == INSTANCE FairLock WITH holder <- Holder, queue <- waiters

LockSpec == Lock!Spec

LockSafety == Lock!Safety

=============================================================================
