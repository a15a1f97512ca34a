------------------------------ MODULE FairLock ------------------------------
(***************************************************************************)
(* What the store's writer gate promises its callers: a lock that at most  *)
(* one task holds, that is handed out in the order the tasks asked for it, *)
(* and that is never left idle while a task waits.  There are no wakers,   *)
(* no polls and no internal mutex here: WriterGate.tla has those, and is   *)
(* shown to implement this specification.                                  *)
(***************************************************************************)
EXTENDS Naturals, Sequences

CONSTANTS Task,   \* the tasks that insert snapshots
          None    \* no task

VARIABLES holder,   \* the task inside the critical section, or None
          queue     \* the tasks waiting for it, oldest request first

vars == <<holder, queue>>

Queued == {queue[i] : i \in 1..Len(queue)}

Init == holder = None /\ queue = <<>>

\* A lock nobody holds or waits for is granted at once ...
TakeFree(t) ==
  /\ holder = None /\ queue = <<>>
  /\ holder' = t
  /\ UNCHANGED queue

\* ... any other request waits its turn.
Enqueue(t) ==
  /\ t # holder /\ t \notin Queued
  /\ holder # None \/ queue # <<>>
  /\ queue' = Append(queue, t)
  /\ UNCHANGED holder

Grant(t) ==
  /\ holder = None /\ queue # <<>> /\ Head(queue) = t
  /\ holder' = t
  /\ queue' = Tail(queue)

\* The caller drops its future before it got the lock.
Withdraw(t) ==
  \E i \in 1..Len(queue) :
    /\ queue[i] = t
    /\ queue' = [j \in 1..(Len(queue) - 1) |-> queue[IF j < i THEN j ELSE j + 1]]
    /\ UNCHANGED holder

Release(t) ==
  /\ holder = t
  /\ holder' = None
  /\ UNCHANGED queue

Next == \E t \in Task : \/ TakeFree(t) \/ Enqueue(t) \/ Grant(t)
                        \/ Withdraw(t) \/ Release(t)

\* A task that stays at the front of a free lock gets it.  A lock whose front
\* waiters withdraw for ever one after the other owes nobody anything.
Safety == Init /\ [][Next]_vars

Spec == Safety /\ \A t \in Task : WF_vars(Grant(t))

=============================================================================
