---------------------------- MODULE ServerProofs ----------------------------
(***************************************************************************)
(* Proofs about Server, for every set of sessions, every length of the     *)
(* journal and every number of requests.                                   *)
(***************************************************************************)
EXTENDS Server, TLAPS

(***************************************************************************)
(* Type correctness.                                                       *)
(***************************************************************************)

\* The task of an idle session has its type.
LEMMA NoTaskType == NoTask \in Task
  BY BoundAssumption DEF NoTask, Task, Position

\* The constructor of Server gives every variable its type.
LEMMA TypeInit == Init => TypeOK
  <1> SUFFICES ASSUME Init PROVE TypeOK
    OBVIOUS
  <1>1. task \in [Session -> Task]
    BY NoTaskType DEF Init
  <1>2. spc \in [Session -> Suspended \cup Running]
    BY DEF Init, Suspended
  <1>3. got \in [Session -> Seq(Value)] /\ lock_waiters \in Seq(Session)
    BY DEF Init
  <1>4. /\ published \in Position /\ checkpoint \in Position
        /\ hard \in Position /\ bufpos \in Position
        /\ requests \in 0..MaxRequests
    BY BoundAssumption, StartAssumption DEF Init, Position
  <1>5. /\ lock_timer \in [Session -> {"off", "armed"}]
        /\ push_writer \in [Session -> Position \cup {None}]
        /\ push_status \in [Session -> {"ok", "C", "t"}]
    BY DEF Init
  <1>6. /\ shared \in SharedModes
        /\ client_lock \in BOOLEAN /\ locked \in BOOLEAN
        /\ body \in [1..MaxSize -> Value \cup {Zero}]
        /\ pull_waiters \in SUBSET Session /\ woken \in SUBSET Session
        /\ locking \in SUBSET Session /\ due \in SUBSET Session
        /\ run \in Session \cup {None}
    BY FlagAssumption DEF Init
  <1> QED
    BY <1>1, <1>2, <1>3, <1>4, <1>5, <1>6 DEF TypeOK

\* Removing from a queue yields a queue.
LEMMA RemoveType ==
    ASSUME NEW S, NEW q \in Seq(S), NEW s
    PROVE  remove_from_queue(q, s) \in Seq(S)
  <1>1. CASE \E i \in 1..Len(q) : q[i] = s
    <2> DEFINE i == CHOOSE i \in 1..Len(q) : q[i] = s
    <2>1. i \in 1..Len(q)
      BY <1>1
    <2> HIDE DEF i
    <2>2. SubSeq(q, 1, i - 1) \in Seq(S)
      BY <2>1
    <2>3. SubSeq(q, i + 1, Len(q)) \in Seq(S)
      BY <2>1
    <2>4. SubSeq(q, 1, i - 1) \o SubSeq(q, i + 1, Len(q)) \in Seq(S)
      BY <2>2, <2>3
    <2> QED
      BY <1>1, <2>4 DEF remove_from_queue, i
  <1>2. CASE ~ \E i \in 1..Len(q) : q[i] = s
    BY <1>2 DEF remove_from_queue
  <1> QED
    BY <1>1, <1>2

\* The types of what the parts of the handlers assign.
LEMMA UnlockType ==
    ASSUME TypeOK, NEW s \in Session, NEW W \in SUBSET Session, unlock(s, W)
    PROVE  /\ locking' \in SUBSET Session /\ woken' \in SUBSET Session
           /\ lock_timer' \in [Session -> {"off", "armed"}]
           /\ locked' \in BOOLEAN /\ client_lock' \in BOOLEAN
  <1>1. lock_waiters # <<>> => Head(lock_waiters) \in Session
    BY DEF TypeOK
  <1> QED
    BY <1>1 DEF TypeOK, unlock

\* The same for the end of a session.
LEMMA EndType ==
    ASSUME TypeOK, NEW s \in Session, End(s)
    PROVE  /\ locking' \in SUBSET Session /\ woken' \in SUBSET Session
           /\ lock_timer' \in [Session -> {"off", "armed"}]
           /\ locked' \in BOOLEAN /\ client_lock' \in BOOLEAN
           /\ lock_waiters' \in Seq(Session)
           /\ pull_waiters' \in SUBSET Session
           /\ push_writer' \in [Session -> Position \cup {None}]
           /\ push_status' \in [Session -> {"ok", "C", "t"}]
           /\ got' \in [Session -> Seq(Value)]
           /\ task' \in [Session -> Task]
           /\ spc' \in [Session -> Suspended \cup Running]
           /\ run' \in Session \cup {None}
  <1>1. unlock(s, {}) /\ lock_waiters' = remove_from_queue(lock_waiters, s)
    BY DEF End
  <1>2. lock_waiters' \in Seq(Session)
    BY <1>1, RemoveType DEF TypeOK
  <1>3. /\ locking' \in SUBSET Session /\ woken' \in SUBSET Session
        /\ lock_timer' \in [Session -> {"off", "armed"}]
        /\ locked' \in BOOLEAN /\ client_lock' \in BOOLEAN
    BY <1>1, UnlockType
  <1>4. /\ got' \in [Session -> Seq(Value)]
        /\ task' \in [Session -> Task]
    BY NoTaskType DEF TypeOK, End
  <1>5. /\ pull_waiters' \in SUBSET Session
        /\ push_writer' \in [Session -> Position \cup {None}]
        /\ push_status' \in [Session -> {"ok", "C", "t"}]
        /\ spc' \in [Session -> Suspended \cup Running]
        /\ run' \in Session \cup {None}
    BY DEF TypeOK, End, Goto, Suspended
  <1> QED
    BY <1>2, <1>3, <1>4, <1>5

\* The same for a session that gets the lock.
LEMMA ObtainType ==
    ASSUME TypeOK, NEW s \in Session, Obtain(s)
    PROVE  /\ locking' \in SUBSET Session
           /\ lock_timer' \in [Session -> {"off", "armed"}]
           /\ locked' \in BOOLEAN /\ client_lock' \in BOOLEAN
           /\ checkpoint' \in Position /\ bufpos' \in Position
           /\ hard' \in Position
  BY DEF TypeOK, Obtain, refresh_lock_timeout, PullFile, journalVars

\* Positions are closed under minimum and maximum.
LEMMA MinType ==
    ASSUME NEW a \in Position, NEW b \in Position
    PROVE  Min2(a, b) \in Position /\ Max2(a, b) \in Position
  BY DEF Min2, Max2

\* Every step preserves the types.  PushData needs the invariant: the writer
\* of a push stays below task[s].until.
LEMMA TypeNext == TypeOK /\ ServerInv /\ [Next]_vars => TypeOK'
  <1> SUFFICES ASSUME TypeOK, ServerInv, [Next]_vars PROVE TypeOK'
    OBVIOUS
  <1> USE NoneAssumption, BoundAssumption, FlagAssumption, NoTaskType
  <1>0. CASE UNCHANGED vars
    BY <1>0 DEF TypeOK, vars, fileVars, journalVars, lockVars, waitVars, pushVars
  <1>1. ASSUME NEW s \in Session, Accept(s)
       PROVE  TypeOK'
    BY <1>1 DEF Accept, Goto, Suspended, TypeOK, vars, fileVars, journalVars, lockVars, waitVars, pushVars
  <1>2. ASSUME NEW s \in Session, Replied(s)
       PROVE  TypeOK'
    BY <1>2 DEF Replied, Goto, Suspended, TypeOK, vars, fileVars, journalVars, lockVars, waitVars, pushVars
  <1>3. ASSUME NEW s \in Session, Disconnect(s)
       PROVE  TypeOK'
    BY <1>3, EndType DEF Disconnect, TypeOK, vars, fileVars, journalVars, lockVars, waitVars, pushVars
  <1>4. ASSUME Restart
       PROVE  TypeOK'
    <2>1. task' \in [Session -> Task] /\ lock_waiters' \in Seq(Session)
      BY <1>4 DEF Restart
    <2>2. got' \in [Session -> Seq(Value)]
      BY <1>4 DEF Restart
    <2>3. /\ spc' \in [Session -> Suspended \cup Running]
          /\ lock_timer' \in [Session -> {"off", "armed"}]
          /\ push_writer' \in [Session -> Position \cup {None}]
          /\ push_status' \in [Session -> {"ok", "C", "t"}]
      BY <1>4 DEF Restart, Suspended
    <2>4. /\ requests' \in 0..MaxRequests
          /\ checkpoint' \in Position /\ bufpos' \in Position /\ hard' \in Position
      BY <1>4 DEF Restart, PullFile, TypeOK
    <2>5. client_lock' \in BOOLEAN
      BY <1>4 DEF Restart
    <2> QED
      BY <1>4, <2>1, <2>2, <2>3, <2>4, <2>5 DEF Restart, fileVars, TypeOK
  <1>5. ASSUME NEW v \in Value, ExternalAppend(v)
       PROVE  TypeOK'
    <2>1. published' \in Position /\ published' \in 1..MaxSize
      BY <1>5 DEF ExternalAppend, Position, TypeOK
    <2>2. body' \in [1..MaxSize -> Value \cup {Zero}]
      BY <1>5, <2>1 DEF ExternalAppend, TypeOK
    <2> QED
      BY <1>5, <2>1, <2>2 DEF ExternalAppend, TypeOK, vars, fileVars, journalVars, lockVars, waitVars, pushVars
  <1>6. ASSUME NEW s \in Session, LockTwice(s)
       PROVE  TypeOK'
    BY <1>6, EndType DEF LockTwice, TypeOK, vars, fileVars, journalVars, lockVars, waitVars, pushVars
  <1>7. ASSUME NEW s \in Session, LockNow(s)
       PROVE  TypeOK'
    BY <1>7, ObtainType DEF LockNow, Goto, AfterLock, Running, TypeOK, vars, fileVars, journalVars, lockVars, waitVars, pushVars
  <1>8. ASSUME NEW s \in Session, LockWait(s)
       PROVE  TypeOK'
    BY <1>8 DEF LockWait, Goto, Suspended, TypeOK, vars, fileVars, journalVars, lockVars, waitVars, pushVars
  <1>9. ASSUME NEW s \in Session, LockResume(s)
       PROVE  TypeOK'
    <2>1. lock_waiters # <<>>
      BY <1>9 DEF LockResume, ServerInv, QueueInv
    <2>2. lock_waiters' \in Seq(Session)
      BY <1>9, <2>1 DEF LockResume, TypeOK
    <2>3. Obtain(s)
      BY <1>9 DEF LockResume
    <2>4. spc' \in [Session -> Suspended \cup Running]
      BY <1>9 DEF LockResume, Goto, AfterLock, Running, TypeOK
    <2>5. woken' \in SUBSET Session
      BY <1>9 DEF LockResume, TypeOK
    <2> QED
      BY <1>9, <2>2, <2>3, <2>4, <2>5, ObtainType
      DEF LockResume, TypeOK, fileVars, pushVars
  <1>10. ASSUME NEW s \in Session, TimeoutExpires(s)
       PROVE  TypeOK'
    BY <1>10 DEF TimeoutExpires, TypeOK, vars, fileVars, journalVars, lockVars, waitVars, pushVars
  <1>11. ASSUME NEW s \in Session, TimeoutHandler(s)
       PROVE  TypeOK'
    BY <1>11, UnlockType DEF TimeoutHandler, TypeOK, vars, fileVars, journalVars, lockVars, waitVars, pushVars
  <1>12. ASSUME NEW s \in Session, NEW lock \in BOOLEAN, NEW data \in BOOLEAN,
              NEW wait \in BOOLEAN, NEW from \in Position,
              Pull(s, lock, data, wait, from)
       PROVE  TypeOK'
    <2> DEFINE t == [NoTask EXCEPT !.lock = lock, !.data = data, !.from = from]
    <2>1. t \in Task
      BY DEF NoTask, Task, Position
    <2>2. task' = [task EXCEPT ![s] = t] /\ requests' \in 0..MaxRequests
      BY <1>12 DEF Pull, Request, TypeOK
    <2> HIDE DEF t
    <2>3. task' \in [Session -> Task]
      BY <2>1, <2>2 DEF TypeOK
    <2>4. /\ checkpoint' \in Position /\ bufpos' \in Position /\ hard' \in Position
      BY <1>12 DEF Pull, PullFile, TypeOK, journalVars
    <2>5. AfterPull(t) \in Suspended \cup Running
      BY DEF AfterPull, Running
    <2>6. spc' \in [Session -> Suspended \cup Running]
      <3>1. Goto(s, "pullwait") \/ Goto(s, AfterPull(t))
        BY <1>12 DEF Pull, t
      <3>2. "pullwait" \in Suspended \cup Running
        BY DEF Suspended
      <3>3. spc \in [Session -> Suspended \cup Running]
        BY DEF TypeOK
      <3> QED
        BY <2>5, <3>1, <3>2, <3>3 DEF Goto
    <2>7. pull_waiters' \in SUBSET Session /\ run' \in Session \cup {None}
      BY <1>12 DEF Pull, TypeOK
    <2> QED
      BY <1>12, <2>2, <2>3, <2>4, <2>6, <2>7 DEF Pull, TypeOK, fileVars, lockVars, pushVars
  <1>13. ASSUME NEW s \in Session, PullExpires(s)
       PROVE  TypeOK'
    BY <1>13 DEF PullExpires, TypeOK, vars, fileVars, journalVars, lockVars, waitVars, pushVars
  <1>14. ASSUME NEW s \in Session, PullResume(s)
       PROVE  TypeOK'
    BY <1>14 DEF PullResume, Goto, AfterPull, Running, TypeOK, vars, fileVars, journalVars, lockVars, waitVars, pushVars
  <1>15. ASSUME NEW s \in Session, PullTail(s)
       PROVE  TypeOK'
    <2>1. PICK f \in Position : task' = [task EXCEPT ![s].from = f, ![s].until = checkpoint]
      <3>1. task[s].from \in Position /\ checkpoint \in Position
        BY DEF Task, TypeOK
      <3>2. Min2(task[s].from, checkpoint) \in Position
        BY <3>1, MinType
      <3> QED
        BY <1>15, <3>1, <3>2 DEF PullTail
    <2>2. task' \in [Session -> Task]
      <3>1. task \in [Session -> Task] /\ checkpoint \in Position
        BY DEF TypeOK
      <3>2. [task[s] EXCEPT !.from = f, !.until = checkpoint] \in Task
        BY <3>1 DEF Task
      <3> QED
        BY <2>1, <3>1, <3>2
    <2> QED
      BY <1>15, <2>2 DEF PullTail, Goto, Suspended, TypeOK, vars, fileVars, journalVars, lockVars, waitVars, pushVars
  <1>16. ASSUME NEW s \in Session, NEW from \in Position, NEW until \in Position,
              Read(s, from, until)
       PROVE  TypeOK'
    <2>1. PICK f \in Position, u \in Position :
            task' = [task EXCEPT ![s] = [NoTask EXCEPT !.from = f, !.until = u]]
      BY <1>16, MinType DEF Read, TypeOK
    <2>2. [NoTask EXCEPT !.from = f, !.until = u] \in Task
      BY DEF NoTask, Task
    <2>3. task' \in [Session -> Task]
      BY <2>1, <2>2 DEF TypeOK
    <2> QED
      BY <1>16, <2>3 DEF Read, Request, Goto, Suspended, TypeOK, vars, fileVars, journalVars, lockVars, waitVars, pushVars
  <1>17. ASSUME NEW s \in Session, SendChunk(s)
       PROVE  TypeOK'
    <2>1. task[s] \in Task /\ task[s].from \in Position /\ task[s].until \in Position
      BY DEF Task, TypeOK
    <2>2. Min2(task[s].from + 1, task[s].until) \in Position
      BY <2>1 DEF Min2, Position
    <2>3. PICK f \in Position : task' = [task EXCEPT ![s].from = f]
      BY <1>17, <2>2 DEF SendChunk
    <2>4. [task[s] EXCEPT !.from = f] \in Task
      BY <2>1 DEF Task
    <2>5. task' \in [Session -> Task]
      BY <2>3, <2>4 DEF TypeOK
    <2> QED
      BY <1>17, <2>5 DEF SendChunk, refresh_lock_timeout, Goto, Suspended, TypeOK, vars, fileVars, journalVars, lockVars, waitVars, pushVars
  <1>18. ASSUME NEW s \in Session, CheckHash(s)
       PROVE  TypeOK'
    BY <1>18 DEF CheckHash, Request, Goto, Suspended, TypeOK, vars, fileVars, journalVars, lockVars, waitVars, pushVars
  <1>19. ASSUME NEW s \in Session, UnlockRequest(s)
       PROVE  TypeOK'
    BY <1>19, UnlockType DEF UnlockRequest, Request, Goto, Suspended, TypeOK, vars, fileVars, journalVars, lockVars, waitVars, pushVars
  <1>20. ASSUME NEW s \in Session, PushRefused(s)
       PROVE  TypeOK'
    BY <1>20, EndType DEF PushRefused, Request, TypeOK, vars, fileVars, journalVars, lockVars, waitVars, pushVars
  <1>21. ASSUME NEW s \in Session, NEW unlock_after \in BOOLEAN,
              NEW from \in Position, NEW until \in Position,
              Push(s, unlock_after, from, until)
       PROVE  TypeOK'
    <2> DEFINE t == [NoTask EXCEPT !.op = "push", !.unlock = unlock_after,
                       !.from = from, !.until = until]
    <2>1. t \in Task
      BY DEF NoTask, Task
    <2>2. task' = [task EXCEPT ![s] = t]
      BY <1>21 DEF Push
    <2> HIDE DEF t
    <2>3. task' \in [Session -> Task]
      BY <2>1, <2>2 DEF TypeOK
    <2> QED
      BY <1>21, <2>3 DEF Push, Request, Goto, Running, TypeOK, vars, fileVars, journalVars, lockVars, waitVars, pushVars
  <1>22. ASSUME NEW s \in Session, PushStart(s)
       PROVE  TypeOK'
    <2>1. got' \in [Session -> Seq(Value)]
      BY <1>22 DEF PushStart, TypeOK
    <2>2. push_status' \in [Session -> {"ok", "C", "t"}]
      BY <1>22 DEF PushStart, TypeOK
    <2>3. push_writer' \in [Session -> Position \cup {None}]
      BY <1>22 DEF PushStart, TypeOK
    <2>4. spc' \in [Session -> Suspended \cup Running] /\ run' \in Session \cup {None}
      BY <1>22 DEF PushStart, Goto, Suspended, Running, TypeOK
    <2>5. lock_timer' \in [Session -> {"off", "armed"}]
      BY <1>22 DEF PushStart, refresh_lock_timeout, TypeOK
    <2> QED
      BY <1>22, <2>1, <2>2, <2>3, <2>4, <2>5 DEF PushStart, TypeOK, vars, fileVars, journalVars, lockVars, waitVars, pushVars
  <1>23. ASSUME NEW s \in Session, NEW v \in Value, PushData(s, v)
       PROVE  TypeOK'
    <2>1. got' \in [Session -> Seq(Value)]
      BY <1>23 DEF PushData, TypeOK
    <2>2. push_writer[s] # None => push_writer[s] \in Nat /\ push_writer[s] + 1 \in 1..MaxSize
      <3>1. /\ Len(got[s]) < task[s].until - task[s].from
            /\ push_writer[s] # None => push_writer[s] = task[s].from + Len(got[s])
        BY <1>23 DEF PushData, ServerInv, PushInv, PushOwnsTail
      <3>2. task[s].until \in 0..MaxSize /\ task[s].from \in 0..MaxSize
        BY DEF TypeOK, Task, Position
      <3>3. got[s] \in Seq(Value)
        BY DEF TypeOK
      <3>4. Len(got[s]) \in Nat
        BY <3>3
      <3>5. \A f, u \in 0..MaxSize, n \in Nat : n < u - f =>
              f + n \in Nat /\ (f + n) + 1 \in 1..MaxSize
        BY BoundAssumption
      <3>6. /\ task[s].from + Len(got[s]) \in Nat
            /\ (task[s].from + Len(got[s])) + 1 \in 1..MaxSize
        BY <3>1, <3>2, <3>4, <3>5
      <3> QED
        BY <3>1, <3>6
    <2>3. push_writer' \in [Session -> Position \cup {None}]
      <3>1. push_writer[s] # None => push_writer[s] + 1 \in Position
        BY <2>2 DEF Position
      <3> QED
        BY <1>23, <3>1 DEF PushData, TypeOK
    <2>4. body' \in [1..MaxSize -> Value \cup {Zero}]
      <3>1. \/ push_writer[s] # None /\ body' = [body EXCEPT ![push_writer[s] + 1] = v]
            \/ body' = body
        BY <1>23 DEF PushData
      <3>2. body \in [1..MaxSize -> Value \cup {Zero}]
        BY DEF TypeOK
      <3> QED
        BY <2>2, <3>1, <3>2
    <2>5. spc' \in [Session -> Suspended \cup Running] /\ run' \in Session \cup {None}
      <3>1. \/ Goto(s, "pushend") /\ run' = s
            \/ UNCHANGED <<spc, run>>
        BY <1>23 DEF PushData
      <3>2. "pushend" \in Suspended \cup Running
        BY DEF Running
      <3>3. spc \in [Session -> Suspended \cup Running] /\ run \in Session \cup {None}
        BY DEF TypeOK
      <3> QED
        BY <3>1, <3>2, <3>3 DEF Goto
    <2>6. lock_timer' \in [Session -> {"off", "armed"}]
      BY <1>23 DEF PushData, refresh_lock_timeout, TypeOK
    <2> QED
      BY <1>23, <2>1, <2>3, <2>4, <2>5, <2>6 DEF PushData, TypeOK, vars, fileVars, journalVars, lockVars, waitVars, pushVars
  <1>24. ASSUME NEW s \in Session, PushEnd(s)
       PROVE  TypeOK'
    <2>1. /\ published' \in Position /\ checkpoint' \in Position
          /\ hard' \in Position /\ bufpos' \in Position
      BY <1>24, MinType DEF PushEnd, CheckpointPush, TypeOK, journalVars
    <2>2. client_lock' \in BOOLEAN
      BY <1>24 DEF PushEnd, TypeOK
    <2>3. push_writer' \in [Session -> Position \cup {None}]
      BY <1>24 DEF PushEnd, TypeOK
    <2> QED
      BY <1>24, <2>1, <2>2, <2>3 DEF PushEnd, Goto, Running, TypeOK, waitVars
  <1>25. ASSUME NEW s \in Session, PushDone(s)
       PROVE  TypeOK'
    BY <1>25, UnlockType DEF PushDone, Goto, Suspended, TypeOK, vars, fileVars, journalVars, lockVars, waitVars, pushVars
  <1> QED
    BY <1>0, <1>1, <1>2, <1>3, <1>4, <1>5, <1>6, <1>7, <1>8, <1>9, <1>10, <1>11, <1>12, <1>13, <1>14, <1>15, <1>16, <1>17, <1>18, <1>19, <1>20, <1>21, <1>22, <1>23, <1>24, <1>25
    DEF Next, Progress, ClientStep

(***************************************************************************)
(* What some parts of the handlers do, in the terms of the invariants.     *)
(***************************************************************************)

\* The first session in the queue waits for the lock.
LEMMA QueueHead ==
    ASSUME TypeOK, QueueInv, lock_waiters # <<>>
    PROVE  Head(lock_waiters) \in Session /\ spc[Head(lock_waiters)] = "lockwait"
  <1>1. Head(lock_waiters) = lock_waiters[1] /\ 1 \in 1..Len(lock_waiters)
    BY DEF TypeOK
  <1> QED
    BY <1>1 DEF TypeOK, QueueInv

\* Whoever unlock wakes up waits for the lock.
LEMMA UnlockWoken ==
    ASSUME TypeOK, QueueInv, NEW s \in Session, NEW W, unlock(s, W)
    PROVE  /\ \A x \in woken' : x \in woken \/ x \in W \/ spc[x] = "lockwait"
           /\ locking' = locking \ {s}
  BY QueueHead DEF unlock

\* A session that does not wait for the lock leaves the queue alone.
LEMMA EndEffect ==
    ASSUME TypeOK, QueueInv, NEW s \in Session, End(s), spc[s] # "lockwait"
    PROVE  lock_waiters' = lock_waiters
  BY DEF TypeOK, QueueInv, End, remove_from_queue

\* The queue is correct as long as nobody comes or goes.
LEMMA QueueFrame ==
    ASSUME QueueInv, TypeOK, lock_waiters' = lock_waiters,
           \A x \in Session : spc'[x] = "lockwait" <=> spc[x] = "lockwait"
    PROVE  QueueInv'
  <1>1. \A i \in 1..Len(lock_waiters) : lock_waiters[i] \in Session
    BY DEF TypeOK
  <1> QED
    BY <1>1 DEF QueueInv

\* The same for the lock, as long as nobody takes or releases it.
LEMMA LockFrame ==
    ASSUME LockDiscipline, QueueInv, TypeOK,
           locking' = locking, locked' = locked, lock_waiters' = lock_waiters,
           woken' \in SUBSET Session,
           \A x \in Session : (spc'[x] = "lockwait" /\ x \in woken') <=>
                              (spc[x] = "lockwait" /\ x \in woken)
    PROVE  LockDiscipline'
  BY QueueHead DEF LockDiscipline

\* Releasing the lock hands it over to the first waiter.
LEMMA LockUnlock ==
    ASSUME LockDiscipline, QueueInv, TypeOK,
           NEW s \in Session, NEW W \in SUBSET Session, unlock(s, W),
           \A x \in W : spc[x] # "lockwait",
           lock_waiters' = lock_waiters,
           \A x \in Session : spc'[x] = "lockwait" <=> spc[x] = "lockwait"
    PROVE  LockDiscipline'
  <1>1. CASE s \notin locking
    <2>1. woken' = woken \cup W /\ locking' = locking /\ locked' = locked
      BY <1>1 DEF unlock
    <2>2. woken' \in SUBSET Session
      BY <2>1 DEF TypeOK
    <2>3. \A x \in Session : (spc'[x] = "lockwait" /\ x \in woken') <=>
                                (spc[x] = "lockwait" /\ x \in woken)
      BY <2>1
    <2> QED
      BY <2>1, <2>2, <2>3, LockFrame
  <1>2. CASE s \in locking /\ lock_waiters = <<>>
    <2>1. woken' \in SUBSET Session /\ locking' = {} /\ locked' = FALSE
      BY <1>2 DEF unlock, LockDiscipline, TypeOK
    <2>2. \A x \in Session : spc[x] # "lockwait"
      BY <1>2 DEF QueueInv
    <2> QED
      BY <1>2, <2>1, <2>2 DEF LockDiscipline
  <1>3. CASE s \in locking /\ lock_waiters # <<>>
    <2>1. /\ woken' = woken \cup W \cup {Head(lock_waiters)}
          /\ locking' = {} /\ locked' = locked /\ locked
      BY <1>3 DEF unlock, LockDiscipline, TypeOK
    <2>2. \A x \in woken : spc[x] # "lockwait"
      BY <1>3 DEF LockDiscipline
    <2>3. \A x \in woken' : spc'[x] = "lockwait" => x = Head(lock_waiters)
      BY <2>1, <2>2, QueueHead DEF TypeOK
    <2> QED
      BY <1>3, <2>1, <2>3 DEF LockDiscipline
  <1> QED
    BY <1>1, <1>2, <1>3

\* What Session::pull does to the state, without its LET.
LEMMA PullEffect ==
    ASSUME NEW s \in Session, NEW lock \in BOOLEAN, NEW data \in BOOLEAN,
           NEW wait \in BOOLEAN, NEW from \in Position,
           Pull(s, lock, data, wait, from)
    PROVE  /\ run = None /\ spc[s] = "idle"
           /\ \E p \in {"pullwait", "lock", "tail"} :
                /\ spc' = [spc EXCEPT ![s] = p]
                /\ run' = IF p = "pullwait" THEN None ELSE s
                /\ pull_waiters' = pull_waiters \cup
                                   (IF p = "pullwait" THEN {s} ELSE {})
           /\ \E t : task' = [task EXCEPT ![s] = t]
           /\ IF client_lock THEN checkpoint' = checkpoint
              ELSE checkpoint' = published
           /\ UNCHANGED <<fileVars, lockVars, woken, pushVars>>
  <1> DEFINE t == [NoTask EXCEPT !.lock = lock, !.data = data, !.from = from]
  <1>1. AfterPull(t) \in {"lock", "tail"}
    BY DEF AfterPull
  <1> HIDE DEF t
  <1>2. /\ run = None /\ spc[s] = "idle"
        /\ task' = [task EXCEPT ![s] = t]
        /\ IF client_lock THEN checkpoint' = checkpoint
           ELSE checkpoint' = published
        /\ UNCHANGED <<fileVars, lockVars, woken, pushVars>>
    BY DEF Pull, Request, PullFile, journalVars, t
  <1>3. \/ /\ spc' = [spc EXCEPT ![s] = "pullwait"]
           /\ run' = run /\ pull_waiters' = pull_waiters \cup {s}
        \/ /\ spc' = [spc EXCEPT ![s] = AfterPull(t)]
           /\ run' = s /\ pull_waiters' = pull_waiters
    BY DEF Pull, Goto, t
  <1> QED
    BY <1>1, <1>2, <1>3

\* What the beginning of Session::push does to the state.
LEMMA PushStartEffect ==
    ASSUME NEW s \in Session, PushStart(s)
    PROVE  /\ run = s /\ spc[s] = "push"
           /\ \E p \in {"recv", "pushend"} :
                /\ spc' = [spc EXCEPT ![s] = p]
                /\ p = "recv" <=> task[s].until > task[s].from
                /\ run' = IF p = "recv" THEN None ELSE s
           /\ got' = [got EXCEPT ![s] = <<>>]
           /\ \/ /\ s \in locking /\ task[s].from = checkpoint
                 /\ push_status' = [push_status EXCEPT ![s] = "ok"]
                 /\ push_writer' = [push_writer EXCEPT ![s] =
                                      IF client_lock THEN checkpoint ELSE None]
              \/ /\ push_status' = [push_status EXCEPT ![s] = "C"]
                 /\ push_writer' = [push_writer EXCEPT ![s] = None]
           /\ UNCHANGED <<fileVars, journalVars, client_lock, locked,
                          lock_waiters, locking, waitVars, task>>
  <1>1. /\ run = s /\ spc[s] = "push"
        /\ got' = [got EXCEPT ![s] = <<>>]
        /\ UNCHANGED <<fileVars, journalVars, client_lock, locked,
                       lock_waiters, locking, waitVars, task>>
    BY DEF PushStart
  <1>2. \/ /\ task[s].until > task[s].from
           /\ spc' = [spc EXCEPT ![s] = "recv"] /\ run' = None
        \/ /\ ~(task[s].until > task[s].from)
           /\ spc' = [spc EXCEPT ![s] = "pushend"] /\ run' = s
    BY DEF PushStart, Goto
  <1>3. \/ /\ s \in locking /\ task[s].from = checkpoint
           /\ push_status' = [push_status EXCEPT ![s] = "ok"]
           /\ push_writer' = [push_writer EXCEPT ![s] =
                                IF client_lock THEN checkpoint ELSE None]
        \/ /\ push_status' = [push_status EXCEPT ![s] = "C"]
           /\ push_writer' = [push_writer EXCEPT ![s] = None]
    <2>1. CASE s \notin locking \/ task[s].from # checkpoint
      BY <2>1 DEF PushStart
    <2>2. CASE s \in locking /\ task[s].from = checkpoint
      BY <2>2 DEF PushStart
    <2> QED
      BY <2>1, <2>2
  <1> QED
    BY <1>1, <1>2, <1>3

\* What a chunk of a push does to the state.
LEMMA PushDataEffect ==
    ASSUME TypeOK, NEW s \in Session, NEW v \in Value, PushData(s, v)
    PROVE  /\ got' = [got EXCEPT ![s] = Append(got[s], v)]
           /\ Len(got[s]) \in Nat /\ Len(got'[s]) = Len(got[s]) + 1
           /\ got'[s][Len(got[s]) + 1] = v
           /\ \A i \in 1..Len(got[s]) : got'[s][i] = got[s][i]
           /\ \A x \in Session \ {s} :
                got'[x] = got[x] /\ push_writer'[x] = push_writer[x]
           /\ push_writer[s] # None =>
                /\ push_writer'[s] = push_writer[s] + 1
                /\ body' = [body EXCEPT ![push_writer[s] + 1] = v]
  <1>1. got' = [got EXCEPT ![s] = Append(got[s], v)]
    BY DEF PushData
  <1>2. got[s] \in Seq(Value) /\ got'[s] = Append(got[s], v)
    BY <1>1 DEF TypeOK
  <1>3. /\ Len(got[s]) \in Nat /\ Len(got'[s]) = Len(got[s]) + 1
        /\ got'[s][Len(got[s]) + 1] = v
        /\ \A i \in 1..Len(got[s]) : got'[s][i] = got[s][i]
    BY <1>2
  <1>4. \A x \in Session \ {s} : got'[x] = got[x]
    BY <1>1 DEF TypeOK
  <1>5. CASE push_writer[s] = None
    <2>1. push_writer' = push_writer
      BY <1>5 DEF PushData
    <2> QED
      BY <1>1, <1>3, <1>4, <1>5, <2>1
  <1>6. CASE push_writer[s] # None
    <2>1. /\ push_writer' = [push_writer EXCEPT ![s] = push_writer[s] + 1]
          /\ body' = [body EXCEPT ![push_writer[s] + 1] = v]
      BY <1>6, Zenon DEF PushData
    <2>2. /\ push_writer'[s] = push_writer[s] + 1
          /\ \A x \in Session \ {s} : push_writer'[x] = push_writer[x]
      BY <2>1 DEF TypeOK
    <2> QED
      BY <1>1, <1>3, <1>4, <2>1, <2>2
  <1> QED
    BY <1>5, <1>6

(***************************************************************************)
(* The invariant.                                                          *)
(***************************************************************************)

\* The constructor of Server establishes the invariant.
LEMMA ServerInvInit == Init => ServerInv
  <1> SUFFICES ASSUME Init PROVE ServerInv
    OBVIOUS
  <1>1. /\ \A s \in Session : spc[s] = "closed" /\ push_writer[s] = None
        /\ run = None /\ woken = {} /\ pull_waiters = {} /\ lock_waiters = <<>>
        /\ locking = {} /\ locked = FALSE
        /\ checkpoint = StartCheckpoint /\ published = StartCheckpoint
    BY DEF Init
  <1>2. RunInv /\ WaitInv /\ QueueInv /\ LockDiscipline
    BY <1>1 DEF RunInv, WaitInv, QueueInv, LockDiscipline, Running
  <1>3. FileInv /\ PushInv /\ PushOwnsTail
    BY <1>1, StartAssumption DEF FileInv, PushInv, PushOwnsTail
  <1> QED
    BY <1>2, <1>3 DEF ServerInv

\* Only one session is between two awaits: whoever starts to run does so
\* when nobody runs.
LEMMA RunNext ==
    ASSUME TypeOK, ServerInv, [Next]_vars
    PROVE  RunInv'
  <1> USE NoneAssumption
  <1>a. RunInv
    BY DEF ServerInv
  <1>0. CASE UNCHANGED vars
    BY <1>0, <1>a DEF TypeOK, RunInv, vars, fileVars, journalVars, lockVars,
      waitVars, pushVars
  <1>1. ASSUME NEW s \in Session, Accept(s)
       PROVE  RunInv'
    BY <1>1, <1>a DEF TypeOK, RunInv, Accept, Goto, fileVars, journalVars,
      lockVars, waitVars, pushVars, Running
  <1>2. ASSUME NEW s \in Session, Replied(s)
       PROVE  RunInv'
    BY <1>2, <1>a DEF TypeOK, RunInv, Replied, Goto, fileVars, journalVars,
      lockVars, waitVars, pushVars, Running
  <1>3. ASSUME NEW s \in Session, Disconnect(s)
       PROVE  RunInv'
    BY <1>3, <1>a DEF TypeOK, RunInv, Disconnect, End, Goto, fileVars,
      journalVars, Running
  <1>4. ASSUME Restart
       PROVE  RunInv'
    BY <1>4, <1>a DEF TypeOK, RunInv, Restart, fileVars, Running
  <1>5. ASSUME NEW v \in Value, ExternalAppend(v)
       PROVE  RunInv'
    BY <1>5, <1>a DEF TypeOK, RunInv, ExternalAppend, journalVars, lockVars,
      waitVars, pushVars, Running
  <1>6. ASSUME NEW s \in Session, LockTwice(s)
       PROVE  RunInv'
    BY <1>6, <1>a DEF TypeOK, RunInv, LockTwice, End, Goto, fileVars,
      journalVars, Running
  <1>7. ASSUME NEW s \in Session, LockNow(s)
       PROVE  RunInv'
    BY <1>7, <1>a DEF TypeOK, RunInv, LockNow, Goto, AfterLock, fileVars,
      waitVars, pushVars, Running
  <1>8. ASSUME NEW s \in Session, LockWait(s)
       PROVE  RunInv'
    BY <1>8, <1>a DEF TypeOK, RunInv, LockWait, Goto, fileVars, journalVars,
      waitVars, pushVars, Running
  <1>9. ASSUME NEW s \in Session, LockResume(s)
       PROVE  RunInv'
    BY <1>9, <1>a DEF TypeOK, RunInv, LockResume, Goto, AfterLock, fileVars,
      pushVars, Running
  <1>10. ASSUME NEW s \in Session, TimeoutExpires(s)
       PROVE  RunInv'
    BY <1>10, <1>a DEF TypeOK, RunInv, TimeoutExpires, fileVars, journalVars,
      waitVars, pushVars, Running
  <1>11. ASSUME NEW s \in Session, TimeoutHandler(s)
       PROVE  RunInv'
    BY <1>11, <1>a DEF TypeOK, RunInv, TimeoutHandler, fileVars, journalVars,
      Running
  <1>12. ASSUME NEW s \in Session, NEW lock \in BOOLEAN, NEW data \in BOOLEAN,
              NEW wait \in BOOLEAN, NEW from \in Position,
              Pull(s, lock, data, wait, from)
       PROVE  RunInv'
    <2>1. PICK p \in {"pullwait", "lock", "tail"} :
            /\ spc' = [spc EXCEPT ![s] = p]
            /\ run' = IF p = "pullwait" THEN None ELSE s
            /\ pull_waiters' = pull_waiters \cup
                               (IF p = "pullwait" THEN {s} ELSE {})
      BY <1>12, PullEffect
    <2>2. run = None /\ spc[s] = "idle" /\ UNCHANGED <<lockVars, woken>>
      BY <1>12, PullEffect
    <2> QED
      BY <1>a, <2>1, <2>2 DEF TypeOK, RunInv, Running, lockVars
  <1>13. ASSUME NEW s \in Session, PullExpires(s)
       PROVE  RunInv'
    BY <1>13, <1>a DEF TypeOK, RunInv, PullExpires, fileVars, journalVars,
      lockVars, pushVars, Running
  <1>14. ASSUME NEW s \in Session, PullResume(s)
       PROVE  RunInv'
    BY <1>14, <1>a DEF TypeOK, RunInv, PullResume, Goto, AfterPull, fileVars,
      journalVars, lockVars, pushVars, Running
  <1>15. ASSUME NEW s \in Session, PullTail(s)
       PROVE  RunInv'
    BY <1>15, <1>a DEF TypeOK, RunInv, PullTail, Goto, fileVars, journalVars,
      lockVars, waitVars, pushVars, Running
  <1>16. ASSUME NEW s \in Session, NEW from \in Position, NEW until \in Position,
              Read(s, from, until)
       PROVE  RunInv'
    BY <1>16, <1>a DEF TypeOK, RunInv, Read, Request, Goto, fileVars,
      journalVars, lockVars, waitVars, pushVars, Running
  <1>17. ASSUME NEW s \in Session, SendChunk(s)
       PROVE  RunInv'
    BY <1>17, <1>a DEF TypeOK, RunInv, SendChunk, Goto, fileVars,
      journalVars, waitVars, pushVars, Running
  <1>18. ASSUME NEW s \in Session, CheckHash(s)
       PROVE  RunInv'
    BY <1>18, <1>a DEF TypeOK, RunInv, CheckHash, Request, Goto, fileVars,
      journalVars, lockVars, waitVars, pushVars, Running
  <1>19. ASSUME NEW s \in Session, UnlockRequest(s)
       PROVE  RunInv'
    BY <1>19, <1>a DEF TypeOK, RunInv, UnlockRequest, Request, Goto,
      fileVars, journalVars, pushVars, Running
  <1>20. ASSUME NEW s \in Session, PushRefused(s)
       PROVE  RunInv'
    BY <1>20, <1>a DEF TypeOK, RunInv, PushRefused, Request, End, Goto,
      fileVars, journalVars, Running
  <1>21. ASSUME NEW s \in Session, NEW unlock_after \in BOOLEAN,
              NEW from \in Position, NEW until \in Position,
              Push(s, unlock_after, from, until)
       PROVE  RunInv'
    BY <1>21, <1>a DEF TypeOK, RunInv, Push, Request, Goto, fileVars,
      journalVars, lockVars, waitVars, pushVars, Running
  <1>22. ASSUME NEW s \in Session, PushStart(s)
       PROVE  RunInv'
    <2>1. PICK p \in {"recv", "pushend"} :
            /\ spc' = [spc EXCEPT ![s] = p]
            /\ run' = IF p = "recv" THEN None ELSE s
      BY <1>22, PushStartEffect
    <2>2. /\ run = s /\ spc[s] = "push"
          /\ UNCHANGED <<waitVars, lock_waiters, locked, locking>>
      BY <1>22, PushStartEffect
    <2> QED
      BY <1>a, <2>1, <2>2 DEF TypeOK, RunInv, Running, waitVars
  <1>23. ASSUME NEW s \in Session, NEW v \in Value, PushData(s, v)
       PROVE  RunInv'
    BY <1>23, <1>a DEF TypeOK, RunInv, PushData, Goto, journalVars, waitVars,
      Running
  <1>24. ASSUME NEW s \in Session, PushEnd(s)
       PROVE  RunInv'
    BY <1>24, <1>a DEF TypeOK, RunInv, PushEnd, Goto, journalVars, waitVars,
      Running
  <1>25. ASSUME NEW s \in Session, PushDone(s)
       PROVE  RunInv'
    BY <1>25, <1>a DEF TypeOK, RunInv, PushDone, Goto, fileVars, journalVars,
      Running
  <1> QED
    BY <1>0, <1>1, <1>2, <1>3, <1>4, <1>5, <1>6, <1>7, <1>8, <1>9, <1>10,
      <1>11, <1>12, <1>13, <1>14, <1>15, <1>16, <1>17, <1>18, <1>19, <1>20,
      <1>21, <1>22, <1>23, <1>24, <1>25 DEF Next, Progress, ClientStep

\* A timer completes only for a session that waits.
LEMMA WaitNext ==
    ASSUME TypeOK, ServerInv, [Next]_vars
    PROVE  WaitInv'
  <1> USE NoneAssumption
  <1>a. WaitInv /\ QueueInv
    BY DEF ServerInv
  <1>0. CASE UNCHANGED vars
    BY <1>0, <1>a DEF TypeOK, WaitInv, vars, fileVars, journalVars, lockVars,
      waitVars, pushVars
  <1>1. ASSUME NEW s \in Session, Accept(s)
       PROVE  WaitInv'
    BY <1>1, <1>a DEF TypeOK, WaitInv, Accept, Goto, fileVars, journalVars,
      lockVars, waitVars, pushVars
  <1>2. ASSUME NEW s \in Session, Replied(s)
       PROVE  WaitInv'
    BY <1>2, <1>a DEF TypeOK, WaitInv, Replied, Goto, fileVars, journalVars,
      lockVars, waitVars, pushVars
  <1>3. ASSUME NEW s \in Session, Disconnect(s)
       PROVE  WaitInv'
    <2>1. unlock(s, {})
      BY <1>3 DEF Disconnect, End
    <2>2. \A x \in woken' : x \in woken \/ x \in {} \/ spc[x] = "lockwait"
      BY <2>1, <1>a, UnlockWoken
    <2> QED
      BY <1>3, <1>a, <2>2 DEF TypeOK, WaitInv, Disconnect, End, Goto
  <1>4. ASSUME Restart
       PROVE  WaitInv'
    BY <1>4, <1>a DEF TypeOK, WaitInv, Restart, fileVars
  <1>5. ASSUME NEW v \in Value, ExternalAppend(v)
       PROVE  WaitInv'
    BY <1>5, <1>a DEF TypeOK, WaitInv, ExternalAppend, journalVars, lockVars,
      waitVars, pushVars
  <1>6. ASSUME NEW s \in Session, LockTwice(s)
       PROVE  WaitInv'
    <2>1. unlock(s, {})
      BY <1>6 DEF LockTwice, End
    <2>2. \A x \in woken' : x \in woken \/ x \in {} \/ spc[x] = "lockwait"
      BY <2>1, <1>a, UnlockWoken
    <2> QED
      BY <1>6, <1>a, <2>2 DEF TypeOK, WaitInv, LockTwice, End, Goto
  <1>7. ASSUME NEW s \in Session, LockNow(s)
       PROVE  WaitInv'
    BY <1>7, <1>a DEF TypeOK, WaitInv, LockNow, Goto, AfterLock, fileVars,
      waitVars, pushVars
  <1>8. ASSUME NEW s \in Session, LockWait(s)
       PROVE  WaitInv'
    BY <1>8, <1>a DEF TypeOK, WaitInv, LockWait, Goto, fileVars, journalVars,
      waitVars, pushVars
  <1>9. ASSUME NEW s \in Session, LockResume(s)
       PROVE  WaitInv'
    BY <1>9, <1>a DEF TypeOK, WaitInv, LockResume, Goto, AfterLock, fileVars,
      pushVars
  <1>10. ASSUME NEW s \in Session, TimeoutExpires(s)
       PROVE  WaitInv'
    BY <1>10, <1>a DEF TypeOK, WaitInv, TimeoutExpires, fileVars,
      journalVars, waitVars, pushVars
  <1>11. ASSUME NEW s \in Session, TimeoutHandler(s)
       PROVE  WaitInv'
    <2>1. unlock(s, {})
      BY <1>11 DEF TimeoutHandler
    <2>2. \A x \in woken' : x \in woken \/ x \in {} \/ spc[x] = "lockwait"
      BY <2>1, <1>a, UnlockWoken
    <2> QED
      BY <1>11, <1>a, <2>2 DEF TypeOK, WaitInv, TimeoutHandler
  <1>12. ASSUME NEW s \in Session, NEW lock \in BOOLEAN, NEW data \in BOOLEAN,
              NEW wait \in BOOLEAN, NEW from \in Position,
              Pull(s, lock, data, wait, from)
       PROVE  WaitInv'
    <2>1. PICK p \in {"pullwait", "lock", "tail"} :
            /\ spc' = [spc EXCEPT ![s] = p]
            /\ run' = IF p = "pullwait" THEN None ELSE s
            /\ pull_waiters' = pull_waiters \cup
                               (IF p = "pullwait" THEN {s} ELSE {})
      BY <1>12, PullEffect
    <2>2. run = None /\ spc[s] = "idle" /\ UNCHANGED <<lockVars, woken>>
      BY <1>12, PullEffect
    <2> QED
      BY <1>a, <2>1, <2>2 DEF TypeOK, WaitInv, lockVars
  <1>13. ASSUME NEW s \in Session, PullExpires(s)
       PROVE  WaitInv'
    BY <1>13, <1>a DEF TypeOK, WaitInv, PullExpires, fileVars, journalVars,
      lockVars, pushVars
  <1>14. ASSUME NEW s \in Session, PullResume(s)
       PROVE  WaitInv'
    BY <1>14, <1>a DEF TypeOK, WaitInv, PullResume, Goto, AfterPull,
      fileVars, journalVars, lockVars, pushVars
  <1>15. ASSUME NEW s \in Session, PullTail(s)
       PROVE  WaitInv'
    BY <1>15, <1>a DEF TypeOK, WaitInv, PullTail, Goto, fileVars,
      journalVars, lockVars, waitVars, pushVars
  <1>16. ASSUME NEW s \in Session, NEW from \in Position, NEW until \in Position,
              Read(s, from, until)
       PROVE  WaitInv'
    BY <1>16, <1>a DEF TypeOK, WaitInv, Read, Request, Goto, fileVars,
      journalVars, lockVars, waitVars, pushVars
  <1>17. ASSUME NEW s \in Session, SendChunk(s)
       PROVE  WaitInv'
    BY <1>17, <1>a DEF TypeOK, WaitInv, SendChunk, Goto, fileVars,
      journalVars, waitVars, pushVars
  <1>18. ASSUME NEW s \in Session, CheckHash(s)
       PROVE  WaitInv'
    BY <1>18, <1>a DEF TypeOK, WaitInv, CheckHash, Request, Goto, fileVars,
      journalVars, lockVars, waitVars, pushVars
  <1>19. ASSUME NEW s \in Session, UnlockRequest(s)
       PROVE  WaitInv'
    <2>1. unlock(s, {})
      BY <1>19 DEF UnlockRequest
    <2>2. \A x \in woken' : x \in woken \/ x \in {} \/ spc[x] = "lockwait"
      BY <2>1, <1>a, UnlockWoken
    <2> QED
      BY <1>19, <1>a, <2>2 DEF TypeOK, WaitInv, UnlockRequest, Request, Goto
  <1>20. ASSUME NEW s \in Session, PushRefused(s)
       PROVE  WaitInv'
    <2>1. unlock(s, {})
      BY <1>20 DEF PushRefused, Request, End
    <2>2. \A x \in woken' : x \in woken \/ x \in {} \/ spc[x] = "lockwait"
      BY <2>1, <1>a, UnlockWoken
    <2> QED
      BY <1>20, <1>a, <2>2 DEF TypeOK, WaitInv, PushRefused, Request, End,
        Goto
  <1>21. ASSUME NEW s \in Session, NEW unlock_after \in BOOLEAN,
              NEW from \in Position, NEW until \in Position,
              Push(s, unlock_after, from, until)
       PROVE  WaitInv'
    BY <1>21, <1>a DEF TypeOK, WaitInv, Push, Request, Goto, fileVars,
      journalVars, lockVars, waitVars, pushVars
  <1>22. ASSUME NEW s \in Session, PushStart(s)
       PROVE  WaitInv'
    <2>1. PICK p \in {"recv", "pushend"} :
            /\ spc' = [spc EXCEPT ![s] = p]
            /\ run' = IF p = "recv" THEN None ELSE s
      BY <1>22, PushStartEffect
    <2>2. /\ run = s /\ spc[s] = "push"
          /\ UNCHANGED <<waitVars, lock_waiters, locked, locking>>
      BY <1>22, PushStartEffect
    <2> QED
      BY <1>a, <2>1, <2>2 DEF TypeOK, WaitInv, waitVars
  <1>23. ASSUME NEW s \in Session, NEW v \in Value, PushData(s, v)
       PROVE  WaitInv'
    BY <1>23, <1>a DEF TypeOK, WaitInv, PushData, Goto, journalVars, waitVars
  <1>24. ASSUME NEW s \in Session, PushEnd(s)
       PROVE  WaitInv'
    BY <1>24, <1>a DEF TypeOK, WaitInv, PushEnd, Goto, journalVars, waitVars
  <1>25. ASSUME NEW s \in Session, PushDone(s)
       PROVE  WaitInv'
    <2>1. \A x \in woken' : x \in woken \/ x \in pull_waiters \/ spc[x] = "lockwait"
      BY <1>25, <1>a, UnlockWoken DEF PushDone
    <2> QED
      BY <1>25, <1>a, <2>1 DEF TypeOK, WaitInv, PushDone, Goto
  <1> QED
    BY <1>0, <1>1, <1>2, <1>3, <1>4, <1>5, <1>6, <1>7, <1>8, <1>9, <1>10,
      <1>11, <1>12, <1>13, <1>14, <1>15, <1>16, <1>17, <1>18, <1>19, <1>20,
      <1>21, <1>22, <1>23, <1>24, <1>25 DEF Next, Progress, ClientStep

\* lock_waiters gains a session when it starts to wait and loses it when it
\* stops: the one that resumes is the first.
LEMMA QueueNext ==
    ASSUME TypeOK, ServerInv, [Next]_vars
    PROVE  QueueInv'
  <1> USE NoneAssumption
  <1>a. QueueInv /\ LockDiscipline
    BY DEF ServerInv
  <1>0. CASE UNCHANGED vars
    BY <1>0, <1>a DEF TypeOK, QueueInv, vars, fileVars, journalVars,
      lockVars, waitVars, pushVars
  <1>1. ASSUME NEW s \in Session, Accept(s)
       PROVE  QueueInv'
    BY <1>1, <1>a DEF TypeOK, QueueInv, Accept, Goto, fileVars, journalVars,
      lockVars, waitVars, pushVars
  <1>2. ASSUME NEW s \in Session, Replied(s)
       PROVE  QueueInv'
    BY <1>2, <1>a DEF TypeOK, QueueInv, Replied, Goto, fileVars, journalVars,
      lockVars, waitVars, pushVars
  <1>3. ASSUME NEW s \in Session, Disconnect(s)
       PROVE  QueueInv'
    <2>1. End(s) /\ spc[s] # "lockwait"
      BY <1>3 DEF Disconnect
    <2>2. lock_waiters' = lock_waiters
      BY <2>1, <1>a, EndEffect
    <2>3. \A x \in Session : spc'[x] = "lockwait" <=> spc[x] = "lockwait"
      BY <2>1 DEF TypeOK, End, Goto
    <2> QED
      BY <1>a, <2>2, <2>3, QueueFrame
  <1>4. ASSUME Restart
       PROVE  QueueInv'
    BY <1>4, <1>a DEF TypeOK, QueueInv, Restart, fileVars
  <1>5. ASSUME NEW v \in Value, ExternalAppend(v)
       PROVE  QueueInv'
    BY <1>5, <1>a DEF TypeOK, QueueInv, ExternalAppend, journalVars,
      lockVars, waitVars, pushVars
  <1>6. ASSUME NEW s \in Session, LockTwice(s)
       PROVE  QueueInv'
    <2>1. End(s) /\ spc[s] # "lockwait"
      BY <1>6 DEF LockTwice
    <2>2. lock_waiters' = lock_waiters
      BY <2>1, <1>a, EndEffect
    <2>3. \A x \in Session : spc'[x] = "lockwait" <=> spc[x] = "lockwait"
      BY <2>1 DEF TypeOK, End, Goto
    <2> QED
      BY <1>a, <2>2, <2>3, QueueFrame
  <1>7. ASSUME NEW s \in Session, LockNow(s)
       PROVE  QueueInv'
    BY <1>7, <1>a DEF TypeOK, QueueInv, LockNow, Goto, AfterLock, fileVars,
      waitVars, pushVars
  <1>8. ASSUME NEW s \in Session, LockWait(s)
       PROVE  QueueInv'
    <2> DEFINE q == lock_waiters
               n == Len(lock_waiters)
    <2>1. /\ n \in Nat /\ \A i \in 1..n : q[i] \in Session
          /\ Len(lock_waiters') = n + 1 /\ lock_waiters'[n + 1] = s
          /\ \A i \in 1..n : lock_waiters'[i] = q[i]
      BY <1>8 DEF LockWait, TypeOK
    <2>2. /\ spc[s] = "lock" /\ spc'[s] = "lockwait"
          /\ \A x \in Session \ {s} : spc'[x] = spc[x]
      BY <1>8 DEF LockWait, Goto, TypeOK
    <2>3. /\ \A i \in 1..n : q[i] # s /\ spc'[q[i]] = "lockwait"
          /\ \A i, j \in 1..n : q[i] = q[j] => i = j
          /\ \A x \in Session \ {s} : spc'[x] = "lockwait" =>
               \E i \in 1..n : q[i] = x
      BY <1>a, <2>1, <2>2 DEF QueueInv
    <2> HIDE DEF n, q
    <2>4. \A i \in 1..(n + 1) : i \in 1..n \/ i = n + 1
      BY <2>1
    <2>5. 1..n \subseteq 1..(n + 1) /\ n + 1 \in 1..(n + 1)
      BY <2>1
    <2>6. \A i \in 1..(n + 1) : spc'[lock_waiters'[i]] = "lockwait"
      BY <2>1, <2>2, <2>3, <2>4
    <2>7. \A i, j \in 1..(n + 1) : lock_waiters'[i] = lock_waiters'[j] => i = j
      BY <2>1, <2>3, <2>4
    <2>8. \A x \in Session : spc'[x] = "lockwait" =>
            \E i \in 1..(n + 1) : lock_waiters'[i] = x
      BY <2>1, <2>2, <2>3, <2>5
    <2> QED
      BY <2>1, <2>6, <2>7, <2>8 DEF QueueInv
  <1>9. ASSUME NEW s \in Session, LockResume(s)
       PROVE  QueueInv'
    <2> DEFINE q == lock_waiters
               n == Len(lock_waiters)
    <2>0. lock_waiters # <<>> /\ s = Head(lock_waiters)
      BY <1>9, <1>a DEF LockResume, QueueInv, LockDiscipline
    <2>1. /\ n \in Nat \ {0} /\ \A i \in 1..n : q[i] \in Session
          /\ q[1] = s /\ Len(lock_waiters') = n - 1
          /\ \A i \in 1..(n - 1) : lock_waiters'[i] = q[i + 1]
      BY <1>9, <2>0 DEF LockResume, TypeOK
    <2>2. /\ spc'[s] # "lockwait"
          /\ \A x \in Session \ {s} : spc'[x] = spc[x]
      BY <1>9 DEF LockResume, Goto, AfterLock, TypeOK
    <2>3. /\ \A i \in 1..n : spc[q[i]] = "lockwait"
          /\ \A i, j \in 1..n : q[i] = q[j] => i = j
          /\ \A x \in Session : spc[x] = "lockwait" => \E i \in 1..n : q[i] = x
      BY <1>a DEF QueueInv
    <2> HIDE DEF n, q
    <2>4. \A i \in 1..(n - 1) : i + 1 \in 1..n /\ i + 1 # 1
      BY <2>1
    <2>5. \A i \in 1..(n - 1) : q[i + 1] # s
      BY <2>1, <2>3, <2>4
    <2>6. \A i \in 1..(n - 1) : spc'[lock_waiters'[i]] = "lockwait"
      BY <2>1, <2>2, <2>3, <2>4, <2>5
    <2>7. \A i, j \in 1..(n - 1) : lock_waiters'[i] = lock_waiters'[j] => i = j
      BY <2>1, <2>3, <2>4
    <2>8. \A i \in 1..n : i = 1 \/ (i - 1 \in 1..(n - 1) /\ (i - 1) + 1 = i)
      BY <2>1
    <2>9. \A x \in Session : spc'[x] = "lockwait" =>
            \E i \in 1..(n - 1) : lock_waiters'[i] = x
      <3> SUFFICES ASSUME NEW x \in Session, spc'[x] = "lockwait"
                   PROVE  \E i \in 1..(n - 1) : lock_waiters'[i] = x
        OBVIOUS
      <3>1. x # s /\ spc[x] = "lockwait"
        BY <2>2
      <3>2. PICK i \in 1..n : q[i] = x
        BY <3>1, <2>3
      <3>3. i - 1 \in 1..(n - 1) /\ (i - 1) + 1 = i
        BY <3>1, <3>2, <2>1, <2>8
      <3>4. lock_waiters'[i - 1] = x
        BY <3>2, <3>3, <2>1
      <3> QED
        BY <3>3, <3>4
    <2> QED
      BY <2>1, <2>6, <2>7, <2>9 DEF QueueInv
  <1>10. ASSUME NEW s \in Session, TimeoutExpires(s)
       PROVE  QueueInv'
    BY <1>10, <1>a DEF TypeOK, QueueInv, TimeoutExpires, fileVars,
      journalVars, waitVars, pushVars
  <1>11. ASSUME NEW s \in Session, TimeoutHandler(s)
       PROVE  QueueInv'
    BY <1>11, <1>a DEF TypeOK, QueueInv, TimeoutHandler, fileVars,
      journalVars
  <1>12. ASSUME NEW s \in Session, NEW lock \in BOOLEAN, NEW data \in BOOLEAN,
              NEW wait \in BOOLEAN, NEW from \in Position,
              Pull(s, lock, data, wait, from)
       PROVE  QueueInv'
    <2>1. PICK p \in {"pullwait", "lock", "tail"} :
            /\ spc' = [spc EXCEPT ![s] = p]
            /\ run' = IF p = "pullwait" THEN None ELSE s
            /\ pull_waiters' = pull_waiters \cup
                               (IF p = "pullwait" THEN {s} ELSE {})
      BY <1>12, PullEffect
    <2>2. run = None /\ spc[s] = "idle" /\ UNCHANGED <<lockVars, woken>>
      BY <1>12, PullEffect
    <2>3. \A x \in Session : spc'[x] = "lockwait" <=> spc[x] = "lockwait"
      BY <2>1, <2>2 DEF TypeOK
    <2> QED
      BY <1>a, <2>2, <2>3, QueueFrame DEF lockVars
  <1>13. ASSUME NEW s \in Session, PullExpires(s)
       PROVE  QueueInv'
    BY <1>13, <1>a DEF TypeOK, QueueInv, PullExpires, fileVars, journalVars,
      lockVars, pushVars
  <1>14. ASSUME NEW s \in Session, PullResume(s)
       PROVE  QueueInv'
    BY <1>14, <1>a DEF TypeOK, QueueInv, PullResume, Goto, AfterPull,
      fileVars, journalVars, lockVars, pushVars
  <1>15. ASSUME NEW s \in Session, PullTail(s)
       PROVE  QueueInv'
    BY <1>15, <1>a DEF TypeOK, QueueInv, PullTail, Goto, fileVars,
      journalVars, lockVars, waitVars, pushVars
  <1>16. ASSUME NEW s \in Session, NEW from \in Position, NEW until \in Position,
              Read(s, from, until)
       PROVE  QueueInv'
    BY <1>16, <1>a DEF TypeOK, QueueInv, Read, Request, Goto, fileVars,
      journalVars, lockVars, waitVars, pushVars
  <1>17. ASSUME NEW s \in Session, SendChunk(s)
       PROVE  QueueInv'
    BY <1>17, <1>a DEF TypeOK, QueueInv, SendChunk, Goto, fileVars,
      journalVars, waitVars, pushVars
  <1>18. ASSUME NEW s \in Session, CheckHash(s)
       PROVE  QueueInv'
    BY <1>18, <1>a DEF TypeOK, QueueInv, CheckHash, Request, Goto, fileVars,
      journalVars, lockVars, waitVars, pushVars
  <1>19. ASSUME NEW s \in Session, UnlockRequest(s)
       PROVE  QueueInv'
    BY <1>19, <1>a DEF TypeOK, QueueInv, UnlockRequest, Request, Goto,
      fileVars, journalVars, pushVars
  <1>20. ASSUME NEW s \in Session, PushRefused(s)
       PROVE  QueueInv'
    <2>1. End(s) /\ spc[s] # "lockwait"
      BY <1>20 DEF PushRefused, Request
    <2>2. lock_waiters' = lock_waiters
      BY <2>1, <1>a, EndEffect
    <2>3. \A x \in Session : spc'[x] = "lockwait" <=> spc[x] = "lockwait"
      BY <2>1 DEF TypeOK, End, Goto
    <2> QED
      BY <1>a, <2>2, <2>3, QueueFrame
  <1>21. ASSUME NEW s \in Session, NEW unlock_after \in BOOLEAN,
              NEW from \in Position, NEW until \in Position,
              Push(s, unlock_after, from, until)
       PROVE  QueueInv'
    BY <1>21, <1>a DEF TypeOK, QueueInv, Push, Request, Goto, fileVars,
      journalVars, lockVars, waitVars, pushVars
  <1>22. ASSUME NEW s \in Session, PushStart(s)
       PROVE  QueueInv'
    <2>1. PICK p \in {"recv", "pushend"} :
            /\ spc' = [spc EXCEPT ![s] = p]
            /\ run' = IF p = "recv" THEN None ELSE s
      BY <1>22, PushStartEffect
    <2>2. /\ run = s /\ spc[s] = "push"
          /\ UNCHANGED <<waitVars, lock_waiters, locked, locking>>
      BY <1>22, PushStartEffect
    <2>3. \A x \in Session : spc'[x] = "lockwait" <=> spc[x] = "lockwait"
      BY <2>1, <2>2 DEF TypeOK
    <2> QED
      BY <1>a, <2>2, <2>3, QueueFrame DEF lockVars
  <1>23. ASSUME NEW s \in Session, NEW v \in Value, PushData(s, v)
       PROVE  QueueInv'
    BY <1>23, <1>a DEF TypeOK, QueueInv, PushData, Goto, journalVars,
      waitVars
  <1>24. ASSUME NEW s \in Session, PushEnd(s)
       PROVE  QueueInv'
    BY <1>24, <1>a DEF TypeOK, QueueInv, PushEnd, Goto, journalVars, waitVars
  <1>25. ASSUME NEW s \in Session, PushDone(s)
       PROVE  QueueInv'
    BY <1>25, <1>a DEF TypeOK, QueueInv, PushDone, Goto, fileVars,
      journalVars
  <1> QED
    BY <1>0, <1>1, <1>2, <1>3, <1>4, <1>5, <1>6, <1>7, <1>8, <1>9, <1>10,
      <1>11, <1>12, <1>13, <1>14, <1>15, <1>16, <1>17, <1>18, <1>19, <1>20,
      <1>21, <1>22, <1>23, <1>24, <1>25 DEF Next, Progress, ClientStep

\* The lock passes from its owner to the first waiter, and to no other.
LEMMA LockNext ==
    ASSUME TypeOK, ServerInv, [Next]_vars
    PROVE  LockDiscipline'
  <1> USE NoneAssumption
  <1>a. WaitInv /\ QueueInv /\ LockDiscipline
    BY DEF ServerInv
  <1>0. CASE UNCHANGED vars
    BY <1>0, <1>a DEF TypeOK, LockDiscipline, vars, fileVars, journalVars,
      lockVars, waitVars, pushVars
  <1>1. ASSUME NEW s \in Session, Accept(s)
       PROVE  LockDiscipline'
    BY <1>1, <1>a DEF TypeOK, LockDiscipline, Accept, Goto, fileVars,
      journalVars, lockVars, waitVars, pushVars
  <1>2. ASSUME NEW s \in Session, Replied(s)
       PROVE  LockDiscipline'
    BY <1>2, <1>a DEF TypeOK, LockDiscipline, Replied, Goto, fileVars,
      journalVars, lockVars, waitVars, pushVars
  <1>3. ASSUME NEW s \in Session, Disconnect(s)
       PROVE  LockDiscipline'
    <2>1. End(s) /\ spc[s] # "lockwait"
      BY <1>3 DEF Disconnect
    <2>2. lock_waiters' = lock_waiters
      BY <2>1, <1>a, EndEffect
    <2>3. \A x \in Session : spc'[x] = "lockwait" <=> spc[x] = "lockwait"
      BY <2>1 DEF TypeOK, End, Goto
    <2>4. unlock(s, {})
      BY <2>1 DEF End
    <2> QED
      BY <1>a, <2>2, <2>3, <2>4, LockUnlock
  <1>4. ASSUME Restart
       PROVE  LockDiscipline'
    BY <1>4, <1>a DEF TypeOK, LockDiscipline, Restart, fileVars
  <1>5. ASSUME NEW v \in Value, ExternalAppend(v)
       PROVE  LockDiscipline'
    BY <1>5, <1>a DEF TypeOK, LockDiscipline, ExternalAppend, journalVars,
      lockVars, waitVars, pushVars
  <1>6. ASSUME NEW s \in Session, LockTwice(s)
       PROVE  LockDiscipline'
    <2>1. End(s) /\ spc[s] # "lockwait"
      BY <1>6 DEF LockTwice
    <2>2. lock_waiters' = lock_waiters
      BY <2>1, <1>a, EndEffect
    <2>3. \A x \in Session : spc'[x] = "lockwait" <=> spc[x] = "lockwait"
      BY <2>1 DEF TypeOK, End, Goto
    <2>4. unlock(s, {})
      BY <2>1 DEF End
    <2> QED
      BY <1>a, <2>2, <2>3, <2>4, LockUnlock
  <1>7. ASSUME NEW s \in Session, LockNow(s)
       PROVE  LockDiscipline'
    BY <1>7, <1>a DEF TypeOK, WaitInv, QueueInv, LockDiscipline, LockNow,
      Obtain, Goto, AfterLock, fileVars, journalVars, waitVars, pushVars
  <1>8. ASSUME NEW s \in Session, LockWait(s)
       PROVE  LockDiscipline'
    <2>1. /\ locked /\ locked' = locked /\ locking' = locking /\ woken' = woken
          /\ lock_waiters' = Append(lock_waiters, s) /\ spc[s] = "lock"
          /\ \A x \in Session \ {s} : spc'[x] = spc[x]
      BY <1>8 DEF LockWait, Goto, TypeOK, waitVars
    <2>2. s \notin woken
      BY <1>a, <2>1 DEF WaitInv
    <2>3. lock_waiters' # <<>>
      BY <2>1 DEF TypeOK
    <2>4. lock_waiters # <<>> => Head(lock_waiters') = Head(lock_waiters)
      BY <2>1 DEF TypeOK
    <2>5. locking = {} => lock_waiters # <<>>
      BY <1>a, <2>1 DEF LockDiscipline
    <2>6. \A x \in woken : spc'[x] = "lockwait" =>
            spc[x] = "lockwait" /\ x \in Session
      BY <2>1, <2>2 DEF TypeOK
    <2> QED
      BY <1>a, <2>1, <2>3, <2>4, <2>5, <2>6 DEF LockDiscipline
  <1>9. ASSUME NEW s \in Session, LockResume(s)
       PROVE  LockDiscipline'
    BY <1>9, <1>a DEF TypeOK, LockDiscipline, LockResume, Obtain, Goto,
      AfterLock, fileVars, journalVars, pushVars
  <1>10. ASSUME NEW s \in Session, TimeoutExpires(s)
       PROVE  LockDiscipline'
    BY <1>10, <1>a DEF TypeOK, LockDiscipline, TimeoutExpires, fileVars,
      journalVars, waitVars, pushVars
  <1>11. ASSUME NEW s \in Session, TimeoutHandler(s)
       PROVE  LockDiscipline'
    <2>1. unlock(s, {}) /\ lock_waiters' = lock_waiters
      BY <1>11 DEF TimeoutHandler
    <2>2. \A x \in Session : spc'[x] = "lockwait" <=> spc[x] = "lockwait"
      BY <1>11 DEF TypeOK, TimeoutHandler, Goto
    <2> QED
      BY <1>a, <2>1, <2>2, LockUnlock
  <1>12. ASSUME NEW s \in Session, NEW lock \in BOOLEAN, NEW data \in BOOLEAN,
              NEW wait \in BOOLEAN, NEW from \in Position,
              Pull(s, lock, data, wait, from)
       PROVE  LockDiscipline'
    <2>1. PICK p \in {"pullwait", "lock", "tail"} :
            /\ spc' = [spc EXCEPT ![s] = p]
            /\ run' = IF p = "pullwait" THEN None ELSE s
            /\ pull_waiters' = pull_waiters \cup
                               (IF p = "pullwait" THEN {s} ELSE {})
      BY <1>12, PullEffect
    <2>2. run = None /\ spc[s] = "idle" /\ UNCHANGED <<lockVars, woken>>
      BY <1>12, PullEffect
    <2>3. \A x \in Session : (spc'[x] = "lockwait" /\ x \in woken') <=>
                                (spc[x] = "lockwait" /\ x \in woken)
      BY <2>1, <2>2 DEF TypeOK, lockVars
    <2>4. /\ locking' = locking /\ locked' = locked /\ lock_waiters' = lock_waiters
          /\ woken' \in SUBSET Session
      BY <2>2 DEF TypeOK, lockVars
    <2> QED
      BY <1>a, <2>3, <2>4, LockFrame
  <1>13. ASSUME NEW s \in Session, PullExpires(s)
       PROVE  LockDiscipline'
    BY <1>13, <1>a DEF TypeOK, LockDiscipline, PullExpires, fileVars,
      journalVars, lockVars, pushVars
  <1>14. ASSUME NEW s \in Session, PullResume(s)
       PROVE  LockDiscipline'
    <2>1. \A x \in Session : (spc'[x] = "lockwait" /\ x \in woken') <=>
                                (spc[x] = "lockwait" /\ x \in woken)
      BY <1>14 DEF TypeOK, PullResume, Goto, AfterPull
    <2>2. /\ locking' = locking /\ locked' = locked /\ lock_waiters' = lock_waiters
          /\ woken' \in SUBSET Session
      BY <1>14 DEF TypeOK, PullResume, lockVars
    <2> QED
      BY <1>a, <2>1, <2>2, LockFrame
  <1>15. ASSUME NEW s \in Session, PullTail(s)
       PROVE  LockDiscipline'
    BY <1>15, <1>a DEF TypeOK, LockDiscipline, PullTail, Goto, fileVars,
      journalVars, lockVars, waitVars, pushVars
  <1>16. ASSUME NEW s \in Session, NEW from \in Position, NEW until \in Position,
              Read(s, from, until)
       PROVE  LockDiscipline'
    BY <1>16, <1>a DEF TypeOK, LockDiscipline, Read, Request, Goto, fileVars,
      journalVars, lockVars, waitVars, pushVars
  <1>17. ASSUME NEW s \in Session, SendChunk(s)
       PROVE  LockDiscipline'
    BY <1>17, <1>a DEF TypeOK, LockDiscipline, SendChunk, Goto, fileVars,
      journalVars, waitVars, pushVars
  <1>18. ASSUME NEW s \in Session, CheckHash(s)
       PROVE  LockDiscipline'
    BY <1>18, <1>a DEF TypeOK, LockDiscipline, CheckHash, Request, Goto,
      fileVars, journalVars, lockVars, waitVars, pushVars
  <1>19. ASSUME NEW s \in Session, UnlockRequest(s)
       PROVE  LockDiscipline'
    <2>1. unlock(s, {}) /\ lock_waiters' = lock_waiters
      BY <1>19 DEF UnlockRequest, Request
    <2>2. \A x \in Session : spc'[x] = "lockwait" <=> spc[x] = "lockwait"
      BY <1>19 DEF TypeOK, UnlockRequest, Request, Goto
    <2> QED
      BY <1>a, <2>1, <2>2, LockUnlock
  <1>20. ASSUME NEW s \in Session, PushRefused(s)
       PROVE  LockDiscipline'
    <2>1. End(s) /\ spc[s] # "lockwait"
      BY <1>20 DEF PushRefused, Request
    <2>2. lock_waiters' = lock_waiters
      BY <2>1, <1>a, EndEffect
    <2>3. \A x \in Session : spc'[x] = "lockwait" <=> spc[x] = "lockwait"
      BY <2>1 DEF TypeOK, End, Goto
    <2>4. unlock(s, {})
      BY <2>1 DEF End
    <2> QED
      BY <1>a, <2>2, <2>3, <2>4, LockUnlock
  <1>21. ASSUME NEW s \in Session, NEW unlock_after \in BOOLEAN,
              NEW from \in Position, NEW until \in Position,
              Push(s, unlock_after, from, until)
       PROVE  LockDiscipline'
    BY <1>21, <1>a DEF TypeOK, LockDiscipline, Push, Request, Goto, fileVars,
      journalVars, lockVars, waitVars, pushVars
  <1>22. ASSUME NEW s \in Session, PushStart(s)
       PROVE  LockDiscipline'
    <2>1. PICK p \in {"recv", "pushend"} :
            /\ spc' = [spc EXCEPT ![s] = p]
            /\ run' = IF p = "recv" THEN None ELSE s
      BY <1>22, PushStartEffect
    <2>2. /\ run = s /\ spc[s] = "push"
          /\ UNCHANGED <<waitVars, lock_waiters, locked, locking>>
      BY <1>22, PushStartEffect
    <2>3. \A x \in Session : (spc'[x] = "lockwait" /\ x \in woken') <=>
                                (spc[x] = "lockwait" /\ x \in woken)
      BY <2>1, <2>2 DEF TypeOK, waitVars
    <2>4. woken' \in SUBSET Session
      BY <2>2 DEF TypeOK, waitVars
    <2> QED
      BY <1>a, <2>2, <2>3, <2>4, LockFrame
  <1>23. ASSUME NEW s \in Session, NEW v \in Value, PushData(s, v)
       PROVE  LockDiscipline'
    BY <1>23, <1>a DEF TypeOK, LockDiscipline, PushData, Goto, journalVars,
      waitVars
  <1>24. ASSUME NEW s \in Session, PushEnd(s)
       PROVE  LockDiscipline'
    BY <1>24, <1>a DEF TypeOK, LockDiscipline, PushEnd, Goto, journalVars,
      waitVars
  <1>25. ASSUME NEW s \in Session, PushDone(s)
       PROVE  LockDiscipline'
    <2>1. lock_waiters' = lock_waiters /\
          \A x \in Session : spc'[x] = "lockwait" <=> spc[x] = "lockwait"
      BY <1>25 DEF TypeOK, PushDone, Goto
    <2>2. \A x \in pull_waiters : spc[x] # "lockwait"
      BY <1>a DEF WaitInv
    <2>3. CASE task[s].unlock
      <3>1. unlock(s, pull_waiters) /\ pull_waiters \in SUBSET Session
        BY <1>25, <2>3 DEF PushDone, TypeOK
      <3> QED
        BY <1>a, <2>1, <2>2, <3>1, LockUnlock
    <2>4. CASE ~task[s].unlock
      <3>1. woken' = woken \cup pull_waiters /\ UNCHANGED <<locking, locked>>
        BY <1>25, <2>4 DEF PushDone
      <3>2. \A x \in Session : (spc'[x] = "lockwait" /\ x \in woken') <=>
                                  (spc[x] = "lockwait" /\ x \in woken)
        BY <2>1, <2>2, <3>1
      <3>3. woken' \in SUBSET Session
        BY <3>1 DEF TypeOK
      <3> QED
        BY <1>a, <2>1, <3>1, <3>2, <3>3, LockFrame
    <2> QED
      BY <2>3, <2>4
  <1> QED
    BY <1>0, <1>1, <1>2, <1>3, <1>4, <1>5, <1>6, <1>7, <1>8, <1>9, <1>10,
      <1>11, <1>12, <1>13, <1>14, <1>15, <1>16, <1>17, <1>18, <1>19, <1>20,
      <1>21, <1>22, <1>23, <1>24, <1>25 DEF Next, Progress, ClientStep

\* The lock of the server and the one of the file are taken and released
\* together, and under the latter the checkpoint is the published one.
LEMMA FileNext ==
    ASSUME TypeOK, ServerInv, [Next]_vars
    PROVE  FileInv'
  <1> USE NoneAssumption
  <1>a. RunInv /\ LockDiscipline /\ FileInv /\ PushInv /\ PushOwnsTail
    BY DEF ServerInv
  <1>0. CASE UNCHANGED vars
    BY <1>0, <1>a DEF TypeOK, FileInv, vars, fileVars, journalVars, lockVars,
      waitVars, pushVars
  <1>1. ASSUME NEW s \in Session, Accept(s)
       PROVE  FileInv'
    BY <1>1, <1>a DEF TypeOK, FileInv, Accept, Goto, fileVars, journalVars,
      lockVars, waitVars, pushVars, Running
  <1>2. ASSUME NEW s \in Session, Replied(s)
       PROVE  FileInv'
    BY <1>2, <1>a DEF TypeOK, FileInv, Replied, Goto, fileVars, journalVars,
      lockVars, waitVars, pushVars, Running
  <1>3. ASSUME NEW s \in Session, Disconnect(s)
       PROVE  FileInv'
    BY <1>3, <1>a DEF TypeOK, RunInv, LockDiscipline, FileInv, PushInv,
      PushOwnsTail, Disconnect, End, Goto, unlock, fileVars, journalVars,
      Running
  <1>4. ASSUME Restart
       PROVE  FileInv'
    <2>1. checkpoint \in Int /\ published \in Int
      BY BoundAssumption DEF TypeOK, Position
    <2>2. checkpoint' = published' /\ published' = published /\ locking' = {}
      BY <1>4 DEF Restart, PullFile, fileVars
    <2> QED
      BY <2>1, <2>2 DEF FileInv
  <1>5. ASSUME NEW v \in Value, ExternalAppend(v)
       PROVE  FileInv'
    <2>1. checkpoint \in Int /\ published \in Int
      BY BoundAssumption DEF TypeOK, Position
    <2>2. /\ checkpoint' = checkpoint /\ published' = published + 1
          /\ ~client_lock /\ UNCHANGED <<client_lock, locking, spc, task>>
      BY <1>5 DEF ExternalAppend, journalVars, lockVars
    <2> QED
      BY <1>a, <2>1, <2>2 DEF FileInv
  <1>6. ASSUME NEW s \in Session, LockTwice(s)
       PROVE  FileInv'
    BY <1>6, <1>a DEF TypeOK, RunInv, LockDiscipline, FileInv, PushInv,
      PushOwnsTail, LockTwice, End, Goto, unlock, fileVars, journalVars,
      Running
  <1>7. ASSUME NEW s \in Session, LockNow(s)
       PROVE  FileInv'
    <2>1. checkpoint \in Int /\ published \in Int
      BY BoundAssumption DEF TypeOK, Position
    <2>2. checkpoint' = published' /\ client_lock'
      BY <1>7, <1>a DEF LockNow, FileInv, Obtain, PullFile, fileVars, journalVars
    <2>3. published' \in Int
      BY <1>7, <2>1 DEF LockNow, fileVars
    <2> QED
      BY <2>2, <2>3 DEF FileInv
  <1>8. ASSUME NEW s \in Session, LockWait(s)
       PROVE  FileInv'
    BY <1>8, <1>a DEF TypeOK, FileInv, LockWait, Goto, fileVars, journalVars,
      waitVars, pushVars, Running
  <1>9. ASSUME NEW s \in Session, LockResume(s)
       PROVE  FileInv'
    <2>1. checkpoint \in Int /\ published \in Int
      BY BoundAssumption DEF TypeOK, Position
    <2>2. checkpoint' = published' /\ client_lock'
      BY <1>9, <1>a DEF LockResume, FileInv, Obtain, PullFile, fileVars, journalVars
    <2>3. published' \in Int
      BY <1>9, <2>1 DEF LockResume, fileVars
    <2> QED
      BY <2>2, <2>3 DEF FileInv
  <1>10. ASSUME NEW s \in Session, TimeoutExpires(s)
       PROVE  FileInv'
    BY <1>10, <1>a DEF TypeOK, FileInv, TimeoutExpires, fileVars,
      journalVars, waitVars, pushVars, Running
  <1>11. ASSUME NEW s \in Session, TimeoutHandler(s)
       PROVE  FileInv'
    BY <1>11, <1>a DEF TypeOK, RunInv, LockDiscipline, FileInv, PushInv,
      PushOwnsTail, TimeoutHandler, unlock, fileVars, journalVars, Running
  <1>12. ASSUME NEW s \in Session, NEW lock \in BOOLEAN, NEW data \in BOOLEAN,
              NEW wait \in BOOLEAN, NEW from \in Position,
              Pull(s, lock, data, wait, from)
       PROVE  FileInv'
    <2>1. checkpoint \in Int /\ published \in Int
      BY BoundAssumption DEF TypeOK, Position
    <2>2. PICK p \in {"pullwait", "lock", "tail"} : spc' = [spc EXCEPT ![s] = p]
      BY <1>12, PullEffect
    <2>3. \E t : task' = [task EXCEPT ![s] = t]
      BY <1>12, PullEffect
    <2>4. /\ spc[s] = "idle"
          /\ UNCHANGED <<fileVars, lockVars>>
          /\ IF client_lock THEN checkpoint' = checkpoint
             ELSE checkpoint' = published
      BY <1>12, PullEffect
    <2>5. \A x \in Session : spc[x] = "pushdone" /\ task[x].unlock =>
             spc'[x] = "pushdone" /\ task'[x].unlock
      BY <2>2, <2>3, <2>4 DEF TypeOK
    <2> QED
      BY <1>a, <2>1, <2>4, <2>5 DEF TypeOK, FileInv, fileVars, lockVars
  <1>13. ASSUME NEW s \in Session, PullExpires(s)
       PROVE  FileInv'
    BY <1>13, <1>a DEF TypeOK, FileInv, PullExpires, fileVars, journalVars,
      lockVars, pushVars, Running
  <1>14. ASSUME NEW s \in Session, PullResume(s)
       PROVE  FileInv'
    BY <1>14, <1>a DEF TypeOK, FileInv, PullResume, Goto, AfterPull,
      fileVars, journalVars, lockVars, pushVars, Running
  <1>15. ASSUME NEW s \in Session, PullTail(s)
       PROVE  FileInv'
    BY <1>15, <1>a DEF TypeOK, FileInv, PullTail, Goto, fileVars,
      journalVars, lockVars, waitVars, pushVars, Running
  <1>16. ASSUME NEW s \in Session, NEW from \in Position, NEW until \in Position,
              Read(s, from, until)
       PROVE  FileInv'
    BY <1>16, <1>a DEF TypeOK, FileInv, Read, Request, Goto, NoTask,
      fileVars, journalVars, lockVars, waitVars, pushVars, Running
  <1>17. ASSUME NEW s \in Session, SendChunk(s)
       PROVE  FileInv'
    BY <1>17, <1>a DEF TypeOK, FileInv, SendChunk, Goto, fileVars,
      journalVars, waitVars, pushVars, Running
  <1>18. ASSUME NEW s \in Session, CheckHash(s)
       PROVE  FileInv'
    BY <1>18, <1>a DEF TypeOK, FileInv, CheckHash, Request, Goto, fileVars,
      journalVars, lockVars, waitVars, pushVars, Running
  <1>19. ASSUME NEW s \in Session, UnlockRequest(s)
       PROVE  FileInv'
    BY <1>19, <1>a DEF TypeOK, RunInv, LockDiscipline, FileInv, PushInv,
      PushOwnsTail, UnlockRequest, Request, Goto, unlock, fileVars,
      journalVars, pushVars, Running
  <1>20. ASSUME NEW s \in Session, PushRefused(s)
       PROVE  FileInv'
    BY <1>20, <1>a DEF TypeOK, FileInv, PushRefused, Request, End, Goto,
      unlock, fileVars, journalVars, Running
  <1>21. ASSUME NEW s \in Session, NEW unlock_after \in BOOLEAN,
              NEW from \in Position, NEW until \in Position,
              Push(s, unlock_after, from, until)
       PROVE  FileInv'
    BY <1>21, <1>a DEF TypeOK, FileInv, Push, Request, Goto, NoTask,
      fileVars, journalVars, lockVars, waitVars, pushVars, Running
  <1>22. ASSUME NEW s \in Session, PushStart(s)
       PROVE  FileInv'
    BY <1>22, <1>a DEF TypeOK, FileInv, PushStart, Goto, fileVars,
      journalVars, waitVars, Running
  <1>23. ASSUME NEW s \in Session, NEW v \in Value, PushData(s, v)
       PROVE  FileInv'
    BY <1>23, <1>a DEF TypeOK, FileInv, PushData, Goto, journalVars,
      waitVars, Running
  <1>24. ASSUME NEW s \in Session, PushEnd(s)
       PROVE  FileInv'
    <2>1. checkpoint \in Int /\ published \in Int
      BY BoundAssumption DEF TypeOK, Position
    <2>2. spc[s] = "pushend" /\ spc' = [spc EXCEPT ![s] = "pushdone"]
          /\ UNCHANGED <<locking, task>>
      BY <1>24 DEF PushEnd, Goto
    <2>3. CASE task[s].until > task[s].from /\ push_writer[s] # None /\ client_lock
      <3>1. checkpoint' = published' /\ checkpoint' \in Position
        BY <1>24, <2>3, MinType DEF PushEnd, CheckpointPush, TypeOK
      <3>2. s \in locking /\ spc'[s] = "pushdone"
        BY <1>a, <2>2, <2>3 DEF PushOwnsTail, TypeOK
      <3>3. client_lock' \/ task[s].unlock
        BY <1>24, <2>3 DEF PushEnd
      <3> QED
        BY <2>2, <3>1, <3>2, <3>3, BoundAssumption DEF FileInv, Position
    <2>4. CASE ~(task[s].until > task[s].from /\ push_writer[s] # None /\ client_lock)
      <3>1. UNCHANGED <<published, checkpoint, client_lock>>
        BY <1>24, <2>4 DEF PushEnd, journalVars
      <3>2. \A x \in Session : spc[x] = "pushdone" => spc'[x] = "pushdone"
        BY <2>2 DEF TypeOK
      <3> QED
        BY <1>a, <2>2, <3>1, <3>2 DEF FileInv, TypeOK
    <2> QED
      BY <2>3, <2>4
  <1>25. ASSUME NEW s \in Session, PushDone(s)
       PROVE  FileInv'
    BY <1>25, <1>a DEF TypeOK, RunInv, LockDiscipline, FileInv, PushInv,
      PushOwnsTail, PushDone, Goto, unlock, fileVars, journalVars, Running
  <1> QED
    BY <1>0, <1>1, <1>2, <1>3, <1>4, <1>5, <1>6, <1>7, <1>8, <1>9, <1>10,
      <1>11, <1>12, <1>13, <1>14, <1>15, <1>16, <1>17, <1>18, <1>19, <1>20,
      <1>21, <1>22, <1>23, <1>24, <1>25 DEF Next, Progress, ClientStep

\* What a push has received, and whether it still has a writer, agree with
\* where it is in Session::push.
LEMMA PushNext ==
    ASSUME TypeOK, ServerInv, [Next]_vars
    PROVE  PushInv'
  <1> USE NoneAssumption
  <1>a. RunInv /\ LockDiscipline /\ FileInv /\ PushInv
    BY DEF ServerInv
  <1>0. CASE UNCHANGED vars
    BY <1>0, <1>a DEF TypeOK, PushInv, vars, fileVars, journalVars, lockVars,
      waitVars, pushVars
  <1>1. ASSUME NEW s \in Session, Accept(s)
       PROVE  PushInv'
    BY <1>1, <1>a DEF TypeOK, PushInv, Accept, Goto, fileVars, journalVars,
      lockVars, waitVars, pushVars, Running
  <1>2. ASSUME NEW s \in Session, Replied(s)
       PROVE  PushInv'
    BY <1>2, <1>a DEF TypeOK, PushInv, Replied, Goto, fileVars, journalVars,
      lockVars, waitVars, pushVars, Running
  <1>3. ASSUME NEW s \in Session, Disconnect(s)
       PROVE  PushInv'
    BY <1>3, <1>a DEF TypeOK, PushInv, Disconnect, End, Goto, unlock,
      fileVars, journalVars, Running
  <1>4. ASSUME Restart
       PROVE  PushInv'
    BY <1>4, <1>a DEF TypeOK, PushInv, Restart, fileVars, Running
  <1>5. ASSUME NEW v \in Value, ExternalAppend(v)
       PROVE  PushInv'
    BY <1>5, <1>a DEF TypeOK, PushInv, ExternalAppend, journalVars, lockVars,
      waitVars, pushVars, Running
  <1>6. ASSUME NEW s \in Session, LockTwice(s)
       PROVE  PushInv'
    BY <1>6, <1>a DEF TypeOK, PushInv, LockTwice, End, Goto, unlock,
      fileVars, journalVars, Running
  <1>7. ASSUME NEW s \in Session, LockNow(s)
       PROVE  PushInv'
    BY <1>7, <1>a DEF TypeOK, PushInv, LockNow, Obtain, Goto, AfterLock,
      fileVars, journalVars, waitVars, pushVars, Running
  <1>8. ASSUME NEW s \in Session, LockWait(s)
       PROVE  PushInv'
    BY <1>8, <1>a DEF TypeOK, PushInv, LockWait, Goto, fileVars, journalVars,
      waitVars, pushVars, Running
  <1>9. ASSUME NEW s \in Session, LockResume(s)
       PROVE  PushInv'
    BY <1>9, <1>a DEF TypeOK, PushInv, LockResume, Obtain, Goto, AfterLock,
      fileVars, journalVars, pushVars, Running
  <1>10. ASSUME NEW s \in Session, TimeoutExpires(s)
       PROVE  PushInv'
    BY <1>10, <1>a DEF TypeOK, PushInv, TimeoutExpires, fileVars,
      journalVars, waitVars, pushVars, Running
  <1>11. ASSUME NEW s \in Session, TimeoutHandler(s)
       PROVE  PushInv'
    BY <1>11, <1>a DEF TypeOK, RunInv, LockDiscipline, FileInv, PushInv,
      TimeoutHandler, unlock, fileVars, journalVars, Running
  <1>12. ASSUME NEW s \in Session, NEW lock \in BOOLEAN, NEW data \in BOOLEAN,
              NEW wait \in BOOLEAN, NEW from \in Position,
              Pull(s, lock, data, wait, from)
       PROVE  PushInv'
    BY <1>12, <1>a DEF TypeOK, PushInv, Pull, Request, Goto, AfterPull,
      NoTask, fileVars, journalVars, lockVars, pushVars, Running
  <1>13. ASSUME NEW s \in Session, PullExpires(s)
       PROVE  PushInv'
    BY <1>13, <1>a DEF TypeOK, PushInv, PullExpires, fileVars, journalVars,
      lockVars, pushVars, Running
  <1>14. ASSUME NEW s \in Session, PullResume(s)
       PROVE  PushInv'
    BY <1>14, <1>a DEF TypeOK, PushInv, PullResume, Goto, AfterPull,
      fileVars, journalVars, lockVars, pushVars, Running
  <1>15. ASSUME NEW s \in Session, PullTail(s)
       PROVE  PushInv'
    BY <1>15, <1>a DEF TypeOK, PushInv, PullTail, Goto, fileVars,
      journalVars, lockVars, waitVars, pushVars, Running
  <1>16. ASSUME NEW s \in Session, NEW from \in Position, NEW until \in Position,
              Read(s, from, until)
       PROVE  PushInv'
    BY <1>16, <1>a DEF TypeOK, PushInv, Read, Request, Goto, NoTask,
      fileVars, journalVars, lockVars, waitVars, pushVars, Running
  <1>17. ASSUME NEW s \in Session, SendChunk(s)
       PROVE  PushInv'
    BY <1>17, <1>a DEF TypeOK, PushInv, SendChunk, Goto, fileVars,
      journalVars, waitVars, pushVars, Running
  <1>18. ASSUME NEW s \in Session, CheckHash(s)
       PROVE  PushInv'
    BY <1>18, <1>a DEF TypeOK, PushInv, CheckHash, Request, Goto, fileVars,
      journalVars, lockVars, waitVars, pushVars, Running
  <1>19. ASSUME NEW s \in Session, UnlockRequest(s)
       PROVE  PushInv'
    BY <1>19, <1>a DEF TypeOK, PushInv, UnlockRequest, Request, Goto, unlock,
      fileVars, journalVars, pushVars, Running
  <1>20. ASSUME NEW s \in Session, PushRefused(s)
       PROVE  PushInv'
    BY <1>20, <1>a DEF TypeOK, PushInv, PushRefused, Request, End, Goto,
      unlock, fileVars, journalVars, Running
  <1>21. ASSUME NEW s \in Session, NEW unlock_after \in BOOLEAN,
              NEW from \in Position, NEW until \in Position,
              Push(s, unlock_after, from, until)
       PROVE  PushInv'
    BY <1>21, <1>a DEF TypeOK, PushInv, Push, Request, Goto, NoTask,
      fileVars, journalVars, lockVars, waitVars, pushVars, Running
  <1>22. ASSUME NEW s \in Session, PushStart(s)
       PROVE  PushInv'
    <2>1. PICK p \in {"recv", "pushend"} :
            /\ spc' = [spc EXCEPT ![s] = p]
            /\ p = "recv" <=> task[s].until > task[s].from
      BY <1>22, PushStartEffect
    <2>2. /\ run = s /\ spc[s] = "push"
          /\ got' = [got EXCEPT ![s] = <<>>]
          /\ locking' = locking /\ task' = task
      BY <1>22, PushStartEffect
    <2>3. client_lock
      BY <1>a, <2>2 DEF RunInv, FileInv, PushInv, Running, TypeOK
    <2>4. checkpoint # None
      BY NoneAssumption, BoundAssumption DEF TypeOK, Position
    <2>5. \/ /\ push_status' = [push_status EXCEPT ![s] = "ok"]
             /\ push_writer' = [push_writer EXCEPT ![s] = checkpoint]
          \/ /\ push_status' = [push_status EXCEPT ![s] = "C"]
             /\ push_writer' = [push_writer EXCEPT ![s] = None]
      BY <1>22, <2>3, PushStartEffect
    <2>6. task[s].until \in Int /\ task[s].from \in Int
      BY BoundAssumption DEF TypeOK, Task, Position
    <2>7. /\ spc'[s] = p /\ got'[s] = <<>> /\ Len(got'[s]) = 0
          /\ push_writer'[s] # None <=> push_status'[s] = "ok"
      BY <2>1, <2>2, <2>4, <2>5 DEF TypeOK
    <2>8. \A x \in Session \ {s} :
            /\ spc'[x] = spc[x] /\ got'[x] = got[x]
            /\ push_status'[x] = push_status[x] /\ push_writer'[x] = push_writer[x]
      BY <2>1, <2>2, <2>5 DEF TypeOK
    <2> SUFFICES ASSUME NEW x \in Session PROVE PushInv!(x)'
      BY DEF PushInv
    <2>9. CASE x = s
      BY <2>1, <2>2, <2>6, <2>7, <2>9
    <2>10. CASE x # s
      BY <1>a, <2>2, <2>8, <2>10 DEF PushInv
    <2> QED
      BY <2>9, <2>10
  <1>23. ASSUME NEW s \in Session, NEW v \in Value, PushData(s, v)
       PROVE  PushInv'
    <2> DEFINE n == Len(got[s])
               w == task[s].until - task[s].from
    <2>1. /\ n \in Nat /\ w \in Int /\ task[s].until \in Int /\ task[s].from \in Int
      BY BoundAssumption DEF TypeOK, Task, Position
    <2>a. got' = [got EXCEPT ![s] = Append(got[s], v)] /\ Len(got'[s]) = n + 1
      BY <1>23, PushDataEffect
    <2>2. spc[s] = "recv" /\ n < w
      BY <1>23, <1>a DEF PushData, PushInv
    <2>3. \/ n + 1 < w /\ spc' = spc
          \/ ~(n + 1 < w) /\ spc' = [spc EXCEPT ![s] = "pushend"]
      BY <1>23 DEF PushData, Goto
    <2>4. UNCHANGED <<task, locking, push_status>>
      BY <1>23 DEF PushData
    <2>5. /\ push_writer'[s] # None <=> push_writer[s] # None
          /\ \A x \in Session \ {s} : push_writer'[x] = push_writer[x]
      <3>1. push_writer[s] # None => push_writer[s] + 1 # None
        BY NoneAssumption, BoundAssumption DEF TypeOK, Position
      <3> QED
        BY <1>23, <3>1 DEF PushData, TypeOK
    <2>6. \A x \in Session \ {s} : spc'[x] = spc[x] /\ got'[x] = got[x]
      BY <2>a, <2>3 DEF TypeOK
    <2>7. \/ n + 1 < w /\ spc'[s] = "recv"
          \/ ~(n + 1 < w) /\ spc'[s] = "pushend"
      BY <2>2, <2>3 DEF TypeOK
    <2> SUFFICES ASSUME NEW x \in Session PROVE PushInv!(x)'
      BY DEF PushInv
    <2> HIDE DEF n
    <2>9. CASE x = s
      BY <1>a, <2>1, <2>a, <2>2, <2>4, <2>5, <2>7, <2>9 DEF PushInv
    <2>10. CASE x # s
      BY <1>a, <2>4, <2>5, <2>6, <2>10 DEF PushInv
    <2> QED
      BY <2>9, <2>10
  <1>24. ASSUME NEW s \in Session, PushEnd(s)
       PROVE  PushInv'
    BY <1>24, <1>a DEF TypeOK, PushInv, PushEnd, Goto, journalVars, waitVars,
      Running
  <1>25. ASSUME NEW s \in Session, PushDone(s)
       PROVE  PushInv'
    BY <1>25, <1>a DEF TypeOK, PushInv, PushDone, Goto, unlock, fileVars,
      journalVars, Running
  <1> QED
    BY <1>0, <1>1, <1>2, <1>3, <1>4, <1>5, <1>6, <1>7, <1>8, <1>9, <1>10,
      <1>11, <1>12, <1>13, <1>14, <1>15, <1>16, <1>17, <1>18, <1>19, <1>20,
      <1>21, <1>22, <1>23, <1>24, <1>25 DEF Next, Progress, ClientStep

\* Nobody but the owner of the lock moves the checkpoint or writes after it
\* while a push is being received.
LEMMA TailNext ==
    ASSUME TypeOK, ServerInv, [Next]_vars
    PROVE  PushOwnsTail'
  <1> USE NoneAssumption
  <1>a. RunInv /\ LockDiscipline /\ FileInv /\ PushInv /\ PushOwnsTail
    BY DEF ServerInv
  <1>0. CASE UNCHANGED vars
    BY <1>0, <1>a DEF TypeOK, PushOwnsTail, vars, fileVars, journalVars,
      lockVars, waitVars, pushVars
  <1>1. ASSUME NEW s \in Session, Accept(s)
       PROVE  PushOwnsTail'
    BY <1>1, <1>a DEF TypeOK, PushOwnsTail, Accept, Goto, fileVars,
      journalVars, lockVars, waitVars, pushVars, Running
  <1>2. ASSUME NEW s \in Session, Replied(s)
       PROVE  PushOwnsTail'
    BY <1>2, <1>a DEF TypeOK, PushOwnsTail, Replied, Goto, fileVars,
      journalVars, lockVars, waitVars, pushVars, Running
  <1>3. ASSUME NEW s \in Session, Disconnect(s)
       PROVE  PushOwnsTail'
    BY <1>3, <1>a DEF TypeOK, RunInv, LockDiscipline, FileInv, PushInv,
      PushOwnsTail, Disconnect, End, Goto, unlock, fileVars, journalVars,
      Running
  <1>4. ASSUME Restart
       PROVE  PushOwnsTail'
    BY <1>4, <1>a DEF TypeOK, PushOwnsTail, Restart, PullFile, fileVars,
      Running
  <1>5. ASSUME NEW v \in Value, ExternalAppend(v)
       PROVE  PushOwnsTail'
    BY <1>5, <1>a DEF TypeOK, PushOwnsTail, ExternalAppend, journalVars,
      lockVars, waitVars, pushVars, Running
  <1>6. ASSUME NEW s \in Session, LockTwice(s)
       PROVE  PushOwnsTail'
    BY <1>6, <1>a DEF TypeOK, RunInv, LockDiscipline, FileInv, PushInv,
      PushOwnsTail, LockTwice, End, Goto, unlock, fileVars, journalVars,
      Running
  <1>7. ASSUME NEW s \in Session, LockNow(s)
       PROVE  PushOwnsTail'
    BY <1>7, <1>a DEF TypeOK, RunInv, LockDiscipline, FileInv, PushInv,
      PushOwnsTail, LockNow, Obtain, PullFile, Goto, AfterLock, fileVars,
      journalVars, waitVars, pushVars, Running
  <1>8. ASSUME NEW s \in Session, LockWait(s)
       PROVE  PushOwnsTail'
    BY <1>8, <1>a DEF TypeOK, RunInv, LockDiscipline, FileInv, PushInv,
      PushOwnsTail, LockWait, Goto, fileVars, journalVars, waitVars,
      pushVars, Running
  <1>9. ASSUME NEW s \in Session, LockResume(s)
       PROVE  PushOwnsTail'
    BY <1>9, <1>a DEF TypeOK, PushOwnsTail, LockResume, Obtain, PullFile,
      Goto, AfterLock, fileVars, journalVars, pushVars, Running
  <1>10. ASSUME NEW s \in Session, TimeoutExpires(s)
       PROVE  PushOwnsTail'
    BY <1>10, <1>a DEF TypeOK, PushOwnsTail, TimeoutExpires, fileVars,
      journalVars, waitVars, pushVars, Running
  <1>11. ASSUME NEW s \in Session, TimeoutHandler(s)
       PROVE  PushOwnsTail'
    BY <1>11, <1>a DEF TypeOK, RunInv, LockDiscipline, FileInv, PushInv,
      PushOwnsTail, TimeoutHandler, unlock, fileVars, journalVars, Running
  <1>12. ASSUME NEW s \in Session, NEW lock \in BOOLEAN, NEW data \in BOOLEAN,
              NEW wait \in BOOLEAN, NEW from \in Position,
              Pull(s, lock, data, wait, from)
       PROVE  PushOwnsTail'
    BY <1>12, <1>a DEF TypeOK, RunInv, LockDiscipline, FileInv, PushInv,
      PushOwnsTail, Pull, Request, PullFile, Goto, AfterPull, NoTask,
      fileVars, journalVars, lockVars, pushVars, Running
  <1>13. ASSUME NEW s \in Session, PullExpires(s)
       PROVE  PushOwnsTail'
    BY <1>13, <1>a DEF TypeOK, PushOwnsTail, PullExpires, fileVars,
      journalVars, lockVars, pushVars, Running
  <1>14. ASSUME NEW s \in Session, PullResume(s)
       PROVE  PushOwnsTail'
    BY <1>14, <1>a DEF TypeOK, PushOwnsTail, PullResume, Goto, AfterPull,
      fileVars, journalVars, lockVars, pushVars, Running
  <1>15. ASSUME NEW s \in Session, PullTail(s)
       PROVE  PushOwnsTail'
    BY <1>15, <1>a DEF TypeOK, RunInv, LockDiscipline, FileInv, PushInv,
      PushOwnsTail, PullTail, Goto, fileVars, journalVars, lockVars,
      waitVars, pushVars, Running
  <1>16. ASSUME NEW s \in Session, NEW from \in Position, NEW until \in Position,
              Read(s, from, until)
       PROVE  PushOwnsTail'
    <2>1. /\ spc[s] = "idle" /\ UNCHANGED <<fileVars, journalVars, lockVars, pushVars>>
          /\ \E t : task' = [task EXCEPT ![s] = t]
      BY <1>16 DEF Read, Request
    <2>2. push_writer[s] = None
      BY <1>a, <2>1 DEF PushInv
    <2>3. \A x \in Session \ {s} : task'[x] = task[x]
      BY <2>1 DEF TypeOK
    <2> QED
      BY <1>a, <2>1, <2>2, <2>3
      DEF PushOwnsTail, fileVars, journalVars, lockVars, pushVars
  <1>17. ASSUME NEW s \in Session, SendChunk(s)
       PROVE  PushOwnsTail'
    BY <1>17, <1>a DEF TypeOK, RunInv, LockDiscipline, FileInv, PushInv,
      PushOwnsTail, SendChunk, Goto, fileVars, journalVars, waitVars,
      pushVars, Running
  <1>18. ASSUME NEW s \in Session, CheckHash(s)
       PROVE  PushOwnsTail'
    BY <1>18, <1>a DEF TypeOK, PushOwnsTail, CheckHash, Request, Goto,
      fileVars, journalVars, lockVars, waitVars, pushVars, Running
  <1>19. ASSUME NEW s \in Session, UnlockRequest(s)
       PROVE  PushOwnsTail'
    <2>1. /\ spc[s] = "idle" /\ unlock(s, {})
          /\ UNCHANGED <<body, published, checkpoint, task, push_writer, got>>
      BY <1>19 DEF UnlockRequest, Request, fileVars, journalVars, pushVars
    <2>2. push_writer[s] = None
      BY <1>a, <2>1 DEF PushInv
    <2>3. ASSUME NEW x \in Session, push_writer[x] # None
          PROVE  x \in locking' /\ client_lock'
      <3>1. x \in locking /\ client_lock /\ s \notin locking
        BY <1>a, <2>2, <2>3 DEF PushOwnsTail, LockDiscipline
      <3> QED
        BY <2>1, <3>1 DEF unlock
    <2> QED
      BY <1>a, <2>1, <2>3 DEF PushOwnsTail
  <1>20. ASSUME NEW s \in Session, PushRefused(s)
       PROVE  PushOwnsTail'
    BY <1>20, <1>a DEF TypeOK, RunInv, LockDiscipline, FileInv, PushInv,
      PushOwnsTail, PushRefused, Request, End, Goto, unlock, fileVars,
      journalVars, Running
  <1>21. ASSUME NEW s \in Session, NEW unlock_after \in BOOLEAN,
              NEW from \in Position, NEW until \in Position,
              Push(s, unlock_after, from, until)
       PROVE  PushOwnsTail'
    <2>1. /\ spc[s] = "idle" /\ UNCHANGED <<fileVars, journalVars, lockVars, pushVars>>
          /\ \E t : task' = [task EXCEPT ![s] = t]
      BY <1>21 DEF Push, Request
    <2>2. push_writer[s] = None
      BY <1>a, <2>1 DEF PushInv
    <2>3. \A x \in Session \ {s} : task'[x] = task[x]
      BY <2>1 DEF TypeOK
    <2> QED
      BY <1>a, <2>1, <2>2, <2>3
      DEF PushOwnsTail, fileVars, journalVars, lockVars, pushVars
  <1>22. ASSUME NEW s \in Session, PushStart(s)
       PROVE  PushOwnsTail'
    <2>1. /\ run = s /\ spc[s] = "push"
          /\ got' = [got EXCEPT ![s] = <<>>]
          /\ UNCHANGED <<fileVars, journalVars, client_lock, locking, task>>
      BY <1>22, PushStartEffect
    <2>2. push_writer'[s] # None =>
            s \in locking /\ task[s].from = checkpoint /\ push_writer'[s] = checkpoint
      BY <1>22, PushStartEffect DEF TypeOK
    <2>3. client_lock /\ checkpoint = published /\ checkpoint \in Nat
      BY <1>a, <2>1, BoundAssumption
      DEF RunInv, FileInv, PushInv, Running, TypeOK, Position
    <2>4. got'[s] = <<>> /\ Len(got'[s]) = 0
      BY <2>1 DEF TypeOK
    <2>5. \A x \in Session \ {s} : got'[x] = got[x] /\ push_writer'[x] = push_writer[x]
      <3>1. PICK w : push_writer' = [push_writer EXCEPT ![s] = w]
        BY <1>22, PushStartEffect
      <3> QED
        BY <2>1, <3>1 DEF TypeOK
    <2> SUFFICES ASSUME NEW x \in Session, push_writer'[x] # None
                 PROVE  PushOwnsTail!(x)!2'
      BY DEF PushOwnsTail
    <2>6. CASE x = s
      BY <2>1, <2>2, <2>3, <2>4, <2>6 DEF fileVars, journalVars
    <2>7. CASE x # s
      BY <1>a, <2>1, <2>5, <2>7 DEF PushOwnsTail, fileVars, journalVars
    <2> QED
      BY <2>6, <2>7
  <1>23. ASSUME NEW s \in Session, NEW v \in Value, PushData(s, v)
       PROVE  PushOwnsTail'
    <2>1. UNCHANGED <<published, checkpoint, client_lock, locking, task>>
      BY <1>23 DEF PushData, journalVars
    <2>2. \A x \in Session \ {s} : got'[x] = got[x] /\ push_writer'[x] = push_writer[x]
      BY <1>23, PushDataEffect
    <2>3. CASE push_writer[s] = None
      <3>1. push_writer' = push_writer /\ body' = body
        BY <1>23, <2>3 DEF PushData
      <3> QED
        BY <1>a, <2>1, <2>2, <2>3, <3>1 DEF PushOwnsTail
    <2>4. CASE push_writer[s] # None
      <3> DEFINE n == Len(got[s])
      <3>1. /\ s \in locking /\ client_lock
            /\ checkpoint = published /\ task[s].from = checkpoint
            /\ push_writer[s] = checkpoint + n
            /\ \A i \in 1..n : body[checkpoint + i] = got[s][i]
        BY <1>a, <2>4 DEF PushOwnsTail
      <3>2. /\ n \in Nat /\ Len(got'[s]) = n + 1 /\ got'[s][n + 1] = v
            /\ \A i \in 1..n : got'[s][i] = got[s][i]
        BY <1>23, PushDataEffect
      <3>3. /\ push_writer'[s] = push_writer[s] + 1
            /\ body' = [body EXCEPT ![push_writer[s] + 1] = v]
        BY <1>23, <2>4, PushDataEffect
      <3>4. /\ checkpoint \in Nat /\ task[s].until \in 0..MaxSize /\ MaxSize \in Nat
            /\ n < task[s].until - task[s].from
        BY <1>23, <1>a, BoundAssumption DEF PushData, PushInv, TypeOK, Task, Position
      <3> HIDE DEF n
      <3>5. push_writer'[s] = checkpoint + (n + 1)
        BY <3>1, <3>2, <3>3, <3>4
      <3>6. /\ (checkpoint + n) + 1 \in 1..MaxSize
            /\ checkpoint + (n + 1) = (checkpoint + n) + 1
        BY <3>1, <3>2, <3>4
      <3>7. body'[checkpoint + (n + 1)] = v
        BY <3>1, <3>3, <3>6 DEF TypeOK
      <3>8. \A i \in 1..n : body'[checkpoint + i] = body[checkpoint + i]
        <4> TAKE i \in 1..n
        <4>1. checkpoint + i # (checkpoint + n) + 1 /\ checkpoint + i \in 1..MaxSize
          <5>1. \A c, k, j \in Nat : (c + k) + 1 \in 1..MaxSize /\ j \in 1..k =>
                  c + j # (c + k) + 1 /\ c + j \in 1..MaxSize
            BY BoundAssumption
          <5>2. i \in Nat
            BY <3>2
          <5> QED
            BY <3>2, <3>4, <3>6, <5>1, <5>2
        <4>2. body \in [1..MaxSize -> Value \cup {Zero}]
          BY DEF TypeOK
        <4>3. body' = [body EXCEPT ![(checkpoint + n) + 1] = v]
          BY <3>1, <3>3
        <4> QED
          BY <4>1, <4>2, <4>3
      <3>9. \A i \in 1..(n + 1) : body'[checkpoint + i] = got'[s][i]
        <4> TAKE i \in 1..(n + 1)
        <4>1. CASE i = n + 1
          BY <3>2, <3>7, <4>1
        <4>2. CASE i # n + 1
          <5>1. i \in 1..n
            BY <3>2, <4>2
          <5> QED
            BY <3>1, <3>2, <3>8, <5>1
        <4> QED
          BY <4>1, <4>2
      <3>10. \A x \in Session : push_writer'[x] # None => x = s
        BY <1>a, <2>2, <3>1 DEF PushOwnsTail, LockDiscipline
      <3> QED
        BY <2>1, <3>1, <3>2, <3>5, <3>9, <3>10 DEF PushOwnsTail
    <2> QED
      BY <2>3, <2>4
  <1>24. ASSUME NEW s \in Session, PushEnd(s)
       PROVE  PushOwnsTail'
    BY <1>24, <1>a DEF TypeOK, RunInv, LockDiscipline, FileInv, PushInv,
      PushOwnsTail, PushEnd, CheckpointPush, Goto, journalVars, waitVars,
      Max2, Running
  <1>25. ASSUME NEW s \in Session, PushDone(s)
       PROVE  PushOwnsTail'
    BY <1>25, <1>a DEF TypeOK, RunInv, LockDiscipline, FileInv, PushInv,
      PushOwnsTail, PushDone, Goto, unlock, fileVars, journalVars, Running
  <1> QED
    BY <1>0, <1>1, <1>2, <1>3, <1>4, <1>5, <1>6, <1>7, <1>8, <1>9, <1>10,
      <1>11, <1>12, <1>13, <1>14, <1>15, <1>16, <1>17, <1>18, <1>19, <1>20,
      <1>21, <1>22, <1>23, <1>24, <1>25 DEF Next, Progress, ClientStep

\* Every step of the server preserves the invariant.
LEMMA ServerInvNext == TypeOK /\ ServerInv /\ [Next]_vars => ServerInv'
  BY RunNext, WaitNext, QueueNext, LockNext, FileNext, PushNext, TailNext
  DEF ServerInv

\* The invariant always holds.
LEMMA ServerInvariant == Spec => [](TypeOK /\ ServerInv)
  <1>1. Init => TypeOK /\ ServerInv
    BY TypeInit, ServerInvInit
  <1>2. TypeOK /\ ServerInv /\ [Next]_vars => (TypeOK /\ ServerInv)'
    BY TypeNext, ServerInvNext
  <1> QED
    BY <1>1, <1>2, PTL DEF Spec

\* The types of the variables of the server are preserved; in particular a
\* push never writes past the bound of the journal.
THEOREM TypeCorrect == Spec => []TypeOK
  BY ServerInvariant, PTL

\* lock_waiters holds exactly the sessions that wait for the lock, once.
THEOREM QueueSafe == Spec => []QueueInv
  <1>1. ServerInv => QueueInv
    BY DEF ServerInv
  <1> QED
    BY <1>1, ServerInvariant, PTL

\* At most one session owns the lock, and a lock that is neither free nor
\* owned is on its way to the first waiter (Session::lock and unlock).
THEOREM LockSafe == Spec => []LockDiscipline
  <1>1. ServerInv => LockDiscipline
    BY DEF ServerInv
  <1> QED
    BY <1>1, ServerInvariant, PTL

\* A push that is being written owns both locks and writes right after the
\* checkpoint (Session::push against timeouts and other sessions).
THEOREM PushTail == Spec => []PushOwnsTail
  <1>1. ServerInv => PushOwnsTail
    BY DEF ServerInv
  <1> QED
    BY <1>1, ServerInvariant, PTL

(***************************************************************************)
(* The journal of the server.                                              *)
(***************************************************************************)

\* The end of a push, without hard checkpoints.
LEMMA PushEndEffect ==
    ASSUME TypeOK, ServerInv, UseHard = FALSE, NEW s \in Session, PushEnd(s)
    PROVE  /\ body' = body
           /\ IF push_status[s] = "ok" /\ task[s].until > task[s].from
              THEN /\ checkpoint' = task[s].until /\ published' = task[s].until
                   /\ task[s].from = checkpoint
                   /\ \A i \in 1..(task[s].until - task[s].from) :
                        body[task[s].from + i] = got[s][i]
              ELSE checkpoint' = checkpoint /\ published' = published
  <1>1. body' = body /\ spc[s] = "pushend"
    BY DEF PushEnd
  <1>2. task[s].until \in Int /\ task[s].from \in Int
    BY BoundAssumption DEF TypeOK, Task, Position
  <1>3. CASE push_status[s] = "ok" /\ task[s].until > task[s].from
    <2>1. /\ push_writer[s] # None
          /\ Len(got[s]) = task[s].until - task[s].from
      BY <1>1, <1>3 DEF ServerInv, PushInv
    <2>2. /\ client_lock /\ task[s].from = checkpoint
          /\ push_writer[s] = checkpoint + Len(got[s])
          /\ \A i \in 1..Len(got[s]) : body[checkpoint + i] = got[s][i]
      BY <2>1 DEF ServerInv, PushOwnsTail
    <2>3. push_writer[s] = task[s].until
      BY <1>2, <2>1, <2>2
    <2>4. Max2(checkpoint, push_writer[s]) = task[s].until
      BY <1>2, <1>3, <2>2, <2>3 DEF Max2
    <2>5. checkpoint' = task[s].until /\ published' = task[s].until
      BY <1>3, <2>1, <2>2, <2>4 DEF PushEnd, CheckpointPush
    <2> QED
      BY <1>1, <1>3, <2>1, <2>2, <2>5
  <1>4. CASE ~(push_status[s] = "ok" /\ task[s].until > task[s].from)
    <2>1. ~(task[s].until > task[s].from /\ push_writer[s] # None)
      BY <1>4 DEF ServerInv, PushInv
    <2>2. checkpoint' = checkpoint /\ published' = published
      BY <2>1 DEF PushEnd, journalVars
    <2> QED
      BY <1>1, <1>4, <2>2
  <1> QED
    BY <1>3, <1>4

\* Without hard checkpoints, an accepted push is in the journal entirely and
\* where the client wanted it; a refused or abandoned one leaves no trace
\* (Session::push, with Writable_Journal::soft_checkpoint_at).
THEOREM PushAtomic ==
    ASSUME UseHard = FALSE
    PROVE  Spec => PushAllOrNothing
  <1>1. TypeOK /\ ServerInv /\ [Next]_vars =>
          [\A s \in Session : PushEnd(s) =>
             IF push_status[s] = "ok" /\ task[s].until > task[s].from
             THEN /\ checkpoint' = task[s].until /\ published' = task[s].until
                  /\ \A i \in 1..(task[s].until - task[s].from) :
                       body'[task[s].from + i] = got[s][i]
             ELSE checkpoint' = checkpoint /\ published' = published]_vars
    <2> SUFFICES ASSUME TypeOK, ServerInv, NEW s \in Session, PushEnd(s)
                 PROVE
                   IF push_status[s] = "ok" /\ task[s].until > task[s].from
                   THEN /\ checkpoint' = task[s].until
                        /\ published' = task[s].until
                        /\ \A i \in 1..(task[s].until - task[s].from) :
                             body'[task[s].from + i] = got[s][i]
                   ELSE checkpoint' = checkpoint /\ published' = published
      OBVIOUS
    <2> QED
      BY PushEndEffect
  <1> QED
    BY <1>1, ServerInvariant, PTL DEF Spec, PushAllOrNothing

\* Without hard checkpoints, no step shortens the journal of the server or
\* changes what is in it.
LEMMA JournalGrows ==
    ASSUME TypeOK, ServerInv, UseHard = FALSE, [Next]_vars
    PROVE  /\ checkpoint <= checkpoint'
           /\ \A i \in 1..MaxSize : i <= checkpoint => body'[i] = body[i]
  <1> DEFINE G == /\ checkpoint <= checkpoint'
                  /\ \A i \in 1..MaxSize : i <= checkpoint => body'[i] = body[i]
  <1>t. checkpoint \in Int /\ published \in Int /\ checkpoint <= published
    BY BoundAssumption DEF TypeOK, Position, ServerInv, FileInv
  <1>0. ASSUME checkpoint' \in {checkpoint, published}, body' = body
        PROVE  G
    BY <1>0, <1>t
  <1>1. ASSUME NEW s \in Session,
               \/ Accept(s) \/ Replied(s) \/ Disconnect(s) \/ LockTwice(s)
               \/ LockWait(s) \/ TimeoutExpires(s) \/ TimeoutHandler(s)
               \/ PullExpires(s) \/ PullResume(s) \/ PullTail(s)
               \/ SendChunk(s) \/ CheckHash(s) \/ UnlockRequest(s)
               \/ PushRefused(s) \/ PushStart(s) \/ PushDone(s)
        PROVE  G
    <2>1. checkpoint' = checkpoint /\ body' = body
      BY <1>1 DEF Accept, Replied, Disconnect, LockTwice, LockWait,
        TimeoutExpires, TimeoutHandler, PullExpires, PullResume, PullTail,
        SendChunk, CheckHash, UnlockRequest, PushRefused, PushStart, PushDone,
        fileVars, journalVars
    <2> QED
      BY <2>1, <1>0
  <1>2. ASSUME NEW s \in Session, NEW from \in Position, NEW until \in Position,
               Read(s, from, until)
        PROVE  G
    BY <1>2, <1>0 DEF Read, fileVars, journalVars
  <1>3. ASSUME NEW s \in Session, NEW unlock_after \in BOOLEAN,
               NEW from \in Position, NEW until \in Position,
               Push(s, unlock_after, from, until)
        PROVE  G
    BY <1>3, <1>0 DEF Push, fileVars, journalVars
  <1>4. ASSUME NEW s \in Session, NEW lock \in BOOLEAN, NEW data \in BOOLEAN,
               NEW wait \in BOOLEAN, NEW from \in Position,
               Pull(s, lock, data, wait, from)
        PROVE  G
    <2>1. checkpoint' \in {checkpoint, published} /\ UNCHANGED fileVars
      BY <1>4, PullEffect
    <2> QED
      BY <2>1, <1>0 DEF fileVars
  <1>5. ASSUME Restart PROVE G
    BY <1>5, <1>0 DEF Restart, PullFile, fileVars
  <1>6. ASSUME NEW s \in Session, LockNow(s) \/ LockResume(s) PROVE G
    BY <1>6, <1>0 DEF LockNow, LockResume, Obtain, PullFile, fileVars, journalVars
  <1>7. ASSUME NEW v \in Value, ExternalAppend(v) PROVE G
    <2>1. /\ checkpoint' = checkpoint
          /\ body' = [body EXCEPT ![published + 1] = v]
      BY <1>7 DEF ExternalAppend, journalVars
    <2>2. \A i \in 1..MaxSize : i <= checkpoint => i # published + 1
      BY <1>t, BoundAssumption
    <2> QED
      BY <1>t, <2>1, <2>2 DEF TypeOK
  <1>8. ASSUME NEW s \in Session, NEW v \in Value, PushData(s, v) PROVE G
    <2>1. checkpoint' = checkpoint
      BY <1>8 DEF PushData, journalVars
    <2>2. CASE push_writer[s] = None
      BY <1>0, <1>8, <2>1, <2>2 DEF PushData
    <2>3. CASE push_writer[s] # None
      <3>1. body' = [body EXCEPT ![push_writer[s] + 1] = v]
        BY <1>8, <2>3, PushDataEffect
      <3>2. push_writer[s] = checkpoint + Len(got[s]) /\ Len(got[s]) \in Nat
        BY <1>8, <2>3, PushDataEffect DEF ServerInv, PushOwnsTail
      <3>3. \A i \in 1..MaxSize : i <= checkpoint => i # push_writer[s] + 1
        BY <1>t, <3>2, BoundAssumption
      <3> QED
        BY <1>t, <2>1, <3>1, <3>3 DEF TypeOK
    <2> QED
      BY <2>2, <2>3
  <1>9. ASSUME NEW s \in Session, PushEnd(s) PROVE G
    <2>1. /\ body' = body
          /\ \/ /\ task[s].from = checkpoint /\ task[s].until > task[s].from
                /\ checkpoint' = task[s].until
             \/ checkpoint' = checkpoint
      BY <1>9, PushEndEffect
    <2>2. task[s].until \in Int /\ task[s].from \in Int
      BY BoundAssumption DEF TypeOK, Task, Position
    <2> QED
      BY <1>t, <2>1, <2>2
  <1>10. ASSUME UNCHANGED vars PROVE G
    BY <1>10, <1>0 DEF vars, fileVars, journalVars
  <1> HIDE DEF G
  <1>11. ASSUME NEW s \in Session, Progress(s) PROVE G
    BY <1>11, <1>1, <1>6, <1>9 DEF Progress
  <1>12. ASSUME NEW s \in Session, ClientStep(s) PROVE G
    BY <1>12, <1>1, <1>2, <1>3, <1>4, <1>8 DEF ClientStep
  <1>13. ASSUME NEW s \in Session, TimeoutExpires(s) \/ PullExpires(s) PROVE G
    BY <1>13, <1>1
  <1>14. ASSUME Next PROVE G
    BY <1>14, <1>5, <1>7, <1>11, <1>12, <1>13 DEF Next
  <1>15. G
    BY <1>10, <1>14
  <1> QED
    BY <1>15 DEF G

\* Without hard checkpoints, the journal that the server shows to its
\* sessions implements the log of SharedLog: timeouts, disconnections,
\* restarts and other processes can only make it grow.
THEOREM GrowingLog ==
    ASSUME UseHard = FALSE
    PROVE  Spec => ServesGrowingLog
  <1> DEFINE c == [i \in 1..MaxSize |-> IF i <= checkpoint THEN body[i] ELSE Zero]
  <1>1. TypeOK /\ TypeOK' /\ ServerInv /\ [Next]_vars => [Log!Next]_(Log!vars)
    <2> SUFFICES ASSUME TypeOK, TypeOK', ServerInv, [Next]_vars
                 PROVE  [Log!Next]_(Log!vars)
      OBVIOUS
    <2>0. checkpoint <= checkpoint'
      BY JournalGrows
    <2>1. \A i \in 1..MaxSize : i <= checkpoint => body'[i] = body[i]
      BY JournalGrows
    <2>2. checkpoint \in 0..MaxSize /\ checkpoint' \in 0..MaxSize /\ MaxSize \in Nat
      BY BoundAssumption DEF TypeOK, Position
    <2>3. c' \in [1..MaxSize -> Value \cup {Zero}]
      BY DEF TypeOK
    <2>4. \A i \in 1..MaxSize : ~(checkpoint < i /\ i <= checkpoint') => c'[i] = c[i]
      BY <2>0, <2>1, <2>2
    <2>5. CASE checkpoint' = checkpoint
      <3>1. c' = c
        BY <2>1, <2>5
      <3> QED
        BY <2>5, <3>1 DEF Log!vars
    <2>6. CASE checkpoint' # checkpoint
      <3>1. checkpoint' + 1 \in (checkpoint + 1) + 1 .. MaxSize + 1
        <4>1. \A a, b \in 0..MaxSize : a <= b /\ b # a =>
                b + 1 \in (a + 1) + 1 .. MaxSize + 1
          BY <2>2
        <4> QED
          BY <4>1, <2>0, <2>2, <2>6
      <3>2. Log!Offset = 1..MaxSize
        BY <2>2 DEF Log!Offset
      <3>3. \A i \in 1..MaxSize :
              i \notin checkpoint + 1 .. (checkpoint' + 1) - 1 => c'[i] = c[i]
        BY <2>2, <2>4
      <3> QED
        BY <2>3, <3>1, <3>2, <3>3 DEF Log!Next, Log!Publish
    <2> QED
      BY <2>5, <2>6
  <1> QED
    BY <1>1, ServerInvariant, PTL DEF Spec, ServesGrowingLog

(***************************************************************************)
(* Sessions that send or wait for the journal.                             *)
(***************************************************************************)

\* What a session sends is within the journal when it starts to send, and
\* advances within its range.
LEMMA SendStep ==
    ASSUME TypeOK, ServerInv, SendsJournal, [Next]_vars
    PROVE  \A x \in Session : spc'[x] = "send" =>
             \/ spc[x] = "send" /\ task'[x] = task[x]
             \/ /\ task'[x].from <= task'[x].until
                /\ \/ task'[x].until <= checkpoint
                   \/ spc[x] = "send" /\ task'[x].until = task[x].until
  <1> DEFINE Q(x) == spc'[x] = "send" =>
             \/ spc[x] = "send" /\ task'[x] = task[x]
             \/ /\ task'[x].from <= task'[x].until
                /\ \/ task'[x].until <= checkpoint
                   \/ spc[x] = "send" /\ task'[x].until = task[x].until
             G == \A x \in Session : Q(x)
  <1>t. /\ checkpoint \in Int
        /\ \A x \in Session : task[x].from \in Int /\ task[x].until \in Int
    BY BoundAssumption DEF TypeOK, Task, Position
  <1>0. ASSUME spc' = spc, task' = task
        PROVE  G
    BY <1>0
  <1>1. ASSUME NEW s \in Session, NEW p, p # "send",
               spc' = [spc EXCEPT ![s] = p],
               \E t : task' = [task EXCEPT ![s] = t]
        PROVE  G
    <2>1. \A x \in Session : x # s => spc'[x] = spc[x] /\ task'[x] = task[x]
      BY <1>1 DEF TypeOK
    <2>2. spc'[s] # "send"
      BY <1>1 DEF TypeOK
    <2> QED
      BY <2>1, <2>2
  <1>2. ASSUME NEW s \in Session, NEW p, p # "send",
               spc' = [spc EXCEPT ![s] = p], task' = task
        PROVE  G
    BY <1>2 DEF TypeOK
  <1>3. ASSUME NEW s \in Session, End(s)
        PROVE  G
    BY <1>3, <1>1 DEF End, Goto
  <1>4. ASSUME NEW s \in Session,
               \/ Disconnect(s) \/ LockTwice(s) \/ PushRefused(s)
        PROVE  G
    BY <1>4, <1>3 DEF Disconnect, LockTwice, PushRefused
  <1>5. ASSUME NEW s \in Session,
               \/ Accept(s) \/ Replied(s) \/ LockWait(s) \/ CheckHash(s)
               \/ UnlockRequest(s) \/ PushEnd(s)
        PROVE  G
    BY <1>5, <1>2 DEF Accept, Replied, LockWait, CheckHash, UnlockRequest,
      PushEnd, Goto
  <1>6. ASSUME NEW s \in Session,
               \/ TimeoutExpires(s) \/ TimeoutHandler(s) \/ PullExpires(s)
        PROVE  G
    BY <1>6, <1>0 DEF TimeoutExpires, TimeoutHandler, PullExpires
  <1>7. ASSUME NEW s \in Session, LockNow(s) \/ LockResume(s)
        PROVE  G
    BY <1>7, <1>2 DEF LockNow, LockResume, AfterLock, Goto
  <1>8. ASSUME NEW s \in Session, PullResume(s)
        PROVE  G
    BY <1>8, <1>2 DEF PullResume, AfterPull, Goto
  <1>9. ASSUME NEW s \in Session, PushStart(s)
        PROVE  G
    <2>1. PICK p \in {"recv", "pushend"} : spc' = [spc EXCEPT ![s] = p]
      BY <1>9, PushStartEffect
    <2>2. task' = task
      BY <1>9, PushStartEffect
    <2> QED
      BY <2>1, <2>2, <1>2
  <1>10. ASSUME NEW s \in Session, PushDone(s)
        PROVE  G
    BY <1>10, <1>1 DEF PushDone, Goto
  <1>11. ASSUME NEW s \in Session, NEW v \in Value, PushData(s, v)
        PROVE  G
    <2>1. task' = task /\ (spc' = spc \/ spc' = [spc EXCEPT ![s] = "pushend"])
      BY <1>11 DEF PushData, Goto
    <2> QED
      BY <2>1, <1>0, <1>2
  <1>12. ASSUME NEW s \in Session, NEW unlock_after \in BOOLEAN,
               NEW from \in Position, NEW until \in Position,
               Push(s, unlock_after, from, until)
        PROVE  G
    BY <1>12, <1>1 DEF Push, Goto
  <1>13. ASSUME NEW s \in Session, NEW lock \in BOOLEAN, NEW data \in BOOLEAN,
               NEW wait \in BOOLEAN, NEW from \in Position,
               Pull(s, lock, data, wait, from)
        PROVE  G
    <2>1. PICK p \in {"pullwait", "lock", "tail"} : spc' = [spc EXCEPT ![s] = p]
      BY <1>13, PullEffect
    <2>2. \E t : task' = [task EXCEPT ![s] = t]
      BY <1>13, PullEffect
    <2> QED
      BY <2>1, <2>2, <1>1
  <1>14. ASSUME NEW s \in Session, NEW from \in Position, NEW until \in Position,
               Read(s, from, until)
        PROVE  G
    <2> DEFINE u == Min2(until, checkpoint)
               t == [NoTask EXCEPT !.from = Min2(from, u), !.until = u]
    <2>1. from \in Int /\ until \in Int
      BY BoundAssumption DEF Position
    <2>2. u \in Int /\ u <= checkpoint
      BY <2>1, <1>t DEF Min2
    <2> HIDE DEF u
    <2>3. Min2(from, u) <= u
      BY <2>1, <2>2 DEF Min2
    <2>4. t.from = Min2(from, u) /\ t.until = u
      BY DEF NoTask
    <2>5. /\ spc' = [spc EXCEPT ![s] = "send"]
          /\ task' = [task EXCEPT ![s] = t]
      BY <1>14 DEF Read, Goto, u
    <2> HIDE DEF t
    <2>6. \A x \in Session : x # s => spc'[x] = spc[x] /\ task'[x] = task[x]
      BY <2>5 DEF TypeOK
    <2>7. task'[s] = t
      BY <2>5 DEF TypeOK
    <2> QED
      BY <2>2, <2>3, <2>4, <2>6, <2>7
  <1>15. ASSUME NEW s \in Session, PullTail(s)
        PROVE  G
    <2> DEFINE f == IF task[s].data THEN Min2(task[s].from, checkpoint) ELSE checkpoint
    <2>1. f <= checkpoint /\ checkpoint <= checkpoint
      BY <1>t DEF Min2
    <2>2. \A x \in Session : x # s => spc'[x] = spc[x] /\ task'[x] = task[x]
      BY <1>15 DEF TypeOK, PullTail, Goto
    <2>3. task'[s].from = f /\ task'[s].until = checkpoint
      BY <1>15 DEF TypeOK, Task, PullTail
    <2> HIDE DEF f
    <2> QED
      BY <2>1, <2>2, <2>3, <1>t
  <1>16. ASSUME NEW s \in Session, SendChunk(s)
        PROVE  G
    <2>1. \A x \in Session : x # s => spc'[x] = spc[x] /\ task'[x] = task[x]
      BY <1>16 DEF TypeOK, SendChunk, Goto
    <2>2. /\ task'[s].from = Min2(task[s].from + 1, task[s].until)
          /\ task'[s].until = task[s].until /\ spc[s] = "send"
      BY <1>16 DEF TypeOK, Task, SendChunk
    <2>3. task'[s].from <= task'[s].until
      BY <2>2, <1>t DEF Min2
    <2> QED
      BY <2>1, <2>2, <2>3
  <1>17. ASSUME Restart PROVE G
    BY <1>17 DEF Restart
  <1>18. ASSUME NEW v \in Value, ExternalAppend(v) PROVE G
    BY <1>18, <1>0 DEF ExternalAppend
  <1>19. ASSUME UNCHANGED vars PROVE G
    BY <1>19, <1>0 DEF vars
  <1> HIDE DEF G
  <1>20. ASSUME NEW s \in Session, Progress(s) PROVE G
    BY <1>20, <1>4, <1>5, <1>6, <1>7, <1>8, <1>9, <1>10, <1>15 DEF Progress
  <1>21. ASSUME NEW s \in Session, ClientStep(s) PROVE G
    BY <1>21, <1>4, <1>5, <1>11, <1>12, <1>13, <1>14, <1>16 DEF ClientStep
  <1>22. ASSUME Next PROVE G
    BY <1>22, <1>6, <1>17, <1>18, <1>20, <1>21 DEF Next
  <1>23. G
    BY <1>19, <1>22
  <1> QED
    BY <1>23 DEF G

\* Without hard checkpoints, whatever a session sends stays part of the
\* journal while it is being sent, in as many chunks as it takes and
\* whatever the other sessions do meanwhile (Session::send, with the reader
\* that pull and read prepare).
THEOREM SentIsJournal ==
    ASSUME UseHard = FALSE
    PROVE  Spec => []SendsJournal
  <1>1. Init => SendsJournal
    BY DEF Init, SendsJournal
  <1>2. /\ TypeOK /\ TypeOK' /\ ServerInv /\ SendsJournal /\ [Next]_vars
        => SendsJournal'
    <2> SUFFICES ASSUME TypeOK, TypeOK', ServerInv, SendsJournal, [Next]_vars,
                        NEW x \in Session, spc'[x] = "send"
                 PROVE  /\ task'[x].from <= task'[x].until
                        /\ task'[x].until <= checkpoint'
      BY DEF SendsJournal
    <2>1. checkpoint <= checkpoint'
      BY JournalGrows
    <2>4. /\ checkpoint \in Int /\ checkpoint' \in Int /\ task'[x].until \in Int
      BY BoundAssumption DEF TypeOK, Task, Position
    <2>2. spc[x] = "send" =>
            task[x].from <= task[x].until /\ task[x].until <= checkpoint
      BY DEF SendsJournal
    <2>3. /\ task'[x].from <= task'[x].until
          /\ task'[x].until <= checkpoint
      BY <2>2, SendStep
    <2> QED
      BY <2>1, <2>3, <2>4
  <1> QED
    BY <1>1, <1>2, ServerInvariant, PTL DEF Spec

\* The inductive form of PullersInformed.  A server that does not share its
\* file never gives the lock of the file away, so that its journal only
\* changes at the end of a push; from there to PushDone, which wakes up
\* everybody, the pushing session is the only one that runs.
PullersInv ==
    ~shared =>
        /\ client_lock
        /\ \A s \in Session : spc[s] = "pullwait" /\ s \notin woken =>
             /\ s \in pull_waiters
             /\ \/ task[s].from = checkpoint
                \/ \E t \in Session : spc[t] = "pushdone"

\* A session that goes on waiting is not affected by the steps of the others.
LEMMA PullersFrame ==
    ASSUME TypeOK, PullersInv, shared' = shared, ~shared => client_lock',
           ~shared => checkpoint' = checkpoint,
           \A t \in Session : spc[t] = "pushdone" => spc'[t] = "pushdone",
           \A x \in Session : spc'[x] = "pullwait" /\ x \notin woken' =>
             /\ spc[x] = "pullwait" /\ x \notin woken
             /\ x \in pull_waiters => x \in pull_waiters'
             /\ task'[x] = task[x]
    PROVE  PullersInv'
  <1> SUFFICES ASSUME ~shared PROVE PullersInv'
    BY DEF PullersInv
  <1>1. client_lock'
    OBVIOUS
  <1>2. ASSUME NEW x \in Session, spc'[x] = "pullwait", x \notin woken'
        PROVE  /\ x \in pull_waiters'
               /\ \/ task'[x].from = checkpoint'
                  \/ \E t \in Session : spc'[t] = "pushdone"
    <2>1. /\ x \in pull_waiters
          /\ task[x].from = checkpoint \/ \E t \in Session : spc[t] = "pushdone"
      BY <1>2 DEF PullersInv
    <2> QED
      BY <1>2, <2>1
  <1> QED
    BY <1>1, <1>2 DEF PullersInv

\* Every step keeps the sessions that wait in pull informed.
LEMMA PullersNext ==
    ASSUME TypeOK, ServerInv, PullersInv, [Next]_vars
    PROVE  PullersInv'
  <1>a. RunInv /\ WaitInv /\ QueueInv
    BY DEF ServerInv
  <1>b. ~shared => client_lock
    BY DEF PullersInv
  \* Nobody runs, or s does and is not at the end of a push: the session goes
  \* to p, which is not where it waits for a push.
  <1>0. ASSUME NEW s \in Session, NEW p, p # "pullwait", run \in {s, None},
               spc[s] # "pushdone", spc' = [spc EXCEPT ![s] = p],
               shared' = shared, ~shared => client_lock' /\ checkpoint' = checkpoint,
               \A x \in Session : x # s => task'[x] = task[x],
               \A x \in Session : x # s /\ spc[x] = "pullwait" =>
                 /\ x \notin woken' => x \notin woken
                 /\ x \in pull_waiters => x \in pull_waiters'
        PROVE  PullersInv'
    <2>1. \A x \in Session : x # s => spc'[x] = spc[x]
      BY <1>0 DEF TypeOK
    <2>2. spc'[s] # "pullwait"
      BY <1>0 DEF TypeOK
    <2>3. \A x \in Session : spc'[x] = "pullwait" /\ x \notin woken' =>
             /\ spc[x] = "pullwait" /\ x \notin woken
             /\ x \in pull_waiters => x \in pull_waiters'
             /\ task'[x] = task[x]
      BY <1>0, <2>1, <2>2
    <2>4. \A t \in Session : spc[t] = "pushdone" => spc'[t] = "pushdone"
      BY <1>0, <2>1
    <2> QED
      BY <1>0, <2>3, <2>4, PullersFrame
  <1>u. ASSUME NEW s \in Session, NEW W, unlock(s, W)
        PROVE  /\ ~shared => client_lock'
               /\ woken \subseteq woken'
    BY <1>b, <1>u DEF unlock
  <1>e. ASSUME NEW s \in Session, End(s), spc[s] # "pushdone",
               run \in {s, None}, UNCHANGED <<fileVars, journalVars>>
        PROVE  PullersInv'
    <2>1. /\ ~shared => client_lock'
          /\ woken \subseteq woken'
      BY <1>e, <1>u DEF End
    <2>2. /\ spc' = [spc EXCEPT ![s] = "closed"]
          /\ task' = [task EXCEPT ![s] = NoTask]
          /\ pull_waiters' = pull_waiters \ {s}
      BY <1>e DEF End, Goto
    <2>3. \A x \in Session : x # s => task'[x] = task[x]
      BY <2>2 DEF TypeOK
    <2> QED
      BY <1>e, <1>0, <2>1, <2>2, <2>3 DEF fileVars, journalVars
  <1>1. ASSUME NEW s \in Session,
               \/ Disconnect(s) \/ LockTwice(s) \/ PushRefused(s)
        PROVE  PullersInv'
    BY <1>1, <1>e DEF Disconnect, LockTwice, PushRefused, Request
  <1>2. ASSUME NEW s \in Session,
               \/ Accept(s) \/ Replied(s) \/ LockWait(s) \/ CheckHash(s)
        PROVE  PullersInv'
    <2>1. /\ run \in {s, None} /\ spc[s] # "pushdone"
          /\ \E p : p # "pullwait" /\ spc' = [spc EXCEPT ![s] = p]
          /\ UNCHANGED <<shared, client_lock, checkpoint, task, woken, pull_waiters>>
      BY <1>2 DEF Accept, Replied, LockWait, CheckHash, Request, Goto,
        fileVars, journalVars, lockVars, waitVars
    <2> QED
      BY <2>1, <1>b, <1>0
  <1>3. ASSUME NEW s \in Session, UnlockRequest(s)
        PROVE  PullersInv'
    <2>1. /\ run = None /\ spc[s] # "pushdone" /\ unlock(s, {})
          /\ spc' = [spc EXCEPT ![s] = "reply"]
          /\ UNCHANGED <<shared, checkpoint, task, pull_waiters>>
      BY <1>3 DEF UnlockRequest, Request, Goto, fileVars, journalVars
    <2> QED
      BY <2>1, <1>u, <1>0
  <1>4. ASSUME NEW s \in Session, PushEnd(s)
        PROVE  PullersInv'
    <2> SUFFICES ASSUME ~shared PROVE PullersInv'
      BY <1>4 DEF PullersInv, PushEnd
    <2>1. client_lock'
      BY <1>4, <1>b DEF PushEnd
    <2>2. /\ spc' = [spc EXCEPT ![s] = "pushdone"] /\ spc[s] = "pushend"
          /\ woken' = woken /\ pull_waiters' = pull_waiters
      BY <1>4 DEF PushEnd, Goto, waitVars
    <2>3. spc'[s] = "pushdone" /\ \A x \in Session : x # s => spc'[x] = spc[x]
      BY <2>2 DEF TypeOK
    <2>4. \A x \in Session : spc'[x] = "pullwait" /\ x \notin woken' =>
            x \in pull_waiters'
      BY <2>2, <2>3 DEF PullersInv
    <2> QED
      BY <2>1, <2>3, <2>4 DEF PullersInv
  <1>5. ASSUME NEW s \in Session,
               \/ TimeoutExpires(s) \/ TimeoutHandler(s) \/ PullExpires(s)
        PROVE  PullersInv'
    <2>1. /\ UNCHANGED <<shared, checkpoint, task, spc, pull_waiters>>
          /\ \/ client_lock' = client_lock /\ woken \subseteq woken'
             \/ unlock(s, {})
      BY <1>5 DEF TimeoutExpires, TimeoutHandler, PullExpires, fileVars,
        journalVars, lockVars, waitVars
    <2>2. (~shared => client_lock') /\ woken \subseteq woken'
      BY <2>1, <1>u, <1>b
    <2> QED
      BY <2>1, <2>2, PullersFrame
  <1>6. ASSUME NEW s \in Session, LockNow(s) \/ LockResume(s)
        PROVE  PullersInv'
    <2>1. /\ run \in {s, None} /\ spc[s] # "pushdone"
          /\ spc' = [spc EXCEPT ![s] = AfterLock(s)]
          /\ shared' = shared /\ task' = task /\ pull_waiters' = pull_waiters
          /\ Obtain(s) /\ woken' \in {woken, woken \ {s}}
      BY <1>6 DEF LockNow, LockResume, Goto, fileVars, waitVars
    <2>2. ~shared => client_lock' /\ checkpoint' = checkpoint
      BY <2>1, <1>b DEF Obtain, journalVars
    <2>3. AfterLock(s) # "pullwait"
      BY DEF AfterLock
    <2> QED
      BY <2>1, <2>2, <2>3, <1>0
  <1>7. ASSUME NEW s \in Session, PullResume(s)
        PROVE  PullersInv'
    <2>1. /\ run = None /\ spc[s] # "pushdone"
          /\ spc' = [spc EXCEPT ![s] = AfterPull(task[s])]
          /\ UNCHANGED <<shared, client_lock, checkpoint, task>>
          /\ woken' = woken \ {s} /\ pull_waiters' = pull_waiters \ {s}
      BY <1>7 DEF PullResume, Goto, fileVars, journalVars, lockVars
    <2>2. AfterPull(task[s]) # "pullwait"
      BY DEF AfterPull
    <2> QED
      BY <2>1, <2>2, <1>b, <1>0
  <1>8. ASSUME NEW s \in Session, PushStart(s)
        PROVE  PullersInv'
    <2>1. PICK p \in {"recv", "pushend"} : spc' = [spc EXCEPT ![s] = p]
      BY <1>8, PushStartEffect
    <2>2. /\ run = s /\ spc[s] = "push"
          /\ UNCHANGED <<fileVars, journalVars, client_lock, waitVars, task>>
      BY <1>8, PushStartEffect
    <2> QED
      BY <2>1, <2>2, <1>b, <1>0 DEF fileVars, journalVars, waitVars
  <1>9. ASSUME NEW s \in Session, PushDone(s)
        PROVE  PullersInv'
    <2> SUFFICES ASSUME ~shared PROVE PullersInv'
      BY <1>9 DEF PullersInv, PushDone, fileVars
    <2>1. client_lock' /\ woken \cup pull_waiters \subseteq woken'
      BY <1>9, <1>b DEF PushDone, unlock
    <2>2. spc' = [spc EXCEPT ![s] = "reply"]
      BY <1>9 DEF PushDone, Goto
    <2>3. \A x \in Session : spc'[x] = "pullwait" => spc[x] = "pullwait"
      BY <2>2 DEF TypeOK
    <2>4. \A x \in Session : spc'[x] = "pullwait" => x \in woken'
      BY <2>1, <2>3 DEF PullersInv
    <2> QED
      BY <2>1, <2>4 DEF PullersInv
  <1>10. ASSUME NEW s \in Session, NEW v \in Value, PushData(s, v)
        PROVE  PullersInv'
    <2>1. /\ run = None /\ spc[s] = "recv"
          /\ UNCHANGED <<shared, client_lock, checkpoint, task, woken, pull_waiters>>
      BY <1>10 DEF PushData, journalVars, waitVars
    <2>2. spc' = spc \/ spc' = [spc EXCEPT ![s] = "pushend"]
      BY <1>10 DEF PushData, Goto
    <2>3. CASE spc' = spc
      BY <2>1, <2>3, <1>b, PullersFrame
    <2>4. CASE spc' = [spc EXCEPT ![s] = "pushend"]
      BY <2>1, <2>4, <1>b, <1>0
    <2> QED
      BY <2>2, <2>3, <2>4
  <1>11. ASSUME NEW s \in Session, NEW unlock_after \in BOOLEAN,
               NEW from \in Position, NEW until \in Position,
               Push(s, unlock_after, from, until)
        PROVE  PullersInv'
    <2>1. /\ run = None /\ spc[s] # "pushdone"
          /\ \E p : p # "pullwait" /\ spc' = [spc EXCEPT ![s] = p]
          /\ UNCHANGED <<shared, client_lock, checkpoint, woken, pull_waiters>>
      BY <1>11 DEF Push, Request, Goto, fileVars, journalVars, lockVars, waitVars
    <2>2. \A x \in Session : x # s => task'[x] = task[x]
      BY <1>11 DEF Push, TypeOK
    <2> QED
      BY <2>1, <2>2, <1>b, <1>0
  <1>12. ASSUME NEW s \in Session, NEW from \in Position, NEW until \in Position,
               Read(s, from, until)
        PROVE  PullersInv'
    <2>1. /\ run = None /\ spc[s] # "pushdone"
          /\ spc' = [spc EXCEPT ![s] = "send"]
          /\ UNCHANGED <<shared, client_lock, checkpoint, woken, pull_waiters>>
      BY <1>12 DEF Read, Request, Goto, fileVars, journalVars, lockVars, waitVars
    <2>2. \A x \in Session : x # s => task'[x] = task[x]
      BY <1>12 DEF Read, TypeOK
    <2> QED
      BY <2>1, <2>2, <1>b, <1>0
  <1>13. ASSUME NEW s \in Session, PullTail(s) \/ SendChunk(s)
        PROVE  PullersInv'
    <2>1. /\ run \in {s, None} /\ spc[s] # "pushdone"
          /\ \E p : p # "pullwait" /\ spc' = [spc EXCEPT ![s] = p]
          /\ UNCHANGED <<shared, client_lock, checkpoint, woken, pull_waiters>>
      BY <1>13 DEF PullTail, SendChunk, Goto, fileVars, journalVars, lockVars,
        waitVars
    <2>2. \A x \in Session : x # s => task'[x] = task[x]
      BY <1>13 DEF PullTail, SendChunk, TypeOK
    <2> QED
      BY <2>1, <2>2, <1>b, <1>0
  <1>14. ASSUME NEW s \in Session, NEW lock \in BOOLEAN, NEW data \in BOOLEAN,
               NEW wait \in BOOLEAN, NEW from \in Position,
               Pull(s, lock, data, wait, from)
        PROVE  PullersInv'
    <2> DEFINE t == [NoTask EXCEPT !.lock = lock, !.data = data, !.from = from]
    <2>1. AfterPull(t) # "pullwait" /\ t.from = from
      BY DEF AfterPull, NoTask
    <2> HIDE DEF t
    <2>2. /\ run = None /\ spc[s] = "idle"
          /\ task' = [task EXCEPT ![s] = t]
          /\ UNCHANGED <<shared, client_lock, woken>>
      BY <1>14 DEF Pull, Request, t, fileVars, lockVars
    <2>3. ~shared => client_lock' /\ checkpoint' = checkpoint
      BY <1>14, <1>b, <2>2 DEF Pull, journalVars
    <2>4. \/ /\ from = checkpoint' /\ pull_waiters' = pull_waiters \cup {s}
             /\ spc' = [spc EXCEPT ![s] = "pullwait"]
          \/ /\ spc' = [spc EXCEPT ![s] = AfterPull(t)]
             /\ pull_waiters' = pull_waiters
      BY <1>14 DEF Pull, Goto, t
    <2>5. \A x \in Session : x # s => task'[x] = task[x]
      BY <2>2 DEF TypeOK
    <2>6. CASE /\ from = checkpoint' /\ pull_waiters' = pull_waiters \cup {s}
               /\ spc' = [spc EXCEPT ![s] = "pullwait"]
      <3> SUFFICES ASSUME ~shared PROVE PullersInv'
        BY <2>2 DEF PullersInv
      <3>1. task'[s].from = checkpoint'
        BY <2>1, <2>2, <2>6 DEF TypeOK
      <3>2. \A x \in Session : x # s => spc'[x] = spc[x]
        BY <2>6 DEF TypeOK
      <3>3. ASSUME NEW x \in Session, spc'[x] = "pullwait", x \notin woken'
            PROVE  /\ x \in pull_waiters'
                   /\ \/ task'[x].from = checkpoint'
                      \/ \E y \in Session : spc'[y] = "pushdone"
        <4>1. CASE x = s
          BY <2>6, <3>1, <4>1
        <4>2. CASE x # s
          <5>1. /\ x \in pull_waiters
                /\ \/ task[x].from = checkpoint
                   \/ \E y \in Session : spc[y] = "pushdone"
            BY <2>2, <3>2, <3>3, <4>2 DEF PullersInv
          <5>2. \A y \in Session : spc[y] # "pushdone"
            BY <1>a, <2>2, NoneAssumption DEF RunInv, Running
          <5> QED
            BY <2>3, <2>5, <2>6, <4>2, <5>1, <5>2
        <4> QED
          BY <4>1, <4>2
      <3> QED
        BY <2>3, <3>3 DEF PullersInv
    <2>7. CASE /\ spc' = [spc EXCEPT ![s] = AfterPull(t)]
               /\ pull_waiters' = pull_waiters
      BY <2>1, <2>2, <2>3, <2>5, <2>7, <1>0
    <2> QED
      BY <2>4, <2>6, <2>7
  <1>15. ASSUME Restart PROVE PullersInv'
    BY <1>15 DEF Restart, PullersInv, fileVars
  <1>16. ASSUME NEW v \in Value, ExternalAppend(v) PROVE PullersInv'
    BY <1>16 DEF ExternalAppend, PullersInv
  <1>17. ASSUME UNCHANGED vars PROVE PullersInv'
    BY <1>17, <1>b, PullersFrame DEF vars, fileVars, journalVars, lockVars, waitVars
  <1>18. ASSUME NEW s \in Session, Progress(s) PROVE PullersInv'
    BY <1>18, <1>1, <1>2, <1>4, <1>5, <1>6, <1>7, <1>8, <1>9, <1>13
    DEF Progress
  <1>19. ASSUME NEW s \in Session, ClientStep(s) PROVE PullersInv'
    BY <1>19, <1>1, <1>2, <1>3, <1>10, <1>11, <1>12, <1>13, <1>14
    DEF ClientStep
  <1>20. ASSUME Next PROVE PullersInv'
    BY <1>20, <1>5, <1>15, <1>16, <1>18, <1>19 DEF Next
  <1> QED
    BY <1>17, <1>20

\* A server that does not share its file leaves nobody waiting in pull for
\* what it already has: the push that changed the journal has woken up every
\* waiter before another handler runs (Session::pull against Session::push,
\* whoever takes and loses the lock meanwhile).
THEOREM PullersWoken == Spec => []PullersInformed
  <1>1. Init => PullersInv
    BY DEF Init, PullersInv
  <1>2. TypeOK /\ ServerInv /\ PullersInv /\ [Next]_vars => PullersInv'
    BY PullersNext
  <1>3. ServerInv /\ PullersInv => PullersInformed
    <2> SUFFICES ASSUME ServerInv, PullersInv PROVE PullersInformed
      OBVIOUS
    <2>1. run = None => \A t \in Session : spc[t] # "pushdone"
      BY NoneAssumption DEF ServerInv, RunInv, Running
    <2> QED
      BY <2>1 DEF PullersInv, PullersInformed
  <1> QED
    BY <1>1, <1>2, <1>3, ServerInvariant, PTL DEF Spec
=============================================================================
