------------------------------- MODULE Server -------------------------------
(***************************************************************************)
(* joedb::Server: one journal served to several sessions by a single       *)
(* thread.  A session is a coroutine; between two awaits it runs alone.    *)
(* The variable run names the session that is between two awaits; every    *)
(* other handler (a request, a resumed wait, a timer) needs run = None.    *)
(*                                                                         *)
(* Positions count from the end of the header.  The client is arbitrary:   *)
(* a session may receive any request at any time, and any data.            *)
(***************************************************************************)
EXTENDS Integers, Sequences

CONSTANTS
    Session,         \* connections (a closed one can be accepted again)
    None,            \* no session; no push_writer
    Value,           \* what one unit of the journal can hold
    Zero,            \* a unit that was never written
    MaxSize,         \* bound on the length of the journal
    MaxRequests,     \* bound on requests and restarts
    StartCheckpoint, \* length of the journal when the server starts
    StartHard,       \* its hard checkpoint
    SharedModes,     \* can the file be shared (Open_Mode::shared_write)?
    LockTimeout,     \* lock_timeout.count() > 0
    UseHard          \* set_hard_checkpoint(true)

ASSUME NoneAssumption == None \notin Session /\ None \notin Nat
ASSUME BoundAssumption == MaxSize \in Nat /\ MaxRequests \in Nat
ASSUME StartAssumption ==
    StartHard \in Nat /\ StartCheckpoint \in StartHard .. MaxSize
ASSUME FlagAssumption ==
    SharedModes \subseteq BOOLEAN /\ LockTimeout \in BOOLEAN /\ UseHard \in BOOLEAN

VARIABLES
    shared,                       \* Client::is_shared
    body, published,              \* the file: content, last checkpoint
    checkpoint, hard, bufpos,     \* the Writable_Journal of the server
    client_lock,                  \* std::optional<Client_Lock> is engaged
    locked, lock_waiters,         \* the lock of the server
    pull_waiters,
    locking,                      \* sessions with locking = true
    woken,                        \* sessions whose timer has completed
    lock_timer, due,              \* lock_timeout_timer; its queued handlers
    spc, task,                    \* where each session is, in which request
    push_writer, push_status, got,\* a push: position, status, data received
    run,                          \* the session that is running
    requests                      \* how many requests can still be received

fileVars    == <<shared, body, published>>
journalVars == <<checkpoint, hard, bufpos>>
lockVars    == <<client_lock, locked, lock_waiters, locking, lock_timer>>
waitVars    == <<pull_waiters, woken>>
pushVars    == <<push_writer, push_status, got>>
vars == <<fileVars, journalVars, lockVars, waitVars, due, spc, task,
          pushVars, run, requests>>

Position == 0..MaxSize
Task == [op: {"pull", "push"}, lock: BOOLEAN, data: BOOLEAN,
         unlock: BOOLEAN, from: Position, until: Position]
NoTask == [op |-> "pull", lock |-> FALSE, data |-> FALSE,
           unlock |-> FALSE, from |-> 0, until |-> 0]

(* Where a session is suspended ("reply": writing an answer; "recv":        *)
(* reading the data of a push), and the points inside a handler at which    *)
(* only the running session can be.                                         *)
Suspended == {"closed", "idle", "pullwait", "lockwait", "send", "recv", "reply"}
Running == {"lock", "tail", "push", "pushend", "pushdone"}

Min2(a, b) == IF a <= b THEN a ELSE b
Max2(a, b) == IF a >= b THEN a ELSE b

Goto(s, point) == spc' = [spc EXCEPT ![s] = point]

(***************************************************************************)
(* The constructor of Server.                                              *)
(***************************************************************************)
Init ==
    /\ body \in [1..MaxSize -> Value \cup {Zero}]
    /\ \A i \in 1..MaxSize : body[i] = Zero <=> i > StartCheckpoint
    /\ published = StartCheckpoint /\ checkpoint = StartCheckpoint
    /\ bufpos = StartCheckpoint /\ hard = StartHard
    /\ shared \in SharedModes
    /\ client_lock = ~shared /\ locked = FALSE /\ lock_waiters = <<>>
    /\ pull_waiters = {} /\ locking = {} /\ woken = {}
    /\ lock_timer = [s \in Session |-> "off"] /\ due = {}
    /\ spc = [s \in Session |-> "closed"]
    /\ task = [s \in Session |-> NoTask]
    /\ push_writer = [s \in Session |-> None]
    /\ push_status = [s \in Session |-> "ok"]
    /\ got = [s \in Session |-> <<>>]
    /\ run = None /\ requests = MaxRequests

(***************************************************************************)
(* Parts of the handlers.                                                  *)
(***************************************************************************)

\* Writable_Client::pull and Client_Lock::Client_Lock, without an upstream
\* connection: the journal reads the checkpoint of the file, and
\* read_journal moves its file buffer there.
PullFile ==
    /\ checkpoint' = published
    /\ bufpos' = published
    /\ UNCHANGED hard

\* Restart the timer of the lock, if the session holds the lock (L is the
\* set of sessions that do).
refresh_lock_timeout(s, L) ==
    IF s \in L /\ LockTimeout
    THEN lock_timer' = [lock_timer EXCEPT ![s] = "armed"]
    ELSE UNCHANGED lock_timer

\* Mutants of Obtain: the journal is not updated when the file lock is
\* taken; the timer of the lock is not started.
MutantObtainNoPull(s) ==
    /\ locked' = TRUE
    /\ locking' = locking \cup {s}
    /\ refresh_lock_timeout(s, locking')
    /\ client_lock' = TRUE
    /\ UNCHANGED journalVars

MutantObtainNoTimer(s) ==
    /\ locked' = TRUE
    /\ locking' = locking \cup {s}
    /\ client_lock' = TRUE
    /\ IF client_lock THEN UNCHANGED journalVars ELSE PullFile
    /\ UNCHANGED lock_timer

\* The end of Session::lock: the session gets the lock.
Obtain(s) ==
    /\ locked' = TRUE
    /\ locking' = locking \cup {s}
    /\ refresh_lock_timeout(s, locking')
    /\ client_lock' = TRUE
    /\ IF client_lock THEN UNCHANGED journalVars ELSE PullFile

\* Mutant of unlock: the lock is released even if somebody waits for it.
MutantUnlock(s, W) ==
    IF s \in locking
    THEN /\ locking' = locking \ {s}
         /\ lock_timer' = [lock_timer EXCEPT ![s] = "off"]
         /\ locked' = FALSE
         /\ client_lock' = (client_lock /\ ~shared)
         /\ woken' = woken \cup W \cup
              (IF lock_waiters = <<>> THEN {} ELSE {Head(lock_waiters)})
    ELSE /\ woken' = woken \cup W
         /\ UNCHANGED <<locking, lock_timer, locked, client_lock>>

\* Session::unlock.  The lock is handed over to the first waiter, which finds
\* out when it resumes; W is what else wakes up.
unlock(s, W) ==
    IF s \in locking
    THEN /\ locking' = locking \ {s}
         /\ lock_timer' = [lock_timer EXCEPT ![s] = "off"]
         /\ IF lock_waiters = <<>>
            THEN /\ locked' = FALSE
                 /\ client_lock' = (client_lock /\ ~shared)
                 /\ woken' = woken \cup W
            ELSE /\ woken' = woken \cup W \cup {Head(lock_waiters)}
                 /\ UNCHANGED <<locked, client_lock>>
    ELSE /\ woken' = woken \cup W
         /\ UNCHANGED <<locking, lock_timer, locked, client_lock>>

\* Session::remove_from_queue: erase s, which is there once at most (QueueInv).
remove_from_queue(q, s) ==
    IF \E i \in 1..Len(q) : q[i] = s
    THEN LET i == CHOOSE i \in 1..Len(q) : q[i] = s
         IN  SubSeq(q, 1, i - 1) \o SubSeq(q, i + 1, Len(q))
    ELSE q

\* The coroutine of the session ends: cleanup, then the session is destroyed.
\* A session that waits does not notice that its client is gone, so that it
\* is in no queue when it ends.
End(s) ==
    /\ unlock(s, {})
    /\ lock_waiters' = remove_from_queue(lock_waiters, s)
    /\ pull_waiters' = pull_waiters \ {s}
    /\ push_writer' = [push_writer EXCEPT ![s] = None]
    /\ push_status' = [push_status EXCEPT ![s] = "ok"]
    /\ got' = [got EXCEPT ![s] = <<>>]
    /\ task' = [task EXCEPT ![s] = NoTask]
    /\ Goto(s, "closed")
    /\ run' = None

\* A request has been read.
Request(s) ==
    /\ run = None
    /\ spc[s] = "idle"
    /\ requests > 0
    /\ requests' = requests - 1

(***************************************************************************)
(* Connection, disconnection, restart.                                     *)
(***************************************************************************)

\* The listener accepts a connection, and the session answers its handshake.
Accept(s) ==
    /\ run = None
    /\ spc[s] = "closed"
    /\ Goto(s, "reply")
    /\ UNCHANGED <<fileVars, journalVars, lockVars, waitVars, due, task,
                   pushVars, run, requests>>

\* The client reads the last bytes of an answer.
Replied(s) ==
    /\ run = None
    /\ spc[s] = "reply"
    /\ Goto(s, "idle")
    /\ UNCHANGED <<fileVars, journalVars, lockVars, waitVars, due, task,
                   pushVars, run, requests>>

\* The client quits, or a read or a write fails.
Disconnect(s) ==
    /\ run = None
    /\ spc[s] \in {"idle", "send", "recv", "reply"}
    /\ End(s)
    /\ UNCHANGED <<fileVars, journalVars, due, requests>>

\* The server stops, or is killed, and starts again on the same file.
Restart ==
    /\ requests > 0
    /\ requests' = requests - 1
    /\ PullFile
    /\ client_lock' = ~shared /\ locked' = FALSE /\ lock_waiters' = <<>>
    /\ pull_waiters' = {} /\ locking' = {} /\ woken' = {}
    /\ lock_timer' = [s \in Session |-> "off"] /\ due' = {}
    /\ spc' = [s \in Session |-> "closed"]
    /\ task' = [s \in Session |-> NoTask]
    /\ push_writer' = [s \in Session |-> None]
    /\ push_status' = [s \in Session |-> "ok"]
    /\ got' = [s \in Session |-> <<>>]
    /\ run' = None
    /\ UNCHANGED fileVars

\* Another process appends to a shared file, under the file lock that the
\* client_lock of the server would hold.
ExternalAppend(v) ==
    /\ shared /\ ~client_lock
    /\ published < MaxSize
    /\ published' = published + 1
    /\ body' = [body EXCEPT ![published'] = v]
    /\ UNCHANGED <<shared, journalVars, lockVars, waitVars, due, spc, task,
                   pushVars, run, requests>>

(***************************************************************************)
(* Session::lock.                                                          *)
(***************************************************************************)

\* Where a session goes on once it has the lock.
AfterLock(s) == IF task[s].op = "push" THEN "push" ELSE "tail"

\* Locking an already locked session throws.
LockTwice(s) ==
    /\ run = s /\ spc[s] = "lock"
    /\ s \in locking
    /\ End(s)
    /\ UNCHANGED <<fileVars, journalVars, due, requests>>

LockNow(s) ==
    /\ run = s /\ spc[s] = "lock"
    /\ s \notin locking /\ ~locked
    /\ Obtain(s)
    /\ Goto(s, AfterLock(s))
    /\ UNCHANGED <<fileVars, lock_waiters, waitVars, due, task, pushVars, run,
                   requests>>

LockWait(s) ==
    /\ run = s /\ spc[s] = "lock"
    /\ s \notin locking /\ locked
    /\ lock_waiters' = Append(lock_waiters, s)
    /\ Goto(s, "lockwait")
    /\ run' = None
    /\ UNCHANGED <<fileVars, journalVars, client_lock, locked, locking,
                   lock_timer, waitVars, due, task, pushVars, requests>>

\* Mutant of LockResume: no pop_front.
MutantLockResume(s) ==
    /\ run = None /\ spc[s] = "lockwait"
    /\ s \in woken
    /\ woken' = woken \ {s}
    /\ Obtain(s)
    /\ Goto(s, AfterLock(s))
    /\ run' = s
    /\ UNCHANGED <<fileVars, lock_waiters, pull_waiters, due, task, pushVars,
                   requests>>

\* The timer of a lock waiter was cancelled by unlock.
LockResume(s) ==
    /\ run = None /\ spc[s] = "lockwait"
    /\ s \in woken
    /\ woken' = woken \ {s}
    /\ lock_waiters' = Tail(lock_waiters)
    /\ Obtain(s)
    /\ Goto(s, AfterLock(s))
    /\ run' = s
    /\ UNCHANGED <<fileVars, pull_waiters, due, task, pushVars, requests>>

(***************************************************************************)
(* The lock timeout.                                                       *)
(***************************************************************************)

\* The timer expires.  Its handler is queued; from then on, cancelling or
\* restarting the timer does not stop it.
TimeoutExpires(s) ==
    /\ run = None
    /\ lock_timer[s] = "armed"
    /\ lock_timer' = [lock_timer EXCEPT ![s] = "off"]
    /\ due' = due \cup {s}
    /\ UNCHANGED <<fileVars, journalVars, client_lock, locked, lock_waiters,
                   locking, waitVars, spc, task, pushVars, run, requests>>

\* Mutant of TimeoutHandler: the client is not told.
MutantTimeoutStatus(s) ==
    /\ run = None
    /\ s \in due
    /\ due' = due \ {s}
    /\ push_writer' = [push_writer EXCEPT ![s] = None]
    /\ unlock(s, {})
    /\ UNCHANGED <<fileVars, journalVars, lock_waiters, pull_waiters, spc,
                   task, push_status, got, run, requests>>

\* The handler of the timer: the push, if any, is abandoned.
TimeoutHandler(s) ==
    /\ run = None
    /\ s \in due
    /\ due' = due \ {s}
    /\ push_writer' = [push_writer EXCEPT ![s] = None]
    /\ push_status' = [push_status EXCEPT ![s] =
                         IF push_writer[s] # None THEN "t" ELSE @]
    /\ unlock(s, {})
    /\ UNCHANGED <<fileVars, journalVars, lock_waiters, pull_waiters, spc,
                   task, got, run, requests>>

(***************************************************************************)
(* Requests that pull, read or unlock.                                     *)
(***************************************************************************)

AfterPull(t) == IF t.lock THEN "lock" ELSE "tail"

\* Session::pull, up to its first wait.
Pull(s, lock, data, wait, from) ==
    LET t == [NoTask EXCEPT !.lock = lock, !.data = data, !.from = from]
    IN  /\ Request(s)
        /\ task' = [task EXCEPT ![s] = t]
        /\ IF client_lock THEN UNCHANGED journalVars ELSE PullFile
        /\ IF wait /\ from = checkpoint'
           THEN /\ pull_waiters' = pull_waiters \cup {s}
                /\ Goto(s, "pullwait")
                /\ UNCHANGED run
           ELSE /\ Goto(s, AfterPull(t))
                /\ run' = s
                /\ UNCHANGED pull_waiters
        /\ UNCHANGED <<fileVars, lockVars, woken, due, pushVars>>

\* The time that the client is ready to wait has passed.
PullExpires(s) ==
    /\ run = None
    /\ spc[s] = "pullwait" /\ s \notin woken
    /\ woken' = woken \cup {s}
    /\ UNCHANGED <<fileVars, journalVars, lockVars, pull_waiters, due, spc,
                   task, pushVars, run, requests>>

PullResume(s) ==
    /\ run = None
    /\ spc[s] = "pullwait" /\ s \in woken
    /\ woken' = woken \ {s}
    /\ pull_waiters' = pull_waiters \ {s}
    /\ Goto(s, AfterPull(task[s]))
    /\ run' = s
    /\ UNCHANGED <<fileVars, journalVars, lockVars, due, task, pushVars,
                   requests>>

\* The end of Session::pull: the reader of what the client does not have.
PullTail(s) ==
    /\ run = s /\ spc[s] = "tail"
    /\ task' = [task EXCEPT ![s].from =
                  IF task[s].data THEN Min2(@, checkpoint) ELSE checkpoint,
                            ![s].until = checkpoint]
    /\ Goto(s, "send")
    /\ UNCHANGED <<fileVars, journalVars, lockVars, waitVars, due, pushVars,
                   run, requests>>

\* Mutant of Read: the end of the range is not limited to the checkpoint.
MutantRead(s, from, until) ==
    /\ Request(s)
    /\ task' = [task EXCEPT ![s] =
                  [NoTask EXCEPT !.from = Min2(from, until), !.until = until]]
    /\ Goto(s, "send")
    /\ run' = s
    /\ UNCHANGED <<fileVars, journalVars, lockVars, waitVars, due, pushVars>>

\* Session::read.
Read(s, from, until) ==
    LET u == Min2(until, checkpoint)
    IN  /\ Request(s)
        /\ task' = [task EXCEPT ![s] =
                      [NoTask EXCEPT !.from = Min2(from, u), !.until = u]]
        /\ Goto(s, "send")
        /\ run' = s
        /\ UNCHANGED <<fileVars, journalVars, lockVars, waitVars, due, pushVars>>

\* One iteration of Session::send.
SendChunk(s) ==
    /\ run \in {s, None} /\ spc[s] = "send"
    /\ task' = [task EXCEPT ![s].from = Min2(@ + 1, task[s].until)]
    /\ refresh_lock_timeout(s, locking)
    /\ Goto(s, IF task[s].from + 1 < task[s].until THEN "send" ELSE "reply")
    /\ run' = None
    /\ UNCHANGED <<fileVars, journalVars, client_lock, locked, lock_waiters,
                   locking, waitVars, due, pushVars, requests>>

\* Session::check_hash: an answer, and no change of state.
CheckHash(s) ==
    /\ Request(s)
    /\ Goto(s, "reply")
    /\ UNCHANGED <<fileVars, journalVars, lockVars, waitVars, due, task,
                   pushVars, run>>

UnlockRequest(s) ==
    /\ Request(s)
    /\ unlock(s, {})
    /\ Goto(s, "reply")
    /\ UNCHANGED <<fileVars, journalVars, lock_waiters, pull_waiters, due,
                   task, pushVars, run>>

(***************************************************************************)
(* Session::push.                                                          *)
(***************************************************************************)

\* Someone else holds the lock: the session is terminated.
PushRefused(s) ==
    /\ Request(s)
    /\ locked /\ s \notin locking
    /\ End(s)
    /\ UNCHANGED <<fileVars, journalVars, due>>

Push(s, unlock_after, from, until) ==
    /\ Request(s)
    /\ ~locked \/ s \in locking
    /\ task' = [task EXCEPT ![s] = [NoTask EXCEPT
                  !.op = "push", !.unlock = unlock_after,
                  !.from = from, !.until = until]]
    /\ Goto(s, IF locked THEN "push" ELSE "lock")
    /\ run' = s
    /\ UNCHANGED <<fileVars, journalVars, lockVars, waitVars, due, pushVars>>

\* Mutant of PushStart: the position of the client is not compared.
MutantPushStart(s) ==
    LET conflict == s \notin locking
        receive  == task[s].until > task[s].from
    IN  /\ run = s /\ spc[s] = "push"
        /\ push_status' = [push_status EXCEPT ![s] =
                             IF conflict THEN "C" ELSE "ok"]
        /\ push_writer' = [push_writer EXCEPT ![s] =
                             IF conflict \/ ~client_lock THEN None
                             ELSE checkpoint]
        /\ got' = [got EXCEPT ![s] = <<>>]
        /\ IF receive
           THEN /\ refresh_lock_timeout(s, locking)
                /\ Goto(s, "recv") /\ run' = None
           ELSE /\ Goto(s, "pushend")
                /\ UNCHANGED <<lock_timer, run>>
        /\ UNCHANGED <<fileVars, journalVars, client_lock, locked,
                       lock_waiters, locking, waitVars, due, task, requests>>

\* Compare the position of the client with the one of the server.
PushStart(s) ==
    LET conflict == s \notin locking \/ task[s].from # checkpoint
        receive  == task[s].until > task[s].from
    IN  /\ run = s /\ spc[s] = "push"
        /\ push_status' = [push_status EXCEPT ![s] =
                             IF conflict THEN "C" ELSE "ok"]
        /\ push_writer' = [push_writer EXCEPT ![s] =
                             IF conflict \/ ~client_lock THEN None
                             ELSE checkpoint]
        /\ got' = [got EXCEPT ![s] = <<>>]
        /\ IF receive
           THEN /\ refresh_lock_timeout(s, locking)
                /\ Goto(s, "recv") /\ run' = None
           ELSE /\ Goto(s, "pushend")
                /\ UNCHANGED <<lock_timer, run>>
        /\ UNCHANGED <<fileVars, journalVars, client_lock, locked,
                       lock_waiters, locking, waitVars, due, task, requests>>

\* Data arrive.  They are written after the checkpoint, or ignored.
PushData(s, v) ==
    LET more == Len(got[s]) + 1 < task[s].until - task[s].from
    IN  /\ run = None /\ spc[s] = "recv"
        /\ got' = [got EXCEPT ![s] = Append(@, v)]
        /\ IF push_writer[s] # None
           THEN /\ push_writer' = [push_writer EXCEPT ![s] = @ + 1]
                /\ body' = [body EXCEPT ![push_writer[s] + 1] = v]
           ELSE UNCHANGED <<push_writer, body>>
        /\ IF more
           THEN refresh_lock_timeout(s, locking) /\ UNCHANGED <<spc, run>>
           ELSE Goto(s, "pushend") /\ run' = s /\ UNCHANGED lock_timer
        /\ UNCHANGED <<shared, published, journalVars, client_lock, locked,
                       lock_waiters, locking, waitVars, due, task,
                       push_status, requests>>

\* Mutant of CheckpointPush: the checkpoint of the journal advances, but is
\* not written to the file.
MutantCheckpointPush(s) ==
    /\ checkpoint' = Max2(checkpoint, push_writer[s])
    /\ UNCHANGED <<published, hard, bufpos>>

\* soft_checkpoint_at(push_writer->get_position()), then do_checkpoint, which
\* uses the position of the file buffer of the journal: an Async_Writer does
\* not move it.
CheckpointPush(s) ==
    LET soft == Max2(checkpoint, push_writer[s])
    IN  IF UseHard /\ hard < bufpos
        THEN /\ hard' = bufpos /\ checkpoint' = bufpos /\ published' = bufpos
             /\ UNCHANGED bufpos
        ELSE /\ checkpoint' = soft /\ published' = soft
             /\ UNCHANGED <<hard, bufpos>>

PushEnd(s) ==
    /\ run = s /\ spc[s] = "pushend"
    /\ IF task[s].until > task[s].from /\ push_writer[s] # None /\ client_lock
       THEN /\ CheckpointPush(s)
            /\ client_lock' = ~(shared /\ task[s].unlock)
       ELSE UNCHANGED <<published, journalVars, client_lock>>
    /\ push_writer' = [push_writer EXCEPT ![s] = None]
    /\ Goto(s, "pushdone")
    /\ UNCHANGED <<shared, body, locked, lock_waiters, locking, lock_timer,
                   waitVars, due, task, push_status, got, run, requests>>

\* Mutant of PushDone: only a push that releases the lock wakes up anybody.
MutantPushDone(s) ==
    /\ run = s /\ spc[s] = "pushdone"
    /\ IF task[s].unlock
       THEN unlock(s, pull_waiters) /\ pull_waiters' = {}
       ELSE UNCHANGED <<locking, lock_timer, locked, client_lock, waitVars>>
    /\ got' = [got EXCEPT ![s] = <<>>]
    /\ task' = [task EXCEPT ![s] = NoTask]
    /\ Goto(s, "reply")
    /\ run' = None
    /\ UNCHANGED <<fileVars, journalVars, lock_waiters, due, push_writer,
                   push_status, requests>>

\* Release the lock, wake up every session that waits for a push, answer.
PushDone(s) ==
    /\ run = s /\ spc[s] = "pushdone"
    /\ IF task[s].unlock
       THEN unlock(s, pull_waiters)
       ELSE /\ woken' = woken \cup pull_waiters
            /\ UNCHANGED <<locking, lock_timer, locked, client_lock>>
    /\ pull_waiters' = {}
    /\ got' = [got EXCEPT ![s] = <<>>]
    /\ task' = [task EXCEPT ![s] = NoTask]
    /\ Goto(s, "reply")
    /\ run' = None
    /\ UNCHANGED <<fileVars, journalVars, lock_waiters, due, push_writer,
                   push_status, requests>>

(***************************************************************************)
(* The specification.                                                      *)
(***************************************************************************)

\* What the thread of the server does on its own.
Progress(s) ==
    \/ LockTwice(s) \/ LockNow(s) \/ LockWait(s) \/ LockResume(s)
    \/ PullResume(s) \/ PullTail(s)
    \/ PushStart(s) \/ PushEnd(s) \/ PushDone(s)
    \/ TimeoutHandler(s)

\* What depends on the client: it can be silent forever.
ClientStep(s) ==
    \/ Accept(s) \/ Replied(s) \/ Disconnect(s)
    \/ SendChunk(s)
    \/ CheckHash(s) \/ UnlockRequest(s) \/ PushRefused(s)
    \/ \E v \in Value : PushData(s, v)
    \/ \E lock, data, wait \in BOOLEAN, from \in Position :
         Pull(s, lock, data, wait, from)
    \/ \E from, until \in Position : Read(s, from, until)
    \/ \E unlock_after \in BOOLEAN, from, until \in Position :
         Push(s, unlock_after, from, until)

Next ==
    \/ Restart
    \/ \E v \in Value : ExternalAppend(v)
    \/ \E s \in Session :
         \/ Progress(s) \/ ClientStep(s)
         \/ TimeoutExpires(s) \/ PullExpires(s)

Spec == Init /\ [][Next]_vars

\* The thread of the server always continues, and time passes.  A lock holder
\* restarts its timer by every chunk it sends or receives; requests are
\* bounded, so that it cannot do so forever.
Fairness ==
    \A s \in Session :
        /\ WF_vars(Progress(s))
        /\ WF_vars(run = s /\ SendChunk(s))
        /\ WF_vars(TimeoutExpires(s))
        /\ WF_vars(PullExpires(s))

FairSpec == Spec /\ Fairness

(***************************************************************************)
(* Properties.                                                             *)
(***************************************************************************)

\* Every variable has its type; the position of a push writer stays within the
\* journal.
TypeOK ==
    /\ shared \in SharedModes
    /\ body \in [1..MaxSize -> Value \cup {Zero}]
    /\ published \in Position /\ checkpoint \in Position
    /\ hard \in Position /\ bufpos \in Position
    /\ client_lock \in BOOLEAN /\ locked \in BOOLEAN
    /\ lock_waiters \in Seq(Session)
    /\ pull_waiters \in SUBSET Session /\ woken \in SUBSET Session
    /\ locking \in SUBSET Session /\ due \in SUBSET Session
    /\ lock_timer \in [Session -> {"off", "armed"}]
    /\ spc \in [Session -> Suspended \cup Running]
    /\ task \in [Session -> Task]
    /\ push_writer \in [Session -> Position \cup {None}]
    /\ push_status \in [Session -> {"ok", "C", "t"}]
    /\ got \in [Session -> Seq(Value)]
    /\ run \in Session \cup {None}
    /\ requests \in 0..MaxRequests

\* Between two handlers, exactly the sessions in lockwait are queued, once.
QueueInv ==
    /\ \A i \in 1..Len(lock_waiters) : spc[lock_waiters[i]] = "lockwait"
    /\ \A i, j \in 1..Len(lock_waiters) :
         lock_waiters[i] = lock_waiters[j] => i = j
    /\ \A s \in Session : spc[s] = "lockwait" =>
         \E i \in 1..Len(lock_waiters) : lock_waiters[i] = s

\* The lock of the server has at most one owner.  It is either free, with
\* nobody waiting; or owned, with nobody woken up to take it; or in transit
\* to the first waiter, and to no other (lock, unlock, the timeout handler
\* and cleanup together).
LockDiscipline ==
    /\ \A s, t \in locking : s = t
    /\ ~locked => locking = {} /\ lock_waiters = <<>>
    /\ locked /\ locking = {} =>
         lock_waiters # <<>> /\ Head(lock_waiters) \in woken
    /\ \A s \in woken : spc[s] = "lockwait" =>
         locking = {} /\ s = Head(lock_waiters)

\* A push that is being written owns the lock of the server and the one of
\* the file, and has written what it received right after the checkpoint.
PushOwnsTail ==
    \A s \in Session : push_writer[s] # None =>
        /\ s \in locking /\ client_lock
        /\ checkpoint = published /\ task[s].from = checkpoint
        /\ push_writer[s] = checkpoint + Len(got[s])
        /\ \A i \in 1..Len(got[s]) : body[checkpoint + i] = got[s][i]

\* A push that the server accepts is in the journal, entirely and at the
\* position that the client gave; a push that it does not accept (conflict,
\* timeout) leaves no trace in the journal.
PushAllOrNothing ==
    [][\A s \in Session : PushEnd(s) =>
         IF push_status[s] = "ok" /\ task[s].until > task[s].from
         THEN /\ checkpoint' = task[s].until /\ published' = task[s].until
              /\ \A i \in 1..(task[s].until - task[s].from) :
                   body'[task[s].from + i] = got[s][i]
         ELSE checkpoint' = checkpoint /\ published' = published]_vars

Log == INSTANCE SharedLog WITH
    Reader <- {}, Byte <- Value \cup {Zero}, Blank <- Zero,
    First <- 1, Last <- MaxSize + 1,
    length <- checkpoint + 1,
    content <- [i \in 1..MaxSize |-> IF i <= checkpoint THEN body[i] ELSE Zero],
    seen <- <<>>

\* The journal that the server shows to its sessions only grows, whatever
\* timeouts, disconnections, restarts and other processes do.
ServesGrowingLog == [][Log!Next]_(Log!vars)

\* What is being sent to a client is part of the journal.
SendsJournal ==
    \A s \in Session : spc[s] = "send" =>
        task[s].from <= task[s].until /\ task[s].until <= checkpoint

\* No session waits for changes that the server already has: a push wakes up
\* everybody who waits in pull.  (A server that shares its file finds out
\* about the changes of other processes without waking up anybody.)
PullersInformed ==
    ~shared => \A s \in Session :
        spc[s] = "pullwait" /\ s \notin woken =>
            s \in pull_waiters /\
            (run = None => task[s].from = checkpoint)

\* With a lock timeout, whoever waits for the lock gets it, whatever the
\* clients do that got it before.
LockGranted ==
    \A s \in Session : spc[s] = "lockwait" ~> spc[s] # "lockwait"

(***************************************************************************)
(* The inductive invariant behind LockDiscipline, PushOwnsTail,            *)
(* PushAllOrNothing and ServesGrowingLog.                                  *)
(***************************************************************************)

\* Only the running session is between two awaits.
RunInv ==
    /\ \A s \in Session : spc[s] \in Running => run = s
    /\ run # None => spc[run] \in Running \cup {"send"}

\* Timers that have completed, and pull_waiters, belong to sessions that wait.
WaitInv ==
    /\ \A s \in woken : spc[s] \in {"pullwait", "lockwait"}
    /\ \A s \in pull_waiters : spc[s] = "pullwait"

\* Whoever holds the lock of the server holds the one of the file, except
\* inside the handler of a push that has just given both away.
FileInv ==
    /\ checkpoint <= published
    /\ client_lock => checkpoint = published
    /\ locking # {} =>
         client_lock \/ \E s \in locking : spc[s] = "pushdone" /\ task[s].unlock

\* A push that has neither timed out nor met a conflict has a writer, and
\* the data of a push arrive in full before it ends.
PushInv ==
    \A s \in Session :
        /\ push_writer[s] # None => spc[s] \in {"recv", "pushend"}
        /\ spc[s] = "recv" => Len(got[s]) < task[s].until - task[s].from
        /\ spc[s] = "pushend" /\ task[s].until > task[s].from =>
             Len(got[s]) = task[s].until - task[s].from
        /\ spc[s] \in {"recv", "pushend"} /\ push_status[s] = "ok" =>
             push_writer[s] # None
        /\ push_writer[s] # None => push_status[s] = "ok"
        /\ spc[s] = "push" => s \in locking

ServerInv ==
    /\ RunInv /\ WaitInv /\ QueueInv /\ LockDiscipline
    /\ FileInv /\ PushInv /\ PushOwnsTail
=============================================================================
