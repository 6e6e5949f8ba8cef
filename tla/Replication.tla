---------------------------- MODULE Replication ----------------------------
(***************************************************************************)
(* Clients that replicate the journal of a joedb server through a          *)
(* Robust_Connection: transactions, pulls, pushes, reconnections and       *)
(* retries, over channels that break at any time.                          *)
(*                                                                         *)
(* A journal is the sequence of its transactions; a transaction is a       *)
(* number that identifies it.  A hash is the sequence it is the hash of.   *)
(* Kinds of clients:                                                       *)
(*   "writer"       Writable_Client on a local file, which other clients   *)
(*                  may share (Open_Mode::shared_write)                    *)
(*   "server_file"  Writable_Client on a Server_File: no local file        *)
(*   "follower"     Readonly_Client (joedb_push --follow) on a local file  *)
(*                  that another program appends to                        *)
(* The server is the one of module Server, reduced to what a client can    *)
(* observe of it.                                                          *)
(***************************************************************************)
EXTENDS Integers, Sequences, FiniteSets, SequencesExt

CONSTANTS
    Clients, Files, None,
    Setups,          \* the kind and the file of each client, the clients with
                     \* a keep-alive thread, and whether the server is
                     \* writable: one of them is used
    PowerLoss,       \* a restart of the server may lose its last transactions
    MaxTransactions, \* bound on the number of transactions written
    MaxLinks,        \* bound on the connections of a client
    MaxFaults        \* bound on failures

VARIABLES
    setup,           \* never changes
    slog, holder,    \* the server: its journal, the session that has the lock
    sessions,        \* the sessions: state, request received, answer sent
    files, tails,    \* local files: their journals, who has the tail lock
    clients,         \* the clients, see Client below
    written, acked,  \* transactions written, and acknowledged by a push
    lost,            \* transactions lost by the server
    faults           \* failures so far

vars == <<setup, slog, holder, sessions, files, tails, clients,
          written, acked, lost, faults>>

Min2(a, b) == IF a <= b THEN a ELSE b
Take(s, n) == SubSeq(s, 1, n)
From(s, n) == SubSeq(s, n + 1, Len(s))

\* Instead of a transaction: zeros that nobody wrote (see PullDone).
Hole == 0

Session == Clients \X (1..MaxLinks)

ASSUME NoneAssumption == None \notin Clients /\ None \notin Session

ASSUME BoundAssumption ==
    /\ MaxTransactions \in Nat /\ MaxLinks \in Nat /\ MaxFaults \in Nat
    /\ PowerLoss \in BOOLEAN

\* The memory of a Server_File belongs to one client.
ASSUME SetupAssumption ==
    \A s \in Setups :
        /\ s.kind \in [Clients -> {"writer", "server_file", "follower"}]
        /\ s.home \in [Clients -> Files]
        /\ \A c, d \in Clients :
              s.kind[c] = "server_file" /\ s.home[c] = s.home[d] => c = d
        /\ s.pingers \subseteq Clients /\ s.writable \in BOOLEAN

\* A request: the code of the operation, a range of the journal, and the
\* data of that range (or its hash).
Request(op, from, until, data) ==
    [op |-> op, from |-> from, until |-> until, data |-> data]
NoCall == Request("none", 0, 0, <<>>)
Ping == Request("ping", 0, 0, <<>>)

\* An answer: its code, the checkpoint of the server, data.
Answer(code, checkpoint, data) ==
    [code |-> code, checkpoint |-> checkpoint, data |-> data]

\* "open": the client is there; "cut": it is not, and the server has not
\* noticed; "closed".
NewSession == [state |-> "open", requests |-> <<>>, answers |-> <<>>]
NoSession == [NewSession EXCEPT !.state = "closed"]

\* A client: where it is, the call that it is executing and whether the
\* request is on its way, the number of its connection and whether the
\* channel works, Server_Client::server_checkpoint, connection_checkpoint
\* and the checkpoint of its journal.  History, which no action reads:
\* unchecked, the client has gone past content that the code compares with
\* the server at no time (see get_tail_lock), or past a reconnection that was
\* refused (see Reconnect).
NewClient(n) ==
    [pc |-> "down", call |-> NoCall, sent |-> FALSE, transaction |-> FALSE,
     link |-> n, up |-> FALSE, server_checkpoint |-> 0,
     connection_checkpoint |-> 0, checkpoint |-> 0, unchecked |-> FALSE]

Init ==
    /\ setup \in Setups
    /\ slog = <<>> /\ holder = None
    /\ sessions = [s \in Session |-> NoSession]
    /\ files = [f \in Files |-> <<>>] /\ tails = [f \in Files |-> None]
    /\ clients = [c \in Clients |-> NewClient(0)]
    /\ written = 0 /\ acked = {} /\ lost = {} /\ faults = 0

kind(c) == setup.kind[c]
home(c) == setup.home[c]
File(c) == files[home(c)]
SessionOf(c) == <<c, clients[c].link>>
Put(c, r) == clients' = [clients EXCEPT ![c] = r]

(***************************************************************************)
(* The server.                                                             *)
(***************************************************************************)
Receives(s, op) ==
    /\ sessions[s].state \in {"open", "cut"}
    /\ sessions[s].requests # <<>>
    /\ Head(sessions[s].requests).op = op

Reply(s, answer) ==
    sessions' = [sessions EXCEPT ![s] =
        [state |-> @.state, requests |-> Tail(@.requests),
         answers |-> IF @.state = "open" THEN Append(@.answers, answer) ELSE @.answers]]

Release(s) == holder' = IF holder = s THEN None ELSE holder

\* The journal of the server has this data after from.
Matches(from, until, data) ==
    until <= Len(slog) /\ SubSeq(slog, from + 1, until) = data

\* Session::check_hash
ServerCheck(s) ==
    /\ Receives(s, "check")
    /\ LET r == Head(sessions[s].requests) IN
       Reply(s, Answer(IF Matches(r.from, r.until, r.data) THEN "check" ELSE "mismatch",
                       0, <<>>))
    /\ UNCHANGED <<slog, holder>>

\* Session::pull, and a ping, which is a pull without lock and without data.
ServerPull(s) ==
    /\ \/ Receives(s, "pull")
       \/ Receives(s, "ping")
       \/ Receives(s, "lock_pull") /\ holder = None
    /\ LET r == Head(sessions[s].requests)
           locks == r.op = "lock_pull"
       IN /\ holder' = IF locks THEN s ELSE holder
          /\ Reply(s, Answer(IF locks /\ ~setup.writable THEN "pullonly" ELSE r.op,
                             Len(slog), From(slog, r.from)))
    /\ UNCHANGED slog

\* Session::lock throws when the session has the lock: the session ends.
ServerRelock(s) ==
    /\ Receives(s, "lock_pull") /\ holder = s
    /\ sessions' = [sessions EXCEPT ![s] = NoSession]
    /\ Release(s)
    /\ UNCHANGED slog

\* Mutant of ServerPush: where the push starts is not compared with the
\* checkpoint.
MutantServerPush(s) ==
    /\ Receives(s, "push") \/ Receives(s, "push_unlock")
    /\ LET r == Head(sessions[s].requests) IN
       /\ holder \in {None, s}
       /\ slog' = slog \o r.data
       /\ holder' = IF r.op = "push_unlock" THEN None ELSE s
       /\ Reply(s, Answer(r.op, 0, <<>>))

\* Mutant of ServerPush: the lock is neither checked nor taken.
MutantServerPushUnlocked(s) ==
    /\ Receives(s, "push") \/ Receives(s, "push_unlock")
    /\ LET r == Head(sessions[s].requests) IN
       /\ r.from = Len(slog) /\ slog' = slog \o r.data
       /\ Reply(s, Answer(r.op, 0, <<>>))
    /\ IF Receives(s, "push_unlock") THEN Release(s) ELSE UNCHANGED holder

\* Session::push.  Somebody else has the lock: the session ends.  Nobody
\* has: it takes the lock.
ServerPush(s) ==
    /\ Receives(s, "push") \/ Receives(s, "push_unlock")
    /\ LET r == Head(sessions[s].requests)
           code == IF ~setup.writable THEN "pullonly"
                   ELSE IF r.from # Len(slog) THEN "conflict" ELSE r.op
       IN \/ /\ holder \notin {None, s}
             /\ sessions' = [sessions EXCEPT ![s] = NoSession]
             /\ UNCHANGED <<slog, holder>>
          \/ /\ holder \in {None, s}
             /\ slog' = IF code = r.op THEN slog \o r.data ELSE slog
             /\ holder' = IF r.op = "push_unlock" THEN None ELSE s
             /\ Reply(s, Answer(code, 0, <<>>))

\* Request 'M'.
ServerUnlock(s) ==
    /\ Receives(s, "unlock")
    /\ Release(s)
    /\ Reply(s, Answer("unlock", 0, <<>>))
    /\ UNCHANGED slog

\* The lock times out, maybe in the middle of a push.
LockTimeout(s) ==
    /\ holder = s /\ holder' = None
    /\ \/ UNCHANGED sessions
       \/ /\ Receives(s, "push") \/ Receives(s, "push_unlock")
          /\ Reply(s, Answer("timeout", 0, <<>>))
    /\ UNCHANGED slog

\* Mutant of ServerDrop: the session keeps the lock.
MutantServerDrop(s) ==
    /\ sessions[s].state = "cut" /\ sessions[s].requests = <<>>
    /\ sessions' = [sessions EXCEPT ![s] = NoSession]
    /\ UNCHANGED <<slog, holder>>

\* The server reads the end of a channel (or 'Q'): the session ends.
ServerDrop(s) ==
    /\ sessions[s].state = "cut" /\ sessions[s].requests = <<>>
    /\ sessions' = [sessions EXCEPT ![s] = NoSession]
    /\ Release(s)
    /\ UNCHANGED slog

ServerStep(s) ==
    /\ \/ ServerCheck(s) \/ ServerPull(s) \/ ServerRelock(s) \/ ServerPush(s)
       \/ ServerUnlock(s) \/ ServerDrop(s)
    /\ UNCHANGED <<setup, files, tails, clients, written, acked, lost, faults>>

Timeout(s) ==
    /\ faults < MaxFaults /\ faults' = faults + 1
    /\ LockTimeout(s)
    /\ UNCHANGED <<setup, files, tails, clients, written, acked, lost>>

\* The server stops and starts again, with the journal that it finds.
Restart ==
    /\ faults < MaxFaults /\ faults' = faults + 1
    /\ \E n \in (IF PowerLoss THEN 0 ELSE Len(slog)) .. Len(slog) :
          /\ slog' = Take(slog, n)
          /\ lost' = lost \cup Range(From(slog, n))
    /\ holder' = None
    /\ sessions' = [s \in Session |-> NoSession]
    /\ UNCHANGED <<setup, files, tails, clients, written, acked>>

(***************************************************************************)
(* The channel of a client, which it shares with its keep-alive thread.    *)
(***************************************************************************)

\* Lock<Channel&>: nobody is between a request and its answer.
ChannelFree(c) ==
    /\ sessions[SessionOf(c)].requests = <<>>
    /\ sessions[SessionOf(c)].answers = <<>>

Write(c, request) ==
    sessions' = [sessions EXCEPT ![SessionOf(c)].requests = Append(@, request)]

\* Mutant of Send: the client does not lock the channel.
MutantSend(c) ==
    /\ clients[c].call # NoCall /\ ~clients[c].sent /\ clients[c].up
    /\ sessions[SessionOf(c)].state = "open"
    /\ Write(c, clients[c].call)
    /\ Put(c, [clients[c] EXCEPT !.sent = TRUE])
    /\ UNCHANGED <<setup, slog, holder, files, tails, written, acked, lost, faults>>

\* The client locks the channel and writes its request.
Send(c) ==
    /\ clients[c].call # NoCall /\ ~clients[c].sent /\ clients[c].up
    /\ sessions[SessionOf(c)].state = "open" /\ ChannelFree(c)
    /\ Write(c, clients[c].call)
    /\ Put(c, [clients[c] EXCEPT !.sent = TRUE])
    /\ UNCHANGED <<setup, slog, holder, files, tails, written, acked, lost, faults>>

\* The keep-alive thread wakes up and locks the channel: locked_ping.
KeepAlive(c) ==
    /\ c \in setup.pingers
    /\ clients[c].up /\ sessions[SessionOf(c)].state = "open" /\ ChannelFree(c)
    /\ Write(c, Ping)
    /\ UNCHANGED <<setup, slog, holder, files, tails, clients, written, acked, lost, faults>>

\* Server_Client::locked_ping reads 9 bytes, and unlocks the channel.
KeptAlive(c) ==
    /\ clients[c].up /\ ~clients[c].sent
    /\ sessions[SessionOf(c)].answers # <<>>
    /\ sessions' = [sessions EXCEPT ![SessionOf(c)].answers = Tail(@)]
    /\ UNCHANGED <<setup, slog, holder, files, tails, clients, written, acked, lost, faults>>

\* The server sees the end of the channel of c; what c has written may be
\* lost or not.
Cut(c) ==
    \E requests \in {<<>>, sessions[SessionOf(c)].requests} :
        sessions' = IF sessions[SessionOf(c)].state = "open"
                    THEN [sessions EXCEPT ![SessionOf(c)] =
                            [state |-> "cut", requests |-> requests, answers |-> <<>>]]
                    ELSE sessions

(***************************************************************************)
(* Connecting.                                                             *)
(***************************************************************************)

\* Server_Connection::handshake: the journal of the client and the one of
\* the server are equal, as far as both go.
Handshake(journal) ==
    LET n == Min2(Len(slog), Len(journal)) IN Take(slog, n) = Take(journal, n)

\* Server_Client::connect, in a new session.
Connected(c) ==
    /\ clients[c].link < MaxLinks
    /\ sessions' = [sessions EXCEPT ![<<c, clients[c].link + 1>>] = NewSession]

\* Client::push
PushCall(r, journal, until, op) ==
    [r EXCEPT !.call = Request(op, r.connection_checkpoint, until,
                               SubSeq(journal, r.connection_checkpoint + 1, until)),
              !.sent = FALSE]

\* A new client: the constructors of Robust_Connection and of Client.  The
\* one of Readonly_Client also pushes nothing, to lock the connection; the
\* Server_File reads the journal of the server.
Open(c) ==
    /\ clients[c].pc = "down"
    /\ kind(c) = "server_file" \/ Handshake(File(c))
    /\ Connected(c)
    /\ files' = IF kind(c) = "server_file"
                THEN [files EXCEPT ![home(c)] = slog] ELSE files
    /\ LET journal == files'[home(c)]
           opened == [NewClient(clients[c].link + 1) EXCEPT
                        !.pc = "idle", !.up = TRUE,
                        !.server_checkpoint = Len(slog),
                        !.connection_checkpoint = Len(slog),
                        !.checkpoint = Len(journal)]
       IN Put(c, IF kind(c) = "follower"
                 THEN PushCall(opened, journal, Min2(Len(slog), Len(journal)), "push")
                 ELSE opened)
    /\ UNCHANGED <<setup, slog, holder, tails, written, acked, lost, faults>>

\* Unlock the tail of the local file, if the client has it.
FreeTail(c) == tails' = [f \in Files |-> IF tails[f] = c THEN None ELSE tails[f]]

\* The call of the client returns, or throws.
Returned(r, pc) == [r EXCEPT !.call = NoCall, !.sent = FALSE, !.transaction = FALSE, !.pc = pc]

\* The client is gone; what a Server_File has in memory too.
Gone(c) ==
    /\ Cut(c)
    /\ FreeTail(c)
    /\ files' = IF kind(c) = "server_file"
                THEN [files EXCEPT ![home(c)] = <<>>] ELSE files
    /\ Put(c, NewClient(clients[c].link))
    /\ UNCHANGED <<setup, slog, holder, written, acked, lost>>

\* The destructors, between two calls.
Close(c) ==
    /\ clients[c].pc \in {"idle", "failed"} /\ clients[c].call = NoCall
    /\ Gone(c) /\ UNCHANGED faults

\* The process of the client dies.
Crash(c) ==
    /\ clients[c].pc \in {"idle", "writing"}
    /\ faults < MaxFaults /\ faults' = faults + 1
    /\ Gone(c)

\* Using the channel throws.  Robust_Connection::unlock gives up, every other
\* call is retried.
ChannelThrows(c) ==
    /\ Cut(c)
    /\ LET r == [clients[c] EXCEPT !.up = FALSE, !.sent = FALSE] IN
       IF r.call.op = "unlock"
       THEN FreeTail(c) /\ Put(c, Returned(r, "idle"))
       ELSE UNCHANGED tails /\ Put(c, r)
    /\ UNCHANGED <<setup, slog, holder, files, written, acked, lost>>

\* The channel breaks.
Break(c) ==
    /\ clients[c].up /\ sessions[SessionOf(c)].state = "open"
    /\ faults < MaxFaults /\ faults' = faults + 1
    /\ ChannelThrows(c)

\* The client finds out that the server has closed the channel.
Notice(c) ==
    /\ clients[c].up /\ sessions[SessionOf(c)].state = "closed"
    /\ ChannelThrows(c) /\ UNCHANGED faults

\* Mutant of Reconnect: the journal of the server is not compared again.
MutantReconnect(c) ==
    /\ clients[c].pc # "down" /\ ~clients[c].up /\ clients[c].call # NoCall
    /\ Connected(c)
    /\ LET r == [clients[c] EXCEPT !.link = @ + 1, !.up = TRUE,
                                   !.server_checkpoint = Len(slog)]
       IN /\ r.server_checkpoint >= clients[c].server_checkpoint
          /\ Put(c, r) /\ UNCHANGED tails
    /\ UNCHANGED <<setup, slog, holder, files, written, acked, lost, faults>>

\* The call of the client throws a Disconnection.  In the constructor of a
\* Readonly_Client, which pushes nothing, there is no client then.
Disconnected(r) ==
    Returned(r, IF r.call.op = "push" /\ r.call.data = <<>> THEN "failed" ELSE "idle")

\* Robust_Connection::reconnect, in a call that is retried.  A Server_File
\* keeps no handshake_journal.  The new connection is there when the tests
\* refuse it: the next call of the client uses it, and the next reconnection
\* compares with its checkpoint.
Reconnect(c) ==
    /\ clients[c].pc # "down" /\ ~clients[c].up /\ clients[c].call # NoCall
    /\ Connected(c)
    /\ LET rolled_back == Len(slog) < clients[c].server_checkpoint
           matches == kind(c) = "server_file" \/ Handshake(Take(File(c), clients[c].checkpoint))
           refused == rolled_back \/ ~matches
           r == [clients[c] EXCEPT !.link = @ + 1, !.up = TRUE,
                     !.server_checkpoint = Len(slog),
                     !.unchecked = \/ @ \/ refused
                                   \/ /\ clients[c].call.op \in {"pull", "lock_pull"}
                                      /\ Len(slog) < clients[c].checkpoint]
       IN IF refused THEN Put(c, Disconnected(r)) /\ FreeTail(c)
                     ELSE Put(c, r) /\ UNCHANGED tails
    /\ UNCHANGED <<setup, slog, holder, files, written, acked, lost, faults>>

(***************************************************************************)
(* The operations of a client.                                             *)
(***************************************************************************)
Idle(c) == clients[c].pc = "idle" /\ clients[c].call = NoCall

\* Pull what the server has after the checkpoint of the journal.
PullCall(r) ==
    [r EXCEPT !.call = Request(IF r.transaction THEN "lock_pull" ELSE "pull",
                               r.checkpoint, 0, <<>>),
              !.sent = FALSE]

\* Writable_Client::get_tail_lock: not when the client is ahead.  The tail
\* lock updates the journal; what another client of the file has pulled is
\* compared with the server, from connection_checkpoint: what it has put
\* below is not.
get_tail_lock(c, transaction) ==
    LET k == clients[c].connection_checkpoint
        n == Min2(k, Len(File(c)))
        r == [clients[c] EXCEPT !.checkpoint = Len(File(c)), !.transaction = transaction,
                !.unchecked = @ \/ (/\ clients[c].checkpoint < n
                                   /\ ~Matches(clients[c].checkpoint, n,
                                               SubSeq(File(c), clients[c].checkpoint + 1, n)))]
    IN /\ clients[c].checkpoint <= clients[c].connection_checkpoint
       /\ tails[home(c)] = None
       /\ tails' = [tails EXCEPT ![home(c)] = c]
       /\ Put(c, IF k < r.checkpoint
                 THEN [r EXCEPT !.sent = FALSE,
                        !.call = Request("check", k, r.checkpoint,
                                         SubSeq(File(c), k + 1, r.checkpoint))]
                 ELSE PullCall(r))

\* Writable_Client::pull, and the beginning of transaction and Client_Lock.
Begin(c) ==
    /\ Idle(c) /\ kind(c) # "follower"
    /\ \E transaction \in BOOLEAN :
          (transaction => written < MaxTransactions) /\ get_tail_lock(c, transaction)
    /\ UNCHANGED <<setup, slog, holder, sessions, files, written, acked, lost, faults>>

\* The function of the transaction writes, do_checkpoint, push_unlock.
Commit(c) ==
    /\ clients[c].pc = "writing" /\ clients[c].call = NoCall
    /\ written < MaxTransactions /\ written' = written + 1
    /\ files' = [files EXCEPT ![home(c)] = Append(@, written')]
    /\ LET r == [clients[c] EXCEPT !.checkpoint = @ + 1] IN
       Put(c, PushCall(r, files'[home(c)], r.checkpoint, "push_unlock"))
    /\ UNCHANGED <<setup, slog, holder, sessions, tails, acked, lost, faults>>

\* It throws: emergency_unlock.  (Also Client_Lock::unlock.)
Abort(c) ==
    /\ clients[c].pc = "writing" /\ clients[c].call = NoCall
    /\ IF clients[c].up
       THEN Put(c, [clients[c] EXCEPT !.call = Request("unlock", 0, 0, <<>>)]) /\ UNCHANGED tails
       ELSE Put(c, Returned(clients[c], "idle")) /\ FreeTail(c)
    /\ UNCHANGED <<setup, slog, holder, sessions, files, written, acked, lost, faults>>

\* push_if_ahead, of a Writable_Client or of a Readonly_Client, which pulls
\* from its file first.  A Server_File pushes the whole tail that it has in
\* memory (it throws when the tail ends before the journal).
push_if_ahead(c) ==
    /\ Idle(c)
    /\ LET r == IF kind(c) = "follower"
                THEN [clients[c] EXCEPT !.checkpoint = Len(File(c))] ELSE clients[c]
       IN \E until \in r.connection_checkpoint + 1 .. r.checkpoint :
             /\ kind(c) = "server_file" => until = r.checkpoint /\ Last(File(c)) # Hole
             /\ Put(c, PushCall(r, File(c), until,
                                IF kind(c) = "follower" THEN "push" ELSE "push_unlock"))
    /\ UNCHANGED <<setup, slog, holder, sessions, files, tails, written, acked, lost, faults>>

\* Another program appends a transaction to the file of a follower, or a
\* client works offline.
AppendLocally(c) ==
    /\ kind(c) = "follower" \/ (kind(c) = "writer" /\ clients[c].pc = "down")
    /\ tails[home(c)] = None
    /\ written < MaxTransactions /\ written' = written + 1
    /\ files' = [files EXCEPT ![home(c)] = Append(@, written')]
    /\ UNCHANGED <<setup, slog, holder, sessions, tails, clients, acked, lost, faults>>

(***************************************************************************)
(* Reading an answer.                                                      *)
(***************************************************************************)
Answered(c) == clients[c].up /\ clients[c].sent /\ sessions[SessionOf(c)].answers # <<>>
AnswerTo(c) == Head(sessions[SessionOf(c)].answers)
ReadAnswer(c) == sessions' = [sessions EXCEPT ![SessionOf(c)].answers = Tail(@)]

\* Server_Connection::check_matching_content
CheckDone(c) ==
    /\ Answered(c) /\ clients[c].call.op = "check" /\ ReadAnswer(c)
    /\ IF AnswerTo(c).code = "check"
       THEN Put(c, PullCall(clients[c])) /\ UNCHANGED tails
       ELSE Put(c, Disconnected(clients[c])) /\ FreeTail(c)
    /\ UNCHANGED <<setup, slog, holder, files, written, acked, lost, faults>>

\* Server_Connection::pull: download after the checkpoint, then
\* soft_checkpoint_at.  A Server_File keeps nothing of what it has read: when
\* the server has less, its tail starts before the checkpoint of its journal,
\* and there will be zeros in between.
PullDone(c) ==
    /\ Answered(c) /\ clients[c].call.op \in {"pull", "lock_pull"} /\ ReadAnswer(c)
    /\ IF AnswerTo(c).code = clients[c].call.op
       THEN LET r == Returned(clients[c], IF clients[c].transaction THEN "writing" ELSE "idle")
                n == AnswerTo(c).checkpoint
                journal == IF kind(c) = "server_file" /\ n < r.checkpoint
                           THEN [i \in 1..r.checkpoint |-> IF i <= n THEN File(c)[i] ELSE Hole]
                           ELSE Take(File(c), r.checkpoint) \o AnswerTo(c).data
            IN /\ files' = [files EXCEPT ![home(c)] = journal]
               /\ Put(c, [r EXCEPT !.checkpoint = Len(journal),
                                   !.server_checkpoint = n,
                                   !.connection_checkpoint = n])
               /\ IF clients[c].transaction THEN UNCHANGED tails ELSE FreeTail(c)
       ELSE Put(c, Disconnected(clients[c])) /\ FreeTail(c) /\ UNCHANGED files
    /\ UNCHANGED <<setup, slog, holder, written, acked, lost, faults>>

\* Mutant of PushDone: a conflict is taken for a success.
MutantPushDone(c) ==
    /\ Answered(c) /\ clients[c].call.op \in {"push", "push_unlock"} /\ ReadAnswer(c)
    /\ Put(c, [Returned(clients[c], "idle") EXCEPT
                 !.server_checkpoint = clients[c].call.until,
                 !.connection_checkpoint = clients[c].call.until])
    /\ acked' = acked \cup Range(clients[c].call.data)
    /\ FreeTail(c)
    /\ UNCHANGED <<setup, slog, holder, files, written, lost, faults>>

\* Server_Connection::push.  A conflict and a pull-only server end the
\* call with a Disconnection; a timeout is retried on a new connection.
PushDone(c) ==
    /\ Answered(c) /\ clients[c].call.op \in {"push", "push_unlock"}
    /\ LET code == AnswerTo(c).code IN
       IF code = "timeout"
       THEN /\ Cut(c) /\ UNCHANGED <<tails, acked>>
            /\ Put(c, [clients[c] EXCEPT !.up = FALSE, !.sent = FALSE])
       ELSE /\ ReadAnswer(c) /\ FreeTail(c)
            /\ IF code = clients[c].call.op
               THEN /\ Put(c, [Returned(clients[c], "idle") EXCEPT
                                 !.server_checkpoint = clients[c].call.until,
                                 !.connection_checkpoint = clients[c].call.until])
                    /\ acked' = acked \cup Range(clients[c].call.data)
               ELSE Put(c, Disconnected(clients[c])) /\ UNCHANGED acked
    /\ UNCHANGED <<setup, slog, holder, files, written, lost, faults>>

\* Server_Connection::unlock
UnlockDone(c) ==
    /\ Answered(c) /\ clients[c].call.op = "unlock" /\ ReadAnswer(c)
    /\ Put(c, Returned(clients[c], "idle")) /\ FreeTail(c)
    /\ UNCHANGED <<setup, slog, holder, files, written, acked, lost, faults>>

(***************************************************************************)
(* The specification.                                                      *)
(***************************************************************************)
Receive(c) == CheckDone(c) \/ PullDone(c) \/ PushDone(c) \/ UnlockDone(c)
Finish(c) == Commit(c) \/ Abort(c)

Next ==
    \/ \E s \in Session : ServerStep(s) \/ Timeout(s)
    \/ Restart
    \/ \E c \in Clients :
          \/ Open(c) \/ Close(c) \/ Crash(c) \/ Break(c) \/ Notice(c) \/ Reconnect(c)
          \/ Begin(c) \/ Finish(c) \/ push_if_ahead(c) \/ AppendLocally(c)
          \/ Send(c) \/ Receive(c) \/ KeepAlive(c) \/ KeptAlive(c)

\* A step of the call that a client executes, or of its transaction.
CallStep(c) == Send(c) \/ Receive(c) \/ Notice(c) \/ Reconnect(c) \/ Finish(c)

\* A running process takes its steps, and a transaction ends.  A follower,
\* which keeps the lock between its calls, is closed some day, between two of
\* them.  The lock of the server is given in the order of the requests
\* (LockGranted of module Server), and the keep-alive thread leaves the
\* channel during its interval.
Fairness ==
    \A c \in Clients :
        /\ \A n \in 1..MaxLinks : WF_vars(ServerStep(<<c, n>>))
        /\ SF_vars(\E n \in 1..MaxLinks : ServerStep(<<c, n>>))
        /\ SF_vars(CallStep(c)) /\ WF_vars(KeptAlive(c))
        /\ SF_vars(kind(c) = "follower" /\ Close(c))

Spec == Init /\ [][Next]_vars
FairSpec == Spec /\ Fairness

(***************************************************************************)
(* Properties.                                                             *)
(***************************************************************************)

\* Nothing that the client took for compared was not; and its server still
\* has what it had, or the client has compared its journal with the new one
\* when it connected.  (Server_File does not.)
Trusted(c) ==
    /\ ~clients[c].unchecked
    /\ \/ lost = {}
       \/ /\ kind(c) # "server_file"
          /\ clients[c].up /\ sessions[SessionOf(c)].state = "open"

\* A client agrees with the server on everything below its
\* connection_checkpoint: reconnecting, retrying, restarts of the server that
\* lose transactions, clients that share a file and other clients that go on
\* after a refusal do not fork the history of this one, unless it was told
\* so by an exception of reconnect and went on, or the content was not
\* compared (check_matching_content and the tests of reconnect).
LinearHistory ==
    \A c \in Clients :
        LET n == Min2(clients[c].connection_checkpoint, clients[c].checkpoint)
        IN clients[c].pc \in {"idle", "writing"} /\ Trusted(c)
           => Take(File(c), n) = Take(slog, n)

\* A client that writes while its session has the lock of the server has the
\* whole journal of the server: what it will push continues that journal.
WriterUpToDate ==
    \A c \in Clients :
        (/\ clients[c].pc = "writing" /\ clients[c].call = NoCall
         /\ holder = SessionOf(c) /\ ~clients[c].unchecked
         /\ kind(c) # "server_file" \/ lost = {})
        => Take(File(c), clients[c].connection_checkpoint) = slog

\* A push that is retried does not write a transaction twice, also when the
\* history of its client is not the one of the server.
PushedOnce == \A i, j \in 1..Len(slog) : slog[i] = slog[j] /\ slog[i] # Hole => i = j

\* What a push has acknowledged stays on the server, unless the server
\* itself has lost it.
AckedStays == acked \ lost \subseteq Range(slog)

\* The client and its keep-alive thread never read each other's answers
\* (the channel is locked from the request to the answer).
AnswersMatch ==
    \A c \in Clients :
        (clients[c].up /\ sessions[SessionOf(c)].answers # <<>>) =>
            IF clients[c].sent
            THEN AnswerTo(c).code \in {clients[c].call.op, "mismatch", "pullonly",
                                       "conflict", "timeout"}
            ELSE AnswerTo(c).code = "ping"

\* Robust_Connection: every call on a writable server returns or throws,
\* although channels break and the server restarts while it runs, as long as
\* the model has connections left to retry on.
CallsReturn ==
    \A c \in Clients :
        (setup.writable /\ clients[c].call # NoCall) ~>
            (clients[c].call = NoCall \/ (clients[c].link = MaxLinks /\ ~clients[c].up))

=============================================================================
