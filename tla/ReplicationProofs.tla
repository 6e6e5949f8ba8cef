------------------------- MODULE ReplicationProofs -------------------------
(***************************************************************************)
(* Proofs about Replication, for every set of clients and of files, every  *)
(* assignment of files to clients and every bound.                         *)
(***************************************************************************)
EXTENDS Replication, TLAPS

(***************************************************************************)
(* Types.  A channel holds at most one message, a request or an answer.    *)
(***************************************************************************)
RequestT ==
    [op : {"none", "check", "pull", "lock_pull", "ping", "push", "push_unlock", "unlock"},
     from : Nat, until : Nat, data : Seq(Nat)]

AnswerT ==
    [code : {"check", "mismatch", "pull", "lock_pull", "ping", "push", "push_unlock",
             "unlock", "pullonly", "conflict", "timeout"},
     checkpoint : Nat, data : Seq(Nat)]

Slot(T) == {<<>>} \cup {<<x>> : x \in T}

SessionT ==
    [state : {"open", "cut", "closed"}, requests : Slot(RequestT), answers : Slot(AnswerT)]

ClientT ==
    [pc : {"down", "idle", "writing", "failed"}, call : RequestT, sent : BOOLEAN,
     transaction : BOOLEAN, link : 0..MaxLinks, up : BOOLEAN, server_checkpoint : Nat,
     connection_checkpoint : Nat, checkpoint : Nat, unchecked : BOOLEAN]

OneMessage(q) ==
    /\ q.requests = <<>> \/ q.answers = <<>>
    /\ q.state # "open" => q.answers = <<>>
    /\ q.state = "closed" => q.requests = <<>>

\* A client that has the tail lock of its file.
Holding(c) ==
    clients[c].pc = "writing" \/ clients[c].call.op \in {"check", "pull", "lock_pull"}

\* The checkpoint of a client is within its file; whoever has the tail lock
\* is at the end of it.
LocalOK(c) ==
    /\ clients[c].pc # "down" => clients[c].link > 0
    /\ clients[c].checkpoint <= Len(File(c))
    /\ Holding(c) => tails[home(c)] = c /\ clients[c].checkpoint = Len(File(c))
    /\ clients[c].call.op \in {"pull", "lock_pull"} =>
           clients[c].call.from = clients[c].checkpoint
    /\ clients[c].up => clients[c].pc # "down"

TypeOK ==
    /\ setup \in Setups
    /\ slog \in Seq(Nat) /\ holder \in Session \cup {None}
    /\ sessions \in [Session -> SessionT]
    /\ files \in [Files -> Seq(Nat)] /\ tails \in [Files -> Clients \cup {None}]
    /\ clients \in [Clients -> ClientT]
    /\ written \in Nat /\ faults \in Nat
    /\ acked \subseteq Nat /\ lost \subseteq Nat

BasicInv ==
    /\ TypeOK
    /\ \A s \in Session : OneMessage(sessions[s])
    /\ \A c \in Clients : LocalOK(c)

(***************************************************************************)
(* Facts about the operators of the specification.                         *)
(***************************************************************************)

\* What a slot that is not empty holds.
LEMMA SlotFull ==
    ASSUME NEW T, NEW q \in Slot(T), q # <<>>
    PROVE  Head(q) \in T /\ q = <<Head(q)>> /\ Tail(q) = <<>>
  <1> PICK x \in T : q = <<x>>
    BY DEF Slot
  <1>1. q \in Seq(T) /\ Len(q) = 1 /\ Head(q) = x
    OBVIOUS
  <1>2. Tail(q) \in Seq(T) /\ Len(Tail(q)) = 0
    BY <1>1
  <1> QED
    BY <1>1, <1>2

\* A message put in an empty slot.
LEMMA SlotPut ==
    ASSUME NEW T, NEW x \in T
    PROVE  Append(<<>>, x) = <<x>> /\ <<x>> \in Slot(T) /\ <<>> \in Slot(T)
           /\ <<x>> # <<>> /\ Head(<<x>>) = x
  BY DEF Slot

\* A prefix and the rest of a journal.
LEMMA TakeFrom ==
    ASSUME NEW s \in Seq(Nat), NEW n \in Nat
    PROVE  /\ n <= Len(s) => /\ Take(s, n) \in Seq(Nat) /\ Len(Take(s, n)) = n
                             /\ \A i \in 1..n : Take(s, n)[i] = s[i]
           /\ From(s, n) \in Seq(Nat)
           /\ Len(From(s, n)) = IF n <= Len(s) THEN Len(s) - n ELSE 0
           /\ \A i \in 1..Len(From(s, n)) : From(s, n)[i] = s[n + i]
  BY DEF Take, From

\* Appending one transaction.
LEMMA AppendOne ==
    ASSUME NEW s \in Seq(Nat), NEW x \in Nat
    PROVE  <<x>> \in Seq(Nat) /\ Len(<<x>>) = 1 /\ Append(s, x) = s \o <<x>>
  <1>1. <<x>> \in Seq(Nat) /\ Len(<<x>>) = 1 /\ <<x>>[1] = x
    OBVIOUS
  <1>2. Append(s, x) \in Seq(Nat) /\ s \o <<x>> \in Seq(Nat)
        /\ Len(Append(s, x)) = Len(s) + 1 /\ Len(s \o <<x>>) = Len(s) + 1
    BY <1>1
  <1>3. \A i \in 1..Len(s) + 1 : Append(s, x)[i] = (s \o <<x>>)[i]
    BY <1>1
  <1> QED
    BY <1>1, <1>2, <1>3

\* A range of a journal.
LEMMA RangeOf ==
    ASSUME NEW s \in Seq(Nat), NEW m \in Nat, NEW n \in Nat, n <= Len(s)
    PROVE  /\ SubSeq(s, m + 1, n) \in Seq(Nat)
           /\ Len(SubSeq(s, m + 1, n)) = IF m <= n THEN n - m ELSE 0
           /\ \A i \in 1..Len(SubSeq(s, m + 1, n)) : SubSeq(s, m + 1, n)[i] = s[m + i]
  <1>1. SubSeq(s, m + 1, n) \in Seq(Nat)
    BY SMTT(30)
  <1>2. Len(SubSeq(s, m + 1, n)) = IF m <= n THEN n - m ELSE 0
    BY SMTT(30)
  <1>3. \A i \in 1..Len(SubSeq(s, m + 1, n)) : SubSeq(s, m + 1, n)[i] = s[m + i]
    BY <1>2, SMTT(30)
  <1> QED
    BY <1>1, <1>2, <1>3

\* The file and the kind of a client.
LEMMA SetupType ==
    ASSUME setup \in Setups, NEW c \in Clients
    PROVE  /\ home(c) \in Files
           /\ kind(c) \in {"writer", "server_file", "follower"}
           /\ \A d \in Clients : kind(c) = "server_file" /\ home(c) = home(d) => c = d
  BY SetupAssumption DEF home, kind

\* The constant requests have their type.
LEMMA NoCallType == NoCall \in RequestT /\ Ping \in RequestT
  BY DEF NoCall, Ping, RequestT, Request

\* Assignments to the fields of a session.
LEMMA SetRequests ==
    ASSUME NEW q \in SessionT, NEW t
    PROVE  [q EXCEPT !.requests = t] =
              [state |-> q.state, requests |-> t, answers |-> q.answers]
  BY DEF SessionT

\* The same for the answers of a session.
LEMMA SetAnswers ==
    ASSUME NEW q \in SessionT, NEW t
    PROVE  [q EXCEPT !.answers = t] =
              [state |-> q.state, requests |-> q.requests, answers |-> t]
  BY DEF SessionT

\* What Reply leaves in the session.
LEMMA ReplyEffect ==
    ASSUME BasicInv, NEW s \in Session, NEW a \in AnswerT,
           sessions[s].requests # <<>>, Reply(s, a)
    PROVE  /\ sessions' = [sessions EXCEPT ![s] =
                 [state |-> sessions[s].state, requests |-> <<>>,
                  answers |-> IF sessions[s].state = "open" THEN <<a>> ELSE <<>>]]
           /\ sessions' \in [Session -> SessionT]
           /\ \A t \in Session : OneMessage(sessions'[t])
  <1>0. sessions \in [Session -> SessionT] /\ sessions[s] \in SessionT /\ OneMessage(sessions[s])
    BY DEF BasicInv, TypeOK
  <1>1. Tail(sessions[s].requests) = <<>>
    BY <1>0, SlotFull DEF SessionT
  <1>2. sessions[s].answers = <<>>
    BY <1>0 DEF OneMessage
  <1>3. Append(<<>>, a) = <<a>> /\ <<a>> \in Slot(AnswerT) /\ <<>> \in Slot(AnswerT)
        /\ <<>> \in Slot(RequestT)
    BY SlotPut DEF Slot
  <1> DEFINE q == [state |-> sessions[s].state, requests |-> <<>>,
                  answers |-> IF sessions[s].state = "open" THEN <<a>> ELSE <<>>]
  <1>4. sessions' = [sessions EXCEPT ![s] = q]
    BY <1>1, <1>2, <1>3 DEF Reply
  <1>5. q \in SessionT /\ OneMessage(q)
    BY <1>0, <1>3 DEF SessionT, OneMessage
  <1> QED
    BY <1>0, <1>4, <1>5 DEF BasicInv

\* A request put in a free channel.
LEMMA WriteEffect ==
    ASSUME BasicInv, NEW c \in Clients, SessionOf(c) \in Session, NEW r \in RequestT,
           sessions[SessionOf(c)].state = "open", ChannelFree(c), Write(c, r)
    PROVE  /\ sessions' = [sessions EXCEPT ![SessionOf(c)] =
                 [state |-> "open", requests |-> <<r>>, answers |-> <<>>]]
           /\ sessions' \in [Session -> SessionT]
           /\ \A t \in Session : OneMessage(sessions'[t])
  <1> DEFINE s == SessionOf(c)
             q == [state |-> "open", requests |-> <<r>>, answers |-> <<>>]
  <1> HIDE DEF s
  <1>0. sessions \in [Session -> SessionT] /\ s \in Session /\ sessions[s] \in SessionT
    BY DEF BasicInv, TypeOK, s
  <1>1. sessions[s].requests = <<>> /\ sessions[s].answers = <<>> /\ sessions[s].state = "open"
    BY DEF ChannelFree, s
  <1>2. Append(<<>>, r) = <<r>> /\ <<r>> \in Slot(RequestT) /\ <<>> \in Slot(AnswerT)
    BY SlotPut DEF Slot
  <1>3. sessions' = [sessions EXCEPT ![s] = [sessions[s] EXCEPT !.requests = <<r>>]]
    BY <1>0, <1>1, <1>2 DEF Write, s
  <1>4. [sessions[s] EXCEPT !.requests = <<r>>] = q
    BY <1>0, <1>1, SetRequests
  <1>5. q \in SessionT /\ OneMessage(q)
    BY <1>2 DEF SessionT, OneMessage
  <1>6. sessions' = [sessions EXCEPT ![s] = q]
    BY <1>3, <1>4
  <1> QED
    BY <1>0, <1>5, <1>6 DEF BasicInv, s

\* An answer taken from a channel.
LEMMA ReadEffect ==
    ASSUME BasicInv, NEW c \in Clients, SessionOf(c) \in Session,
           sessions[SessionOf(c)].answers # <<>>, ReadAnswer(c)
    PROVE  /\ sessions' = [sessions EXCEPT ![SessionOf(c)] =
                 [state |-> "open", requests |-> <<>>, answers |-> <<>>]]
           /\ sessions' \in [Session -> SessionT]
           /\ \A t \in Session : OneMessage(sessions'[t])
           /\ sessions[SessionOf(c)].state = "open"
           /\ sessions[SessionOf(c)].requests = <<>>
           /\ AnswerTo(c) \in AnswerT /\ sessions[SessionOf(c)].answers = <<AnswerTo(c)>>
  <1> DEFINE s == SessionOf(c)
             q == [state |-> "open", requests |-> <<>>, answers |-> <<>>]
  <1> HIDE DEF s
  <1>0. sessions \in [Session -> SessionT] /\ s \in Session /\ sessions[s] \in SessionT
        /\ OneMessage(sessions[s])
    BY DEF BasicInv, TypeOK, s
  <1>1. sessions[s].requests = <<>> /\ sessions[s].state = "open"
    BY <1>0 DEF OneMessage, s
  <1>2. sessions[s].answers \in Slot(AnswerT)
    BY <1>0 DEF SessionT
  <1>3. /\ Tail(sessions[s].answers) = <<>> /\ AnswerTo(c) \in AnswerT
        /\ sessions[s].answers = <<AnswerTo(c)>>
    BY <1>2, SlotFull DEF AnswerTo, s
  <1>4. sessions' = [sessions EXCEPT ![s] = [sessions[s] EXCEPT !.answers = <<>>]]
    BY <1>0, <1>3 DEF ReadAnswer, s
  <1>5. [sessions[s] EXCEPT !.answers = <<>>] = q
    BY <1>0, <1>1, SetAnswers
  <1>6. q \in SessionT /\ OneMessage(q)
    BY DEF SessionT, OneMessage, Slot
  <1>7. sessions' = [sessions EXCEPT ![s] = q]
    BY <1>4, <1>5
  <1> QED
    BY <1>0, <1>1, <1>3, <1>6, <1>7 DEF BasicInv, s

\* A channel that breaks.
LEMMA CutEffect ==
    ASSUME BasicInv, NEW c \in Clients, SessionOf(c) \in Session, Cut(c)
    PROVE  /\ \E q : /\ sessions' = [sessions EXCEPT ![SessionOf(c)] = q]
                     /\ q.answers = <<>> /\ q.state \in {"cut", "closed"}
                     /\ q.state = "closed" => sessions[SessionOf(c)].state = "closed"
                     /\ q.requests \in {<<>>, sessions[SessionOf(c)].requests}
           /\ sessions' \in [Session -> SessionT]
           /\ \A t \in Session : OneMessage(sessions'[t])
  <1> DEFINE s == SessionOf(c)
  <1> HIDE DEF s
  <1>0. sessions \in [Session -> SessionT] /\ s \in Session /\ sessions[s] \in SessionT
        /\ OneMessage(sessions[s])
    BY DEF BasicInv, TypeOK, s
  <1>1. CASE sessions[s].state = "open"
    <2>1. PICK requests \in {<<>>, sessions[s].requests} :
             sessions' = [sessions EXCEPT ![s] =
                            [state |-> "cut", requests |-> requests, answers |-> <<>>]]
      BY <1>1 DEF Cut, s
    <2> DEFINE q == [state |-> "cut", requests |-> requests, answers |-> <<>>]
    <2>2. q \in SessionT /\ OneMessage(q)
      BY <1>0 DEF SessionT, OneMessage, Slot
    <2>3. sessions' = [sessions EXCEPT ![s] = q] /\ q.answers = <<>>
          /\ q.state \in {"cut", "closed"} /\ q.state # "closed"
          /\ q.requests \in {<<>>, sessions[s].requests}
      BY <2>1
    <2> QED
      BY <1>0, <2>2, <2>3 DEF BasicInv, s
  <1>2. CASE sessions[s].state # "open"
    <2>1. sessions' = sessions
      BY <1>2 DEF Cut, s
    <2>2. sessions' = [sessions EXCEPT ![s] = sessions[s]]
      BY <1>0, <2>1
    <2>3. sessions[s].answers = <<>> /\ sessions[s].state \in {"cut", "closed"}
      BY <1>0, <1>2 DEF OneMessage, SessionT
    <2> QED
      BY <1>0, <2>1, <2>2, <2>3 DEF BasicInv, TypeOK, s
  <1> QED
    BY <1>1, <1>2

(***************************************************************************)
(* The steps of the server.                                                *)
(***************************************************************************)

\* The request that a session executes has its type.
LEMMA ReceivesType ==
    ASSUME BasicInv, NEW s \in Session, sessions[s].requests # <<>>
    PROVE  /\ Head(sessions[s].requests) \in RequestT
           /\ sessions[s].requests = <<Head(sessions[s].requests)>>
           /\ sessions[s].answers = <<>>
           /\ sessions[s].state \in {"open", "cut"}
  <1>0. sessions[s] \in SessionT /\ OneMessage(sessions[s])
    BY DEF BasicInv, TypeOK
  <1>1. sessions[s].requests \in Slot(RequestT) /\ sessions[s].state \in {"open", "cut", "closed"}
    BY <1>0 DEF SessionT
  <1> QED
    BY <1>0, <1>1, SlotFull DEF OneMessage

\* A session that ends.
LEMMA EndEffect ==
    ASSUME BasicInv, NEW s \in Session, sessions' = [sessions EXCEPT ![s] = NoSession]
    PROVE  /\ sessions' \in [Session -> SessionT]
           /\ \A t \in Session : OneMessage(sessions'[t])
  <1>1. NoSession \in SessionT /\ OneMessage(NoSession)
    BY DEF NoSession, NewSession, SessionT, OneMessage, Slot
  <1> QED
    BY <1>1 DEF BasicInv, TypeOK

\* What a step of the server may do to a session: answer its request, or end
\* it.
Replied(s, a) ==
    /\ sessions[s].requests # <<>>
    /\ sessions' = [sessions EXCEPT ![s] =
           [state |-> sessions[s].state, requests |-> <<>>,
            answers |-> IF sessions[s].state = "open" THEN <<a>> ELSE <<>>]]

\* The steps of the server, with the answers that they send.
LEMMA CheckStep ==
    ASSUME BasicInv, NEW s \in Session, ServerCheck(s)
    PROVE  LET r == Head(sessions[s].requests) IN
           /\ r.op = "check"
           /\ Replied(s, Answer(IF Matches(r.from, r.until, r.data)
                                THEN "check" ELSE "mismatch", 0, <<>>))
           /\ slog' = slog /\ holder' = holder
           /\ sessions' \in [Session -> SessionT]
           /\ \A t \in Session : OneMessage(sessions'[t])
  <1> DEFINE r == Head(sessions[s].requests)
             a == Answer(IF Matches(r.from, r.until, r.data)
                         THEN "check" ELSE "mismatch", 0, <<>>)
  <1>1. sessions[s].requests # <<>> /\ r.op = "check" /\ Reply(s, a)
        /\ slog' = slog /\ holder' = holder
    BY DEF ServerCheck, Receives
  <1>2. a \in AnswerT
    BY DEF Answer, AnswerT
  <1> HIDE DEF a
  <1>3. Replied(s, a) /\ sessions' \in [Session -> SessionT]
        /\ \A t \in Session : OneMessage(sessions'[t])
    BY <1>1, <1>2, ReplyEffect DEF Replied
  <1> QED
    BY <1>1, <1>3 DEF a

\* Session::pull, and a ping.
LEMMA PullStep ==
    ASSUME BasicInv, NEW s \in Session, ServerPull(s)
    PROVE  LET r == Head(sessions[s].requests) IN
           /\ r.op \in {"pull", "ping", "lock_pull"}
           /\ r.op = "lock_pull" => holder \in {None, s}
           /\ Replied(s, Answer(IF r.op = "lock_pull" /\ ~setup.writable
                                THEN "pullonly" ELSE r.op, Len(slog), From(slog, r.from)))
           /\ slog' = slog
           /\ holder' = IF r.op = "lock_pull" THEN s ELSE holder
           /\ sessions' \in [Session -> SessionT]
           /\ \A t \in Session : OneMessage(sessions'[t])
  <1> DEFINE r == Head(sessions[s].requests)
             a == Answer(IF r.op = "lock_pull" /\ ~setup.writable THEN "pullonly" ELSE r.op,
                         Len(slog), From(slog, r.from))
  <1>1. sessions[s].requests # <<>> /\ r.op \in {"pull", "ping", "lock_pull"}
    BY DEF ServerPull, Receives
  <1>2. /\ r.op = "lock_pull" => holder \in {None, s}
        /\ holder' = IF r.op = "lock_pull" THEN s ELSE holder
        /\ slog' = slog /\ Reply(s, a)
    BY DEF ServerPull, Receives
  <1>3. r \in RequestT
    BY <1>1, ReceivesType
  <1>4. r.from \in Nat /\ Len(slog) \in Nat /\ slog \in Seq(Nat)
    BY <1>3 DEF RequestT, BasicInv, TypeOK
  <1>5. From(slog, r.from) \in Seq(Nat)
    BY <1>4, TakeFrom
  <1>6. a \in AnswerT
    BY <1>1, <1>4, <1>5 DEF Answer, AnswerT
  <1> HIDE DEF a
  <1>7. Replied(s, a) /\ sessions' \in [Session -> SessionT]
        /\ \A t \in Session : OneMessage(sessions'[t])
    BY <1>1, <1>2, <1>6, ReplyEffect DEF Replied
  <1> QED
    BY <1>1, <1>2, <1>7 DEF a

\* Session::push.
LEMMA PushStep ==
    ASSUME BasicInv, NEW s \in Session, ServerPush(s)
    PROVE  LET r == Head(sessions[s].requests)
               code == IF ~setup.writable THEN "pullonly"
                       ELSE IF r.from # Len(slog) THEN "conflict" ELSE r.op
           IN /\ r.op \in {"push", "push_unlock"} /\ sessions[s].requests # <<>>
              /\ sessions' \in [Session -> SessionT]
              /\ \A t \in Session : OneMessage(sessions'[t])
              /\ \/ /\ sessions' = [sessions EXCEPT ![s] = NoSession]
                    /\ holder # s /\ slog' = slog /\ holder' = holder
                 \/ /\ holder \in {None, s}
                    /\ slog' = IF code = r.op THEN slog \o r.data ELSE slog
                    /\ holder' = IF r.op = "push_unlock" THEN None ELSE s
                    /\ Replied(s, Answer(code, 0, <<>>))
  <1> DEFINE r == Head(sessions[s].requests)
             code == IF ~setup.writable THEN "pullonly"
                     ELSE IF r.from # Len(slog) THEN "conflict" ELSE r.op
             a == Answer(code, 0, <<>>)
  <1>1. sessions[s].requests # <<>> /\ r.op \in {"push", "push_unlock"}
    BY DEF ServerPush, Receives
  <1>2. CASE /\ holder \notin {None, s}
             /\ sessions' = [sessions EXCEPT ![s] = NoSession]
             /\ UNCHANGED <<slog, holder>>
    BY <1>1, <1>2, EndEffect
  <1>3. CASE /\ holder \in {None, s}
             /\ slog' = IF code = r.op THEN slog \o r.data ELSE slog
             /\ holder' = IF r.op = "push_unlock" THEN None ELSE s
             /\ Reply(s, a)
    <2>1. a \in AnswerT
      BY <1>1 DEF Answer, AnswerT
    <2> HIDE DEF a
    <2>2. Replied(s, a) /\ sessions' \in [Session -> SessionT]
          /\ \A t \in Session : OneMessage(sessions'[t])
      BY <1>1, <1>3, <2>1, ReplyEffect DEF Replied
    <2> QED
      BY <1>1, <1>3, <2>2 DEF a
  <1> QED
    BY <1>2, <1>3 DEF ServerPush

\* Request 'M'.
LEMMA UnlockStep ==
    ASSUME BasicInv, NEW s \in Session, ServerUnlock(s)
    PROVE  /\ Head(sessions[s].requests).op = "unlock"
           /\ Replied(s, Answer("unlock", 0, <<>>))
           /\ slog' = slog /\ holder' = IF holder = s THEN None ELSE holder
           /\ sessions' \in [Session -> SessionT]
           /\ \A t \in Session : OneMessage(sessions'[t])
  <1>1. /\ sessions[s].requests # <<>> /\ Head(sessions[s].requests).op = "unlock"
        /\ slog' = slog /\ holder' = IF holder = s THEN None ELSE holder
        /\ Reply(s, Answer("unlock", 0, <<>>))
    BY DEF ServerUnlock, Receives, Release
  <1>2. Answer("unlock", 0, <<>>) \in AnswerT
    BY DEF Answer, AnswerT
  <1> QED
    BY <1>1, <1>2, ReplyEffect DEF Replied

\* The server ends a session.
LEMMA DropStep ==
    ASSUME BasicInv, NEW s \in Session, ServerDrop(s) \/ ServerRelock(s)
    PROVE  /\ sessions' = [sessions EXCEPT ![s] = NoSession]
           /\ slog' = slog /\ holder' = IF holder = s THEN None ELSE holder
           /\ sessions' \in [Session -> SessionT]
           /\ \A t \in Session : OneMessage(sessions'[t])
  BY EndEffect DEF ServerDrop, ServerRelock, Release

\* The timer of the lock expires.
LEMMA TimeoutStep ==
    ASSUME BasicInv, NEW s \in Session, LockTimeout(s)
    PROVE  /\ slog' = slog /\ holder' = None
           /\ \/ sessions' = sessions
              \/ /\ Head(sessions[s].requests).op \in {"push", "push_unlock"}
                 /\ Replied(s, Answer("timeout", 0, <<>>))
           /\ sessions' \in [Session -> SessionT]
           /\ \A t \in Session : OneMessage(sessions'[t])
  <1>1. slog' = slog /\ holder' = None
    BY DEF LockTimeout
  <1>2. CASE UNCHANGED sessions
    BY <1>1, <1>2 DEF BasicInv, TypeOK
  <1>3. CASE /\ sessions[s].requests # <<>>
             /\ Head(sessions[s].requests).op \in {"push", "push_unlock"}
             /\ Reply(s, Answer("timeout", 0, <<>>))
    <2>1. Answer("timeout", 0, <<>>) \in AnswerT
      BY DEF Answer, AnswerT
    <2> QED
      BY <1>1, <1>3, <2>1, ReplyEffect DEF Replied
  <1> QED
    BY <1>2, <1>3 DEF LockTimeout, Receives

(***************************************************************************)
(* What a step of one client leaves alone.                                 *)
(***************************************************************************)
Grows(F, G) == Len(F) <= Len(G) /\ \A i \in 1..Len(F) : G[i] = F[i]

OtherClients(d) == \A c \in Clients : c # d => clients'[c] = clients[c]

OtherSessions(d) ==
    \A c \in Clients : c # d => \A n \in 1..MaxLinks : sessions'[<<c, n>>] = sessions[<<c, n>>]

OtherTails(d) ==
    \A c \in Clients : c # d => (tails'[home(c)] = c <=> tails[home(c)] = c)

OtherFiles(d) ==
    \A c \in Clients : c # d =>
        /\ Grows(File(c), files'[home(c)])
        /\ tails[home(c)] = c => files'[home(c)] = File(c)

\* A step of the client d, seen by the others: their file may grow, unless
\* they have its tail lock.
Frame(d) ==
    /\ setup' = setup
    /\ OtherClients(d) /\ OtherSessions(d) /\ OtherTails(d) /\ OtherFiles(d)

\* The session of a client that has been opened.
LEMMA HasSession ==
    ASSUME BasicInv, NEW c \in Clients, clients[c].pc # "down"
    PROVE  SessionOf(c) \in Session
  <1>1. clients[c].link \in 1..MaxLinks
    BY BoundAssumption DEF BasicInv, TypeOK, LocalOK, ClientT
  <1> QED
    BY <1>1 DEF SessionOf, Session

\* Assigning one client leaves the others.
LEMMA PutOthers ==
    ASSUME BasicInv, NEW d \in Clients, NEW r, Put(d, r)
    PROVE  OtherClients(d) /\ clients'[d] = r /\ DOMAIN clients' = Clients
           /\ (r \in ClientT => clients' \in [Clients -> ClientT])
  BY DEF BasicInv, TypeOK, Put, OtherClients

\* Assigning one session leaves the ones of other clients.
LEMMA SessionsOthers ==
    ASSUME BasicInv, NEW d \in Clients, NEW n, NEW q, sessions' = [sessions EXCEPT ![<<d, n>>] = q]
    PROVE  OtherSessions(d)
  <1> SUFFICES ASSUME NEW c \in Clients, c # d, NEW m \in 1..MaxLinks
               PROVE  sessions'[<<c, m>>] = sessions[<<c, m>>]
    BY DEF OtherSessions
  <1>1. <<c, m>> \in Session /\ <<c, m>> # <<d, n>>
    BY DEF Session
  <1> QED
    BY <1>1 DEF BasicInv, TypeOK

\* Freeing the tail locks of a client leaves those of the others.
LEMMA FreeTailEffect ==
    ASSUME BasicInv, NEW d \in Clients, FreeTail(d)
    PROVE  OtherTails(d) /\ tails' \in [Files -> Clients \cup {None}]
  <1>1. tails \in [Files -> Clients \cup {None}] /\ setup \in Setups
    BY DEF BasicInv, TypeOK
  <1>2. \A f \in Files : tails'[f] = IF tails[f] = d THEN None ELSE tails[f]
    BY DEF FreeTail
  <1>3. tails' \in [Files -> Clients \cup {None}]
    BY <1>1 DEF FreeTail
  <1> QED
    BY <1>1, <1>2, <1>3, SetupType, NoneAssumption DEF OtherTails

\* The frame of a step that leaves the tail locks.
LEMMA SameTails ==
    ASSUME BasicInv, NEW d \in Clients, tails' = tails
    PROVE  OtherTails(d) /\ tails' \in [Files -> Clients \cup {None}]
  BY DEF BasicInv, TypeOK, OtherTails

\* The frame of a step that leaves the sessions.
LEMMA SameSessions ==
    ASSUME BasicInv, NEW d \in Clients, sessions' = sessions
    PROVE  OtherSessions(d) /\ sessions' \in [Session -> SessionT]
           /\ \A s \in Session : OneMessage(sessions'[s])
  BY DEF BasicInv, TypeOK, OtherSessions

\* The frame of a step that leaves the files.
LEMMA SameFiles ==
    ASSUME BasicInv, NEW d \in Clients, files' = files
    PROVE  OtherFiles(d) /\ files' \in [Files -> Seq(Nat)]
  BY DEF BasicInv, TypeOK, OtherFiles, Grows, File

\* Assigning to the memory of a Server_File.
LEMMA OwnFile ==
    ASSUME BasicInv, NEW d \in Clients, kind(d) = "server_file", NEW F \in Seq(Nat),
           files' = [files EXCEPT ![home(d)] = F]
    PROVE  OtherFiles(d) /\ files' \in [Files -> Seq(Nat)] /\ files'[home(d)] = F
  <1>1. setup \in Setups /\ files \in [Files -> Seq(Nat)] /\ home(d) \in Files
    BY SetupType DEF BasicInv, TypeOK
  <1>2. ASSUME NEW c \in Clients, c # d PROVE files'[home(c)] = File(c)
    <2>1. home(c) # home(d) /\ home(c) \in Files
      BY <1>1, <1>2, SetupType
    <2> QED
      BY <2>1, <1>1 DEF File
  <1> QED
    BY <1>1, <1>2 DEF OtherFiles, Grows

\* Appending to a file whose tail is not locked by another client.
LEMMA AppendFile ==
    ASSUME BasicInv, NEW d \in Clients, tails[home(d)] \in {d, None}, NEW data \in Seq(Nat),
           files' = [files EXCEPT ![home(d)] = File(d) \o data]
    PROVE  /\ OtherFiles(d) /\ files' \in [Files -> Seq(Nat)]
           /\ files'[home(d)] = File(d) \o data
           /\ Len(files'[home(d)]) = Len(File(d)) + Len(data)
           /\ Grows(File(d), files'[home(d)])
  <1>1. setup \in Setups /\ files \in [Files -> Seq(Nat)] /\ home(d) \in Files
    BY SetupType DEF BasicInv, TypeOK
  <1>2. /\ File(d) \in Seq(Nat) /\ File(d) \o data \in Seq(Nat)
        /\ Len(File(d) \o data) = Len(File(d)) + Len(data)
        /\ Grows(File(d), File(d) \o data)
    BY <1>1 DEF File, Grows
  <1>3. ASSUME NEW c \in Clients, c # d
        PROVE  /\ Grows(File(c), files'[home(c)])
               /\ tails[home(c)] = c => files'[home(c)] = File(c)
    <2>0. home(c) \in Files
      BY <1>1, SetupType
    <2>1. CASE home(c) = home(d)
      BY <1>1, <1>2, <1>3, <2>1, NoneAssumption DEF File
    <2>2. CASE home(c) # home(d)
      BY <1>1, <2>0, <2>2 DEF File, Grows
    <2> QED
      BY <2>1, <2>2
  <1> QED
    BY <1>1, <1>2, <1>3 DEF OtherFiles

\* The others keep what they have.
LEMMA FrameLocal ==
    ASSUME BasicInv, NEW d \in Clients, Frame(d), NEW c \in Clients, c # d,
           files' \in [Files -> Seq(Nat)]
    PROVE  LocalOK(c)'
  <1>1. /\ clients'[c] = clients[c] /\ setup' = setup
        /\ tails'[home(c)] = c <=> tails[home(c)] = c
        /\ Grows(File(c), files'[home(c)])
        /\ tails[home(c)] = c => files'[home(c)] = File(c)
    BY DEF Frame, OtherClients, OtherTails, OtherFiles
  <1>2. home(c)' = home(c) /\ home(c) \in Files /\ File(c)' = files'[home(c)]
    BY <1>1, SetupType DEF home, File, BasicInv, TypeOK
  <1>3. LocalOK(c) /\ clients[c] \in ClientT /\ File(c) \in Seq(Nat) /\ files'[home(c)] \in Seq(Nat)
    BY <1>2 DEF BasicInv, TypeOK, File
  <1> QED
    BY <1>1, <1>2, <1>3 DEF LocalOK, Holding, Grows, ClientT

(***************************************************************************)
(* The steps of the clients.                                               *)
(***************************************************************************)

\* What a step of the client c establishes of the basic invariant.
Stepped(c) ==
    /\ Frame(c) /\ TypeOK' /\ LocalOK(c)'
    /\ \A s \in Session : OneMessage(sessions'[s])

\* A step that keeps its frame keeps the invariant.
LEMMA SteppedBasic ==
    ASSUME BasicInv, NEW d \in Clients, Stepped(d)
    PROVE  BasicInv'
  <1>1. files' \in [Files -> Seq(Nat)]
    BY DEF Stepped, TypeOK
  <1>2. \A c \in Clients : LocalOK(c)'
    BY <1>1, FrameLocal DEF Stepped
  <1> QED
    BY <1>2 DEF BasicInv, Stepped

\* The state of one client.
LEMMA ClientFacts ==
    ASSUME BasicInv, NEW c \in Clients
    PROVE  /\ clients[c] \in ClientT /\ clients[c].call \in RequestT
           /\ clients[c].checkpoint \in Nat /\ clients[c].connection_checkpoint \in Nat
           /\ clients[c].server_checkpoint \in Nat /\ clients[c].link \in 0..MaxLinks
           /\ home(c) \in Files /\ File(c) \in Seq(Nat) /\ Len(File(c)) \in Nat
           /\ slog \in Seq(Nat) /\ Len(slog) \in Nat
           /\ LocalOK(c)
           /\ tails[home(c)] \in Clients \cup {None}
           /\ setup \in Setups /\ MaxLinks \in Nat
  BY SetupType, BoundAssumption DEF BasicInv, TypeOK, ClientT, File

\* A client that has not been opened has its type.
LEMMA NewClientType ==
    ASSUME NEW n \in 0..MaxLinks
    PROVE  NewClient(n) \in ClientT
  BY NoCallType, BoundAssumption DEF NewClient, ClientT

\* The files and the setup are named by the same operators after a step.
LEMMA SameSetup ==
    ASSUME setup' = setup, NEW c \in Clients
    PROVE  home(c)' = home(c) /\ kind(c)' = kind(c) /\ File(c)' = files'[home(c)]
  BY DEF home, kind, File

\* Send and KeepAlive.
LEMMA SendStep ==
    ASSUME BasicInv, NEW c \in Clients, Send(c)
    PROVE  /\ Stepped(c) /\ SessionOf(c) \in Session
           /\ sessions' = [sessions EXCEPT ![SessionOf(c)] =
                 [state |-> "open", requests |-> <<clients[c].call>>, answers |-> <<>>]]
  <1> USE ClientFacts
  <1>1. clients[c].pc # "down" /\ SessionOf(c) \in Session
    BY HasSession DEF Send, LocalOK
  <1>2. /\ sessions' = [sessions EXCEPT ![SessionOf(c)] =
                 [state |-> "open", requests |-> <<clients[c].call>>, answers |-> <<>>]]
        /\ sessions' \in [Session -> SessionT] /\ \A s \in Session : OneMessage(sessions'[s])
    BY <1>1, WriteEffect DEF Send
  <1>3. OtherSessions(c)
    BY <1>2, SessionsOthers DEF SessionOf
  <1> DEFINE r == [clients[c] EXCEPT !.sent = TRUE]
  <1>4. r \in ClientT
    BY DEF ClientT
  <1>5. OtherClients(c) /\ clients'[c] = r /\ clients' \in [Clients -> ClientT]
    BY <1>4, PutOthers DEF Send
  <1>6. OtherTails(c) /\ OtherFiles(c)
    BY SameTails, SameFiles DEF Send
  <1>7. TypeOK' /\ Frame(c)
    BY <1>2, <1>3, <1>5, <1>6 DEF BasicInv, TypeOK, Send, Frame
  <1>8. LocalOK(c)'
    BY <1>5, SameSetup DEF LocalOK, Holding, Send, ClientT, File
  <1> QED
    BY <1>1, <1>2, <1>7, <1>8 DEF Stepped

\* The keep-alive thread sends a ping.
LEMMA KeepAliveStep ==
    ASSUME BasicInv, NEW c \in Clients, KeepAlive(c)
    PROVE  /\ Stepped(c) /\ SessionOf(c) \in Session
           /\ sessions' = [sessions EXCEPT ![SessionOf(c)] =
                 [state |-> "open", requests |-> <<Ping>>, answers |-> <<>>]]
  <1> USE ClientFacts
  <1>1. clients[c].pc # "down" /\ SessionOf(c) \in Session
    BY HasSession DEF KeepAlive, LocalOK
  <1>2. /\ sessions' = [sessions EXCEPT ![SessionOf(c)] =
                 [state |-> "open", requests |-> <<Ping>>, answers |-> <<>>]]
        /\ sessions' \in [Session -> SessionT] /\ \A s \in Session : OneMessage(sessions'[s])
    BY <1>1, WriteEffect, NoCallType DEF KeepAlive
  <1>3. OtherSessions(c)
    BY <1>2, SessionsOthers DEF SessionOf
  <1>4. OtherClients(c) /\ OtherTails(c) /\ OtherFiles(c)
    BY SameTails, SameFiles DEF KeepAlive, OtherClients
  <1>5. TypeOK' /\ Frame(c)
    BY <1>2, <1>3, <1>4 DEF BasicInv, TypeOK, KeepAlive, Frame
  <1>6. LocalOK(c)'
    BY SameSetup DEF LocalOK, Holding, KeepAlive, File
  <1> QED
    BY <1>1, <1>2, <1>5, <1>6 DEF Stepped

\* The keep-alive thread reads its answer.
LEMMA KeptAliveStep ==
    ASSUME BasicInv, NEW c \in Clients, KeptAlive(c)
    PROVE  /\ Stepped(c) /\ SessionOf(c) \in Session
           /\ sessions' = [sessions EXCEPT ![SessionOf(c)] =
                 [state |-> "open", requests |-> <<>>, answers |-> <<>>]]
           /\ sessions[SessionOf(c)].state = "open"
  <1> USE ClientFacts
  <1>1. clients[c].pc # "down" /\ SessionOf(c) \in Session
    BY HasSession DEF KeptAlive, LocalOK
  <1>2. /\ sessions' = [sessions EXCEPT ![SessionOf(c)] =
                 [state |-> "open", requests |-> <<>>, answers |-> <<>>]]
        /\ sessions' \in [Session -> SessionT] /\ \A s \in Session : OneMessage(sessions'[s])
        /\ sessions[SessionOf(c)].state = "open"
    BY <1>1, ReadEffect DEF KeptAlive, ReadAnswer
  <1>3. OtherSessions(c)
    BY <1>2, SessionsOthers DEF SessionOf
  <1>4. OtherClients(c) /\ OtherTails(c) /\ OtherFiles(c)
    BY SameTails, SameFiles DEF KeptAlive, OtherClients
  <1>5. TypeOK' /\ Frame(c)
    BY <1>2, <1>3, <1>4 DEF BasicInv, TypeOK, KeptAlive, Frame
  <1>6. LocalOK(c)'
    BY SameSetup DEF LocalOK, Holding, KeptAlive, File
  <1> QED
    BY <1>1, <1>2, <1>5, <1>6 DEF Stepped

\* A push call has its type.
LEMMA PushCallType ==
    ASSUME NEW r \in ClientT, NEW journal \in Seq(Nat), NEW until \in Nat,
           until <= Len(journal), NEW op \in {"push", "push_unlock"}
    PROVE  LET x == PushCall(r, journal, until, op) IN
           /\ x \in ClientT
           /\ x.call = Request(op, r.connection_checkpoint, until,
                               SubSeq(journal, r.connection_checkpoint + 1, until))
           /\ x.sent = FALSE /\ x.pc = r.pc /\ x.link = r.link /\ x.up = r.up
           /\ x.transaction = r.transaction /\ x.server_checkpoint = r.server_checkpoint
           /\ x.connection_checkpoint = r.connection_checkpoint
           /\ x.checkpoint = r.checkpoint /\ x.unchecked = r.unchecked
  <1> DEFINE call == Request(op, r.connection_checkpoint, until,
                             SubSeq(journal, r.connection_checkpoint + 1, until))
  <1>1. r.connection_checkpoint \in Nat
    BY DEF ClientT
  <1>2. SubSeq(journal, r.connection_checkpoint + 1, until) \in Seq(Nat)
    BY <1>1, RangeOf
  <1>3. call \in RequestT
    BY <1>1, <1>2 DEF Request, RequestT
  <1>4. PushCall(r, journal, until, op) = [r EXCEPT !.call = call, !.sent = FALSE]
    BY DEF PushCall
  <1> HIDE DEF call
  <1>5. [r EXCEPT !.call = call, !.sent = FALSE] \in ClientT
    BY <1>3 DEF ClientT
  <1>6. LET x == [r EXCEPT !.call = call, !.sent = FALSE] IN
           /\ x.call = call
           /\ x.sent = FALSE /\ x.pc = r.pc /\ x.link = r.link /\ x.up = r.up
           /\ x.transaction = r.transaction /\ x.server_checkpoint = r.server_checkpoint
           /\ x.connection_checkpoint = r.connection_checkpoint
           /\ x.checkpoint = r.checkpoint /\ x.unchecked = r.unchecked
    BY DEF ClientT
  <1> QED
    BY <1>4, <1>5, <1>6 DEF call

\* A pull call has its type.
LEMMA PullCallType ==
    ASSUME NEW r \in ClientT
    PROVE  LET x == PullCall(r) IN
           /\ x \in ClientT
           /\ x.call = Request(IF r.transaction THEN "lock_pull" ELSE "pull",
                               r.checkpoint, 0, <<>>)
           /\ x.sent = FALSE /\ x.pc = r.pc /\ x.link = r.link /\ x.up = r.up
           /\ x.transaction = r.transaction /\ x.server_checkpoint = r.server_checkpoint
           /\ x.connection_checkpoint = r.connection_checkpoint
           /\ x.checkpoint = r.checkpoint /\ x.unchecked = r.unchecked
  <1> DEFINE call == Request(IF r.transaction THEN "lock_pull" ELSE "pull",
                             r.checkpoint, 0, <<>>)
  <1>1. r.checkpoint \in Nat
    BY DEF ClientT
  <1>2. call \in RequestT
    BY <1>1 DEF Request, RequestT
  <1>3. PullCall(r) = [r EXCEPT !.call = call, !.sent = FALSE]
    BY DEF PullCall
  <1> HIDE DEF call
  <1>4. [r EXCEPT !.call = call, !.sent = FALSE] \in ClientT
    BY <1>2 DEF ClientT
  <1>5. LET x == [r EXCEPT !.call = call, !.sent = FALSE] IN
           /\ x.call = call
           /\ x.sent = FALSE /\ x.pc = r.pc /\ x.link = r.link /\ x.up = r.up
           /\ x.transaction = r.transaction /\ x.server_checkpoint = r.server_checkpoint
           /\ x.connection_checkpoint = r.connection_checkpoint
           /\ x.checkpoint = r.checkpoint /\ x.unchecked = r.unchecked
    BY DEF ClientT
  <1> QED
    BY <1>3, <1>4, <1>5 DEF call

\* The fields of a client whose call has returned.
LEMMA ReturnedType ==
    ASSUME NEW r \in ClientT, NEW pc \in {"idle", "writing", "failed"}
    PROVE  LET x == Returned(r, pc) IN
           /\ x \in ClientT /\ x.call = NoCall /\ x.sent = FALSE /\ x.transaction = FALSE
           /\ x.pc = pc /\ x.link = r.link /\ x.up = r.up
           /\ x.server_checkpoint = r.server_checkpoint
           /\ x.connection_checkpoint = r.connection_checkpoint
           /\ x.checkpoint = r.checkpoint /\ x.unchecked = r.unchecked
  <1>1. [r EXCEPT !.call = NoCall, !.sent = FALSE, !.transaction = FALSE, !.pc = pc] \in ClientT
    BY NoCallType DEF ClientT
  <1>2. LET x == [r EXCEPT !.call = NoCall, !.sent = FALSE, !.transaction = FALSE, !.pc = pc] IN
           /\ x.call = NoCall /\ x.sent = FALSE /\ x.transaction = FALSE
           /\ x.pc = pc /\ x.link = r.link /\ x.up = r.up
           /\ x.server_checkpoint = r.server_checkpoint
           /\ x.connection_checkpoint = r.connection_checkpoint
           /\ x.checkpoint = r.checkpoint /\ x.unchecked = r.unchecked
    BY DEF ClientT
  <1> QED
    BY <1>1, <1>2 DEF Returned

\* get_tail_lock: a check or a pull, with the tail lock.
LEMMA BeginStep ==
    ASSUME BasicInv, NEW c \in Clients, Begin(c)
    PROVE  LET k == clients[c].connection_checkpoint
               n == Min2(k, Len(File(c)))
               x == clients'[c]
           IN /\ Stepped(c) /\ sessions' = sessions /\ files' = files /\ Idle(c)
              /\ kind(c) # "follower" /\ clients[c].checkpoint <= k
              /\ tails'[home(c)] = c
              /\ x.pc = "idle" /\ x.sent = FALSE /\ x.link = clients[c].link
              /\ x.up = clients[c].up /\ x.checkpoint = Len(File(c))
              /\ x.server_checkpoint = clients[c].server_checkpoint
              /\ x.connection_checkpoint = k
              /\ x.unchecked = (\/ clients[c].unchecked
                                \/ /\ clients[c].checkpoint < n
                                   /\ ~Matches(clients[c].checkpoint, n,
                                        SubSeq(File(c), clients[c].checkpoint + 1, n)))
              /\ IF k < Len(File(c))
                 THEN x.call = Request("check", k, Len(File(c)),
                                       SubSeq(File(c), k + 1, Len(File(c))))
                 ELSE x.call = Request(IF x.transaction THEN "lock_pull" ELSE "pull",
                                       Len(File(c)), 0, <<>>)
              /\ x.call.op \in {"check", "pull", "lock_pull"}
  <1> DEFINE k == clients[c].connection_checkpoint
             n == Min2(k, Len(File(c)))
             u == \/ clients[c].unchecked
                  \/ /\ clients[c].checkpoint < n
                     /\ ~Matches(clients[c].checkpoint, n,
                                 SubSeq(File(c), clients[c].checkpoint + 1, n))
  <1>0. PICK t \in BOOLEAN : get_tail_lock(c, t)
    BY DEF Begin
  <1> DEFINE r == [clients[c] EXCEPT !.checkpoint = Len(File(c)), !.transaction = t,
                                     !.unchecked = u]
             check == Request("check", k, Len(File(c)), SubSeq(File(c), k + 1, Len(File(c))))
  <1>1. /\ clients[c] \in ClientT /\ clients[c].call \in RequestT
        /\ clients[c].checkpoint \in Nat /\ k \in Nat
        /\ home(c) \in Files /\ File(c) \in Seq(Nat) /\ Len(File(c)) \in Nat
        /\ LocalOK(c) /\ setup \in Setups
    BY ClientFacts
  <1> HIDE DEF u
  <1>2. u \in BOOLEAN
    BY <1>1 DEF u, ClientT
  <1>3. r \in ClientT
    BY <1>1, <1>2 DEF ClientT
  <1>4. /\ r.pc = clients[c].pc /\ r.link = clients[c].link /\ r.up = clients[c].up
        /\ r.checkpoint = Len(File(c)) /\ r.transaction = t /\ r.unchecked = u
        /\ r.server_checkpoint = clients[c].server_checkpoint /\ r.connection_checkpoint = k
        /\ r.sent = clients[c].sent
    BY <1>1 DEF ClientT
  <1>5. /\ clients[c].checkpoint <= k /\ tails[home(c)] = None
        /\ tails' = [tails EXCEPT ![home(c)] = c]
        /\ Put(c, IF k < r.checkpoint
                  THEN [r EXCEPT !.sent = FALSE,
                         !.call = Request("check", k, r.checkpoint,
                                          SubSeq(File(c), k + 1, r.checkpoint))]
                  ELSE PullCall(r))
    BY <1>0, <1>4 DEF get_tail_lock, u
  <1> HIDE DEF r
  <1>6. tails' \in [Files -> Clients \cup {None}] /\ OtherTails(c) /\ tails'[home(c)] = c
    <2>1. tails \in [Files -> Clients \cup {None}]
      BY DEF BasicInv, TypeOK
    <2>2. tails' \in [Files -> Clients \cup {None}] /\ tails'[home(c)] = c
      BY <2>1, <1>1, <1>5
    <2>3. ASSUME NEW d \in Clients, d # c PROVE tails'[home(d)] = d <=> tails[home(d)] = d
      <3>1. home(d) \in Files
        BY <1>1, SetupType
      <3> QED
        BY <2>1, <2>3, <3>1, <1>1, <1>5, NoneAssumption
    <2> QED
      BY <2>2, <2>3 DEF OtherTails
  <1> DEFINE x == clients'[c]
  <1>7. /\ OtherClients(c) /\ x \in ClientT /\ clients' \in [Clients -> ClientT]
        /\ x.sent = FALSE /\ x.pc = r.pc /\ x.link = r.link /\ x.up = r.up
        /\ x.transaction = r.transaction /\ x.server_checkpoint = r.server_checkpoint
        /\ x.connection_checkpoint = r.connection_checkpoint
        /\ x.checkpoint = r.checkpoint /\ x.unchecked = r.unchecked
        /\ IF k < Len(File(c)) THEN x.call = check
           ELSE x.call = Request(IF r.transaction THEN "lock_pull" ELSE "pull",
                                 Len(File(c)), 0, <<>>)
    <2>1. CASE k < Len(File(c))
      <3> DEFINE y == [r EXCEPT !.sent = FALSE, !.call = check]
      <3>1. SubSeq(File(c), k + 1, Len(File(c))) \in Seq(Nat)
        BY <1>1, RangeOf
      <3>2. check \in RequestT
        BY <1>1, <3>1 DEF Request, RequestT
      <3>3. Put(c, y)
        BY <1>4, <1>5, <2>1
      <3> HIDE DEF check
      <3>4. /\ y \in ClientT
            /\ y.sent = FALSE /\ y.pc = r.pc /\ y.link = r.link /\ y.up = r.up
            /\ y.transaction = r.transaction /\ y.server_checkpoint = r.server_checkpoint
            /\ y.connection_checkpoint = r.connection_checkpoint
            /\ y.checkpoint = r.checkpoint /\ y.unchecked = r.unchecked /\ y.call = check
        BY <1>3, <3>2 DEF ClientT
      <3> HIDE DEF y
      <3> QED
        BY <2>1, <3>3, <3>4, PutOthers
    <2>2. CASE ~ (k < Len(File(c)))
      <3> DEFINE y == PullCall(r)
      <3>1. Put(c, y)
        BY <1>4, <1>5, <2>2
      <3>2. /\ y \in ClientT
            /\ y.sent = FALSE /\ y.pc = r.pc /\ y.link = r.link /\ y.up = r.up
            /\ y.transaction = r.transaction /\ y.server_checkpoint = r.server_checkpoint
            /\ y.connection_checkpoint = r.connection_checkpoint
            /\ y.checkpoint = r.checkpoint /\ y.unchecked = r.unchecked
            /\ y.call = Request(IF r.transaction THEN "lock_pull" ELSE "pull",
                                r.checkpoint, 0, <<>>)
        BY <1>3, PullCallType
      <3> HIDE DEF y
      <3>3. x = y /\ OtherClients(c) /\ clients' \in [Clients -> ClientT]
        BY <3>1, <3>2, PutOthers
      <3> QED
        BY <1>4, <2>2, <3>2, <3>3
    <2> QED
      BY <2>1, <2>2
  <1>8. UNCHANGED <<setup, slog, holder, sessions, files, written, acked, lost, faults>> /\ Idle(c)
        /\ kind(c) # "follower"
    BY DEF Begin
  <1>9. Frame(c)
    BY <1>6, <1>7, <1>8, SameFiles, SameSessions DEF Frame
  <1>10. TypeOK' /\ \A s \in Session : OneMessage(sessions'[s])
    BY <1>6, <1>7, <1>8 DEF BasicInv, TypeOK
  <1>11. LocalOK(c)'
    <2>1. /\ home(c)' = home(c) /\ File(c)' = File(c)
      BY <1>8, SameSetup DEF File
    <2>2. x.checkpoint = Len(File(c)) /\ x.pc = "idle"
      BY <1>4, <1>7, <1>8 DEF Idle
    <2>3. x.call.op \in {"pull", "lock_pull"} => x.call.from = x.checkpoint
      BY <1>7, <2>2 DEF Request
    <2>4. x.link > 0
      BY <1>1, <1>4, <1>7, <1>8 DEF LocalOK, Idle
    <2> QED
      BY <1>1, <1>6, <2>1, <2>2, <2>3, <2>4 DEF LocalOK, Holding
  <1>12. x.call.op \in {"check", "pull", "lock_pull"}
    BY <1>7 DEF Request
  <1> QED
    BY <1>4, <1>5, <1>6, <1>7, <1>8, <1>9, <1>10, <1>11, <1>12 DEF Stepped, u, Idle

\* The transaction is in the local file, and about to be pushed.
LEMMA CommitStep ==
    ASSUME BasicInv, NEW c \in Clients, Commit(c)
    PROVE  LET x == clients'[c]
               k == clients[c].connection_checkpoint
           IN /\ Stepped(c) /\ sessions' = sessions /\ tails' = tails
              /\ clients[c].pc = "writing" /\ clients[c].call = NoCall
              /\ tails[home(c)] = c /\ clients[c].checkpoint = Len(File(c))
              /\ written' = written + 1
              /\ files' = [files EXCEPT ![home(c)] = File(c) \o <<written + 1>>]
              /\ files'[home(c)] = File(c) \o <<written + 1>>
              /\ Grows(File(c), files'[home(c)])
              /\ x.pc = "writing" /\ x.sent = FALSE /\ x.link = clients[c].link
              /\ x.up = clients[c].up /\ x.checkpoint = Len(File(c)) + 1
              /\ Len(files'[home(c)]) = Len(File(c)) + 1
              /\ x.server_checkpoint = clients[c].server_checkpoint
              /\ x.connection_checkpoint = k /\ x.unchecked = clients[c].unchecked
              /\ x.call = Request("push_unlock", k, Len(File(c)) + 1,
                                  SubSeq(files'[home(c)], k + 1, Len(File(c)) + 1))
              /\ x.call.op = "push_unlock"
  <1> DEFINE k == clients[c].connection_checkpoint
             data == <<written + 1>>
             r == [clients[c] EXCEPT !.checkpoint = @ + 1]
  <1>1. /\ clients[c] \in ClientT /\ clients[c].call \in RequestT
        /\ clients[c].checkpoint \in Nat /\ k \in Nat
        /\ home(c) \in Files /\ File(c) \in Seq(Nat) /\ Len(File(c)) \in Nat
        /\ LocalOK(c) /\ setup \in Setups /\ written \in Nat /\ files \in [Files -> Seq(Nat)]
    BY ClientFacts DEF BasicInv, TypeOK
  <1>2. /\ clients[c].pc = "writing" /\ clients[c].call = NoCall /\ written' = written + 1
        /\ files' = [files EXCEPT ![home(c)] = Append(@, written')]
        /\ Put(c, PushCall(r, files'[home(c)], r.checkpoint, "push_unlock"))
        /\ UNCHANGED <<setup, slog, holder, sessions, tails, acked, lost, faults>>
    BY DEF Commit
  <1>3. tails[home(c)] = c /\ clients[c].checkpoint = Len(File(c))
    BY <1>1, <1>2 DEF LocalOK, Holding
  <1>4. data \in Seq(Nat) /\ Len(data) = 1 /\ Append(File(c), written + 1) = File(c) \o data
    <2>1. written + 1 \in Nat
      BY <1>1
    <2> QED
      BY <1>1, <2>1, AppendOne
  <1>5. files' = [files EXCEPT ![home(c)] = File(c) \o data]
    BY <1>1, <1>2, <1>4 DEF File
  <1>6. /\ OtherFiles(c) /\ files' \in [Files -> Seq(Nat)]
        /\ files'[home(c)] = File(c) \o data
        /\ Len(files'[home(c)]) = Len(File(c)) + 1
        /\ Grows(File(c), files'[home(c)])
    BY <1>3, <1>4, <1>5, AppendFile
  <1> DEFINE n == Len(File(c)) + 1
             F == files'[home(c)]
             y == PushCall(r, F, n, "push_unlock")
  <1>7. n \in Nat /\ n = clients[c].checkpoint + 1 /\ F \in Seq(Nat) /\ n <= Len(F)
    BY <1>1, <1>3, <1>6
  <1> HIDE DEF n
  <1>8. /\ r \in ClientT /\ r.checkpoint = n /\ r.pc = "writing"
        /\ r.link = clients[c].link /\ r.up = clients[c].up
        /\ r.server_checkpoint = clients[c].server_checkpoint
        /\ r.connection_checkpoint = k /\ r.unchecked = clients[c].unchecked
    BY <1>1, <1>2, <1>7 DEF ClientT
  <1>9. Put(c, y)
    BY <1>2, <1>8
  <1> HIDE DEF F, r
  <1>10. /\ y \in ClientT /\ y.pc = "writing" /\ y.sent = FALSE /\ y.link = clients[c].link
         /\ y.up = clients[c].up /\ y.checkpoint = n
         /\ y.server_checkpoint = clients[c].server_checkpoint
         /\ y.connection_checkpoint = k /\ y.unchecked = clients[c].unchecked
         /\ y.call = Request("push_unlock", k, n, SubSeq(F, k + 1, n))
    <2>1. /\ y \in ClientT /\ y.pc = r.pc /\ y.sent = FALSE /\ y.link = r.link
          /\ y.up = r.up /\ y.checkpoint = r.checkpoint
          /\ y.server_checkpoint = r.server_checkpoint
          /\ y.connection_checkpoint = r.connection_checkpoint
          /\ y.unchecked = r.unchecked
          /\ y.call = Request("push_unlock", r.connection_checkpoint, n,
                              SubSeq(F, r.connection_checkpoint + 1, n))
      <3>1. r \in ClientT /\ F \in Seq(Nat) /\ n \in Nat /\ n <= Len(F)
        BY <1>7, <1>8
      <3> QED
        BY ONLY <3>1, PushCallType
    <2> QED
      BY <1>8, <2>1
  <1> HIDE DEF y
  <1>11. OtherClients(c) /\ clients'[c] = y /\ clients' \in [Clients -> ClientT]
    BY <1>9, <1>10, PutOthers
  <1>12. TypeOK' /\ Frame(c) /\ \A s \in Session : OneMessage(sessions'[s])
    BY <1>1, <1>2, <1>6, <1>11, SameTails, SameSessions, SMTT(30) DEF Frame, BasicInv, TypeOK
  <1>13. LocalOK(c)'
    <2>1. home(c)' = home(c) /\ File(c)' = files'[home(c)]
      BY <1>2, SameSetup
    <2>2. y.link > 0
      BY <1>1, <1>2, <1>10 DEF LocalOK
    <2> QED
      BY <1>1, <1>2, <1>3, <1>6, <1>10, <1>11, <2>1, <2>2, SMTT(30)
         DEF LocalOK, Holding, Request, n
  <1>14. y.call.op = "push_unlock"
    BY <1>10 DEF Request
  <1> QED
    BY <1>2, <1>3, <1>5, <1>6, <1>10, <1>11, <1>12, <1>13, <1>14 DEF Stepped, F, n

\* Another program, or the client offline, appends to the file.
LEMMA AppendLocallyStep ==
    ASSUME BasicInv, NEW c \in Clients, AppendLocally(c)
    PROVE  /\ Stepped(c) /\ sessions' = sessions /\ tails' = tails /\ clients' = clients
           /\ tails[home(c)] = None /\ written' = written + 1
           /\ files' = [files EXCEPT ![home(c)] = File(c) \o <<written + 1>>]
           /\ files'[home(c)] = File(c) \o <<written + 1>>
           /\ Grows(File(c), files'[home(c)])
  <1> DEFINE data == <<written + 1>>
  <1>1. /\ clients[c] \in ClientT /\ clients[c].checkpoint \in Nat
        /\ home(c) \in Files /\ File(c) \in Seq(Nat) /\ Len(File(c)) \in Nat
        /\ LocalOK(c) /\ setup \in Setups /\ written \in Nat /\ files \in [Files -> Seq(Nat)]
    BY ClientFacts DEF BasicInv, TypeOK
  <1>2. /\ tails[home(c)] = None /\ written' = written + 1
        /\ files' = [files EXCEPT ![home(c)] = Append(@, written')]
        /\ UNCHANGED <<setup, slog, holder, sessions, tails, clients, acked, lost, faults>>
    BY DEF AppendLocally
  <1>4. data \in Seq(Nat) /\ Len(data) = 1 /\ Append(File(c), written + 1) = File(c) \o data
    <2>1. written + 1 \in Nat
      BY <1>1
    <2> QED
      BY <1>1, <2>1, AppendOne
  <1>5. files' = [files EXCEPT ![home(c)] = File(c) \o data]
    BY <1>1, <1>2, <1>4 DEF File
  <1>6. /\ OtherFiles(c) /\ files' \in [Files -> Seq(Nat)]
        /\ files'[home(c)] = File(c) \o data
        /\ Len(files'[home(c)]) = Len(File(c)) + 1
        /\ Grows(File(c), files'[home(c)])
    BY <1>2, <1>4, <1>5, AppendFile
  <1>7. TypeOK' /\ Frame(c) /\ \A s \in Session : OneMessage(sessions'[s])
    BY <1>1, <1>2, <1>6, SameTails, SameSessions DEF Frame, BasicInv, TypeOK, OtherClients
  <1>8. LocalOK(c)'
    <2>1. home(c)' = home(c) /\ File(c)' = files'[home(c)]
      BY <1>2, SameSetup
    <2>2. ~Holding(c)
      BY <1>1, <1>2, NoneAssumption DEF LocalOK
    <2> QED
      BY <1>1, <1>2, <1>6, <2>1, <2>2 DEF LocalOK, Holding
  <1> QED
    BY <1>2, <1>5, <1>6, <1>7, <1>8 DEF Stepped

\* emergency_unlock.
LEMMA AbortStep ==
    ASSUME BasicInv, NEW c \in Clients, Abort(c)
    PROVE  LET x == clients'[c]
           IN /\ Stepped(c) /\ sessions' = sessions /\ files' = files
              /\ clients[c].pc = "writing" /\ clients[c].call = NoCall
              /\ x.link = clients[c].link
              /\ x.up = clients[c].up /\ x.checkpoint = clients[c].checkpoint
              /\ x.server_checkpoint = clients[c].server_checkpoint
              /\ x.connection_checkpoint = clients[c].connection_checkpoint
              /\ x.unchecked = clients[c].unchecked
              /\ x.pc \in {"idle", "writing"}
              /\ \/ x.call = NoCall /\ x.sent = FALSE /\ x.pc = "idle"
                 \/ /\ x.call = Request("unlock", 0, 0, <<>>) /\ x.sent = clients[c].sent
                    /\ x.call.op = "unlock"
  <1>1. /\ clients[c] \in ClientT /\ LocalOK(c) /\ setup \in Setups
    BY ClientFacts
  <1>2. /\ clients[c].pc = "writing" /\ clients[c].call = NoCall
        /\ UNCHANGED <<setup, slog, holder, sessions, files, written, acked, lost, faults>>
    BY DEF Abort
  <1>3. home(c)' = home(c) /\ File(c)' = File(c)
    BY <1>2, SameSetup DEF File
  <1> DEFINE x == clients'[c]
  <1>4. CASE clients[c].up
    <2> DEFINE u == Request("unlock", 0, 0, <<>>)
               y == [clients[c] EXCEPT !.call = u]
    <2>1. Put(c, y) /\ tails' = tails
      BY <1>4 DEF Abort
    <2>2. u \in RequestT /\ u.op = "unlock"
      BY DEF Request, RequestT
    <2> HIDE DEF u
    <2>3. /\ y \in ClientT /\ y.pc = "writing" /\ y.link = clients[c].link
          /\ y.up = clients[c].up /\ y.checkpoint = clients[c].checkpoint
          /\ y.server_checkpoint = clients[c].server_checkpoint
          /\ y.connection_checkpoint = clients[c].connection_checkpoint
          /\ y.unchecked = clients[c].unchecked /\ y.call = u /\ y.sent = clients[c].sent
      BY <1>1, <1>2, <2>2 DEF ClientT
    <2> HIDE DEF y
    <2>4. OtherClients(c) /\ x = y /\ clients' \in [Clients -> ClientT]
      BY <2>1, <2>3, PutOthers
    <2>5. TypeOK' /\ Frame(c) /\ \A s \in Session : OneMessage(sessions'[s])
      BY <1>2, <2>1, <2>4, SameTails, SameSessions, SameFiles DEF Frame, BasicInv, TypeOK
    <2>6. LocalOK(c)'
      BY <1>1, <1>2, <1>3, <2>1, <2>2, <2>3, <2>4 DEF LocalOK, Holding
    <2> QED
      BY <1>2, <2>2, <2>3, <2>4, <2>5, <2>6 DEF Stepped, u
  <1>5. CASE ~clients[c].up
    <2> DEFINE y == Returned(clients[c], "idle")
    <2>1. Put(c, y) /\ FreeTail(c)
      BY <1>5 DEF Abort
    <2>2. /\ y \in ClientT /\ y.pc = "idle" /\ y.link = clients[c].link
          /\ y.up = clients[c].up /\ y.checkpoint = clients[c].checkpoint
          /\ y.server_checkpoint = clients[c].server_checkpoint
          /\ y.connection_checkpoint = clients[c].connection_checkpoint
          /\ y.unchecked = clients[c].unchecked /\ y.call = NoCall /\ y.sent = FALSE
      BY <1>1, ReturnedType
    <2> HIDE DEF y
    <2>3. OtherClients(c) /\ x = y /\ clients' \in [Clients -> ClientT]
      BY <2>1, <2>2, PutOthers
    <2>4. TypeOK' /\ Frame(c) /\ \A s \in Session : OneMessage(sessions'[s])
      BY <1>2, <2>1, <2>3, FreeTailEffect, SameSessions, SameFiles DEF Frame, BasicInv, TypeOK
    <2>5. LocalOK(c)'
      BY <1>1, <1>2, <1>3, <2>2, <2>3 DEF LocalOK, Holding, NoCall, Request
    <2> QED
      BY <1>2, <2>2, <2>3, <2>4, <2>5 DEF Stepped
  <1> QED
    BY <1>4, <1>5

\* push_if_ahead.
LEMMA PushIfAheadStep ==
    ASSUME BasicInv, NEW c \in Clients, push_if_ahead(c)
    PROVE  LET x == clients'[c]
               k == clients[c].connection_checkpoint
           IN /\ Stepped(c) /\ sessions' = sessions /\ files' = files /\ tails' = tails
              /\ Idle(c)
              /\ x.pc = "idle" /\ x.sent = FALSE /\ x.link = clients[c].link
              /\ x.up = clients[c].up
              /\ x.checkpoint = IF kind(c) = "follower" THEN Len(File(c))
                                ELSE clients[c].checkpoint
              /\ x.server_checkpoint = clients[c].server_checkpoint
              /\ x.connection_checkpoint = k
              /\ x.unchecked = clients[c].unchecked
              /\ \E until \in Nat, op \in {"push", "push_unlock"} :
                    /\ k < until /\ until <= x.checkpoint
                    /\ x.call = Request(op, k, until, SubSeq(File(c), k + 1, until))
              /\ x.call.op \in {"push", "push_unlock"}
              /\ kind(c) = "follower" => x.call.op = "push"
  <1> DEFINE k == clients[c].connection_checkpoint
             r == IF kind(c) = "follower"
                  THEN [clients[c] EXCEPT !.checkpoint = Len(File(c))] ELSE clients[c]
             op == IF kind(c) = "follower" THEN "push" ELSE "push_unlock"
             m == IF kind(c) = "follower" THEN Len(File(c)) ELSE clients[c].checkpoint
  <1>1. /\ clients[c] \in ClientT /\ clients[c].checkpoint \in Nat /\ k \in Nat
        /\ File(c) \in Seq(Nat) /\ Len(File(c)) \in Nat
        /\ LocalOK(c) /\ setup \in Setups
    BY ClientFacts
  <1>2. /\ Idle(c)
        /\ UNCHANGED <<setup, slog, holder, sessions, files, tails, written, acked, lost, faults>>
    BY DEF push_if_ahead
  <1>3. m \in Nat /\ m <= Len(File(c))
    BY <1>1 DEF LocalOK
  <1>4. /\ r \in ClientT /\ r.checkpoint = m /\ r.pc = "idle"
        /\ r.link = clients[c].link /\ r.up = clients[c].up
        /\ r.server_checkpoint = clients[c].server_checkpoint
        /\ r.connection_checkpoint = k /\ r.unchecked = clients[c].unchecked
    <2>1. clients[c].pc = "idle"
      BY <1>2 DEF Idle
    <2> QED
      BY <1>1, <2>1 DEF ClientT
  <1>5. PICK until \in r.connection_checkpoint + 1 .. r.checkpoint :
           Put(c, PushCall(r, File(c), until, op))
    BY DEF push_if_ahead
  <1>6. op \in {"push", "push_unlock"} /\ (kind(c) = "follower" => op = "push")
    OBVIOUS
  <1> HIDE DEF r, op, m
  <1>7. until \in Nat /\ k < until /\ until <= m /\ until <= Len(File(c))
    BY <1>1, <1>3, <1>4, <1>5
  <1> DEFINE y == PushCall(r, File(c), until, op)
  <1>8. /\ y \in ClientT /\ y.pc = r.pc /\ y.sent = FALSE /\ y.link = r.link
        /\ y.up = r.up /\ y.checkpoint = r.checkpoint
        /\ y.server_checkpoint = r.server_checkpoint
        /\ y.connection_checkpoint = r.connection_checkpoint
        /\ y.unchecked = r.unchecked
        /\ y.call = Request(op, r.connection_checkpoint, until,
                            SubSeq(File(c), r.connection_checkpoint + 1, until))
    <2>1. r \in ClientT /\ File(c) \in Seq(Nat) /\ until \in Nat /\ until <= Len(File(c))
      BY <1>1, <1>4, <1>7
    <2> QED
      BY ONLY <1>6, <2>1, PushCallType, ZenonT(30)
  <1>9. Put(c, y)
    BY <1>5
  <1> HIDE DEF y
  <1>10. OtherClients(c) /\ clients'[c] = y /\ clients' \in [Clients -> ClientT]
    BY <1>8, <1>9, PutOthers
  <1>11. TypeOK' /\ Frame(c) /\ \A s \in Session : OneMessage(sessions'[s])
    BY <1>2, <1>10, SameTails, SameSessions, SameFiles DEF Frame, BasicInv, TypeOK
  <1>12. LocalOK(c)'
    <2>1. home(c)' = home(c) /\ File(c)' = File(c)
      BY <1>2, SameSetup DEF File
    <2>2. y.link > 0 /\ y.checkpoint <= Len(File(c)) /\ y.pc = "idle"
      BY <1>1, <1>2, <1>3, <1>4, <1>8 DEF LocalOK, Idle
    <2>3. y.call.op \in {"push", "push_unlock"}
      BY <1>6, <1>8 DEF Request
    <2> QED
      BY <1>10, <2>1, <2>2, <2>3 DEF LocalOK, Holding
  <1>13. y.call.op \in {"push", "push_unlock"} /\ (kind(c) = "follower" => y.call.op = "push")
    BY <1>6, <1>8 DEF Request
  <1> QED
    BY <1>2, <1>4, <1>6, <1>7, <1>8, <1>10, <1>11, <1>12, <1>13 DEF Stepped, m

\* A new session of the client c.
LEMMA ConnectedEffect ==
    ASSUME BasicInv, NEW c \in Clients, Connected(c)
    PROVE  LET s == <<c, clients[c].link + 1>> IN
           /\ clients[c].link + 1 \in 1..MaxLinks /\ s \in Session
           /\ sessions' = [sessions EXCEPT ![s] = NewSession]
           /\ sessions' \in [Session -> SessionT] /\ OtherSessions(c)
           /\ \A t \in Session : OneMessage(sessions'[t])
  <1> DEFINE s == <<c, clients[c].link + 1>>
  <1>1. clients[c].link \in 0..MaxLinks /\ MaxLinks \in Nat
    BY ClientFacts
  <1>2. clients[c].link + 1 \in 1..MaxLinks /\ sessions' = [sessions EXCEPT ![s] = NewSession]
    BY <1>1 DEF Connected
  <1>3. s \in Session
    BY <1>2 DEF Session
  <1>4. NewSession \in SessionT /\ OneMessage(NewSession)
    BY DEF NewSession, SessionT, OneMessage, Slot
  <1>5. OtherSessions(c)
    BY <1>2, SessionsOthers
  <1> QED
    BY <1>2, <1>3, <1>4, <1>5 DEF BasicInv, TypeOK

\* A new client.
LEMMA OpenStep ==
    ASSUME BasicInv, NEW c \in Clients, Open(c)
    PROVE  LET x == clients'[c]
               F == files'[home(c)]
           IN /\ Stepped(c) /\ tails' = tails /\ clients[c].pc = "down"
              /\ kind(c) = "server_file" \/ Handshake(F)
              /\ sessions' = [sessions EXCEPT ![<<c, clients[c].link + 1>>] = NewSession]
              /\ <<c, clients[c].link + 1>> \in Session
              /\ files' = IF kind(c) = "server_file"
                          THEN [files EXCEPT ![home(c)] = slog] ELSE files
              /\ kind(c) = "server_file" => F = slog
              /\ x.pc = "idle" /\ x.sent = FALSE /\ x.link = clients[c].link + 1
              /\ x.up = TRUE /\ x.checkpoint = Len(F)
              /\ x.server_checkpoint = Len(slog)
              /\ x.connection_checkpoint = Len(slog)
              /\ x.unchecked = FALSE
              /\ IF kind(c) = "follower"
                 THEN x.call = Request("push", Len(slog), Min2(Len(slog), Len(F)),
                                SubSeq(F, Len(slog) + 1, Min2(Len(slog), Len(F))))
                 ELSE x.call = NoCall
              /\ x.call.op \in {"push", "none"}
  <1> DEFINE F == files'[home(c)]
             o == [NewClient(clients[c].link + 1) EXCEPT
                     !.pc = "idle", !.up = TRUE,
                     !.server_checkpoint = Len(slog),
                     !.connection_checkpoint = Len(slog),
                     !.checkpoint = Len(F)]
             m == Min2(Len(slog), Len(F))
  <1>1. /\ clients[c] \in ClientT /\ File(c) \in Seq(Nat) /\ Len(File(c)) \in Nat
        /\ slog \in Seq(Nat) /\ Len(slog) \in Nat /\ home(c) \in Files
        /\ LocalOK(c) /\ setup \in Setups
    BY ClientFacts
  <1>2. /\ clients[c].pc = "down" /\ Connected(c)
        /\ kind(c) = "server_file" \/ Handshake(File(c))
        /\ files' = IF kind(c) = "server_file"
                    THEN [files EXCEPT ![home(c)] = slog] ELSE files
        /\ Put(c, IF kind(c) = "follower" THEN PushCall(o, F, m, "push") ELSE o)
        /\ UNCHANGED <<setup, slog, holder, tails, written, acked, lost, faults>>
    BY DEF Open
  <1>3. /\ OtherFiles(c) /\ files' \in [Files -> Seq(Nat)]
        /\ F \in Seq(Nat) /\ Len(F) \in Nat
        /\ kind(c) = "server_file" => F = slog
        /\ kind(c) # "server_file" => F = File(c)
    BY <1>1, <1>2, OwnFile, SameFiles DEF File
  <1>4. /\ clients[c].link + 1 \in 1..MaxLinks /\ <<c, clients[c].link + 1>> \in Session
        /\ sessions' = [sessions EXCEPT ![<<c, clients[c].link + 1>>] = NewSession]
        /\ sessions' \in [Session -> SessionT] /\ OtherSessions(c)
        /\ \A t \in Session : OneMessage(sessions'[t])
    BY <1>2, ConnectedEffect
  <1> HIDE DEF F
  <1>5. /\ o \in ClientT /\ o.pc = "idle" /\ o.sent = FALSE /\ o.link = clients[c].link + 1
        /\ o.up = TRUE /\ o.checkpoint = Len(F) /\ o.server_checkpoint = Len(slog)
        /\ o.connection_checkpoint = Len(slog) /\ o.unchecked = FALSE /\ o.call = NoCall
    <2> DEFINE z == NewClient(clients[c].link + 1)
    <2>1. z \in ClientT
      BY <1>4, NewClientType, ClientFacts
    <2>2. z.sent = FALSE /\ z.link = clients[c].link + 1 /\ z.unchecked = FALSE /\ z.call = NoCall
      BY DEF NewClient
    <2>3. o = [z EXCEPT !.pc = "idle", !.up = TRUE, !.server_checkpoint = Len(slog),
                 !.connection_checkpoint = Len(slog), !.checkpoint = Len(F)]
      OBVIOUS
    <2> HIDE DEF z, o
    <2>4. Len(slog) \in Nat /\ Len(F) \in Nat
      BY <1>1, <1>3
    <2> QED
      BY <2>1, <2>2, <2>3, <2>4 DEF ClientT
  <1> HIDE DEF o
  <1>6. m \in Nat /\ m <= Len(F)
    BY <1>1, <1>3 DEF Min2
  <1> HIDE DEF m
  <1> DEFINE y == PushCall(o, F, m, "push")
  <1>7. /\ y \in ClientT /\ y.pc = o.pc /\ y.sent = FALSE /\ y.link = o.link
        /\ y.up = o.up /\ y.checkpoint = o.checkpoint
        /\ y.server_checkpoint = o.server_checkpoint
        /\ y.connection_checkpoint = o.connection_checkpoint
        /\ y.unchecked = o.unchecked
        /\ y.call = Request("push", o.connection_checkpoint, m,
                            SubSeq(F, o.connection_checkpoint + 1, m))
    <2>1. o \in ClientT /\ F \in Seq(Nat)
      BY <1>3, <1>5
    <2> QED
      BY ONLY <1>6, <2>1, PushCallType
  <1>8. Put(c, IF kind(c) = "follower" THEN y ELSE o)
    BY <1>2
  <1> HIDE DEF y
  <1> DEFINE w == IF kind(c) = "follower" THEN y ELSE o
  <1>9. OtherClients(c) /\ clients'[c] = w /\ clients' \in [Clients -> ClientT]
    <2>1. w \in ClientT
      BY <1>5, <1>7
    <2> HIDE DEF w
    <2> QED
      BY <1>8, <2>1, PutOthers DEF w
  <1>10. /\ w.pc = "idle" /\ w.sent = FALSE /\ w.link = clients[c].link + 1
         /\ w.up = TRUE /\ w.checkpoint = Len(F) /\ w.server_checkpoint = Len(slog)
         /\ w.connection_checkpoint = Len(slog) /\ w.unchecked = FALSE
         /\ IF kind(c) = "follower"
            THEN w.call = Request("push", Len(slog), m, SubSeq(F, Len(slog) + 1, m))
            ELSE w.call = NoCall
    BY <1>5, <1>7
  <1> HIDE DEF w
  <1>11. TypeOK' /\ Frame(c)
    BY <1>2, <1>3, <1>4, <1>9, SameTails DEF Frame, BasicInv, TypeOK
  <1>12. LocalOK(c)'
    <2>1. home(c)' = home(c) /\ File(c)' = F
      BY <1>2, SameSetup DEF F
    <2>2. w.call.op \in {"push", "none"}
      BY <1>10 DEF Request, NoCall
    <2>3. w.link > 0
      BY <1>4, <1>10
    <2>4. Len(F) <= Len(F)
      BY <1>3
    <2> QED
      BY <1>9, <1>10, <2>1, <2>2, <2>3, <2>4 DEF LocalOK, Holding
  <1>13. kind(c) = "server_file" \/ Handshake(F)
    BY <1>2, <1>3
  <1>14. w.call.op \in {"push", "none"}
    BY <1>10 DEF Request, NoCall
  <1> QED
    BY <1>2, <1>3, <1>4, <1>9, <1>10, <1>11, <1>12, <1>13, <1>14 DEF Stepped, F, m

\* The client is gone.
LEMMA GoneStep ==
    ASSUME BasicInv, NEW c \in Clients, clients[c].pc # "down", Gone(c), faults' \in Nat
    PROVE  LET s == SessionOf(c) IN
           /\ Stepped(c) /\ s \in Session
           /\ clients'[c] = NewClient(clients[c].link)
           /\ files' = IF kind(c) = "server_file"
                       THEN [files EXCEPT ![home(c)] = <<>>] ELSE files
           /\ \E q : /\ sessions' = [sessions EXCEPT ![s] = q]
                     /\ q.answers = <<>> /\ q.state \in {"cut", "closed"}
                     /\ q.state = "closed" => sessions[s].state = "closed"
                     /\ q.requests \in {<<>>, sessions[s].requests}
  <1> DEFINE s == SessionOf(c)
  <1>1. /\ clients[c] \in ClientT /\ clients[c].link \in 0..MaxLinks /\ setup \in Setups
        /\ s \in Session
    BY ClientFacts, HasSession
  <1>2. /\ Cut(c) /\ FreeTail(c)
        /\ files' = IF kind(c) = "server_file"
                    THEN [files EXCEPT ![home(c)] = <<>>] ELSE files
        /\ Put(c, NewClient(clients[c].link))
        /\ UNCHANGED <<setup, slog, holder, written, acked, lost>>
    BY DEF Gone
  <1>3. PICK q : /\ sessions' = [sessions EXCEPT ![s] = q]
                 /\ q.answers = <<>> /\ q.state \in {"cut", "closed"}
                 /\ q.state = "closed" => sessions[s].state = "closed"
                 /\ q.requests \in {<<>>, sessions[s].requests}
    BY <1>1, <1>2, CutEffect
  <1>4. /\ sessions' \in [Session -> SessionT] /\ \A t \in Session : OneMessage(sessions'[t])
    BY <1>1, <1>2, CutEffect
  <1>5. OtherSessions(c)
    BY <1>3, SessionsOthers DEF SessionOf
  <1>6. OtherFiles(c) /\ files' \in [Files -> Seq(Nat)]
    <2>1. <<>> \in Seq(Nat)
      OBVIOUS
    <2>2. CASE kind(c) = "server_file"
      BY <1>2, <2>1, <2>2, OwnFile
    <2>3. CASE kind(c) # "server_file"
      BY <1>2, <2>3, SameFiles
    <2> QED
      BY <2>2, <2>3
  <1>7. OtherTails(c) /\ tails' \in [Files -> Clients \cup {None}]
    BY <1>2, FreeTailEffect
  <1> DEFINE y == NewClient(clients[c].link)
  <1>8. y \in ClientT
    BY <1>1, NewClientType
  <1>9. y.pc = "down" /\ y.checkpoint = 0 /\ y.call.op = "none" /\ ~y.up
    BY DEF NewClient, NoCall, Request
  <1> HIDE DEF y
  <1>10. OtherClients(c) /\ clients'[c] = y /\ clients' \in [Clients -> ClientT]
    BY <1>2, <1>8, PutOthers DEF y
  <1>11. TypeOK' /\ Frame(c)
    BY <1>2, <1>4, <1>5, <1>6, <1>7, <1>10 DEF Frame, BasicInv, TypeOK
  <1>12. LocalOK(c)'
    <2>1. File(c)' \in Seq(Nat)
      BY <1>1, <1>2, <1>6, SameSetup, SetupType
    <2> QED
      BY <1>9, <1>10, <2>1 DEF LocalOK, Holding
  <1> QED
    BY <1>1, <1>2, <1>3, <1>4, <1>10, <1>11, <1>12 DEF Stepped, y

\* Using the channel throws.
LEMMA ThrowsStep ==
    ASSUME BasicInv, NEW c \in Clients, clients[c].up, ChannelThrows(c), faults' \in Nat
    PROVE  LET s == SessionOf(c)
               x == clients'[c]
           IN /\ Stepped(c) /\ s \in Session /\ files' = files
              /\ \E q : /\ sessions' = [sessions EXCEPT ![s] = q]
                        /\ q.answers = <<>> /\ q.state \in {"cut", "closed"}
                        /\ q.state = "closed" => sessions[s].state = "closed"
                        /\ q.requests \in {<<>>, sessions[s].requests}
              /\ x.sent = FALSE /\ x.link = clients[c].link
              /\ x.up = FALSE /\ x.checkpoint = clients[c].checkpoint
              /\ x.server_checkpoint = clients[c].server_checkpoint
              /\ x.connection_checkpoint = clients[c].connection_checkpoint
              /\ x.unchecked = clients[c].unchecked
              /\ \/ /\ x.pc = clients[c].pc /\ x.call = clients[c].call
                    /\ x.transaction = clients[c].transaction
                 \/ x.pc = "idle" /\ x.call = NoCall /\ clients[c].call.op = "unlock"
  <1> DEFINE s == SessionOf(c)
             r == [clients[c] EXCEPT !.up = FALSE, !.sent = FALSE]
             y == Returned(r, "idle")
             x == clients'[c]
  <1>1. /\ clients[c] \in ClientT /\ setup \in Setups /\ s \in Session /\ LocalOK(c)
    BY ClientFacts, HasSession DEF LocalOK
  <1>2. /\ Cut(c) /\ UNCHANGED <<setup, slog, holder, files, written, acked, lost>>
        /\ IF r.call.op = "unlock" THEN FreeTail(c) /\ Put(c, y)
                                   ELSE tails' = tails /\ Put(c, r)
    BY DEF ChannelThrows
  <1>3. PICK q : /\ sessions' = [sessions EXCEPT ![s] = q]
                 /\ q.answers = <<>> /\ q.state \in {"cut", "closed"}
                 /\ q.state = "closed" => sessions[s].state = "closed"
                 /\ q.requests \in {<<>>, sessions[s].requests}
    BY <1>1, <1>2, CutEffect
  <1>4. /\ sessions' \in [Session -> SessionT] /\ \A t \in Session : OneMessage(sessions'[t])
    BY <1>1, <1>2, CutEffect
  <1>5. OtherSessions(c)
    BY <1>3, SessionsOthers DEF SessionOf
  <1>6. OtherFiles(c) /\ files' \in [Files -> Seq(Nat)]
    BY <1>2, SameFiles
  <1>7. OtherTails(c) /\ tails' \in [Files -> Clients \cup {None}]
    BY <1>2, FreeTailEffect, SameTails
  <1>8. /\ r \in ClientT /\ r.sent = FALSE /\ r.link = clients[c].link
        /\ r.up = FALSE /\ r.checkpoint = clients[c].checkpoint
        /\ r.server_checkpoint = clients[c].server_checkpoint
        /\ r.connection_checkpoint = clients[c].connection_checkpoint
        /\ r.unchecked = clients[c].unchecked /\ r.transaction = clients[c].transaction
        /\ r.pc = clients[c].pc /\ r.call = clients[c].call
    BY <1>1 DEF ClientT
  <1> HIDE DEF r
  <1>9. /\ y \in ClientT /\ y.sent = FALSE /\ y.link = r.link /\ y.up = r.up
        /\ y.checkpoint = r.checkpoint /\ y.server_checkpoint = r.server_checkpoint
        /\ y.connection_checkpoint = r.connection_checkpoint
        /\ y.unchecked = r.unchecked /\ y.pc = "idle" /\ y.call = NoCall
    BY <1>8, ReturnedType
  <1> HIDE DEF y
  <1>10. OtherClients(c) /\ clients' \in [Clients -> ClientT]
         /\ x = IF r.call.op = "unlock" THEN y ELSE r
    BY <1>2, <1>8, <1>9, PutOthers
  <1>11. TypeOK' /\ Frame(c)
    BY <1>2, <1>4, <1>5, <1>6, <1>7, <1>10 DEF Frame, BasicInv, TypeOK
  <1>12. LocalOK(c)'
    <2>1. home(c)' = home(c) /\ File(c)' = File(c)
      BY <1>2, SameSetup DEF File
    <2>2. CASE r.call.op = "unlock"
      BY <1>1, <1>8, <1>9, <1>10, <2>1, <2>2 DEF LocalOK, Holding, NoCall, Request
    <2>3. CASE r.call.op # "unlock"
      BY <1>1, <1>2, <1>8, <1>10, <2>1, <2>3 DEF LocalOK, Holding
    <2> QED
      BY <2>2, <2>3
  <1> QED
    BY <1>1, <1>2, <1>3, <1>4, <1>8, <1>9, <1>10, <1>11, <1>12 DEF Stepped

\* The call ends with an exception: there is no client any more when it was
\* the empty push of a constructor.
LEMMA DisconnectedType ==
    ASSUME NEW r \in ClientT
    PROVE  LET x == Disconnected(r) IN
           /\ x \in ClientT /\ x.call = NoCall /\ x.sent = FALSE
           /\ x.pc \in {"idle", "failed"} /\ x.link = r.link /\ x.up = r.up
           /\ x.server_checkpoint = r.server_checkpoint
           /\ x.connection_checkpoint = r.connection_checkpoint
           /\ x.checkpoint = r.checkpoint /\ x.unchecked = r.unchecked
           /\ x.pc = "idle" => r.call.op # "push" \/ r.call.data # <<>>
  <1> DEFINE pc == IF r.call.op = "push" /\ r.call.data = <<>> THEN "failed" ELSE "idle"
             y == Returned(r, pc)
  <1>1. /\ pc \in {"idle", "writing", "failed"} /\ pc \in {"idle", "failed"}
        /\ pc = "idle" => r.call.op # "push" \/ r.call.data # <<>>
    OBVIOUS
  <1>2. Disconnected(r) = y
    BY DEF Disconnected
  <1> HIDE DEF pc
  <1>3. /\ y \in ClientT /\ y.call = NoCall /\ y.sent = FALSE /\ y.pc = pc
        /\ y.link = r.link /\ y.up = r.up
        /\ y.server_checkpoint = r.server_checkpoint
        /\ y.connection_checkpoint = r.connection_checkpoint
        /\ y.checkpoint = r.checkpoint /\ y.unchecked = r.unchecked
    BY ONLY <1>1, ReturnedType
  <1> HIDE DEF y
  <1> QED
    BY <1>1, <1>2, <1>3

\* A call that is not a push leaves the client idle.
LEMMA DisconnectedIdle ==
    ASSUME NEW r \in ClientT, r.call.op # "push"
    PROVE  LET x == Disconnected(r) IN
           /\ x \in ClientT /\ x.call = NoCall /\ x.sent = FALSE
           /\ x.pc = "idle" /\ x.link = r.link /\ x.up = r.up
           /\ x.server_checkpoint = r.server_checkpoint
           /\ x.connection_checkpoint = r.connection_checkpoint
           /\ x.checkpoint = r.checkpoint /\ x.unchecked = r.unchecked
  <1> DEFINE y == Returned(r, "idle")
  <1>1. Disconnected(r) = y
    BY DEF Disconnected
  <1>2. /\ y \in ClientT /\ y.call = NoCall /\ y.sent = FALSE /\ y.pc = "idle"
        /\ y.link = r.link /\ y.up = r.up
        /\ y.server_checkpoint = r.server_checkpoint
        /\ y.connection_checkpoint = r.connection_checkpoint
        /\ y.checkpoint = r.checkpoint /\ y.unchecked = r.unchecked
    BY ReturnedType
  <1> HIDE DEF y
  <1> QED
    BY <1>1, <1>2

\* Robust_Connection::reconnect.
LEMMA ReconnectStep ==
    ASSUME BasicInv, NEW c \in Clients, Reconnect(c)
    PROVE  LET x == clients'[c]
           IN /\ Stepped(c) /\ files' = files
              /\ clients[c].pc # "down" /\ ~clients[c].up /\ clients[c].call # NoCall
              /\ sessions' = [sessions EXCEPT ![<<c, clients[c].link + 1>>] = NewSession]
              /\ <<c, clients[c].link + 1>> \in Session
              /\ x.link = clients[c].link + 1 /\ x.up = TRUE
              /\ x.checkpoint = clients[c].checkpoint
              /\ x.server_checkpoint = Len(slog)
              /\ x.connection_checkpoint = clients[c].connection_checkpoint
              /\ \/ /\ x.pc = clients[c].pc /\ x.call = clients[c].call
                    /\ x.sent = clients[c].sent /\ x.transaction = clients[c].transaction
                    /\ x.unchecked = (\/ clients[c].unchecked
                                      \/ /\ clients[c].call.op \in {"pull", "lock_pull"}
                                         /\ Len(slog) < clients[c].checkpoint)
                    /\ clients[c].server_checkpoint <= Len(slog)
                    /\ kind(c) = "server_file" \/ Handshake(Take(File(c), x.checkpoint))
                 \/ /\ x.pc \in {"idle", "failed"} /\ x.call = NoCall /\ x.sent = FALSE
                    /\ x.unchecked = TRUE
                    /\ x.pc = "idle" => \/ clients[c].call.op # "push"
                                        \/ clients[c].call.data # <<>>
  <1> DEFINE shorter == /\ clients[c].call.op \in {"pull", "lock_pull"}
                        /\ Len(slog) < clients[c].checkpoint
             rolled_back == Len(slog) < clients[c].server_checkpoint
             matches == \/ kind(c) = "server_file"
                        \/ Handshake(Take(File(c), clients[c].checkpoint))
             refused == rolled_back \/ ~matches
             u == clients[c].unchecked \/ refused \/ shorter
             r == [clients[c] EXCEPT !.link = @ + 1, !.up = TRUE,
                     !.server_checkpoint = Len(slog), !.unchecked = u]
             y == Disconnected(r)
             x == clients'[c]
  <1>1. /\ clients[c] \in ClientT /\ setup \in Setups /\ LocalOK(c)
        /\ Len(slog) \in Nat /\ clients[c].server_checkpoint \in Nat
    BY ClientFacts
  <1>2. /\ Connected(c) /\ UNCHANGED <<setup, slog, holder, files, written, acked, lost, faults>>
        /\ clients[c].pc # "down" /\ ~clients[c].up /\ clients[c].call # NoCall
        /\ IF refused THEN Put(c, y) /\ FreeTail(c) ELSE Put(c, r) /\ tails' = tails
    BY DEF Reconnect
  <1>3. /\ clients[c].link + 1 \in 1..MaxLinks /\ <<c, clients[c].link + 1>> \in Session
        /\ sessions' = [sessions EXCEPT ![<<c, clients[c].link + 1>>] = NewSession]
        /\ sessions' \in [Session -> SessionT] /\ OtherSessions(c)
        /\ \A t \in Session : OneMessage(sessions'[t])
    BY <1>2, ConnectedEffect
  <1>4. OtherFiles(c) /\ files' \in [Files -> Seq(Nat)]
    BY <1>2, SameFiles
  <1>5. OtherTails(c) /\ tails' \in [Files -> Clients \cup {None}]
    BY <1>2, FreeTailEffect, SameTails
  <1>6. /\ refused \in BOOLEAN /\ shorter \in BOOLEAN
        /\ ~refused => /\ clients[c].server_checkpoint <= Len(slog)
                       /\ kind(c) = "server_file" \/ Handshake(Take(File(c), clients[c].checkpoint))
    BY <1>1
  <1> HIDE DEF refused, shorter
  <1>a. /\ u \in BOOLEAN
        /\ refused => u = TRUE
        /\ ~refused => u = (clients[c].unchecked \/ shorter)
    BY <1>1, <1>6 DEF ClientT
  <1> HIDE DEF u
  <1>7. /\ r \in ClientT /\ r.sent = clients[c].sent /\ r.link = clients[c].link + 1
        /\ r.up = TRUE /\ r.checkpoint = clients[c].checkpoint
        /\ r.server_checkpoint = Len(slog)
        /\ r.connection_checkpoint = clients[c].connection_checkpoint
        /\ r.transaction = clients[c].transaction
        /\ r.unchecked = u /\ r.pc = clients[c].pc /\ r.call = clients[c].call
    <2> DEFINE n == clients[c].link + 1
    <2>1. n \in 0..MaxLinks
      BY <1>3
    <2>2. r = [clients[c] EXCEPT !.link = n, !.up = TRUE,
                 !.server_checkpoint = Len(slog), !.unchecked = u]
      BY <1>1 DEF ClientT
    <2> HIDE DEF n, r
    <2> QED
      BY <1>1, <1>a, <2>1, <2>2 DEF ClientT, n
  <1> HIDE DEF r
  <1>8. /\ y \in ClientT /\ y.sent = FALSE /\ y.link = r.link /\ y.up = r.up
        /\ y.checkpoint = r.checkpoint /\ y.server_checkpoint = r.server_checkpoint
        /\ y.connection_checkpoint = r.connection_checkpoint
        /\ y.unchecked = r.unchecked /\ y.pc \in {"idle", "failed"} /\ y.call = NoCall
        /\ y.pc = "idle" => r.call.op # "push" \/ r.call.data # <<>>
    BY <1>7, DisconnectedType
  <1> HIDE DEF y
  <1>11. OtherClients(c) /\ clients' \in [Clients -> ClientT] /\ x = IF refused THEN y ELSE r
    BY <1>2, <1>7, <1>8, PutOthers
  <1>12. TypeOK' /\ Frame(c)
    BY <1>2, <1>3, <1>4, <1>5, <1>11 DEF Frame, BasicInv, TypeOK
  <1>13. LocalOK(c)'
    <2>1. home(c)' = home(c) /\ File(c)' = File(c) /\ x.link > 0
      BY <1>2, <1>3, <1>7, <1>8, <1>11, SameSetup DEF File
    <2>2. CASE ~refused
      BY <1>1, <1>2, <1>7, <1>11, <2>1, <2>2 DEF LocalOK, Holding
    <2>3. CASE refused
      BY <1>1, <1>7, <1>8, <1>11, <2>1, <2>3 DEF LocalOK, Holding, NoCall, Request
    <2> QED
      BY <2>2, <2>3
  <1>14. Stepped(c)
    BY <1>3, <1>12, <1>13 DEF Stepped
  <1>15. CASE ~refused
    BY <1>2, <1>3, <1>6, <1>7, <1>11, <1>14, <1>15, <1>a DEF shorter
  <1>16. CASE refused
    BY <1>2, <1>3, <1>7, <1>8, <1>11, <1>14, <1>16, <1>a
  <1> QED
    BY <1>15, <1>16

\* A client that has an answer.
LEMMA AnsweredFacts ==
    ASSUME BasicInv, NEW c \in Clients, Answered(c)
    PROVE  LET s == SessionOf(c) IN
           /\ s \in Session /\ clients[c].up /\ clients[c].sent
           /\ sessions[s].state = "open" /\ sessions[s].requests = <<>>
           /\ AnswerTo(c) \in AnswerT /\ sessions[s].answers = <<AnswerTo(c)>>
           /\ ReadAnswer(c) =>
                /\ sessions' = [sessions EXCEPT ![s] =
                     [state |-> "open", requests |-> <<>>, answers |-> <<>>]]
                /\ sessions' \in [Session -> SessionT] /\ OtherSessions(c)
                /\ \A t \in Session : OneMessage(sessions'[t])
  <1> DEFINE s == SessionOf(c)
  <1>1. LocalOK(c)
    BY ClientFacts
  <1>2. clients[c].up /\ clients[c].sent /\ sessions[s].answers # <<>> /\ s \in Session
    BY <1>1, HasSession DEF Answered, LocalOK
  <1>3. sessions[s] \in SessionT /\ OneMessage(sessions[s])
    BY <1>2 DEF BasicInv, TypeOK
  <1>4. sessions[s].answers \in Slot(AnswerT)
    BY <1>3 DEF SessionT
  <1>5. sessions[s].state = "open" /\ sessions[s].requests = <<>>
    BY <1>2, <1>3 DEF OneMessage
  <1>6. AnswerTo(c) \in AnswerT /\ sessions[s].answers = <<AnswerTo(c)>>
    BY <1>2, <1>4, SlotFull DEF AnswerTo
  <1>7. ASSUME ReadAnswer(c)
        PROVE  /\ sessions' = [sessions EXCEPT ![s] =
                     [state |-> "open", requests |-> <<>>, answers |-> <<>>]]
               /\ sessions' \in [Session -> SessionT] /\ OtherSessions(c)
               /\ \A t \in Session : OneMessage(sessions'[t])
    <2>1. /\ sessions' = [sessions EXCEPT ![s] =
                     [state |-> "open", requests |-> <<>>, answers |-> <<>>]]
          /\ sessions' \in [Session -> SessionT]
          /\ \A t \in Session : OneMessage(sessions'[t])
      BY <1>2, <1>7, ReadEffect
    <2>2. OtherSessions(c)
      BY <2>1, SessionsOthers DEF SessionOf
    <2> QED
      BY <2>1, <2>2
  <1> QED
    BY <1>2, <1>5, <1>6, <1>7

\* A client whose call has returned has its state in order.
LEMMA ReturnedLocal ==
    ASSUME BasicInv, NEW c \in Clients, clients[c].up, NEW y \in ClientT,
           setup' = setup, clients'[c] = y, File(c)' \in Seq(Nat),
           y.call = NoCall, y.pc \in {"idle", "failed"}, y.link = clients[c].link,
           y.checkpoint <= Len(File(c)')
    PROVE  LocalOK(c)'
  <1>1. LocalOK(c)
    BY ClientFacts
  <1>2. y.link > 0
    BY <1>1 DEF LocalOK
  <1> QED
    BY <1>2, SameSetup DEF LocalOK, Holding, NoCall, Request

\* Server_Connection::unlock returns.
LEMMA UnlockDoneStep ==
    ASSUME BasicInv, NEW c \in Clients, UnlockDone(c)
    PROVE  LET x == clients'[c]
               s == SessionOf(c)
           IN /\ Stepped(c) /\ files' = files /\ Answered(c) /\ s \in Session
              /\ sessions' = [sessions EXCEPT ![s] =
                     [state |-> "open", requests |-> <<>>, answers |-> <<>>]]
              /\ sessions[s].state = "open"
              /\ x.pc = "idle" /\ x.call = NoCall /\ x.sent = FALSE
              /\ x.link = clients[c].link /\ x.up = clients[c].up
              /\ x.checkpoint = clients[c].checkpoint
              /\ x.server_checkpoint = clients[c].server_checkpoint
              /\ x.connection_checkpoint = clients[c].connection_checkpoint
              /\ x.unchecked = clients[c].unchecked
              /\ clients[c].call.op = "unlock"
  <1> DEFINE s == SessionOf(c)
             y == Returned(clients[c], "idle")
  <1>1. /\ Answered(c) /\ ReadAnswer(c) /\ Put(c, y) /\ FreeTail(c)
        /\ clients[c].call.op = "unlock"
        /\ UNCHANGED <<setup, slog, holder, files, written, acked, lost, faults>>
    BY DEF UnlockDone
  <1>2. clients[c] \in ClientT /\ LocalOK(c) /\ File(c) \in Seq(Nat)
    BY ClientFacts
  <1>3. /\ s \in Session /\ clients[c].up /\ sessions[s].state = "open"
        /\ sessions' = [sessions EXCEPT ![s] =
                     [state |-> "open", requests |-> <<>>, answers |-> <<>>]]
        /\ sessions' \in [Session -> SessionT] /\ OtherSessions(c)
        /\ \A t \in Session : OneMessage(sessions'[t])
    BY <1>1, AnsweredFacts
  <1>4. /\ y \in ClientT /\ y.call = NoCall /\ y.sent = FALSE /\ y.pc = "idle"
        /\ y.link = clients[c].link /\ y.up = clients[c].up
        /\ y.server_checkpoint = clients[c].server_checkpoint
        /\ y.connection_checkpoint = clients[c].connection_checkpoint
        /\ y.checkpoint = clients[c].checkpoint /\ y.unchecked = clients[c].unchecked
    BY <1>2, ReturnedType
  <1> HIDE DEF y
  <1>5. OtherClients(c) /\ clients'[c] = y /\ clients' \in [Clients -> ClientT]
    BY <1>1, <1>4, PutOthers
  <1>6. TypeOK' /\ Frame(c)
    BY <1>1, <1>3, <1>5, SameFiles, FreeTailEffect DEF Frame, BasicInv, TypeOK
  <1>7. LocalOK(c)'
    <2>1. File(c)' = File(c) /\ y.checkpoint <= Len(File(c))
      BY <1>1, <1>2, <1>4, SameSetup DEF File, LocalOK
    <2> QED
      BY <1>1, <1>2, <1>3, <1>4, <1>5, <2>1, ReturnedLocal
  <1> QED
    BY <1>1, <1>3, <1>4, <1>5, <1>6, <1>7 DEF Stepped

\* Server_Connection::check_matching_content returns.
LEMMA CheckDoneStep ==
    ASSUME BasicInv, NEW c \in Clients, CheckDone(c)
    PROVE  LET x == clients'[c]
               s == SessionOf(c)
           IN /\ Stepped(c) /\ files' = files /\ Answered(c) /\ s \in Session
              /\ sessions' = [sessions EXCEPT ![s] =
                     [state |-> "open", requests |-> <<>>, answers |-> <<>>]]
              /\ sessions[s].state = "open"
              /\ x.sent = FALSE /\ x.link = clients[c].link /\ x.up = clients[c].up
              /\ x.checkpoint = clients[c].checkpoint
              /\ x.server_checkpoint = clients[c].server_checkpoint
              /\ x.connection_checkpoint = clients[c].connection_checkpoint
              /\ x.unchecked = clients[c].unchecked
              /\ clients[c].call.op = "check"
              /\ \/ /\ AnswerTo(c).code = "check" /\ x.pc = clients[c].pc
                    /\ \E op \in {"pull", "lock_pull"} :
                          /\ x.call = Request(op, clients[c].checkpoint, 0, <<>>)
                          /\ x.call.op = op /\ (op = "pull" => ~x.transaction)
                 \/ x.pc = "idle" /\ x.call = NoCall
  <1> DEFINE s == SessionOf(c)
             y == PullCall(clients[c])
             z == Disconnected(clients[c])
             op == IF clients[c].transaction THEN "lock_pull" ELSE "pull"
             ok == AnswerTo(c).code = "check"
  <1>1. /\ Answered(c) /\ ReadAnswer(c) /\ clients[c].call.op = "check"
        /\ IF ok THEN Put(c, y) /\ tails' = tails ELSE Put(c, z) /\ FreeTail(c)
        /\ UNCHANGED <<setup, slog, holder, files, written, acked, lost, faults>>
    BY DEF CheckDone
  <1>2. clients[c] \in ClientT /\ LocalOK(c) /\ File(c) \in Seq(Nat)
    BY ClientFacts
  <1>3. /\ s \in Session /\ clients[c].up /\ sessions[s].state = "open"
        /\ sessions' = [sessions EXCEPT ![s] =
                     [state |-> "open", requests |-> <<>>, answers |-> <<>>]]
        /\ sessions' \in [Session -> SessionT] /\ OtherSessions(c)
        /\ \A t \in Session : OneMessage(sessions'[t])
    BY <1>1, AnsweredFacts
  <1>4. /\ y \in ClientT /\ y.call = Request(op, clients[c].checkpoint, 0, <<>>)
        /\ y.sent = FALSE /\ y.pc = clients[c].pc
        /\ y.transaction = clients[c].transaction
        /\ y.link = clients[c].link /\ y.up = clients[c].up
        /\ y.server_checkpoint = clients[c].server_checkpoint
        /\ y.connection_checkpoint = clients[c].connection_checkpoint
        /\ y.checkpoint = clients[c].checkpoint /\ y.unchecked = clients[c].unchecked
    BY <1>2, PullCallType
  <1>5. /\ z \in ClientT /\ z.call = NoCall
        /\ z.sent = FALSE /\ z.pc = "idle"
        /\ z.link = clients[c].link /\ z.up = clients[c].up
        /\ z.server_checkpoint = clients[c].server_checkpoint
        /\ z.connection_checkpoint = clients[c].connection_checkpoint
        /\ z.checkpoint = clients[c].checkpoint /\ z.unchecked = clients[c].unchecked
    <2>1. clients[c].call.op # "push"
      BY <1>1
    <2> QED
      BY <1>2, <2>1, DisconnectedIdle
  <1> HIDE DEF y, z
  <1>6. OtherClients(c) /\ clients' \in [Clients -> ClientT] /\ clients'[c] = IF ok THEN y ELSE z
    BY <1>1, <1>4, <1>5, PutOthers
  <1>7. TypeOK' /\ Frame(c)
    BY <1>1, <1>3, <1>6, SameFiles, SameTails, FreeTailEffect DEF Frame, BasicInv, TypeOK
  <1>8. LocalOK(c)'
    <2>1. File(c)' = File(c) /\ home(c)' = home(c) /\ clients[c].checkpoint <= Len(File(c))
      BY <1>1, <1>2, SameSetup DEF File, LocalOK
    <2>2. CASE ok
      <3>1. tails' = tails /\ Holding(c)
        BY <1>1, <2>2 DEF Holding
      <3>2. y.call.from = y.checkpoint
        BY <1>4 DEF Request
      <3> QED
        BY <1>2, <1>4, <1>6, <2>1, <2>2, <3>1, <3>2 DEF LocalOK, Holding
    <2>3. CASE ~ok
      BY <1>1, <1>2, <1>3, <1>5, <1>6, <2>1, <2>3, ReturnedLocal
    <2> QED
      BY <2>2, <2>3
  <1>9. Stepped(c)
    BY <1>3, <1>7, <1>8 DEF Stepped
  <1>10. CASE ok
    <2>1. /\ y.call.op = op /\ op \in {"pull", "lock_pull"}
          /\ op = "pull" => ~y.transaction
      BY <1>4 DEF Request
    <2> QED
      BY <1>1, <1>3, <1>4, <1>6, <1>9, <1>10, <2>1
  <1>11. CASE ~ok
    BY <1>1, <1>3, <1>5, <1>6, <1>9, <1>11
  <1> QED
    BY <1>10, <1>11

\* The journal of a Server_File whose server has less than its checkpoint.
Punched(F, n, J) ==
    /\ J \in Seq(Nat) /\ Len(J) = Len(F) /\ n < Len(F)
    /\ \A i \in 1..Len(J) : J[i] = IF i <= n THEN F[i] ELSE Hole

\* It is as long as it was.
LEMMA PunchedFile ==
    ASSUME NEW F \in Seq(Nat), NEW n \in Nat, n < Len(F)
    PROVE  Punched(F, n, [i \in 1..Len(F) |-> IF i <= n THEN F[i] ELSE Hole])
  <1> DEFINE J == [i \in 1..Len(F) |-> IF i <= n THEN F[i] ELSE Hole]
  <1>1. J \in [1..Len(F) -> Nat]
    BY DEF Hole
  <1>2. J \in Seq(Nat) /\ Len(J) = Len(F)
    BY <1>1
  <1> QED
    BY <1>2 DEF Punched

\* Server_Connection::pull returns.
LEMMA PullDoneStep ==
    ASSUME BasicInv, NEW c \in Clients, PullDone(c)
    PROVE  LET x == clients'[c]
               s == SessionOf(c)
               a == AnswerTo(c)
           IN /\ Stepped(c) /\ Answered(c) /\ s \in Session /\ a \in AnswerT
              /\ sessions' = [sessions EXCEPT ![s] =
                     [state |-> "open", requests |-> <<>>, answers |-> <<>>]]
              /\ sessions[s].state = "open" /\ sessions[s].answers = <<a>>
              /\ sessions[s].requests = <<>>
              /\ x.sent = FALSE /\ x.link = clients[c].link /\ x.up = clients[c].up
              /\ x.call = NoCall /\ x.unchecked = clients[c].unchecked
              /\ clients[c].call.op \in {"pull", "lock_pull"}
              /\ tails[home(c)] = c /\ clients[c].checkpoint = Len(File(c))
              /\ clients[c].call.from = Len(File(c))
              /\ \/ /\ a.code = clients[c].call.op
                    /\ files' = [files EXCEPT ![home(c)] = files'[home(c)]]
                    /\ files'[home(c)] \in Seq(Nat) /\ x.checkpoint = Len(files'[home(c)])
                    /\ \/ files'[home(c)] = File(c) \o a.data
                       \/ Punched(File(c), a.checkpoint, files'[home(c)])
                    /\ x.server_checkpoint = a.checkpoint
                    /\ x.connection_checkpoint = a.checkpoint
                    /\ x.pc = IF clients[c].transaction THEN "writing" ELSE "idle"
                 \/ /\ a.code # clients[c].call.op
                    /\ files' = files /\ x.pc = "idle"
                    /\ x.checkpoint = clients[c].checkpoint
                    /\ x.server_checkpoint = clients[c].server_checkpoint
                    /\ x.connection_checkpoint = clients[c].connection_checkpoint
  <1> DEFINE s == SessionOf(c)
             a == AnswerTo(c)
             x == clients'[c]
             pc == IF clients[c].transaction THEN "writing" ELSE "idle"
             r == Returned(clients[c], pc)
             longer == Take(File(c), r.checkpoint) \o a.data
             holed == [i \in 1..r.checkpoint |-> IF i <= a.checkpoint THEN File(c)[i] ELSE Hole]
             behind == kind(c) = "server_file" /\ a.checkpoint < r.checkpoint
             journal == IF behind THEN holed ELSE longer
             y == [r EXCEPT !.checkpoint = Len(journal),
                            !.server_checkpoint = a.checkpoint,
                            !.connection_checkpoint = a.checkpoint]
             z == Disconnected(clients[c])
             ok == a.code = clients[c].call.op
  <1>1. /\ Answered(c) /\ ReadAnswer(c) /\ clients[c].call.op \in {"pull", "lock_pull"}
        /\ UNCHANGED <<setup, slog, holder, written, acked, lost, faults>>
    BY DEF PullDone
  <1>2. /\ clients[c] \in ClientT /\ LocalOK(c) /\ File(c) \in Seq(Nat)
        /\ home(c) \in Files /\ Len(File(c)) \in Nat
    BY ClientFacts
  <1>3. /\ s \in Session /\ clients[c].up /\ sessions[s].state = "open"
        /\ sessions[s].requests = <<>> /\ sessions[s].answers = <<a>> /\ a \in AnswerT
        /\ sessions' = [sessions EXCEPT ![s] =
                     [state |-> "open", requests |-> <<>>, answers |-> <<>>]]
        /\ sessions' \in [Session -> SessionT] /\ OtherSessions(c)
        /\ \A t \in Session : OneMessage(sessions'[t])
    BY <1>1, AnsweredFacts
  <1>4. /\ tails[home(c)] = c /\ clients[c].checkpoint = Len(File(c))
        /\ clients[c].call.from = Len(File(c))
    BY <1>1, <1>2 DEF LocalOK, Holding
  <1>5. a.data \in Seq(Nat) /\ a.checkpoint \in Nat
    BY <1>3 DEF AnswerT
  <1> HIDE DEF a
  <1>6. CASE ok
    <2>0. pc \in {"idle", "writing"} /\ pc \in {"idle", "writing", "failed"}
      OBVIOUS
    <2>1. /\ files' = [files EXCEPT ![home(c)] = journal] /\ Put(c, y)
          /\ IF clients[c].transaction THEN tails' = tails ELSE FreeTail(c)
      BY <1>6 DEF PullDone, a
    <2> HIDE DEF pc
    <2>2. /\ r \in ClientT /\ r.call = NoCall /\ r.sent = FALSE /\ r.pc = pc
          /\ r.link = clients[c].link /\ r.up = clients[c].up
          /\ r.checkpoint = clients[c].checkpoint /\ r.unchecked = clients[c].unchecked
      BY ONLY <1>2, <2>0, ReturnedType
    <2> HIDE DEF r
    <2>3. Take(File(c), r.checkpoint) = File(c) /\ r.checkpoint = Len(File(c))
      BY <1>2, <1>4, <2>2 DEF Take
    <2>4. /\ ~behind => journal = File(c) \o a.data
          /\ behind => Punched(File(c), a.checkpoint, journal) /\ kind(c) = "server_file"
      <3>1. ~behind => journal = File(c) \o a.data
        BY <2>3
      <3>2. CASE behind
        <4>1. a.checkpoint < Len(File(c)) /\ journal = holed
          BY <2>3, <3>2
        <4>2. holed = [i \in 1..Len(File(c)) |-> IF i <= a.checkpoint THEN File(c)[i] ELSE Hole]
          BY <2>3
        <4> QED
          BY <1>2, <1>5, <3>2, <4>1, <4>2, PunchedFile
      <3> QED
        BY <3>1, <3>2
    <2> HIDE DEF behind
    <2>5. /\ OtherFiles(c) /\ files' \in [Files -> Seq(Nat)]
          /\ files'[home(c)] = journal /\ journal \in Seq(Nat)
      <3>1. CASE ~behind
        <4>1. files' = [files EXCEPT ![home(c)] = File(c) \o a.data]
          BY <2>1, <2>4, <3>1
        <4>2. File(c) \o a.data \in Seq(Nat)
          BY <1>2, <1>5
        <4> QED
          BY <1>4, <1>5, <2>4, <3>1, <4>1, <4>2, AppendFile
      <3>2. CASE behind
        <4>1. journal \in Seq(Nat)
          BY <2>4, <3>2 DEF Punched
        <4> HIDE DEF journal
        <4> QED
          BY <2>1, <2>4, <3>2, <4>1, OwnFile
      <3> QED
        BY <3>1, <3>2
    <2> HIDE DEF journal
    <2>6. Len(journal) \in Nat
      BY <2>5
    <2>a. y = [r EXCEPT !.checkpoint = Len(journal), !.server_checkpoint = a.checkpoint,
                        !.connection_checkpoint = a.checkpoint]
      OBVIOUS
    <2> HIDE DEF y
    <2>7. /\ y \in ClientT /\ y.call = NoCall /\ y.sent = FALSE /\ y.pc = pc
          /\ y.link = clients[c].link /\ y.up = clients[c].up
          /\ y.checkpoint = Len(journal) /\ y.unchecked = clients[c].unchecked
          /\ y.server_checkpoint = a.checkpoint /\ y.connection_checkpoint = a.checkpoint
      BY <1>5, <2>2, <2>6, <2>a DEF ClientT
    <2>8. OtherClients(c) /\ x = y /\ clients' \in [Clients -> ClientT]
      BY <2>1, <2>7, PutOthers
    <2>9. OtherTails(c) /\ tails' \in [Files -> Clients \cup {None}]
          /\ (pc = "writing" => tails' = tails)
      BY <2>1, SameTails, FreeTailEffect DEF pc
    <2>10. TypeOK' /\ Frame(c)
      BY <1>1, <1>3, <2>5, <2>8, <2>9 DEF Frame, BasicInv, TypeOK
    <2>11. LocalOK(c)'
      <3>1. File(c)' = files'[home(c)] /\ home(c)' = home(c)
        BY <1>1, SameSetup
      <3>2. y.checkpoint = Len(File(c)') /\ y.checkpoint \in Nat /\ y.link > 0
        BY <1>2, <1>3, <2>5, <2>6, <2>7, <3>1 DEF LocalOK
      <3> QED
        BY <1>4, <2>0, <2>7, <2>8, <2>9, <3>1, <3>2 DEF LocalOK, Holding, NoCall, Request
    <2>12. Stepped(c)
      BY <1>3, <2>10, <2>11 DEF Stepped
    <2>13. /\ files' = [files EXCEPT ![home(c)] = files'[home(c)]]
           /\ \/ files'[home(c)] = File(c) \o a.data
              \/ Punched(File(c), a.checkpoint, files'[home(c)])
      BY <2>1, <2>4, <2>5
    <2> QED
      BY <1>1, <1>3, <1>4, <1>6, <2>5, <2>7, <2>8, <2>12, <2>13 DEF a, pc
  <1>7. CASE ~ok
    <2>1. files' = files /\ Put(c, z) /\ FreeTail(c)
      BY <1>7 DEF PullDone, a
    <2>2. /\ z \in ClientT /\ z.call = NoCall
          /\ z.sent = FALSE /\ z.pc = "idle" /\ z.pc \in {"idle", "failed"}
          /\ z.link = clients[c].link /\ z.up = clients[c].up
          /\ z.server_checkpoint = clients[c].server_checkpoint
          /\ z.connection_checkpoint = clients[c].connection_checkpoint
          /\ z.checkpoint = clients[c].checkpoint /\ z.unchecked = clients[c].unchecked
      <3>1. clients[c].call.op # "push"
        BY <1>1
      <3> QED
        BY <1>2, <3>1, DisconnectedIdle
    <2> HIDE DEF z
    <2>3. OtherClients(c) /\ x = z /\ clients' \in [Clients -> ClientT]
      BY <2>1, <2>2, PutOthers
    <2>4. TypeOK' /\ Frame(c)
      BY <1>1, <1>3, <2>1, <2>3, SameFiles, FreeTailEffect DEF Frame, BasicInv, TypeOK
    <2>5. LocalOK(c)'
      <3>1. File(c)' = File(c) /\ clients[c].checkpoint <= Len(File(c))
        BY <1>1, <1>2, <2>1, SameSetup DEF File, LocalOK
      <3> QED
        BY <1>1, <1>2, <1>3, <2>2, <2>3, <3>1, ReturnedLocal
    <2>6. Stepped(c)
      BY <1>3, <2>4, <2>5 DEF Stepped
    <2> QED
      BY <1>1, <1>3, <1>4, <1>7, <2>1, <2>2, <2>3, <2>6 DEF a
  <1> QED
    BY <1>6, <1>7

\* Server_Connection::push returns.
LEMMA PushDoneStep ==
    ASSUME BasicInv, NEW c \in Clients, PushDone(c)
    PROVE  LET x == clients'[c]
               s == SessionOf(c)
               a == AnswerTo(c)
           IN /\ Stepped(c) /\ Answered(c) /\ s \in Session /\ a \in AnswerT
              /\ sessions[s].state = "open" /\ sessions[s].answers = <<a>>
              /\ sessions[s].requests = <<>> /\ files' = files
              /\ clients[c].call.op \in {"push", "push_unlock"}
              /\ x.sent = FALSE /\ x.link = clients[c].link
              /\ x.unchecked = clients[c].unchecked
              /\ x.checkpoint = clients[c].checkpoint
              /\ \/ /\ a.code = "timeout" /\ acked' = acked
                    /\ \E q : /\ sessions' = [sessions EXCEPT ![s] = q]
                              /\ q.answers = <<>> /\ q.state = "cut"
                              /\ q.requests = <<>>
                    /\ x.up = FALSE /\ x.pc = clients[c].pc /\ x.call = clients[c].call
                    /\ x.server_checkpoint = clients[c].server_checkpoint
                    /\ x.connection_checkpoint = clients[c].connection_checkpoint
                 \/ /\ a.code # "timeout" /\ x.up = clients[c].up /\ x.call = NoCall
                    /\ sessions' = [sessions EXCEPT ![s] =
                         [state |-> "open", requests |-> <<>>, answers |-> <<>>]]
                    /\ \/ /\ a.code = clients[c].call.op /\ x.pc = "idle"
                          /\ x.server_checkpoint = clients[c].call.until
                          /\ x.connection_checkpoint = clients[c].call.until
                          /\ acked' = acked \cup Range(clients[c].call.data)
                       \/ /\ a.code # clients[c].call.op /\ x.pc \in {"idle", "failed"}
                          /\ x.pc = "idle" => \/ clients[c].call.op # "push"
                                              \/ clients[c].call.data # <<>>
                          /\ acked' = acked
                          /\ x.server_checkpoint = clients[c].server_checkpoint
                          /\ x.connection_checkpoint = clients[c].connection_checkpoint
  <1> DEFINE s == SessionOf(c)
             a == AnswerTo(c)
             x == clients'[c]
  <1>1. /\ Answered(c) /\ clients[c].call.op \in {"push", "push_unlock"}
        /\ UNCHANGED <<setup, slog, holder, files, written, lost, faults>>
    BY DEF PushDone
  <1>2. /\ clients[c] \in ClientT /\ LocalOK(c) /\ File(c) \in Seq(Nat)
        /\ clients[c].call \in RequestT
    BY ClientFacts
  <1>3. /\ s \in Session /\ clients[c].up /\ sessions[s].state = "open"
        /\ sessions[s].requests = <<>> /\ sessions[s].answers = <<a>> /\ a \in AnswerT
        /\ ReadAnswer(c) =>
            /\ sessions' = [sessions EXCEPT ![s] =
                     [state |-> "open", requests |-> <<>>, answers |-> <<>>]]
            /\ sessions' \in [Session -> SessionT] /\ OtherSessions(c)
            /\ \A t \in Session : OneMessage(sessions'[t])
    BY <1>1, AnsweredFacts
  <1>4. OtherFiles(c) /\ files' \in [Files -> Seq(Nat)]
        /\ home(c)' = home(c) /\ File(c)' = File(c)
    BY <1>1, SameFiles, SameSetup DEF File
  <1> HIDE DEF a
  <1>5. CASE a.code = "timeout"
    <2> DEFINE y == [clients[c] EXCEPT !.up = FALSE, !.sent = FALSE]
    <2>1. Cut(c) /\ tails' = tails /\ acked' = acked /\ Put(c, y)
      BY <1>5 DEF PushDone, a
    <2>2. /\ y \in ClientT /\ y.sent = FALSE /\ y.link = clients[c].link
          /\ y.up = FALSE /\ y.checkpoint = clients[c].checkpoint
          /\ y.server_checkpoint = clients[c].server_checkpoint
          /\ y.connection_checkpoint = clients[c].connection_checkpoint
          /\ y.unchecked = clients[c].unchecked
          /\ y.pc = clients[c].pc /\ y.call = clients[c].call
      BY <1>2 DEF ClientT
    <2> HIDE DEF y
    <2>3. PICK q : /\ sessions' = [sessions EXCEPT ![s] = q]
                   /\ q.answers = <<>> /\ q.state \in {"cut", "closed"}
                   /\ q.state = "closed" => sessions[s].state = "closed"
                   /\ q.requests \in {<<>>, sessions[s].requests}
      BY <1>3, <2>1, CutEffect
    <2>4. /\ sessions' \in [Session -> SessionT] /\ \A t \in Session : OneMessage(sessions'[t])
      BY <1>3, <2>1, CutEffect
    <2>5. OtherSessions(c)
      BY <2>3, SessionsOthers DEF SessionOf
    <2>6. OtherClients(c) /\ x = y /\ clients' \in [Clients -> ClientT]
      BY <2>1, <2>2, PutOthers
    <2>7. TypeOK' /\ Frame(c)
      BY <1>1, <1>4, <2>1, <2>4, <2>5, <2>6, SameTails DEF Frame, BasicInv, TypeOK
    <2>8. LocalOK(c)'
      BY <1>2, <1>4, <2>1, <2>2, <2>6 DEF LocalOK, Holding
    <2>9. Stepped(c)
      BY <2>4, <2>7, <2>8 DEF Stepped
    <2>10. q.state = "cut" /\ q.requests = <<>>
      BY <1>3, <2>3
    <2> QED
      BY <1>1, <1>3, <1>5, <2>1, <2>2, <2>3, <2>6, <2>9, <2>10 DEF a
  <1>6. CASE a.code # "timeout" /\ a.code = clients[c].call.op
    <2> DEFINE r == Returned(clients[c], "idle")
               n == clients[c].call.until
               y == [r EXCEPT !.server_checkpoint = n, !.connection_checkpoint = n]
    <2>1. /\ ReadAnswer(c) /\ FreeTail(c) /\ Put(c, y)
          /\ acked' = acked \cup Range(clients[c].call.data)
      BY <1>6 DEF PushDone, a
    <2>2. /\ r \in ClientT /\ r.call = NoCall /\ r.sent = FALSE /\ r.pc = "idle"
          /\ r.link = clients[c].link /\ r.up = clients[c].up
          /\ r.checkpoint = clients[c].checkpoint /\ r.unchecked = clients[c].unchecked
      BY <1>2, ReturnedType
    <2>3. n \in Nat
      BY <1>2 DEF RequestT
    <2> HIDE DEF r, n
    <2>4. /\ y \in ClientT /\ y.call = NoCall /\ y.sent = FALSE /\ y.pc = "idle"
          /\ y.link = clients[c].link /\ y.up = clients[c].up
          /\ y.checkpoint = clients[c].checkpoint /\ y.unchecked = clients[c].unchecked
          /\ y.server_checkpoint = n /\ y.connection_checkpoint = n
      BY <2>2, <2>3 DEF ClientT
    <2> HIDE DEF y
    <2>5. OtherClients(c) /\ x = y /\ clients' \in [Clients -> ClientT]
      BY <2>1, <2>4, PutOthers
    <2>6. acked' \subseteq Nat
      <3>1. clients[c].call.data \in Seq(Nat) /\ acked \subseteq Nat
        BY <1>2 DEF RequestT, BasicInv, TypeOK
      <3>2. Range(clients[c].call.data) \subseteq Nat
        BY <3>1 DEF Range
      <3> QED
        BY <2>1, <3>1, <3>2
    <2>7. TypeOK' /\ Frame(c)
      BY <1>1, <1>3, <1>4, <2>1, <2>5, <2>6, FreeTailEffect DEF Frame, BasicInv, TypeOK
    <2>8. LocalOK(c)'
      <3>1. clients[c].checkpoint <= Len(File(c))
        BY <1>2 DEF LocalOK
      <3> QED
        BY <1>1, <1>2, <1>3, <1>4, <2>4, <2>5, <3>1, ReturnedLocal
    <2>9. Stepped(c)
      BY <1>3, <2>1, <2>7, <2>8 DEF Stepped
    <2> QED
      BY <1>1, <1>3, <1>6, <2>1, <2>4, <2>5, <2>9 DEF a, n
  <1>7. CASE a.code # "timeout" /\ a.code # clients[c].call.op
    <2> DEFINE z == Disconnected(clients[c])
    <2>1. /\ ReadAnswer(c) /\ FreeTail(c) /\ Put(c, z) /\ acked' = acked
      BY <1>7 DEF PushDone, a
    <2>2. /\ z \in ClientT /\ z.call = NoCall
          /\ z.sent = FALSE /\ z.pc \in {"idle", "failed"}
          /\ z.pc = "idle" => clients[c].call.op # "push" \/ clients[c].call.data # <<>>
          /\ z.link = clients[c].link /\ z.up = clients[c].up
          /\ z.server_checkpoint = clients[c].server_checkpoint
          /\ z.connection_checkpoint = clients[c].connection_checkpoint
          /\ z.checkpoint = clients[c].checkpoint /\ z.unchecked = clients[c].unchecked
      BY <1>2, DisconnectedType
    <2> HIDE DEF z
    <2>3. OtherClients(c) /\ x = z /\ clients' \in [Clients -> ClientT]
      BY <2>1, <2>2, PutOthers
    <2>4. TypeOK' /\ Frame(c)
      BY <1>1, <1>3, <1>4, <2>1, <2>3, FreeTailEffect DEF Frame, BasicInv, TypeOK
    <2>5. LocalOK(c)'
      <3>1. clients[c].checkpoint <= Len(File(c))
        BY <1>2 DEF LocalOK
      <3> QED
        BY <1>1, <1>2, <1>3, <1>4, <2>2, <2>3, <3>1, ReturnedLocal
    <2>6. Stepped(c)
      BY <1>3, <2>1, <2>4, <2>5 DEF Stepped
    <2> QED
      BY <1>1, <1>3, <1>7, <2>1, <2>2, <2>3, <2>6 DEF a
  <1> QED
    BY <1>5, <1>6, <1>7

(***************************************************************************)
(* The basic invariant.                                                    *)
(***************************************************************************)
LEMMA BasicInit == Init => BasicInv
  <1> SUFFICES ASSUME Init PROVE BasicInv
    OBVIOUS
  <1>1. NoSession \in SessionT /\ OneMessage(NoSession)
    BY DEF NoSession, NewSession, SessionT, OneMessage, Slot
  <1>2. NewClient(0) \in ClientT
    BY NewClientType, BoundAssumption
  <1>3. TypeOK
    BY <1>1, <1>2 DEF Init, TypeOK
  <1>4. \A s \in Session : OneMessage(sessions[s])
    BY <1>1 DEF Init
  <1>5. ASSUME NEW c \in Clients PROVE LocalOK(c)
    <2>1. File(c) = <<>>
      BY <1>3, SetupType DEF Init, File, TypeOK
    <2>2. clients[c].pc = "down" /\ clients[c].checkpoint = 0 /\ clients[c].call.op = "none"
          /\ ~clients[c].up
      BY DEF Init, NewClient, NoCall, Request
    <2> QED
      BY <2>1, <2>2 DEF LocalOK, Holding
  <1> QED
    BY <1>3, <1>4, <1>5 DEF BasicInv

\* A step of the server changes no client and no file.
LEMMA ServerBasic ==
    ASSUME BasicInv, UNCHANGED <<setup, files, tails, clients, written, acked>>,
           slog' \in Seq(Nat), holder' \in Session \cup {None}, faults' \in Nat,
           lost' \subseteq Nat,
           sessions' \in [Session -> SessionT], \A s \in Session : OneMessage(sessions'[s])
    PROVE  BasicInv'
  <1>1. TypeOK'
    BY DEF BasicInv, TypeOK
  <1>2. \A c \in Clients : LocalOK(c)'
    BY DEF BasicInv, LocalOK, Holding, File, home
  <1> QED
    BY <1>1, <1>2 DEF BasicInv

\* What a restart leaves.
LEMMA RestartStep ==
    ASSUME BasicInv, Restart
    PROVE  /\ BasicInv' /\ holder' = None
           /\ sessions' = [s \in Session |-> NoSession]
           /\ UNCHANGED <<setup, files, tails, clients, written, acked>>
           /\ \E n \in 0..Len(slog) : /\ slog' = Take(slog, n)
                                      /\ lost' = lost \cup Range(From(slog, n))
  <1>1. /\ faults' = faults + 1 /\ holder' = None
        /\ sessions' = [s \in Session |-> NoSession]
        /\ UNCHANGED <<setup, files, tails, clients, written, acked>>
    BY DEF Restart
  <1>2. slog \in Seq(Nat) /\ Len(slog) \in Nat /\ faults \in Nat /\ lost \subseteq Nat
    BY DEF BasicInv, TypeOK
  <1>3. PICK n \in 0..Len(slog) : /\ slog' = Take(slog, n)
                                  /\ lost' = lost \cup Range(From(slog, n))
    BY <1>2 DEF Restart
  <1>4. slog' \in Seq(Nat) /\ From(slog, n) \in Seq(Nat)
    BY <1>2, <1>3, TakeFrom
  <1>5. lost' \subseteq Nat
    <2>1. Range(From(slog, n)) \subseteq Nat
      BY <1>4 DEF Range
    <2> QED
      BY <1>2, <1>3, <2>1
  <1>6. NoSession \in SessionT /\ OneMessage(NoSession)
    BY DEF NoSession, NewSession, SessionT, OneMessage, Slot
  <1>7. sessions' \in [Session -> SessionT] /\ \A s \in Session : OneMessage(sessions'[s])
    BY <1>1, <1>6
  <1>8. BasicInv'
    BY <1>1, <1>2, <1>4, <1>5, <1>7, ServerBasic
  <1> QED
    BY <1>1, <1>3, <1>8

\* Every step preserves the basic invariant.
LEMMA BasicNext == BasicInv /\ [Next]_vars => BasicInv'
  <1> SUFFICES ASSUME BasicInv, [Next]_vars PROVE BasicInv'
    OBVIOUS
  <1>0. CASE UNCHANGED vars
    BY <1>0 DEF BasicInv, TypeOK, LocalOK, Holding, File, home, vars
  <1>1. slog \in Seq(Nat) /\ holder \in Session \cup {None} /\ faults \in Nat
        /\ lost \subseteq Nat /\ faults + 1 \in Nat
    BY DEF BasicInv, TypeOK
  <1>2. ASSUME NEW s \in Session, ServerStep(s) PROVE BasicInv'
    <2>0. UNCHANGED <<setup, files, tails, clients, written, acked, lost, faults>>
      BY <1>2 DEF ServerStep
    <2>1. CASE ServerCheck(s)
      BY <1>1, <2>0, <2>1, CheckStep, ServerBasic
    <2>2. CASE ServerPull(s)
      BY <1>1, <2>0, <2>2, PullStep, ServerBasic
    <2>3. CASE ServerPush(s)
      <3>1. sessions' \in [Session -> SessionT] /\ \A t \in Session : OneMessage(sessions'[t])
        BY <2>3, PushStep
      <3>2. holder' \in Session \cup {None}
        BY <1>1, <2>3, PushStep
      <3>3. slog' \in Seq(Nat)
        <4> DEFINE r == Head(sessions[s].requests)
        <4>1. slog' = slog \/ slog' = slog \o r.data
          BY <2>3, PushStep
        <4>2. r \in RequestT
          BY <2>3, PushStep, ReceivesType
        <4>3. r.data \in Seq(Nat)
          BY <4>2 DEF RequestT
        <4> HIDE DEF r
        <4>4. slog \o r.data \in Seq(Nat)
          BY <1>1, <4>3
        <4> QED
          BY <1>1, <4>1, <4>4
      <3> QED
        BY <1>1, <2>0, <3>1, <3>2, <3>3, ServerBasic
    <2>4. CASE ServerUnlock(s)
      BY <1>1, <2>0, <2>4, UnlockStep, ServerBasic
    <2>5. CASE ServerDrop(s) \/ ServerRelock(s)
      BY <1>1, <2>0, <2>5, DropStep, ServerBasic
    <2> QED
      BY <1>2, <2>1, <2>2, <2>3, <2>4, <2>5 DEF ServerStep
  <1>3. ASSUME NEW s \in Session, Timeout(s) PROVE BasicInv'
    <2>1. /\ UNCHANGED <<setup, files, tails, clients, written, acked, lost>>
          /\ faults' = faults + 1 /\ LockTimeout(s)
      BY <1>3 DEF Timeout
    <2> QED
      BY <1>1, <2>1, TimeoutStep, ServerBasic
  <1>4. CASE Restart
    BY <1>4, RestartStep
  <1>5. ASSUME NEW c \in Clients,
               \/ Open(c) \/ Close(c) \/ Crash(c) \/ Break(c) \/ Notice(c) \/ Reconnect(c)
               \/ Begin(c) \/ Finish(c) \/ push_if_ahead(c) \/ AppendLocally(c)
               \/ Send(c) \/ Receive(c) \/ KeepAlive(c) \/ KeptAlive(c)
        PROVE  BasicInv'
    <2>1. CASE Close(c) \/ Crash(c)
      <3>1. clients[c].pc # "down" /\ Gone(c) /\ faults' \in Nat
        BY <1>1, <2>1 DEF Close, Crash
      <3> QED
        BY <3>1, GoneStep, SteppedBasic
    <2>2. CASE Break(c) \/ Notice(c)
      <3>1. clients[c].up /\ ChannelThrows(c) /\ faults' \in Nat
        BY <1>1, <2>2 DEF Break, Notice
      <3> QED
        BY <3>1, ThrowsStep, SteppedBasic
    <2>3. CASE Open(c)
      BY <2>3, OpenStep, SteppedBasic
    <2>4. CASE Reconnect(c)
      BY <2>4, ReconnectStep, SteppedBasic
    <2>5. CASE Begin(c)
      BY <2>5, BeginStep, SteppedBasic
    <2>6. CASE Commit(c)
      BY <2>6, CommitStep, SteppedBasic
    <2>7. CASE Abort(c)
      BY <2>7, AbortStep, SteppedBasic
    <2>8. CASE push_if_ahead(c)
      BY <2>8, PushIfAheadStep, SteppedBasic
    <2>9. CASE AppendLocally(c)
      BY <2>9, AppendLocallyStep, SteppedBasic
    <2>10. CASE Send(c)
      BY <2>10, SendStep, SteppedBasic
    <2>11. CASE CheckDone(c)
      BY <2>11, CheckDoneStep, SteppedBasic
    <2>12. CASE PullDone(c)
      BY <2>12, PullDoneStep, SteppedBasic
    <2>13. CASE PushDone(c)
      BY <2>13, PushDoneStep, SteppedBasic
    <2>14. CASE UnlockDone(c)
      BY <2>14, UnlockDoneStep, SteppedBasic
    <2>15. CASE KeepAlive(c)
      BY <2>15, KeepAliveStep, SteppedBasic
    <2>16. CASE KeptAlive(c)
      BY <2>16, KeptAliveStep, SteppedBasic
    <2> QED
      BY <1>5, <2>1, <2>2, <2>3, <2>4, <2>5, <2>6, <2>7, <2>8, <2>9, <2>10, <2>11,
         <2>12, <2>13, <2>14, <2>15, <2>16 DEF Finish, Receive
  <1> QED
    BY <1>0, <1>2, <1>3, <1>4, <1>5 DEF Next

(***************************************************************************)
(* The channel of a client: the request in it is the one of the call that  *)
(* the client has sent, or a ping, and the answer answers that request.    *)
(***************************************************************************)
Refusals == {"mismatch", "pullonly", "conflict", "timeout"}

ChannelOK(c) ==
    LET r == clients[c]
        q == sessions[SessionOf(c)]
    IN /\ r.pc \in {"down", "failed"} => r.call = NoCall
       /\ r.call.op # "ping"
       /\ r.call.op = "none" => r.call = NoCall
       /\ r.sent => r.up /\ r.call # NoCall
       /\ r.up =>
            /\ r.sent /\ q.state = "open" => q.requests # <<>> \/ q.answers # <<>>
            /\ q.requests # <<>> => Head(q.requests) = IF r.sent THEN r.call ELSE Ping
            /\ q.answers # <<>> =>
                  Head(q.answers).code \in (IF r.sent THEN {r.call.op} \cup Refusals
                                            ELSE {"ping"})

ChannelInv == \A c \in Clients : ChannelOK(c)

\* The code of an answer to a request.
CodeOK(r, a) == a.code \in (IF r.op = "ping" THEN {"ping"} ELSE {r.op} \cup Refusals)

\* Nothing is in the channels at first.
LEMMA ChannelInit == Init => ChannelInv
  BY DEF Init, ChannelInv, ChannelOK, NewClient, NoCall, Request

\* A step that does not touch the client and its channel.
LEMMA ChannelSame ==
    ASSUME NEW c \in Clients, ChannelOK(c), clients'[c] = clients[c],
           clients[c].up => sessions'[SessionOf(c)] = sessions[SessionOf(c)]
    PROVE  ChannelOK(c)'
  <1>1. SessionOf(c)' = SessionOf(c)
    BY DEF SessionOf
  <1> QED
    BY <1>1 DEF ChannelOK

\* A client that is connected has a session.
LEMMA UpSession ==
    ASSUME BasicInv, NEW c \in Clients, clients[c].up
    PROVE  SessionOf(c) \in Session /\ clients[c].link \in 1..MaxLinks
           /\ SessionOf(c) = <<c, clients[c].link>>
  <1>1. clients[c].pc # "down" /\ clients[c].link > 0 /\ clients[c].link \in 0..MaxLinks
        /\ MaxLinks \in Nat
    BY ClientFacts DEF LocalOK
  <1> QED
    BY <1>1, HasSession DEF SessionOf

\* A step of another client.
LEMMA ChannelFrame ==
    ASSUME BasicInv, NEW d \in Clients, Frame(d), NEW c \in Clients, c # d, ChannelOK(c)
    PROVE  ChannelOK(c)'
  <1>1. clients'[c] = clients[c]
    BY DEF Frame, OtherClients
  <1>2. clients[c].up => sessions'[SessionOf(c)] = sessions[SessionOf(c)]
    BY UpSession DEF Frame, OtherSessions
  <1> QED
    BY <1>1, <1>2, ChannelSame

\* An answer of the server.
LEMMA ChannelReply ==
    ASSUME BasicInv, ChannelInv, NEW s \in Session, NEW a \in AnswerT, Replied(s, a),
           CodeOK(Head(sessions[s].requests), a), clients' = clients
    PROVE  ChannelInv'
  <1> SUFFICES ASSUME NEW c \in Clients PROVE ChannelOK(c)'
    BY DEF ChannelInv
  <1>1. ChannelOK(c)
    BY DEF ChannelInv
  <1>2. CASE clients[c].up /\ SessionOf(c) = s
    <2> DEFINE q == sessions[s]
               q1 == [state |-> q.state, requests |-> <<>>,
                      answers |-> IF q.state = "open" THEN <<a>> ELSE <<>>]
    <2>1. q.requests # <<>> /\ sessions' = [sessions EXCEPT ![s] = q1]
      BY DEF Replied
    <2>2. sessions'[s] = q1
      BY <2>1 DEF BasicInv, TypeOK
    <2>3. SessionOf(c)' = s /\ clients'[c] = clients[c]
      BY <1>2 DEF SessionOf
    <2>4. Head(q.requests) = IF clients[c].sent THEN clients[c].call ELSE Ping
      BY <1>1, <1>2, <2>1 DEF ChannelOK
    <2>5. a.code \in (IF clients[c].sent THEN {clients[c].call.op} \cup Refusals ELSE {"ping"})
      BY <1>1, <2>4 DEF CodeOK, ChannelOK, Ping, Request
    <2>6. <<a>> # <<>> /\ Head(<<a>>) = a
      OBVIOUS
    <2>7. /\ q1.requests = <<>> /\ q1.state = q.state
          /\ q1.answers = IF q.state = "open" THEN <<a>> ELSE <<>>
      OBVIOUS
    <2> HIDE DEF q1, q
    <2> QED
      BY <1>1, <1>2, <2>2, <2>3, <2>5, <2>6, <2>7 DEF ChannelOK
  <1>3. CASE ~ (clients[c].up /\ SessionOf(c) = s)
    <2>1. clients[c].up => sessions'[SessionOf(c)] = sessions[SessionOf(c)]
      BY <1>3, UpSession DEF BasicInv, TypeOK, Replied
    <2> QED
      BY <1>1, <2>1, ChannelSame
  <1> QED
    BY <1>2, <1>3

\* A session that ends.
LEMMA ChannelEnd ==
    ASSUME BasicInv, ChannelInv, NEW c \in Clients, clients'[c] = clients[c],
           \/ sessions'[SessionOf(c)] = NoSession
           \/ clients[c].up => sessions'[SessionOf(c)] = sessions[SessionOf(c)]
    PROVE  ChannelOK(c)'
  <1>1. ChannelOK(c)
    BY DEF ChannelInv
  <1>2. CASE sessions'[SessionOf(c)] = NoSession
    <2>1. SessionOf(c)' = SessionOf(c)
      BY DEF SessionOf
    <2>2. NoSession.state = "closed" /\ NoSession.requests = <<>> /\ NoSession.answers = <<>>
      BY DEF NoSession, NewSession
    <2> QED
      BY <1>1, <1>2, <2>1, <2>2 DEF ChannelOK
  <1> QED
    BY <1>1, <1>2, ChannelSame

\* The steps of the server answer the request of the channel.
LEMMA ChannelServer ==
    ASSUME BasicInv, ChannelInv, NEW s \in Session, ServerStep(s)
    PROVE  ChannelInv'
  <1>0. clients' = clients
    BY DEF ServerStep
  <1> DEFINE r == Head(sessions[s].requests)
  <1>1. CASE ServerCheck(s)
    <2> DEFINE a == Answer(IF Matches(r.from, r.until, r.data)
                           THEN "check" ELSE "mismatch", 0, <<>>)
    <2>1. Replied(s, a) /\ r.op = "check"
      BY <1>1, CheckStep
    <2>2. a \in AnswerT /\ CodeOK(r, a)
      BY <2>1 DEF Answer, AnswerT, CodeOK, Refusals
    <2> HIDE DEF a
    <2> QED
      BY <1>0, <2>1, <2>2, ChannelReply
  <1>2. CASE ServerPull(s)
    <2> DEFINE a == Answer(IF r.op = "lock_pull" /\ ~setup.writable
                           THEN "pullonly" ELSE r.op, Len(slog), From(slog, r.from))
    <2>1. Replied(s, a) /\ r.op \in {"pull", "ping", "lock_pull"}
      BY <1>2, PullStep
    <2>2. r \in RequestT
      BY <2>1, ReceivesType DEF Replied
    <2>3. r.from \in Nat /\ Len(slog) \in Nat /\ From(slog, r.from) \in Seq(Nat)
      BY <2>2, TakeFrom DEF RequestT, BasicInv, TypeOK
    <2>4. a \in AnswerT /\ CodeOK(r, a)
      BY <2>1, <2>3 DEF Answer, AnswerT, CodeOK, Refusals
    <2> HIDE DEF a
    <2> QED
      BY <1>0, <2>1, <2>4, ChannelReply
  <1>3. CASE ServerPush(s)
    <2> DEFINE code == IF ~setup.writable THEN "pullonly"
                       ELSE IF r.from # Len(slog) THEN "conflict" ELSE r.op
               a == Answer(code, 0, <<>>)
    <2>1. r.op \in {"push", "push_unlock"}
          /\ (sessions' = [sessions EXCEPT ![s] = NoSession] \/ Replied(s, a))
      BY <1>3, PushStep
    <2>2. a \in AnswerT /\ CodeOK(r, a)
      BY <2>1 DEF Answer, AnswerT, CodeOK, Refusals
    <2> HIDE DEF a
    <2>3. CASE Replied(s, a)
      BY <1>0, <2>2, <2>3, ChannelReply
    <2>4. CASE sessions' = [sessions EXCEPT ![s] = NoSession]
      <3>1. ASSUME NEW c \in Clients PROVE ChannelOK(c)'
        <4>1. \/ sessions'[SessionOf(c)] = NoSession
              \/ clients[c].up => sessions'[SessionOf(c)] = sessions[SessionOf(c)]
          BY <2>4, UpSession DEF BasicInv, TypeOK
        <4> QED
          BY <1>0, <4>1, ChannelEnd
      <3> QED
        BY <3>1 DEF ChannelInv
    <2> QED
      BY <2>1, <2>3, <2>4
  <1>4. CASE ServerUnlock(s)
    <2> DEFINE a == Answer("unlock", 0, <<>>)
    <2>1. Replied(s, a) /\ r.op = "unlock"
      BY <1>4, UnlockStep
    <2>2. a \in AnswerT /\ CodeOK(r, a)
      BY <2>1 DEF Answer, AnswerT, CodeOK, Refusals
    <2> HIDE DEF a
    <2> QED
      BY <1>0, <2>1, <2>2, ChannelReply
  <1>5. CASE ServerDrop(s) \/ ServerRelock(s)
    <2>1. sessions' = [sessions EXCEPT ![s] = NoSession]
      BY <1>5, DropStep
    <2>2. ASSUME NEW c \in Clients PROVE ChannelOK(c)'
      <3>1. \/ sessions'[SessionOf(c)] = NoSession
            \/ clients[c].up => sessions'[SessionOf(c)] = sessions[SessionOf(c)]
        BY <2>1, UpSession DEF BasicInv, TypeOK
      <3> QED
        BY <1>0, <3>1, ChannelEnd
    <2> QED
      BY <2>2 DEF ChannelInv
  <1> QED
    BY <1>1, <1>2, <1>3, <1>4, <1>5 DEF ServerStep

\* A call that is well formed.
CallOK(x) ==
    /\ x.pc \in {"down", "failed"} => x.call = NoCall
    /\ x.call.op # "ping" /\ (x.call.op = "none" => x.call = NoCall)

\* A step of the client after which nothing is in its channel.
LEMMA ChannelEmpty ==
    ASSUME NEW c \in Clients, clients'[c].sent = FALSE, CallOK(clients'[c]),
           clients'[c].up => /\ sessions'[<<c, clients'[c].link>>].requests = <<>>
                             /\ sessions'[<<c, clients'[c].link>>].answers = <<>>
    PROVE  ChannelOK(c)'
  <1>1. SessionOf(c)' = <<c, clients'[c].link>>
    BY DEF SessionOf
  <1> QED
    BY <1>1 DEF ChannelOK, CallOK

\* A step of the client that begins or ends a call, and sends nothing.
LEMMA ChannelUnsent ==
    ASSUME NEW c \in Clients, ChannelOK(c), ~clients[c].sent, clients'[c].sent = FALSE,
           CallOK(clients'[c]), clients'[c].link = clients[c].link,
           clients'[c].up = clients[c].up, sessions' = sessions
    PROVE  ChannelOK(c)'
  <1>1. SessionOf(c)' = SessionOf(c)
    BY DEF SessionOf
  <1> QED
    BY <1>1 DEF ChannelOK, CallOK

\* A client without a call.
LEMMA NoCallOK ==
    ASSUME NEW x, x.call = NoCall PROVE CallOK(x)
  BY DEF CallOK, NoCall, Request

\* One session is assigned.
LEMMA SessionAssigned ==
    ASSUME BasicInv, NEW s \in Session, NEW q, sessions' = [sessions EXCEPT ![s] = q]
    PROVE  sessions'[s] = q
  BY DEF BasicInv, TypeOK

\* The steps of a client, one channel at a time.
LEMMA ChannelClient ==
    ASSUME BasicInv, ChannelInv, NEW c \in Clients,
           \/ Open(c) \/ Close(c) \/ Crash(c) \/ Break(c) \/ Notice(c) \/ Reconnect(c)
           \/ Begin(c) \/ Finish(c) \/ push_if_ahead(c) \/ AppendLocally(c)
           \/ Send(c) \/ Receive(c) \/ KeepAlive(c) \/ KeptAlive(c)
    PROVE  ChannelInv'
  <1> DEFINE r == clients[c]
             s == SessionOf(c)
             x == clients'[c]
             Empty == [state |-> "open", requests |-> <<>>, answers |-> <<>>]
  <1>0. ChannelOK(c) /\ r \in ClientT /\ r.call \in RequestT
    BY ClientFacts DEF ChannelInv
  <1>a. CallOK(r) /\ (r.sent => r.up /\ r.call # NoCall)
    BY <1>0 DEF ChannelOK, CallOK
  <1>b. Empty.requests = <<>> /\ Empty.answers = <<>>
        /\ NewSession.requests = <<>> /\ NewSession.answers = <<>>
    BY DEF NewSession
  <1>c. r.sent \in BOOLEAN /\ r.up \in BOOLEAN
    BY <1>0 DEF ClientT
  <1>d. s = <<c, r.link>>
    BY DEF SessionOf
  <1> HIDE DEF Empty
  <1>e. ASSUME Frame(c), ChannelOK(c)' PROVE ChannelInv'
    BY <1>e, ChannelFrame DEF ChannelInv
  <1>1. CASE Open(c)
    <2>1. /\ Stepped(c) /\ x.sent = FALSE /\ x.link = r.link + 1 /\ x.pc = "idle"
          /\ sessions' = [sessions EXCEPT ![<<c, r.link + 1>>] = NewSession]
          /\ <<c, r.link + 1>> \in Session
      BY <1>1, OpenStep
    <2>a. kind(c) # "follower" => x.call = NoCall
      BY <1>1, OpenStep
    <2>b. kind(c) = "follower" =>
             x.call = Request("push", Len(slog), Min2(Len(slog), Len(files'[home(c)])),
                        SubSeq(files'[home(c)], Len(slog) + 1,
                               Min2(Len(slog), Len(files'[home(c)]))))
      BY <1>1, OpenStep
    <2>c. kind(c) = "follower" => x.call.op = "push"
      BY <2>b DEF Request
    <2>2. CallOK(x)
      BY <2>1, <2>a, <2>c, NoCallOK DEF CallOK
    <2>3. sessions'[<<c, x.link>>] = NewSession
      BY <2>1, SessionAssigned
    <2> QED
      BY <1>b, <1>e, <2>1, <2>2, <2>3, ChannelEmpty DEF Stepped
  <1>2. CASE Close(c) \/ Crash(c)
    <2>1. r.pc # "down" /\ Gone(c) /\ faults' \in Nat
      BY <1>2 DEF Close, Crash, BasicInv, TypeOK
    <2>2. Stepped(c) /\ x = NewClient(r.link)
      BY <2>1, GoneStep
    <2>3. x.sent = FALSE /\ x.up = FALSE /\ x.call = NoCall
      BY <2>2 DEF NewClient
    <2> QED
      BY <1>e, <2>2, <2>3, ChannelEmpty, NoCallOK DEF Stepped
  <1>3. CASE Break(c) \/ Notice(c)
    <2>1. r.up /\ ChannelThrows(c) /\ faults' \in Nat
      BY <1>3 DEF Break, Notice, BasicInv, TypeOK
    <2>2. /\ Stepped(c) /\ x.sent = FALSE /\ x.up = FALSE
          /\ \/ x.pc = r.pc /\ x.call = r.call
             \/ x.call = NoCall
      BY <2>1, ThrowsStep
    <2>3. CallOK(x)
      BY <1>a, <2>2, NoCallOK DEF CallOK
    <2> QED
      BY <1>e, <2>2, <2>3, ChannelEmpty DEF Stepped
  <1>4. CASE Reconnect(c)
    <2>1. /\ Stepped(c) /\ x.link = r.link + 1 /\ ~r.up
          /\ sessions' = [sessions EXCEPT ![<<c, r.link + 1>>] = NewSession]
          /\ <<c, r.link + 1>> \in Session
          /\ \/ x.pc = r.pc /\ x.call = r.call /\ x.sent = r.sent
             \/ x.call = NoCall /\ x.sent = FALSE
      BY <1>4, ReconnectStep
    <2>2. CallOK(x) /\ x.sent = FALSE
      BY <1>a, <1>c, <2>1, NoCallOK DEF CallOK
    <2>3. sessions'[<<c, x.link>>] = NewSession
      BY <2>1, SessionAssigned
    <2> QED
      BY <1>b, <1>e, <2>1, <2>2, <2>3, ChannelEmpty DEF Stepped
  <1>5. CASE Begin(c)
    <2>1. /\ Stepped(c) /\ sessions' = sessions /\ Idle(c) /\ x.sent = FALSE
          /\ x.link = r.link /\ x.up = r.up /\ x.pc = "idle"
          /\ x.call.op \in {"check", "pull", "lock_pull"}
      BY <1>5, BeginStep
    <2>2. CallOK(x) /\ ~r.sent
      BY <1>a, <2>1 DEF CallOK, Idle
    <2> QED
      BY <1>0, <1>e, <2>1, <2>2, ChannelUnsent DEF Stepped
  <1>6. CASE Commit(c)
    <2>1. /\ Stepped(c) /\ sessions' = sessions /\ r.call = NoCall /\ x.sent = FALSE
          /\ x.link = r.link /\ x.up = r.up /\ x.pc = "writing"
          /\ x.call.op = "push_unlock"
      BY <1>6, CommitStep
    <2>2. CallOK(x) /\ ~r.sent
      BY <1>a, <2>1 DEF CallOK
    <2> QED
      BY <1>0, <1>e, <2>1, <2>2, ChannelUnsent DEF Stepped
  <1>7. CASE Abort(c)
    <2>1. /\ Stepped(c) /\ sessions' = sessions /\ r.call = NoCall
          /\ x.sent = FALSE \/ x.sent = r.sent
          /\ x.link = r.link /\ x.up = r.up /\ x.pc \in {"idle", "writing"}
          /\ x.call = NoCall \/ x.call.op = "unlock"
      BY <1>7, AbortStep
    <2>2. CallOK(x) /\ ~r.sent /\ x.sent = FALSE
      BY <1>a, <1>c, <2>1, NoCallOK DEF CallOK
    <2> QED
      BY <1>0, <1>e, <2>1, <2>2, ChannelUnsent DEF Stepped
  <1>8. CASE push_if_ahead(c)
    <2>1. /\ Stepped(c) /\ sessions' = sessions /\ Idle(c) /\ x.sent = FALSE
          /\ x.link = r.link /\ x.up = r.up /\ x.pc = "idle"
          /\ x.call.op \in {"push", "push_unlock"}
      BY <1>8, PushIfAheadStep
    <2>2. CallOK(x) /\ ~r.sent
      BY <1>a, <2>1 DEF CallOK, Idle
    <2> QED
      BY <1>0, <1>e, <2>1, <2>2, ChannelUnsent DEF Stepped
  <1>9. CASE AppendLocally(c)
    <2>1. Stepped(c) /\ sessions' = sessions /\ clients' = clients
      BY <1>9, AppendLocallyStep
    <2> QED
      BY <1>0, <1>e, <2>1, ChannelSame DEF Stepped
  <1>10. CASE Send(c)
    <2>1. /\ Stepped(c) /\ s \in Session
          /\ sessions' = [sessions EXCEPT ![s] =
                 [state |-> "open", requests |-> <<r.call>>, answers |-> <<>>]]
      BY <1>10, SendStep
    <2>2. sessions'[s] = [state |-> "open", requests |-> <<r.call>>, answers |-> <<>>]
      BY <2>1, SessionAssigned
    <2>3. x = [r EXCEPT !.sent = TRUE] /\ r.up /\ r.call # NoCall
      BY <1>10, PutOthers DEF Send
    <2>4. x.pc = r.pc /\ x.call = r.call /\ x.sent = TRUE /\ x.link = r.link /\ x.up
      BY <1>0, <2>3 DEF ClientT
    <2>5. SessionOf(c)' = s
      BY <2>4 DEF SessionOf
    <2>6. <<r.call>> # <<>> /\ Head(<<r.call>>) = r.call
      OBVIOUS
    <2>7. ChannelOK(c)'
      BY <1>a, <2>2, <2>3, <2>4, <2>5, <2>6 DEF ChannelOK, CallOK
    <2> QED
      BY <1>e, <2>1, <2>7 DEF Stepped
  <1>11. CASE CheckDone(c)
    <2>1. /\ Stepped(c) /\ s \in Session /\ sessions' = [sessions EXCEPT ![s] = Empty]
          /\ x.sent = FALSE /\ x.link = r.link
          /\ \/ x.pc = r.pc /\ x.call.op \in {"pull", "lock_pull"} /\ r.call.op = "check"
             \/ x.call = NoCall
      BY <1>11, CheckDoneStep DEF Empty
    <2>2. CallOK(x)
      BY <1>a, <2>1, NoCallOK DEF CallOK, NoCall, Request
    <2>3. sessions'[<<c, x.link>>] = Empty
      BY <1>d, <2>1, SessionAssigned
    <2> QED
      BY <1>b, <1>e, <2>1, <2>2, <2>3, ChannelEmpty DEF Stepped
  <1>12. CASE PullDone(c)
    <2>1. /\ Stepped(c) /\ s \in Session /\ sessions' = [sessions EXCEPT ![s] = Empty]
          /\ x.sent = FALSE /\ x.link = r.link /\ x.call = NoCall
      BY <1>12, PullDoneStep DEF Empty
    <2>2. sessions'[<<c, x.link>>] = Empty
      BY <1>d, <2>1, SessionAssigned
    <2> QED
      BY <1>b, <1>e, <2>1, <2>2, ChannelEmpty, NoCallOK DEF Stepped
  <1>13. CASE PushDone(c)
    <2>1. /\ Stepped(c) /\ s \in Session /\ x.sent = FALSE /\ x.link = r.link
          /\ \/ x.up = FALSE /\ x.pc = r.pc /\ x.call = r.call
             \/ sessions' = [sessions EXCEPT ![s] = Empty] /\ x.call = NoCall
      BY <1>13, PushDoneStep DEF Empty
    <2>2. CallOK(x)
      BY <1>a, <2>1, NoCallOK DEF CallOK
    <2>3. x.up => sessions'[<<c, x.link>>] = Empty
      BY <1>d, <2>1, SessionAssigned
    <2> QED
      BY <1>b, <1>e, <2>1, <2>2, <2>3, ChannelEmpty DEF Stepped
  <1>14. CASE UnlockDone(c)
    <2>1. /\ Stepped(c) /\ s \in Session /\ sessions' = [sessions EXCEPT ![s] = Empty]
          /\ x.sent = FALSE /\ x.link = r.link /\ x.call = NoCall
      BY <1>14, UnlockDoneStep DEF Empty
    <2>2. sessions'[<<c, x.link>>] = Empty
      BY <1>d, <2>1, SessionAssigned
    <2> QED
      BY <1>b, <1>e, <2>1, <2>2, ChannelEmpty, NoCallOK DEF Stepped
  <1>15. CASE KeepAlive(c)
    <2> DEFINE q == [state |-> "open", requests |-> <<Ping>>, answers |-> <<>>]
    <2>1. Stepped(c) /\ s \in Session /\ sessions' = [sessions EXCEPT ![s] = q]
      BY <1>15, KeepAliveStep
    <2>2. sessions'[s] = q /\ clients' = clients
      BY <1>15, <2>1, SessionAssigned DEF KeepAlive
    <2>3. r.up /\ sessions[s].requests = <<>> /\ sessions[s].answers = <<>>
          /\ sessions[s].state = "open"
      BY <1>15 DEF KeepAlive, ChannelFree
    <2>4. ~r.sent
      BY <1>0, <2>3 DEF ChannelOK
    <2>5. <<Ping>> # <<>> /\ Head(<<Ping>>) = Ping
      OBVIOUS
    <2>6. ChannelOK(c)'
      BY <1>0, <2>2, <2>4, <2>5 DEF ChannelOK, SessionOf
    <2> QED
      BY <1>e, <2>1, <2>6 DEF Stepped
  <1>16. CASE KeptAlive(c)
    <2>1. Stepped(c) /\ s \in Session /\ sessions' = [sessions EXCEPT ![s] = Empty]
      BY <1>16, KeptAliveStep DEF Empty
    <2>2. sessions'[s] = Empty /\ clients' = clients /\ ~r.sent
      BY <1>16, <2>1, SessionAssigned DEF KeptAlive
    <2>3. x.sent = FALSE
      BY <1>c, <2>2
    <2> QED
      BY <1>a, <1>b, <1>d, <1>e, <2>1, <2>2, <2>3, ChannelEmpty DEF Stepped
  <1> QED
    BY <1>1, <1>2, <1>3, <1>4, <1>5, <1>6, <1>7, <1>8, <1>9, <1>10, <1>11,
       <1>12, <1>13, <1>14, <1>15, <1>16 DEF Finish, Receive

\* Every step keeps the channels in order.
LEMMA ChannelNext == BasicInv /\ ChannelInv /\ [Next]_vars => ChannelInv'
  <1> SUFFICES ASSUME BasicInv, ChannelInv, [Next]_vars PROVE ChannelInv'
    OBVIOUS
  <1>0. CASE UNCHANGED vars
    <2>1. clients' = clients /\ sessions' = sessions
      BY <1>0 DEF vars
    <2> QED
      BY <2>1, ChannelSame DEF ChannelInv
  <1>1. ASSUME NEW s \in Session, Timeout(s) PROVE ChannelInv'
    <2> DEFINE a == Answer("timeout", 0, <<>>)
    <2>1. LockTimeout(s) /\ clients' = clients
      BY <1>1 DEF Timeout
    <2>2. CASE sessions' = sessions
      BY <2>1, <2>2, ChannelSame DEF ChannelInv
    <2>3. CASE Head(sessions[s].requests).op \in {"push", "push_unlock"} /\ Replied(s, a)
      <3>1. a \in AnswerT /\ CodeOK(Head(sessions[s].requests), a)
        BY <2>3 DEF Answer, AnswerT, CodeOK, Refusals
      <3> HIDE DEF a
      <3> QED
        BY <2>1, <2>3, <3>1, ChannelReply
    <2> QED
      BY <2>1, <2>2, <2>3, TimeoutStep
  <1>2. CASE Restart
    <2>1. clients' = clients /\ sessions' = [s \in Session |-> NoSession]
      BY <1>2, RestartStep
    <2>2. ASSUME NEW c \in Clients PROVE ChannelOK(c)'
      <3>1. CASE clients[c].up
        BY <2>1, <3>1, UpSession, ChannelEnd
      <3>2. CASE ~clients[c].up
        BY <2>1, <3>2, ChannelEnd
      <3> QED
        BY <3>1, <3>2
    <2> QED
      BY <2>2 DEF ChannelInv
  <1> QED
    BY <1>0, <1>1, <1>2, ChannelServer, ChannelClient DEF Next

(***************************************************************************)
(* Types and channels.                                                     *)
(***************************************************************************)
LEMMA BasicInvariant == Spec => [](BasicInv /\ ChannelInv)
  <1>1. Init => BasicInv /\ ChannelInv
    BY BasicInit, ChannelInit
  <1>2. BasicInv /\ ChannelInv /\ [Next]_vars => BasicInv' /\ ChannelInv'
    BY BasicNext, ChannelNext
  <1> QED
    BY <1>1, <1>2, PTL DEF Spec

\* Every variable keeps its type.
THEOREM TypeCorrect == Spec => []TypeOK
  <1>1. BasicInv /\ ChannelInv => TypeOK
    BY DEF BasicInv
  <1> QED
    BY <1>1, BasicInvariant, PTL

\* The client and its keep-alive thread never read each other's answers: the
\* lock of the channel keeps requests and answers in pairs, however channels
\* break and the server restarts.
THEOREM AnswersMatchCalls == Spec => []AnswersMatch
  <1>1. BasicInv /\ ChannelInv => AnswersMatch
    BY DEF ChannelInv, ChannelOK, AnswersMatch, AnswerTo, Refusals
  <1> QED
    BY <1>1, BasicInvariant, PTL

(***************************************************************************)
(* Answers: where one that is ready to be read comes from.                 *)
(***************************************************************************)
ClientStep(c) ==
    \/ Open(c) \/ Close(c) \/ Crash(c) \/ Break(c) \/ Notice(c) \/ Reconnect(c)
    \/ Begin(c) \/ Finish(c) \/ push_if_ahead(c) \/ AppendLocally(c)
    \/ Send(c) \/ Receive(c) \/ KeepAlive(c) \/ KeptAlive(c)

\* The steps of a client leave the others alone.
LEMMA ClientFrame ==
    ASSUME BasicInv, NEW c \in Clients, ClientStep(c)
    PROVE  Stepped(c)
  <1>0. faults \in Nat /\ faults + 1 \in Nat
    BY DEF BasicInv, TypeOK
  <1>1. CASE Close(c) \/ Crash(c)
    <2>1. clients[c].pc # "down" /\ Gone(c) /\ faults' \in Nat
      BY <1>0, <1>1 DEF Close, Crash
    <2> QED
      BY <2>1, GoneStep
  <1>2. CASE Break(c) \/ Notice(c)
    <2>1. clients[c].up /\ ChannelThrows(c) /\ faults' \in Nat
      BY <1>0, <1>2 DEF Break, Notice
    <2> QED
      BY <2>1, ThrowsStep
  <1>3. CASE Open(c)
    BY <1>3, OpenStep
  <1>4. CASE Reconnect(c)
    BY <1>4, ReconnectStep
  <1>5. CASE Begin(c)
    BY <1>5, BeginStep
  <1>6. CASE Commit(c)
    BY <1>6, CommitStep
  <1>7. CASE Abort(c)
    BY <1>7, AbortStep
  <1>8. CASE push_if_ahead(c)
    BY <1>8, PushIfAheadStep
  <1>9. CASE AppendLocally(c)
    BY <1>9, AppendLocallyStep
  <1>10. CASE Send(c)
    BY <1>10, SendStep
  <1>11. CASE CheckDone(c)
    BY <1>11, CheckDoneStep
  <1>12. CASE PullDone(c)
    BY <1>12, PullDoneStep
  <1>13. CASE PushDone(c)
    BY <1>13, PushDoneStep
  <1>14. CASE UnlockDone(c)
    BY <1>14, UnlockDoneStep
  <1>15. CASE KeepAlive(c)
    BY <1>15, KeepAliveStep
  <1>16. CASE KeptAlive(c)
    BY <1>16, KeptAliveStep
  <1> QED
    BY <1>1, <1>2, <1>3, <1>4, <1>5, <1>6, <1>7, <1>8, <1>9, <1>10, <1>11,
       <1>12, <1>13, <1>14, <1>15, <1>16 DEF ClientStep, Finish, Receive

\* After a step of the client itself, nothing is ready to be read: it has just
\* read the answer, or sends a request, or has another call or session.
LEMMA AnsweredClient ==
    ASSUME BasicInv, ChannelInv, NEW c \in Clients, ClientStep(c), Answered(c)'
    PROVE  AppendLocally(c)
  <1> DEFINE r == clients[c]
             s == SessionOf(c)
             x == clients'[c]
             Empty == [state |-> "open", requests |-> <<>>, answers |-> <<>>]
  <1>0. /\ ChannelOK(c) /\ r \in ClientT
        /\ x.up /\ x.sent /\ sessions'[<<c, x.link>>].answers # <<>>
    BY ClientFacts DEF ChannelInv, Answered, SessionOf
  <1>a. r.sent => r.up /\ r.call # NoCall
    BY <1>0 DEF ChannelOK
  <1>b. Empty.answers = <<>> /\ NewSession.answers = <<>>
    BY DEF NewSession
  <1>c. r.sent \in BOOLEAN /\ r.up \in BOOLEAN
    BY <1>0 DEF ClientT
  <1>d. s = <<c, r.link>>
    BY DEF SessionOf
  <1> HIDE DEF Empty
  <1>1. CASE Open(c)
    <2>1. x.sent = FALSE
      BY <1>1, OpenStep
    <2> QED
      BY <1>0, <2>1
  <1>2. CASE Close(c) \/ Crash(c)
    <2>1. r.pc # "down" /\ Gone(c) /\ faults' \in Nat
      BY <1>2 DEF Close, Crash, BasicInv, TypeOK
    <2>2. x = NewClient(r.link)
      BY <2>1, GoneStep
    <2> QED
      BY <1>0, <2>2 DEF NewClient
  <1>3. CASE Break(c) \/ Notice(c)
    <2>1. r.up /\ ChannelThrows(c) /\ faults' \in Nat
      BY <1>3 DEF Break, Notice, BasicInv, TypeOK
    <2>2. x.up = FALSE
      BY <2>1, ThrowsStep
    <2> QED
      BY <1>0, <2>2
  <1>4. CASE Reconnect(c)
    <2>1. /\ x.link = r.link + 1
          /\ sessions' = [sessions EXCEPT ![<<c, r.link + 1>>] = NewSession]
          /\ <<c, r.link + 1>> \in Session
      BY <1>4, ReconnectStep
    <2>2. sessions'[<<c, x.link>>] = NewSession
      BY <2>1, SessionAssigned
    <2> QED
      BY <1>0, <1>b, <2>2
  <1>5. CASE Begin(c)
    <2>1. x.sent = FALSE
      BY <1>5, BeginStep
    <2> QED
      BY <1>0, <2>1
  <1>6. CASE Commit(c)
    <2>1. x.sent = FALSE
      BY <1>6, CommitStep
    <2> QED
      BY <1>0, <2>1
  <1>7. CASE Abort(c)
    <2>1. r.call = NoCall /\ (x.sent = FALSE \/ x.sent = r.sent)
      BY <1>7, AbortStep
    <2> QED
      BY <1>0, <1>a, <2>1
  <1>8. CASE push_if_ahead(c)
    <2>1. x.sent = FALSE
      BY <1>8, PushIfAheadStep
    <2> QED
      BY <1>0, <2>1
  <1>9. CASE Send(c)
    <2> DEFINE q == [state |-> "open", requests |-> <<r.call>>, answers |-> <<>>]
    <2>1. s \in Session /\ sessions' = [sessions EXCEPT ![s] = q]
      BY <1>9, SendStep
    <2>2. sessions'[s] = q /\ q.answers = <<>>
      BY <2>1, SessionAssigned
    <2>3. x = [r EXCEPT !.sent = TRUE]
      BY <1>9, PutOthers DEF Send
    <2>4. x.link = r.link
      BY <1>0, <2>3 DEF ClientT
    <2> HIDE DEF q
    <2> QED
      BY <1>0, <1>d, <2>2, <2>4
  <1>10. CASE CheckDone(c)
    <2>1. x.sent = FALSE
      BY <1>10, CheckDoneStep
    <2> QED
      BY <1>0, <2>1
  <1>11. CASE PullDone(c)
    <2>1. x.sent = FALSE
      BY <1>11, PullDoneStep
    <2> QED
      BY <1>0, <2>1
  <1>12. CASE PushDone(c)
    <2>1. x.sent = FALSE
      BY <1>12, PushDoneStep
    <2> QED
      BY <1>0, <2>1
  <1>13. CASE UnlockDone(c)
    <2>1. x.sent = FALSE
      BY <1>13, UnlockDoneStep
    <2> QED
      BY <1>0, <2>1
  <1>14. CASE KeepAlive(c)
    <2>1. x = r /\ sessions[s].requests = <<>> /\ sessions[s].answers = <<>>
          /\ sessions[s].state = "open"
      BY <1>14 DEF KeepAlive, ChannelFree
    <2>2. ~r.sent
      BY <1>0, <1>a, <2>1 DEF ChannelOK
    <2> QED
      BY <1>0, <2>1, <2>2
  <1>15. CASE KeptAlive(c)
    <2>1. x = r /\ ~r.sent
      BY <1>15 DEF KeptAlive
    <2> QED
      BY <1>0, <2>1
  <1> QED
    BY <1>1, <1>2, <1>3, <1>4, <1>5, <1>6, <1>7, <1>8, <1>9, <1>10, <1>11,
       <1>12, <1>13, <1>14, <1>15 DEF ClientStep, Finish, Receive

\* The answers to the other clients stay.
LEMMA AnsweredFrame ==
    ASSUME BasicInv, NEW d \in Clients, Frame(d), NEW c \in Clients, c # d, Answered(c)'
    PROVE  Answered(c) /\ AnswerTo(c)' = AnswerTo(c) /\ clients'[c] = clients[c]
  <1>1. clients'[c] = clients[c] /\ SessionOf(c)' = SessionOf(c)
    BY DEF Frame, OtherClients, SessionOf
  <1>2. clients[c].up => sessions'[SessionOf(c)] = sessions[SessionOf(c)]
    BY UpSession DEF Frame, OtherSessions
  <1> QED
    BY <1>1, <1>2 DEF Answered, AnswerTo

\* What the server does to one session: it answers the request, or ends it.
Touched(s) ==
    \/ sessions' = sessions
    \/ sessions' = [sessions EXCEPT ![s] = NoSession]
    \/ \E a \in AnswerT : Replied(s, a)

\* The answer that c finds is the one that the server has just sent to the
\* request of its call, or it was there before.
LEMMA AnsweredServer ==
    ASSUME BasicInv, ChannelInv, NEW s \in Session, Touched(s), clients' = clients,
           NEW c \in Clients, Answered(c)'
    PROVE  \/ Answered(c) /\ AnswerTo(c)' = AnswerTo(c)
           \/ /\ s = SessionOf(c) /\ clients[c].up /\ clients[c].sent
              /\ sessions[s].state = "open" /\ sessions[s].requests # <<>>
              /\ Head(sessions[s].requests) = clients[c].call
              /\ Replied(s, AnswerTo(c)')
  <1>0. /\ SessionOf(c)' = SessionOf(c) /\ SessionOf(c) \in Session
        /\ clients[c].up /\ clients[c].sent /\ sessions'[SessionOf(c)].answers # <<>>
        /\ AnswerTo(c)' = Head(sessions'[SessionOf(c)].answers)
    BY UpSession DEF Answered, AnswerTo, SessionOf
  <1>1. ChannelOK(c)
    BY DEF ChannelInv
  <1>2. CASE sessions'[SessionOf(c)] = sessions[SessionOf(c)]
    BY <1>0, <1>2 DEF Answered, AnswerTo
  <1>3. CASE SessionOf(c) = s /\ sessions'[s] = NoSession
    BY <1>0, <1>3 DEF NoSession, NewSession
  <1>4. ASSUME SessionOf(c) = s, NEW a \in AnswerT, Replied(s, a)
        PROVE  /\ s = SessionOf(c) /\ clients[c].up /\ clients[c].sent
               /\ sessions[s].state = "open" /\ sessions[s].requests # <<>>
               /\ Head(sessions[s].requests) = clients[c].call
               /\ Replied(s, AnswerTo(c)')
    <2> DEFINE q == [state |-> sessions[s].state, requests |-> <<>>,
                     answers |-> IF sessions[s].state = "open" THEN <<a>> ELSE <<>>]
    <2>1. sessions[s].requests # <<>> /\ sessions'[s] = q
      BY <1>4, SessionAssigned DEF Replied
    <2>2. q.answers = IF sessions[s].state = "open" THEN <<a>> ELSE <<>>
      OBVIOUS
    <2>3. Head(<<a>>) = a
      OBVIOUS
    <2> HIDE DEF q
    <2>4. sessions[s].state = "open" /\ AnswerTo(c)' = a
      BY <1>0, <1>4, <2>1, <2>2, <2>3
    <2> QED
      BY <1>0, <1>1, <1>4, <2>1, <2>4 DEF ChannelOK
  <1>5. CASE SessionOf(c) # s
    <2>1. sessions'[SessionOf(c)] = sessions[SessionOf(c)]
      BY <1>0, <1>5 DEF Touched, Replied, BasicInv, TypeOK
    <2> QED
      BY <1>2, <2>1
  <1>6. CASE SessionOf(c) = s
    <2>1. CASE sessions' = sessions
      BY <1>2, <2>1
    <2>2. CASE sessions' = [sessions EXCEPT ![s] = NoSession]
      BY <1>3, <1>6, <2>2, SessionAssigned
    <2> QED
      BY <1>4, <1>6, <2>1, <2>2 DEF Touched
  <1> QED
    BY <1>5, <1>6

\* A step of the server, and the answer that it sends, if it sends one.
LEMMA ServerTouches ==
    ASSUME BasicInv, NEW s \in Session, ServerStep(s) \/ Timeout(s)
    PROVE  /\ Touched(s)
           /\ UNCHANGED <<setup, files, tails, clients, written, acked, lost>>
           /\ \/ slog' = slog
              \/ /\ Head(sessions[s].requests).op \in {"push", "push_unlock"}
                 /\ sessions[s].requests # <<>>
                 /\ Head(sessions[s].requests).from = Len(slog)
                 /\ slog' = slog \o Head(sessions[s].requests).data
  <1> DEFINE r == Head(sessions[s].requests)
  <1>0. /\ UNCHANGED <<setup, files, tails, clients, written, acked, lost>>
        /\ \/ ServerCheck(s) \/ ServerPull(s) \/ ServerRelock(s) \/ ServerPush(s)
           \/ ServerUnlock(s) \/ ServerDrop(s) \/ LockTimeout(s)
    BY DEF ServerStep, Timeout
  <1>1. CASE ServerCheck(s)
    <2> DEFINE a == Answer(IF Matches(r.from, r.until, r.data)
                           THEN "check" ELSE "mismatch", 0, <<>>)
    <2>1. Replied(s, a) /\ slog' = slog
      BY <1>1, CheckStep
    <2>2. a \in AnswerT
      BY DEF Answer, AnswerT
    <2> HIDE DEF a
    <2> QED
      BY <1>0, <2>1, <2>2 DEF Touched
  <1>2. CASE ServerPull(s)
    <2> DEFINE a == Answer(IF r.op = "lock_pull" /\ ~setup.writable
                           THEN "pullonly" ELSE r.op, Len(slog), From(slog, r.from))
    <2>1. Replied(s, a) /\ r.op \in {"pull", "ping", "lock_pull"} /\ slog' = slog
      BY <1>2, PullStep
    <2>2. r \in RequestT
      BY <2>1, ReceivesType DEF Replied
    <2>3. r.from \in Nat /\ Len(slog) \in Nat /\ From(slog, r.from) \in Seq(Nat)
      BY <2>2, TakeFrom DEF RequestT, BasicInv, TypeOK
    <2>4. a \in AnswerT
      BY <2>1, <2>3 DEF Answer, AnswerT
    <2> HIDE DEF a
    <2> QED
      BY <1>0, <2>1, <2>4 DEF Touched
  <1>3. CASE ServerPush(s)
    <2> DEFINE code == IF ~setup.writable THEN "pullonly"
                       ELSE IF r.from # Len(slog) THEN "conflict" ELSE r.op
               a == Answer(code, 0, <<>>)
    <2>1. r.op \in {"push", "push_unlock"} /\ sessions[s].requests # <<>>
      BY <1>3, PushStep
    <2>2. sessions' = [sessions EXCEPT ![s] = NoSession] \/ Replied(s, a)
      BY <1>3, PushStep
    <2>3. slog' = slog \/ (code = r.op /\ slog' = slog \o r.data)
      BY <1>3, PushStep
    <2>4. a \in AnswerT
      BY <2>1 DEF Answer, AnswerT
    <2>5. code = r.op => r.from = Len(slog)
      BY <2>1
    <2> HIDE DEF a, code
    <2> QED
      BY <1>0, <2>1, <2>2, <2>3, <2>4, <2>5 DEF Touched
  <1>4. CASE ServerUnlock(s)
    <2> DEFINE a == Answer("unlock", 0, <<>>)
    <2>1. Replied(s, a) /\ slog' = slog
      BY <1>4, UnlockStep
    <2>2. a \in AnswerT
      BY DEF Answer, AnswerT
    <2> HIDE DEF a
    <2> QED
      BY <1>0, <2>1, <2>2 DEF Touched
  <1>5. CASE ServerDrop(s) \/ ServerRelock(s)
    BY <1>0, <1>5, DropStep DEF Touched
  <1>6. CASE LockTimeout(s)
    <2> DEFINE a == Answer("timeout", 0, <<>>)
    <2>1. slog' = slog /\ (sessions' = sessions \/ Replied(s, a))
      BY <1>6, TimeoutStep
    <2>2. a \in AnswerT
      BY DEF Answer, AnswerT
    <2> HIDE DEF a
    <2> QED
      BY <1>0, <2>1, <2>2 DEF Touched
  <1> QED
    BY <1>0, <1>1, <1>2, <1>3, <1>4, <1>5, <1>6

\* The answer to a request is determined by what the server did.
LEMMA RepliedOnce ==
    ASSUME BasicInv, NEW s \in Session, sessions[s].state = "open", NEW a, Replied(s, a)
    PROVE  /\ \A b : Replied(s, b) => a = b
           /\ sessions' # sessions
           /\ sessions' # [sessions EXCEPT ![s] = NoSession]
           /\ sessions[s].requests # <<>>
  <1> DEFINE Q(b) == [state |-> sessions[s].state, requests |-> <<>>,
                      answers |-> IF sessions[s].state = "open" THEN <<b>> ELSE <<>>]
  <1>1. \A b : Replied(s, b) => sessions'[s] = Q(b) /\ sessions[s].requests # <<>>
    BY SessionAssigned DEF Replied
  <1>2. \A b : Q(b).answers = <<b>> /\ Q(b).requests = <<>> /\ Q(b).state = "open"
    OBVIOUS
  <1> HIDE DEF Q
  <1>3. \A b : <<a>> = <<b>> => a = b
    OBVIOUS
  <1>4. sessions' = [sessions EXCEPT ![s] = NoSession] => sessions'[s] = NoSession
    BY SessionAssigned
  <1> QED
    BY <1>1, <1>2, <1>3, <1>4 DEF NoSession, NewSession

\* The answers that tell a client that its request was executed.
LEMMA AnswerSent ==
    ASSUME BasicInv, NEW s \in Session, ServerStep(s) \/ Timeout(s),
           sessions[s].state = "open", NEW a, Replied(s, a),
           a.code = Head(sessions[s].requests).op
    PROVE  LET r == Head(sessions[s].requests) IN
           /\ r.op \in {"push", "push_unlock"} =>
                 r.from = Len(slog) /\ slog' = slog \o r.data
           /\ r.op \in {"pull", "lock_pull"} =>
                 slog' = slog /\ a.checkpoint = Len(slog) /\ a.data = From(slog, r.from)
           /\ r.op = "lock_pull" => holder' = s
           /\ r.op = "check" => slog' = slog /\ Matches(r.from, r.until, r.data)
  <1> DEFINE r == Head(sessions[s].requests)
  <1>0. /\ \/ ServerCheck(s) \/ ServerPull(s) \/ ServerRelock(s) \/ ServerPush(s)
           \/ ServerUnlock(s) \/ ServerDrop(s) \/ LockTimeout(s)
        /\ sessions[s].requests # <<>> /\ sessions' # sessions
        /\ sessions' # [sessions EXCEPT ![s] = NoSession]
    BY RepliedOnce DEF ServerStep, Timeout
  <1>1. CASE ServerCheck(s)
    <2> DEFINE code == IF Matches(r.from, r.until, r.data) THEN "check" ELSE "mismatch"
    <2>1. r.op = "check" /\ slog' = slog /\ Replied(s, Answer(code, 0, <<>>))
      BY <1>1, CheckStep
    <2>2. a = Answer(code, 0, <<>>)
      BY <2>1, RepliedOnce
    <2>3. code = "check"
      BY <2>1, <2>2 DEF Answer
    <2>4. Matches(r.from, r.until, r.data)
      BY <2>3
    <2> QED
      BY <2>1, <2>4
  <1>2. CASE ServerPull(s)
    <2> DEFINE code == IF r.op = "lock_pull" /\ ~setup.writable THEN "pullonly" ELSE r.op
    <2>1. /\ r.op \in {"pull", "ping", "lock_pull"} /\ slog' = slog
          /\ holder' = IF r.op = "lock_pull" THEN s ELSE holder
          /\ Replied(s, Answer(code, Len(slog), From(slog, r.from)))
      BY <1>2, PullStep
    <2>2. a = Answer(code, Len(slog), From(slog, r.from))
      BY <2>1, RepliedOnce
    <2>3. a.checkpoint = Len(slog) /\ a.data = From(slog, r.from)
      BY <2>2 DEF Answer
    <2> QED
      BY <2>1, <2>3
  <1>3. CASE ServerPush(s)
    <2> DEFINE code == IF ~setup.writable THEN "pullonly"
                       ELSE IF r.from # Len(slog) THEN "conflict" ELSE r.op
    <2>1. /\ r.op \in {"push", "push_unlock"}
          /\ slog' = IF code = r.op THEN slog \o r.data ELSE slog
          /\ Replied(s, Answer(code, 0, <<>>))
      BY <1>0, <1>3, PushStep
    <2>2. a = Answer(code, 0, <<>>)
      BY <2>1, RepliedOnce
    <2>3. code = r.op
      BY <2>2 DEF Answer
    <2>4. r.from = Len(slog)
      BY <2>1, <2>3
    <2> QED
      BY <2>1, <2>3, <2>4
  <1>4. CASE ServerUnlock(s)
    BY <1>4, UnlockStep
  <1>5. CASE ServerDrop(s) \/ ServerRelock(s)
    BY <1>0, <1>5, DropStep
  <1>6. CASE LockTimeout(s)
    <2>1. r.op \in {"push", "push_unlock"} /\ Replied(s, Answer("timeout", 0, <<>>))
      BY <1>0, <1>6, TimeoutStep
    <2>2. a = Answer("timeout", 0, <<>>)
      BY <2>1, RepliedOnce
    <2> QED
      BY <2>1, <2>2 DEF Answer
  <1> QED
    BY <1>0, <1>1, <1>2, <1>3, <1>4, <1>5, <1>6

(***************************************************************************)
(* What the server has ever had, it has or has lost.  The data of a push   *)
(* that was answered is there before the client reads the answer.          *)
(***************************************************************************)
Kept(data) == Range(data) \subseteq Range(slog) \cup lost

PushAnswered(c) ==
    /\ Answered(c) /\ clients[c].call.op \in {"push", "push_unlock"}
    /\ AnswerTo(c).code = clients[c].call.op

AckInv ==
    /\ acked \subseteq Range(slog) \cup lost
    /\ \A c \in Clients : PushAnswered(c) => Kept(clients[c].call.data)

\* The elements of a sequence.
LEMMA RangeParts ==
    ASSUME NEW s \in Seq(Nat)
    PROVE  /\ \A t \in Seq(Nat) : Range(s \o t) = Range(s) \cup Range(t)
           /\ \A n \in 0..Len(s) : Range(s) = Range(Take(s, n)) \cup Range(From(s, n))
  <1> USE DEF Range
  <1>1. ASSUME NEW t \in Seq(Nat) PROVE Range(s \o t) = Range(s) \cup Range(t)
    <2> DEFINE u == s \o t
    <2>1. u \in Seq(Nat) /\ Len(u) = Len(s) + Len(t)
          /\ DOMAIN u = 1..Len(u) /\ DOMAIN s = 1..Len(s) /\ DOMAIN t = 1..Len(t)
      OBVIOUS
    <2>2. \A i \in 1..Len(u) : u[i] = IF i <= Len(s) THEN s[i] ELSE t[i - Len(s)]
      OBVIOUS
    <2>3. \A i \in 1..Len(s) : i \in 1..Len(u) /\ u[i] = s[i]
      BY <2>1, <2>2
    <2>4. \A i \in 1..Len(t) : Len(s) + i \in 1..Len(u) /\ u[Len(s) + i] = t[i]
      BY <2>1, <2>2
    <2>5. \A i \in 1..Len(u) : \/ i \in 1..Len(s) /\ u[i] = s[i]
                               \/ i - Len(s) \in 1..Len(t) /\ u[i] = t[i - Len(s)]
      BY <2>1, <2>2
    <2> HIDE DEF u
    <2>6. Range(u) \subseteq Range(s) \cup Range(t)
      BY <2>1, <2>5
    <2>7. Range(s) \subseteq Range(u) /\ Range(t) \subseteq Range(u)
      BY <2>1, <2>3, <2>4
    <2> QED
      BY <2>6, <2>7 DEF u
  <1>2. ASSUME NEW n \in 0..Len(s) PROVE Range(s) = Range(Take(s, n)) \cup Range(From(s, n))
    <2> DEFINE t == Take(s, n)
               u == From(s, n)
    <2>1. /\ t \in Seq(Nat) /\ Len(t) = n /\ \A i \in 1..n : t[i] = s[i]
          /\ u \in Seq(Nat) /\ Len(u) = Len(s) - n /\ \A i \in 1..Len(u) : u[i] = s[n + i]
      <3>1. n \in Nat /\ n <= Len(s)
        OBVIOUS
      <3> QED
        BY <3>1, TakeFrom
    <2>2. DOMAIN t = 1..n /\ DOMAIN u = 1..Len(s) - n /\ DOMAIN s = 1..Len(s)
      BY <2>1
    <2> HIDE DEF t, u
    <2>3. ASSUME NEW i \in 1..Len(s)
          PROVE  \/ i \in 1..n /\ s[i] = t[i]
                 \/ i - n \in 1..Len(s) - n /\ s[i] = u[i - n]
      <3>1. CASE i <= n
        BY <2>1, <3>1
      <3>2. CASE i > n
        <4>1. i - n \in 1..Len(s) - n /\ n + (i - n) = i
          BY <3>2
        <4>2. i - n \in 1..Len(u)
          BY <2>1, <4>1
        <4> QED
          BY <2>1, <4>1, <4>2
      <3> QED
        BY <3>1, <3>2
    <2>4. \A i \in 1..n : i \in 1..Len(s)
      OBVIOUS
    <2>5. ASSUME NEW i \in 1..Len(s) - n
          PROVE  n + i \in 1..Len(s) /\ u[i] = s[n + i]
      <3>1. n + i \in 1..Len(s)
        <4>1. Len(s) \in Nat
          OBVIOUS
        <4> QED
          BY <4>1
      <3>2. i \in 1..Len(u)
        BY <2>1
      <3> QED
        BY <2>1, <3>1, <3>2
    <2>6. Range(s) \subseteq Range(t) \cup Range(u)
      BY <2>2, <2>3
    <2>7. Range(t) \subseteq Range(s)
      BY <2>1, <2>2, <2>4
    <2>8. Range(u) \subseteq Range(s)
      BY <2>2, <2>5
    <2> QED
      BY <2>6, <2>7, <2>8 DEF t, u
  <1> QED
    BY <1>1, <1>2

\* The clients do not change the server.
LEMMA ClientsKeepServer ==
    ASSUME NEW c \in Clients, ClientStep(c)
    PROVE  slog' = slog /\ lost' = lost /\ holder' = holder
  <1>1. CASE CheckDone(c)
    BY <1>1 DEF CheckDone
  <1>2. CASE PullDone(c)
    BY <1>2 DEF PullDone
  <1>3. CASE PushDone(c)
    BY <1>3 DEF PushDone
  <1>4. CASE UnlockDone(c)
    BY <1>4 DEF UnlockDone
  <1>5. CASE Open(c)
    BY <1>5 DEF Open
  <1>6. CASE Close(c)
    BY <1>6 DEF Close, Gone
  <1>7. CASE Crash(c)
    BY <1>7 DEF Crash, Gone
  <1>8. CASE Break(c)
    BY <1>8 DEF Break, ChannelThrows
  <1>9. CASE Notice(c)
    BY <1>9 DEF Notice, ChannelThrows
  <1>10. CASE Reconnect(c)
    BY <1>10 DEF Reconnect, ChannelThrows
  <1>11. CASE Begin(c)
    BY <1>11 DEF Begin
  <1>12. CASE Commit(c)
    BY <1>12 DEF Commit
  <1>13. CASE Abort(c)
    BY <1>13 DEF Abort, Gone
  <1>14. CASE push_if_ahead(c)
    BY <1>14 DEF push_if_ahead
  <1>15. CASE AppendLocally(c)
    BY <1>15 DEF AppendLocally
  <1>16. CASE Send(c)
    BY <1>16 DEF Send
  <1>17. CASE KeepAlive(c)
    BY <1>17 DEF KeepAlive
  <1>18. CASE KeptAlive(c)
    BY <1>18 DEF KeptAlive
  <1> QED
    BY <1>1, <1>2, <1>3, <1>4, <1>5, <1>6, <1>7, <1>8, <1>9, <1>10, <1>11, <1>12, <1>13, <1>14, <1>15, <1>16, <1>17, <1>18 DEF ClientStep, Receive, Finish

\* Only a push that was answered is acknowledged.
LEMMA ClientsAck ==
    ASSUME NEW c \in Clients, ClientStep(c)
    PROVE  \/ acked' = acked
           \/ /\ Answered(c) /\ clients[c].call.op \in {"push", "push_unlock"}
              /\ AnswerTo(c).code = clients[c].call.op
              /\ acked' = acked \cup Range(clients[c].call.data)
  <1> USE DEF ClientStep, Open, Close, Crash, Gone, Break, Notice, ChannelThrows, Reconnect,
              Begin, Finish, Commit, Abort, push_if_ahead, AppendLocally, Send, KeepAlive,
              KeptAlive
  <1>1. CASE Receive(c)
    BY <1>1 DEF Receive, CheckDone, PullDone, PushDone, UnlockDone
  <1> QED
    BY <1>1

\* Nothing is acknowledged at first.
LEMMA AckInit == Init => AckInv
  BY DEF Init, AckInv, PushAnswered, Answered, NewClient

\* Nobody has an answer of a server that has just started.
LEMMA RestartSilent ==
    ASSUME BasicInv, Restart, NEW c \in Clients
    PROVE  ~Answered(c)'
  <1>0. clients' = clients /\ sessions' = [s \in Session |-> NoSession]
    BY RestartStep
  <1>1. CASE clients[c].up
    <2>1. sessions'[SessionOf(c)] = NoSession /\ SessionOf(c)' = SessionOf(c)
      BY <1>0, <1>1, UpSession DEF SessionOf
    <2> QED
      BY <2>1 DEF Answered, NoSession, NewSession
  <1> QED
    BY <1>0, <1>1 DEF Answered

\* A push is acknowledged after the server has written its data.
LEMMA AckNext == BasicInv /\ ChannelInv /\ AckInv /\ [Next]_vars => AckInv'
  <1> SUFFICES ASSUME BasicInv, ChannelInv, AckInv, [Next]_vars PROVE AckInv'
    OBVIOUS
  <1> DEFINE K == Range(slog) \cup lost
  <1>0. slog \in Seq(Nat)
    BY DEF BasicInv, TypeOK
  <1>1. CASE UNCHANGED vars
    BY <1>1 DEF vars, AckInv, PushAnswered, Answered, AnswerTo, SessionOf, Kept
  <1>2. ASSUME NEW s \in Session, ServerStep(s) \/ Timeout(s) PROVE AckInv'
    <2> DEFINE r == Head(sessions[s].requests)
    <2>1. Touched(s) /\ clients' = clients /\ acked' = acked /\ lost' = lost
      BY <1>2, ServerTouches
    <2>2. K \subseteq K'
      <3>1. CASE slog' = slog
        BY <2>1, <3>1
      <3>2. CASE sessions[s].requests # <<>> /\ slog' = slog \o r.data
        <4>1. r.data \in Seq(Nat)
          BY <3>2, ReceivesType DEF RequestT
        <4> QED
          BY <1>0, <2>1, <3>2, <4>1, RangeParts
      <3> QED
        BY <1>2, <3>1, <3>2, ServerTouches
    <2>3. ASSUME NEW c \in Clients, PushAnswered(c)' PROVE Kept(clients[c].call.data)'
      <3> DEFINE a == AnswerTo(c)'
      <3>1. /\ Answered(c)' /\ clients[c].call.op \in {"push", "push_unlock"}
            /\ a.code = clients[c].call.op
        BY <2>1, <2>3 DEF PushAnswered
      <3>2. CASE Answered(c) /\ a = AnswerTo(c)
        <4>1. PushAnswered(c)
          BY <3>1, <3>2 DEF PushAnswered
        <4> QED
          BY <2>1, <2>2, <4>1 DEF AckInv, Kept
      <3>3. CASE /\ s = SessionOf(c) /\ sessions[s].state = "open" /\ r = clients[c].call
                 /\ sessions[s].requests # <<>> /\ Replied(s, a)
        <4>4. slog' = slog \o r.data
          BY <1>2, <3>1, <3>3, AnswerSent
        <4>5. r.data \in Seq(Nat)
          BY <3>3, ReceivesType DEF RequestT
        <4>6. Range(r.data) \subseteq Range(slog')
          BY <1>0, <4>4, <4>5, RangeParts
        <4> QED
          BY <2>1, <3>3, <4>6 DEF Kept
      <3> QED
        BY <2>1, <3>1, <3>2, <3>3, AnsweredServer
    <2> QED
      BY <2>1, <2>2, <2>3 DEF AckInv
  <1>3. CASE Restart
    <2>1. PICK n \in 0..Len(slog) : slog' = Take(slog, n) /\ lost' = lost \cup Range(From(slog, n))
      BY <1>3, RestartStep
    <2>2. K' = K
      BY <1>0, <2>1, RangeParts
    <2>3. /\ clients' = clients /\ acked' = acked
          /\ sessions' = [s \in Session |-> NoSession]
      BY <1>3, RestartStep
    <2> QED
      BY <1>3, <2>2, <2>3, RestartSilent DEF AckInv, PushAnswered
  <1>4. ASSUME NEW c \in Clients, ClientStep(c) PROVE AckInv'
    <2>1. slog' = slog /\ lost' = lost
      BY <1>4, ClientsKeepServer
    <2>2. acked' \subseteq K
      BY <1>4, ClientsAck DEF AckInv, PushAnswered, Kept
    <2>3. ASSUME NEW d \in Clients, PushAnswered(d)' PROVE Kept(clients[d].call.data)'
      <3>0. Answered(d)'
        BY <2>3 DEF PushAnswered
      <3>1. CASE d = c
        <4>1. AppendLocally(c)
          BY <1>4, <3>0, <3>1, AnsweredClient
        <4>2. clients' = clients /\ sessions' = sessions
          BY <4>1, AppendLocallyStep
        <4>3. PushAnswered(d)
          BY <2>3, <4>2 DEF PushAnswered, Answered, AnswerTo, SessionOf
        <4> QED
          BY <2>1, <4>2, <4>3 DEF AckInv, Kept
      <3>2. CASE d # c
        <4>1. Answered(d) /\ AnswerTo(d)' = AnswerTo(d) /\ clients'[d] = clients[d]
          BY <1>4, <3>0, <3>2, AnsweredFrame, ClientFrame DEF Stepped
        <4>2. PushAnswered(d)
          BY <2>3, <4>1 DEF PushAnswered
        <4> QED
          BY <2>1, <4>1, <4>2 DEF AckInv, Kept
      <3> QED
        BY <3>1, <3>2
    <2> QED
      BY <2>1, <2>2, <2>3 DEF AckInv
  <1> QED
    BY <1>1, <1>2, <1>3, <1>4 DEF Next, ClientStep

\* What a push has acknowledged stays on the server, unless the server itself
\* loses it: a client takes a push for done only when its data is in the
\* journal of the server, also when it was retried after a broken channel.
THEOREM AcknowledgedStays == Spec => []AckedStays
  <1>1. Init => AckInv
    BY AckInit
  <1>2. BasicInv /\ ChannelInv /\ AckInv /\ [Next]_vars => AckInv'
    BY AckNext
  <1>3. AckInv => AckedStays
    BY DEF AckInv, AckedStays
  <1> QED
    BY <1>1, <1>2, <1>3, BasicInvariant, PTL DEF Spec

=============================================================================
