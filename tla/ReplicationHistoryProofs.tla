---------------------- MODULE ReplicationHistoryProofs ----------------------
(***************************************************************************)
(* Proofs about the history that the clients of Replication share: no      *)
(* transaction is pushed twice (Placed), a client and the server agree     *)
(* below its connection_checkpoint (HistoryInv), and a client that writes  *)
(* with the lock has the whole journal of the server (WriterInv).          *)
(***************************************************************************)
EXTENDS ReplicationProofs, SequenceTheorems

(***************************************************************************)
(* Every transaction has one position, in every journal, file, request and *)
(* answer that holds it.  A hole, which is no transaction, may be anywhere. *)
(***************************************************************************)
Placed(J, offset, pos) ==
    \A i \in 1..Len(J) : \/ J[i] = Hole
                         \/ J[i] \in 1..written /\ pos[J[i]] = offset + i

PlacedCall(r, pos) ==
    r.op \in {"push", "push_unlock"} => Placed(r.data, r.from, pos)

PullAnswered(c) ==
    /\ Answered(c) /\ clients[c].call.op \in {"pull", "lock_pull"}
    /\ AnswerTo(c).code = clients[c].call.op

PlacedAt(pos) ==
    /\ pos \in [Nat -> Nat]
    /\ Placed(slog, 0, pos)
    /\ \A f \in Files : Placed(files[f], 0, pos)
    /\ \A s \in Session : sessions[s].requests # <<>> =>
           PlacedCall(Head(sessions[s].requests), pos)
    /\ \A c \in Clients : PlacedCall(clients[c].call, pos)
    /\ \A c \in Clients : PullAnswered(c) =>
           Placed(AnswerTo(c).data, clients[c].call.from, pos)

PlaceInv == \E pos : PlacedAt(pos)

\* The fields of a request.
LEMMA RequestFields ==
    ASSUME NEW op, NEW from, NEW until, NEW data, NEW r, r = Request(op, from, until, data)
    PROVE  r.op = op /\ r.from = from /\ r.until = until /\ r.data = data
  BY DEF Request

\* The parts of a journal keep their places.
LEMMA PlacedParts ==
    ASSUME NEW J \in Seq(Nat), NEW pos, Placed(J, 0, pos)
    PROVE  /\ \A n \in 0..Len(J) : Placed(Take(J, n), 0, pos)
           /\ \A n \in Nat : Placed(From(J, n), n, pos)
           /\ \A m, n \in Nat : n <= Len(J) => Placed(SubSeq(J, m + 1, n), m, pos)
  <1>1. ASSUME NEW n \in 0..Len(J) PROVE Placed(Take(J, n), 0, pos)
    <2>1. n \in Nat /\ n <= Len(J)
      OBVIOUS
    <2>2. Len(Take(J, n)) = n /\ \A i \in 1..n : Take(J, n)[i] = J[i]
      BY <2>1, TakeFrom
    <2> QED
      BY <2>1, <2>2 DEF Placed
  <1>2. ASSUME NEW n \in Nat PROVE Placed(From(J, n), n, pos)
    <2> DEFINE K == From(J, n)
    <2>1. /\ Len(K) = IF n <= Len(J) THEN Len(J) - n ELSE 0
          /\ \A i \in 1..Len(K) : K[i] = J[n + i]
      BY TakeFrom
    <2> HIDE DEF K
    <2>2. \A i \in 1..Len(K) : n + i \in 1..Len(J) /\ 0 + (n + i) = n + i
      BY <2>1
    <2>3. Placed(K, n, pos)
      BY <2>1, <2>2 DEF Placed
    <2> QED
      BY <2>3 DEF K
  <1>3. ASSUME NEW m \in Nat, NEW n \in Nat, n <= Len(J)
        PROVE  Placed(SubSeq(J, m + 1, n), m, pos)
    <2> DEFINE K == SubSeq(J, m + 1, n)
    <2>1. /\ Len(K) = IF m <= n THEN n - m ELSE 0
          /\ \A i \in 1..Len(K) : K[i] = J[m + i]
      BY <1>3, RangeOf
    <2> HIDE DEF K
    <2>2. \A i \in 1..Len(K) : m + i \in 1..Len(J) /\ 0 + (m + i) = m + i
      BY <1>3, <2>1
    <2>3. Placed(K, m, pos)
      BY <2>1, <2>2 DEF Placed
    <2> QED
      BY <2>3 DEF K
  <1> QED
    BY <1>1, <1>2, <1>3

\* A journal and what continues it.
LEMMA PlacedConcat ==
    ASSUME NEW J \in Seq(Nat), NEW K \in Seq(Nat), NEW pos,
           Placed(J, 0, pos), Placed(K, Len(J), pos)
    PROVE  Placed(J \o K, 0, pos)
  <1>1. Len(J \o K) = Len(J) + Len(K)
    OBVIOUS
  <1>2. ASSUME NEW i \in 1..Len(J) + Len(K)
        PROVE  \/ (J \o K)[i] = Hole
               \/ (J \o K)[i] \in 1..written /\ pos[(J \o K)[i]] = 0 + i
    <2>1. CASE i <= Len(J)
      <3>1. (J \o K)[i] = J[i] /\ i \in 1..Len(J)
        BY <2>1
      <3> QED
        BY <3>1 DEF Placed
    <2>2. CASE i > Len(J)
      <3>1. (J \o K)[i] = K[i - Len(J)] /\ i - Len(J) \in 1..Len(K) /\ Len(J) + (i - Len(J)) = i
        BY <2>2
      <3> QED
        BY <3>1 DEF Placed
    <2> QED
      BY <2>1, <2>2
  <1> QED
    BY <1>1, <1>2 DEF Placed

\* No transaction has been written at first.
LEMMA PlaceInit == Init => PlaceInv
  <1> SUFFICES ASSUME Init PROVE PlaceInv
    OBVIOUS
  <1> DEFINE pos == [v \in Nat |-> 0]
  <1>1. pos \in [Nat -> Nat] /\ Len(<<>>) = 0
    OBVIOUS
  <1> HIDE DEF pos
  <1>2. PlacedAt(pos)
    <2>1. /\ slog = <<>> /\ \A f \in Files : files[f] = <<>>
          /\ \A s \in Session : sessions[s] = NoSession
          /\ \A c \in Clients : clients[c] = NewClient(0)
      BY DEF Init
    <2>2. \A s \in Session : sessions[s].requests = <<>>
      BY <2>1 DEF NoSession, NewSession
    <2>3. \A c \in Clients : clients[c].call.op = "none" /\ clients[c].up = FALSE
      BY <2>1 DEF NewClient, NoCall, Request
    <2>4. Placed(<<>>, 0, pos)
      BY DEF Placed
    <2>5. \A c \in Clients : ~PullAnswered(c) /\ PlacedCall(clients[c].call, pos)
      BY <2>3 DEF PlacedCall, PullAnswered, Answered
    <2> QED
      BY <1>1, <2>1, <2>2, <2>4, <2>5 DEF PlacedAt
  <1> QED
    BY <1>2 DEF PlaceInv

\* The files, the call and the request of a client after one of its steps.
LEMMA ClientData ==
    ASSUME BasicInv, NEW c \in Clients, ClientStep(c)
    PROVE  LET x == clients'[c]
               k == x.connection_checkpoint
               F == files'[home(c)]
               G == [files EXCEPT ![home(c)] = F]
           IN /\ \/ files' = files /\ written' = written
                 \/ files' = G /\ F \in {slog, <<>>} /\ written' = written
                 \/ /\ files' = G /\ PullAnswered(c) /\ written' = written
                    /\ clients[c].call.from = Len(File(c)) /\ AnswerTo(c) \in AnswerT
                    /\ \/ F = File(c) \o AnswerTo(c).data
                       \/ Punched(File(c), AnswerTo(c).checkpoint, F)
                 \/ files' = G /\ F = File(c) \o <<written + 1>> /\ written' = written + 1
              /\ \/ x.call = clients[c].call
                 \/ x.call.op \notin {"push", "push_unlock"}
                 \/ \E op \in {"push", "push_unlock"}, until \in Nat :
                       /\ until <= Len(F)
                       /\ x.call = Request(op, k, until, SubSeq(F, k + 1, until))
              /\ \A s \in Session : sessions'[s].requests # <<>> =>
                    \/ sessions'[s].requests = sessions[s].requests
                    \/ Head(sessions'[s].requests) \in {clients[c].call, Ping}
  <1> DEFINE r == clients[c]
             x == clients'[c]
             s == SessionOf(c)
             k == x.connection_checkpoint
             F == files'[home(c)]
             G == [files EXCEPT ![home(c)] = F]
             Calls == \/ x.call = r.call
                      \/ x.call.op \notin {"push", "push_unlock"}
                      \/ \E op \in {"push", "push_unlock"}, until \in Nat :
                            /\ until <= Len(F)
                            /\ x.call = Request(op, k, until, SubSeq(F, k + 1, until))
             Requests == \A t \in Session : sessions'[t].requests # <<>> =>
                            \/ sessions'[t].requests = sessions[t].requests
                            \/ Head(sessions'[t].requests) \in {r.call, Ping}
  <1>0. NoCall.op = "none"
    BY DEF NoCall, Request
  <1>a. ASSUME NEW t \in Session, NEW q, sessions' = [sessions EXCEPT ![t] = q],
               q.requests \in {<<>>, sessions[t].requests, <<r.call>>, <<Ping>>}
        PROVE  Requests
    <2>1. /\ sessions'[t] = q
          /\ \A u \in Session : u # t => sessions'[u] = sessions[u]
      BY <1>a DEF BasicInv, TypeOK
    <2>2. Head(<<r.call>>) = r.call /\ Head(<<Ping>>) = Ping
      OBVIOUS
    <2> QED
      BY <1>a, <2>1, <2>2
  <1>b. sessions' = sessions => Requests
    OBVIOUS
  <1>c. NewSession.requests = <<>>
    BY DEF NewSession
  <1>d. files \in [Files -> Seq(Nat)] /\ home(c) \in Files
    BY ClientFacts DEF BasicInv, TypeOK
  <1>e. ASSUME NEW H, files' = [files EXCEPT ![home(c)] = H] PROVE F = H /\ files' = G
    BY <1>d, <1>e
  <1> HIDE DEF Requests
  <1>1. CASE Open(c)
    <2>1. /\ files' = (IF kind(c) = "server_file"
                       THEN [files EXCEPT ![home(c)] = slog] ELSE files)
          /\ <<c, r.link + 1>> \in Session
          /\ sessions' = [sessions EXCEPT ![<<c, r.link + 1>>] = NewSession]
          /\ k = Len(slog)
      BY <1>1, OpenStep
    <2>2. Requests
      BY <1>a, <1>c, <2>1
    <2>3. kind(c) # "follower" => x.call = NoCall
      BY <1>1, OpenStep
    <2>4. kind(c) = "follower" =>
             x.call = Request("push", Len(slog), Min2(Len(slog), Len(F)),
                              SubSeq(F, Len(slog) + 1, Min2(Len(slog), Len(F))))
      BY <1>1, OpenStep
    <2>a. TypeOK'
      BY <1>1, OpenStep DEF Stepped
    <2>5. F \in Seq(Nat) /\ Len(slog) \in Nat
      BY <1>d, <2>a, ClientFacts DEF TypeOK
    <2>6. Min2(Len(slog), Len(F)) \in Nat /\ Min2(Len(slog), Len(F)) <= Len(F)
      BY <2>5 DEF Min2
    <2>7. Calls
      BY <1>0, <2>1, <2>3, <2>4, <2>6
    <2>8. written' = written
      BY <1>1 DEF Open
    <2> HIDE DEF Calls
    <2> QED
      BY <1>e, <2>1, <2>2, <2>7, <2>8 DEF Requests, Calls
  <1>2. CASE Close(c) \/ Crash(c)
    <2>1. r.pc # "down" /\ Gone(c) /\ faults' \in Nat
      BY <1>2 DEF Close, Crash, BasicInv, TypeOK
    <2>2. x = NewClient(r.link) /\ s \in Session
      BY <2>1, GoneStep
    <2>3. PICK q : sessions' = [sessions EXCEPT ![s] = q] /\ q.requests \in {<<>>, sessions[s].requests}
      BY <2>1, GoneStep
    <2>4. x.call.op = "none"
      BY <1>0, <2>2 DEF NewClient
    <2>5. Requests
      BY <1>a, <2>2, <2>3
    <2>6. files' = (IF kind(c) = "server_file"
                    THEN [files EXCEPT ![home(c)] = <<>>] ELSE files)
      BY <2>1, GoneStep
    <2>7. written' = written
      BY <2>1 DEF Gone
    <2> QED
      BY <1>e, <2>4, <2>5, <2>6, <2>7 DEF Requests
  <1>3. CASE Break(c) \/ Notice(c)
    <2>1. r.up /\ ChannelThrows(c) /\ faults' \in Nat
      BY <1>3 DEF Break, Notice, BasicInv, TypeOK
    <2>2. s \in Session /\ files' = files /\ (x.call = r.call \/ x.call = NoCall)
      BY <2>1, ThrowsStep
    <2>3. PICK q : sessions' = [sessions EXCEPT ![s] = q] /\ q.requests \in {<<>>, sessions[s].requests}
      BY <2>1, ThrowsStep
    <2>4. Requests
      BY <1>a, <2>2, <2>3
    <2>5. written' = written
      BY <2>1 DEF ChannelThrows
    <2> QED
      BY <1>0, <2>2, <2>4, <2>5 DEF Requests
  <1>4. CASE Reconnect(c)
    <2>1. /\ files' = files /\ <<c, r.link + 1>> \in Session
          /\ sessions' = [sessions EXCEPT ![<<c, r.link + 1>>] = NewSession]
          /\ x.call = r.call \/ x.call = NoCall
      BY <1>4, ReconnectStep
    <2>2. Requests
      BY <1>a, <1>c, <2>1
    <2>3. written' = written
      BY <1>4 DEF Reconnect
    <2> QED
      BY <1>0, <2>1, <2>2, <2>3 DEF Requests
  <1>5. CASE Begin(c)
    <2>1. files' = files /\ sessions' = sessions /\ x.call.op \in {"check", "pull", "lock_pull"}
      BY <1>5, BeginStep
    <2>2. written' = written
      BY <1>5 DEF Begin
    <2> QED
      BY <1>b, <2>1, <2>2 DEF Requests
  <1>6. CASE Commit(c)
    <2>1. /\ sessions' = sessions /\ written' = written + 1
          /\ files' = [files EXCEPT ![home(c)] = File(c) \o <<written + 1>>]
          /\ Len(F) = Len(File(c)) + 1 /\ k = r.connection_checkpoint
          /\ x.call = Request("push_unlock", r.connection_checkpoint, Len(File(c)) + 1,
                              SubSeq(F, r.connection_checkpoint + 1, Len(File(c)) + 1))
      BY <1>6, CommitStep
    <2>2. Len(File(c)) + 1 \in Nat
      BY ClientFacts
    <2>3. Calls
      BY <2>1, <2>2
    <2> HIDE DEF Calls
    <2> QED
      BY <1>b, <1>e, <2>1, <2>3 DEF Requests, Calls
  <1>7. CASE Abort(c)
    <2>1. files' = files /\ sessions' = sessions /\ (x.call = NoCall \/ x.call.op = "unlock")
      BY <1>7, AbortStep
    <2>2. written' = written
      BY <1>7 DEF Abort
    <2> QED
      BY <1>0, <1>b, <2>1, <2>2 DEF Requests
  <1>8. CASE push_if_ahead(c)
    <2>1. /\ files' = files /\ sessions' = sessions /\ k = r.connection_checkpoint
          /\ \E until \in Nat, op \in {"push", "push_unlock"} :
                /\ k < until /\ until <= x.checkpoint
                /\ x.call = Request(op, k, until, SubSeq(File(c), k + 1, until))
      BY <1>8, PushIfAheadStep
    <2>2. F = File(c)
      BY <2>1 DEF File
    <2>a. x.checkpoint = Len(File(c)) \/ x.checkpoint = r.checkpoint
      BY <1>8, PushIfAheadStep
    <2>3. x.checkpoint <= Len(F) /\ x.checkpoint \in Nat /\ Len(F) \in Nat
      BY <2>2, <2>a, ClientFacts DEF LocalOK
    <2>4. Calls
      BY <2>1, <2>2, <2>3
    <2>5. written' = written
      BY <1>8 DEF push_if_ahead
    <2> HIDE DEF Calls
    <2> QED
      BY <1>b, <2>1, <2>4, <2>5 DEF Requests, Calls
  <1>9. CASE AppendLocally(c)
    <2>1. /\ sessions' = sessions /\ written' = written + 1 /\ clients' = clients
          /\ files' = [files EXCEPT ![home(c)] = File(c) \o <<written + 1>>]
      BY <1>9, AppendLocallyStep
    <2> QED
      BY <1>b, <1>e, <2>1 DEF Requests
  <1>10. CASE Send(c)
    <2> DEFINE q == [state |-> "open", requests |-> <<r.call>>, answers |-> <<>>]
    <2>1. s \in Session /\ sessions' = [sessions EXCEPT ![s] = q]
      BY <1>10, SendStep
    <2>2. Requests
      BY <1>a, <2>1
    <2>3. x = [r EXCEPT !.sent = TRUE] /\ files' = files /\ written' = written
      BY <1>10, PutOthers DEF Send
    <2>4. x.call = r.call
      BY <2>3, ClientFacts DEF ClientT
    <2> QED
      BY <2>2, <2>3, <2>4 DEF Requests
  <1>11. CASE Receive(c)
    <2> DEFINE q == [state |-> "open", requests |-> <<>>, answers |-> <<>>]
    <2>1. ASSUME s \in Session, sessions' = [sessions EXCEPT ![s] = q] PROVE Requests
      BY <1>a, <2>1
    <2>2. written' = written
      BY <1>11 DEF Receive, CheckDone, PullDone, PushDone, UnlockDone
    <2> HIDE DEF q
    <2>3. CASE CheckDone(c)
      <3>1. s \in Session /\ sessions' = [sessions EXCEPT ![s] = q] /\ files' = files
        BY <2>3, CheckDoneStep DEF q
      <3>2. x.call.op \in {"pull", "lock_pull"} \/ x.call = NoCall
        BY <2>3, CheckDoneStep
      <3> QED
        BY <1>0, <2>1, <2>2, <3>1, <3>2 DEF Requests
    <2>4. CASE PullDone(c)
      <3>1. s \in Session /\ sessions' = [sessions EXCEPT ![s] = q] /\ x.call = NoCall
        BY <2>4, PullDoneStep DEF q
      <3>2. /\ Answered(c) /\ r.call.op \in {"pull", "lock_pull"} /\ AnswerTo(c) \in AnswerT
            /\ r.call.from = Len(File(c))
            /\ \/ /\ AnswerTo(c).code = r.call.op
                  /\ files' = G
                  /\ \/ F = File(c) \o AnswerTo(c).data
                     \/ Punched(File(c), AnswerTo(c).checkpoint, F)
               \/ files' = files
        BY <2>4, PullDoneStep
      <3>3. \/ files' = files
            \/ /\ files' = G /\ PullAnswered(c)
               /\ \/ F = File(c) \o AnswerTo(c).data
                  \/ Punched(File(c), AnswerTo(c).checkpoint, F)
        BY <3>2 DEF PullAnswered
      <3> QED
        BY <1>0, <2>1, <2>2, <3>1, <3>2, <3>3 DEF Requests
    <2>5. CASE PushDone(c)
      <3>1. s \in Session /\ files' = files /\ (x.call = r.call \/ x.call = NoCall)
        BY <2>5, PushDoneStep
      <3>2. \E p : sessions' = [sessions EXCEPT ![s] = p] /\ p.requests = <<>>
        <4>1. \/ \E p : sessions' = [sessions EXCEPT ![s] = p] /\ p.requests = <<>>
              \/ sessions' = [sessions EXCEPT ![s] = q]
          BY <2>5, PushDoneStep DEF q
        <4>2. q.requests = <<>>
          BY DEF q
        <4> QED
          BY <4>1, <4>2
      <3>3. Requests
        BY <1>a, <3>1, <3>2
      <3> QED
        BY <1>0, <2>2, <3>1, <3>3 DEF Requests
    <2>6. CASE UnlockDone(c)
      <3>1. /\ s \in Session /\ sessions' = [sessions EXCEPT ![s] = q] /\ files' = files
            /\ x.call = NoCall
        BY <2>6, UnlockDoneStep DEF q
      <3> QED
        BY <1>0, <2>1, <2>2, <3>1 DEF Requests
    <2> QED
      BY <1>11, <2>3, <2>4, <2>5, <2>6 DEF Receive
  <1>12. CASE KeepAlive(c)
    <2> DEFINE q == [state |-> "open", requests |-> <<Ping>>, answers |-> <<>>]
    <2>1. s \in Session /\ sessions' = [sessions EXCEPT ![s] = q]
      BY <1>12, KeepAliveStep
    <2>2. Requests
      BY <1>a, <2>1
    <2>3. clients' = clients /\ files' = files /\ written' = written
      BY <1>12 DEF KeepAlive
    <2> QED
      BY <2>2, <2>3 DEF Requests
  <1>13. CASE KeptAlive(c)
    <2> DEFINE q == [state |-> "open", requests |-> <<>>, answers |-> <<>>]
    <2>1. s \in Session /\ sessions' = [sessions EXCEPT ![s] = q]
      BY <1>13, KeptAliveStep
    <2>2. Requests
      BY <1>a, <2>1
    <2>3. clients' = clients /\ files' = files /\ written' = written
      BY <1>13 DEF KeptAlive
    <2> QED
      BY <2>2, <2>3 DEF Requests
  <1> QED
    BY <1>1, <1>2, <1>3, <1>4, <1>5, <1>6, <1>7, <1>8, <1>9, <1>10, <1>11,
       <1>12, <1>13 DEF ClientStep, Finish

\* The server writes a push at its checkpoint, where its data starts.
LEMMA PlaceServer ==
    ASSUME BasicInv, ChannelInv, PlaceInv, NEW s \in Session, ServerStep(s) \/ Timeout(s)
    PROVE  PlaceInv'
  <1> PICK pos : PlacedAt(pos)
    BY DEF PlaceInv
  <1> DEFINE r == Head(sessions[s].requests)
  <1>0. slog \in Seq(Nat) /\ written \in Nat
    BY DEF BasicInv, TypeOK
  <1>1. Touched(s) /\ UNCHANGED <<files, clients, written>>
    BY ServerTouches
  <1>2. sessions[s].requests # <<>> => r \in RequestT /\ r.data \in Seq(Nat) /\ r.from \in Nat
    BY ReceivesType DEF RequestT
  <1>3. \A J, offset : Placed(J, offset, pos)' <=> \A i \in 1..Len(J) :
            J[i] = Hole \/ (J[i] \in 1..written /\ pos[J[i]] = offset + i)
    BY <1>1 DEF Placed
  <1>4. Placed(slog, 0, pos)'
    <2>1. CASE slog' = slog
      BY <1>1, <2>1 DEF PlacedAt, Placed
    <2>2. CASE /\ r.op \in {"push", "push_unlock"} /\ sessions[s].requests # <<>>
               /\ r.from = Len(slog) /\ slog' = slog \o r.data
      <3>1. Placed(slog, 0, pos) /\ Placed(r.data, Len(slog), pos)
        BY <2>2 DEF PlacedAt, PlacedCall
      <3>2. Placed(slog \o r.data, 0, pos)
        BY <1>0, <1>2, <2>2, <3>1, PlacedConcat
      <3> QED
        BY <1>1, <2>2, <3>2 DEF Placed
    <2> QED
      BY <2>1, <2>2, ServerTouches
  <1>5. \A f \in Files : Placed(files[f], 0, pos)'
    BY <1>1 DEF PlacedAt, Placed
  <1>6. ASSUME NEW t \in Session, sessions'[t].requests # <<>>
        PROVE  PlacedCall(Head(sessions[t].requests), pos)'
    <2>1. sessions'[t].requests = sessions[t].requests
      <3> USE DEF BasicInv, TypeOK
      <3>1. CASE sessions' = sessions
        BY <3>1
      <3>2. CASE sessions' = [sessions EXCEPT ![s] = NoSession]
        BY <1>6, <3>2 DEF NoSession, NewSession
      <3>3. ASSUME NEW a, Replied(s, a) PROVE sessions'[t].requests = sessions[t].requests
        BY <1>6, <3>3 DEF Replied
      <3> QED
        BY <1>1, <3>1, <3>2, <3>3 DEF Touched
    <2> QED
      BY <1>1, <1>6, <2>1 DEF PlacedAt, PlacedCall, Placed
  <1>7. \A c \in Clients : PlacedCall(clients[c].call, pos)'
    BY <1>1 DEF PlacedAt, PlacedCall, Placed
  <1>8. ASSUME NEW c \in Clients, PullAnswered(c)'
        PROVE  Placed(AnswerTo(c).data, clients[c].call.from, pos)'
    <2> DEFINE a == AnswerTo(c)'
    <2>1. /\ Answered(c)' /\ clients[c].call.op \in {"pull", "lock_pull"}
          /\ a.code = clients[c].call.op
      BY <1>1, <1>8 DEF PullAnswered
    <2>2. CASE Answered(c) /\ a = AnswerTo(c)
      <3>1. PullAnswered(c)
        BY <2>1, <2>2 DEF PullAnswered
      <3> QED
        BY <1>1, <2>2, <3>1 DEF PlacedAt, Placed
    <2>3. CASE /\ s = SessionOf(c) /\ sessions[s].state = "open" /\ r = clients[c].call
               /\ sessions[s].requests # <<>> /\ Replied(s, a)
      <3>1. a.data = From(slog, r.from)
        BY <2>1, <2>3, AnswerSent
      <3>2. Placed(From(slog, r.from), r.from, pos)
        BY <1>0, <1>2, <2>3, PlacedParts DEF PlacedAt
      <3> QED
        BY <1>1, <2>3, <3>1, <3>2 DEF Placed
    <2> QED
      BY <1>1, <2>1, <2>2, <2>3, AnsweredServer
  <1>9. PlacedAt(pos)'
    BY <1>4, <1>5, <1>6, <1>7, <1>8 DEF PlacedAt
  <1> QED
    BY <1>9 DEF PlaceInv

\* A restart keeps a prefix of the journal of the server.
LEMMA PlaceRestart ==
    ASSUME BasicInv, PlaceInv, Restart
    PROVE  PlaceInv'
  <1> PICK pos : PlacedAt(pos)
    BY DEF PlaceInv
  <1>1. PICK n \in 0..Len(slog) : slog' = Take(slog, n)
    BY RestartStep
  <1>2. /\ sessions' = [s \in Session |-> NoSession]
        /\ UNCHANGED <<files, clients, written>>
    BY RestartStep
  <1>3. slog \in Seq(Nat)
    BY DEF BasicInv, TypeOK
  <1>4. Placed(slog, 0, pos)'
    <2>1. Placed(Take(slog, n), 0, pos)
      BY <1>3, PlacedParts DEF PlacedAt
    <2> QED
      BY <1>1, <1>2, <2>1 DEF Placed
  <1>5. \A s \in Session : sessions'[s].requests = <<>>
    BY <1>2 DEF NoSession, NewSession
  <1>6. ASSUME NEW c \in Clients PROVE ~PullAnswered(c)'
    BY <1>6, RestartSilent DEF PullAnswered
  <1>7. \A f \in Files : Placed(files[f], 0, pos)'
    BY <1>2 DEF PlacedAt, Placed
  <1>8. \A c \in Clients : PlacedCall(clients[c].call, pos)'
    BY <1>2 DEF PlacedAt, PlacedCall, Placed
  <1>9. PlacedAt(pos)'
    BY <1>4, <1>5, <1>6, <1>7, <1>8 DEF PlacedAt
  <1> QED
    BY <1>9 DEF PlaceInv

\* A client gives a new transaction the next position of its file, or
\* downloads a range of the journal to where it starts.
LEMMA PlaceClient ==
    ASSUME BasicInv, ChannelInv, PlaceInv, NEW c \in Clients, ClientStep(c)
    PROVE  PlaceInv'
  <1> PICK pos : PlacedAt(pos)
    BY DEF PlaceInv
  <1> DEFINE r == clients[c]
             x == clients'[c]
             k == x.connection_checkpoint
             F == files'[home(c)]
  <1>0. /\ slog \in Seq(Nat) /\ written \in Nat /\ files \in [Files -> Seq(Nat)]
        /\ File(c) \in Seq(Nat) /\ home(c) \in Files /\ pos \in [Nat -> Nat]
        /\ files' \in [Files -> Seq(Nat)] /\ F \in Seq(Nat) /\ slog' = slog
        /\ x.connection_checkpoint \in Nat
    <2>1. TypeOK'
      BY ClientFrame DEF Stepped
    <2> QED
      BY <2>1, ClientFacts, ClientsKeepServer DEF BasicInv, TypeOK, PlacedAt, ClientT
  <1>w. written \in Nat
    BY <1>0
  <1>1. PICK pos1 : /\ pos1 \in [Nat -> Nat]
                    /\ \A v \in 1..written : pos1[v] = pos[v]
                    /\ pos1[written + 1] = Len(File(c)) + 1
    <2> DEFINE p == [pos EXCEPT ![written + 1] = Len(File(c)) + 1]
    <2>0. /\ written \in Nat /\ written + 1 \in Nat /\ Len(File(c)) + 1 \in Nat
          /\ pos \in [Nat -> Nat]
      <3>1. Len(File(c)) \in Nat
        BY ClientFacts
      <3>2. pos \in [Nat -> Nat]
        BY <1>0
      <3> QED
        BY ONLY <1>w, <3>1, <3>2
    <2>1. p \in [Nat -> Nat] /\ p[written + 1] = Len(File(c)) + 1
      BY <2>0
    <2>2. \A v \in 1..written : p[v] = pos[v]
      BY <2>0
    <2> HIDE DEF p
    <2> QED
      BY <2>1, <2>2
  <1>2. written' = written \/ written' = written + 1
    BY ClientData
  <1> DEFINE Later(J, offset) == \A i \in 1..Len(J) :
                                    \/ J[i] = Hole
                                    \/ J[i] \in 1..written' /\ pos1[J[i]] = offset + i
  <1>3. ASSUME NEW J, NEW offset, Placed(J, offset, pos) PROVE Later(J, offset)
    <2>1. written' \in Nat /\ written <= written'
      BY <1>w, <1>2
    <2>2. 1..written \subseteq 1..written'
      BY <1>w, <2>1
    <2>3. ASSUME NEW i \in 1..Len(J)
          PROVE  J[i] = Hole \/ (J[i] \in 1..written' /\ pos1[J[i]] = offset + i)
      <3>1. J[i] = Hole \/ (J[i] \in 1..written /\ pos[J[i]] = offset + i)
        BY <1>3, <2>3, Zenon DEF Placed
      <3> QED
        BY <1>1, <2>2, <3>1, Zenon
    <2> QED
      BY <2>3, Zenon
  <1>4. Later(F, 0) /\ \A f \in Files : f # home(c) => files'[f] = files[f]
    <2>1. CASE files' = files
      BY <1>0, <1>3, <2>1 DEF PlacedAt
    <2>2. CASE files' = [files EXCEPT ![home(c)] = F]
      <3>1. \A f \in Files : f # home(c) => files'[f] = files[f]
        BY <1>0, <2>2
      <3>2. CASE F = slog
        BY <1>3, <3>1, <3>2 DEF PlacedAt
      <3>3. CASE F = <<>>
        BY <3>1, <3>3
      <3>4. CASE /\ PullAnswered(c) /\ r.call.from = Len(File(c)) /\ AnswerTo(c) \in AnswerT
                 /\ \/ F = File(c) \o AnswerTo(c).data
                    \/ Punched(File(c), AnswerTo(c).checkpoint, F)
        <4>1. Placed(File(c), 0, pos) /\ Placed(AnswerTo(c).data, Len(File(c)), pos)
          BY <1>0, <3>4 DEF PlacedAt, File
        <4>2. AnswerTo(c).data \in Seq(Nat)
          BY <3>4 DEF AnswerT
        <4>3. Placed(F, 0, pos)
          <5>1. CASE F = File(c) \o AnswerTo(c).data
            BY <1>0, <4>1, <4>2, <5>1, PlacedConcat
          <5>2. CASE Punched(File(c), AnswerTo(c).checkpoint, F)
            <6>1. /\ Len(F) = Len(File(c))
                  /\ \A i \in 1..Len(F) : F[i] = Hole \/ F[i] = File(c)[i]
              BY <5>2 DEF Punched
            <6> HIDE DEF F
            <6> QED
              BY <4>1, <6>1 DEF Placed
          <5> QED
            BY <3>4, <5>1, <5>2
        <4> QED
          BY <1>3, <3>1, <4>3
      <3>5. CASE F = File(c) \o <<written + 1>> /\ written' = written + 1
        <4>1. Later(File(c), 0)
          BY <1>0, <1>3 DEF PlacedAt, File
        <4>2. /\ Len(F) = Len(File(c)) + 1 /\ F[Len(File(c)) + 1] = written + 1
              /\ \A i \in 1..Len(File(c)) : F[i] = File(c)[i]
          BY <1>0, <3>5
        <4>3. ASSUME NEW i \in 1..Len(F)
              PROVE  F[i] = Hole \/ (F[i] \in 1..written' /\ pos1[F[i]] = 0 + i)
          <5>1. CASE i = Len(File(c)) + 1
            <6>1. F[i] = written + 1 /\ written + 1 \in 1..written'
              BY <1>0, <3>5, <4>2, <5>1
            <6> QED
              BY <1>0, <1>1, <5>1, <6>1
          <5>2. CASE i # Len(File(c)) + 1
            <6>1. i \in 1..Len(File(c))
              BY <1>0, <4>2, <5>2
            <6> QED
              BY <4>1, <4>2, <6>1
          <5> QED
            BY <5>1, <5>2
        <4> QED
          BY <3>1, <4>3
      <3> QED
        BY <2>1, <2>2, <3>2, <3>3, <3>4, <3>5, ClientData
    <2> QED
      BY <2>1, <2>2, ClientData
  <1>5. ASSUME NEW J, NEW offset, Later(J, offset) PROVE Placed(J, offset, pos1)'
    BY <1>5 DEF Placed
  <1>6. Placed(slog, 0, pos1)'
    <2>1. Later(slog', 0)
      BY <1>0, <1>3 DEF PlacedAt
    <2> QED
      BY <2>1 DEF Placed
  <1>7. ASSUME NEW f \in Files PROVE Placed(files[f], 0, pos1)'
    <2>1. Later(files'[f], 0)
      <3>1. CASE f = home(c)
        BY <1>4, <3>1
      <3>2. CASE f # home(c)
        <4>1. files'[f] = files[f] /\ Placed(files[f], 0, pos)
          BY <1>4, <3>2 DEF PlacedAt
        <4> HIDE DEF Later
        <4> QED
          BY <1>3, <4>1
      <3> QED
        BY <3>1, <3>2, Zenon
    <2> QED
      BY <2>1 DEF Placed
  <1>8. ASSUME NEW q, PlacedCall(q, pos) PROVE q.op \in {"push", "push_unlock"} => Later(q.data, q.from)
    BY <1>3, <1>8 DEF PlacedCall
  <1>b. ASSUME NEW d \in Clients, clients'[d].call = clients[d].call
        PROVE  PlacedCall(clients[d].call, pos1)'
    <2>1. clients[d].call.op \in {"push", "push_unlock"} =>
             Later(clients[d].call.data, clients[d].call.from)
      BY <1>8 DEF PlacedAt
    <2> QED
      BY <1>b, <2>1 DEF PlacedCall, Placed
  <1>9. ASSUME NEW d \in Clients PROVE PlacedCall(clients[d].call, pos1)'
    <2>1. CASE d # c
      <3>1. clients'[d] = clients[d]
        BY <2>1, ClientFrame DEF Stepped, Frame, OtherClients
      <3> QED
        BY <1>b, <3>1
    <2>2. CASE d = c /\ x.call = r.call
      BY <1>b, <2>2
    <2>3. CASE d = c /\ x.call.op \notin {"push", "push_unlock"}
      BY <2>3 DEF PlacedCall
    <2>4. ASSUME d = c, NEW op, NEW until \in Nat, until <= Len(F),
                 x.call = Request(op, k, until, SubSeq(F, k + 1, until))
          PROVE  PlacedCall(clients[d].call, pos1)'
      <3> DEFINE K == SubSeq(F, k + 1, until)
      <3>0. x.call = Request(op, k, until, K) /\ k \in Nat /\ Len(F) \in Nat
        BY <1>0, <2>4
      <3>2. /\ Len(K) = IF k <= until THEN until - k ELSE 0
            /\ \A i \in 1..Len(K) : K[i] = F[k + i]
        <4>1. F \in Seq(Nat) /\ k \in Nat /\ until \in Nat /\ until <= Len(F)
          BY <1>0, <2>4, <3>0
        <4> HIDE DEF F, k
        <4> QED
          BY ONLY <4>1, RangeOf
      <3> HIDE DEF K, k
      <3>1. x.call.data = K /\ x.call.from = k
        BY <3>0, RequestFields
      <3>3. \A i \in 1..Len(K) : k + i \in 1..Len(F) /\ 0 + (k + i) = k + i
        BY <2>4, <3>0, <3>2
      <3>4. Later(K, k)
        BY <1>4, <3>2, <3>3
      <3> QED
        BY <2>4, <3>1, <3>4 DEF PlacedCall, Placed
    <2> QED
      BY <2>1, <2>2, <2>3, <2>4, ClientData
  <1>10. ASSUME NEW t \in Session, sessions'[t].requests # <<>>
         PROVE  PlacedCall(Head(sessions[t].requests), pos1)'
    <2>1. CASE sessions'[t].requests = sessions[t].requests
      <3> DEFINE q == Head(sessions[t].requests)
      <3>1. PlacedCall(q, pos) /\ q' = q
        BY <1>10, <2>1 DEF PlacedAt
      <3>2. q.op \in {"push", "push_unlock"} => Later(q.data, q.from)
        BY <1>8, <3>1
      <3> HIDE DEF q
      <3>3. PlacedCall(q, pos1)'
        BY <3>1, <3>2 DEF PlacedCall, Placed
      <3> QED
        BY <3>3 DEF q
    <2>2. CASE Head(sessions'[t].requests) = r.call
      <3>1. r.call.op \in {"push", "push_unlock"} => Later(r.call.data, r.call.from)
        BY <1>8 DEF PlacedAt
      <3> QED
        BY <2>2, <3>1 DEF PlacedCall, Placed
    <2>3. CASE Head(sessions'[t].requests) = Ping
      BY <2>3 DEF PlacedCall, Ping, Request
    <2> QED
      BY <1>10, <2>1, <2>2, <2>3, ClientData
  <1>11. ASSUME NEW d \in Clients, PullAnswered(d)'
         PROVE  Placed(AnswerTo(d).data, clients[d].call.from, pos1)'
    <2>0. Answered(d)'
      BY <1>11 DEF PullAnswered
    <2>1. /\ Answered(d) /\ AnswerTo(d)' = AnswerTo(d) /\ clients'[d] = clients[d]
      <3>1. CASE d # c
        BY <2>0, <3>1, AnsweredFrame, ClientFrame DEF Stepped
      <3>2. CASE d = c
        <4>1. clients' = clients /\ sessions' = sessions
          BY <2>0, <3>2, AnsweredClient, AppendLocallyStep
        <4> QED
          BY <2>0, <4>1 DEF Answered, AnswerTo, SessionOf
      <3> QED
        BY <3>1, <3>2
    <2>2. PullAnswered(d)
      BY <1>11, <2>1 DEF PullAnswered
    <2>3. Later(AnswerTo(d).data, clients[d].call.from)
      BY <1>3, <2>2 DEF PlacedAt
    <2> QED
      BY <2>1, <2>3 DEF Placed
  <1>12. PlacedAt(pos1)'
    BY <1>1, <1>6, <1>7, <1>9, <1>10, <1>11 DEF PlacedAt
  <1> QED
    BY <1>12 DEF PlaceInv

\* Every step keeps the places.
LEMMA PlaceNext == BasicInv /\ ChannelInv /\ PlaceInv /\ [Next]_vars => PlaceInv'
  <1> SUFFICES ASSUME BasicInv, ChannelInv, PlaceInv, [Next]_vars PROVE PlaceInv'
    OBVIOUS
  <1>1. CASE UNCHANGED vars
    <2> USE DEF PlacedCall, Placed, PullAnswered, Answered, AnswerTo, SessionOf
    <2>1. PICK pos : PlacedAt(pos)
      BY DEF PlaceInv
    <2>2. UNCHANGED <<slog, files, sessions, clients, written>>
      BY <1>1 DEF vars
    <2>3. /\ pos \in [Nat -> Nat]
          /\ Placed(slog, 0, pos)'
          /\ \A f \in Files : Placed(files[f], 0, pos)'
      BY <2>1, <2>2 DEF PlacedAt
    <2>4. /\ \A s \in Session : sessions'[s].requests # <<>> =>
                PlacedCall(Head(sessions[s].requests), pos)'
          /\ \A c \in Clients : PlacedCall(clients[c].call, pos)'
      BY <2>1, <2>2 DEF PlacedAt
    <2>5. \A c \in Clients : PullAnswered(c)' =>
                Placed(AnswerTo(c).data, clients[c].call.from, pos)'
      BY <2>1, <2>2 DEF PlacedAt
    <2>6. PlacedAt(pos)'
      BY <2>3, <2>4, <2>5 DEF PlacedAt
    <2> QED
      BY <2>6 DEF PlaceInv
  <1> QED
    BY <1>1, PlaceServer, PlaceRestart, PlaceClient DEF Next, ClientStep

\* A push that is retried does not write a transaction twice: whatever is
\* lost, retried or restarted, the journal of the server has every
\* transaction at the position where it was written, and there only.
THEOREM NoDuplicate == Spec => []PushedOnce
  <1>1. Init => PlaceInv
    BY PlaceInit
  <1>2. BasicInv /\ ChannelInv /\ PlaceInv /\ [Next]_vars => PlaceInv'
    BY PlaceNext
  <1>3. BasicInv /\ PlaceInv => PushedOnce
    <2> SUFFICES ASSUME BasicInv, PlaceInv, NEW i \in 1..Len(slog), NEW j \in 1..Len(slog),
                        slog[i] = slog[j], slog[i] # Hole
                 PROVE  i = j
      BY DEF PushedOnce
    <2> PICK pos : PlacedAt(pos)
      BY DEF PlaceInv
    <2>1. pos[slog[i]] = 0 + i /\ pos[slog[j]] = 0 + j
      BY DEF PlacedAt, Placed
    <2>2. i \in Nat /\ j \in Nat
      BY DEF BasicInv, TypeOK
    <2> QED
      BY <2>1, <2>2
  <1> QED
    BY <1>1, <1>2, <1>3, BasicInvariant, PTL DEF Spec

(***************************************************************************)
(* A pull brings the client to the checkpoint that it announces.           *)
(***************************************************************************)
PullInv ==
    \A c \in Clients : PullAnswered(c) =>
        AnswerTo(c).checkpoint <= clients[c].call.from + Len(AnswerTo(c).data)

\* No pull has been answered at first.
LEMMA PullInit == Init => PullInv
  BY DEF Init, PullInv, PullAnswered, Answered, NewClient

\* The server sends everything up to the checkpoint that it announces.
LEMMA PullNext == BasicInv /\ ChannelInv /\ PullInv /\ [Next]_vars => PullInv'
  <1> SUFFICES ASSUME BasicInv, ChannelInv, PullInv, [Next]_vars,
                      NEW c \in Clients, PullAnswered(c)'
               PROVE  (AnswerTo(c).checkpoint
                         <= clients[c].call.from + Len(AnswerTo(c).data))'
    BY DEF PullInv
  <1> DEFINE a == AnswerTo(c)'
  <1>0. Answered(c)' /\ clients'[c].call.op \in {"pull", "lock_pull"}
        /\ a.code = clients'[c].call.op
    BY DEF PullAnswered
  <1>1. ASSUME Answered(c), a = AnswerTo(c), clients'[c] = clients[c]
        PROVE  a.checkpoint <= clients'[c].call.from + Len(a.data)
    <2>1. PullAnswered(c)
      BY <1>0, <1>1 DEF PullAnswered
    <2> QED
      BY <1>1, <2>1 DEF PullInv
  <1>2. CASE UNCHANGED vars
    <2>1. clients' = clients /\ sessions' = sessions
      BY <1>2 DEF vars
    <2>2. Answered(c) /\ a = AnswerTo(c)
      BY <1>0, <2>1 DEF Answered, AnswerTo, SessionOf
    <2> QED
      BY <1>1, <2>1, <2>2
  <1>3. ASSUME NEW s \in Session, ServerStep(s) \/ Timeout(s)
        PROVE  a.checkpoint <= clients'[c].call.from + Len(a.data)
    <2> DEFINE r == Head(sessions[s].requests)
    <2>1. Touched(s) /\ clients' = clients
      BY <1>3, ServerTouches
    <2>2. CASE Answered(c) /\ a = AnswerTo(c)
      BY <1>1, <2>1, <2>2
    <2>3. CASE /\ sessions[s].state = "open" /\ r = clients[c].call
               /\ sessions[s].requests # <<>> /\ Replied(s, a)
      <3>1. a.checkpoint = Len(slog) /\ a.data = From(slog, r.from)
        BY <1>0, <1>3, <2>1, <2>3, AnswerSent
      <3>2. r.from \in Nat /\ slog \in Seq(Nat)
        BY <2>3, ReceivesType DEF RequestT, BasicInv, TypeOK
      <3>3. Len(From(slog, r.from)) = IF r.from <= Len(slog) THEN Len(slog) - r.from ELSE 0
        BY <3>2, TakeFrom
      <3>4. Len(slog) <= r.from + Len(a.data)
        BY <3>1, <3>2, <3>3
      <3> QED
        BY <2>1, <2>3, <3>1, <3>4
    <2> QED
      BY <1>0, <2>1, <2>2, <2>3, AnsweredServer
  <1>4. ASSUME NEW d \in Clients, ClientStep(d)
        PROVE  a.checkpoint <= clients'[c].call.from + Len(a.data)
    <2>1. CASE c # d
      BY <1>0, <1>1, <1>4, <2>1, AnsweredFrame, ClientFrame DEF Stepped
    <2>2. CASE c = d
      <3>1. clients' = clients /\ sessions' = sessions
        BY <1>0, <1>4, <2>2, AnsweredClient, AppendLocallyStep
      <3>2. Answered(c) /\ a = AnswerTo(c)
        BY <1>0, <3>1 DEF Answered, AnswerTo, SessionOf
      <3> QED
        BY <1>1, <3>1, <3>2
    <2> QED
      BY <2>1, <2>2
  <1>5. ~Restart
    BY <1>0, RestartSilent
  <1> QED
    BY <1>2, <1>3, <1>4, <1>5 DEF Next, ClientStep

(***************************************************************************)
(* The history: how far the file of a client and the journal of the server *)
(* agree, and how each call takes the client further.                      *)
(***************************************************************************)
Agree(F, S, n) == n <= Len(F) /\ n <= Len(S) /\ \A i \in 1..n : F[i] = S[i]

\* The data of the range of F from m to n.
Slice(data, F, m, n) ==
    /\ Len(data) = IF m <= n THEN n - m ELSE 0
    /\ \A i \in 1..Len(data) : data[i] = F[m + i]

\* Two journals that grow still agree.
LEMMA AgreeGrow ==
    ASSUME NEW F \in Seq(Nat), NEW G \in Seq(Nat), NEW S \in Seq(Nat), NEW T \in Seq(Nat),
           NEW n \in Nat, Agree(F, S, n), Grows(F, G), Grows(S, T)
    PROVE  Agree(G, T, n)
  <1>1. n <= Len(F) /\ n <= Len(S) /\ \A i \in 1..n : F[i] = S[i]
    BY DEF Agree
  <1>2. \A i \in 1..n : i \in 1..Len(F) /\ i \in 1..Len(S)
    BY <1>1
  <1>3. n <= Len(G) /\ n <= Len(T)
    BY <1>1 DEF Grows
  <1> QED
    BY <1>1, <1>2, <1>3 DEF Agree, Grows

\* A range of a journal stays when the journal grows.
LEMMA SliceGrow ==
    ASSUME NEW F \in Seq(Nat), NEW G \in Seq(Nat), NEW m \in Nat, NEW n \in Nat,
           NEW data \in Seq(Nat), n <= Len(F), Slice(data, F, m, n), Grows(F, G)
    PROVE  Slice(data, G, m, n)
  <1>1. \A i \in 1..Len(data) : m + i \in 1..Len(F)
    BY DEF Slice
  <1> QED
    BY <1>1 DEF Slice, Grows

\* The data that a push sends is a range of the journal.
LEMMA SliceOf ==
    ASSUME NEW F \in Seq(Nat), NEW m \in Nat, NEW n \in Nat, n <= Len(F)
    PROVE  Slice(SubSeq(F, m + 1, n), F, m, n)
  BY RangeOf DEF Slice

\* A push that the server accepts: it continues the journal of the server.
LEMMA AgreePush ==
    ASSUME NEW F \in Seq(Nat), NEW S \in Seq(Nat), NEW data \in Seq(Nat), NEW n \in Nat,
           n <= Len(F), Slice(data, F, Len(S), n), Agree(F, S, Min2(Len(S), n))
    PROVE  Agree(F, S \o data, n)
  <1>1. Len(S) \in Nat /\ Len(S \o data) = Len(S) + Len(data)
    OBVIOUS
  <1>2. CASE n <= Len(S)
    <2>1. Agree(F, S, n)
      <3>1. Min2(Len(S), n) = n
        BY <1>1, <1>2 DEF Min2
      <3> QED
        BY <3>1
    <2>2. \A i \in 1..n : (S \o data)[i] = S[i]
      BY <1>2
    <2> QED
      BY <1>1, <1>2, <2>1, <2>2 DEF Agree
  <1>3. CASE n > Len(S)
    <2>1. Agree(F, S, Len(S)) /\ Len(data) = n - Len(S)
      BY <1>1, <1>3 DEF Min2, Slice
    <2>2. ASSUME NEW i \in 1..n PROVE F[i] = (S \o data)[i]
      <3>1. CASE i <= Len(S)
        BY <1>1, <2>1, <3>1 DEF Agree
      <3>2. CASE i > Len(S)
        <4>1. i - Len(S) \in 1..Len(data) /\ Len(S) + (i - Len(S)) = i
          BY <1>1, <1>3, <2>1, <3>2
        <4>2. data[i - Len(S)] = F[i]
          BY <4>1 DEF Slice
        <4>3. (S \o data)[i] = data[i - Len(S)]
          BY <1>1, <2>1, <3>2, <1>3
        <4> QED
          BY <4>2, <4>3
      <3>3. i <= Len(S) \/ i > Len(S)
        BY <1>1
      <3> QED
        BY <3>1, <3>2, <3>3, Zenon
    <2> QED
      BY <1>1, <1>3, <2>1, <2>2 DEF Agree
  <1> QED
    BY <1>1, <1>2, <1>3

\* A check that succeeds.
LEMMA AgreeCheck ==
    ASSUME NEW F \in Seq(Nat), NEW S \in Seq(Nat), NEW m \in Nat, NEW n \in Nat, m <= n,
           n <= Len(F), n <= Len(S), Agree(F, S, m),
           NEW data \in Seq(Nat), Slice(data, F, m, n), SubSeq(S, m + 1, n) = data
    PROVE  Agree(F, S, n)
  <1>1. Slice(data, S, m, n) /\ Len(data) = n - m
    BY SliceOf DEF Slice
  <1>2. ASSUME NEW i \in 1..n PROVE F[i] = S[i]
    <2>1. CASE i <= m
      BY <2>1 DEF Agree
    <2>2. CASE i > m
      <3>1. i - m \in 1..Len(data) /\ m + (i - m) = i
        BY <1>1, <2>2
      <3> QED
        BY <1>1, <3>1 DEF Slice
    <2> QED
      BY <2>1, <2>2
  <1> QED
    BY <1>2 DEF Agree

\* A pull.
LEMMA AgreePull ==
    ASSUME NEW F \in Seq(Nat), NEW S \in Seq(Nat), Agree(F, S, Len(F))
    PROVE  Agree(F \o From(S, Len(F)), S, Len(S))
  <1> DEFINE d == From(S, Len(F))
             n == Len(F)
  <1>1. n \in Nat /\ n <= Len(S) /\ \A i \in 1..n : F[i] = S[i]
    BY DEF Agree
  <1>2. d \in Seq(Nat) /\ Len(d) = Len(S) - n /\ \A i \in 1..Len(d) : d[i] = S[n + i]
    BY <1>1, TakeFrom
  <1> HIDE DEF d
  <1>3. Len(F \o d) = Len(S)
    BY <1>1, <1>2
  <1>4. ASSUME NEW i \in 1..Len(S) PROVE (F \o d)[i] = S[i]
    <2>1. CASE i <= n
      BY <1>1, <1>2, <2>1
    <2>2. CASE i > n
      <3>1. i - n \in 1..Len(d) /\ n + (i - n) = i
        BY <1>1, <1>2, <2>2
      <3>2. (F \o d)[i] = d[i - n]
        BY <1>1, <1>2, <2>2
      <3> QED
        BY <1>2, <3>1, <3>2
    <2>3. i <= n \/ i > n
      BY <1>1
    <2> QED
      BY <2>1, <2>2, <2>3, Zenon
  <1> QED
    BY <1>3, <1>4 DEF Agree, d

\* The handshake compares what both journals have.
LEMMA AgreeHandshake ==
    ASSUME slog \in Seq(Nat), NEW F \in Seq(Nat), NEW n \in Nat, n <= Len(F),
           NEW J \in Seq(Nat), Len(J) = n, \A i \in 1..n : J[i] = F[i], Handshake(J)
    PROVE  Agree(F, slog, Min2(Len(slog), n))
  <1> DEFINE m == Min2(Len(slog), n)
  <1>2. m \in Nat /\ m <= Len(slog) /\ m <= n
    BY DEF Min2
  <1>3. Take(slog, m) = Take(J, m)
    BY DEF Handshake
  <1> HIDE DEF m
  <1>4. \A i \in 1..m : Take(slog, m)[i] = slog[i] /\ Take(J, m)[i] = J[i]
    <2>1. \A i \in 1..m : Take(slog, m)[i] = slog[i]
      BY <1>2, TakeFrom
    <2>2. m <= Len(J)
      BY <1>2
    <2>3. \A i \in 1..m : Take(J, m)[i] = J[i]
      BY <1>2, <2>2, TakeFrom
    <2> QED
      BY <2>1, <2>3
  <1>5. ASSUME NEW i \in 1..m PROVE F[i] = slog[i]
    <2>1. i \in 1..n
      BY <1>2
    <2> QED
      BY <1>3, <1>4, <2>1
  <1>6. Agree(F, slog, m)
    BY <1>2, <1>5 DEF Agree
  <1> QED
    BY <1>6 DEF m

\* Two journals that agree up to n agree up to any m below.
LEMMA AgreeLess ==
    ASSUME NEW F \in Seq(Nat), NEW S \in Seq(Nat), NEW n \in Nat, NEW m \in Nat, m <= n,
           Agree(F, S, n)
    PROVE  Agree(F, S, m)
  BY DEF Agree

\* Two journals that agree up to n have the same prefix of length n.
LEMMA AgreeTake ==
    ASSUME NEW F \in Seq(Nat), NEW S \in Seq(Nat), NEW n \in Nat, Agree(F, S, n)
    PROVE  Take(F, n) = Take(S, n)
  <1>1. n <= Len(F) /\ n <= Len(S) /\ \A i \in 1..n : F[i] = S[i]
    BY DEF Agree
  <1>2. /\ Take(F, n) \in Seq(Nat) /\ Len(Take(F, n)) = n /\ \A i \in 1..n : Take(F, n)[i] = F[i]
        /\ Take(S, n) \in Seq(Nat) /\ Len(Take(S, n)) = n /\ \A i \in 1..n : Take(S, n)[i] = S[i]
    BY <1>1, TakeFrom
  <1> DEFINE A == Take(F, n)
             B == Take(S, n)
  <1> HIDE DEF A, B
  <1>3. A \in Seq(Nat) /\ B \in Seq(Nat) /\ Len(A) = Len(B) /\ \A i \in 1..Len(A) : A[i] = B[i]
    BY <1>1, <1>2 DEF A, B
  <1>4. A = B
    BY <1>3, SeqEqual
  <1> QED
    BY <1>4 DEF A, B

(***************************************************************************)
(* The calls of a client.  A push and a check start where the client and   *)
(* the server are known to agree; a follower has nothing of the server     *)
(* that it does not have itself; a client that no reconnection has refused *)
(* knows a server_checkpoint at least as far as its connection_checkpoint. *)
(***************************************************************************)
CallShape(c) ==
    LET r == clients[c]
        k == r.connection_checkpoint
        n == r.checkpoint
    IN /\ r.pc \in {"idle", "writing"} /\ ~r.unchecked => k <= r.server_checkpoint
       /\ r.pc = "writing" => k <= n
       /\ kind(c) = "follower" =>
             /\ r.call.op \in {"none", "push"} /\ r.pc # "writing"
             /\ r.pc = "idle" /\ r.call = NoCall => k <= n
       /\ r.call.op \in {"push", "push_unlock"} =>
             /\ r.call.from = k /\ r.call.until <= n
             /\ Slice(r.call.data, File(c), k, r.call.until)
       /\ r.call.op = "check" =>
             /\ r.call.from = k /\ r.call.until = n /\ k < n
             /\ Slice(r.call.data, File(c), k, n)

\* What a client has compared or received.
Reached(c) ==
    LET r == clients[c]
        n == r.checkpoint
    IN /\ r.pc \in {"idle", "writing"} =>
             Agree(File(c), slog, Min2(r.connection_checkpoint, n))
       /\ r.call.op \in {"pull", "lock_pull"} => Agree(File(c), slog, n)

\* What an answer that is ready to be read tells.
Confirmed(c) ==
    LET r == clients[c].call
        a == AnswerTo(c)
    IN Answered(c) /\ a.code = r.op =>
       /\ r.op \in {"push", "push_unlock", "check"} => Agree(File(c), slog, r.until)
       /\ r.op \in {"pull", "lock_pull"} => Agree(File(c) \o a.data, slog, a.checkpoint)

HistoryOK(c) == CallShape(c) /\ (Trusted(c) => Reached(c) /\ Confirmed(c))

HistoryInv == \A c \in Clients : HistoryOK(c)

\* No client is open at first.
LEMMA HistoryInit == Init => HistoryInv
  <1> SUFFICES ASSUME Init, NEW c \in Clients PROVE HistoryOK(c)
    BY DEF HistoryInv
  <1>1. clients[c] = NewClient(0)
    BY DEF Init
  <1>2. /\ clients[c].pc = "down" /\ clients[c].call.op = "none"
        /\ clients[c].up = FALSE
    BY <1>1 DEF NewClient, NoCall, Request
  <1>3. CallShape(c) /\ Reached(c)
    BY <1>2 DEF CallShape, Reached
  <1>4. Confirmed(c)
    BY <1>2 DEF Confirmed, Answered
  <1> QED
    BY <1>3, <1>4 DEF HistoryOK

\* A step that does not touch the client: its file and the journal of the
\* server may grow.
LEMMA HistorySame ==
    ASSUME BasicInv, NEW c \in Clients, HistoryOK(c), setup' = setup,
           clients'[c] = clients[c], files' \in [Files -> Seq(Nat)], slog' \in Seq(Nat),
           Grows(File(c), files'[home(c)]),
           tails[home(c)] = c => files'[home(c)] = File(c),
           Trusted(c)' => Trusted(c) /\ Grows(slog, slog')
    PROVE  /\ CallShape(c)'
           /\ Trusted(c)' => Reached(c)'
           /\ Trusted(c)' /\ Answered(c) /\ AnswerTo(c)' = AnswerTo(c) => Confirmed(c)'
  <1> DEFINE r == clients[c]
             k == r.connection_checkpoint
             n == r.checkpoint
             F == File(c)
             G == files'[home(c)]
  <1>1. /\ r \in ClientT /\ r.call \in RequestT /\ n \in Nat /\ k \in Nat
        /\ F \in Seq(Nat) /\ slog \in Seq(Nat) /\ LocalOK(c) /\ home(c) \in Files
    BY ClientFacts
  <1>2. G \in Seq(Nat) /\ File(c)' = G /\ kind(c)' = kind(c) /\ clients'[c] = r
    BY <1>1, SameSetup
  <1>3. r.call.until \in Nat /\ r.call.data \in Seq(Nat) /\ n <= Len(F) /\ Len(F) \in Nat
    BY <1>1 DEF RequestT, LocalOK
  <1>4. CallShape(c) /\ (Trusted(c) => Reached(c) /\ Confirmed(c))
    BY DEF HistoryOK
  <1>5. CallShape(c)'
    <2>1. r.call.op \in {"push", "push_unlock"} =>
             /\ r.call.from = k /\ r.call.until <= n
             /\ Slice(r.call.data, G, k, r.call.until)
      <3>1. CASE r.call.op \in {"push", "push_unlock"}
        <4>1. r.call.from = k /\ r.call.until <= n /\ Slice(r.call.data, F, k, r.call.until)
          BY <1>4, <3>1 DEF CallShape
        <4>2. r.call.until <= Len(F)
          BY <1>1, <1>3, <4>1
        <4> QED
          BY <1>1, <1>2, <1>3, <4>1, <4>2, SliceGrow
      <3> QED
        BY <3>1
    <2>2. r.call.op = "check" =>
             /\ r.call.from = k /\ r.call.until = n /\ k < n
             /\ Slice(r.call.data, G, k, n)
      <3>1. CASE r.call.op = "check"
        <4>1. r.call.from = k /\ r.call.until = n /\ k < n /\ Slice(r.call.data, F, k, n)
          BY <1>4, <3>1 DEF CallShape
        <4> QED
          BY <1>1, <1>2, <1>3, <4>1, SliceGrow
      <3> QED
        BY <3>1
    <2> QED
      BY <1>2, <1>4, <2>1, <2>2 DEF CallShape
  <1>6. ASSUME Trusted(c)' PROVE Reached(c)'
    <2>1. Reached(c) /\ Grows(slog, slog')
      BY <1>4, <1>6
    <2>2. Min2(k, n) \in Nat
      BY <1>1 DEF Min2
    <2>3. r.pc \in {"idle", "writing"} => Agree(G, slog', Min2(k, n))
      BY <1>1, <1>2, <2>1, <2>2, AgreeGrow DEF Reached
    <2>4. r.call.op \in {"pull", "lock_pull"} => Agree(G, slog', n)
      BY <1>1, <1>2, <2>1, AgreeGrow DEF Reached
    <2> QED
      BY <1>2, <2>3, <2>4 DEF Reached
  <1>7. ASSUME Trusted(c)', Answered(c), AnswerTo(c)' = AnswerTo(c) PROVE Confirmed(c)'
    <2> DEFINE a == AnswerTo(c)
    <2>1. Confirmed(c) /\ Grows(slog, slog')
      BY <1>4, <1>7
    <2>2. a \in AnswerT
      BY <1>7, AnsweredFacts
    <2>3. a.data \in Seq(Nat) /\ a.checkpoint \in Nat
      BY <2>2 DEF AnswerT
    <2> HIDE DEF a
    <2>4. CASE a.code # r.call.op
      BY <1>2, <1>7, <2>4 DEF Confirmed, a
    <2>5. CASE a.code = r.call.op
      <3>1. r.call.op \in {"push", "push_unlock", "check"} => Agree(F, slog, r.call.until)
        BY <1>7, <2>1, <2>5 DEF Confirmed, a
      <3>2. r.call.op \in {"push", "push_unlock", "check"} => Agree(G, slog', r.call.until)
        BY <1>1, <1>2, <1>3, <2>1, <3>1, AgreeGrow
      <3>3. r.call.op \in {"pull", "lock_pull"} => Agree(F \o a.data, slog, a.checkpoint)
        BY <1>7, <2>1, <2>5 DEF Confirmed, a
      <3>4. r.call.op \in {"pull", "lock_pull"} => G = F
        BY <1>1 DEF LocalOK, Holding
      <3>5. F \o a.data \in Seq(Nat) /\ Grows(F \o a.data, F \o a.data)
        BY <1>1, <2>3 DEF Grows
      <3>6. r.call.op \in {"pull", "lock_pull"} => Agree(G \o a.data, slog', a.checkpoint)
        BY <1>1, <2>1, <2>3, <3>3, <3>4, <3>5, AgreeGrow
      <3> QED
        BY <1>2, <1>7, <3>2, <3>6 DEF Confirmed, a
    <2> QED
      BY <2>4, <2>5
  <1> QED
    BY <1>5, <1>6, <1>7

\* A client is trusted before a step if it is after, unless it connects.
LEMMA TrustedBefore ==
    ASSUME NEW c \in Clients, setup' = setup, lost' = {} => lost = {},
           clients'[c].link = clients[c].link, clients'[c].up => clients[c].up,
           clients[c].unchecked => clients'[c].unchecked,
           clients[c].up /\ sessions'[SessionOf(c)].state = "open" =>
               sessions[SessionOf(c)].state = "open",
           Trusted(c)'
    PROVE  Trusted(c)
  <1>1. SessionOf(c)' = SessionOf(c) /\ kind(c)' = kind(c)
    BY DEF SessionOf, kind
  <1> QED
    BY <1>1 DEF Trusted

\* The steps of the server: its journal grows, and its answers tell the
\* truth about it.
LEMMA HistoryServer ==
    ASSUME BasicInv, ChannelInv, HistoryInv, NEW s \in Session, ServerStep(s) \/ Timeout(s)
    PROVE  HistoryInv'
  <1> SUFFICES ASSUME NEW c \in Clients PROVE HistoryOK(c)'
    BY DEF HistoryInv
  <1> DEFINE r == clients[c]
             q == Head(sessions[s].requests)
             k == r.connection_checkpoint
             n == r.checkpoint
             F == File(c)
             a == AnswerTo(c)'
  <1>0. /\ r \in ClientT /\ r.call \in RequestT /\ n \in Nat /\ k \in Nat
        /\ F \in Seq(Nat) /\ slog \in Seq(Nat) /\ LocalOK(c) /\ home(c) \in Files
        /\ HistoryOK(c) /\ ChannelOK(c)
    BY ClientFacts DEF HistoryInv, ChannelInv
  <1>1. Touched(s) /\ UNCHANGED <<setup, files, tails, clients, lost>>
    BY ServerTouches
  <1>2. slog' \in Seq(Nat) /\ files' \in [Files -> Seq(Nat)]
    <2>1. BasicInv'
      BY BasicNext DEF Next
    <2> QED
      BY <2>1 DEF BasicInv, TypeOK
  <1>3. Grows(slog, slog')
    <2>1. CASE slog' = slog
      BY <1>0, <2>1 DEF Grows
    <2>2. CASE sessions[s].requests # <<>> /\ slog' = slog \o q.data
      <3>1. q.data \in Seq(Nat)
        BY <2>2, ReceivesType DEF RequestT
      <3>2. slog' = slog \o q.data /\ slog \in Seq(Nat)
        BY <1>0, <2>2
      <3> HIDE DEF q
      <3>3. Len(slog') = Len(slog) + Len(q.data) /\ \A i \in 1..Len(slog) : slog'[i] = slog[i]
        BY ONLY <3>1, <3>2
      <3> QED
        BY ONLY <3>1, <3>2, <3>3 DEF Grows
    <2> QED
      BY <2>1, <2>2, ServerTouches
  <1>4. r.up /\ sessions'[SessionOf(c)].state = "open" => sessions[SessionOf(c)].state = "open"
    <2> SUFFICES ASSUME r.up, sessions'[SessionOf(c)].state = "open"
                 PROVE  sessions[SessionOf(c)].state = "open"
      OBVIOUS
    <2>1. SessionOf(c) \in Session /\ sessions \in [Session -> SessionT]
      BY UpSession DEF BasicInv, TypeOK
    <2>2. CASE sessions' = [sessions EXCEPT ![s] = NoSession]
      BY <2>1, <2>2 DEF NoSession, NewSession
    <2>3. ASSUME NEW b, Replied(s, b) PROVE sessions[SessionOf(c)].state = "open"
      BY <2>1, <2>3 DEF Replied
    <2> QED
      BY <1>1, <2>2, <2>3 DEF Touched
  <1>5. Trusted(c)' => Trusted(c)
    BY <1>1, <1>4, TrustedBefore
  <1>6. File(c)' = F /\ files'[home(c)] = F /\ Grows(F, F)
    BY <1>0, <1>1 DEF File, home, Grows
  <1>7. /\ CallShape(c)'
        /\ Trusted(c)' => Reached(c)'
        /\ Trusted(c)' /\ Answered(c) /\ AnswerTo(c)' = AnswerTo(c) => Confirmed(c)'
    BY <1>0, <1>1, <1>2, <1>3, <1>5, <1>6, HistorySame
  <1>8. ASSUME Trusted(c)', Answered(c)' PROVE Confirmed(c)'
    <2>1. CASE Answered(c) /\ a = AnswerTo(c)
      BY <1>7, <1>8, <2>1
    <2>2. CASE /\ s = SessionOf(c) /\ sessions[s].state = "open" /\ q = r.call
               /\ sessions[s].requests # <<>> /\ Replied(s, a)
      <3>0. CallShape(c) /\ Reached(c)
        BY <1>0, <1>5, <1>8 DEF HistoryOK
      <3>1. CASE a.code # r.call.op
        BY <1>1, <3>1 DEF Confirmed
      <3>2. CASE a.code = r.call.op
        <4>0. q.from \in Nat /\ q.until \in Nat /\ q.data \in Seq(Nat) /\ n <= Len(F) /\ Len(F) \in Nat
          BY <1>0, <2>2 DEF RequestT, LocalOK
        <4>1. ASSUME q.op \in {"push", "push_unlock", "check"} PROVE Agree(F, slog', q.until)
          <5>1. r.pc \in {"idle", "writing"}
            <6>1. r.call # NoCall
              BY <2>2, <4>1 DEF NoCall, Request
            <6> QED
              BY <1>0, <6>1 DEF ChannelOK, ClientT
          <5>2. Agree(F, slog, Min2(k, n))
            BY <3>0, <5>1 DEF Reached
          <5>3. CASE q.op \in {"push", "push_unlock"}
            <6>1. q.from = k /\ q.until <= n /\ Slice(q.data, F, k, q.until)
              BY <2>2, <3>0, <5>3 DEF CallShape
            <6>2. k = Len(slog) /\ slog' = slog \o q.data
              BY <2>2, <3>2, <5>3, <6>1, AnswerSent
            <6>3. /\ Min2(k, n) \in Nat /\ Min2(Len(slog), q.until) \in Nat
                  /\ Min2(Len(slog), q.until) <= Min2(k, n)
              BY <1>0, <4>0, <6>1, <6>2 DEF Min2
            <6>4. Agree(F, slog, Min2(Len(slog), q.until))
              BY <1>0, <5>2, <6>3, AgreeLess
            <6>5. q.until <= Len(F)
              BY <1>0, <4>0, <6>1
            <6>6. Slice(q.data, F, Len(slog), q.until)
              BY <6>1, <6>2
            <6>7. Agree(F, slog \o q.data, q.until)
              BY <1>0, <4>0, <6>4, <6>5, <6>6, AgreePush
            <6> QED
              BY <6>2, <6>7
          <5>4. CASE q.op = "check"
            <6>1. q.from = k /\ q.until = n /\ k < n /\ Slice(q.data, F, k, n)
              BY <2>2, <3>0, <5>4 DEF CallShape
            <6>2. slog' = slog /\ Matches(q.from, q.until, q.data)
              BY <2>2, <3>2, <5>4, AnswerSent
            <6>3. n <= Len(slog) /\ SubSeq(slog, k + 1, n) = q.data
              BY <6>1, <6>2 DEF Matches
            <6>4. Min2(k, n) = k
              BY <1>0, <6>1 DEF Min2
            <6>5. k <= n
              BY <1>0, <6>1
            <6>6. Agree(F, slog, n)
              BY <1>0, <4>0, <5>2, <6>1, <6>3, <6>4, <6>5, AgreeCheck
            <6> QED
              BY <6>1, <6>2, <6>6
          <5> QED
            BY <4>1, <5>3, <5>4
        <4>2. ASSUME q.op \in {"pull", "lock_pull"} PROVE Agree(F \o a.data, slog', a.checkpoint)
          <5>1. q.from = n /\ n = Len(F)
            BY <1>0, <2>2, <4>2 DEF LocalOK, Holding
          <5>2. slog' = slog /\ a.checkpoint = Len(slog) /\ a.data = From(slog, q.from)
            BY <2>2, <3>2, <4>2, AnswerSent
          <5>3. Agree(F, slog, Len(F))
            BY <2>2, <3>0, <4>2, <5>1 DEF Reached
          <5>4. Agree(F \o From(slog, Len(F)), slog, Len(slog))
            BY <1>0, <5>3, AgreePull
          <5> QED
            BY <5>1, <5>2, <5>4
        <4>3. clients'[c].call = q
          BY <1>1, <2>2
        <4> HIDE DEF q, F
        <4> QED
          BY <1>6, <4>1, <4>2, <4>3 DEF Confirmed
      <3> QED
        BY <3>1, <3>2
    <2> QED
      BY <1>1, <1>8, <2>1, <2>2, AnsweredServer
  <1>9. ~Answered(c)' => Confirmed(c)'
    BY DEF Confirmed
  <1> QED
    BY <1>7, <1>8, <1>9 DEF HistoryOK

\* A restart ends every session: a client that is still trusted has a
\* server that has lost nothing.
LEMMA HistoryRestart ==
    ASSUME BasicInv, HistoryInv, Restart
    PROVE  HistoryInv'
  <1> SUFFICES ASSUME NEW c \in Clients PROVE HistoryOK(c)'
    BY DEF HistoryInv
  <1>0. /\ File(c) \in Seq(Nat) /\ slog \in Seq(Nat) /\ HistoryOK(c) /\ home(c) \in Files
        /\ lost \subseteq Nat
    BY ClientFacts DEF HistoryInv, BasicInv, TypeOK
  <1>1. PICK n \in 0..Len(slog) : slog' = Take(slog, n) /\ lost' = lost \cup Range(From(slog, n))
    BY RestartStep
  <1>2. /\ sessions' = [s \in Session |-> NoSession]
        /\ UNCHANGED <<setup, files, tails, clients>> /\ BasicInv'
    BY RestartStep
  <1>3. slog' \in Seq(Nat) /\ files' \in [Files -> Seq(Nat)]
    BY <1>2 DEF BasicInv, TypeOK
  <1>4. clients[c].up => sessions'[SessionOf(c)].state # "open"
    BY <1>2, UpSession DEF NoSession, NewSession
  <1>5. SessionOf(c)' = SessionOf(c)
    BY <1>2 DEF SessionOf
  <1>6. ASSUME Trusted(c)' PROVE Trusted(c) /\ Grows(slog, slog')
    <2>1. lost' = {} /\ ~clients[c].unchecked
      BY <1>2, <1>4, <1>5, <1>6 DEF Trusted
    <2>2. Trusted(c)
      BY <1>1, <2>1 DEF Trusted
    <2>3. Range(From(slog, n)) = {}
      BY <1>1, <2>1
    <2>4. From(slog, n) \in Seq(Nat) /\ Len(From(slog, n)) = Len(slog) - n
      BY <1>0, TakeFrom
    <2>5. n = Len(slog)
      <3> SUFFICES ASSUME n # Len(slog) PROVE FALSE
        OBVIOUS
      <3>1. 1 \in DOMAIN From(slog, n)
        BY <1>0, <2>4
      <3> QED
        BY <2>3, <3>1 DEF Range
    <2>6. slog' \in Seq(Nat) /\ Len(slog') = Len(slog) /\ \A i \in 1..Len(slog) : slog'[i] = slog[i]
      <3>1. n \in Nat /\ n <= Len(slog) /\ slog' = Take(slog, n)
        BY <1>0, <1>1
      <3>2. /\ Take(slog, n) \in Seq(Nat) /\ Len(Take(slog, n)) = n
            /\ \A i \in 1..n : Take(slog, n)[i] = slog[i]
        BY <1>0, <3>1, TakeFrom
      <3> QED
        BY <2>5, <3>1, <3>2
    <2> QED
      BY <1>0, <2>2, <2>6 DEF Grows
  <1>7. files'[home(c)] = File(c) /\ Grows(File(c), File(c))
    BY <1>0, <1>2 DEF File, Grows
  <1>8. CallShape(c)' /\ (Trusted(c)' => Reached(c)')
    BY <1>0, <1>2, <1>3, <1>6, <1>7, HistorySame
  <1>9. Confirmed(c)'
    BY RestartSilent DEF Confirmed
  <1> QED
    BY <1>8, <1>9 DEF HistoryOK

\* The other clients, when one of them takes a step.
LEMMA HistoryFrame ==
    ASSUME BasicInv, HistoryInv, NEW d \in Clients, ClientStep(d), NEW c \in Clients, c # d
    PROVE  HistoryOK(c)'
  <1>0. /\ File(c) \in Seq(Nat) /\ slog \in Seq(Nat) /\ HistoryOK(c) /\ home(c) \in Files
    BY ClientFacts DEF HistoryInv
  <1>1. Frame(d) /\ slog' = slog /\ lost' = lost /\ files' \in [Files -> Seq(Nat)]
    BY ClientFrame, ClientsKeepServer DEF Stepped, TypeOK
  <1>2. /\ clients'[c] = clients[c] /\ setup' = setup
        /\ Grows(File(c), files'[home(c)])
        /\ tails[home(c)] = c => files'[home(c)] = File(c)
    BY <1>1 DEF Frame, OtherClients, OtherFiles
  <1>3. clients[c].up => sessions'[SessionOf(c)] = sessions[SessionOf(c)]
    BY <1>1, UpSession DEF Frame, OtherSessions
  <1>4. Trusted(c)' => Trusted(c)
    BY <1>1, <1>2, <1>3, TrustedBefore
  <1>5. Grows(slog, slog') /\ slog' \in Seq(Nat)
    BY <1>0, <1>1 DEF Grows
  <1>6. /\ CallShape(c)'
        /\ Trusted(c)' => Reached(c)'
        /\ Trusted(c)' /\ Answered(c) /\ AnswerTo(c)' = AnswerTo(c) => Confirmed(c)'
    BY <1>0, <1>1, <1>2, <1>4, <1>5, HistorySame
  <1>7. CASE Answered(c)'
    <2>1. Answered(c) /\ AnswerTo(c)' = AnswerTo(c)
      BY <1>1, <1>7, AnsweredFrame
    <2> QED
      BY <1>6, <2>1 DEF HistoryOK
  <1>8. CASE ~Answered(c)'
    BY <1>6, <1>8 DEF HistoryOK, Confirmed
  <1> QED
    BY <1>7, <1>8

\* A step that ends the call, or begins none, and does not move what the
\* client has.
LEMMA HistoryReturn ==
    ASSUME BasicInv, HistoryInv, NEW c \in Clients, ClientStep(c), files' = files,
           clients'[c].call = NoCall, clients'[c].pc # "writing",
           clients'[c].pc = "idle" =>
               /\ clients[c].pc \in {"idle", "writing"}
               /\ ~clients'[c].unchecked =>
                     clients[c].connection_checkpoint <= clients[c].server_checkpoint
               /\ clients'[c].server_checkpoint = clients[c].server_checkpoint
               /\ clients'[c].connection_checkpoint = clients[c].connection_checkpoint
               /\ clients'[c].checkpoint = clients[c].checkpoint
               /\ Trusted(c)' => Trusted(c),
           kind(c) = "follower" /\ clients'[c].pc = "idle" =>
               clients'[c].connection_checkpoint <= clients'[c].checkpoint
    PROVE  CallShape(c)' /\ (Trusted(c)' => Reached(c)')
  <1>1. setup' = setup /\ slog' = slog
    BY ClientFrame, ClientsKeepServer DEF Stepped, Frame
  <1>2. File(c)' = File(c) /\ kind(c)' = kind(c) /\ HistoryOK(c)
    BY <1>1 DEF File, home, kind, HistoryInv
  <1>3. NoCall.op = "none"
    BY DEF NoCall, Request
  <1>4. CallShape(c)'
    BY <1>2, <1>3 DEF CallShape
  <1>5. ASSUME Trusted(c)' PROVE Reached(c)'
    <2>1. clients'[c].pc \in {"idle", "writing"} => Reached(c)
      BY <1>2, <1>5 DEF HistoryOK
    <2> QED
      BY <1>1, <1>2, <1>3, <2>1 DEF Reached
  <1> QED
    BY <1>4, <1>5

\* A step that keeps the call and what the client has, without a new
\* connection.
LEMMA HistoryKeep ==
    ASSUME BasicInv, HistoryInv, NEW c \in Clients, ClientStep(c), files' = files,
           clients'[c].call = clients[c].call, clients'[c].pc = clients[c].pc,
           clients'[c].unchecked = clients[c].unchecked,
           clients'[c].server_checkpoint = clients[c].server_checkpoint,
           clients'[c].connection_checkpoint = clients[c].connection_checkpoint,
           clients'[c].checkpoint = clients[c].checkpoint,
           Trusted(c)' => Trusted(c)
    PROVE  CallShape(c)' /\ (Trusted(c)' => Reached(c)')
  <1>1. setup' = setup /\ slog' = slog
    BY ClientFrame, ClientsKeepServer DEF Stepped, Frame
  <1>2. File(c)' = File(c) /\ kind(c)' = kind(c) /\ HistoryOK(c)
    BY <1>1 DEF File, home, kind, HistoryInv
  <1>3. CallShape(c)'
    BY <1>2 DEF CallShape, HistoryOK
  <1>4. ASSUME Trusted(c)' PROVE Reached(c)'
    <2>1. Reached(c)
      BY <1>2, <1>4 DEF HistoryOK
    <2> QED
      BY <1>1, <1>2, <2>1 DEF Reached
  <1> QED
    BY <1>3, <1>4

\* What the steps of a client leave alone.
LEMMA StepFacts ==
    ASSUME BasicInv, ChannelInv, HistoryInv, NEW c \in Clients, ClientStep(c)
    PROVE  /\ setup' = setup /\ slog' = slog /\ lost' = lost
           /\ kind(c)' = kind(c) /\ home(c)' = home(c) /\ File(c)' = files'[home(c)]
           /\ files'[home(c)] \in Seq(Nat)
           /\ ChannelOK(c) /\ CallShape(c)
           /\ Trusted(c) => Reached(c) /\ Confirmed(c)
           /\ clients[c].call # NoCall => clients[c].pc \in {"idle", "writing"}
           /\ clients[c].pc \in {"idle", "writing"} /\ ~clients[c].unchecked =>
                 clients[c].connection_checkpoint <= clients[c].server_checkpoint
           /\ kind(c) = "follower" => clients[c].call.op \in {"none", "push"}
  <1>1. Stepped(c) /\ slog' = slog /\ lost' = lost
    BY ClientFrame, ClientsKeepServer
  <1>2. setup' = setup /\ files' \in [Files -> Seq(Nat)]
    BY <1>1 DEF Stepped, Frame, TypeOK
  <1>3. home(c)' = home(c) /\ kind(c)' = kind(c) /\ File(c)' = files'[home(c)]
    BY <1>2, SameSetup
  <1>4. ChannelOK(c) /\ HistoryOK(c) /\ clients[c] \in ClientT /\ home(c) \in Files
    BY ClientFacts DEF ChannelInv, HistoryInv
  <1>5. CallShape(c) /\ (Trusted(c) => Reached(c) /\ Confirmed(c))
    BY <1>4 DEF HistoryOK
  <1>6. clients[c].call # NoCall => clients[c].pc \in {"idle", "writing"}
    BY <1>4 DEF ChannelOK, ClientT
  <1>7. /\ clients[c].pc \in {"idle", "writing"} /\ ~clients[c].unchecked =>
              clients[c].connection_checkpoint <= clients[c].server_checkpoint
        /\ kind(c) = "follower" => clients[c].call.op \in {"none", "push"}
    BY <1>5 DEF CallShape
  <1> QED
    BY <1>1, <1>2, <1>3, <1>4, <1>5, <1>6, <1>7

\* A push that sends something starts before the end of the journal.
LEMMA PushAhead ==
    ASSUME BasicInv, NEW c \in Clients, CallShape(c),
           clients[c].call.op \in {"push", "push_unlock"}, clients[c].call.data # <<>>
    PROVE  clients[c].connection_checkpoint <= clients[c].checkpoint
  <1> DEFINE r == clients[c]
             k == r.connection_checkpoint
             n == r.checkpoint
             until == r.call.until
             data == r.call.data
  <1>1. k \in Nat /\ n \in Nat /\ until \in Nat /\ data \in Seq(Nat)
    BY ClientFacts DEF RequestT
  <1>2. until <= n /\ Len(data) = IF k <= until THEN until - k ELSE 0
    BY DEF CallShape, Slice
  <1>3. data # <<>>
    OBVIOUS
  <1> HIDE DEF k, n, until, data
  <1>4. Len(data) # 0
    BY <1>1, <1>3
  <1> QED
    BY <1>1, <1>2, <1>4 DEF k, n

\* A pull, with or without the lock, begins where the client has compared
\* everything.
LEMMA HistoryPull ==
    ASSUME BasicInv, ChannelInv, HistoryInv, NEW c \in Clients, ClientStep(c), files' = files,
           NEW op \in {"pull", "lock_pull"}, NEW from, NEW until, NEW data,
           clients'[c].call = Request(op, from, until, data),
           kind(c) # "follower", clients'[c].pc = "writing" =>
               clients'[c].connection_checkpoint <= clients'[c].checkpoint,
           ~clients'[c].unchecked =>
               clients'[c].connection_checkpoint <= clients'[c].server_checkpoint,
           clients'[c].checkpoint = Len(File(c)), clients'[c].connection_checkpoint \in Nat,
           Trusted(c)' => Agree(File(c), slog, Len(File(c)))
    PROVE  CallShape(c)' /\ (Trusted(c)' => Reached(c)')
  <1> DEFINE x == clients'[c]
             n == Len(File(c))
  <1>1. slog' = slog /\ kind(c)' = kind(c) /\ File(c)' = File(c)
    BY StepFacts DEF File
  <1>2. x.call.op = op
    BY RequestFields
  <1>3. CallShape(c)'
    BY <1>1, <1>2 DEF CallShape
  <1>4. /\ File(c) \in Seq(Nat) /\ slog \in Seq(Nat) /\ n \in Nat
        /\ Min2(x.connection_checkpoint, n) \in Nat /\ Min2(x.connection_checkpoint, n) <= n
    BY ClientFacts DEF Min2
  <1>5. ASSUME Trusted(c)' PROVE Reached(c)'
    <2>1. Agree(File(c), slog, n) /\ Agree(File(c), slog, Min2(x.connection_checkpoint, n))
      BY <1>4, <1>5, AgreeLess
    <2> QED
      BY <1>1, <2>1 DEF Reached
  <1> QED
    BY <1>3, <1>5

\* A new client: the handshake compares all that both sides have.
LEMMA HistoryOpen ==
    ASSUME BasicInv, ChannelInv, HistoryInv, NEW c \in Clients, Open(c)
    PROVE  CallShape(c)' /\ (Trusted(c)' => Reached(c)')
  <1> DEFINE x == clients'[c]
             F == files'[home(c)]
             k == Len(slog)
             n == Len(F)
             m == Min2(k, n)
  <1>1. /\ slog' = slog /\ kind(c)' = kind(c) /\ File(c)' = F /\ F \in Seq(Nat)
        /\ slog \in Seq(Nat) /\ k \in Nat /\ n \in Nat
    BY StepFacts, ClientFacts DEF ClientStep
  <1>2. m \in Nat /\ m <= n /\ m <= k
    BY <1>1 DEF Min2
  <1>3. /\ x.pc = "idle" /\ x.connection_checkpoint = k /\ x.checkpoint = n
        /\ x.server_checkpoint = k /\ x.call.op \in {"push", "none"}
        /\ kind(c) = "follower" => x.call = Request("push", k, m, SubSeq(F, k + 1, m))
        /\ kind(c) # "follower" => x.call = NoCall
        /\ kind(c) = "server_file" => F = slog
        /\ kind(c) = "server_file" \/ Handshake(F)
    BY OpenStep
  <1>4. NoCall.op = "none"
    BY DEF NoCall, Request
  <1>5. kind(c) = "follower" => /\ x.call.op = "push" /\ x.call.from = k
                                /\ x.call.until = m /\ x.call.data = SubSeq(F, k + 1, m)
    <2> HAVE kind(c) = "follower"
    <2> DEFINE data == SubSeq(F, k + 1, m)
    <2>1. x.call = Request("push", k, m, data)
      BY <1>3
    <2> HIDE DEF x, m, k, F, data
    <2>2. x.call.op = "push" /\ x.call.from = k /\ x.call.until = m /\ x.call.data = data
      BY <2>1, RequestFields
    <2> QED
      BY <2>2 DEF data
  <1>6. Slice(SubSeq(F, k + 1, m), F, k, m)
    BY <1>1, <1>2, SliceOf
  <1> HIDE DEF F, m
  <1>7. CallShape(c)'
    <2>1. kind(c) # "follower" => x.call.op = "none"
      BY <1>3, <1>4
    <2>2. x.call.op = "push" => kind(c) = "follower"
      BY <2>1
    <2>3. x.call = NoCall => kind(c) # "follower"
      BY <1>4, <1>5
    <2>4. x.call.op \in {"push", "push_unlock"} =>
             /\ x.call.from = k /\ x.call.until <= n /\ Slice(x.call.data, F, k, x.call.until)
      BY <1>2, <1>3, <1>5, <1>6, <2>2
    <2>5. x.call.op \in {"none", "push"} /\ x.call.op # "check" /\ k <= k
      BY <1>1, <1>3
    <2> HIDE DEF x, k, n
    <2> QED
      BY <1>1, <1>3, <2>3, <2>4, <2>5 DEF CallShape, x
  <1>8. Agree(F, slog, m)
    <2>1. CASE kind(c) = "server_file"
      BY <1>1, <1>2, <1>3, <2>1 DEF Agree
    <2>2. CASE Handshake(F)
      BY <1>1, <2>2, AgreeHandshake DEF m
    <2> QED
      BY <1>3, <2>1, <2>2
  <1>9. Reached(c)'
    BY <1>1, <1>3, <1>8 DEF Reached, m
  <1> QED
    BY <1>7, <1>9

\* A new connection: the handshake compares again, and the server is not
\* behind what the client knew of it.
LEMMA HistoryReconnect ==
    ASSUME BasicInv, ChannelInv, HistoryInv, NEW c \in Clients, Reconnect(c)
    PROVE  CallShape(c)' /\ (Trusted(c)' => Reached(c)')
  <1> DEFINE r == clients[c]
             x == clients'[c]
             F == File(c)
             k == r.connection_checkpoint
             n == r.checkpoint
             m == Min2(k, n)
  <1>0. ClientStep(c)
    BY DEF ClientStep
  <1>1. /\ slog' = slog /\ kind(c)' = kind(c) /\ lost' = lost
        /\ F \in Seq(Nat) /\ slog \in Seq(Nat) /\ k \in Nat /\ n \in Nat
        /\ r.server_checkpoint \in Nat /\ n <= Len(F)
    BY <1>0, StepFacts, ClientFacts DEF LocalOK
  <1>2. /\ files' = files /\ r.call # NoCall /\ ~r.up
        /\ x.checkpoint = n /\ x.connection_checkpoint = k /\ x.server_checkpoint = Len(slog)
    BY ReconnectStep
  <1>3. File(c)' = F
    BY <1>0, <1>2, StepFacts DEF File
  <1>4. CASE /\ x.pc \in {"idle", "failed"} /\ x.call = NoCall /\ x.unchecked = TRUE
             /\ x.pc = "idle" => r.call.op # "push" \/ r.call.data # <<>>
    <2>1. NoCall.op = "none" /\ ~Trusted(c)'
      BY <1>4 DEF NoCall, Request, Trusted
    <2>2. CallShape(c) /\ (kind(c) = "follower" => r.call.op \in {"none", "push"})
      BY <1>0, StepFacts
    <2>3. r.call.op # "none"
      BY <1>0, <1>2, StepFacts DEF ChannelOK
    <2>4. kind(c) = "follower" /\ x.pc = "idle" => k <= n
      <3> HAVE kind(c) = "follower" /\ x.pc = "idle"
      <3>1. r.call.op = "push" /\ r.call.data # <<>>
        BY <1>4, <2>2, <2>3
      <3> QED
        BY <2>2, <3>1, PushAhead
    <2>5. CallShape(c)'
      BY <1>1, <1>2, <1>4, <2>1, <2>4 DEF CallShape
    <2> QED
      BY <2>1, <2>5
  <1>5. CASE /\ x.pc = r.pc /\ x.call = r.call /\ r.server_checkpoint <= Len(slog)
             /\ x.unchecked = (r.unchecked \/ (r.call.op \in {"pull", "lock_pull"} /\ Len(slog) < n))
             /\ kind(c) = "server_file" \/ Handshake(Take(F, n))
    <2>1. /\ CallShape(c) /\ r.pc \in {"idle", "writing"}
          /\ ~x.unchecked => k <= r.server_checkpoint
          /\ Trusted(c) => Reached(c)
      BY <1>0, <1>2, <1>5, StepFacts
    <2>2. (~x.unchecked => k <= Len(slog)) /\ m \in Nat /\ m <= n /\ m <= k
      BY <1>1, <1>5, <2>1 DEF Min2
    <2>3. CallShape(c)'
      BY <1>1, <1>2, <1>3, <1>5, <2>1, <2>2 DEF CallShape
    <2>4. ASSUME Trusted(c)' PROVE Reached(c)'
      <3>1. ~x.unchecked /\ ~r.unchecked
        BY <1>5, <2>4 DEF Trusted
      <3>2. CASE lost = {}
        <4>1. Trusted(c)
          BY <3>1, <3>2 DEF Trusted
        <4> QED
          BY <1>1, <1>2, <1>3, <1>5, <2>1, <4>1 DEF Reached
      <3>3. CASE lost # {}
        <4>1. kind(c) # "server_file"
          BY <1>1, <2>4, <3>3 DEF Trusted
        <4>2. /\ Take(F, n) \in Seq(Nat) /\ Len(Take(F, n)) = n
              /\ \A i \in 1..n : Take(F, n)[i] = F[i]
          BY <1>1, TakeFrom
        <4>3. Agree(F, slog, Min2(Len(slog), n))
          BY <1>1, <1>5, <4>1, <4>2, AgreeHandshake
        <4>4. Min2(Len(slog), n) \in Nat /\ m <= Min2(Len(slog), n) /\ Len(slog) \in Nat
          BY <1>1, <2>2, <3>1 DEF Min2
        <4>5. Agree(F, slog, m)
          BY <1>1, <2>2, <4>3, <4>4, AgreeLess
        <4>6. r.call.op \in {"pull", "lock_pull"} => Agree(F, slog, n)
          <5>1. CASE r.call.op \in {"pull", "lock_pull"}
            <6>1. ~(Len(slog) < n)
              BY <1>5, <3>1, <5>1
            <6>2. Min2(Len(slog), n) = n
              BY <1>1, <4>4, <6>1 DEF Min2
            <6> QED
              BY <4>3, <6>2
          <5> QED
            BY <5>1
        <4> QED
          BY <1>1, <1>2, <1>3, <1>5, <4>5, <4>6 DEF Reached
      <3> QED
        BY <3>2, <3>3
    <2> QED
      BY <2>3, <2>4
  <1> QED
    BY <1>4, <1>5, ReconnectStep

\* get_tail_lock: what the file has gained is compared, by the check that
\* follows or by the history variable.
LEMMA HistoryBegin ==
    ASSUME BasicInv, ChannelInv, HistoryInv, NEW c \in Clients, Begin(c)
    PROVE  CallShape(c)' /\ (Trusted(c)' => Reached(c)')
  <1> DEFINE r == clients[c]
             x == clients'[c]
             F == File(c)
             k == r.connection_checkpoint
             n == r.checkpoint
             l == Len(F)
             m == Min2(k, l)
  <1>0. ClientStep(c)
    BY DEF ClientStep
  <1>1. /\ slog' = slog /\ kind(c)' = kind(c) /\ lost' = lost /\ setup' = setup
        /\ F \in Seq(Nat) /\ slog \in Seq(Nat) /\ k \in Nat /\ n \in Nat /\ l \in Nat
        /\ r.server_checkpoint \in Nat /\ n <= l
    BY <1>0, StepFacts, ClientFacts DEF LocalOK
  <1>2. /\ files' = files /\ sessions' = sessions /\ kind(c) # "follower" /\ n <= k
        /\ r.pc = "idle" /\ r.call = NoCall /\ x.link = r.link /\ x.up = r.up
        /\ x.pc = "idle" /\ x.checkpoint = l /\ x.connection_checkpoint = k
        /\ x.server_checkpoint = r.server_checkpoint
        /\ x.unchecked = (\/ r.unchecked
                          \/ n < m /\ ~Matches(n, m, SubSeq(F, n + 1, m)))
    BY BeginStep DEF Idle
  <1>3. File(c)' = F /\ (~x.unchecked => k <= r.server_checkpoint)
    BY <1>0, <1>2, StepFacts DEF File
  <1>4. m \in Nat /\ m <= l /\ n <= m /\ Min2(k, n) = n
    BY <1>1, <1>2 DEF Min2
  <1>5. ASSUME Trusted(c)' PROVE Agree(F, slog, m)
    <2>1. Trusted(c) /\ ~x.unchecked
      BY <1>1, <1>2, <1>5, TrustedBefore DEF Trusted
    <2>2. Reached(c)
      BY <1>0, <2>1, StepFacts
    <2>3. Agree(F, slog, n)
      BY <1>2, <1>4, <2>2 DEF Reached
    <2>4. CASE n < m
      <3> DEFINE data == SubSeq(F, n + 1, m)
      <3>1. Matches(n, m, data)
        BY <1>2, <2>1, <2>4
      <3>2. data \in Seq(Nat) /\ Slice(data, F, n, m)
        BY <1>1, <1>4, RangeOf, SliceOf
      <3>3. m <= Len(slog) /\ SubSeq(slog, n + 1, m) = data
        BY <3>1 DEF Matches
      <3> HIDE DEF data
      <3> QED
        BY <1>1, <1>4, <2>3, <3>2, <3>3, AgreeCheck
    <2>5. CASE ~(n < m)
      <3>1. n = m
        BY <1>1, <1>4, <2>5
      <3> QED
        BY <2>3, <3>1
    <2> QED
      BY <2>4, <2>5
  <1>6. CASE k < l
    <2> DEFINE data == SubSeq(F, k + 1, l)
    <2>1. x.call = Request("check", k, l, data)
      BY <1>6, BeginStep
    <2>2. Slice(data, F, k, l)
      <3>1. l <= Len(F)
        BY <1>1
      <3> HIDE DEF l, k, F
      <3> QED
        BY <1>1, <3>1, SliceOf
    <2> HIDE DEF data
    <2>3. x.call.op = "check" /\ x.call.from = k /\ x.call.until = l /\ x.call.data = data
      BY <2>1, RequestFields
    <2>4. CallShape(c)'
      BY <1>1, <1>2, <1>3, <1>6, <2>2, <2>3 DEF CallShape
    <2>5. Trusted(c)' => Reached(c)'
      BY <1>1, <1>2, <1>3, <1>5, <2>3 DEF Reached
    <2> QED
      BY <2>4, <2>5
  <1>7. CASE ~(k < l)
    <2>1. x.call = Request(IF x.transaction THEN "lock_pull" ELSE "pull", l, 0, <<>>)
      BY <1>7, BeginStep
    <2>2. PICK op \in {"pull", "lock_pull"} : x.call = Request(op, l, 0, <<>>)
      BY <2>1
    <2>3. m = l
      BY <1>1, <1>7 DEF Min2
    <2>4. Trusted(c)' => Agree(F, slog, l)
      BY <1>5, <2>3
    <2> QED
      BY <1>0, <1>1, <1>2, <1>3, <2>2, <2>4, HistoryPull
  <1> QED
    BY <1>6, <1>7

\* A transaction ends: the push starts at connection_checkpoint.
LEMMA HistoryCommit ==
    ASSUME BasicInv, ChannelInv, HistoryInv, NEW c \in Clients, Commit(c)
    PROVE  CallShape(c)' /\ (Trusted(c)' => Reached(c)')
  <1> DEFINE r == clients[c]
             x == clients'[c]
             F == File(c)
             G == files'[home(c)]
             k == r.connection_checkpoint
             l == Len(F)
             data == SubSeq(G, k + 1, l + 1)
  <1>0. ClientStep(c)
    BY DEF ClientStep, Finish
  <1>1. /\ slog' = slog /\ kind(c)' = kind(c) /\ lost' = lost /\ setup' = setup
        /\ F \in Seq(Nat) /\ slog \in Seq(Nat) /\ k \in Nat /\ l \in Nat
        /\ r.server_checkpoint \in Nat
    BY <1>0, StepFacts, ClientFacts
  <1>2. /\ sessions' = sessions /\ r.pc = "writing" /\ x.link = r.link /\ x.up = r.up
        /\ r.checkpoint = l /\ Len(G) = l + 1 /\ Grows(F, G)
        /\ x.pc = "writing" /\ x.checkpoint = l + 1 /\ x.connection_checkpoint = k
        /\ x.server_checkpoint = r.server_checkpoint /\ x.unchecked = r.unchecked
        /\ x.call = Request("push_unlock", k, l + 1, data)
    BY CommitStep
  <1>3. /\ File(c)' = G /\ G \in Seq(Nat) /\ CallShape(c)
        /\ ~x.unchecked => k <= r.server_checkpoint
    BY <1>0, <1>2, StepFacts
  <1>4. k <= l /\ kind(c) # "follower"
    BY <1>2, <1>3 DEF CallShape
  <1>5. Slice(data, G, k, l + 1)
    <2>1. l + 1 \in Nat /\ l + 1 <= Len(G)
      BY <1>1, <1>2
    <2> HIDE DEF l, k, G
    <2> QED
      BY <1>1, <1>3, <2>1, SliceOf
  <1> HIDE DEF data, G
  <1>6. /\ x.call.op = "push_unlock" /\ x.call.from = k /\ x.call.until = l + 1
        /\ x.call.data = data
    BY <1>2, RequestFields
  <1>7. CallShape(c)'
    <2>1. k <= l + 1 /\ l + 1 <= l + 1
      BY <1>1, <1>4
    <2> QED
      BY <1>1, <1>2, <1>3, <1>4, <1>5, <1>6, <2>1 DEF CallShape
  <1>8. ASSUME Trusted(c)' PROVE Reached(c)'
    <2>1. Trusted(c)
      BY <1>1, <1>2, <1>8, TrustedBefore
    <2>2. Reached(c)
      BY <1>0, <2>1, StepFacts
    <2>3. Min2(k, l) = k /\ Min2(k, l + 1) = k
      BY <1>1, <1>4 DEF Min2
    <2>4. Agree(F, slog, k) /\ Grows(slog, slog)
      BY <1>1, <1>2, <2>2, <2>3 DEF Reached, Grows
    <2>5. Agree(G, slog, k)
      BY <1>1, <1>2, <1>3, <2>4, AgreeGrow
    <2> QED
      BY <1>1, <1>2, <1>3, <1>6, <2>3, <2>5 DEF Reached
  <1> QED
    BY <1>7, <1>8

\* push_if_ahead: the push starts at connection_checkpoint.
LEMMA HistoryPush ==
    ASSUME BasicInv, ChannelInv, HistoryInv, NEW c \in Clients, push_if_ahead(c)
    PROVE  CallShape(c)' /\ (Trusted(c)' => Reached(c)')
  <1> DEFINE r == clients[c]
             x == clients'[c]
             F == File(c)
             k == r.connection_checkpoint
             n == r.checkpoint
             l == Len(F)
  <1>0. ClientStep(c)
    BY DEF ClientStep
  <1>1. /\ slog' = slog /\ kind(c)' = kind(c) /\ lost' = lost /\ setup' = setup
        /\ F \in Seq(Nat) /\ slog \in Seq(Nat) /\ k \in Nat /\ l \in Nat /\ n \in Nat
        /\ r.server_checkpoint \in Nat /\ n <= l
    BY <1>0, StepFacts, ClientFacts DEF LocalOK
  <1>2. /\ files' = files /\ sessions' = sessions /\ r.pc = "idle" /\ r.call = NoCall
        /\ x.link = r.link /\ x.up = r.up
        /\ x.checkpoint = (IF kind(c) = "follower" THEN l ELSE n)
        /\ x.pc = "idle" /\ x.connection_checkpoint = k
        /\ x.server_checkpoint = r.server_checkpoint /\ x.unchecked = r.unchecked
    BY PushIfAheadStep DEF Idle
  <1>3. File(c)' = F /\ CallShape(c) /\ (~x.unchecked => k <= r.server_checkpoint)
    BY <1>0, <1>2, StepFacts DEF File
  <1>4. PICK until \in Nat, op \in {"push", "push_unlock"} :
           /\ k < until /\ until <= x.checkpoint
           /\ x.call = Request(op, k, until, SubSeq(F, k + 1, until))
    BY PushIfAheadStep
  <1> DEFINE data == SubSeq(F, k + 1, until)
  <1>5. until <= l /\ x.checkpoint \in Nat /\ n <= x.checkpoint /\ k <= x.checkpoint
    BY <1>1, <1>2, <1>4
  <1>6. Slice(data, F, k, until)
    BY <1>1, <1>4, <1>5, SliceOf
  <1>7. x.call = Request(op, k, until, data)
    BY <1>4
  <1> HIDE DEF data
  <1>8. x.call.op = op /\ x.call.from = k /\ x.call.until = until /\ x.call.data = data
    BY <1>7, RequestFields
  <1>9. CallShape(c)'
    <2>1. x.call # NoCall
      BY <1>8 DEF NoCall, Request
    <2>2. kind(c) = "follower" => op = "push"
      BY <1>8, PushIfAheadStep
    <2> QED
      BY <1>1, <1>2, <1>3, <1>4, <1>6, <1>8, <2>1, <2>2 DEF CallShape
  <1>10. ASSUME Trusted(c)' PROVE Reached(c)'
    <2>1. Trusted(c)
      BY <1>1, <1>2, <1>10, TrustedBefore
    <2>2. Reached(c)
      BY <1>0, <2>1, StepFacts
    <2>3. Agree(F, slog, Min2(k, n))
      BY <1>2, <2>2 DEF Reached
    <2>4. Min2(k, x.checkpoint) = Min2(k, n)
      <3>1. CASE kind(c) = "follower"
        <4>1. k <= n
          BY <1>2, <1>3, <3>1 DEF CallShape
        <4> QED
          BY <1>1, <1>5, <4>1 DEF Min2
      <3>2. CASE kind(c) # "follower"
        BY <1>2, <3>2
      <3> QED
        BY <3>1, <3>2
    <2> QED
      BY <1>1, <1>2, <1>3, <1>8, <2>3, <2>4 DEF Reached
  <1> QED
    BY <1>9, <1>10

\* check_matching_content returns: the pull starts where both agree.
LEMMA HistoryCheckDone ==
    ASSUME BasicInv, ChannelInv, HistoryInv, NEW c \in Clients, CheckDone(c)
    PROVE  CallShape(c)' /\ (Trusted(c)' => Reached(c)')
  <1> DEFINE r == clients[c]
             x == clients'[c]
             F == File(c)
             k == r.connection_checkpoint
             l == Len(F)
  <1>0. ClientStep(c)
    BY DEF ClientStep, Receive
  <1>1. /\ slog' = slog /\ lost' = lost /\ setup' = setup /\ k \in Nat /\ LocalOK(c)
        /\ CallShape(c) /\ ChannelOK(c)
        /\ kind(c) = "follower" => r.call.op \in {"none", "push"}
    BY <1>0, StepFacts, ClientFacts
  <1>2. /\ files' = files /\ Answered(c) /\ sessions[SessionOf(c)].state = "open"
        /\ x.link = r.link /\ x.up = r.up /\ x.checkpoint = r.checkpoint
        /\ x.server_checkpoint = r.server_checkpoint /\ x.connection_checkpoint = k
        /\ x.unchecked = r.unchecked /\ r.call.op = "check"
    BY CheckDoneStep
  <1>3. Trusted(c)' => Trusted(c)
    BY <1>1, <1>2, TrustedBefore
  <1>4. r.call # NoCall /\ kind(c) # "follower" /\ r.checkpoint = l
    BY <1>1, <1>2 DEF NoCall, Request, LocalOK, Holding
  <1>5. r.pc \in {"idle", "writing"} /\ (~r.unchecked => k <= r.server_checkpoint)
    BY <1>0, <1>4, StepFacts
  <1>6. CASE x.pc = "idle" /\ x.call = NoCall
    BY <1>0, <1>2, <1>3, <1>4, <1>5, <1>6, HistoryReturn
  <1>7. ASSUME AnswerTo(c).code = "check", x.pc = r.pc,
               NEW op \in {"pull", "lock_pull"}, x.call = Request(op, r.checkpoint, 0, <<>>)
        PROVE  CallShape(c)' /\ (Trusted(c)' => Reached(c)')
    <2>1. ASSUME Trusted(c)' PROVE Agree(F, slog, l)
      <3>1. Confirmed(c)
        BY <1>0, <1>3, <2>1, StepFacts
      <3>2. r.call.until = l
        BY <1>1, <1>2, <1>4 DEF CallShape
      <3> QED
        BY <1>2, <1>7, <3>1, <3>2 DEF Confirmed
    <2>2. k <= x.checkpoint /\ x.checkpoint = l
      <3>1. k < r.checkpoint /\ r.checkpoint \in Nat
        BY <1>1, <1>2, ClientFacts DEF CallShape
      <3> QED
        BY <1>1, <1>2, <1>4, <3>1
    <2> QED
      BY <1>0, <1>1, <1>2, <1>4, <1>5, <1>7, <2>1, <2>2, HistoryPull
  <1> QED
    BY <1>6, <1>7, CheckDoneStep

\* What a client has after a pull: what it had and what it has received, or,
\* for a Server_File that had more than its server has, what the server has.
LEMMA PulledLength ==
    ASSUME NEW F \in Seq(Nat), NEW data \in Seq(Nat), NEW n \in Nat, NEW J \in Seq(Nat),
           J = F \o data \/ Punched(F, n, J), n <= Len(F) + Len(data)
    PROVE  n <= Len(J)
  BY DEF Punched

\* It agrees with the server where the answer does.
LEMMA PulledAgrees ==
    ASSUME NEW F \in Seq(Nat), NEW data \in Seq(Nat), NEW n \in Nat, NEW J \in Seq(Nat),
           NEW S \in Seq(Nat), J = F \o data \/ Punched(F, n, J), Agree(F \o data, S, n)
    PROVE  Agree(J, S, n)
  <1>1. CASE Punched(F, n, J)
    <2>1. Len(J) = Len(F) /\ n < Len(F) /\ \A i \in 1..n : J[i] = F[i]
      BY <1>1 DEF Punched
    <2>2. \A i \in 1..n : (F \o data)[i] = F[i]
      BY <2>1
    <2> QED
      BY <2>1, <2>2 DEF Agree
  <1> QED
    BY <1>1

\* A pull returns: the client has the journal up to the checkpoint of the
\* answer.
LEMMA HistoryPullDone ==
    ASSUME BasicInv, ChannelInv, PullInv, HistoryInv, NEW c \in Clients, PullDone(c)
    PROVE  CallShape(c)' /\ (Trusted(c)' => Reached(c)')
  <1> DEFINE r == clients[c]
             x == clients'[c]
             a == AnswerTo(c)
             F == File(c)
             k == r.connection_checkpoint
             l == Len(F)
  <1>0. ClientStep(c)
    BY DEF ClientStep, Receive
  <1>1. /\ slog' = slog /\ lost' = lost /\ setup' = setup /\ kind(c)' = kind(c)
        /\ F \in Seq(Nat) /\ l \in Nat /\ File(c)' = files'[home(c)]
        /\ kind(c) = "follower" => r.call.op \in {"none", "push"}
    BY <1>0, StepFacts, ClientFacts
  <1>2. /\ Answered(c) /\ sessions[SessionOf(c)].state = "open" /\ a \in AnswerT
        /\ x.link = r.link /\ x.up = r.up /\ x.unchecked = r.unchecked /\ x.call = NoCall
        /\ r.call.op \in {"pull", "lock_pull"} /\ r.call.from = l
    BY PullDoneStep
  <1>3. Trusted(c)' => Trusted(c)
    BY <1>1, <1>2, TrustedBefore
  <1>4. r.call # NoCall /\ kind(c) # "follower" /\ NoCall.op = "none"
    BY <1>1, <1>2 DEF NoCall, Request
  <1>5. r.pc \in {"idle", "writing"} /\ (~r.unchecked => k <= r.server_checkpoint)
    BY <1>0, <1>4, StepFacts
  <1>6. CASE /\ files' = files /\ x.pc = "idle" /\ x.checkpoint = r.checkpoint
             /\ x.server_checkpoint = r.server_checkpoint /\ x.connection_checkpoint = k
    BY <1>0, <1>2, <1>3, <1>4, <1>5, <1>6, HistoryReturn
  <1>7. CASE a.code = r.call.op
    <2> DEFINE J == files'[home(c)]
    <2>1. /\ J \in Seq(Nat) /\ x.checkpoint = Len(J) /\ x.server_checkpoint = a.checkpoint
          /\ x.connection_checkpoint = a.checkpoint
          /\ J = F \o a.data \/ Punched(F, a.checkpoint, J)
      BY <1>7, PullDoneStep
    <2>2. a.data \in Seq(Nat) /\ a.checkpoint \in Nat /\ Len(a.data) \in Nat
      BY <1>2 DEF AnswerT
    <2>3. PullAnswered(c)
      BY <1>2, <1>7 DEF PullAnswered
    <2>4. a.checkpoint <= Len(J)
      <3>1. a.checkpoint <= l + Len(a.data)
        BY <1>2, <2>3 DEF PullInv
      <3> QED
        BY <1>1, <2>1, <2>2, <3>1, PulledLength
    <2>5. x.checkpoint \in Nat /\ Min2(a.checkpoint, x.checkpoint) = a.checkpoint
      BY <2>1, <2>2, <2>4 DEF Min2
    <2>6. CallShape(c)'
      BY <1>1, <1>2, <1>4, <2>1, <2>2, <2>4 DEF CallShape
    <2>7. ASSUME Trusted(c)' PROVE Reached(c)'
      <3>1. Confirmed(c)
        BY <1>0, <1>3, <2>7, StepFacts
      <3>2. Agree(F \o a.data, slog, a.checkpoint)
        BY <1>2, <1>7, <3>1 DEF Confirmed
      <3>3. Agree(J, slog, a.checkpoint)
        <4>1. slog \in Seq(Nat)
          BY ClientFacts
        <4> HIDE DEF J, a, F
        <4> QED
          BY <1>1, <2>1, <2>2, <3>2, <4>1, PulledAgrees
      <3> HIDE DEF J
      <3> QED
        BY <1>1, <1>2, <1>4, <2>1, <2>5, <3>3 DEF Reached, J
    <2> QED
      BY <2>6, <2>7
  <1>9. CASE a.code # r.call.op
    <2>1. /\ files' = files /\ x.pc = "idle" /\ x.checkpoint = r.checkpoint
          /\ x.server_checkpoint = r.server_checkpoint /\ x.connection_checkpoint = k
      BY <1>9, PullDoneStep
    <2> QED
      BY <1>6, <2>1
  <1> QED
    BY <1>7, <1>9

\* A push returns: the server has the journal of the client up to the end of
\* the push.
LEMMA HistoryPushDone ==
    ASSUME BasicInv, ChannelInv, HistoryInv, NEW c \in Clients, PushDone(c)
    PROVE  CallShape(c)' /\ (Trusted(c)' => Reached(c)')
  <1> DEFINE r == clients[c]
             x == clients'[c]
             a == AnswerTo(c)
             F == File(c)
             k == r.connection_checkpoint
             n == r.checkpoint
  <1>0. ClientStep(c)
    BY DEF ClientStep, Receive
  <1>1. /\ slog' = slog /\ lost' = lost /\ setup' = setup /\ kind(c)' = kind(c)
        /\ n \in Nat /\ r.call \in RequestT /\ CallShape(c) /\ File(c)' = files'[home(c)]
    BY <1>0, StepFacts, ClientFacts
  <1>2. /\ Answered(c) /\ sessions[SessionOf(c)].state = "open" /\ files' = files
        /\ x.link = r.link /\ x.unchecked = r.unchecked /\ x.checkpoint = n
        /\ r.call.op \in {"push", "push_unlock"} /\ r.up
    BY PushDoneStep DEF Answered
  <1>3. Trusted(c)' => Trusted(c)
    BY <1>1, <1>2, TrustedBefore
  <1>4. r.call # NoCall /\ NoCall.op = "none"
    BY <1>1, <1>2 DEF NoCall, Request
  <1>5. r.pc \in {"idle", "writing"} /\ (~r.unchecked => k <= r.server_checkpoint)
    BY <1>0, <1>4, StepFacts
  <1>6. CASE /\ x.pc = r.pc /\ x.call = r.call
             /\ x.server_checkpoint = r.server_checkpoint /\ x.connection_checkpoint = k
    BY <1>0, <1>2, <1>3, <1>6, HistoryKeep
  <1>7. CASE /\ a.code = r.call.op /\ x.pc = "idle" /\ x.call = NoCall
             /\ x.server_checkpoint = r.call.until /\ x.connection_checkpoint = r.call.until
    <2>1. r.call.until \in Nat /\ r.call.until <= n /\ File(c)' = F
      BY <1>1, <1>2 DEF CallShape, RequestT, File
    <2>2. Min2(r.call.until, n) = r.call.until /\ r.call.until <= r.call.until
      BY <1>1, <2>1 DEF Min2
    <2>3. CallShape(c)'
      BY <1>1, <1>2, <1>4, <1>7, <2>1, <2>2 DEF CallShape
    <2>4. ASSUME Trusted(c)' PROVE Reached(c)'
      <3>1. Confirmed(c)
        BY <1>0, <1>3, <2>4, StepFacts
      <3>2. Agree(F, slog, r.call.until)
        BY <1>2, <1>7, <3>1 DEF Confirmed
      <3> QED
        BY <1>1, <1>2, <1>4, <1>7, <2>1, <2>2, <3>2 DEF Reached
    <2> QED
      BY <2>3, <2>4
  <1>8. CASE /\ x.pc \in {"idle", "failed"} /\ x.call = NoCall
             /\ x.pc = "idle" => r.call.op # "push" \/ r.call.data # <<>>
             /\ x.server_checkpoint = r.server_checkpoint /\ x.connection_checkpoint = k
    <2>1. kind(c) = "follower" /\ x.pc = "idle" => k <= n
      <3>1. kind(c) = "follower" /\ x.pc = "idle" => r.call.data # <<>>
        <4>1. kind(c) = "follower" => r.call.op = "push"
          BY <1>1, <1>2 DEF CallShape
        <4> QED
          BY <1>8, <4>1
      <3> QED
        BY <1>1, <1>2, <3>1, PushAhead
    <2> QED
      BY <1>0, <1>2, <1>3, <1>5, <1>8, <2>1, HistoryReturn
  <1> QED
    BY <1>6, <1>7, <1>8, PushDoneStep

\* The client that takes a step.
LEMMA HistoryOwn ==
    ASSUME BasicInv, ChannelInv, PullInv, HistoryInv, NEW c \in Clients, ClientStep(c),
           ~AppendLocally(c)
    PROVE  CallShape(c)' /\ (Trusted(c)' => Reached(c)')
  <1> DEFINE r == clients[c]
             x == clients'[c]
             s == SessionOf(c)
  <1>0. /\ slog' = slog /\ lost' = lost /\ setup' = setup
        /\ kind(c) = "follower" => r.call.op \in {"none", "push"}
        /\ r.call # NoCall => r.pc \in {"idle", "writing"}
        /\ r.pc \in {"idle", "writing"} /\ ~r.unchecked =>
              r.connection_checkpoint <= r.server_checkpoint
        /\ CallShape(c)
    BY StepFacts
  <1>a. NoCall.op = "none"
    BY DEF NoCall, Request
  <1>1. CASE Close(c) \/ Crash(c)
    <2>1. r.pc # "down" /\ Gone(c) /\ faults' \in Nat
      BY <1>1 DEF Close, Crash, BasicInv, TypeOK
    <2>2. x = NewClient(r.link) /\ kind(c)' = kind(c)
      BY <2>1, GoneStep, StepFacts
    <2>3. x.pc = "down" /\ x.call = NoCall
      BY <2>2 DEF NewClient
    <2> QED
      BY <1>a, <2>2, <2>3 DEF CallShape, Reached
  <1>2. CASE Break(c) \/ Notice(c)
    <2>1. r.up /\ ChannelThrows(c) /\ faults' \in Nat
      BY <1>2 DEF Break, Notice, BasicInv, TypeOK
    <2>2. /\ s \in Session /\ files' = files /\ x.link = r.link /\ x.up = FALSE
          /\ x.checkpoint = r.checkpoint /\ x.server_checkpoint = r.server_checkpoint
          /\ x.connection_checkpoint = r.connection_checkpoint /\ x.unchecked = r.unchecked
          /\ \/ x.pc = r.pc /\ x.call = r.call
             \/ x.pc = "idle" /\ x.call = NoCall /\ r.call.op = "unlock"
      BY <2>1, ThrowsStep
    <2>3. ASSUME Trusted(c)' PROVE Trusted(c)
      BY <1>0, <2>2, <2>3 DEF Trusted
    <2>4. CASE x.pc = r.pc /\ x.call = r.call
      BY <2>2, <2>3, <2>4, HistoryKeep
    <2>5. CASE x.pc = "idle" /\ x.call = NoCall /\ r.call.op = "unlock"
      <3>1. r.call # NoCall /\ kind(c) # "follower"
        BY <1>0, <1>a, <2>5
      <3> QED
        BY <1>0, <2>2, <2>3, <2>5, <3>1, HistoryReturn
    <2> QED
      BY <2>2, <2>4, <2>5
  <1>3. CASE Abort(c)
    <2>1. /\ files' = files /\ sessions' = sessions /\ r.pc = "writing"
          /\ x.link = r.link /\ x.up = r.up
          /\ x.checkpoint = r.checkpoint /\ x.server_checkpoint = r.server_checkpoint
          /\ x.connection_checkpoint = r.connection_checkpoint /\ x.unchecked = r.unchecked
          /\ x.pc \in {"idle", "writing"}
          /\ (x.call = NoCall /\ x.pc = "idle") \/ x.call.op = "unlock"
      BY <1>3, AbortStep
    <2>2. kind(c) # "follower" /\ r.connection_checkpoint <= r.checkpoint
      BY <1>0, <2>1 DEF CallShape
    <2>3. Trusted(c)' => Trusted(c)
      BY <1>0, <2>1, TrustedBefore
    <2>4. CASE x.call = NoCall /\ x.pc = "idle"
      BY <1>0, <2>1, <2>2, <2>3, <2>4, HistoryReturn
    <2>5. CASE x.call.op = "unlock"
      <3>1. File(c)' = File(c) /\ kind(c)' = kind(c)
        BY <2>1, StepFacts DEF File
      <3>2. CallShape(c)'
        BY <1>0, <2>1, <2>2, <2>5, <3>1 DEF CallShape
      <3>3. ASSUME Trusted(c)' PROVE Reached(c)'
        <4>1. Reached(c)
          BY <2>3, <3>3, StepFacts
        <4> QED
          BY <1>0, <2>1, <2>5, <3>1, <4>1 DEF Reached
      <3> QED
        BY <3>2, <3>3
    <2> QED
      BY <2>1, <2>4, <2>5
  <1>4. CASE Send(c)
    <2>1. /\ s \in Session /\ sessions[s].state = "open" /\ files' = files
          /\ x = [r EXCEPT !.sent = TRUE]
      BY <1>4, SendStep, PutOthers DEF Send
    <2>2. /\ x.link = r.link /\ x.up = r.up /\ x.pc = r.pc /\ x.call = r.call
          /\ x.checkpoint = r.checkpoint /\ x.server_checkpoint = r.server_checkpoint
          /\ x.connection_checkpoint = r.connection_checkpoint /\ x.unchecked = r.unchecked
      BY <2>1, ClientFacts DEF ClientT
    <2>3. Trusted(c)' => Trusted(c)
      BY <1>0, <2>1, <2>2, TrustedBefore
    <2> QED
      BY <2>1, <2>2, <2>3, HistoryKeep
  <1>5. CASE KeepAlive(c) \/ KeptAlive(c)
    <2>1. files' = files /\ clients' = clients /\ sessions[s].state = "open"
      BY <1>5, KeptAliveStep DEF KeepAlive, KeptAlive
    <2>2. Trusted(c)' => Trusted(c)
      BY <1>0, <2>1, TrustedBefore
    <2> QED
      BY <2>1, <2>2, HistoryKeep
  <1>6. CASE UnlockDone(c)
    <2>1. /\ files' = files /\ sessions[s].state = "open" /\ r.call.op = "unlock"
          /\ x.link = r.link /\ x.up = r.up /\ x.pc = "idle" /\ x.call = NoCall
          /\ x.checkpoint = r.checkpoint /\ x.server_checkpoint = r.server_checkpoint
          /\ x.connection_checkpoint = r.connection_checkpoint /\ x.unchecked = r.unchecked
      BY <1>6, UnlockDoneStep
    <2>2. Trusted(c)' => Trusted(c)
      BY <1>0, <2>1, TrustedBefore
    <2>3. r.call # NoCall /\ kind(c) # "follower"
      BY <1>0, <1>a, <2>1
    <2> QED
      BY <1>0, <2>1, <2>2, <2>3, HistoryReturn
  <1> QED
    BY <1>1, <1>2, <1>3, <1>4, <1>5, <1>6, HistoryOpen, HistoryReconnect, HistoryBegin,
       HistoryCommit, HistoryPush, HistoryCheckDone, HistoryPullDone, HistoryPushDone
       DEF ClientStep, Finish, Receive

\* The client that takes a step, its answers included.
LEMMA HistoryClient ==
    ASSUME BasicInv, ChannelInv, PullInv, HistoryInv, NEW c \in Clients, ClientStep(c)
    PROVE  HistoryOK(c)'
  <1>1. CASE AppendLocally(c)
    <2>1. /\ clients' = clients /\ sessions' = sessions /\ tails[home(c)] = None
          /\ Grows(File(c), files'[home(c)])
      BY <1>1, AppendLocallyStep
    <2>2. /\ slog' = slog /\ lost' = lost /\ setup' = setup /\ slog \in Seq(Nat)
          /\ HistoryOK(c) /\ files' \in [Files -> Seq(Nat)] /\ None # c
      BY ClientFacts, ClientFrame, ClientsKeepServer, NoneAssumption
         DEF HistoryInv, Stepped, Frame, TypeOK
    <2>3. Trusted(c)' => Trusted(c)
      BY <2>1, <2>2, TrustedBefore
    <2>4. Grows(slog, slog')
      BY <2>2 DEF Grows
    <2>5. /\ CallShape(c)'
          /\ Trusted(c)' => Reached(c)'
          /\ Trusted(c)' /\ Answered(c) /\ AnswerTo(c)' = AnswerTo(c) => Confirmed(c)'
      BY <2>1, <2>2, <2>3, <2>4, HistorySame
    <2>6. AnswerTo(c)' = AnswerTo(c) /\ Answered(c)' = Answered(c)
      BY <2>1 DEF AnswerTo, Answered, SessionOf
    <2>7. ~Answered(c)' => Confirmed(c)'
      BY DEF Confirmed
    <2> QED
      BY <2>5, <2>6, <2>7 DEF HistoryOK
  <1>2. CASE ~AppendLocally(c)
    <2>1. Confirmed(c)'
      BY <1>2, AnsweredClient DEF Confirmed
    <2>2. CallShape(c)' /\ (Trusted(c)' => Reached(c)')
      BY <1>2, HistoryOwn
    <2> QED
      BY <2>1, <2>2 DEF HistoryOK
  <1> QED
    BY <1>1, <1>2

\* Every step keeps the history.
LEMMA HistoryNext ==
    BasicInv /\ ChannelInv /\ PullInv /\ HistoryInv /\ [Next]_vars => HistoryInv'
  <1> SUFFICES ASSUME BasicInv, ChannelInv, PullInv, HistoryInv, [Next]_vars
               PROVE  HistoryInv'
    OBVIOUS
  <1>1. CASE UNCHANGED vars
    BY <1>1 DEF vars, HistoryInv, HistoryOK, CallShape, Reached, Confirmed, Trusted, Answered,
                AnswerTo, SessionOf, File, home, kind
  <1>2. ASSUME NEW s \in Session, ServerStep(s) \/ Timeout(s) PROVE HistoryInv'
    BY <1>2, HistoryServer
  <1>3. CASE Restart
    BY <1>3, HistoryRestart
  <1>4. ASSUME NEW d \in Clients, ClientStep(d) PROVE HistoryInv'
    BY <1>4, HistoryClient, HistoryFrame DEF HistoryInv
  <1> QED
    BY <1>1, <1>2, <1>3, <1>4 DEF Next, ClientStep

\* The invariants hold in every state.
LEMMA HistoryInvariant == Spec => [](BasicInv /\ ChannelInv /\ PullInv /\ HistoryInv)
  <1>1. Init => PullInv /\ HistoryInv
    BY PullInit, HistoryInit
  <1>2. BasicInv /\ ChannelInv /\ PullInv /\ [Next]_vars => PullInv'
    BY PullNext
  <1> QED
    BY <1>1, <1>2, HistoryNext, BasicInvariant, PTL DEF Spec

\* LinearHistory, for every number of clients, files and transactions, and
\* any number of failures.
THEOREM HistoryIsLinear == Spec => []LinearHistory
  <1>1. BasicInv /\ HistoryInv => LinearHistory
    <2> SUFFICES ASSUME BasicInv, HistoryInv, NEW c \in Clients,
                        clients[c].pc \in {"idle", "writing"}, Trusted(c)
                 PROVE  LET n == Min2(clients[c].connection_checkpoint, clients[c].checkpoint)
                        IN Take(File(c), n) = Take(slog, n)
      BY DEF LinearHistory
    <2> DEFINE n == Min2(clients[c].connection_checkpoint, clients[c].checkpoint)
    <2>1. n \in Nat /\ File(c) \in Seq(Nat) /\ slog \in Seq(Nat)
      BY ClientFacts DEF Min2
    <2>2. Agree(File(c), slog, n)
      BY DEF HistoryInv, HistoryOK, Reached
    <2> QED
      BY <2>1, <2>2, AgreeTake
  <1> QED
    BY <1>1, HistoryInvariant, PTL

(***************************************************************************)
(* A client that writes.                                                   *)
(***************************************************************************)

\* The client writes, its session has the lock, and it has compared its
\* journal.
Writes(c) ==
    /\ clients[c].pc = "writing" /\ clients[c].call = NoCall
    /\ holder = SessionOf(c) /\ ~clients[c].unchecked
    /\ kind(c) # "server_file" \/ lost = {}

\* A transaction pulls with the lock; between the pull and the push, its
\* session has nothing to do that takes the lock or writes; when its pull is
\* answered and while it writes, it is where the server is, as long as it has
\* the lock.
WriterOK(c) ==
    LET r == clients[c]
        s == SessionOf(c)
    IN /\ r.call.op = "pull" => ~r.transaction
       /\ r.pc = "writing" /\ r.call = NoCall => sessions[s].requests \in {<<>>, <<Ping>>}
       /\ Answered(c) /\ r.call.op = "lock_pull" /\ AnswerTo(c).code = "lock_pull" /\ holder = s
             => AnswerTo(c).checkpoint = Len(slog)
       /\ Writes(c) => /\ r.connection_checkpoint = Len(slog)
                       /\ Agree(File(c), slog, r.connection_checkpoint)

WriterInv == \A c \in Clients : WriterOK(c)

\* No client writes at first.
LEMMA WriterInit == Init => WriterInv
  <1> SUFFICES ASSUME Init, NEW c \in Clients PROVE WriterOK(c)
    BY DEF WriterInv
  <1>1. clients[c] = NewClient(0)
    BY DEF Init
  <1>2. /\ clients[c].pc = "down" /\ clients[c].call.op = "none"
        /\ clients[c].up = FALSE
    BY <1>1 DEF NewClient, NoCall, Request
  <1> QED
    BY <1>2 DEF WriterOK, Writes, Answered

\* Who has the lock after a step of the server.
LEMMA ServerHolds ==
    ASSUME BasicInv, NEW s \in Session, ServerStep(s) \/ Timeout(s)
    PROVE  \/ holder' = holder /\ slog' = slog
           \/ holder' = None
           \/ /\ holder' = s /\ sessions[s].requests # <<>>
              /\ Head(sessions[s].requests).op \in {"lock_pull", "push", "push_unlock"}
  <1>1. CASE ServerCheck(s)
    BY <1>1, CheckStep
  <1>2. CASE ServerPull(s)
    <2>1. sessions[s].requests # <<>>
      BY <1>2 DEF ServerPull, Receives
    <2> QED
      BY <1>2, <2>1, PullStep
  <1>3. CASE ServerPush(s)
    BY <1>3, PushStep
  <1>4. CASE ServerUnlock(s)
    BY <1>4, UnlockStep
  <1>5. CASE ServerRelock(s) \/ ServerDrop(s)
    BY <1>5, DropStep
  <1>6. CASE Timeout(s)
    BY <1>6, TimeoutStep DEF Timeout
  <1> QED
    BY <1>1, <1>2, <1>3, <1>4, <1>5, <1>6 DEF ServerStep

\* The server writes for nobody but the holder of its lock, and the session
\* of a client that writes has no request that writes.
LEMMA WriterServer ==
    ASSUME BasicInv, ChannelInv, WriterInv, NEW s \in Session, ServerStep(s) \/ Timeout(s)
    PROVE  WriterInv'
  <1> SUFFICES ASSUME NEW c \in Clients PROVE WriterOK(c)'
    BY DEF WriterInv
  <1> DEFINE r == clients[c]
             t == SessionOf(c)
             q == Head(sessions[s].requests)
  <1>1. /\ Touched(s) /\ UNCHANGED <<setup, files, tails, clients, lost>>
        /\ WriterOK(c) /\ r \in ClientT /\ LocalOK(c)
    BY ServerTouches, ClientFacts DEF WriterInv
  <1>2. SessionOf(c)' = t /\ File(c)' = File(c) /\ kind(c)' = kind(c) /\ clients'[c] = r
    BY <1>1 DEF SessionOf, File, home, kind
  <1>3. r.pc = "writing" => t \in Session /\ t # None
    BY HasSession, NoneAssumption
  <1>4. ASSUME r.pc = "writing", r.call = NoCall
        PROVE  sessions'[t].requests \in {<<>>, <<Ping>>}
    <2>1. sessions[t].requests \in {<<>>, <<Ping>>} /\ t \in Session
      BY <1>1, <1>3, <1>4 DEF WriterOK
    <2>2. CASE sessions' = sessions
      BY <2>1, <2>2
    <2>3. CASE sessions' = [sessions EXCEPT ![s] = NoSession]
      BY <2>1, <2>3 DEF NoSession, NewSession, BasicInv, TypeOK
    <2>4. ASSUME NEW a, Replied(s, a) PROVE sessions'[t].requests \in {<<>>, <<Ping>>}
      BY <2>1, <2>4 DEF Replied, BasicInv, TypeOK
    <2> QED
      BY <1>1, <2>2, <2>3, <2>4 DEF Touched
  <1>5. ASSUME r.pc = "writing", r.call = NoCall, holder' = t
        PROVE  holder = t /\ slog' = slog
    <2>1. sessions[t].requests \in {<<>>, <<Ping>>}
      BY <1>1, <1>5 DEF WriterOK
    <2>2. Ping.op = "ping" /\ Head(<<Ping>>) = Ping
      BY DEF Ping, Request
    <2>3. ~(s = t /\ sessions[s].requests # <<>> /\ q.op \in {"lock_pull", "push", "push_unlock"})
      BY <2>1, <2>2
    <2> QED
      BY <1>3, <1>5, <2>3, ServerHolds
  <1>6. Writes(c)' => /\ r.connection_checkpoint = Len(slog')
                      /\ Agree(File(c), slog', r.connection_checkpoint)
    <2> HAVE Writes(c)'
    <2>1. r.pc = "writing" /\ r.call = NoCall /\ holder' = t
      BY <1>2 DEF Writes
    <2>2. holder = t /\ slog' = slog
      BY <1>5, <2>1
    <2>3. Writes(c)
      BY <1>1, <1>2, <2>1, <2>2 DEF Writes
    <2> QED
      BY <1>1, <2>2, <2>3 DEF WriterOK
  <1>7. ASSUME Answered(c)', r.call.op = "lock_pull", AnswerTo(c)'.code = "lock_pull", holder' = t
        PROVE  AnswerTo(c)'.checkpoint = Len(slog')
    <2>0. t \in Session /\ t # None
      BY <1>1, <1>7, UpSession, NoneAssumption DEF Answered
    <2>1. CASE Answered(c) /\ AnswerTo(c)' = AnswerTo(c)
      <3>1. sessions[t].requests = <<>>
        BY <2>1, AnsweredFacts
      <3>2. holder = t /\ slog' = slog
        BY <1>7, <2>0, <3>1, ServerHolds
      <3> QED
        BY <1>1, <1>7, <2>1, <3>2 DEF WriterOK
    <2>2. CASE /\ s = t /\ sessions[s].state = "open" /\ q = r.call /\ Replied(s, AnswerTo(c)')
      <3>1. slog' = slog /\ AnswerTo(c)'.checkpoint = Len(slog)
        BY <1>7, <2>2, AnswerSent
      <3> QED
        BY <3>1
    <2> QED
      BY <1>1, <1>7, <2>1, <2>2, AnsweredServer
  <1> QED
    BY <1>1, <1>2, <1>4, <1>6, <1>7 DEF WriterOK

\* The other clients, when one of them takes a step.
LEMMA WriterFrame ==
    ASSUME BasicInv, WriterInv, NEW d \in Clients, ClientStep(d), NEW c \in Clients, c # d
    PROVE  WriterOK(c)'
  <1> DEFINE r == clients[c]
             t == SessionOf(c)
  <1>1. /\ Frame(d) /\ slog' = slog /\ lost' = lost /\ holder' = holder
        /\ WriterOK(c) /\ LocalOK(c) /\ r \in ClientT
    BY ClientFrame, ClientsKeepServer, ClientFacts DEF Stepped, WriterInv
  <1>2. /\ clients'[c] = r /\ setup' = setup
        /\ tails[home(c)] = c => files'[home(c)] = File(c)
    BY <1>1 DEF Frame, OtherClients, OtherFiles
  <1>3. SessionOf(c)' = t /\ File(c)' = files'[home(c)] /\ kind(c)' = kind(c)
    BY <1>2, SameSetup DEF SessionOf
  <1>4. r.pc = "writing" => /\ sessions'[t] = sessions[t] /\ File(c)' = File(c)
    <2> HAVE r.pc = "writing"
    <2>1. t \in Session /\ tails[home(c)] = c
      BY <1>1, HasSession DEF LocalOK, Holding
    <2>2. sessions'[t] = sessions[t]
      BY <1>1, <2>1 DEF Frame, OtherSessions, SessionOf, Session
    <2> QED
      BY <1>2, <1>3, <2>1, <2>2
  <1>5. Answered(c)' => Answered(c) /\ AnswerTo(c)' = AnswerTo(c)
    BY <1>1, AnsweredFrame
  <1>6. Writes(c)' => Writes(c)
    BY <1>1, <1>2, <1>3 DEF Writes
  <1>7. r.pc = "writing" /\ r.call = NoCall => sessions'[t].requests \in {<<>>, <<Ping>>}
    BY <1>1, <1>4 DEF WriterOK
  <1>8. Writes(c)' => /\ r.connection_checkpoint = Len(slog')
                      /\ Agree(File(c)', slog', r.connection_checkpoint)
    <2> HAVE Writes(c)'
    <2>1. Writes(c) /\ r.pc = "writing"
      BY <1>6 DEF Writes
    <2> QED
      BY <1>1, <1>4, <2>1 DEF WriterOK
  <1>9. r.call.op = "pull" => ~r.transaction
    BY <1>1 DEF WriterOK
  <1>10. Answered(c)' /\ r.call.op = "lock_pull" /\ AnswerTo(c)'.code = "lock_pull" /\ holder' = t
         => AnswerTo(c)'.checkpoint = Len(slog')
    BY <1>1, <1>5 DEF WriterOK
  <1> QED
    BY <1>2, <1>3, <1>7, <1>8, <1>9, <1>10 DEF WriterOK

\* A step of a client that is then not writing, or has a call.
LEMMA WriterBusy ==
    ASSUME NEW c \in Clients, ~Answered(c)',
           clients'[c].pc # "writing" \/ clients'[c].call # NoCall,
           clients'[c].call.op = "pull" => ~clients'[c].transaction
    PROVE  WriterOK(c)'
  BY DEF WriterOK, Writes

\* A step of a client that writes.
LEMMA WriterStays ==
    ASSUME BasicInv, WriterInv, NEW c \in Clients, ClientStep(c), files' = files, ~Answered(c)',
           clients'[c].pc = clients[c].pc, clients'[c].call = clients[c].call,
           clients'[c].transaction = clients[c].transaction,
           clients'[c].link = clients[c].link,
           clients'[c].unchecked = clients[c].unchecked,
           clients'[c].connection_checkpoint = clients[c].connection_checkpoint,
           sessions'[SessionOf(c)].requests \in {<<>>, <<Ping>>, sessions[SessionOf(c)].requests}
    PROVE  WriterOK(c)'
  <1>1. /\ setup' = setup /\ slog' = slog /\ lost' = lost /\ holder' = holder /\ WriterOK(c)
    BY ClientFrame, ClientsKeepServer DEF Stepped, Frame, WriterInv
  <1>2. SessionOf(c)' = SessionOf(c) /\ File(c)' = File(c) /\ kind(c)' = kind(c)
    BY <1>1 DEF SessionOf, File, home, kind
  <1>3. Writes(c)' => Writes(c)
    BY <1>1, <1>2 DEF Writes
  <1> QED
    BY <1>1, <1>2, <1>3 DEF WriterOK

\* The pull of a transaction returns: while its session has the lock, the
\* server is where it was when it answered.
LEMMA WriterPullDone ==
    ASSUME BasicInv, ChannelInv, PullInv, HistoryInv, WriterInv, NEW c \in Clients, PullDone(c)
    PROVE  WriterOK(c)'
  <1> DEFINE r == clients[c]
             x == clients'[c]
             a == AnswerTo(c)
             t == SessionOf(c)
             F == File(c)
             q == [state |-> "open", requests |-> <<>>, answers |-> <<>>]
  <1>0. ClientStep(c) /\ NoCall.op = "none"
    BY DEF ClientStep, Receive, NoCall, Request
  <1>1. /\ setup' = setup /\ slog' = slog /\ lost' = lost /\ holder' = holder /\ WriterOK(c)
        /\ kind(c)' = kind(c) /\ File(c)' = files'[home(c)]
        /\ Trusted(c) => Confirmed(c)
    BY <1>0, StepFacts, ClientsKeepServer DEF WriterInv
  <1>2. /\ Answered(c) /\ t \in Session /\ sessions[t].state = "open" /\ r.up
        /\ sessions' = [sessions EXCEPT ![t] = q]
        /\ x.link = r.link /\ x.unchecked = r.unchecked /\ x.call = NoCall
        /\ r.call.op \in {"pull", "lock_pull"}
    BY PullDoneStep DEF Answered
  <1>3. sessions'[t].requests = <<>> /\ SessionOf(c)' = t
    <2>1. sessions'[t] = q
      BY <1>2, SessionAssigned
    <2> QED
      BY <1>2, <2>1 DEF SessionOf
  <1>4. ~Answered(c)'
    <2>1. ~AppendLocally(c)
      <3>1. tails[home(c)] = c /\ c # None
        BY PullDoneStep, NoneAssumption
      <3> QED
        BY <3>1 DEF AppendLocally
    <2> QED
      BY <1>0, <2>1, AnsweredClient
  <1>5. CASE x.pc # "writing"
    BY <1>0, <1>2, <1>4, <1>5, WriterBusy
  <1>6. CASE x.pc = "writing"
    <2> DEFINE J == files'[home(c)]
    <2>1. /\ a.code = r.call.op /\ J \in Seq(Nat)
          /\ J = F \o a.data \/ Punched(F, a.checkpoint, J)
          /\ x.connection_checkpoint = a.checkpoint /\ r.transaction
      BY <1>6, PullDoneStep
    <2>a. /\ a.data \in Seq(Nat) /\ a.checkpoint \in Nat /\ F \in Seq(Nat)
          /\ slog \in Seq(Nat)
      BY PullDoneStep, ClientFacts DEF AnswerT
    <2>2. r.call.op = "lock_pull"
      BY <1>1, <1>2, <2>1 DEF WriterOK
    <2>3. ASSUME Writes(c)'
          PROVE  a.checkpoint = Len(slog) /\ Agree(J, slog, a.checkpoint)
      <3>1. holder = t /\ ~r.unchecked /\ (kind(c) # "server_file" \/ lost = {})
        BY <1>1, <1>2, <1>3, <2>3 DEF Writes
      <3>2. Trusted(c)
        BY <1>2, <3>1 DEF Trusted
      <3>3. a.checkpoint = Len(slog) /\ Agree(F \o a.data, slog, a.checkpoint)
        BY <1>1, <1>2, <2>1, <2>2, <3>1, <3>2 DEF WriterOK, Confirmed
      <3> HIDE DEF J, a
      <3> QED
        BY <2>1, <2>a, <3>3, PulledAgrees
    <2> QED
      BY <1>0, <1>1, <1>2, <1>3, <1>4, <2>1, <2>3 DEF WriterOK
  <1> QED
    BY <1>5, <1>6

\* The client that takes a step.
LEMMA WriterClient ==
    ASSUME BasicInv, ChannelInv, PullInv, HistoryInv, WriterInv, NEW c \in Clients, ClientStep(c)
    PROVE  WriterOK(c)'
  <1> DEFINE r == clients[c]
             x == clients'[c]
             t == SessionOf(c)
  <1>0. /\ NoCall.op = "none" /\ WriterOK(c) /\ LocalOK(c) /\ c # None /\ r \in ClientT
    BY ClientFacts, NoneAssumption DEF NoCall, Request, WriterInv
  <1>a. CASE AppendLocally(c)
    <2>1. clients' = clients /\ sessions' = sessions /\ tails[home(c)] = None
      BY <1>a, AppendLocallyStep
    <2>2. r.pc # "writing" /\ slog' = slog /\ holder' = holder
      BY <1>0, <2>1, ClientsKeepServer DEF LocalOK, Holding
    <2>3. SessionOf(c)' = t /\ Answered(c)' = Answered(c) /\ AnswerTo(c)' = AnswerTo(c)
      BY <2>1 DEF SessionOf, Answered, AnswerTo
    <2> QED
      BY <1>0, <2>1, <2>2, <2>3 DEF WriterOK, Writes
  <1>b. ~AppendLocally(c) => ~Answered(c)'
    BY AnsweredClient
  <1> SUFFICES ASSUME ~AppendLocally(c), ~Answered(c)' PROVE WriterOK(c)'
    BY <1>a, <1>b
  <1>1. CASE Open(c)
    BY <1>1, OpenStep, WriterBusy
  <1>2. CASE Close(c) \/ Crash(c)
    <2>1. r.pc # "down" /\ Gone(c) /\ faults' \in Nat
      BY <1>2 DEF Close, Crash, BasicInv, TypeOK
    <2>2. x = NewClient(r.link)
      BY <2>1, GoneStep
    <2>3. x.pc = "down" /\ x.call = NoCall
      BY <2>2 DEF NewClient
    <2> QED
      BY <1>0, <2>3, WriterBusy
  <1>3. CASE Break(c) \/ Notice(c)
    <2>1. r.up /\ ChannelThrows(c) /\ faults' \in Nat
      BY <1>3 DEF Break, Notice, BasicInv, TypeOK
    <2>2. /\ t \in Session /\ files' = files /\ x.link = r.link
          /\ x.connection_checkpoint = r.connection_checkpoint /\ x.unchecked = r.unchecked
          /\ \/ x.pc = r.pc /\ x.call = r.call /\ x.transaction = r.transaction
             \/ x.pc = "idle" /\ x.call = NoCall
      BY <2>1, ThrowsStep
    <2>3. PICK q : sessions' = [sessions EXCEPT ![t] = q] /\ q.requests \in {<<>>, sessions[t].requests}
      BY <2>1, ThrowsStep
    <2>4. sessions'[t].requests \in {<<>>, sessions[t].requests}
      BY <2>2, <2>3, SessionAssigned
    <2>5. CASE x.pc = r.pc /\ x.call = r.call /\ x.transaction = r.transaction
      BY <2>2, <2>4, <2>5, WriterStays
    <2>6. CASE x.pc = "idle" /\ x.call = NoCall
      BY <1>0, <2>6, WriterBusy
    <2> QED
      BY <2>2, <2>5, <2>6
  <1>4. CASE Reconnect(c)
    <2>1. /\ r.call # NoCall
          /\ \/ x.call = r.call /\ x.transaction = r.transaction
             \/ x.pc \in {"idle", "failed"} /\ x.call = NoCall
      BY <1>4, ReconnectStep
    <2> QED
      BY <1>0, <2>1, WriterBusy DEF WriterOK
  <1>5. CASE Begin(c)
    <2> DEFINE k == r.connection_checkpoint
               l == Len(File(c))
               data == SubSeq(File(c), k + 1, l)
               op == IF x.transaction THEN "lock_pull" ELSE "pull"
    <2>1. x.pc = "idle" /\ (x.call = Request("check", k, l, data) \/ x.call = Request(op, l, 0, <<>>))
      BY <1>5, BeginStep
    <2> HIDE DEF data, k, l
    <2>2. CASE x.call = Request("check", k, l, data)
      <3>1. x.call.op = "check"
        BY <2>2, RequestFields
      <3> QED
        BY <2>1, <3>1, WriterBusy
    <2>3. CASE x.call = Request(op, l, 0, <<>>)
      <3>1. x.call.op = op
        BY <2>3, RequestFields
      <3> QED
        BY <2>1, <3>1, WriterBusy
    <2> QED
      BY <2>1, <2>2, <2>3
  <1>6. CASE Commit(c)
    <2>1. x.call.op = "push_unlock"
      BY <1>6, CommitStep
    <2> QED
      BY <1>0, <2>1, WriterBusy
  <1>7. CASE Abort(c)
    <2>1. (x.call = NoCall /\ x.pc = "idle") \/ x.call.op = "unlock"
      BY <1>7, AbortStep
    <2> QED
      BY <1>0, <2>1, WriterBusy
  <1>8. CASE push_if_ahead(c)
    <2>1. x.call.op \in {"push", "push_unlock"} /\ x.pc = "idle"
      BY <1>8, PushIfAheadStep
    <2> QED
      BY <2>1, WriterBusy
  <1>9. CASE Send(c)
    <2>1. x = [r EXCEPT !.sent = TRUE] /\ r.call # NoCall
      BY <1>9, PutOthers DEF Send
    <2>2. x.call = r.call /\ x.transaction = r.transaction
      BY <1>0, <2>1 DEF ClientT
    <2> QED
      BY <1>0, <2>1, <2>2, WriterBusy DEF WriterOK
  <1>10. CASE KeepAlive(c) \/ KeptAlive(c)
    <2>1. files' = files /\ clients' = clients
      BY <1>10 DEF KeepAlive, KeptAlive
    <2>2. PICK q : /\ t \in Session /\ sessions' = [sessions EXCEPT ![t] = q]
                   /\ q.requests \in {<<>>, <<Ping>>}
      <3>1. CASE KeepAlive(c)
        <4> DEFINE p == [state |-> "open", requests |-> <<Ping>>, answers |-> <<>>]
        <4>1. t \in Session /\ sessions' = [sessions EXCEPT ![t] = p]
          BY <3>1, KeepAliveStep
        <4>2. p.requests = <<Ping>>
          OBVIOUS
        <4> HIDE DEF p
        <4> QED
          BY <4>1, <4>2
      <3>2. CASE KeptAlive(c)
        <4> DEFINE p == [state |-> "open", requests |-> <<>>, answers |-> <<>>]
        <4>1. t \in Session /\ sessions' = [sessions EXCEPT ![t] = p]
          BY <3>2, KeptAliveStep
        <4>2. p.requests = <<>>
          OBVIOUS
        <4> HIDE DEF p
        <4> QED
          BY <4>1, <4>2
      <3> QED
        BY <1>10, <3>1, <3>2
    <2>3. sessions'[t].requests \in {<<>>, <<Ping>>}
      BY <2>2, SessionAssigned
    <2> QED
      BY <2>1, <2>3, WriterStays
  <1>11. CASE CheckDone(c)
    <2>1. \/ x.call.op \in {"pull", "lock_pull"} /\ (x.call.op = "pull" => ~x.transaction)
          \/ x.pc \in {"idle", "failed"} /\ x.call = NoCall
      BY <1>11, CheckDoneStep
    <2> QED
      BY <1>0, <2>1, WriterBusy
  <1>12. CASE PushDone(c)
    <2>1. /\ r.call.op \in {"push", "push_unlock"}
          /\ \/ x.call = r.call
             \/ x.pc \in {"idle", "failed"} /\ x.call = NoCall
      BY <1>12, PushDoneStep
    <2> QED
      BY <1>0, <2>1, WriterBusy
  <1>13. CASE UnlockDone(c)
    <2>1. x.pc = "idle" /\ x.call = NoCall
      BY <1>13, UnlockDoneStep
    <2> QED
      BY <1>0, <2>1, WriterBusy
  <1>14. CASE PullDone(c)
    BY <1>14, WriterPullDone
  <1> QED
    BY <1>1, <1>2, <1>3, <1>4, <1>5, <1>6, <1>7, <1>8, <1>9, <1>10, <1>11, <1>12, <1>13, <1>14
       DEF ClientStep, Finish, Receive

\* Every step keeps the writers up to date.
LEMMA WriterNext ==
    BasicInv /\ ChannelInv /\ PullInv /\ HistoryInv /\ WriterInv /\ [Next]_vars => WriterInv'
  <1> SUFFICES ASSUME BasicInv, ChannelInv, PullInv, HistoryInv, WriterInv, [Next]_vars
               PROVE  WriterInv'
    OBVIOUS
  <1>1. CASE UNCHANGED vars
    BY <1>1 DEF vars, WriterInv, WriterOK, Writes, Answered, AnswerTo, SessionOf, File, home, kind
  <1>2. ASSUME NEW s \in Session, ServerStep(s) \/ Timeout(s) PROVE WriterInv'
    BY <1>2, WriterServer
  <1>3. CASE Restart
    <2> SUFFICES ASSUME NEW c \in Clients PROVE WriterOK(c)'
      BY DEF WriterInv
    <2>1. /\ holder' = None /\ clients' = clients /\ ~Answered(c)' /\ WriterOK(c)
          /\ sessions' = [s \in Session |-> NoSession]
      BY <1>3, RestartStep, RestartSilent DEF WriterInv
    <2>2. SessionOf(c)' = SessionOf(c)
      BY <2>1 DEF SessionOf
    <2>3. clients[c].pc = "writing" => /\ SessionOf(c) \in Session /\ SessionOf(c) # None
                                      /\ sessions'[SessionOf(c)].requests = <<>>
      BY <2>1, HasSession, NoneAssumption DEF NoSession, NewSession
    <2>4. ~Writes(c)'
      BY <2>1, <2>2, <2>3 DEF Writes
    <2> QED
      BY <2>1, <2>2, <2>3, <2>4 DEF WriterOK
  <1>4. ASSUME NEW d \in Clients, ClientStep(d) PROVE WriterInv'
    BY <1>4, WriterClient, WriterFrame DEF WriterInv
  <1> QED
    BY <1>1, <1>2, <1>3, <1>4 DEF Next, ClientStep

\* WriterUpToDate, for every number of clients, files and transactions, and
\* any number of failures.
THEOREM WriterHasJournal == Spec => []WriterUpToDate
  <1>1. BasicInv /\ WriterInv => WriterUpToDate
    <2> SUFFICES ASSUME BasicInv, WriterInv, NEW c \in Clients, Writes(c)
                 PROVE  Take(File(c), clients[c].connection_checkpoint) = slog
      BY DEF WriterUpToDate, Writes
    <2> DEFINE n == Len(slog)
    <2>1. n \in Nat /\ File(c) \in Seq(Nat) /\ slog \in Seq(Nat)
      BY ClientFacts
    <2>2. Agree(File(c), slog, n) /\ clients[c].connection_checkpoint = n
      BY DEF WriterInv, WriterOK
    <2>3. Take(File(c), n) = Take(slog, n)
      BY <2>1, <2>2, AgreeTake
    <2>4. Take(slog, n) = slog
      <3> DEFINE T == Take(slog, n)
      <3>1. n \in Nat /\ n <= Len(slog)
        BY <2>1
      <3>2. T \in Seq(Nat) /\ Len(T) = n /\ \A i \in 1..n : T[i] = slog[i]
        BY <2>1, <3>1, TakeFrom
      <3> HIDE DEF T
      <3>3. T = slog
        BY <2>1, <3>2, SeqEqual
      <3> QED
        BY <3>3 DEF T
    <2> QED
      BY <2>2, <2>3, <2>4
  <1> QED
    BY <1>1, WriterInit, WriterNext, HistoryInvariant, PTL DEF Spec

=============================================================================
