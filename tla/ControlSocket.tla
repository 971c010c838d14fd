---------------------------- MODULE ControlSocket ----------------------------
(***************************************************************************)
(* The control socket of the daemon as its one-shot clients use it:         *)
(* IpcServer and IpcClient::sendOneShot of src/src/common/ipc.cpp.          *)
(*                                                                         *)
(* The server has an io_context and one thread, so its completion handlers  *)
(* run one after the other in the order in which they were queued, and an   *)
(* operation completes as soon as what it waits for is there. A one-shot    *)
(* client connects, writes one line and leaves; it is told of a failure     *)
(* only while there is one to see.                                          *)
(*                                                                         *)
(* This module has the state and the steps, a module that composes it says  *)
(* what the callback does with a line and who the clients are.              *)
(***************************************************************************)
EXTENDS Naturals, Sequences, SequencesExt

CONSTANTS
    Clients,    \* threads of other programs that send one-shot messages
    Messages    \* the lines they send

VARIABLES
    server,     \* IpcServer::Impl: [at, listening, accepting, backlog, handlers]
    conns       \* every connection made: [by, line, left, at, reading]

socket == <<server, conns>>

Nothing == "nothing"

Kinds == {"accept", "refused", "line", "end", "stop"}

Handler == [kind : Kinds, conn : Nat]

Server == [at : {"down", "up", "stopping"}, listening : BOOLEAN, accepting : BOOLEAN,
           backlog : Seq(Nat), handlers : Seq(Handler)]

\* line is what the client has written and the server has not taken, left that the
\* client has closed its end. A connection waits until the handler of its accept.
Connection == [by : Clients, line : Messages \cup {Nothing}, left : BOOLEAN,
               at : {"waiting", "open", "closed"}, reading : BOOLEAN]

SocketTypeOK == server \in Server /\ conns \in Seq(Connection)

-----------------------------------------------------------------------------
(* The io_context of the server.                                            *)

\* Mutant: what is queued last is handled first.
QueuedFirst(s, kind, c) ==
    [s EXCEPT !.handlers = <<[kind |-> kind, conn |-> c]>> \o @]

Queued(s, kind, c) == [s EXCEPT !.handlers = Append(@, [kind |-> kind, conn |-> c])]

\* accept(): async_accept of a closed acceptor fails, one with a backlog succeeds.
Accept(s) ==
    IF ~s.listening THEN Queued(s, "refused", 0)
    ELSE IF s.backlog # <<>> THEN Queued([s EXCEPT !.backlog = Tail(@)], "accept", Head(s.backlog))
    ELSE [s EXCEPT !.accepting = TRUE]

\* What async_read_until on connection c meets.
ReadMeets(c) ==
    IF c.at = "closed" THEN "end"
    ELSE IF c.line # Nothing THEN "line"
    ELSE IF c.left THEN "end" ELSE Nothing

\* read() of connection i, whose record is c.
Read(s, i, c) == IF ReadMeets(c) = Nothing THEN s ELSE Queued(s, ReadMeets(c), i)

Reading(c) == [c EXCEPT !.reading = ReadMeets(c) = Nothing]

Fresh == Accept([at |-> "up", listening |-> TRUE, accepting |-> FALSE, backlog |-> <<>>,
                 handlers |-> <<>>])

SocketInit == server = Fresh /\ conns = <<>>

-----------------------------------------------------------------------------
(* Clients.                                                                 *)

\* connect(2) of a client. Without a server it fails, and the client knows.
Connect(t) ==
    LET i == Len(conns) + 1
    IN /\ server.listening
       /\ conns' = Append(conns, [by |-> t, line |-> Nothing, left |-> FALSE,
                                  at |-> "waiting", reading |-> FALSE])
       /\ server' = IF server.accepting
                    THEN Queued([server EXCEPT !.accepting = FALSE], "accept", i)
                    ELSE [server EXCEPT !.backlog = Append(@, i)]

\* The client of connection i writes its line, unless it has none, and leaves. A line
\* for a connection that the server has closed is lost.
WriteAndLeave(i, line) ==
    LET c == [conns[i] EXCEPT !.left = TRUE, !.line = IF @ = Nothing THEN line ELSE @]
    IN IF c.reading
       THEN /\ conns' = [conns EXCEPT ![i] = [c EXCEPT !.reading = FALSE]]
            /\ server' = Queued(server, ReadMeets(c), i)
       ELSE conns' = [conns EXCEPT ![i] = c] /\ UNCHANGED server

-----------------------------------------------------------------------------
(* The thread of the server: the handler at the head of the queue.          *)

Popped == [server EXCEPT !.handlers = Tail(@)]

Runs(kind) == server.handlers # <<>> /\ Head(server.handlers).kind = kind

Subject == Head(server.handlers).conn

\* Mutant: one client is enough.
OnAcceptOnce ==
    /\ Runs("accept")
    /\ LET c == [conns[Subject] EXCEPT !.at = "open"]
       IN /\ conns' = [conns EXCEPT ![Subject] = Reading(c)]
          /\ server' = Read(Popped, Subject, c)

\* The session is read from and the next client accepted, also when the server has
\* been told to stop in the meantime.
OnAccept ==
    /\ Runs("accept")
    /\ LET c == [conns[Subject] EXCEPT !.at = "open"]
       IN /\ conns' = [conns EXCEPT ![Subject] = Reading(c)]
          /\ server' = Accept(Read(Popped, Subject, c))

\* Mutant: an acceptor that fails is tried again, running or not.
OnAcceptFailedAgain ==
    /\ Runs("refused")
    /\ server' = Accept(Popped)
    /\ UNCHANGED conns

OnAcceptFailed ==
    /\ Runs("refused")
    /\ server' = IF server.at = "up" THEN Accept(Popped) ELSE Popped
    /\ UNCHANGED conns

\* The callback has the line; then the next one is waited for.
OnLine ==
    /\ Runs("line")
    /\ LET c == [conns[Subject] EXCEPT !.line = Nothing]
       IN /\ conns' = [conns EXCEPT ![Subject] = Reading(c)]
          /\ server' = Read(Popped, Subject, c)

OnEnd ==
    /\ Runs("end")
    /\ conns' = [conns EXCEPT ![Subject].at = "closed", ![Subject].reading = FALSE]
    /\ server' = Popped

\* stop(), in the caller: what is posted closes the acceptor and the sessions.
Stop ==
    /\ server.at = "up"
    /\ server' = Queued([server EXCEPT !.at = "stopping"], "stop", 0)
    /\ UNCHANGED conns

\* What stop() has posted: the acceptor and every session are closed, the operations
\* that were pending on them fail. A client that was accepted but not yet handled is in
\* no list of sessions.
OnStop ==
    /\ Runs("stop")
    /\ LET sessions == {i \in DOMAIN conns : conns[i].at = "open"}
           pending == {i \in sessions : conns[i].reading}
           failed == [k \in DOMAIN SetToSeq(pending) |->
                        [kind |-> "end", conn |-> SetToSeq(pending)[k]]]
           refused == IF server.accepting THEN <<[kind |-> "refused", conn |-> 0]>> ELSE <<>>
       IN /\ conns' = [i \in DOMAIN conns |->
                         IF i \in sessions \cup ToSet(server.backlog)
                         THEN [conns[i] EXCEPT !.at = "closed", !.reading = FALSE]
                         ELSE conns[i]]
          /\ server' = [Popped EXCEPT !.listening = FALSE, !.accepting = FALSE,
                                      !.backlog = <<>>,
                                      !.handlers = @ \o refused \o failed]

\* io_.run() returns when no handler is queued and no operation pending; stop() joins
\* the thread and returns.
Idle ==
    /\ server.handlers = <<>>
    /\ ~server.accepting
    /\ \A i \in DOMAIN conns : ~conns[i].reading

Stopped ==
    /\ server.at = "stopping"
    /\ Idle
    /\ server' = [server EXCEPT !.at = "down"]
    /\ UNCHANGED conns

\* The next daemon.
Start ==
    /\ server.at = "down"
    /\ server' = Fresh
    /\ UNCHANGED conns

\* The handlers that call nobody.
Housekeeping == OnAccept \/ OnAcceptFailed \/ OnEnd \/ OnStop
================================================================================
