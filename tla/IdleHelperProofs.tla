--------------------------- MODULE IdleHelperProofs ---------------------------
(***************************************************************************)
(* What TLAPS proves of IdleHelper, for all values of its bounds: the       *)
(* control socket forgets no client, and the daemon hears the reports of    *)
(* each thread in order. The invariants are predicates on the server s, the *)
(* connections cs and the connections the daemon has heard.                 *)
(***************************************************************************)
EXTENDS IdleHelper, FiniteSetTheorems, SequenceTheorems, TLAPS

-----------------------------------------------------------------------------
(* The inductive invariant.                                                 *)

Waits(cs, i) == cs[i].at = "waiting"

Accepts(s, p) == s.handlers[p].kind = "accept"

Hears(s, p) == s.handlers[p].kind = "line"

\* A handler that has a connection has one of those made, one of a read an accepted one.
Aimed(s, cs) ==
    \A p \in DOMAIN s.handlers :
      /\ s.handlers[p].kind \in {"accept", "line", "end"} => s.handlers[p].conn \in DOMAIN cs
      /\ s.handlers[p].kind \in {"line", "end"} => ~Waits(cs, s.handlers[p].conn)

\* The backlog holds waiting connections in the order they were made.
Lined(s, cs) ==
    /\ \A q \in DOMAIN s.backlog : s.backlog[q] \in DOMAIN cs /\ Waits(cs, s.backlog[q])
    /\ \A q, r \in DOMAIN s.backlog : q < r => s.backlog[q] < s.backlog[r]
    /\ s.accepting => s.backlog = <<>>

\* At most one accept has completed, that of a connection made before the backlog.
Single(s, cs) ==
    \A p \in DOMAIN s.handlers : Accepts(s, p) =>
      /\ Waits(cs, s.handlers[p].conn)
      /\ \A q \in DOMAIN s.backlog : s.handlers[p].conn < s.backlog[q]
      /\ ~s.accepting
      /\ \A r \in DOMAIN s.handlers : Accepts(s, r) => r = p

\* A waiting connection is in the backlog, or its accept has completed.
Found(s, cs) ==
    \A i \in DOMAIN cs : Waits(cs, i) =>
      \/ \E p \in DOMAIN s.handlers : Accepts(s, p) /\ s.handlers[p].conn = i
      \/ \E q \in DOMAIN s.backlog : s.backlog[q] = i

\* What the phases of the server's life have to do with its operations.
Phases(s, cs) ==
    /\ s.at = "up" =>
         /\ s.listening
         /\ \A p \in DOMAIN s.handlers : s.handlers[p].kind \in {"accept", "line", "end"}
         /\ s.accepting \/ \E p \in DOMAIN s.handlers : Accepts(s, p)
    /\ ~s.listening => s.backlog = <<>> /\ ~s.accepting
    /\ s.at = "down" => s.handlers = <<>> /\ ~s.listening /\ \A i \in DOMAIN cs : ~cs[i].reading
    /\ s.at = "stopping" /\ s.listening =>
         \E p \in DOMAIN s.handlers : s.handlers[p].kind = "stop"

\* Only clients that have left have written, and guests never; a read is pending on
\* open connections whose client is there.
Written(cs) ==
    \A i \in DOMAIN cs :
      /\ cs[i].line # Nothing => cs[i].left /\ cs[i].by # "guest"
      /\ cs[i].reading => cs[i].at = "open" /\ ~cs[i].left

\* An open connection has a read pending or a handler that follows it.
Attended(s, cs) ==
    \A i \in DOMAIN cs : cs[i].at = "open" =>
      \/ cs[i].reading
      \/ \E p \in DOMAIN s.handlers :
           s.handlers[p].kind \in {"line", "end"} /\ s.handlers[p].conn = i

\* Lines that have been read are there, and in the order they were sent.
Ordered(s, cs, heard) ==
    \A p \in DOMAIN s.handlers : Hears(s, p) =>
      /\ cs[s.handlers[p].conn].line # Nothing
      /\ heard[cs[s.handlers[p].conn].by] < s.handlers[p].conn
      /\ \A r \in DOMAIN s.handlers :
           Hears(s, r) /\ p < r /\ cs[s.handlers[r].conn].by = cs[s.handlers[p].conn].by
             => s.handlers[p].conn < s.handlers[r].conn

\* The daemon has heard a thread on connections of its own, which it has left.
Own(cs, heard) ==
    \A t \in Clients : heard[t] # 0 => cs[heard[t]].by = t /\ cs[heard[t]].left

Reached(s, cs, heard, k) ==
    \/ cs[k].reading
    \/ \E p \in DOMAIN s.handlers : Hears(s, p) /\ s.handlers[p].conn = k
    \/ \E t \in Clients : heard[t] = k

\* Connections are served in the order they were made.
Ahead(s, cs, heard) ==
    \A i, k \in DOMAIN cs : Waits(cs, i) /\ Reached(s, cs, heard, k) => k < i

Shape(s, cs) ==
    /\ Aimed(s, cs) /\ Lined(s, cs) /\ Single(s, cs) /\ Found(s, cs) /\ Phases(s, cs)
    /\ Written(cs) /\ Attended(s, cs)

Order(s, cs, heard) == Ordered(s, cs, heard) /\ Own(cs, heard) /\ Ahead(s, cs, heard)

\* A thread in the middle of tell holds the last of its connections, and has not left it.
Speaks(cs, t, c) ==
    c # 0 => /\ cs[c].by = t /\ ~cs[c].left
             /\ \A k \in DOMAIN cs : cs[k].by = t => k <= c

HelperInv ==
    /\ TypeOK
    /\ Shape(server, conns)
    /\ Order(server, conns, daemon.heard)
    /\ Speaks(conns, "monitor", monitor.conn)
    /\ Speaks(conns, "main", main.conn)

-----------------------------------------------------------------------------
(* The queue of handlers.                                                   *)

\* The queue g is h without its first d handlers and with those of the set add behind,
\* no accept or line of them twice.
Turned(h, g, d, add) ==
    /\ \A p \in DOMAIN g : p <= Len(h) - d => p + d \in DOMAIN h /\ g[p] = h[p + d]
    /\ \A p \in DOMAIN g : p > Len(h) - d => g[p] \in add
    /\ \A p \in DOMAIN h : p > d => p - d \in DOMAIN g /\ g[p - d] = h[p]
    /\ \A a \in add : \E p \in DOMAIN g : p > Len(h) - d /\ g[p] = a
    /\ \A p, r \in DOMAIN g :
         p > Len(h) - d /\ r > Len(h) - d /\ g[p] = g[r] /\ g[p].kind \in {"accept", "line"}
           => p = r

\* A queue that nothing happens to.
LEMMA NotTurned ==
  ASSUME NEW h \in Seq(Handler)
  PROVE  Turned(h, h, 0, {})
<1>1. Len(h) \in Nat /\ DOMAIN h = 1 .. Len(h)
  OBVIOUS
<1> QED
  BY <1>1 DEF Turned

\* The handler at the head of the queue is taken.
LEMMA HeadTaken ==
  ASSUME NEW h \in Seq(Handler), h # <<>>
  PROVE  /\ Tail(h) \in Seq(Handler)
         /\ Turned(h, Tail(h), 1, {})
         /\ Head(h) = h[1] /\ h[1] \in Handler /\ 1 \in DOMAIN h
<1>1. Len(h) \in Nat /\ DOMAIN h = 1 .. Len(h) /\ Len(h) > 0
  OBVIOUS
<1>2. /\ Tail(h) \in Seq(Handler) /\ Len(Tail(h)) = Len(h) - 1
      /\ DOMAIN Tail(h) = 1 .. Len(h) - 1
      /\ \A p \in 1 .. Len(h) - 1 : Tail(h)[p] = h[p + 1]
  BY <1>1
<1>3. \A p \in DOMAIN h : p > 1 => Tail(h)[p - 1] = h[p]
  BY <1>1, <1>2
<1>4. Turned(h, Tail(h), 1, {})
  BY <1>1, <1>2, <1>3 DEF Turned
<1> QED
  BY <1>1, <1>2, <1>4

\* A handler is queued behind the others.
LEMMA OneQueued ==
  ASSUME NEW h \in Seq(Handler), NEW g \in Seq(Handler), NEW d \in {0, 1}, NEW add,
         d <= Len(h), Len(g) >= Len(h) - d, Turned(h, g, d, add),
         NEW x \in Handler, x \notin add
  PROVE  /\ Append(g, x) \in Seq(Handler)
         /\ Len(Append(g, x)) >= Len(h) - d
         /\ Turned(h, Append(g, x), d, add \cup {x})
<1>1. /\ Len(h) \in Nat /\ DOMAIN h = 1 .. Len(h)
      /\ Len(g) \in Nat /\ DOMAIN g = 1 .. Len(g)
  OBVIOUS
<1> DEFINE k == Append(g, x)
<1>2. /\ k \in Seq(Handler) /\ Len(k) = Len(g) + 1 /\ DOMAIN k = 1 .. Len(g) + 1
      /\ \A p \in DOMAIN g : p \in DOMAIN k /\ k[p] = g[p]
      /\ k[Len(g) + 1] = x /\ Len(g) + 1 \in DOMAIN k /\ Len(g) + 1 > Len(h) - d
  BY <1>1
<1>3. \A p \in DOMAIN k : p \in DOMAIN g \/ p = Len(g) + 1
  BY <1>1, <1>2
<1> HIDE DEF k
<1>4. \A p \in DOMAIN k : p <= Len(h) - d => p + d \in DOMAIN h /\ k[p] = h[p + d]
  BY <1>1, <1>2, <1>3 DEF Turned
<1>5. \A p \in DOMAIN k : p > Len(h) - d => k[p] \in add \cup {x}
  BY <1>1, <1>2, <1>3 DEF Turned
<1>6. \A p \in DOMAIN h : p > d => p - d \in DOMAIN k /\ k[p - d] = h[p]
  BY <1>2 DEF Turned
<1>7. \A a \in add \cup {x} : \E p \in DOMAIN k : p > Len(h) - d /\ k[p] = a
  BY <1>2 DEF Turned
<1>8. ASSUME NEW p \in DOMAIN k, NEW r \in DOMAIN k, p > Len(h) - d, r > Len(h) - d,
             k[p] = k[r], k[p].kind \in {"accept", "line"}
      PROVE  p = r
  <2>1. \A m \in DOMAIN g : m > Len(h) - d => k[m] # x
    BY <1>2 DEF Turned
  <2>2. CASE p \in DOMAIN g /\ r \in DOMAIN g
    BY <2>2, <1>2, <1>8 DEF Turned
  <2>3. CASE p \notin DOMAIN g \/ r \notin DOMAIN g
    BY <2>1, <2>3, <1>2, <1>3, <1>8
  <2> QED
    BY <2>2, <2>3
<1>9. Turned(h, k, d, add \cup {x})
  BY <1>4, <1>5, <1>6, <1>7, <1>8 DEF Turned
<1> QED
  BY <1>1, <1>2, <1>9 DEF k

\* The tail of a sequence of connections is the sequence from its second element on.
LEMMA TailOf ==
  ASSUME NEW b \in Seq(Nat), b # <<>>
  PROVE  /\ Tail(b) \in Seq(Nat) /\ DOMAIN Tail(b) \in SUBSET (Nat \ {0})
         /\ \A q \in DOMAIN Tail(b) : q + 1 \in DOMAIN b /\ Tail(b)[q] = b[q + 1]
         /\ \A q \in DOMAIN b : q # 1 => q - 1 \in DOMAIN Tail(b) /\ Tail(b)[q - 1] = b[q]
<1>1. Len(b) \in Nat /\ DOMAIN b = 1 .. Len(b) /\ Len(b) > 0
  OBVIOUS
<1>2. /\ Tail(b) \in Seq(Nat) /\ Len(Tail(b)) = Len(b) - 1
      /\ DOMAIN Tail(b) = 1 .. Len(b) - 1
      /\ \A p \in 1 .. Len(b) - 1 : Tail(b)[p] = b[p + 1]
  BY <1>1
<1>3. \A p \in DOMAIN b : p # 1 => p - 1 \in 1 .. Len(b) - 1 /\ (p - 1) + 1 = p
  BY <1>1
<1>4. \A p \in DOMAIN b : p # 1 => Tail(b)[p - 1] = b[p]
  BY <1>2, <1>3
<1>5. \A q \in 1 .. Len(b) - 1 : q + 1 \in 1 .. Len(b)
  BY <1>1
<1>6. 1 .. Len(b) - 1 \in SUBSET (Nat \ {0})
  BY <1>1
<1> QED
  BY <1>1, <1>2, <1>3, <1>4, <1>5, <1>6

\* Handlers that are neither accepts nor lines are queued behind the others.
LEMMA BatchQueued ==
  ASSUME NEW h \in Seq(Handler), NEW g \in Seq(Handler), NEW k \in Seq(Handler),
         Len(h) >= 1, Len(g) >= Len(h) - 1, Turned(h, g, 1, {}),
         \A j \in DOMAIN k : k[j].kind \notin {"accept", "line"}
  PROVE  g \o k \in Seq(Handler) /\ Turned(h, g \o k, 1, {k[j] : j \in DOMAIN k})
<1>1. /\ Len(h) \in Nat /\ DOMAIN h = 1 .. Len(h)
      /\ Len(g) \in Nat /\ DOMAIN g = 1 .. Len(g)
      /\ Len(k) \in Nat /\ DOMAIN k = 1 .. Len(k)
  OBVIOUS
<1> DEFINE w == g \o k
<1> DEFINE add == {k[j] : j \in DOMAIN k}
<1>2. /\ w \in Seq(Handler) /\ Len(w) = Len(g) + Len(k) /\ DOMAIN w = 1 .. Len(g) + Len(k)
      /\ \A p \in 1 .. Len(g) : w[p] = g[p]
      /\ \A p \in 1 .. Len(g) + Len(k) : p > Len(g) => w[p] = k[p - Len(g)]
  BY <1>1
<1>3. Len(g) = Len(h) - 1
  <2>1. Len(g) >= Len(h) - 1 /\ Len(g) \in Int /\ Len(h) - 1 \in Int
    BY <1>1
  <2>2. ASSUME Len(g) > Len(h) - 1 PROVE FALSE
    <3>1. Len(g) \in DOMAIN g
      BY <1>1, <2>2
    <3> QED
      BY <3>1, <2>2 DEF Turned
  <2> QED
    BY <2>1, <2>2
<1>4. \A p \in DOMAIN w : p > Len(g) => p - Len(g) \in DOMAIN k
  BY <1>1, <1>2
<1>5. \A j \in DOMAIN k : j + Len(g) \in DOMAIN w /\ j + Len(g) > Len(g) /\ w[j + Len(g)] = k[j]
  BY <1>1, <1>2
<1> HIDE DEF w
<1>6. \A p \in DOMAIN w : p <= Len(h) - 1 => p + 1 \in DOMAIN h /\ w[p] = h[p + 1]
  BY <1>1, <1>2, <1>3 DEF Turned
<1>7. \A p \in DOMAIN w : p > Len(h) - 1 => w[p] \in add /\ w[p].kind \notin {"accept", "line"}
  BY <1>1, <1>2, <1>3, <1>4
<1>8. \A p \in DOMAIN h : p > 1 => p - 1 \in DOMAIN w /\ w[p - 1] = h[p]
  BY <1>1, <1>2, <1>3 DEF Turned
<1>9. \A a \in add : \E p \in DOMAIN w : p > Len(h) - 1 /\ w[p] = a
  BY <1>3, <1>5
<1> QED
  BY <1>2, <1>6, <1>7, <1>8, <1>9 DEF Turned, w

\* A finite set is listed by a sequence of its members.
LEMMA ListOfSet ==
  ASSUME NEW S, IsFiniteSet(S)
  PROVE  SetToSeq(S) \in Seq(S)
<1>1. Cardinality(S) \in Nat /\ ExistsBijection(1 .. Cardinality(S), S)
  BY FS_CardinalityType
<1>2. PICK f \in Bijection(1 .. Cardinality(S), S) : TRUE
  BY <1>1 DEF ExistsBijection
<1>3. f \in [1 .. Cardinality(S) -> S] /\ IsInjective(f)
  BY <1>2 DEF Bijection, Injection, IsInjective
<1>4. SetToSeq(S) \in [1 .. Cardinality(S) -> S]
  BY <1>3 DEF SetToSeq
<1> QED
  BY <1>1, <1>4

-----------------------------------------------------------------------------
(* The operations that queue handlers.                                      *)

\* What async_accept queues on server s.
Admits(s) ==
    IF ~s.listening THEN {[kind |-> "refused", conn |-> 0]}
    ELSE IF s.backlog # <<>> THEN {[kind |-> "accept", conn |-> s.backlog[1]]}
    ELSE {}

\* What async_read_until queues on connection i, whose record is c.
Gets(i, c) ==
    IF ReadMeets(c) = Nothing THEN {} ELSE {[kind |-> ReadMeets(c), conn |-> i]}

\* A read is pending on a connection unless a handler of it is queued.
LEMMA ReadMeaning ==
  ASSUME NEW c \in Connection, NEW i
  PROVE  /\ Reading(c) \in Connection /\ Reading(c).by = c.by /\ Reading(c).line = c.line
         /\ Reading(c).left = c.left /\ Reading(c).at = c.at
         /\ Reading(c).reading => c.line = Nothing /\ ~c.left /\ c.at # "closed"
         /\ ~Reading(c).reading => \E a \in Gets(i, c) : a.conn = i /\ a.kind \in {"line", "end"}
         /\ \A a \in Gets(i, c) :
              /\ a.conn = i /\ a.kind \in {"line", "end"} /\ ~Reading(c).reading
              /\ a.kind = "line" => c.line # Nothing
<1>1. ReadMeets(c) \in {"line", "end", Nothing}
  BY DEF ReadMeets
<1>2. /\ Reading(c) \in Connection /\ Reading(c).by = c.by /\ Reading(c).line = c.line
      /\ Reading(c).left = c.left /\ Reading(c).at = c.at
      /\ Reading(c).reading <=> ReadMeets(c) = Nothing
  BY DEF Reading, Connection
<1>3. CASE ReadMeets(c) = Nothing
  <2>1. Gets(i, c) = {}
    BY <1>3 DEF Gets
  <2>2. c.line = Nothing /\ ~c.left /\ c.at # "closed"
    BY <1>3 DEF ReadMeets, Nothing
  <2> QED
    BY <2>1, <2>2, <1>2, <1>3
<1>4. CASE ReadMeets(c) # Nothing
  <2>1. Gets(i, c) = {[kind |-> ReadMeets(c), conn |-> i]}
    BY <1>4 DEF Gets
  <2>2. ReadMeets(c) = "line" => c.line # Nothing
    BY DEF ReadMeets, Nothing
  <2> QED
    BY <2>1, <2>2, <1>1, <1>2, <1>4
<1> QED
  BY <1>2, <1>3, <1>4

\* Handlers queued in the course of one handler keep the queue in order.
LEMMA QueuedOnce ==
  ASSUME NEW h \in Seq(Handler), NEW s \in Server, NEW d \in {0, 1}, NEW add,
         d <= Len(h), Len(s.handlers) >= Len(h) - d, Turned(h, s.handlers, d, add),
         NEW kind \in Kinds, NEW i \in Nat, [kind |-> kind, conn |-> i] \notin add
  PROVE  /\ Queued(s, kind, i) \in Server
         /\ Queued(s, kind, i).at = s.at
         /\ Queued(s, kind, i).listening = s.listening
         /\ Queued(s, kind, i).accepting = s.accepting
         /\ Queued(s, kind, i).backlog = s.backlog
         /\ Len(Queued(s, kind, i).handlers) >= Len(h) - d
         /\ Turned(h, Queued(s, kind, i).handlers, d, add \cup {[kind |-> kind, conn |-> i]})
<1>1. s.handlers \in Seq(Handler) /\ [kind |-> kind, conn |-> i] \in Handler
  BY DEF Server, Handler
<1>2. /\ Append(s.handlers, [kind |-> kind, conn |-> i]) \in Seq(Handler)
      /\ Len(Append(s.handlers, [kind |-> kind, conn |-> i])) >= Len(h) - d
      /\ Turned(h, Append(s.handlers, [kind |-> kind, conn |-> i]), d,
                add \cup {[kind |-> kind, conn |-> i]})
  BY <1>1, OneQueued
<1>3. Queued(s, kind, i).handlers = Append(s.handlers, [kind |-> kind, conn |-> i])
  BY DEF Queued, Server
<1>4. /\ Queued(s, kind, i) \in Server
      /\ Queued(s, kind, i).at = s.at
      /\ Queued(s, kind, i).listening = s.listening
      /\ Queued(s, kind, i).accepting = s.accepting
      /\ Queued(s, kind, i).backlog = s.backlog
  BY <1>2 DEF Queued, Server
<1> QED
  BY <1>2, <1>3, <1>4

\* read() queues what it meets.
LEMMA ReadQueues ==
  ASSUME NEW h \in Seq(Handler), NEW s \in Server, NEW d \in {0, 1}, NEW add,
         d <= Len(h), Len(s.handlers) >= Len(h) - d, Turned(h, s.handlers, d, add),
         NEW i \in Nat, NEW c \in Connection, \A a \in add : a.conn # i
  PROVE  /\ Read(s, i, c) \in Server
         /\ Read(s, i, c).at = s.at
         /\ Read(s, i, c).listening = s.listening
         /\ Read(s, i, c).accepting = s.accepting
         /\ Read(s, i, c).backlog = s.backlog
         /\ Len(Read(s, i, c).handlers) >= Len(h) - d
         /\ Turned(h, Read(s, i, c).handlers, d, add \cup Gets(i, c))
<1>1. CASE ReadMeets(c) = Nothing
  BY <1>1 DEF Read, Gets
<1>2. CASE ReadMeets(c) # Nothing
  <2>1. ReadMeets(c) \in Kinds
    BY <1>2 DEF ReadMeets, Kinds
  <2>2. [kind |-> ReadMeets(c), conn |-> i] \notin add
    OBVIOUS
  <2>3. Read(s, i, c) = Queued(s, ReadMeets(c), i)
    BY <1>2 DEF Read
  <2>4. Gets(i, c) = {[kind |-> ReadMeets(c), conn |-> i]}
    BY <1>2 DEF Gets
  <2>5. /\ Queued(s, ReadMeets(c), i) \in Server
        /\ Queued(s, ReadMeets(c), i).at = s.at
        /\ Queued(s, ReadMeets(c), i).listening = s.listening
        /\ Queued(s, ReadMeets(c), i).accepting = s.accepting
        /\ Queued(s, ReadMeets(c), i).backlog = s.backlog
        /\ Len(Queued(s, ReadMeets(c), i).handlers) >= Len(h) - d
        /\ Turned(h, Queued(s, ReadMeets(c), i).handlers, d,
                  add \cup {[kind |-> ReadMeets(c), conn |-> i]})
    BY <2>1, <2>2, QueuedOnce
  <2> QED
    BY <2>3, <2>4, <2>5
<1> QED
  BY <1>1, <1>2

\* accept() queues what it admits, or waits.
LEMMA AcceptQueues ==
  ASSUME NEW h \in Seq(Handler), NEW s \in Server, NEW d \in {0, 1}, NEW add,
         d <= Len(h), Len(s.handlers) >= Len(h) - d, Turned(h, s.handlers, d, add),
         \A a \in add : a.kind \notin {"accept", "refused"}
  PROVE  /\ Accept(s) \in Server
         /\ Accept(s).at = s.at
         /\ Accept(s).listening = s.listening
         /\ Accept(s).accepting <=> s.accepting \/ Admits(s) = {}
         /\ Accept(s).backlog = IF s.listening /\ s.backlog # <<>> THEN Tail(s.backlog)
                                ELSE s.backlog
         /\ Turned(h, Accept(s).handlers, d, add \cup Admits(s))
<1>1. CASE ~s.listening
  <2>1. Accept(s) = Queued(s, "refused", 0)
    BY <1>1 DEF Accept
  <2>2. Admits(s) = {[kind |-> "refused", conn |-> 0]} /\ "refused" \in Kinds
    BY <1>1 DEF Admits, Kinds
  <2>3. [kind |-> "refused", conn |-> 0] \notin add
    OBVIOUS
  <2>4. Admits(s) # {} /\ s.accepting \in BOOLEAN
    BY <2>2 DEF Server
  <2>5. /\ Queued(s, "refused", 0) \in Server
        /\ Queued(s, "refused", 0).at = s.at
        /\ Queued(s, "refused", 0).listening = s.listening
        /\ Queued(s, "refused", 0).accepting = s.accepting
        /\ Queued(s, "refused", 0).backlog = s.backlog
        /\ Turned(h, Queued(s, "refused", 0).handlers, d,
                  add \cup {[kind |-> "refused", conn |-> 0]})
    <3> DEFINE k == "refused"
    <3> DEFINE i == 0
    <3>1. k \in Kinds /\ i \in Nat /\ [kind |-> k, conn |-> i] \notin add
      BY <2>2, <2>3
    <3> HIDE DEF k, i
    <3>2. /\ Queued(s, k, i) \in Server
          /\ Queued(s, k, i).at = s.at
          /\ Queued(s, k, i).listening = s.listening
          /\ Queued(s, k, i).accepting = s.accepting
          /\ Queued(s, k, i).backlog = s.backlog
          /\ Len(Queued(s, k, i).handlers) >= Len(h) - d
          /\ Turned(h, Queued(s, k, i).handlers, d, add \cup {[kind |-> k, conn |-> i]})
      BY <3>1, QueuedOnce
    <3> QED
      BY <3>2 DEF k, i
  <2> QED
    BY <1>1, <2>1, <2>2, <2>4, <2>5
<1>2. CASE s.listening /\ s.backlog # <<>>
  <2> DEFINE r == [s EXCEPT !.backlog = Tail(@)]
  <2>1. s.backlog \in Seq(Nat) /\ s.accepting \in BOOLEAN
    BY DEF Server
  <2>2. Head(s.backlog) = s.backlog[1] /\ s.backlog[1] \in Nat /\ Tail(s.backlog) \in Seq(Nat)
    BY <2>1, <1>2
  <2>3. /\ r \in Server /\ r.at = s.at /\ r.listening = s.listening
        /\ r.accepting = s.accepting /\ r.backlog = Tail(s.backlog)
        /\ r.handlers = s.handlers
    BY <2>2 DEF Server
  <2>4. Accept(s) = Queued(r, "accept", s.backlog[1])
    BY <1>2, <2>2 DEF Accept
  <2>5. Admits(s) = {[kind |-> "accept", conn |-> s.backlog[1]]} /\ "accept" \in Kinds
    BY <1>2 DEF Admits, Kinds
  <2>6. [kind |-> "accept", conn |-> s.backlog[1]] \notin add
    OBVIOUS
  <2>7. Admits(s) # {}
    BY <2>5
  <2> HIDE DEF r
  <2> DEFINE i == s.backlog[1]
  <2>8. /\ Queued(r, "accept", i) \in Server
        /\ Queued(r, "accept", i).at = r.at
        /\ Queued(r, "accept", i).listening = r.listening
        /\ Queued(r, "accept", i).accepting = r.accepting
        /\ Queued(r, "accept", i).backlog = r.backlog
        /\ Turned(h, Queued(r, "accept", i).handlers, d,
                  add \cup {[kind |-> "accept", conn |-> i]})
    <3> DEFINE k == "accept"
    <3>1. k \in Kinds /\ i \in Nat /\ [kind |-> k, conn |-> i] \notin add
      BY <2>2, <2>5, <2>6
    <3>2. Len(r.handlers) >= Len(h) - d /\ Turned(h, r.handlers, d, add) /\ r \in Server
      BY <2>3
    <3> HIDE DEF k, i
    <3>3. /\ Queued(r, k, i) \in Server
          /\ Queued(r, k, i).at = r.at
          /\ Queued(r, k, i).listening = r.listening
          /\ Queued(r, k, i).accepting = r.accepting
          /\ Queued(r, k, i).backlog = r.backlog
          /\ Len(Queued(r, k, i).handlers) >= Len(h) - d
          /\ Turned(h, Queued(r, k, i).handlers, d, add \cup {[kind |-> k, conn |-> i]})
      BY <3>1, <3>2, QueuedOnce
    <3> QED
      BY <3>3 DEF k, i
  <2> QED
    BY <1>2, <2>1, <2>3, <2>4, <2>5, <2>7, <2>8
<1>3. CASE s.listening /\ s.backlog = <<>>
  <2>1. Accept(s) = [s EXCEPT !.accepting = TRUE] /\ Admits(s) = {}
    BY <1>3 DEF Accept, Admits
  <2> QED
    BY <1>3, <2>1 DEF Server
<1> QED
  BY <1>1, <1>2, <1>3 DEF Server

\* Where the handlers of a queue come from and where those of the former queue are.
LEMMA TurnedView ==
  ASSUME NEW h \in Seq(Handler), NEW g \in Seq(Handler), NEW d \in {0, 1}, NEW add,
         Turned(h, g, d, add)
  PROVE  /\ DOMAIN g \in SUBSET (Nat \ {0}) /\ DOMAIN h \in SUBSET (Nat \ {0})
         /\ Len(h) \in Nat
         /\ \A p \in DOMAIN h : p <= Len(h)
         /\ \A p \in DOMAIN g :
              \/ p + d \in DOMAIN h /\ g[p] = h[p + d] /\ (d = 1 => p + d # 1)
              \/ p > Len(h) - d /\ g[p] \in add
         /\ \A p \in DOMAIN h : (d = 1 => p # 1) => p - d \in DOMAIN g /\ g[p - d] = h[p]
         /\ \A a \in add : \E p \in DOMAIN g : g[p] = a
<1>1. /\ Len(h) \in Nat /\ DOMAIN h = 1 .. Len(h)
      /\ Len(g) \in Nat /\ DOMAIN g = 1 .. Len(g)
  OBVIOUS
<1>2. \A p \in DOMAIN g :
        \/ p + d \in DOMAIN h /\ g[p] = h[p + d] /\ (d = 1 => p + d # 1)
        \/ p > Len(h) - d /\ g[p] \in add
  BY <1>1 DEF Turned
<1>3. \A p \in DOMAIN h : (d = 1 => p # 1) => p > d
  BY <1>1
<1>4. \A p \in DOMAIN h : (d = 1 => p # 1) => p - d \in DOMAIN g /\ g[p - d] = h[p]
  BY <1>3 DEF Turned
<1>5. \A a \in add : \E p \in DOMAIN g : g[p] = a
  BY DEF Turned
<1>6. \A p \in DOMAIN h : p <= Len(h)
  BY <1>1
<1>7. DOMAIN g \in SUBSET (Nat \ {0}) /\ DOMAIN h \in SUBSET (Nat \ {0})
  BY <1>1
<1> QED
  BY <1>1, <1>2, <1>4, <1>5, <1>6, <1>7

\* A step of handlers that are not accepts leaves the waiting connections as they are.
LEMMA QueueBeside ==
  ASSUME NEW s \in Server, NEW s2 \in Server, NEW cs, NEW cs2, NEW d \in {0, 1}, NEW add,
         Turned(s.handlers, s2.handlers, d, add),
         d = 1 => s.handlers[1].kind # "accept",
         \A a \in add : a.kind # "accept",
         s2.backlog = s.backlog, s2.accepting = s.accepting, DOMAIN cs2 = DOMAIN cs,
         \A k \in DOMAIN cs : Waits(cs2, k) <=> Waits(cs, k),
         Aimed(s, cs), Lined(s, cs), Single(s, cs), Found(s, cs)
  PROVE  Lined(s2, cs2) /\ Single(s2, cs2) /\ Found(s2, cs2)
<1> DEFINE h == s.handlers
<1> DEFINE g == s2.handlers
<1>1. h \in Seq(Handler) /\ g \in Seq(Handler)
  BY DEF Server
<1>2. /\ DOMAIN g \in SUBSET (Nat \ {0})
      /\ \A p \in DOMAIN g :
           \/ p + d \in DOMAIN h /\ g[p] = h[p + d]
           \/ g[p] \in add
      /\ \A p \in DOMAIN h : (d = 1 => p # 1) => p - d \in DOMAIN g /\ g[p - d] = h[p]
  <2> HIDE DEF g, h
  <2>1. Turned(h, g, d, add)
    BY DEF g, h
  <2>2. /\ DOMAIN g \in SUBSET (Nat \ {0}) /\ DOMAIN h \in SUBSET (Nat \ {0})
        /\ Len(h) \in Nat
        /\ \A p \in DOMAIN h : p <= Len(h)
        /\ \A p \in DOMAIN g :
             \/ p + d \in DOMAIN h /\ g[p] = h[p + d] /\ (d = 1 => p + d # 1)
             \/ p > Len(h) - d /\ g[p] \in add
        /\ \A p \in DOMAIN h : (d = 1 => p # 1) => p - d \in DOMAIN g /\ g[p - d] = h[p]
        /\ \A a \in add : \E p \in DOMAIN g : g[p] = a
    BY <1>1, <2>1, TurnedView
  <2> QED
    BY <2>2
<1>3. \A p \in DOMAIN g : Accepts(s2, p) =>
        p + d \in DOMAIN h /\ g[p] = h[p + d] /\ Accepts(s, p + d)
  BY <1>2 DEF Accepts
<1>4. \A p \in DOMAIN h : Accepts(s, p) =>
        p - d \in DOMAIN g /\ g[p - d] = h[p] /\ Accepts(s2, p - d)
  BY <1>2 DEF Accepts
<1>5. Lined(s2, cs2)
  BY DEF Lined
<1>6. Single(s2, cs2)
  <2>1. ASSUME NEW p \in DOMAIN g, Accepts(s2, p)
        PROVE  /\ Waits(cs2, g[p].conn) /\ ~s2.accepting
               /\ \A q \in DOMAIN s2.backlog : g[p].conn < s2.backlog[q]
    <3>1. g[p].conn \in DOMAIN cs
      BY <2>1, <1>3 DEF Aimed, Accepts
    <3> QED
      BY <3>1, <2>1, <1>3 DEF Single
  <2>2. ASSUME NEW p \in DOMAIN g, NEW r \in DOMAIN g, Accepts(s2, p), Accepts(s2, r)
        PROVE  r = p
    <3>1. r + d = p + d
      BY <2>2, <1>3 DEF Single
    <3> QED
      BY <3>1, <1>2
  <2> QED
    BY <2>1, <2>2 DEF Single
<1>7. Found(s2, cs2)
  <2> SUFFICES ASSUME NEW k \in DOMAIN cs, Waits(cs, k)
               PROVE  \/ \E p \in DOMAIN g : Accepts(s2, p) /\ g[p].conn = k
                      \/ \E q \in DOMAIN s2.backlog : s2.backlog[q] = k
    BY DEF Found
  <2>1. CASE \E p \in DOMAIN h : Accepts(s, p) /\ h[p].conn = k
    BY <2>1, <1>4
  <2>2. CASE \E q \in DOMAIN s.backlog : s.backlog[q] = k
    BY <2>2
  <2> QED
    BY <2>1, <2>2 DEF Found
<1> QED
  BY <1>5, <1>6, <1>7

\* The step from s and cs to s2 and cs2 follows one connection, i, which has been
\* accepted: it may take a handler of i and queue others of i.
Follows(s, cs, s2, cs2, d, add, i) ==
    /\ Turned(s.handlers, s2.handlers, d, add)
    /\ s.at # "down" /\ s2.at = s.at /\ s2.listening = s.listening
    /\ s2.accepting = s.accepting /\ s2.backlog = s.backlog
    /\ i \in DOMAIN cs /\ ~Waits(cs, i) /\ ~Waits(cs2, i)
    /\ d = 1 => s.handlers[1].kind \in {"line", "end"} /\ s.handlers[1].conn = i
    /\ \A a \in add : a.kind \in {"line", "end"} /\ a.conn = i
    /\ DOMAIN cs2 = DOMAIN cs /\ \A k \in DOMAIN cs : k # i => cs2[k] = cs[k]
    /\ cs2[i].at = "open" => cs2[i].reading \/ \E a \in add : TRUE
    /\ cs2[i].line # Nothing => cs2[i].left /\ cs2[i].by # "guest"
    /\ cs2[i].reading => cs2[i].at = "open" /\ ~cs2[i].left

\* Such a step keeps the shape of the socket.
LEMMA ShapeBeside ==
  ASSUME NEW s \in Server, NEW s2 \in Server, NEW cs, NEW cs2, NEW d \in {0, 1}, NEW add,
         NEW i, Follows(s, cs, s2, cs2, d, add, i), Shape(s, cs)
  PROVE  Shape(s2, cs2)
<1> USE DEF Follows
<1> DEFINE h == s.handlers
<1> DEFINE g == s2.handlers
<1>1. h \in Seq(Handler) /\ g \in Seq(Handler)
  BY DEF Server
<1>2. /\ \A p \in DOMAIN g :
           \/ p + d \in DOMAIN h /\ g[p] = h[p + d]
           \/ g[p] \in add
      /\ \A p \in DOMAIN h : (d = 1 => p # 1) => p - d \in DOMAIN g /\ g[p - d] = h[p]
      /\ \A a \in add : \E p \in DOMAIN g : g[p] = a
  <2> HIDE DEF g, h
  <2>1. Turned(h, g, d, add)
    BY DEF g, h
  <2>2. /\ DOMAIN g \in SUBSET (Nat \ {0}) /\ DOMAIN h \in SUBSET (Nat \ {0})
        /\ Len(h) \in Nat
        /\ \A p \in DOMAIN h : p <= Len(h)
        /\ \A p \in DOMAIN g :
             \/ p + d \in DOMAIN h /\ g[p] = h[p + d] /\ (d = 1 => p + d # 1)
             \/ p > Len(h) - d /\ g[p] \in add
        /\ \A p \in DOMAIN h : (d = 1 => p # 1) => p - d \in DOMAIN g /\ g[p - d] = h[p]
        /\ \A a \in add : \E p \in DOMAIN g : g[p] = a
    BY <1>1, <2>1, TurnedView
  <2> QED
    BY <2>2
<1>3. \A k \in DOMAIN cs : Waits(cs2, k) <=> Waits(cs, k)
  BY DEF Waits
<1>4. Aimed(s2, cs2)
  BY <1>2, <1>3 DEF Shape, Aimed
<1>5. Lined(s2, cs2) /\ Single(s2, cs2) /\ Found(s2, cs2)
  <2>1. /\ d = 1 => s.handlers[1].kind # "accept"
        /\ \A a \in add : a.kind # "accept"
        /\ Aimed(s, cs) /\ Lined(s, cs) /\ Single(s, cs) /\ Found(s, cs)
    BY DEF Shape
  <2> QED
    BY <2>1, <1>3, QueueBeside
<1>6. Phases(s2, cs2)
  <2>1. ASSUME s2.at = "up"
        PROVE  /\ s2.listening
               /\ \A p \in DOMAIN g : g[p].kind \in {"accept", "line", "end"}
               /\ s2.accepting \/ \E p \in DOMAIN g : Accepts(s2, p)
    BY <2>1, <1>2 DEF Shape, Phases, Accepts
  <2>2. s2.at = "stopping" /\ s2.listening => \E p \in DOMAIN g : g[p].kind = "stop"
    BY <1>2 DEF Shape, Phases
  <2>3. ~s2.listening => s2.backlog = <<>> /\ ~s2.accepting
    BY DEF Shape, Phases
  <2> QED
    BY <2>1, <2>2, <2>3 DEF Phases
<1>7. Written(cs2)
  BY DEF Shape, Written
<1>8. Attended(s2, cs2)
  <2> SUFFICES ASSUME NEW k \in DOMAIN cs, cs2[k].at = "open", ~cs2[k].reading
               PROVE  \E p \in DOMAIN g : g[p].kind \in {"line", "end"} /\ g[p].conn = k
    BY DEF Attended
  <2>1. CASE k = i
    BY <2>1, <1>2
  <2>2. CASE k # i
    <3>1. PICK p \in DOMAIN h : h[p].kind \in {"line", "end"} /\ h[p].conn = k
      BY <2>2 DEF Shape, Attended
    <3> QED
      BY <2>2, <3>1, <1>2
  <2> QED
    BY <2>1, <2>2
<1> QED
  BY <1>4, <1>5, <1>6, <1>7, <1>8 DEF Shape

\* A step that queues no line does not disturb the order of the lines.
LEMMA OrderBeside ==
  ASSUME NEW s \in Server, NEW s2 \in Server, NEW cs, NEW cs2, NEW heard,
         NEW d \in {0, 1}, NEW add,
         Turned(s.handlers, s2.handlers, d, add),
         \A a \in add : a.kind # "line",
         DOMAIN cs2 = DOMAIN cs,
         \A t \in Clients : heard[t] # 0 => heard[t] \in DOMAIN cs,
         \A k \in DOMAIN cs : /\ cs2[k].by = cs[k].by
                              /\ cs[k].line # Nothing => cs2[k].line # Nothing
                              /\ cs[k].left => cs2[k].left
                              /\ cs2[k].reading => cs[k].reading
                              /\ Waits(cs2, k) => Waits(cs, k),
         Aimed(s, cs), Order(s, cs, heard)
  PROVE  Order(s2, cs2, heard)
<1> DEFINE h == s.handlers
<1> DEFINE g == s2.handlers
<1>1. h \in Seq(Handler) /\ g \in Seq(Handler)
  BY DEF Server
<1>2. /\ DOMAIN g \in SUBSET (Nat \ {0})
      /\ \A p \in DOMAIN g :
           \/ p + d \in DOMAIN h /\ g[p] = h[p + d]
           \/ g[p] \in add
  BY <1>1, TurnedView
<1>3. \A p \in DOMAIN g : Hears(s2, p) =>
        /\ p + d \in DOMAIN h /\ g[p] = h[p + d] /\ Hears(s, p + d)
        /\ g[p].conn \in DOMAIN cs
  BY <1>2 DEF Hears, Aimed
<1>4. Ordered(s2, cs2, heard)
  <2>1. ASSUME NEW p \in DOMAIN g, Hears(s2, p)
        PROVE  cs2[g[p].conn].line # Nothing /\ heard[cs2[g[p].conn].by] < g[p].conn
    BY <2>1, <1>3 DEF Order, Ordered
  <2>2. ASSUME NEW p \in DOMAIN g, NEW r \in DOMAIN g, Hears(s2, p), Hears(s2, r), p < r,
               cs2[g[r].conn].by = cs2[g[p].conn].by
        PROVE  g[p].conn < g[r].conn
    <3>1. p + d < r + d
      BY <2>2, <1>2
    <3>2. cs[g[r].conn].by = cs[g[p].conn].by
      BY <2>2, <1>3
    <3> QED
      BY <3>1, <3>2, <2>2, <1>3 DEF Order, Ordered
  <2> QED
    BY <2>1, <2>2 DEF Ordered
<1>5. Own(cs2, heard)
  BY DEF Order, Own
<1>6. Ahead(s2, cs2, heard)
  BY <1>3 DEF Order, Ahead, Reached
<1> QED
  BY <1>4, <1>5, <1>6 DEF Order

-----------------------------------------------------------------------------
(* The steps of the socket.                                                 *)

\* What the types of the socket say of its parts.
LEMMA Parts ==
  ASSUME SocketTypeOK
  PROVE  /\ server \in Server
         /\ server.handlers \in Seq(Handler) /\ Len(server.handlers) \in Nat
         /\ DOMAIN server.handlers = 1 .. Len(server.handlers)
         /\ \A p \in DOMAIN server.handlers :
              server.handlers[p].kind \in Kinds /\ server.handlers[p].conn \in Nat
         /\ server.backlog \in Seq(Nat) /\ Len(server.backlog) \in Nat
         /\ DOMAIN server.backlog = 1 .. Len(server.backlog)
         /\ conns \in Seq(Connection) /\ Len(conns) \in Nat /\ DOMAIN conns = 1 .. Len(conns)
         /\ \A i \in DOMAIN conns : conns[i] \in Connection
<1>1. server.handlers \in Seq(Handler) /\ server.backlog \in Seq(Nat)
  BY DEF SocketTypeOK, Server
<1>2. \A p \in DOMAIN server.handlers : server.handlers[p] \in Handler
  BY <1>1
<1> QED
  BY <1>1, <1>2 DEF SocketTypeOK, Handler

\* The handler at the head of the queue, and the queue without it.
LEMMA TakeHead ==
  ASSUME SocketTypeOK, NEW kind, Runs(kind)
  PROVE  /\ 1 \in DOMAIN server.handlers /\ Len(server.handlers) >= 1
         /\ Subject = server.handlers[1].conn /\ server.handlers[1].kind = kind
         /\ Popped \in Server /\ Popped.at = server.at /\ Popped.listening = server.listening
         /\ Popped.accepting = server.accepting /\ Popped.backlog = server.backlog
         /\ Len(Popped.handlers) >= Len(server.handlers) - 1
         /\ Turned(server.handlers, Popped.handlers, 1, {})
<1> DEFINE h == server.handlers
<1>1. h \in Seq(Handler) /\ server \in Server /\ h # <<>> /\ Head(h).kind = kind
  BY Parts DEF Runs
<1> HIDE DEF h
<1>2. /\ Tail(h) \in Seq(Handler) /\ Len(Tail(h)) >= Len(h) - 1 /\ Len(h) >= 1
      /\ Turned(h, Tail(h), 1, {}) /\ Head(h) = h[1] /\ 1 \in DOMAIN h
  BY <1>1, HeadTaken
<1>3. /\ Popped \in Server /\ Popped.at = server.at /\ Popped.listening = server.listening
      /\ Popped.accepting = server.accepting /\ Popped.backlog = server.backlog
      /\ Popped.handlers = Tail(h)
  BY <1>1, <1>2 DEF Popped, Server, h
<1> QED
  BY <1>1, <1>2, <1>3 DEF Subject, h

\* The socket and the reports are in order.
Heard == daemon.heard

SocketInv ==
    /\ SocketTypeOK /\ Heard \in [Clients -> 0 .. Len(conns)]
    /\ Shape(server, conns) /\ Order(server, conns, Heard)

SocketInvNext ==
    /\ SocketTypeOK' /\ Len(conns') >= Len(conns)
    /\ Shape(server', conns') /\ Order(server', conns', Heard)

\* No client comes or leaves.
SameClients ==
    /\ Len(conns') = Len(conns)
    /\ \A k \in DOMAIN conns : conns'[k].by = conns[k].by /\ conns'[k].left = conns[k].left

\* The accept of the connection that has waited longest: it is read from, and the next
\* one is accepted.
LEMMA AcceptKeeps ==
  ASSUME SocketInv, OnAccept
  PROVE  SocketInvNext /\ SameClients
<1> DEFINE h == server.handlers
<1> DEFINE g == server'.handlers
<1> DEFINE i == h[1].conn
<1> DEFINE c == [conns[i] EXCEPT !.at = "open"]
<1> DEFINE r == Read(Popped, i, c)
<1>1. /\ server \in Server /\ h \in Seq(Handler) /\ Len(h) \in Nat /\ DOMAIN h = 1 .. Len(h)
      /\ \A p \in DOMAIN h : h[p].kind \in Kinds /\ h[p].conn \in Nat
      /\ server.backlog \in Seq(Nat) /\ Len(server.backlog) \in Nat
      /\ DOMAIN server.backlog = 1 .. Len(server.backlog)
      /\ conns \in Seq(Connection) /\ Len(conns) \in Nat /\ DOMAIN conns = 1 .. Len(conns)
      /\ \A k \in DOMAIN conns : conns[k] \in Connection
  BY Parts DEF SocketInv
<1>2. /\ 1 \in DOMAIN h /\ Len(h) >= 1 /\ Subject = i /\ Accepts(server, 1)
      /\ Popped \in Server /\ Popped.at = server.at /\ Popped.listening = server.listening
      /\ Popped.accepting = server.accepting /\ Popped.backlog = server.backlog
      /\ Len(Popped.handlers) >= Len(h) - 1 /\ Turned(h, Popped.handlers, 1, {})
  BY TakeHead DEF OnAccept, SocketInv, Accepts
<1>3. /\ i \in DOMAIN conns /\ i \in Nat /\ Waits(conns, i) /\ ~server.accepting
      /\ \A q \in DOMAIN server.backlog : i < server.backlog[q]
      /\ \A p \in DOMAIN h : Accepts(server, p) => p = 1
  BY <1>1, <1>2 DEF SocketInv, Shape, Aimed, Single, Accepts
<1>4. /\ c \in Connection /\ c.by = conns[i].by /\ c.line = conns[i].line
      /\ c.left = conns[i].left /\ c.at = "open" /\ c.reading = conns[i].reading
  BY <1>1, <1>3 DEF Connection
<1>5. conns' = [conns EXCEPT ![i] = Reading(c)] /\ server' = Accept(r)
  BY <1>2 DEF OnAccept
<1> HIDE DEF c
<1>6. /\ Reading(c) \in Connection /\ Reading(c).by = conns[i].by
      /\ Reading(c).line = conns[i].line /\ Reading(c).left = conns[i].left
      /\ Reading(c).at = "open"
      /\ Reading(c).reading => c.line = Nothing /\ ~c.left
      /\ ~Reading(c).reading => \E a \in Gets(i, c) : a.conn = i /\ a.kind \in {"line", "end"}
      /\ \A a \in Gets(i, c) :
              /\ a.conn = i /\ a.kind \in {"line", "end"} /\ ~Reading(c).reading
              /\ a.kind = "line" => c.line # Nothing
  <2> HIDE DEF i
  <2> QED
    BY <1>4, ReadMeaning
<1>7. /\ conns' \in Seq(Connection) /\ Len(conns') = Len(conns) /\ DOMAIN conns' = DOMAIN conns
      /\ conns'[i] = Reading(c) /\ \A k \in DOMAIN conns : k # i => conns'[k] = conns[k]
  BY <1>1, <1>3, <1>5, <1>6
<1>8. /\ r \in Server /\ r.at = server.at /\ r.listening = server.listening
      /\ r.accepting = server.accepting /\ r.backlog = server.backlog
      /\ Len(r.handlers) >= Len(h) - 1 /\ Turned(h, r.handlers, 1, {} \cup Gets(i, c))
  <2>1. PICK d \in {0, 1} : d = 1
    OBVIOUS
  <2>2. PICK no : no = {}
    OBVIOUS
  <2>3. /\ d <= Len(h) /\ Len(Popped.handlers) >= Len(h) - d
        /\ Turned(h, Popped.handlers, d, no) /\ \A a \in no : a.conn # i
    BY <2>1, <2>2, <1>2
  <2> HIDE DEF h, i
  <2>4. /\ Read(Popped, i, c) \in Server
        /\ Read(Popped, i, c).at = Popped.at
        /\ Read(Popped, i, c).listening = Popped.listening
        /\ Read(Popped, i, c).accepting = Popped.accepting
        /\ Read(Popped, i, c).backlog = Popped.backlog
        /\ Len(Read(Popped, i, c).handlers) >= Len(h) - d
        /\ Turned(h, Read(Popped, i, c).handlers, d, no \cup Gets(i, c))
    BY <2>3, <1>1, <1>2, <1>3, <1>4, ReadQueues
  <2> QED
    BY <2>1, <2>2, <2>4, <1>2
<1>9. \A a \in Gets(i, c) :
        /\ a.conn = i /\ a.kind \in {"line", "end"}
        /\ a.kind = "line" => conns'[i].line # Nothing
  BY <1>4, <1>6, <1>7
<1>10. /\ conns'[i].reading => conns'[i].line = Nothing /\ ~conns'[i].left
       /\ ~conns'[i].reading => \E a \in Gets(i, c) : a.conn = i /\ a.kind \in {"line", "end"}
  BY <1>4, <1>6, <1>7
<1> DEFINE A == Admits(r)
<1>11. \A a \in Gets(i, c) : a.kind \notin {"accept", "refused"}
  BY <1>9
<1>12. /\ server' \in Server /\ server'.at = server.at /\ server'.listening = server.listening
       /\ server'.accepting <=> A = {}
       /\ server'.backlog = IF server.listening /\ server.backlog # <<>>
                            THEN Tail(server.backlog) ELSE server.backlog
       /\ Turned(h, g, 1, Gets(i, c) \cup A)
  <2>1. PICK d \in {0, 1} : d = 1
    OBVIOUS
  <2>2. PICK m : m = Gets(i, c)
    OBVIOUS
  <2>3. /\ d <= Len(h) /\ Len(r.handlers) >= Len(h) - d
        /\ Turned(h, r.handlers, d, m) /\ \A a \in m : a.kind \notin {"accept", "refused"}
    <3>1. {} \cup Gets(i, c) = m
      BY <2>2
    <3> QED
      BY <2>1, <2>2, <3>1, <1>2, <1>8, <1>11
  <2> HIDE DEF h, i, r
  <2>4. /\ Accept(r) \in Server
        /\ Accept(r).at = r.at
        /\ Accept(r).listening = r.listening
        /\ Accept(r).accepting <=> r.accepting \/ Admits(r) = {}
        /\ Accept(r).backlog = IF r.listening /\ r.backlog # <<>> THEN Tail(r.backlog)
                               ELSE r.backlog
        /\ Turned(h, Accept(r).handlers, d, m \cup Admits(r))
    BY <2>3, <1>1, <1>8, AcceptQueues
  <2>5. r.accepting = FALSE
    BY <1>1, <1>3, <1>8 DEF Server
  <2> QED
    BY <2>1, <2>2, <2>4, <2>5, <1>5, <1>8
<1>13. /\ \A a \in A : \/ a.kind = "refused" /\ ~server.listening
                       \/ /\ a.kind = "accept" /\ server.listening
                          /\ 1 \in DOMAIN server.backlog /\ a.conn = server.backlog[1]
       /\ A = {} => server.listening /\ server.backlog = <<>>
       /\ server.listening /\ server.backlog # <<>> =>
            \E a \in A : a.kind = "accept" /\ a.conn = server.backlog[1]
       /\ \A a, b \in A : a = b
  <2>1. r.backlog # <<>> => 1 \in DOMAIN server.backlog
    BY <1>1, <1>8
  <2>2. CASE ~server.listening
    <3> DEFINE b == [kind |-> "refused", conn |-> 0]
    <3>1. A = {b} /\ b.kind = "refused"
      BY <2>2, <1>8 DEF Admits
    <3> HIDE DEF A, b
    <3> QED
      BY <2>2, <3>1
  <2>3. CASE server.listening /\ server.backlog # <<>>
    <3> DEFINE b == [kind |-> "accept", conn |-> server.backlog[1]]
    <3>1. A = {b} /\ b.kind = "accept" /\ b.conn = server.backlog[1]
      BY <2>3, <1>8 DEF Admits
    <3>2. 1 \in DOMAIN server.backlog
      BY <2>1, <2>3, <1>8
    <3> HIDE DEF A, b
    <3> QED
      BY <2>3, <3>1, <3>2
  <2>4. CASE server.listening /\ server.backlog = <<>>
    <3>1. A = {}
      BY <2>4, <1>8 DEF Admits
    <3> HIDE DEF A
    <3> QED
      BY <2>4, <3>1
  <2> QED
    BY <2>2, <2>3, <2>4
<1>14. ~server.listening => server.backlog = <<>>
  BY DEF SocketInv, Shape, Phases
<1>15. /\ DOMAIN server'.backlog \in SUBSET (Nat \ {0})
       /\ \A q \in DOMAIN server'.backlog :
            q + 1 \in DOMAIN server.backlog /\ server'.backlog[q] = server.backlog[q + 1]
       /\ \A q \in DOMAIN server.backlog : q # 1 =>
            q - 1 \in DOMAIN server'.backlog /\ server'.backlog[q - 1] = server.backlog[q]
       /\ server.backlog = <<>> => server'.backlog = <<>>
  <2>1. CASE server.backlog = <<>>
    BY <2>1, <1>1, <1>12
  <2>2. CASE server.backlog # <<>>
    <3>1. server'.backlog = Tail(server.backlog)
      BY <2>2, <1>12, <1>14
    <3> QED
      BY <2>2, <3>1, <1>1, TailOf
  <2> QED
    BY <2>1, <2>2
<1> HIDE DEF A, r
<1>16. \A k \in DOMAIN conns' : Waits(conns', k) <=> k # i /\ Waits(conns, k)
  BY <1>3, <1>6, <1>7 DEF Waits
<1>17. \A p \in DOMAIN g :
         \/ p + 1 \in DOMAIN h /\ g[p] = h[p + 1] /\ p + 1 # 1
         \/ p > Len(h) - 1 /\ g[p] \in Gets(i, c)
         \/ p > Len(h) - 1 /\ g[p] \in A
  <2>1. DOMAIN g \in SUBSET (Nat \ {0})
    BY <1>12 DEF Server
  <2> QED
    BY <2>1, <1>1, <1>12 DEF Turned
<1>18. Aimed(server', conns')
  <2>1. ASSUME NEW p \in DOMAIN g, g[p].kind \in {"accept", "line", "end"}
        PROVE  g[p].conn \in DOMAIN conns
    <3>1. CASE g[p] \in Gets(i, c)
      BY <3>1, <1>3, <1>9
    <3>2. CASE g[p] \in A
      BY <3>2, <2>1, <1>13 DEF SocketInv, Shape, Lined
    <3>3. CASE p + 1 \in DOMAIN h /\ g[p] = h[p + 1]
      BY <3>3, <2>1 DEF SocketInv, Shape, Aimed
    <3> QED
      BY <3>1, <3>2, <3>3, <1>17
  <2>2. ASSUME NEW p \in DOMAIN g, g[p].kind \in {"line", "end"}
        PROVE  ~Waits(conns', g[p].conn)
    <3>1. g[p].conn \in DOMAIN conns'
      BY <2>1, <2>2, <1>7
    <3>2. CASE g[p] \in Gets(i, c)
      BY <3>1, <3>2, <1>9, <1>16
    <3>3. CASE g[p] \in A
      BY <3>3, <2>2, <1>13
    <3>4. CASE p + 1 \in DOMAIN h /\ g[p] = h[p + 1]
      BY <3>1, <3>4, <2>2, <1>16 DEF SocketInv, Shape, Aimed
    <3> QED
      BY <3>2, <3>3, <3>4, <1>17
  <2> QED
    BY <2>1, <2>2, <1>7 DEF Aimed
<1>19. Lined(server', conns')
  <2>1. ASSUME NEW q \in DOMAIN server'.backlog
        PROVE  server'.backlog[q] \in DOMAIN conns' /\ Waits(conns', server'.backlog[q])
    <3>1. /\ server'.backlog[q] \in DOMAIN conns /\ Waits(conns, server'.backlog[q])
          /\ i < server'.backlog[q]
      BY <2>1, <1>3, <1>15 DEF SocketInv, Shape, Lined
    <3> QED
      BY <3>1, <1>3, <1>7, <1>16
  <2>2. ASSUME NEW q \in DOMAIN server'.backlog, NEW u \in DOMAIN server'.backlog, q < u
        PROVE  server'.backlog[q] < server'.backlog[u]
    <3>1. q + 1 < u + 1 /\ q + 1 \in DOMAIN server.backlog /\ u + 1 \in DOMAIN server.backlog
      BY <2>2, <1>15
    <3> QED
      BY <3>1, <1>15 DEF SocketInv, Shape, Lined
  <2>3. server'.accepting => server'.backlog = <<>>
    BY <1>12, <1>13, <1>15
  <2> QED
    BY <2>1, <2>2, <2>3 DEF Lined
<1>20. Single(server', conns')
  <2>1. ASSUME NEW p \in DOMAIN g, Accepts(server', p)
        PROVE  p > Len(h) - 1 /\ g[p] \in A /\ g[p].kind = "accept"
    BY <1>3, <1>9, <1>17, <2>1 DEF Accepts
  <2>2. \A p, q \in DOMAIN g : Accepts(server', p) /\ Accepts(server', q) => p = q
    BY <2>1, <1>12, <1>13 DEF Turned
  <2>3. ASSUME NEW p \in DOMAIN g, Accepts(server', p)
        PROVE  /\ 1 \in DOMAIN server.backlog /\ g[p].conn = server.backlog[1]
               /\ Waits(conns', server.backlog[1]) /\ ~server'.accepting
    <3>1. /\ 1 \in DOMAIN server.backlog /\ g[p].conn = server.backlog[1]
          /\ server.listening /\ A # {}
      BY <2>1, <2>3, <1>13
    <3>2. /\ server.backlog[1] \in DOMAIN conns /\ Waits(conns, server.backlog[1])
          /\ i < server.backlog[1]
      BY <3>1, <1>3 DEF SocketInv, Shape, Lined
    <3>3. Waits(conns', server.backlog[1])
      BY <3>2, <1>3, <1>7, <1>16
    <3> QED
      BY <3>1, <3>3, <1>12
  <2>4. ASSUME NEW q \in DOMAIN server'.backlog PROVE server.backlog[1] < server'.backlog[q]
    <3>1. /\ q + 1 \in DOMAIN server.backlog /\ 1 \in DOMAIN server.backlog /\ 1 < q + 1
      BY <2>4, <1>1, <1>15
    <3> QED
      BY <2>4, <3>1, <1>15 DEF SocketInv, Shape, Lined
  <2> QED
    BY <2>2, <2>3, <2>4 DEF Single
<1>21. Found(server', conns')
  <2> SUFFICES ASSUME NEW k \in DOMAIN conns', Waits(conns', k)
               PROVE  \/ \E p \in DOMAIN g : Accepts(server', p) /\ g[p].conn = k
                      \/ \E q \in DOMAIN server'.backlog : server'.backlog[q] = k
    BY DEF Found
  <2>1. PICK q \in DOMAIN server.backlog : server.backlog[q] = k
    BY <1>3, <1>7, <1>16 DEF SocketInv, Shape, Found
  <2>2. CASE q = 1
    <3>1. PICK a \in A : a.kind = "accept" /\ a.conn = k
      BY <1>1, <1>13, <1>14, <2>1, <2>2
    <3>2. PICK p \in DOMAIN g : g[p] = a
      BY <1>12, <3>1 DEF Turned
    <3> QED
      BY <3>1, <3>2 DEF Accepts
  <2>3. CASE q # 1
    BY <2>1, <2>3, <1>15
  <2> QED
    BY <2>2, <2>3
<1>22. \A p \in DOMAIN h : h[p].kind # "accept" => p - 1 \in DOMAIN g /\ g[p - 1] = h[p]
  BY <1>1, <1>2, <1>12 DEF Turned, Accepts
<1>23. \A a \in Gets(i, c) \cup A : \E p \in DOMAIN g : g[p] = a
  BY <1>12 DEF Turned
<1>24. Phases(server', conns')
  <2>1. ASSUME server'.at = "up"
        PROVE  /\ server'.listening
               /\ \A p \in DOMAIN g : g[p].kind \in {"accept", "line", "end"}
               /\ server'.accepting \/ \E p \in DOMAIN g : Accepts(server', p)
    <3>1. server.listening /\ \A p \in DOMAIN h : h[p].kind \in {"accept", "line", "end"}
      BY <2>1, <1>12 DEF SocketInv, Shape, Phases
    <3>2. \A p \in DOMAIN g : g[p].kind \in {"accept", "line", "end"}
      BY <3>1, <1>9, <1>13, <1>17
    <3>3. A # {} => \E p \in DOMAIN g : Accepts(server', p)
      BY <3>1, <1>13, <1>23 DEF Accepts
    <3> QED
      BY <3>1, <3>2, <3>3, <1>12
  <2>2. ~server'.listening => server'.backlog = <<>> /\ ~server'.accepting
    BY <1>12, <1>13, <1>14, <1>15
  <2>3. server'.at # "down"
    BY <1>1, <1>2, <1>12 DEF SocketInv, Shape, Phases
  <2>4. server'.at = "stopping" /\ server'.listening =>
          \E p \in DOMAIN g : g[p].kind = "stop"
    BY <1>12, <1>22 DEF SocketInv, Shape, Phases
  <2> QED
    BY <2>1, <2>2, <2>3, <2>4 DEF Phases
<1>25. Written(conns')
  BY <1>4, <1>6, <1>7, <1>10 DEF SocketInv, Shape, Written
<1>26. Attended(server', conns')
  <2>1. conns'[i].reading
        \/ \E p \in DOMAIN g : g[p].kind \in {"line", "end"} /\ g[p].conn = i
    BY <1>6, <1>7, <1>10, <1>23
  <2> QED
    BY <2>1, <1>7, <1>22 DEF SocketInv, Shape, Attended
<1>27. \A k \in DOMAIN conns' : conns'[k].by = conns[k].by /\ conns'[k].left = conns[k].left
                                /\ conns'[k].line = conns[k].line
  BY <1>6, <1>7
<1>28. \A p \in DOMAIN g : Hears(server', p) =>
         \/ /\ p + 1 \in DOMAIN h /\ g[p] = h[p + 1] /\ Hears(server, p + 1)
            /\ g[p].conn \in DOMAIN conns /\ g[p].conn < i
         \/ p > Len(h) - 1 /\ g[p].conn = i /\ g[p] \in Gets(i, c)
  <2>1. \A p \in DOMAIN h : Hears(server, p) => h[p].conn \in DOMAIN conns /\ h[p].conn < i
    BY <1>3 DEF SocketInv, Shape, Order, Aimed, Ahead, Hears, Reached
  <2> QED
    BY <2>1, <1>9, <1>13, <1>17 DEF Hears
<1>29. Ordered(server', conns', Heard)
  <2>1. \A t \in Clients : Heard[t] < i
    BY <1>1, <1>3 DEF SocketInv, Order, Ahead, Reached
  <2>2. \A p \in DOMAIN g : Hears(server', p) =>
          /\ conns'[g[p].conn].line # Nothing
          /\ Heard[conns'[g[p].conn].by] < g[p].conn
    <3>1. conns[i].by \in Clients
      BY <1>1, <1>3 DEF Connection
    <3> QED
      BY <3>1, <2>1, <1>3, <1>7, <1>9, <1>27, <1>28 DEF SocketInv, Order, Ordered, Hears
  <2>3. ASSUME NEW p \in DOMAIN g, NEW q \in DOMAIN g, Hears(server', p), Hears(server', q),
               p < q, conns'[g[q].conn].by = conns'[g[p].conn].by
        PROVE  g[p].conn < g[q].conn
    <3>1. CASE g[p] \in Gets(i, c) /\ p > Len(h) - 1 /\ g[q] \in Gets(i, c) /\ q > Len(h) - 1
      <4>1. g[p] = g[q] /\ g[p].kind = "line"
        BY <3>1, <2>3 DEF Gets, Hears
      <4> QED
        BY <3>1, <4>1, <2>3, <1>1, <1>12 DEF Turned, Server
    <3>2. CASE g[p] \in Gets(i, c) /\ p > Len(h) - 1 /\ q + 1 \in DOMAIN h
      BY <3>2, <2>3, <1>1, <1>12 DEF Server
    <3>3. CASE p + 1 \in DOMAIN h /\ g[p].conn < i /\ g[q].conn = i
      BY <3>3
    <3>4. CASE /\ p + 1 \in DOMAIN h /\ g[p] = h[p + 1] /\ Hears(server, p + 1)
               /\ q + 1 \in DOMAIN h /\ g[q] = h[q + 1] /\ Hears(server, q + 1)
               /\ g[p].conn \in DOMAIN conns /\ g[q].conn \in DOMAIN conns
      <4>1. p + 1 < q + 1
        BY <2>3, <1>12 DEF Server
      <4>2. conns[g[q].conn].by = conns[g[p].conn].by
        BY <3>4, <2>3, <1>7, <1>27
      <4> QED
        BY <3>4, <4>1, <4>2 DEF SocketInv, Order, Ordered
    <3> QED
      BY <3>1, <3>2, <3>3, <3>4, <2>3, <1>28
  <2> QED
    BY <2>2, <2>3 DEF Ordered
<1>30. Own(conns', Heard)
  BY <1>1, <1>7, <1>27 DEF SocketInv, Order, Own
<1>31. Ahead(server', conns', Heard)
  <2> SUFFICES ASSUME NEW a \in DOMAIN conns', NEW k \in DOMAIN conns', Waits(conns', a),
                      Reached(server', conns', Heard, k)
               PROVE  k < a
    BY DEF Ahead
  <2>1. a \in DOMAIN conns /\ k \in DOMAIN conns /\ Waits(conns, a) /\ a # i
    BY <1>7, <1>16
  <2>2. CASE k = i
    <3>1. PICK q \in DOMAIN server.backlog : server.backlog[q] = a
      BY <2>1, <1>3 DEF SocketInv, Shape, Found
    <3> QED
      BY <2>2, <3>1, <1>3
  <2>3. CASE k # i
    <3>1. Reached(server, conns, Heard, k)
      BY <2>1, <2>3, <1>7, <1>28 DEF Reached
    <3> QED
      BY <3>1, <2>1 DEF SocketInv, Order, Ahead
  <2> QED
    BY <2>2, <2>3
<1> QED
  BY <1>1, <1>7, <1>12, <1>18, <1>19, <1>20, <1>21, <1>24, <1>25, <1>26, <1>27, <1>29, <1>30, <1>31
  DEF SocketInvNext, SameClients, SocketTypeOK, Shape, Order

\* A session ends.
LEMMA EndKeeps ==
  ASSUME SocketInv, OnEnd
  PROVE  SocketInvNext /\ SameClients
<1> DEFINE h == server.handlers
<1> DEFINE i == h[1].conn
<1>1. /\ server \in Server /\ conns \in Seq(Connection) /\ Len(conns) \in Nat
      /\ DOMAIN conns = 1 .. Len(conns) /\ \A k \in DOMAIN conns : conns[k] \in Connection
  BY Parts DEF SocketInv
<1>2. /\ 1 \in DOMAIN h /\ Len(h) >= 1 /\ Subject = i /\ h[1].kind = "end"
      /\ Popped \in Server /\ Popped.at = server.at /\ Popped.listening = server.listening
      /\ Popped.accepting = server.accepting /\ Popped.backlog = server.backlog
      /\ Turned(h, Popped.handlers, 1, {})
  BY TakeHead DEF OnEnd, SocketInv
<1>3. i \in DOMAIN conns /\ ~Waits(conns, i) /\ server.at # "down"
  <2>1. h # <<>>
    BY <1>2
  <2> QED
    BY <2>1, <1>2 DEF SocketInv, Shape, Aimed, Phases
<1>4. server' = Popped /\ conns' = [conns EXCEPT ![i].at = "closed", ![i].reading = FALSE]
  BY <1>2 DEF OnEnd
<1> HIDE DEF i
<1>5. /\ conns' \in Seq(Connection) /\ Len(conns') = Len(conns) /\ DOMAIN conns' = DOMAIN conns
      /\ \A k \in DOMAIN conns : k # i => conns'[k] = conns[k]
      /\ conns'[i].by = conns[i].by /\ conns'[i].line = conns[i].line
      /\ conns'[i].left = conns[i].left /\ conns'[i].at = "closed" /\ ~conns'[i].reading
  <2> DEFINE b == [conns[i] EXCEPT !.at = "closed", !.reading = FALSE]
  <2>1. /\ b \in Connection /\ b.by = conns[i].by /\ b.line = conns[i].line
        /\ b.left = conns[i].left /\ b.at = "closed" /\ ~b.reading
    BY <1>1, <1>3 DEF Connection
  <2>2. conns' = [conns EXCEPT ![i] = b]
    BY <1>1, <1>3, <1>4
  <2> HIDE DEF b
  <2> QED
    BY <2>1, <2>2, <1>1, <1>3
<1>6. Shape(server', conns')
  <2>1. PICK d \in {0, 1} : d = 1
    OBVIOUS
  <2>2. PICK no : no = {}
    OBVIOUS
  <2>3. /\ Turned(server.handlers, server'.handlers, d, no)
        /\ d = 1 => server.handlers[1].kind \in {"line", "end"} /\ server.handlers[1].conn = i
        /\ \A a \in no : a.kind \in {"line", "end"} /\ a.conn = i
    BY <2>1, <2>2, <1>2, <1>4 DEF i
  <2>4. /\ ~Waits(conns', i) /\ conns'[i].at # "open" /\ ~conns'[i].reading
        /\ conns'[i].line # Nothing => conns'[i].left /\ conns'[i].by # "guest"
    BY <1>3, <1>5 DEF Waits, SocketInv, Shape, Written
  <2>5. Follows(server, conns, server', conns', d, no, i)
    BY <2>3, <2>4, <1>2, <1>3, <1>4, <1>5 DEF Follows
  <2>6. Shape(server, conns) /\ server' \in Server
    BY <1>2, <1>4 DEF SocketInv
  <2> QED
    BY <2>5, <2>6, <1>1, ShapeBeside
<1>7. Order(server', conns', Heard)
  <2>1. PICK d \in {0, 1} : d = 1
    OBVIOUS
  <2>2. PICK no : no = {}
    OBVIOUS
  <2>3. PICK heard : heard = Heard
    OBVIOUS
  <2>4. /\ Turned(server.handlers, server'.handlers, d, no)
        /\ server' \in Server /\ \A a \in no : a.kind # "line"
    BY <2>1, <2>2, <1>2, <1>4
  <2>5. \A t \in Clients : heard[t] # 0 => heard[t] \in DOMAIN conns
    BY <2>3, <1>1 DEF SocketInv
  <2>6. \A k \in DOMAIN conns : /\ conns'[k].by = conns[k].by
                                /\ conns[k].line # Nothing => conns'[k].line # Nothing
                                /\ conns[k].left => conns'[k].left
                                /\ conns'[k].reading => conns[k].reading
                                /\ Waits(conns', k) => Waits(conns, k)
    BY <1>5 DEF Waits
  <2>7. Aimed(server, conns) /\ Order(server, conns, heard)
    BY <2>3 DEF SocketInv, Shape
  <2>8. Order(server', conns', heard)
    BY <2>4, <2>5, <2>6, <2>7, <1>1, <1>5, OrderBeside
  <2> QED
    BY <2>3, <2>8
<1> QED
  BY <1>1, <1>2, <1>4, <1>5, <1>6, <1>7 DEF SocketInvNext, SameClients, SocketTypeOK

\* The server is told to stop.
LEMMA StopKeeps ==
  ASSUME SocketInv, Stop
  PROVE  SocketInvNext /\ SameClients
<1> DEFINE h == server.handlers
<1> DEFINE g == server'.handlers
<1>1. /\ server \in Server /\ conns \in Seq(Connection) /\ Len(conns) \in Nat
      /\ DOMAIN conns = 1 .. Len(conns) /\ h \in Seq(Handler) /\ Len(h) \in Nat
  BY Parts DEF SocketInv
<1>2. PICK d \in {0, 1} : d = 0
  OBVIOUS
<1>3. PICK b : b = [kind |-> "stop", conn |-> 0]
  OBVIOUS
<1>4. PICK add : add = {b}
  OBVIOUS
<1>5. /\ server' \in Server /\ server'.at = "stopping" /\ server'.listening = server.listening
      /\ server'.accepting = server.accepting /\ server'.backlog = server.backlog
      /\ Turned(h, g, d, add)
  <2> DEFINE s == [server EXCEPT !.at = "stopping"]
  <2>1. /\ s \in Server /\ s.at = "stopping" /\ s.listening = server.listening
        /\ s.accepting = server.accepting /\ s.backlog = server.backlog /\ s.handlers = h
    BY <1>1 DEF Server
  <2>2. server' = Queued(s, "stop", 0)
    BY DEF Stop
  <2>3. PICK kind \in Kinds : kind = "stop"
    BY DEF Kinds
  <2>4. PICK n \in Nat : n = 0
    OBVIOUS
  <2>5. PICK no : no = {}
    OBVIOUS
  <2> HIDE DEF s, h
  <2>6. Turned(h, s.handlers, d, no) /\ d <= Len(h) /\ Len(s.handlers) >= Len(h) - d
    BY <2>1, <2>5, <1>1, <1>2, NotTurned
  <2>7. [kind |-> kind, conn |-> n] \notin no
    BY <2>5
  <2>8. /\ Queued(s, kind, n) \in Server
        /\ Queued(s, kind, n).at = s.at
        /\ Queued(s, kind, n).listening = s.listening
        /\ Queued(s, kind, n).accepting = s.accepting
        /\ Queued(s, kind, n).backlog = s.backlog
        /\ Len(Queued(s, kind, n).handlers) >= Len(h) - d
        /\ Turned(h, Queued(s, kind, n).handlers, d, no \cup {[kind |-> kind, conn |-> n]})
    BY <2>1, <2>6, <2>7, <1>1, QueuedOnce
  <2> QED
    BY <2>1, <2>2, <2>3, <2>4, <2>5, <2>8, <1>3, <1>4
<1>6. conns' = conns /\ server.at = "up"
  BY DEF Stop
<1>7. b.kind = "stop" /\ \A a \in add : a.kind = "stop"
  BY <1>3, <1>4
<1>8. /\ \A p \in DOMAIN g :
           \/ p + d \in DOMAIN h /\ g[p] = h[p + d]
           \/ g[p] \in add
      /\ \A p \in DOMAIN h : p \in DOMAIN g /\ g[p] = h[p]
      /\ \E p \in DOMAIN g : g[p] = b
  <2> HIDE DEF g, h
  <2>1. Turned(h, g, d, add) /\ g \in Seq(Handler)
    BY <1>5 DEF g, Server
  <2>2. /\ DOMAIN g \in SUBSET (Nat \ {0}) /\ DOMAIN h \in SUBSET (Nat \ {0})
        /\ Len(h) \in Nat
        /\ \A p \in DOMAIN h : p <= Len(h)
        /\ \A p \in DOMAIN g :
             \/ p + d \in DOMAIN h /\ g[p] = h[p + d] /\ (d = 1 => p + d # 1)
             \/ p > Len(h) - d /\ g[p] \in add
        /\ \A p \in DOMAIN h : (d = 1 => p # 1) => p - d \in DOMAIN g /\ g[p - d] = h[p]
        /\ \A a \in add : \E p \in DOMAIN g : g[p] = a
    BY <1>1, <2>1, TurnedView
  <2> QED
    BY <2>2, <1>2, <1>4
<1> HIDE DEF g, h
<1>9. Aimed(server', conns')
  BY <1>6, <1>7, <1>8 DEF SocketInv, Shape, Aimed, g, h
<1>10. Lined(server', conns') /\ Single(server', conns') /\ Found(server', conns')
  <2>1. /\ d = 1 => server.handlers[1].kind # "accept"
        /\ \A a \in add : a.kind # "accept"
        /\ Aimed(server, conns) /\ Lined(server, conns) /\ Single(server, conns)
        /\ Found(server, conns) /\ Turned(server.handlers, server'.handlers, d, add)
    BY <1>2, <1>5, <1>7 DEF SocketInv, Shape, g, h
  <2>2. \A k \in DOMAIN conns : Waits(conns', k) <=> Waits(conns, k)
    BY <1>6
  <2> QED
    BY <2>1, <2>2, <1>1, <1>5, <1>6, QueueBeside
<1>11. Phases(server', conns')
  BY <1>5, <1>6, <1>7, <1>8 DEF SocketInv, Shape, Phases, g
<1>12. Written(conns') /\ Attended(server', conns')
  BY <1>6, <1>8 DEF SocketInv, Shape, Written, Attended, g, h
<1>13. Order(server', conns', Heard)
  <2>1. PICK heard : heard = Heard
    OBVIOUS
  <2>2. /\ Turned(server.handlers, server'.handlers, d, add)
        /\ \A a \in add : a.kind # "line"
    BY <1>5, <1>7 DEF g, h
  <2>3. \A t \in Clients : heard[t] # 0 => heard[t] \in DOMAIN conns
    BY <2>1, <1>1 DEF SocketInv
  <2>4. Aimed(server, conns) /\ Order(server, conns, heard)
    BY <2>1 DEF SocketInv, Shape
  <2>5. \A k \in DOMAIN conns : /\ conns'[k].by = conns[k].by
                                /\ conns[k].line # Nothing => conns'[k].line # Nothing
                                /\ conns[k].left => conns'[k].left
                                /\ conns'[k].reading => conns[k].reading
                                /\ Waits(conns', k) => Waits(conns, k)
    BY <1>6
  <2>6. Order(server', conns', heard)
    BY <2>2, <2>3, <2>4, <2>5, <1>1, <1>5, <1>6, OrderBeside
  <2> QED
    BY <2>1, <2>6
<1> QED
  BY <1>1, <1>5, <1>6, <1>9, <1>10, <1>11, <1>12, <1>13
  DEF SocketInvNext, SameClients, SocketTypeOK, Shape

\* A line has been read: its client has left, so the session has nothing more to read.
LEMMA LineKeeps ==
  ASSUME SocketInv, OnLine
  PROVE  /\ SocketTypeOK' /\ Len(conns') = Len(conns) /\ Subject \in DOMAIN conns
         /\ conns[Subject].by \in Clients /\ conns[Subject].line \in Messages
         /\ Heard[conns[Subject].by] < Subject
         /\ \A k \in DOMAIN conns : /\ conns'[k].by = conns[k].by
                                    /\ conns'[k].left = conns[k].left
         /\ Shape(server', conns')
         /\ Order(server', conns', [Heard EXCEPT ![conns[Subject].by] = Subject])
<1> DEFINE h == server.handlers
<1> DEFINE g == server'.handlers
<1> DEFINE i == h[1].conn
<1> DEFINE c == [conns[i] EXCEPT !.line = Nothing]
<1>1. /\ server \in Server /\ conns \in Seq(Connection) /\ Len(conns) \in Nat
      /\ DOMAIN conns = 1 .. Len(conns) /\ \A k \in DOMAIN conns : conns[k] \in Connection
      /\ h \in Seq(Handler) /\ Len(h) \in Nat /\ \A p \in DOMAIN h : h[p].conn \in Nat
  BY Parts DEF SocketInv
<1>2. /\ 1 \in DOMAIN h /\ Len(h) >= 1 /\ Subject = i /\ h[1].kind = "line"
      /\ Popped \in Server /\ Popped.at = server.at /\ Popped.listening = server.listening
      /\ Popped.accepting = server.accepting /\ Popped.backlog = server.backlog
      /\ Len(Popped.handlers) >= Len(h) - 1 /\ Turned(h, Popped.handlers, 1, {})
  BY TakeHead DEF OnLine, SocketInv
<1>3. i \in DOMAIN conns /\ i \in Nat /\ ~Waits(conns, i) /\ server.at # "down"
  <2>1. h # <<>>
    BY <1>2
  <2> QED
    BY <2>1, <1>1, <1>2 DEF SocketInv, Shape, Aimed, Phases
<1>4. /\ conns[i].line # Nothing /\ conns[i].left /\ Heard[conns[i].by] < i
      /\ conns[i].by \in Clients /\ conns[i].line \in Messages
  BY <1>1, <1>2, <1>3 DEF SocketInv, Shape, Order, Ordered, Written, Hears, Connection
<1>5. /\ c \in Connection /\ c.by = conns[i].by /\ c.line = Nothing
      /\ c.left = conns[i].left /\ c.at = conns[i].at
  BY <1>1, <1>3 DEF Connection
<1>6. conns' = [conns EXCEPT ![i] = Reading(c)] /\ server' = Read(Popped, i, c)
  BY <1>2 DEF OnLine
<1> HIDE DEF c, i
<1>7. /\ Reading(c) \in Connection /\ Reading(c).by = c.by /\ Reading(c).line = c.line
      /\ Reading(c).left = c.left /\ Reading(c).at = c.at
      /\ Reading(c).reading => c.line = Nothing /\ ~c.left /\ c.at # "closed"
      /\ ~Reading(c).reading => \E a \in Gets(i, c) : a.conn = i /\ a.kind \in {"line", "end"}
      /\ \A a \in Gets(i, c) :
              /\ a.conn = i /\ a.kind \in {"line", "end"} /\ ~Reading(c).reading
              /\ a.kind = "line" => c.line # Nothing
  BY <1>5, ReadMeaning
<1>8. /\ conns' \in Seq(Connection) /\ Len(conns') = Len(conns) /\ DOMAIN conns' = DOMAIN conns
      /\ \A k \in DOMAIN conns : k # i => conns'[k] = conns[k]
      /\ conns'[i].by = conns[i].by /\ conns'[i].line = Nothing /\ conns'[i].left
      /\ conns'[i].at = conns[i].at /\ ~conns'[i].reading
  <2>1. /\ conns' \in Seq(Connection) /\ Len(conns') = Len(conns)
        /\ DOMAIN conns' = DOMAIN conns /\ conns'[i] = Reading(c)
        /\ \A k \in DOMAIN conns : k # i => conns'[k] = conns[k]
    BY <1>1, <1>3, <1>6, <1>7
  <2>2. c.left /\ Reading(c).left /\ ~Reading(c).reading
    BY <1>4, <1>5, <1>7
  <2> QED
    BY <2>1, <2>2, <1>5, <1>7
<1>9. \A a \in Gets(i, c) : a.conn = i /\ a.kind = "end"
  BY <1>5, <1>7
<1>10. PICK d \in {0, 1} : d = 1
  OBVIOUS
<1>11. PICK add : add = Gets(i, c)
  OBVIOUS
<1>12. /\ server' \in Server /\ server'.at = server.at
       /\ server'.listening = server.listening /\ server'.accepting = server.accepting
       /\ server'.backlog = server.backlog /\ Turned(h, g, d, add)
  <2>1. PICK no : no = {}
    OBVIOUS
  <2>2. /\ d <= Len(h) /\ Len(Popped.handlers) >= Len(h) - d
        /\ Turned(h, Popped.handlers, d, no) /\ \A a \in no : a.conn # i
    BY <2>1, <1>2, <1>10
  <2> HIDE DEF h
  <2>3. /\ Read(Popped, i, c) \in Server
        /\ Read(Popped, i, c).at = Popped.at
        /\ Read(Popped, i, c).listening = Popped.listening
        /\ Read(Popped, i, c).accepting = Popped.accepting
        /\ Read(Popped, i, c).backlog = Popped.backlog
        /\ Len(Read(Popped, i, c).handlers) >= Len(h) - d
        /\ Turned(h, Read(Popped, i, c).handlers, d, no \cup Gets(i, c))
    BY <2>2, <1>1, <1>2, <1>3, <1>5, ReadQueues
  <2>4. no \cup Gets(i, c) = add
    BY <2>1, <1>11
  <2> QED
    BY <2>3, <2>4, <1>2, <1>6
<1>13. Shape(server', conns')
  <2>1. d = 1 => server.handlers[1].kind \in {"line", "end"} /\ server.handlers[1].conn = i
    BY <1>2 DEF i
  <2>2. /\ ~Waits(conns', i)
        /\ conns'[i].at = "open" => conns'[i].reading \/ \E a \in add : TRUE
        /\ \A a \in add : a.kind \in {"line", "end"} /\ a.conn = i
    BY <1>3, <1>4, <1>5, <1>7, <1>8, <1>9, <1>11 DEF Waits
  <2>3. Follows(server, conns, server', conns', d, add, i)
    BY <2>1, <2>2, <1>3, <1>8, <1>12 DEF Follows
  <2>4. Shape(server, conns)
    BY DEF SocketInv
  <2> QED
    BY <2>3, <2>4, <1>1, <1>12, ShapeBeside
<1>14. PICK heard : heard = [Heard EXCEPT ![conns[i].by] = i]
  OBVIOUS
<1>15. /\ heard[conns[i].by] = i
       /\ \A t \in Clients : heard[t] = IF t = conns[i].by THEN i ELSE Heard[t]
  BY <1>4, <1>14 DEF SocketInv
<1>16. \A p \in DOMAIN g : Hears(server', p) =>
         /\ p \in Nat /\ p + 1 \in DOMAIN h /\ p + 1 > 1
         /\ g[p] = h[p + 1] /\ Hears(server, p + 1)
         /\ g[p].conn \in DOMAIN conns
  <2>1. g \in Seq(Handler)
    BY <1>12 DEF Server
  <2> HIDE DEF g, h
  <2>2. /\ DOMAIN g \in SUBSET (Nat \ {0}) /\ DOMAIN h \in SUBSET (Nat \ {0})
        /\ Len(h) \in Nat
        /\ \A p \in DOMAIN h : p <= Len(h)
        /\ \A p \in DOMAIN g :
             \/ p + d \in DOMAIN h /\ g[p] = h[p + d] /\ (d = 1 => p + d # 1)
             \/ p > Len(h) - d /\ g[p] \in add
        /\ \A p \in DOMAIN h : (d = 1 => p # 1) => p - d \in DOMAIN g /\ g[p - d] = h[p]
        /\ \A a \in add : \E p \in DOMAIN g : g[p] = a
    BY <2>1, <1>1, <1>12, TurnedView
  <2> QED
    BY <2>2, <1>9, <1>10, <1>11 DEF Hears, SocketInv, Shape, Aimed, g, h
<1>17. \A p \in DOMAIN g : Hears(server', p) /\ conns[g[p].conn].by = conns[i].by
                             => i < g[p].conn
  <2>1. Hears(server, 1)
    BY <1>2 DEF Hears
  <2> QED
    BY <2>1, <1>2, <1>16 DEF SocketInv, Order, Ordered, i
<1>18. \A p \in DOMAIN g : Hears(server', p) => g[p].conn # i
  BY <1>1, <1>3, <1>17
<1>19. Ordered(server', conns', heard)
  <2>1. ASSUME NEW p \in DOMAIN g, Hears(server', p)
        PROVE  conns'[g[p].conn].line # Nothing /\ heard[conns'[g[p].conn].by] < g[p].conn
    <3>1. conns'[g[p].conn] = conns[g[p].conn] /\ conns[g[p].conn].by \in Clients
      BY <2>1, <1>1, <1>8, <1>16, <1>18 DEF Connection
    <3>2. conns[g[p].conn].line # Nothing /\ Heard[conns[g[p].conn].by] < g[p].conn
      BY <2>1, <1>16 DEF SocketInv, Order, Ordered
    <3> QED
      BY <3>1, <3>2, <2>1, <1>15, <1>17
  <2>2. ASSUME NEW p \in DOMAIN g, NEW r \in DOMAIN g, Hears(server', p), Hears(server', r),
               p < r, conns'[g[r].conn].by = conns'[g[p].conn].by
        PROVE  g[p].conn < g[r].conn
    <3>1. p + 1 < r + 1
      BY <2>2, <1>16
    <3>2. conns[g[r].conn].by = conns[g[p].conn].by
      BY <2>2, <1>8, <1>16
    <3> QED
      BY <3>1, <3>2, <2>2, <1>16 DEF SocketInv, Order, Ordered
  <2> QED
    BY <2>1, <2>2 DEF Ordered
<1>20. Own(conns', heard)
  <2>1. \A t \in Clients : Heard[t] # 0 => Heard[t] \in DOMAIN conns
    BY <1>1 DEF SocketInv
  <2> QED
    BY <2>1, <1>3, <1>8, <1>15 DEF SocketInv, Order, Own
<1>21. Ahead(server', conns', heard)
  <2> SUFFICES ASSUME NEW a \in DOMAIN conns, NEW k \in DOMAIN conns, Waits(conns', a),
                      Reached(server', conns', heard, k)
               PROVE  k < a
    BY <1>8 DEF Ahead
  <2>1. Waits(conns, a)
    BY <1>8 DEF Waits
  <2>2. Reached(server, conns, Heard, i)
    BY <1>2 DEF Reached, Hears, i
  <2>3. Reached(server, conns, Heard, k)
    <3>1. CASE conns'[k].reading
      BY <3>1, <1>8 DEF Reached
    <3>2. CASE \E p \in DOMAIN g : Hears(server', p) /\ g[p].conn = k
      BY <3>2, <1>16 DEF Reached
    <3>3. CASE \E t \in Clients : heard[t] = k
      BY <3>3, <2>2, <1>15 DEF Reached
    <3> QED
      BY <3>1, <3>2, <3>3 DEF Reached
  <2> QED
    BY <2>1, <2>3 DEF SocketInv, Order, Ahead
<1>22. Order(server', conns', [Heard EXCEPT ![conns[i].by] = i])
  BY <1>14, <1>19, <1>20, <1>21 DEF Order
<1>23. \A k \in DOMAIN conns : conns'[k].by = conns[k].by /\ conns'[k].left = conns[k].left
  BY <1>4, <1>8, <1>5, <1>6, <1>7, <1>1, <1>3
<1> QED
  BY <1>2, <1>3, <1>4, <1>8, <1>12, <1>13, <1>22, <1>23 DEF SocketTypeOK

\* An accept that failed is the end of accepting: the server is being stopped.
LEMMA RefusalKeeps ==
  ASSUME SocketInv, OnAcceptFailed
  PROVE  SocketInvNext /\ SameClients
<1> DEFINE h == server.handlers
<1> DEFINE g == server'.handlers
<1>1. /\ server \in Server /\ conns \in Seq(Connection) /\ Len(conns) \in Nat
      /\ DOMAIN conns = 1 .. Len(conns) /\ h \in Seq(Handler) /\ Len(h) \in Nat
  BY Parts DEF SocketInv
<1>2. /\ 1 \in DOMAIN h /\ h[1].kind = "refused"
      /\ Popped \in Server /\ Popped.at = server.at /\ Popped.listening = server.listening
      /\ Popped.accepting = server.accepting /\ Popped.backlog = server.backlog
      /\ Turned(h, Popped.handlers, 1, {})
  BY TakeHead DEF OnAcceptFailed, SocketInv
<1>3. server.at = "stopping"
  <2>1. h # <<>>
    BY <1>2
  <2> QED
    BY <2>1, <1>1, <1>2 DEF SocketInv, Shape, Phases, Server
<1>4. server' = Popped /\ conns' = conns
  BY <1>3 DEF OnAcceptFailed
<1>5. PICK d \in {0, 1} : d = 1
  OBVIOUS
<1>6. PICK no : no = {}
  OBVIOUS
<1>7. /\ server' \in Server /\ server'.at = server.at
      /\ server'.listening = server.listening /\ server'.accepting = server.accepting
      /\ server'.backlog = server.backlog /\ Turned(h, g, d, no)
  BY <1>2, <1>4, <1>5, <1>6
<1>8. /\ \A p \in DOMAIN g : p + d \in DOMAIN h /\ g[p] = h[p + d]
      /\ \A p \in DOMAIN h : p # 1 => p - d \in DOMAIN g /\ g[p - d] = h[p]
  <2>1. g \in Seq(Handler)
    BY <1>7 DEF Server
  <2> HIDE DEF g, h
  <2>2. /\ DOMAIN g \in SUBSET (Nat \ {0}) /\ DOMAIN h \in SUBSET (Nat \ {0})
        /\ Len(h) \in Nat
        /\ \A p \in DOMAIN h : p <= Len(h)
        /\ \A p \in DOMAIN g :
             \/ p + d \in DOMAIN h /\ g[p] = h[p + d] /\ (d = 1 => p + d # 1)
             \/ p > Len(h) - d /\ g[p] \in no
        /\ \A p \in DOMAIN h : (d = 1 => p # 1) => p - d \in DOMAIN g /\ g[p - d] = h[p]
        /\ \A a \in no : \E p \in DOMAIN g : g[p] = a
    BY <2>1, <1>1, <1>7, TurnedView
  <2> QED
    BY <2>2, <1>6
<1> HIDE DEF g, h
<1>9. Aimed(server', conns')
  BY <1>4, <1>8 DEF SocketInv, Shape, Aimed, g, h
<1>10. Lined(server', conns') /\ Single(server', conns') /\ Found(server', conns')
  <2>1. /\ d = 1 => server.handlers[1].kind # "accept"
        /\ \A a \in no : a.kind # "accept"
        /\ Aimed(server, conns) /\ Lined(server, conns) /\ Single(server, conns)
        /\ Found(server, conns) /\ Turned(server.handlers, server'.handlers, d, no)
    BY <1>2, <1>6, <1>7 DEF SocketInv, Shape, g, h
  <2>2. \A k \in DOMAIN conns : Waits(conns', k) <=> Waits(conns, k)
    BY <1>4
  <2> QED
    BY <2>1, <2>2, <1>1, <1>4, <1>7, QueueBeside
<1>11. Phases(server', conns')
  <2>1. server.listening => \E p \in DOMAIN h : h[p].kind = "stop" /\ p # 1
    BY <1>2, <1>3 DEF SocketInv, Shape, Phases, h
  <2> QED
    BY <2>1, <1>3, <1>7, <1>8 DEF SocketInv, Shape, Phases, g
<1>12. Written(conns') /\ Attended(server', conns')
  <2>1. ASSUME NEW k \in DOMAIN conns, conns[k].at = "open", ~conns[k].reading
        PROVE  \E p \in DOMAIN g : g[p].kind \in {"line", "end"} /\ g[p].conn = k
    <3>1. PICK p \in DOMAIN h : h[p].kind \in {"line", "end"} /\ h[p].conn = k
      BY <2>1 DEF SocketInv, Shape, Attended, h
    <3> QED
      BY <3>1, <1>2, <1>8
  <2> QED
    BY <2>1, <1>4 DEF SocketInv, Shape, Written, Attended, g
<1>13. Order(server', conns', Heard)
  <2>1. PICK heard : heard = Heard
    OBVIOUS
  <2>2. /\ Turned(server.handlers, server'.handlers, d, no)
        /\ \A a \in no : a.kind # "line"
    BY <1>6, <1>7 DEF g, h
  <2>3. \A t \in Clients : heard[t] # 0 => heard[t] \in DOMAIN conns
    BY <2>1, <1>1 DEF SocketInv
  <2>4. Aimed(server, conns) /\ Order(server, conns, heard)
    BY <2>1 DEF SocketInv, Shape
  <2>5. \A k \in DOMAIN conns : /\ conns'[k].by = conns[k].by
                                /\ conns[k].line # Nothing => conns'[k].line # Nothing
                                /\ conns[k].left => conns'[k].left
                                /\ conns'[k].reading => conns[k].reading
                                /\ Waits(conns', k) => Waits(conns, k)
    BY <1>4
  <2>6. Order(server', conns', heard)
    BY <2>2, <2>3, <2>4, <2>5, <1>1, <1>4, <1>7, OrderBeside
  <2> QED
    BY <2>1, <2>6
<1> QED
  BY <1>1, <1>4, <1>7, <1>9, <1>10, <1>11, <1>12, <1>13
  DEF SocketInvNext, SameClients, SocketTypeOK, Shape

\* The thread of a server that was told to stop ends.
LEMMA StoppedKeeps ==
  ASSUME SocketInv, Stopped
  PROVE  SocketInvNext /\ SameClients
<1>1. /\ server \in Server /\ conns \in Seq(Connection) /\ Len(conns) \in Nat
      /\ DOMAIN conns = 1 .. Len(conns)
  BY Parts DEF SocketInv
<1>2. /\ server.handlers = <<>> /\ ~server.accepting /\ server.at = "stopping"
      /\ \A i \in DOMAIN conns : ~conns[i].reading
      /\ conns' = conns /\ server' = [server EXCEPT !.at = "down"]
  BY DEF Stopped, Idle
<1>3. /\ server' \in Server /\ server'.at = "down" /\ server'.handlers = server.handlers
      /\ server'.listening = server.listening /\ server'.accepting = server.accepting
      /\ server'.backlog = server.backlog
  BY <1>1, <1>2 DEF Server
<1>4. ~server.listening
  BY <1>1, <1>2 DEF SocketInv, Shape, Phases
<1>5. Aimed(server', conns') /\ Single(server', conns') /\ Attended(server', conns')
  BY <1>2, <1>3 DEF SocketInv, Shape, Aimed, Single, Attended, Accepts
<1>6. Lined(server', conns') /\ Found(server', conns') /\ Written(conns')
  BY <1>2, <1>3 DEF SocketInv, Shape, Lined, Found, Written, Accepts
<1>7. Phases(server', conns')
  BY <1>2, <1>3, <1>4 DEF SocketInv, Shape, Phases
<1>8. Order(server', conns', Heard)
  BY <1>2, <1>3 DEF SocketInv, Order, Ordered, Own, Ahead, Reached, Hears
<1> QED
  BY <1>1, <1>2, <1>3, <1>5, <1>6, <1>7, <1>8 DEF SocketInvNext, SameClients, SocketTypeOK, Shape

\* What a server is when it starts.
LEMMA FreshServer ==
  Fresh = [at |-> "up", listening |-> TRUE, accepting |-> TRUE, backlog |-> <<>>,
           handlers |-> <<>>]
<1> DEFINE s == [at |-> "up", listening |-> TRUE, accepting |-> FALSE, backlog |-> <<>>,
                 handlers |-> <<>>]
<1>1. Accept(s) = [s EXCEPT !.accepting = TRUE]
  BY DEF Accept
<1> QED
  BY <1>1 DEF Fresh

\* The next daemon starts its server with no client left over.
LEMMA StartKeeps ==
  ASSUME SocketInv, Start
  PROVE  SocketInvNext /\ SameClients
<1>1. /\ server \in Server /\ conns \in Seq(Connection) /\ Len(conns) \in Nat
      /\ DOMAIN conns = 1 .. Len(conns)
  BY Parts DEF SocketInv
<1>2. /\ conns' = conns
      /\ server' = [at |-> "up", listening |-> TRUE, accepting |-> TRUE, backlog |-> <<>>,
                    handlers |-> <<>>]
  BY FreshServer DEF Start
<1>3. /\ server' \in Server /\ server'.at = "up" /\ server'.handlers = <<>>
      /\ server'.listening /\ server'.accepting /\ server'.backlog = <<>>
  BY <1>2 DEF Server
<1>4. /\ server.handlers = <<>> /\ server.backlog = <<>>
      /\ \A i \in DOMAIN conns : ~conns[i].reading
  BY DEF SocketInv, Shape, Phases, Start
<1>5. \A i \in DOMAIN conns : ~Waits(conns, i)
  BY <1>4 DEF SocketInv, Shape, Found
<1>6. \A i \in DOMAIN conns : conns[i].at # "open"
  BY <1>4 DEF SocketInv, Shape, Attended
<1>7. Shape(server', conns')
  <2>1. Aimed(server', conns') /\ Lined(server', conns') /\ Single(server', conns')
    BY <1>3 DEF Aimed, Lined, Single
  <2>2. Found(server', conns') /\ Attended(server', conns')
    BY <1>2, <1>5, <1>6 DEF Found, Attended
  <2>3. Phases(server', conns') /\ Written(conns')
    BY <1>2, <1>3 DEF Phases, Written, SocketInv, Shape
  <2> QED
    BY <2>1, <2>2, <2>3 DEF Shape
<1>8. Order(server', conns', Heard)
  <2>1. Ordered(server', conns', Heard)
    BY <1>3 DEF Ordered
  <2>2. Own(conns', Heard) /\ Ahead(server', conns', Heard)
    BY <1>2, <1>5 DEF SocketInv, Order, Own, Ahead
  <2> QED
    BY <2>1, <2>2 DEF Order
<1> QED
  BY <1>1, <1>2, <1>3, <1>7, <1>8 DEF SocketInvNext, SameClients, SocketTypeOK

\* What stop() has posted: the acceptor, the backlog and every session are closed.
LEMMA ShutKeeps ==
  ASSUME SocketInv, OnStop
  PROVE  SocketInvNext /\ SameClients
<1> DEFINE h == server.handlers
<1> DEFINE g == server'.handlers
<1> DEFINE sessions == {i \in DOMAIN conns : conns[i].at = "open"}
<1> DEFINE pending == {i \in sessions : conns[i].reading}
<1> DEFINE list == SetToSeq(pending)
<1> DEFINE failed == [k \in DOMAIN list |-> [kind |-> "end", conn |-> list[k]]]
<1> DEFINE refused == IF server.accepting THEN <<[kind |-> "refused", conn |-> 0]>> ELSE <<>>
<1>1. /\ server \in Server /\ conns \in Seq(Connection) /\ Len(conns) \in Nat
      /\ DOMAIN conns = 1 .. Len(conns) /\ h \in Seq(Handler) /\ Len(h) \in Nat
      /\ \A k \in DOMAIN conns : conns[k] \in Connection
  BY Parts DEF SocketInv
<1>2. /\ 1 \in DOMAIN h /\ h[1].kind = "stop" /\ Len(h) >= 1
      /\ Popped \in Server /\ Popped.at = server.at
      /\ Len(Popped.handlers) >= Len(h) - 1 /\ Turned(h, Popped.handlers, 1, {})
  BY TakeHead DEF OnStop, SocketInv
<1>3. server.at = "stopping"
  <2>1. h # <<>>
    BY <1>2
  <2> QED
    BY <2>1, <1>1, <1>2 DEF SocketInv, Shape, Phases, Server
<1>4. /\ conns' = [i \in DOMAIN conns |->
                     IF i \in sessions \cup ToSet(server.backlog)
                     THEN [conns[i] EXCEPT !.at = "closed", !.reading = FALSE]
                     ELSE conns[i]]
      /\ server' = [Popped EXCEPT !.listening = FALSE, !.accepting = FALSE, !.backlog = <<>>,
                                  !.handlers = @ \o refused \o failed]
  BY DEF OnStop
<1>5. list \in Seq(pending)
  <2>1. pending \in SUBSET (1 .. Len(conns))
    BY <1>1
  <2>2. IsFiniteSet(1 .. Len(conns))
    BY <1>1, FS_Interval
  <2> HIDE DEF pending
  <2>3. IsFiniteSet(pending)
    BY <2>1, <2>2, FS_Subset
  <2> QED
    BY <2>3, ListOfSet
<1>6. /\ failed \in Seq(Handler)
      /\ \A j \in DOMAIN failed : /\ failed[j].kind = "end" /\ failed[j].conn \in DOMAIN conns
                                  /\ conns[failed[j].conn].at = "open"
  <2> HIDE DEF list
  <2>1. /\ Len(list) \in Nat /\ DOMAIN list = 1 .. Len(list)
        /\ \A j \in DOMAIN list : list[j] \in pending
    BY <1>5
  <2>2. \A j \in DOMAIN list :
          list[j] \in DOMAIN conns /\ list[j] \in Nat /\ conns[list[j]].at = "open"
    BY <2>1, <1>1
  <2>3. \A j \in DOMAIN list :
          failed[j] \in Handler /\ failed[j].kind = "end" /\ failed[j].conn = list[j]
    BY <2>2 DEF Handler, Kinds
  <2>4. DOMAIN failed = DOMAIN list
    OBVIOUS
  <2>5. failed \in [1 .. Len(list) -> Handler]
    BY <2>1, <2>3, <2>4
  <2> QED
    BY <2>1, <2>2, <2>3, <2>4, <2>5
<1> HIDE DEF failed, list, pending
<1>7. /\ refused \in Seq(Handler)
      /\ \A j \in DOMAIN refused : refused[j].kind = "refused"
  <2>1. [kind |-> "refused", conn |-> 0] \in Handler
    BY DEF Handler, Kinds
  <2> QED
    BY <2>1
<1> HIDE DEF refused
<1> DEFINE k == refused \o failed
<1>8. /\ k \in Seq(Handler)
      /\ \A j \in DOMAIN k :
           \/ k[j].kind = "refused"
           \/ k[j].kind = "end" /\ k[j].conn \in DOMAIN conns /\ conns[k[j].conn].at = "open"
  <2>1. /\ Len(refused) \in Nat /\ DOMAIN refused = 1 .. Len(refused)
        /\ Len(failed) \in Nat /\ DOMAIN failed = 1 .. Len(failed)
    BY <1>6, <1>7
  <2>2. /\ k \in Seq(Handler) /\ Len(k) = Len(refused) + Len(failed) /\ DOMAIN k = 1 .. Len(k)
        /\ \A j \in 1 .. Len(k) : k[j] = IF j <= Len(refused) THEN refused[j]
                                         ELSE failed[j - Len(refused)]
    BY <2>1, <1>6, <1>7
  <2> HIDE DEF k
  <2>3. \A j \in 1 .. Len(k) : j <= Len(refused) => j \in DOMAIN refused
    BY <2>1, <2>2
  <2>4. \A j \in 1 .. Len(k) : ~(j <= Len(refused)) => j - Len(refused) \in DOMAIN failed
    BY <2>1, <2>2
  <2> QED
    BY <2>2, <2>3, <2>4, <1>6, <1>7
<1> HIDE DEF k
<1> DEFINE add == {k[j] : j \in DOMAIN k}
<1>9. Popped.handlers \o k \in Seq(Handler) /\ Turned(h, Popped.handlers \o k, 1, add)
  <2>1. Popped.handlers \in Seq(Handler)
    BY <1>2 DEF Server
  <2>2. \A j \in DOMAIN k : k[j].kind \notin {"accept", "line"}
    BY <1>8
  <2> HIDE DEF h
  <2> QED
    BY <2>1, <2>2, <1>1, <1>2, <1>8, BatchQueued
<1>10. /\ server' \in Server /\ server'.at = "stopping" /\ ~server'.listening
       /\ ~server'.accepting /\ server'.backlog = <<>> /\ Turned(h, g, 1, add)
  <2>1. Popped.handlers \o refused \o failed = Popped.handlers \o k
    <3>1. Popped.handlers \in Seq(Handler)
      BY <1>2 DEF Server
    <3>2. \A s1, s2, s3 \in Seq(Handler) : (s1 \o s2) \o s3 = s1 \o (s2 \o s3)
      BY ConcatAssociative
    <3>3. (Popped.handlers \o refused) \o failed = Popped.handlers \o (refused \o failed)
      BY <3>1, <3>2, <1>6, <1>7
    <3> QED
      BY <3>3, Zenon DEF k
  <2>2. server' = [Popped EXCEPT !.listening = FALSE, !.accepting = FALSE, !.backlog = <<>>,
                                 !.handlers = Popped.handlers \o k]
    BY <2>1, <1>4
  <2>3. PICK w \in Seq(Handler) : w = Popped.handlers \o k
    BY <1>9
  <2>4. server' = [Popped EXCEPT !.listening = FALSE, !.accepting = FALSE, !.backlog = <<>>,
                                 !.handlers = w]
    BY <2>2, <2>3
  <2> HIDE DEF add
  <2>5. Popped \in Server
    BY <1>2
  <2>6. server' \in Server
    <3> DEFINE s1 == [Popped EXCEPT !.listening = FALSE]
    <3> DEFINE s2 == [s1 EXCEPT !.accepting = FALSE]
    <3>0. PICK none \in Seq(Nat) : none = <<>>
      <4>1. <<>> \in Seq(Nat)
        OBVIOUS
      <4> QED
        BY <4>1, Zenon
    <3> DEFINE s3 == [s2 EXCEPT !.backlog = none]
    <3> DEFINE s4 == [s3 EXCEPT !.handlers = w]
    <3>1. server' = s4
      BY <3>0, <2>4, <2>5 DEF Server
    <3>2. s1 \in Server
      BY <2>5 DEF Server
    <3> HIDE DEF s1
    <3>3. s2 \in Server
      BY <3>2 DEF Server
    <3> HIDE DEF s2
    <3>4. s3 \in Server
      BY <3>3 DEF Server
    <3> HIDE DEF s3
    <3>5. s4 \in Server
      BY <3>4, <2>3 DEF Server
    <3> QED
      BY <3>1, <3>5
  <2>7. /\ server'.at = Popped.at /\ server'.listening = FALSE
        /\ server'.accepting = FALSE /\ server'.backlog = <<>>
        /\ server'.handlers = w
    BY <2>4, <2>5 DEF Server
  <2> QED
    BY <2>3, <2>6, <2>7, <1>2, <1>3, <1>9
<1>11. \A a \in add : \/ a.kind = "refused"
                      \/ a.kind = "end" /\ a.conn \in DOMAIN conns /\ conns[a.conn].at = "open"
  BY <1>8
<1> HIDE DEF add
<1> DEFINE shut == sessions \cup ToSet(server.backlog)
<1>12. \A q \in DOMAIN server.backlog : server.backlog[q] \in shut
  BY DEF ToSet
<1>13. \A i \in DOMAIN conns : i \in shut =>
         conns[i].at = "open" \/ \E q \in DOMAIN server.backlog : server.backlog[q] = i
  BY DEF ToSet
<1>14. \A i \in DOMAIN conns : conns[i].at = "open" => i \in shut
  OBVIOUS
<1> HIDE DEF shut, sessions
<1>15. /\ conns' \in Seq(Connection) /\ Len(conns') = Len(conns) /\ DOMAIN conns' = DOMAIN conns
       /\ \A i \in DOMAIN conns : i \notin shut => conns'[i] = conns[i]
       /\ \A i \in DOMAIN conns : i \in shut => conns'[i].at = "closed" /\ ~conns'[i].reading
       /\ \A i \in DOMAIN conns : /\ conns'[i].by = conns[i].by
                                  /\ conns'[i].line = conns[i].line
                                  /\ conns'[i].left = conns[i].left
  <2> DEFINE b(i) == [conns[i] EXCEPT !.at = "closed", !.reading = FALSE]
  <2>1. conns' = [i \in DOMAIN conns |-> IF i \in shut THEN b(i) ELSE conns[i]]
    BY <1>4 DEF shut
  <2>2. ASSUME NEW i \in DOMAIN conns
        PROVE  /\ b(i) \in Connection /\ b(i).at = "closed" /\ ~b(i).reading
               /\ b(i).by = conns[i].by /\ b(i).line = conns[i].line /\ b(i).left = conns[i].left
    BY <1>1 DEF Connection
  <2> HIDE DEF b
  <2>3. conns' \in [1 .. Len(conns) -> Connection]
    BY <2>1, <2>2, <1>1
  <2>4. /\ conns' \in Seq(Connection) /\ Len(conns') = Len(conns) /\ DOMAIN conns' = DOMAIN conns
    BY <2>3, <1>1
  <2> QED
    BY <2>1, <2>2, <2>4
<1>16. \A i \in DOMAIN conns : ~conns'[i].reading /\ conns'[i].at # "open"
  BY <1>14, <1>15 DEF SocketInv, Shape, Written
<1>17. \A i \in DOMAIN conns : Waits(conns', i) <=> Waits(conns, i) /\ i \notin shut
  BY <1>15 DEF Waits
<1>18. PICK d \in {0, 1} : d = 1
  OBVIOUS
<1>19. /\ DOMAIN g \in SUBSET (Nat \ {0})
       /\ \A p \in DOMAIN g : \/ p + d \in DOMAIN h /\ g[p] = h[p + d] /\ p + d # 1
                              \/ g[p] \in add
       /\ \A p \in DOMAIN h : p # 1 => p - d \in DOMAIN g /\ g[p - d] = h[p]
  <2>1. g \in Seq(Handler) /\ Turned(h, g, d, add)
    BY <1>10, <1>18 DEF Server
  <2> HIDE DEF g, h
  <2>2. /\ DOMAIN g \in SUBSET (Nat \ {0}) /\ DOMAIN h \in SUBSET (Nat \ {0})
        /\ Len(h) \in Nat
        /\ \A p \in DOMAIN h : p <= Len(h)
        /\ \A p \in DOMAIN g :
             \/ p + d \in DOMAIN h /\ g[p] = h[p + d] /\ (d = 1 => p + d # 1)
             \/ p > Len(h) - d /\ g[p] \in add
        /\ \A p \in DOMAIN h : (d = 1 => p # 1) => p - d \in DOMAIN g /\ g[p - d] = h[p]
        /\ \A a \in add : \E p \in DOMAIN g : g[p] = a
    BY <2>1, <1>1, TurnedView
  <2> QED
    BY <2>2, <1>18
<1> HIDE DEF g, h
<1>20. Aimed(server', conns')
  <2>1. ASSUME NEW p \in DOMAIN g
        PROVE  /\ g[p].kind \in {"accept", "line", "end"} => g[p].conn \in DOMAIN conns
               /\ g[p].kind \in {"line", "end"} => ~Waits(conns', g[p].conn)
    <3>1. CASE g[p] \in add
      BY <3>1, <1>11, <1>14, <1>17
    <3>2. CASE p + d \in DOMAIN h /\ g[p] = h[p + d]
      BY <3>2, <1>17 DEF SocketInv, Shape, Aimed, h
    <3> QED
      BY <3>1, <3>2, <1>19
  <2> QED
    BY <2>1, <1>15 DEF Aimed, g
<1>21. \A p \in DOMAIN g : Accepts(server', p) =>
         p + d \in DOMAIN h /\ g[p] = h[p + d] /\ Accepts(server, p + d)
  BY <1>11, <1>19 DEF Accepts, g, h
<1>22. Lined(server', conns')
  BY <1>10 DEF Lined
<1>23. Single(server', conns')
  <2>1. ASSUME NEW p \in DOMAIN g, Accepts(server', p)
        PROVE  Waits(conns', g[p].conn)
    <3>1. /\ g[p].conn \in DOMAIN conns /\ Waits(conns, g[p].conn)
          /\ \A q \in DOMAIN server.backlog : g[p].conn < server.backlog[q]
      BY <2>1, <1>21 DEF SocketInv, Shape, Aimed, Single, Accepts, h
    <3>2. g[p].conn \notin shut
      BY <3>1, <1>1, <1>13 DEF Waits
    <3> QED
      BY <3>1, <3>2, <1>17
  <2>2. ASSUME NEW p \in DOMAIN g, NEW r \in DOMAIN g, Accepts(server', p), Accepts(server', r)
        PROVE  r = p
    <3>1. r + d = p + d
      BY <2>2, <1>21 DEF SocketInv, Shape, Single, h
    <3> QED
      BY <3>1, <1>19
  <2> QED
    BY <2>1, <2>2, <1>10 DEF Single, g
<1>24. Found(server', conns')
  <2> SUFFICES ASSUME NEW i \in DOMAIN conns, Waits(conns', i)
               PROVE  \E p \in DOMAIN g : Accepts(server', p) /\ g[p].conn = i
    BY <1>15 DEF Found, g
  <2>1. PICK p \in DOMAIN h : Accepts(server, p) /\ h[p].conn = i
    BY <1>12, <1>17 DEF SocketInv, Shape, Found, h
  <2>2. p - d \in DOMAIN g /\ g[p - d] = h[p]
    BY <2>1, <1>2, <1>19 DEF Accepts, h
  <2> QED
    BY <2>1, <2>2 DEF Accepts, g, h
<1>25. Phases(server', conns')
  BY <1>10 DEF Phases
<1>26. Written(conns') /\ Attended(server', conns')
  BY <1>15, <1>16 DEF SocketInv, Shape, Written, Attended
<1>27. Order(server', conns', Heard)
  <2>1. PICK heard : heard = Heard
    OBVIOUS
  <2>2. /\ Turned(server.handlers, server'.handlers, d, add)
        /\ \A a \in add : a.kind # "line"
    BY <1>10, <1>11, <1>18 DEF g, h
  <2>3. \A t \in Clients : heard[t] # 0 => heard[t] \in DOMAIN conns
    BY <2>1, <1>1 DEF SocketInv
  <2>4. Aimed(server, conns) /\ Order(server, conns, heard)
    BY <2>1 DEF SocketInv, Shape
  <2>5. \A i \in DOMAIN conns : /\ conns'[i].by = conns[i].by
                                /\ conns[i].line # Nothing => conns'[i].line # Nothing
                                /\ conns[i].left => conns'[i].left
                                /\ conns'[i].reading => conns[i].reading
                                /\ Waits(conns', i) => Waits(conns, i)
    BY <1>15, <1>16, <1>17
  <2>6. Order(server', conns', heard)
    BY <2>2, <2>3, <2>4, <2>5, <1>1, <1>10, <1>15, OrderBeside
  <2> QED
    BY <2>1, <2>6
<1> QED
  BY <1>1, <1>10, <1>15, <1>20, <1>22, <1>23, <1>24, <1>25, <1>26, <1>27
  DEF SocketInvNext, SameClients, SocketTypeOK, Shape

\* A client connects: its accept completes at once, or it waits in the backlog.
LEMMA ConnectKeeps ==
  ASSUME SocketInv, NEW t \in Clients, Connect(t)
  PROVE  /\ SocketInvNext /\ Len(conns') = Len(conns) + 1
         /\ conns'[Len(conns')].by = t /\ ~conns'[Len(conns')].left
         /\ \A k \in DOMAIN conns : conns'[k] = conns[k]
<1> DEFINE h == server.handlers
<1> DEFINE g == server'.handlers
<1> DEFINE i == Len(conns) + 1
<1> DEFINE c == [by |-> t, line |-> Nothing, left |-> FALSE, at |-> "waiting",
                 reading |-> FALSE]
<1>1. /\ server \in Server /\ conns \in Seq(Connection) /\ Len(conns) \in Nat
      /\ DOMAIN conns = 1 .. Len(conns) /\ h \in Seq(Handler) /\ Len(h) \in Nat
      /\ server.backlog \in Seq(Nat) /\ Len(server.backlog) \in Nat
      /\ DOMAIN server.backlog = 1 .. Len(server.backlog) /\ DOMAIN h = 1 .. Len(h)
  BY Parts DEF SocketInv
<1>2. /\ c \in Connection /\ c.by = t /\ c.line = Nothing /\ ~c.left /\ c.at = "waiting"
      /\ ~c.reading
  BY DEF Connection
<1>3. conns' = Append(conns, c) /\ server.listening
  BY DEF Connect
<1> HIDE DEF c
<1>4. /\ conns' \in Seq(Connection) /\ Len(conns') = i /\ DOMAIN conns' = 1 .. i
      /\ conns'[i] = c /\ \A k \in DOMAIN conns : k \in DOMAIN conns' /\ conns'[k] = conns[k]
      /\ i \in DOMAIN conns' /\ i \notin DOMAIN conns /\ i \in Nat
      /\ \A k \in DOMAIN conns' : k \in DOMAIN conns \/ k = i
      /\ \A k \in DOMAIN conns : k < i
  BY <1>1, <1>2, <1>3
<1> DEFINE x == [kind |-> "accept", conn |-> i]
<1>5. x \in Handler /\ x.kind = "accept" /\ x.conn = i
  BY <1>4 DEF Handler, Kinds
<1>6. \/ /\ server.accepting /\ server.backlog = <<>>
         /\ ~server'.accepting /\ server'.backlog = <<>> /\ g = Append(h, x)
      \/ /\ ~server.accepting /\ ~server'.accepting
         /\ server'.backlog = Append(server.backlog, i) /\ g = h
  <2>1. server.accepting => server.backlog = <<>>
    BY DEF SocketInv, Shape, Lined
  <2>2. CASE server.accepting
    <3>1. server' = Queued([server EXCEPT !.accepting = FALSE], "accept", i)
      BY <2>2 DEF Connect
    <3>2. /\ server'.accepting = FALSE /\ server'.backlog = server.backlog
          /\ g = Append(h, x)
      BY <3>1, <1>1 DEF Queued, Server
    <3> QED
      BY <2>1, <2>2, <3>2
  <2>3. CASE ~server.accepting
    <3>1. server' = [server EXCEPT !.backlog = Append(@, i)]
      BY <2>3 DEF Connect
    <3> QED
      BY <2>3, <3>1, <1>1 DEF Server
  <2> QED
    BY <2>2, <2>3
<1>7. server' \in Server /\ server'.at = server.at /\ server'.listening
  <2>1. CASE server.accepting
    <3>1. server' = Queued([server EXCEPT !.accepting = FALSE], "accept", i)
      BY <2>1 DEF Connect
    <3>2. Append(h, x) \in Seq(Handler)
      BY <1>1, <1>5
    <3> QED
      BY <3>1, <3>2, <1>1, <1>3 DEF Queued, Server
  <2>2. CASE ~server.accepting
    <3>1. server' = [server EXCEPT !.backlog = Append(@, i)]
      BY <2>2 DEF Connect
    <3>2. Append(server.backlog, i) \in Seq(Nat)
      BY <1>1, <1>4
    <3> QED
      BY <3>1, <3>2, <1>1, <1>3 DEF Server
  <2> QED
    BY <2>1, <2>2
<1> HIDE DEF x
<1>8. /\ DOMAIN g \in SUBSET Nat
      /\ \A p \in DOMAIN h : p \in DOMAIN g /\ g[p] = h[p]
      /\ \A p \in DOMAIN g :
           \/ p \in DOMAIN h /\ g[p] = h[p]
           \/ g[p] = x /\ p = Len(h) + 1 /\ server.accepting
      /\ server.accepting => \E p \in DOMAIN g : g[p] = x
  <2>1. CASE g = h
    <3>1. ~server.accepting
      <4>1. Append(h, x) # h
        <5>1. Len(Append(h, x)) = Len(h) + 1
          BY <1>1, <1>5
        <5> QED
          BY <5>1, <1>1
      <4> QED
        BY <4>1, <2>1, <1>6
    <3> QED
      BY <2>1, <3>1, <1>1
  <2>2. CASE g = Append(h, x) /\ server.accepting
    <3>1. /\ Len(g) = Len(h) + 1 /\ DOMAIN g = 1 .. Len(h) + 1
          /\ \A p \in 1 .. Len(h) : g[p] = h[p]
          /\ g[Len(h) + 1] = x
      BY <2>2, <1>1, <1>5
    <3> HIDE DEF g, h
    <3>2. Len(h) + 1 \in DOMAIN g
      BY <3>1, <1>1
    <3>3. \A p \in DOMAIN g : p \in DOMAIN h \/ p = Len(h) + 1
      BY <3>1, <1>1
    <3> QED
      BY <2>2, <3>1, <3>2, <3>3, <1>1
  <2> QED
    BY <2>1, <2>2, <1>6
<1>9. /\ Waits(conns', i)
      /\ \A k \in DOMAIN conns : Waits(conns', k) <=> Waits(conns, k)
  BY <1>2, <1>4 DEF Waits
<1>10. server.accepting => \A p \in DOMAIN h : ~Accepts(server, p)
  BY DEF SocketInv, Shape, Single
<1> HIDE DEF g, h
<1>11. Aimed(server', conns')
  <2>1. ASSUME NEW p \in DOMAIN g
        PROVE  /\ g[p].kind \in {"accept", "line", "end"} => g[p].conn \in DOMAIN conns'
               /\ g[p].kind \in {"line", "end"} => ~Waits(conns', g[p].conn)
    <3>1. CASE g[p] = x
      BY <3>1, <1>4, <1>5
    <3>2. CASE p \in DOMAIN h /\ g[p] = h[p]
      BY <3>2, <1>4, <1>9 DEF SocketInv, Shape, Aimed, h
    <3> QED
      BY <3>1, <3>2, <1>8
  <2> QED
    BY <2>1 DEF Aimed, g
<1>12. \/ DOMAIN server'.backlog = {} /\ server'.backlog = <<>> /\ server.accepting
       \/ /\ ~server.accepting /\ g = h
          /\ DOMAIN server'.backlog = 1 .. Len(server.backlog) + 1
          /\ \A q \in DOMAIN server.backlog : server'.backlog[q] = server.backlog[q]
          /\ server'.backlog[Len(server.backlog) + 1] = i
  BY <1>1, <1>4, <1>6
<1>13. Lined(server', conns')
  <2>1. CASE server'.backlog = <<>>
    BY <2>1 DEF Lined
  <2>2. CASE /\ DOMAIN server'.backlog = 1 .. Len(server.backlog) + 1
             /\ \A q \in DOMAIN server.backlog : server'.backlog[q] = server.backlog[q]
             /\ server'.backlog[Len(server.backlog) + 1] = i
    <3>1. \A q \in DOMAIN server'.backlog :
            q \in DOMAIN server.backlog \/ q = Len(server.backlog) + 1
      BY <2>2, <1>1
    <3>2. \A q \in DOMAIN server.backlog : /\ server.backlog[q] \in DOMAIN conns
                                           /\ Waits(conns, server.backlog[q])
      BY DEF SocketInv, Shape, Lined
    <3>3. \A q \in DOMAIN server'.backlog : /\ server'.backlog[q] \in DOMAIN conns'
                                            /\ Waits(conns', server'.backlog[q])
      BY <2>2, <3>1, <3>2, <1>4, <1>9
    <3>4. ASSUME NEW q \in DOMAIN server'.backlog, NEW r \in DOMAIN server'.backlog, q < r
          PROVE  server'.backlog[q] < server'.backlog[r]
      <4>1. q \in DOMAIN server.backlog
        BY <2>2, <3>4, <1>1
      <4>2. CASE r \in DOMAIN server.backlog
        BY <2>2, <3>4, <4>1, <4>2 DEF SocketInv, Shape, Lined
      <4>3. CASE r = Len(server.backlog) + 1
        BY <2>2, <3>2, <4>1, <4>3, <1>4
      <4> QED
        BY <3>1, <4>2, <4>3
    <3> QED
      BY <3>3, <3>4, <1>6 DEF Lined
  <2> QED
    BY <2>1, <2>2, <1>12
<1>14. Single(server', conns')
  <2>1. CASE server.accepting
    <3>1. \A p \in DOMAIN g : Accepts(server', p) => p = Len(h) + 1 /\ g[p] = x
      BY <2>1, <1>8, <1>10 DEF Accepts, g, h
    <3>2. Waits(conns', x.conn) /\ server'.backlog = <<>> /\ ~server'.accepting
      BY <2>1, <1>4, <1>5, <1>6, <1>9
    <3> QED
      BY <3>1, <3>2 DEF Single, g
  <2>2. CASE ~server.accepting
    <3>1. /\ g = h /\ DOMAIN server'.backlog = 1 .. Len(server.backlog) + 1
          /\ \A q \in DOMAIN server.backlog : server'.backlog[q] = server.backlog[q]
          /\ server'.backlog[Len(server.backlog) + 1] = i
      BY <2>2, <1>12
    <3>2. ASSUME NEW p \in DOMAIN g, Accepts(server', p)
          PROVE  /\ Waits(conns', g[p].conn) /\ ~server'.accepting
                 /\ \A q \in DOMAIN server'.backlog : g[p].conn < server'.backlog[q]
                 /\ \A r \in DOMAIN g : Accepts(server', r) => r = p
      <4>1. p \in DOMAIN h /\ Accepts(server, p) /\ g[p].conn = h[p].conn
        BY <3>1, <3>2 DEF Accepts, g, h
      <4>2. h[p].conn \in DOMAIN conns /\ Waits(conns, h[p].conn)
        BY <4>1 DEF SocketInv, Shape, Aimed, Single, Accepts, h
      <4>3. \A q \in DOMAIN server'.backlog : h[p].conn < server'.backlog[q]
        <5>1. \A q \in DOMAIN server.backlog : h[p].conn < server.backlog[q]
          BY <4>1 DEF SocketInv, Shape, Single, h
        <5>2. h[p].conn < i
          BY <4>2, <1>4
        <5> QED
          BY <3>1, <5>1, <5>2, <1>1
      <4>4. \A r \in DOMAIN g : Accepts(server', r) => r = p
        BY <3>1, <4>1 DEF SocketInv, Shape, Single, Accepts, g, h
      <4> QED
        BY <4>1, <4>2, <4>3, <4>4, <1>4, <1>6, <1>9
    <3> QED
      BY <3>2 DEF Single, g
  <2> QED
    BY <2>1, <2>2
<1>15. Found(server', conns')
  <2> SUFFICES ASSUME NEW k \in DOMAIN conns', Waits(conns', k)
               PROVE  \/ \E p \in DOMAIN g : Accepts(server', p) /\ g[p].conn = k
                      \/ \E q \in DOMAIN server'.backlog : server'.backlog[q] = k
    BY DEF Found, g
  <2>1. CASE server.accepting
    <3>1. \E p \in DOMAIN g : Accepts(server', p) /\ g[p].conn = i
      BY <2>1, <1>5, <1>8 DEF Accepts, g
    <3>2. \A q \in DOMAIN server.backlog : FALSE
      BY <2>1, <1>6
    <3>3. k = i
      BY <2>1, <3>2, <1>4, <1>9, <1>10 DEF SocketInv, Shape, Found, h
    <3> QED
      BY <3>1, <3>3
  <2>2. CASE ~server.accepting
    <3>1. /\ g = h /\ DOMAIN server'.backlog = 1 .. Len(server.backlog) + 1
          /\ \A q \in DOMAIN server.backlog : server'.backlog[q] = server.backlog[q]
          /\ server'.backlog[Len(server.backlog) + 1] = i
      BY <2>2, <1>12
    <3>2. Len(server.backlog) + 1 \in DOMAIN server'.backlog
      BY <3>1, <1>1
    <3>3. \A q \in DOMAIN server.backlog : q \in DOMAIN server'.backlog
      BY <3>1, <1>1
    <3>4. CASE k = i
      BY <3>1, <3>2, <3>4
    <3>5. CASE k \in DOMAIN conns /\ Waits(conns, k)
      <4>1. CASE \E p \in DOMAIN h : Accepts(server, p) /\ h[p].conn = k
        BY <3>1, <4>1 DEF Accepts, g, h
      <4>2. CASE \E q \in DOMAIN server.backlog : server.backlog[q] = k
        BY <3>1, <3>3, <4>2
      <4> QED
        BY <3>5, <4>1, <4>2 DEF SocketInv, Shape, Found, h
    <3> QED
      BY <3>4, <3>5, <1>4, <1>9
  <2> QED
    BY <2>1, <2>2
<1>16. Phases(server', conns')
  <2>1. ASSUME server'.at = "up"
        PROVE  /\ \A p \in DOMAIN g : g[p].kind \in {"accept", "line", "end"}
               /\ \E p \in DOMAIN g : Accepts(server', p)
    <3>1. /\ \A p \in DOMAIN h : h[p].kind \in {"accept", "line", "end"}
          /\ server.accepting \/ \E p \in DOMAIN h : Accepts(server, p)
      BY <2>1, <1>7 DEF SocketInv, Shape, Phases, h
    <3>2. server.accepting => \E p \in DOMAIN g : Accepts(server', p)
      BY <1>5, <1>8 DEF Accepts, g
    <3>3. (\E p \in DOMAIN h : Accepts(server, p)) => \E p \in DOMAIN g : Accepts(server', p)
      BY <1>8 DEF Accepts, g, h
    <3>4. \A p \in DOMAIN g : g[p].kind \in {"accept", "line", "end"}
      BY <3>1, <1>5, <1>8
    <3> QED
      BY <3>1, <3>2, <3>3, <3>4
  <2>2. server'.at # "down"
    BY <1>3, <1>7 DEF SocketInv, Shape, Phases
  <2>3. server'.at = "stopping" => \E p \in DOMAIN g : g[p].kind = "stop"
    BY <1>3, <1>7, <1>8 DEF SocketInv, Shape, Phases, h
  <2> QED
    BY <2>1, <2>2, <2>3, <1>7 DEF Phases, g
<1>17. Written(conns')
  BY <1>2, <1>4 DEF SocketInv, Shape, Written
<1>18. Attended(server', conns')
  <2>1. ASSUME NEW k \in DOMAIN conns', conns'[k].at = "open", ~conns'[k].reading
        PROVE  \E p \in DOMAIN g : g[p].kind \in {"line", "end"} /\ g[p].conn = k
    <3>1. k \in DOMAIN conns /\ conns'[k] = conns[k]
      BY <2>1, <1>2, <1>4
    <3>2. PICK p \in DOMAIN h : h[p].kind \in {"line", "end"} /\ h[p].conn = k
      BY <2>1, <3>1 DEF SocketInv, Shape, Attended, h
    <3> QED
      BY <3>2, <1>8
  <2> QED
    BY <2>1 DEF Attended, g
<1>19. \A p \in DOMAIN g : Hears(server', p) =>
         p \in DOMAIN h /\ g[p] = h[p] /\ Hears(server, p) /\ g[p].conn \in DOMAIN conns
  BY <1>5, <1>8 DEF SocketInv, Shape, Aimed, Hears, g, h
<1>20. \A s \in Clients : Heard[s] \in 0 .. Len(conns)
  BY DEF SocketInv
<1>21. Ordered(server', conns', Heard)
  <2>1. ASSUME NEW p \in DOMAIN g, Hears(server', p)
        PROVE  /\ conns'[g[p].conn].line # Nothing
               /\ Heard[conns'[g[p].conn].by] < g[p].conn
               /\ \A r \in DOMAIN g :
                    Hears(server', r) /\ p < r /\ conns'[g[r].conn].by = conns'[g[p].conn].by
                      => g[p].conn < g[r].conn
    BY <2>1, <1>4, <1>19 DEF SocketInv, Order, Ordered, h
  <2> QED
    BY <2>1 DEF Ordered, g
<1>22. Own(conns', Heard)
  <2>1. \A s \in Clients : Heard[s] # 0 => Heard[s] \in DOMAIN conns
    BY <1>1, <1>20
  <2> QED
    BY <2>1, <1>4 DEF SocketInv, Order, Own
<1>23. Ahead(server', conns', Heard)
  <2> SUFFICES ASSUME NEW a \in DOMAIN conns', NEW k \in DOMAIN conns', Waits(conns', a),
                      Reached(server', conns', Heard, k)
               PROVE  k < a
    BY DEF Ahead
  <2>1. k \in DOMAIN conns
    <3>1. CASE conns'[k].reading
      BY <3>1, <1>2, <1>4
    <3>2. CASE \E p \in DOMAIN g : Hears(server', p) /\ g[p].conn = k
      BY <3>2, <1>19
    <3>3. CASE \E s \in Clients : Heard[s] = k
      BY <3>3, <1>1, <1>4, <1>20
    <3> QED
      BY <3>1, <3>2, <3>3 DEF Reached, g
  <2>2. CASE a = i
    BY <2>1, <2>2, <1>4
  <2>3. CASE a \in DOMAIN conns /\ Waits(conns, a)
    <3>1. Reached(server, conns, Heard, k)
      BY <2>1, <1>4, <1>19 DEF Reached, g, h
    <3> QED
      BY <2>1, <2>3, <3>1 DEF SocketInv, Order, Ahead
  <2> QED
    BY <2>2, <2>3, <1>4, <1>9
<1>24. Shape(server', conns') /\ Order(server', conns', Heard)
  BY <1>11, <1>13, <1>14, <1>15, <1>16, <1>17, <1>18, <1>21, <1>22, <1>23 DEF Shape, Order
<1> QED
  BY <1>1, <1>2, <1>4, <1>7, <1>24 DEF SocketInvNext, SocketTypeOK

\* A client writes its line, if it has one, on the last of its connections, and leaves.
LEMMA WriteKeeps ==
  ASSUME SocketInv, NEW i \in DOMAIN conns, ~conns[i].left,
         NEW line \in Messages \cup {Nothing}, WriteAndLeave(i, line),
         line # Nothing =>
           conns[i].by # "guest" /\ \A k \in DOMAIN conns : conns[k].by = conns[i].by => k <= i
  PROVE  /\ SocketInvNext /\ Len(conns') = Len(conns)
         /\ \A k \in DOMAIN conns : conns'[k].by = conns[k].by
         /\ \A k \in DOMAIN conns : k # i => conns'[k] = conns[k]
<1> DEFINE h == server.handlers
<1> DEFINE g == server'.handlers
<1> DEFINE b == [conns[i] EXCEPT !.left = TRUE, !.line = IF @ = Nothing THEN line ELSE @]
<1> DEFINE e == [b EXCEPT !.reading = FALSE]
<1>1. /\ server \in Server /\ conns \in Seq(Connection) /\ Len(conns) \in Nat
      /\ DOMAIN conns = 1 .. Len(conns) /\ h \in Seq(Handler) /\ Len(h) \in Nat
      /\ \A k \in DOMAIN conns : conns[k] \in Connection /\ k \in Nat
  BY Parts DEF SocketInv
<1>2. conns[i].line = Nothing
  BY DEF SocketInv, Shape, Written
<1>3. /\ b \in Connection /\ b.by = conns[i].by /\ b.line = line /\ b.left
      /\ b.at = conns[i].at /\ b.reading = conns[i].reading
  <2>1. b = [conns[i] EXCEPT !.left = TRUE, !.line = line]
    BY <1>1, <1>2 DEF Connection
  <2> HIDE DEF b
  <2> QED
    BY <2>1, <1>1 DEF Connection
<1> HIDE DEF b
<1>4. /\ e \in Connection /\ e.by = conns[i].by /\ e.line = line /\ e.left
      /\ e.at = conns[i].at /\ ~e.reading
  <2>1. e.left = b.left
    BY <1>3 DEF Connection
  <2> QED
    BY <2>1, <1>3 DEF Connection
<1> HIDE DEF e
<1>5. \/ /\ conns[i].reading /\ conns' = [conns EXCEPT ![i] = e]
         /\ server' = Queued(server, ReadMeets(b), i)
      \/ ~conns[i].reading /\ conns' = [conns EXCEPT ![i] = b] /\ server' = server
  <2>1. CASE b.reading
    BY <2>1, <1>3 DEF WriteAndLeave, b, e
  <2>2. CASE ~b.reading
    BY <2>2, <1>3 DEF WriteAndLeave, b, e
  <2> QED
    BY <2>1, <2>2
<1>6. /\ conns' \in Seq(Connection) /\ Len(conns') = Len(conns) /\ DOMAIN conns' = DOMAIN conns
      /\ \A k \in DOMAIN conns : k # i => conns'[k] = conns[k]
      /\ conns'[i].by = conns[i].by /\ conns'[i].line = line /\ conns'[i].left
      /\ conns'[i].at = conns[i].at /\ ~conns'[i].reading
  <2>1. PICK r \in Connection :
          /\ conns' = [conns EXCEPT ![i] = r]
          /\ r.by = conns[i].by /\ r.line = line /\ r.left
          /\ r.at = conns[i].at /\ ~r.reading
    BY <1>3, <1>4, <1>5
  <2> QED
    BY <2>1, <1>1
<1>7. \A t \in Clients : Heard[t] # 0 => Heard[t] \in DOMAIN conns
  BY <1>1 DEF SocketInv
<1>8. PICK d \in {0, 1} : d = 0
  OBVIOUS
<1>9. CASE ~conns[i].reading
  <2>1. server' = server
    BY <1>5, <1>9
  <2>2. \A k \in DOMAIN conns : /\ conns'[k].at = conns[k].at
                                /\ conns'[k].reading <=> conns[k].reading
                                /\ conns'[k].by = conns[k].by
                                /\ conns[k].line # Nothing => conns'[k].line # Nothing
                                /\ conns[k].left => conns'[k].left
    BY <1>2, <1>6, <1>9
  <2>3. \A k \in DOMAIN conns : Waits(conns', k) <=> Waits(conns, k)
    BY <2>2 DEF Waits
  <2>4. Aimed(server', conns')
    BY <2>1, <2>3, <1>6 DEF SocketInv, Shape, Aimed
  <2>5. Lined(server', conns')
    BY <2>1, <2>3, <1>6 DEF SocketInv, Shape, Lined
  <2>6. Single(server', conns')
    BY <2>1, <2>3, <1>6 DEF SocketInv, Shape, Aimed, Single, Accepts
  <2>7. Found(server', conns')
    BY <2>1, <2>3, <1>6 DEF SocketInv, Shape, Found
  <2>8. Phases(server', conns')
    BY <2>1, <2>2, <1>6 DEF SocketInv, Shape, Phases
  <2>9. Written(conns')
    BY <1>6 DEF SocketInv, Shape, Written
  <2>10. Attended(server', conns')
    BY <2>1, <2>2, <1>6 DEF SocketInv, Shape, Attended
  <2>11. Shape(server', conns')
    BY <2>4, <2>5, <2>6, <2>7, <2>8, <2>9, <2>10 DEF Shape
  <2>12. PICK heard : heard = Heard
    OBVIOUS
  <2>13. PICK no : no = {}
    OBVIOUS
  <2>14. Turned(server.handlers, server'.handlers, d, no) /\ \A a \in no : a.kind # "line"
    BY <2>1, <2>13, <1>1, <1>8, NotTurned
  <2>15. Aimed(server, conns) /\ Order(server, conns, heard) /\ server' \in Server
    BY <2>1, <2>12, <1>1 DEF SocketInv, Shape
  <2>16. \A t \in Clients : heard[t] # 0 => heard[t] \in DOMAIN conns
    BY <2>12, <1>7
  <2>17. \A k \in DOMAIN conns : /\ conns'[k].by = conns[k].by
                                 /\ conns[k].line # Nothing => conns'[k].line # Nothing
                                 /\ conns[k].left => conns'[k].left
                                 /\ conns'[k].reading => conns[k].reading
                                 /\ Waits(conns', k) => Waits(conns, k)
    BY <2>2, <2>3
  <2>18. Order(server', conns', heard)
    BY <2>14, <2>15, <2>16, <2>17, <1>1, <1>6, OrderBeside
  <2> QED
    BY <2>1, <2>2, <2>11, <2>12, <2>18, <1>1, <1>6 DEF SocketInvNext, SocketTypeOK
<1>10. CASE conns[i].reading
  <2>1. conns[i].at = "open" /\ server.at # "down" /\ ~Waits(conns, i)
    BY <1>10 DEF SocketInv, Shape, Written, Phases, Waits
  <2>2. server' = Queued(server, ReadMeets(b), i)
    BY <1>5, <1>10
  <2>3. /\ ReadMeets(b) \in {"line", "end"} /\ ReadMeets(b) \in Kinds
        /\ ReadMeets(b) = "line" => line # Nothing
    BY <2>1, <1>3 DEF ReadMeets, Kinds, Nothing
  <2>4. PICK kind \in Kinds : kind = ReadMeets(b)
    BY <2>3
  <2>5. PICK x : x = [kind |-> kind, conn |-> i]
    OBVIOUS
  <2>6. x.kind = kind /\ x.conn = i
    BY <2>5
  <2>7. PICK add : add = {x}
    OBVIOUS
  <2>8. /\ server' \in Server /\ server'.at = server.at
        /\ server'.listening = server.listening /\ server'.accepting = server.accepting
        /\ server'.backlog = server.backlog /\ Turned(h, g, d, add)
    <3>1. PICK no : no = {}
      OBVIOUS
    <3>2. i \in Nat /\ [kind |-> kind, conn |-> i] \notin no
      BY <3>1, <1>1
    <3> HIDE DEF h
    <3>3. d <= Len(h) /\ Len(server.handlers) >= Len(h) - d /\ Turned(h, server.handlers, d, no)
      BY <3>1, <1>1, <1>8, NotTurned DEF h
    <3>4. /\ Queued(server, kind, i) \in Server
          /\ Queued(server, kind, i).at = server.at
          /\ Queued(server, kind, i).listening = server.listening
          /\ Queued(server, kind, i).accepting = server.accepting
          /\ Queued(server, kind, i).backlog = server.backlog
          /\ Len(Queued(server, kind, i).handlers) >= Len(h) - d
          /\ Turned(h, Queued(server, kind, i).handlers, d, no \cup {[kind |-> kind, conn |-> i]})
      BY <3>2, <3>3, <1>1, QueuedOnce
    <3>5. no \cup {[kind |-> kind, conn |-> i]} = add
      BY <3>1, <2>5, <2>7
    <3> QED
      BY <3>4, <3>5, <2>2, <2>4
  <2>9. \A k \in DOMAIN conns : Waits(conns', k) <=> Waits(conns, k)
    BY <1>6 DEF Waits
  <2>10. Shape(server', conns')
    <3>1. /\ d = 1 => server.handlers[1].kind \in {"line", "end"} /\ server.handlers[1].conn = i
          /\ \A a \in add : a.kind \in {"line", "end"} /\ a.conn = i
          /\ conns'[i].at = "open" => conns'[i].reading \/ \E a \in add : TRUE
      BY <2>3, <2>4, <2>6, <2>7, <1>8
    <3>2. Follows(server, conns, server', conns', d, add, i)
      BY <3>1, <2>1, <2>8, <2>9, <1>6 DEF Follows
    <3>3. Shape(server, conns)
      BY DEF SocketInv
    <3> QED
      BY <3>2, <3>3, <2>8, <1>1, ShapeBeside
  <2>11. /\ \A p \in DOMAIN h : p \in Nat
         /\ \A p \in DOMAIN g :
              \/ p \in DOMAIN h /\ g[p] = h[p]
              \/ p > Len(h) /\ g[p] = x
         /\ \A p \in DOMAIN g : p \in Nat
         /\ \A p \in DOMAIN h : p <= Len(h)
    <3>1. g \in Seq(Handler)
      BY <2>8 DEF Server
    <3> HIDE DEF g, h
    <3>2. /\ DOMAIN g \in SUBSET (Nat \ {0}) /\ DOMAIN h \in SUBSET (Nat \ {0})
          /\ Len(h) \in Nat
          /\ \A p \in DOMAIN h : p <= Len(h)
          /\ \A p \in DOMAIN g :
               \/ p + d \in DOMAIN h /\ g[p] = h[p + d] /\ (d = 1 => p + d # 1)
               \/ p > Len(h) - d /\ g[p] \in add
          /\ \A p \in DOMAIN h : (d = 1 => p # 1) => p - d \in DOMAIN g /\ g[p - d] = h[p]
          /\ \A a \in add : \E p \in DOMAIN g : g[p] = a
      BY <3>1, <2>8, <1>1, TurnedView
    <3> QED
      BY <3>2, <2>7, <1>8
  <2>12. \A p, r \in DOMAIN g : g[p] = x /\ g[r] = x /\ p > Len(h) /\ r > Len(h)
                                /\ x.kind = "line" => p = r
    BY <2>8, <1>1, <1>8 DEF Turned
  <2>13. \A p \in DOMAIN h : Hears(server, p) =>
           h[p].conn \in DOMAIN conns /\ h[p].conn # i
    BY <1>2 DEF SocketInv, Shape, Order, Aimed, Ordered, Hears
  <2>14. Ordered(server', conns', Heard)
    <3>1. ASSUME NEW p \in DOMAIN g, Hears(server', p)
          PROVE  \/ /\ p \in DOMAIN h /\ g[p] = h[p] /\ Hears(server, p)
                    /\ g[p].conn \in DOMAIN conns /\ g[p].conn # i
                 \/ p > Len(h) /\ g[p] = x /\ x.kind = "line" /\ line # Nothing
      BY <3>1, <2>3, <2>4, <2>6, <2>11, <2>13 DEF Hears
    <3>2. ASSUME NEW p \in DOMAIN g, Hears(server', p)
          PROVE  /\ conns'[g[p].conn].line # Nothing
                 /\ Heard[conns'[g[p].conn].by] < g[p].conn
      <4>1. CASE /\ p \in DOMAIN h /\ g[p] = h[p] /\ Hears(server, p)
                 /\ g[p].conn \in DOMAIN conns /\ g[p].conn # i
        BY <4>1, <1>6 DEF SocketInv, Order, Ordered
      <4>2. CASE p > Len(h) /\ g[p] = x /\ x.kind = "line" /\ line # Nothing
        <5>1. conns[i].by \in Clients
          BY <1>1 DEF Connection
        <5>2. Heard[conns[i].by] # i
          BY <5>1, <1>1 DEF SocketInv, Order, Own
        <5>3. Heard[conns[i].by] <= i
          <6>1. CASE Heard[conns[i].by] = 0
            BY <6>1, <1>1
          <6>2. CASE Heard[conns[i].by] # 0
            BY <6>2, <5>1, <4>2, <1>7 DEF SocketInv, Order, Own
          <6> QED
            BY <6>1, <6>2
        <5>4. Heard[conns[i].by] \in Nat
          BY <5>1, <1>1 DEF SocketInv
        <5> QED
          BY <5>2, <5>3, <5>4, <4>2, <2>6, <1>1, <1>6
      <4> QED
        BY <3>1, <3>2, <4>1, <4>2
    <3>3. ASSUME NEW p \in DOMAIN g, NEW r \in DOMAIN g, Hears(server', p), Hears(server', r),
                 p < r, conns'[g[r].conn].by = conns'[g[p].conn].by
          PROVE  g[p].conn < g[r].conn
      <4>1. CASE g[p] = x /\ p > Len(h) /\ x.kind = "line"
        <5>1. r > Len(h) /\ r \notin DOMAIN h
          BY <4>1, <3>3, <2>11, <1>1
        <5>2. g[r] = x
          BY <5>1, <3>1, <3>3
        <5> QED
          BY <4>1, <5>1, <5>2, <3>3, <2>11, <2>12
      <4>2. CASE /\ p \in DOMAIN h /\ g[p] = h[p] /\ Hears(server, p)
                 /\ g[p].conn \in DOMAIN conns /\ g[p].conn # i
        <5>1. CASE /\ r \in DOMAIN h /\ g[r] = h[r] /\ Hears(server, r)
                   /\ g[r].conn \in DOMAIN conns /\ g[r].conn # i
          BY <4>2, <5>1, <3>3, <1>6 DEF SocketInv, Order, Ordered
        <5>2. CASE g[r] = x /\ line # Nothing
          <6>1. conns[g[p].conn].by = conns[i].by
            BY <4>2, <5>2, <3>3, <2>6, <1>6
          <6>2. g[p].conn <= i /\ g[p].conn # i
            BY <4>2, <5>2, <6>1
          <6> QED
            BY <6>2, <4>2, <5>2, <2>6, <1>1
        <5> QED
          BY <5>1, <5>2, <3>1, <3>3
      <4> QED
        BY <4>1, <4>2, <3>1, <3>3
    <3> QED
      BY <3>2, <3>3 DEF Ordered
  <2>15. Own(conns', Heard)
    BY <1>6, <1>7 DEF SocketInv, Order, Own
  <2>16. Ahead(server', conns', Heard)
    <3> SUFFICES ASSUME NEW a \in DOMAIN conns, NEW k \in DOMAIN conns, Waits(conns, a),
                        Reached(server', conns', Heard, k)
                 PROVE  k < a
      BY <2>9, <1>6 DEF Ahead
    <3>1. Reached(server, conns, Heard, k)
      <4>1. CASE conns'[k].reading
        BY <4>1, <1>6 DEF Reached
      <4>2. CASE \E p \in DOMAIN g : Hears(server', p) /\ g[p].conn = k
        BY <4>2, <2>6, <2>11, <1>10 DEF Reached, Hears
      <4>3. CASE \E t \in Clients : Heard[t] = k
        BY <4>3 DEF Reached
      <4> QED
        BY <4>1, <4>2, <4>3 DEF Reached
    <3> QED
      BY <3>1 DEF SocketInv, Order, Ahead
  <2>17. \A k \in DOMAIN conns : conns'[k].by = conns[k].by
    BY <1>6
  <2> QED
    BY <2>8, <2>10, <2>14, <2>15, <2>16, <2>17, <1>1, <1>6
    DEF SocketInvNext, SocketTypeOK, Order
<1> QED
  BY <1>9, <1>10

\* The state in which the first daemon starts.
LEMMA SocketStart ==
  ASSUME SocketInit, Heard = [t \in Clients |-> 0]
  PROVE  SocketInv
<1>1. /\ conns = <<>>
      /\ server = [at |-> "up", listening |-> TRUE, accepting |-> TRUE, backlog |-> <<>>,
                   handlers |-> <<>>]
  BY FreshServer DEF SocketInit
<1>2. /\ server \in Server /\ server.at = "up" /\ server.handlers = <<>>
      /\ server.listening /\ server.accepting /\ server.backlog = <<>>
      /\ conns \in Seq(Connection) /\ Len(conns) = 0 /\ DOMAIN conns = {}
  BY <1>1 DEF Server
<1>3. Heard \in [Clients -> 0 .. Len(conns)] /\ \A t \in Clients : Heard[t] = 0
  BY <1>2
<1>4. Shape(server, conns)
  BY <1>2 DEF Shape, Aimed, Lined, Single, Found, Phases, Written, Attended
<1>5. Order(server, conns, Heard)
  BY <1>2, <1>3 DEF Order, Ordered, Own, Ahead
<1> QED
  BY <1>2, <1>3, <1>4, <1>5 DEF SocketInv, SocketTypeOK

-----------------------------------------------------------------------------
(* The helper.                                                              *)

\* The types of the helper's own variables, with n connections made.
HelperTypes(n) ==
    /\ user \in [idle : BOOLEAN, events : Seq(BOOLEAN)]
    /\ monitor \in [at : {"loop", "poll", "dispatch", "connect", "write", "done"},
                    batch : Seq(BOOLEAN), idle : BOOLEAN, conn : 0 .. n, running : BOOLEAN]
    /\ (monitor.at = "write") = (monitor.conn # 0)
    /\ main \in [at : {"test", "sleep", "wait", "check", "connect", "write", "stop", "join",
                       "exited"}, conn : 0 .. n]
    /\ (main.at = "write") = (main.conn # 0)
    /\ quit \in BOOLEAN

\* The invariant in terms of the socket and of the helper.
LEMMA HelperParts ==
  ASSUME HelperInv
  PROVE  /\ SocketInv /\ SocketTypeOK /\ Len(conns) \in Nat /\ DOMAIN conns = 1 .. Len(conns)
         /\ HelperTypes(Len(conns))
         /\ daemon \in [told : Messages \cup {Nothing}, heard : [Clients -> 0 .. Len(conns)]]
         /\ Speaks(conns, "monitor", monitor.conn) /\ Speaks(conns, "main", main.conn)
<1>1. SocketTypeOK /\ HelperTypes(Len(conns))
  BY DEF HelperInv, TypeOK, HelperTypes
<1>2. /\ daemon \in [told : Messages \cup {Nothing}, heard : [Clients -> 0 .. Len(conns)]]
  BY DEF HelperInv, TypeOK
<1>3. Len(conns) \in Nat /\ DOMAIN conns = 1 .. Len(conns)
  BY <1>1, Parts
<1>4. SocketInv
  BY <1>1, <1>2 DEF SocketInv, HelperInv, Heard
<1> QED
  BY <1>1, <1>2, <1>3, <1>4 DEF HelperInv

\* A thread goes on speaking on its connection when others come or leave.
LEMMA StillSpeaks ==
  ASSUME NEW cs, NEW cs2, NEW t, NEW c \in 0 .. Len(cs), Speaks(cs, t, c),
         Len(cs) \in Nat, DOMAIN cs = 1 .. Len(cs),
         \A k \in DOMAIN cs : k \in DOMAIN cs2 /\ cs2[k].by = cs[k].by,
         c # 0 => (~cs[c].left => ~cs2[c].left),
         \A k \in DOMAIN cs2 : k \notin DOMAIN cs => cs2[k].by # t
  PROVE  Speaks(cs2, t, c)
<1>1. c # 0 => c \in DOMAIN cs
  OBVIOUS
<1> QED
  BY <1>1 DEF Speaks

\* Steps of the socket that hear no one and that nobody makes for the helper.
LEMMA OthersKeep ==
  ASSUME HelperInv, SocketInvNext, UNCHANGED helper, daemon'.heard = daemon.heard,
         daemon' \in [told : Messages \cup {Nothing}, heard : [Clients -> 0 .. Len(conns)]],
         Speaks(conns', "monitor", monitor.conn), Speaks(conns', "main", main.conn)
  PROVE  HelperInv'
<1>1. HelperTypes(Len(conns)) /\ Len(conns) \in Nat
  BY HelperParts
<1>2. /\ user' = user /\ monitor' = monitor /\ main' = main /\ quit' = quit
  BY DEF helper
<1>3. SocketTypeOK' /\ Len(conns') >= Len(conns)
  BY DEF SocketInvNext
<1>4. Len(conns') \in Nat
  BY <1>3 DEF SocketTypeOK
<1>5. 0 .. Len(conns) \in SUBSET (0 .. Len(conns'))
  BY <1>1, <1>3, <1>4
<1>6. daemon' \in [told : Messages \cup {Nothing}, heard : [Clients -> 0 .. Len(conns')]]
  BY <1>5
<1>7. TypeOK'
  BY <1>1, <1>2, <1>3, <1>5, <1>6 DEF TypeOK, HelperTypes
<1>8. Shape(server', conns') /\ Order(server', conns', daemon'.heard)
  BY DEF SocketInvNext, Heard
<1> QED
  BY <1>2, <1>7, <1>8 DEF HelperInv

\* Steps that leave the socket alone.
LEMMA QuietKeeps ==
  ASSUME HelperInv, UNCHANGED <<socket, daemon>>, HelperTypes(Len(conns))',
         monitor'.conn = monitor.conn, main'.conn = main.conn
  PROVE  HelperInv'
<1>1. server' = server /\ conns' = conns /\ daemon' = daemon
  BY DEF socket
<1>2. TypeOK'
  BY <1>1 DEF HelperInv, TypeOK, HelperTypes, SocketTypeOK
<1> QED
  BY <1>1, <1>2 DEF HelperInv

\* The parts of a sequence have the types of the sequence.
LEMMA SequenceParts ==
  ASSUME NEW S, NEW q \in Seq(S)
  PROVE  <<>> \in Seq(S) /\ (q # <<>> => Head(q) \in S /\ Tail(q) \in Seq(S))
OBVIOUS

\* The steps of the helper that do not touch the socket.
LEMMA HelperAlone ==
  ASSUME HelperInv,
         \/ UserMoves \/ MonitorLoop \/ MonitorPoll \/ MonitorDispatch \/ MonitorBreaks
         \/ Signal \/ MainTests \/ MainWaits \/ MainChecks \/ MainStops \/ MainExits
  PROVE  HelperInv' /\ daemon' = daemon
<1>1. HelperTypes(Len(conns)) /\ Len(conns) \in Nat
  BY HelperParts
<1>2. CASE UserMoves
  <2>1. user'.events \in Seq(BOOLEAN) /\ user' \in [idle : BOOLEAN, events : Seq(BOOLEAN)]
    BY <1>1, <1>2 DEF UserMoves, HelperTypes
  <2>2. HelperTypes(Len(conns))'
    BY <2>1, <1>1, <1>2 DEF UserMoves, HelperTypes, socket
  <2> QED
    BY <2>2, <1>2, QuietKeeps DEF UserMoves
<1>3. CASE MonitorLoop
  <2>1. HelperTypes(Len(conns))' /\ monitor'.conn = monitor.conn
    BY <1>1, <1>3 DEF MonitorLoop, HelperTypes, socket
  <2> QED
    BY <2>1, <1>3, QuietKeeps DEF MonitorLoop
<1>4. CASE MonitorPoll
  <2>1. monitor'.conn = monitor.conn
    BY <1>1, <1>4 DEF MonitorPoll, HelperTypes
  <2>2. user'.events = <<>> /\ user' \in [idle : BOOLEAN, events : Seq(BOOLEAN)]
    <3>1. user \in [idle : BOOLEAN, events : Seq(BOOLEAN)]
      BY <1>1 DEF HelperTypes
    <3>2. user.events \in Seq(BOOLEAN)
      BY <3>1
    <3>3. <<>> \in Seq(BOOLEAN)
      BY <3>2, SequenceParts, Zenon
    <3>4. PICK none \in Seq(BOOLEAN) : none = <<>>
      BY <3>3, Zenon
    <3>5. user' = [user EXCEPT !.events = none]
      BY <3>4, <1>4 DEF MonitorPoll
    <3> QED
      BY <3>1, <3>4, <3>5
  <2>3. HelperTypes(Len(conns))'
    BY <2>2, <1>1, <1>4 DEF MonitorPoll, HelperTypes, socket
  <2> QED
    BY <2>1, <2>3, <1>4, QuietKeeps DEF MonitorPoll
<1>5. CASE MonitorDispatch
  <2>1. CASE monitor.batch = <<>>
    <3>1. HelperTypes(Len(conns))' /\ monitor'.conn = monitor.conn
      BY <2>1, <1>1, <1>5 DEF MonitorDispatch, HelperTypes, socket
    <3> QED
      BY <3>1, <1>5, QuietKeeps DEF MonitorDispatch
  <2>2. CASE monitor.batch # <<>>
    <3>1. /\ monitor' = [monitor EXCEPT !.at = "connect", !.idle = Head(monitor.batch),
                                        !.batch = Tail(@)]
      BY <2>2, <1>5 DEF MonitorDispatch
    <3>2. monitor.batch \in Seq(BOOLEAN)
      BY <1>1 DEF HelperTypes
    <3>3. Head(monitor.batch) \in BOOLEAN /\ Tail(monitor.batch) \in Seq(BOOLEAN)
      BY <2>2, <3>2, SequenceParts, Zenon
    <3>4. PICK first \in BOOLEAN : first = Head(monitor.batch)
      BY <3>3
    <3>5. PICK rest \in Seq(BOOLEAN) : rest = Tail(monitor.batch)
      BY <3>3
    <3>6. monitor' = [monitor EXCEPT !.at = "connect", !.idle = first, !.batch = rest]
      BY <3>1, <3>4, <3>5
    <3>7. HelperTypes(Len(conns))' /\ monitor'.conn = monitor.conn
      BY <3>6, <1>1, <1>5 DEF MonitorDispatch, HelperTypes, socket
    <3> QED
      BY <3>7, <1>5, QuietKeeps DEF MonitorDispatch
  <2> QED
    BY <2>1, <2>2
<1>6. CASE MonitorBreaks
  <2>1. HelperTypes(Len(conns))' /\ monitor'.conn = monitor.conn
    BY <1>1, <1>6 DEF MonitorBreaks, HelperTypes, socket
  <2> QED
    BY <2>1, <1>6, QuietKeeps DEF MonitorBreaks
<1>7. CASE Signal
  <2>1. HelperTypes(Len(conns))' /\ main'.conn = main.conn
    BY <1>1, <1>7 DEF Signal, HelperTypes, socket
  <2> QED
    BY <2>1, <1>7, QuietKeeps DEF Signal
<1>8. CASE MainTests
  <2>1. HelperTypes(Len(conns))' /\ main'.conn = main.conn
    BY <1>1, <1>8 DEF MainTests, HelperTypes, socket
  <2> QED
    BY <2>1, <1>8, QuietKeeps DEF MainTests
<1>9. CASE MainWaits
  <2>1. HelperTypes(Len(conns))' /\ main'.conn = main.conn
    BY <1>1, <1>9 DEF MainWaits, HelperTypes, socket
  <2> QED
    BY <2>1, <1>9, QuietKeeps DEF MainWaits
<1>10. CASE MainChecks
  <2>1. HelperTypes(Len(conns))' /\ main'.conn = main.conn
    BY <1>1, <1>10 DEF MainChecks, HelperTypes, socket
  <2> QED
    BY <2>1, <1>10, QuietKeeps DEF MainChecks
<1>11. CASE MainStops
  <2>1. monitor'.conn = monitor.conn /\ main'.conn = main.conn
    BY <1>1, <1>11 DEF MainStops, HelperTypes
  <2>2. HelperTypes(Len(conns))'
    BY <1>1, <1>11 DEF MainStops, HelperTypes, socket
  <2> QED
    BY <2>1, <2>2, <1>11, QuietKeeps DEF MainStops
<1>12. CASE MainExits
  <2>1. HelperTypes(Len(conns))' /\ main'.conn = main.conn
    BY <1>1, <1>12 DEF MainExits, HelperTypes, socket
  <2> QED
    BY <2>1, <1>12, QuietKeeps DEF MainExits
<1> QED
  BY <1>2, <1>3, <1>4, <1>5, <1>6, <1>7, <1>8, <1>9, <1>10, <1>11, <1>12

\* A thread that connects speaks on the new connection; who spoke goes on.
LEMMA NewSpeaker ==
  ASSUME HelperInv, NEW t \in Clients, Connect(t)
  PROVE  /\ SocketInvNext /\ Len(conns') = Len(conns) + 1
         /\ Speaks(conns', t, Len(conns'))
         /\ t # "monitor" => Speaks(conns', "monitor", monitor.conn)
         /\ t # "main" => Speaks(conns', "main", main.conn)
<1>1. /\ SocketInv /\ Len(conns) \in Nat /\ DOMAIN conns = 1 .. Len(conns)
      /\ monitor.conn \in 0 .. Len(conns) /\ main.conn \in 0 .. Len(conns)
      /\ Speaks(conns, "monitor", monitor.conn) /\ Speaks(conns, "main", main.conn)
  BY HelperParts DEF HelperTypes
<1>2. /\ SocketInvNext /\ Len(conns') = Len(conns) + 1
      /\ conns'[Len(conns')].by = t /\ ~conns'[Len(conns')].left
      /\ \A k \in DOMAIN conns : conns'[k] = conns[k]
  BY <1>1, ConnectKeeps
<1>3. DOMAIN conns' = 1 .. Len(conns')
  BY <1>2 DEF SocketInvNext, SocketTypeOK
<1>4. \A k \in DOMAIN conns' : k <= Len(conns')
  BY <1>1, <1>2, <1>3
<1>5. /\ \A k \in DOMAIN conns : k \in DOMAIN conns' /\ conns'[k].by = conns[k].by
      /\ \A k \in DOMAIN conns' : k \notin DOMAIN conns => conns'[k].by = t
      /\ \A k \in DOMAIN conns : ~conns[k].left => ~conns'[k].left
  BY <1>1, <1>2, <1>3
<1>6. Speaks(conns', t, Len(conns'))
  BY <1>2, <1>4 DEF Speaks
<1>7. ASSUME t # "monitor" PROVE Speaks(conns', "monitor", monitor.conn)
  <2>1. PICK w : w = "monitor"
    OBVIOUS
  <2>2. PICK c \in 0 .. Len(conns) : c = monitor.conn
    BY <1>1
  <2>3. /\ \A k \in DOMAIN conns' : k \notin DOMAIN conns => conns'[k].by # w
        /\ c # 0 => (~conns[c].left => ~conns'[c].left)
    BY <2>1, <2>2, <1>1, <1>5, <1>7
  <2>4. /\ Speaks(conns, w, c)
        /\ \A k \in DOMAIN conns : k \in DOMAIN conns' /\ conns'[k].by = conns[k].by
    BY <2>1, <2>2, <1>1, <1>5
  <2>5. Speaks(conns', w, c)
    BY <2>3, <2>4, <1>1, StillSpeaks
  <2> QED
    BY <2>1, <2>2, <2>5, Zenon
<1>8. ASSUME t # "main" PROVE Speaks(conns', "main", main.conn)
  <2>1. PICK w : w = "main"
    OBVIOUS
  <2>2. PICK c \in 0 .. Len(conns) : c = main.conn
    BY <1>1
  <2>3. /\ \A k \in DOMAIN conns' : k \notin DOMAIN conns => conns'[k].by # w
        /\ c # 0 => (~conns[c].left => ~conns'[c].left)
    BY <2>1, <2>2, <1>1, <1>5, <1>8
  <2>4. /\ Speaks(conns, w, c)
        /\ \A k \in DOMAIN conns : k \in DOMAIN conns' /\ conns'[k].by = conns[k].by
    BY <2>1, <2>2, <1>1, <1>5
  <2>5. Speaks(conns', w, c)
    BY <2>3, <2>4, <1>1, StillSpeaks
  <2> QED
    BY <2>1, <2>2, <2>5, Zenon
<1> QED
  BY <1>2, <1>6, <1>7, <1>8

\* Both threads of the helper speak on, when nobody comes or leaves.
LEMMA BothSpeak ==
  ASSUME HelperInv, SocketTypeOK', SameClients
  PROVE  Speaks(conns', "monitor", monitor.conn) /\ Speaks(conns', "main", main.conn)
<1>1. /\ Len(conns) \in Nat /\ DOMAIN conns = 1 .. Len(conns)
      /\ monitor.conn \in 0 .. Len(conns) /\ main.conn \in 0 .. Len(conns)
      /\ Speaks(conns, "monitor", monitor.conn) /\ Speaks(conns, "main", main.conn)
  BY HelperParts DEF HelperTypes
<1>2. DOMAIN conns' = DOMAIN conns
  BY <1>1 DEF SocketTypeOK, SameClients
<1>3. /\ \A k \in DOMAIN conns : k \in DOMAIN conns' /\ conns'[k].by = conns[k].by
      /\ \A k \in DOMAIN conns : ~conns[k].left => ~conns'[k].left
      /\ \A k \in DOMAIN conns' : k \in DOMAIN conns
  BY <1>2 DEF SameClients
<1>4. \A t : \A c \in 0 .. Len(conns) : Speaks(conns, t, c) => Speaks(conns', t, c)
  <2> SUFFICES ASSUME NEW t, NEW c \in 0 .. Len(conns), Speaks(conns, t, c)
               PROVE  Speaks(conns', t, c)
    OBVIOUS
  <2>1. c # 0 => c \in DOMAIN conns
    BY <1>1
  <2> QED
    BY <2>1, <1>1, <1>3, StillSpeaks
<1> QED
  BY <1>1, <1>4

\* The daemon's own steps that hear no one.
LEMMA ServerKeeps ==
  ASSUME HelperInv,
         DaemonHousekeeping \/ DaemonStops \/ DaemonStopped \/ DaemonStarts
  PROVE  HelperInv' /\ daemon'.heard = daemon.heard
<1>1. /\ SocketInv
      /\ daemon \in [told : Messages \cup {Nothing}, heard : [Clients -> 0 .. Len(conns)]]
  BY HelperParts
<1>2. SocketInvNext /\ SameClients
  BY <1>1, AcceptKeeps, RefusalKeeps, EndKeeps, ShutKeeps, StopKeeps, StoppedKeeps, StartKeeps
  DEF DaemonHousekeeping, Housekeeping, DaemonStops, DaemonStopped, DaemonStarts
<1>3. UNCHANGED helper
  BY DEF DaemonHousekeeping, DaemonStops, DaemonStopped, DaemonStarts
<1>4. /\ daemon'.heard = daemon.heard
      /\ daemon' \in [told : Messages \cup {Nothing}, heard : [Clients -> 0 .. Len(conns)]]
  BY <1>1 DEF DaemonHousekeeping, DaemonStops, DaemonStopped, DaemonStarts
<1>5. Speaks(conns', "monitor", monitor.conn) /\ Speaks(conns', "main", main.conn)
  BY <1>2, BothSpeak DEF SocketInvNext
<1> QED
  BY <1>2, <1>3, <1>4, <1>5, OthersKeep

\* The daemon takes a report: it is of a later connection than the last of that thread.
LEMMA ReportKeeps ==
  ASSUME HelperInv, OnReport
  PROVE  HelperInv' /\ \A t \in Clients : daemon'.heard[t] >= daemon.heard[t]
<1> DEFINE Told == [daemon.heard EXCEPT ![conns[Subject].by] = Subject]
<1>1. /\ SocketInv /\ HelperTypes(Len(conns)) /\ Len(conns) \in Nat
      /\ DOMAIN conns = 1 .. Len(conns)
      /\ daemon \in [told : Messages \cup {Nothing}, heard : [Clients -> 0 .. Len(conns)]]
  BY HelperParts
<1>2. /\ SocketTypeOK' /\ Len(conns') = Len(conns) /\ Subject \in DOMAIN conns
      /\ conns[Subject].by \in Clients /\ conns[Subject].line \in Messages
      /\ daemon.heard[conns[Subject].by] < Subject
      /\ \A k \in DOMAIN conns : conns'[k].by = conns[k].by /\ conns'[k].left = conns[k].left
      /\ Shape(server', conns') /\ Order(server', conns', Told)
  BY <1>1, LineKeeps DEF OnReport, Heard
<1>3. /\ user' = user /\ monitor' = monitor /\ main' = main /\ quit' = quit
      /\ daemon' = [told |-> conns[Subject].line, heard |-> Told]
  BY DEF OnReport, helper
<1>4. /\ Told \in [Clients -> 0 .. Len(conns)]
      /\ \A t \in Clients : Told[t] = IF t = conns[Subject].by THEN Subject ELSE daemon.heard[t]
  BY <1>1, <1>2
<1>5. \A t \in Clients : daemon'.heard[t] >= daemon.heard[t]
  BY <1>1, <1>2, <1>3, <1>4
<1>6. daemon' \in [told : Messages \cup {Nothing}, heard : [Clients -> 0 .. Len(conns')]]
  BY <1>2, <1>3, <1>4
<1>7. TypeOK'
  BY <1>1, <1>2, <1>3, <1>6 DEF TypeOK, HelperTypes
<1>8. SameClients
  BY <1>2 DEF SameClients
<1>9. Speaks(conns', "monitor", monitor.conn) /\ Speaks(conns', "main", main.conn)
  BY <1>2, <1>8, BothSpeak
<1>10. daemon'.heard = Told
  BY <1>3
<1> QED
  BY <1>2, <1>3, <1>5, <1>7, <1>9, <1>10 DEF HelperInv

\* A step of the socket in which the helper takes a connection or lets it go.
LEMMA TellKeeps ==
  ASSUME HelperInv, SocketInvNext, daemon' = daemon, HelperTypes(Len(conns))',
         Speaks(conns', "monitor", monitor'.conn), Speaks(conns', "main", main'.conn)
  PROVE  HelperInv'
<1>1. daemon \in [told : Messages \cup {Nothing}, heard : [Clients -> 0 .. Len(conns)]]
  BY HelperParts
<1>2. Len(conns) \in Nat /\ Len(conns') \in Nat /\ Len(conns') >= Len(conns)
  BY HelperParts DEF SocketInvNext, SocketTypeOK
<1>3. 0 .. Len(conns) \in SUBSET (0 .. Len(conns'))
  BY <1>2
<1>4. daemon' \in [told : Messages \cup {Nothing}, heard : [Clients -> 0 .. Len(conns')]]
  BY <1>1, <1>3
<1>5. TypeOK'
  BY <1>4 DEF TypeOK, HelperTypes, SocketInvNext
<1>6. Shape(server', conns') /\ Order(server', conns', daemon'.heard)
  BY DEF SocketInvNext, Heard
<1> QED
  BY <1>5, <1>6 DEF HelperInv

\* The monitor's connect, successful or not.
LEMMA MonitorConnectKeeps ==
  ASSUME HelperInv, MonitorConnect
  PROVE  HelperInv' /\ daemon' = daemon
<1>1. HelperTypes(Len(conns)) /\ Len(conns) \in Nat /\ monitor.conn = 0
  BY HelperParts DEF HelperTypes, MonitorConnect
<1>2. CASE Connect("monitor") /\ monitor' = [monitor EXCEPT !.at = "write", !.conn = Len(conns')]
  <2>1. PICK t \in Clients : t = "monitor"
    BY IdleAssumption
  <2>2. /\ SocketInvNext /\ Len(conns') = Len(conns) + 1
        /\ Speaks(conns', t, Len(conns'))
        /\ t # "monitor" => Speaks(conns', "monitor", monitor.conn)
        /\ t # "main" => Speaks(conns', "main", main.conn)
    BY <2>1, <1>2, NewSpeaker
  <2>3. monitor'.conn = Len(conns') /\ main' = main
    BY <1>1, <1>2 DEF HelperTypes, MonitorConnect
  <2>4. Speaks(conns', "monitor", monitor'.conn)
    BY <2>1, <2>2, <2>3
  <2>5. Speaks(conns', "main", main'.conn)
    BY <2>1, <2>2, <2>3
  <2>6. HelperTypes(Len(conns))'
    <3>1. monitor'.at = "write" /\ monitor'.conn = Len(conns') /\ Len(conns') # 0
      BY <2>2, <2>3, <1>1, <1>2 DEF HelperTypes
    <3>2. PICK n \in Nat : n = Len(conns')
      BY <2>2, <1>1
    <3>3. 0 .. Len(conns) \in SUBSET (0 .. n) /\ n \in 0 .. n
      BY <3>2, <2>2, <1>1
    <3>4. monitor' \in [at : {"loop", "poll", "dispatch", "connect", "write", "done"},
                        batch : Seq(BOOLEAN), idle : BOOLEAN, conn : 0 .. n, running : BOOLEAN]
      <4>1. monitor' = [monitor EXCEPT !.at = "write", !.conn = n]
        BY <3>2, <1>2
      <4> QED
        BY <4>1, <3>3, <1>1 DEF HelperTypes
    <3> QED
      BY <3>1, <3>2, <3>3, <3>4, <1>1, <1>2 DEF HelperTypes, MonitorConnect
  <2> QED
    BY <2>2, <2>4, <2>5, <2>6, TellKeeps DEF MonitorConnect
<1>3. CASE monitor' = [monitor EXCEPT !.at = "dispatch"] /\ UNCHANGED socket
  <2>1. HelperTypes(Len(conns))' /\ monitor'.conn = monitor.conn
    BY <1>1, <1>3 DEF HelperTypes, MonitorConnect, socket
  <2> QED
    BY <2>1, <1>3, QuietKeeps DEF MonitorConnect
<1> QED
  BY <1>2, <1>3 DEF MonitorConnect

\* The main thread's connect, successful or not.
LEMMA MainConnectKeeps ==
  ASSUME HelperInv, MainConnect
  PROVE  HelperInv' /\ daemon' = daemon
<1>1. HelperTypes(Len(conns)) /\ Len(conns) \in Nat /\ main.conn = 0
  BY HelperParts DEF HelperTypes, MainConnect
<1>2. CASE Connect("main") /\ main' = [at |-> "write", conn |-> Len(conns')]
  <2>1. PICK t \in Clients : t = "main"
    BY IdleAssumption
  <2>2. /\ SocketInvNext /\ Len(conns') = Len(conns) + 1
        /\ Speaks(conns', t, Len(conns'))
        /\ t # "monitor" => Speaks(conns', "monitor", monitor.conn)
        /\ t # "main" => Speaks(conns', "main", main.conn)
    BY <2>1, <1>2, NewSpeaker
  <2>3. main'.conn = Len(conns') /\ monitor' = monitor
    BY <1>2 DEF MainConnect
  <2>4. Speaks(conns', "main", main'.conn)
    BY <2>1, <2>2, <2>3
  <2>5. Speaks(conns', "monitor", monitor'.conn)
    BY <2>1, <2>2, <2>3
  <2>6. HelperTypes(Len(conns))'
    BY <2>2, <1>1, <1>2 DEF HelperTypes, MainConnect
  <2> QED
    BY <2>2, <2>4, <2>5, <2>6, TellKeeps DEF MainConnect
<1>3. CASE main' = [main EXCEPT !.at = "stop"] /\ UNCHANGED socket
  <2>1. HelperTypes(Len(conns))' /\ main'.conn = main.conn
    BY <1>1, <1>3 DEF HelperTypes, MainConnect, socket
  <2> QED
    BY <2>1, <1>3, QuietKeeps DEF MainConnect
<1> QED
  BY <1>2, <1>3 DEF MainConnect

\* A thread that writes leaves its connection, which was the last of that thread, and
\* nobody else's.
LEMMA SpeakerWrites ==
  ASSUME HelperInv, NEW t, t # "guest", NEW c \in DOMAIN conns, Speaks(conns, t, c),
         NEW line \in Messages \cup {Nothing}, WriteAndLeave(c, line)
  PROVE  /\ SocketInvNext /\ Len(conns') = Len(conns)
         /\ \A w : \A k \in 0 .. Len(conns) :
              w # t /\ Speaks(conns, w, k) => Speaks(conns', w, k)
<1>1. SocketInv /\ Len(conns) \in Nat /\ DOMAIN conns = 1 .. Len(conns)
  BY HelperParts
<1>2. conns[c].by = t /\ ~conns[c].left /\ \A k \in DOMAIN conns : conns[k].by = t => k <= c
  BY <1>1 DEF Speaks
<1>3. line # Nothing =>
        conns[c].by # "guest" /\ \A k \in DOMAIN conns : conns[k].by = conns[c].by => k <= c
  BY <1>2
<1>4. /\ SocketInvNext /\ Len(conns') = Len(conns)
      /\ \A k \in DOMAIN conns : conns'[k].by = conns[k].by
      /\ \A k \in DOMAIN conns : k # c => conns'[k] = conns[k]
  BY <1>1, <1>2, <1>3, WriteKeeps
<1>5. DOMAIN conns' = DOMAIN conns
  BY <1>1, <1>4 DEF SocketInvNext, SocketTypeOK
<1>6. ASSUME NEW w, NEW k \in 0 .. Len(conns), w # t, Speaks(conns, w, k)
      PROVE  Speaks(conns', w, k)
  <2>1. k # 0 => k \in DOMAIN conns /\ k # c
    BY <1>1, <1>2, <1>6 DEF Speaks
  <2>2. k # 0 => (~conns[k].left => ~conns'[k].left)
    BY <2>1, <1>4
  <2>3. /\ \A m \in DOMAIN conns : m \in DOMAIN conns' /\ conns'[m].by = conns[m].by
        /\ \A m \in DOMAIN conns' : m \notin DOMAIN conns => conns'[m].by # w
    BY <1>4, <1>5
  <2> QED
    BY <2>2, <2>3, <1>1, <1>6, StillSpeaks
<1> QED
  BY <1>4, <1>6

\* The monitor's write.
LEMMA MonitorWriteKeeps ==
  ASSUME HelperInv, MonitorWrite
  PROVE  HelperInv' /\ daemon' = daemon
<1>1. /\ HelperTypes(Len(conns)) /\ Len(conns) \in Nat /\ DOMAIN conns = 1 .. Len(conns)
      /\ Speaks(conns, "monitor", monitor.conn) /\ Speaks(conns, "main", main.conn)
  BY HelperParts
<1>2. monitor.conn \in DOMAIN conns /\ main.conn \in 0 .. Len(conns)
  BY <1>1 DEF HelperTypes, MonitorWrite
<1>3. Line(monitor.idle) \in Messages \cup {Nothing}
  BY IdleAssumption DEF Line
<1>4. PICK line \in Messages \cup {Nothing} : line = Line(monitor.idle)
  BY <1>3
<1>5. PICK c \in DOMAIN conns : c = monitor.conn
  BY <1>2
<1>6. PICK t : t = "monitor"
  OBVIOUS
<1>7. t # "guest" /\ Speaks(conns, t, c) /\ WriteAndLeave(c, line)
  BY <1>1, <1>4, <1>5, <1>6 DEF MonitorWrite
<1>8. /\ SocketInvNext /\ Len(conns') = Len(conns)
      /\ \A w : \A k \in 0 .. Len(conns) :
           w # t /\ Speaks(conns, w, k) => Speaks(conns', w, k)
  BY <1>7, SpeakerWrites
<1>9. PICK w : w = "main"
  OBVIOUS
<1>10. w # t /\ Speaks(conns, w, main.conn)
  BY <1>1, <1>6, <1>9
<1>11. Speaks(conns', "main", main.conn)
  BY <1>2, <1>8, <1>9, <1>10
<1>12. monitor'.conn = 0 /\ main' = main
  BY <1>1 DEF HelperTypes, MonitorWrite
<1>13. Speaks(conns', "main", main'.conn) /\ Speaks(conns', "monitor", monitor'.conn)
  BY <1>11, <1>12 DEF Speaks
<1>14. HelperTypes(Len(conns))'
  <2>1. monitor' = [monitor EXCEPT !.at = "dispatch", !.conn = 0]
    BY DEF MonitorWrite
  <2>2. monitor'.at = "dispatch"
    BY <2>1, <1>1 DEF HelperTypes
  <2>3. 0 \in 0 .. Len(conns)
    BY <1>1
  <2>4. monitor' \in [at : {"loop", "poll", "dispatch", "connect", "write", "done"},
                      batch : Seq(BOOLEAN), idle : BOOLEAN, conn : 0 .. Len(conns),
                      running : BOOLEAN]
    BY <2>1, <2>3, <1>1 DEF HelperTypes
  <2> QED
    BY <2>2, <2>4, <1>1, <1>8, <1>12 DEF HelperTypes, MonitorWrite
<1> QED
  BY <1>8, <1>13, <1>14, TellKeeps DEF MonitorWrite

\* The main thread's write.
LEMMA MainWriteKeeps ==
  ASSUME HelperInv, MainWrite
  PROVE  HelperInv' /\ daemon' = daemon
<1>1. /\ HelperTypes(Len(conns)) /\ Len(conns) \in Nat /\ DOMAIN conns = 1 .. Len(conns)
      /\ Speaks(conns, "monitor", monitor.conn) /\ Speaks(conns, "main", main.conn)
  BY HelperParts
<1>2. main.conn \in DOMAIN conns /\ monitor.conn \in 0 .. Len(conns)
  BY <1>1 DEF HelperTypes, MainWrite
<1>3. PICK line \in Messages \cup {Nothing} : line = "userbusy"
  BY IdleAssumption
<1>4. PICK c \in DOMAIN conns : c = main.conn
  BY <1>2
<1>5. PICK t : t = "main"
  OBVIOUS
<1>6. t # "guest" /\ Speaks(conns, t, c) /\ WriteAndLeave(c, line)
  BY <1>1, <1>3, <1>4, <1>5 DEF MainWrite
<1>7. /\ SocketInvNext /\ Len(conns') = Len(conns)
      /\ \A w : \A k \in 0 .. Len(conns) :
           w # t /\ Speaks(conns, w, k) => Speaks(conns', w, k)
  BY <1>6, SpeakerWrites
<1>8. PICK w : w = "monitor"
  OBVIOUS
<1>9. w # t /\ Speaks(conns, w, monitor.conn)
  BY <1>1, <1>5, <1>8
<1>10. Speaks(conns', "monitor", monitor.conn)
  BY <1>2, <1>7, <1>8, <1>9
<1>11. main'.conn = 0 /\ monitor' = monitor
  BY DEF MainWrite
<1>12. Speaks(conns', "monitor", monitor'.conn) /\ Speaks(conns', "main", main'.conn)
  BY <1>10, <1>11 DEF Speaks
<1>13. HelperTypes(Len(conns))'
  BY <1>1, <1>7 DEF HelperTypes, MainWrite
<1> QED
  BY <1>7, <1>12, <1>13, TellKeeps DEF MainWrite

\* A guest that comes speaks for itself.
LEMMA GuestComesKeeps ==
  ASSUME HelperInv, GuestComes
  PROVE  HelperInv' /\ daemon' = daemon
<1>1. /\ HelperTypes(Len(conns)) /\ Len(conns) \in Nat
      /\ daemon \in [told : Messages \cup {Nothing}, heard : [Clients -> 0 .. Len(conns)]]
  BY HelperParts
<1>2. PICK t \in Clients : t = "guest"
  BY IdleAssumption
<1>3. Connect(t) /\ t # "monitor" /\ t # "main"
  BY <1>2 DEF GuestComes
<1>4. /\ SocketInvNext
      /\ Speaks(conns', "monitor", monitor.conn) /\ Speaks(conns', "main", main.conn)
  BY <1>3, NewSpeaker
<1> QED
  BY <1>1, <1>4, OthersKeep DEF GuestComes

\* A guest that leaves has written nothing.
LEMMA GuestLeavesKeeps ==
  ASSUME HelperInv, GuestLeaves
  PROVE  HelperInv' /\ daemon' = daemon
<1>1. /\ SocketInv /\ HelperTypes(Len(conns)) /\ Len(conns) \in Nat
      /\ DOMAIN conns = 1 .. Len(conns)
      /\ daemon \in [told : Messages \cup {Nothing}, heard : [Clients -> 0 .. Len(conns)]]
      /\ Speaks(conns, "monitor", monitor.conn) /\ Speaks(conns, "main", main.conn)
  BY HelperParts
<1>2. PICK i \in DOMAIN conns :
        conns[i].by = "guest" /\ ~conns[i].left /\ WriteAndLeave(i, Nothing)
  BY DEF GuestLeaves
<1>3. PICK line \in Messages \cup {Nothing} : line = Nothing
  OBVIOUS
<1>4. /\ SocketInvNext /\ Len(conns') = Len(conns)
      /\ \A k \in DOMAIN conns : conns'[k].by = conns[k].by
      /\ \A k \in DOMAIN conns : k # i => conns'[k] = conns[k]
  <2>1. WriteAndLeave(i, line) /\ ~conns[i].left
    BY <1>2, <1>3
  <2>2. line # Nothing =>
          conns[i].by # "guest" /\ \A k \in DOMAIN conns : conns[k].by = conns[i].by => k <= i
    BY <1>3
  <2> QED
    BY <2>1, <2>2, <1>1, WriteKeeps
<1>5. DOMAIN conns' = DOMAIN conns
  BY <1>1, <1>4 DEF SocketInvNext, SocketTypeOK
<1>6. ASSUME NEW w, NEW k \in 0 .. Len(conns), w # "guest", Speaks(conns, w, k)
      PROVE  Speaks(conns', w, k)
  <2>1. k # 0 => k \in DOMAIN conns /\ k # i
    BY <1>1, <1>2, <1>6 DEF Speaks
  <2>2. k # 0 => (~conns[k].left => ~conns'[k].left)
    BY <2>1, <1>4
  <2>3. /\ \A m \in DOMAIN conns : m \in DOMAIN conns' /\ conns'[m].by = conns[m].by
        /\ \A m \in DOMAIN conns' : m \notin DOMAIN conns => conns'[m].by # w
    BY <1>4, <1>5
  <2> QED
    BY <2>2, <2>3, <1>1, <1>6, StillSpeaks
<1>7. Speaks(conns', "monitor", monitor.conn)
  <2>1. PICK w : w = "monitor"
    OBVIOUS
  <2>2. w # "guest" /\ Speaks(conns, w, monitor.conn) /\ monitor.conn \in 0 .. Len(conns)
    BY <2>1, <1>1 DEF HelperTypes
  <2>3. Speaks(conns', w, monitor.conn)
    BY <2>2, <1>6
  <2> QED
    BY <2>1, <2>3
<1>8. Speaks(conns', "main", main.conn)
  <2>1. PICK w : w = "main"
    OBVIOUS
  <2>2. w # "guest" /\ Speaks(conns, w, main.conn) /\ main.conn \in 0 .. Len(conns)
    BY <2>1, <1>1 DEF HelperTypes
  <2>3. Speaks(conns', w, main.conn)
    BY <2>2, <1>6
  <2> QED
    BY <2>1, <2>3
<1> QED
  BY <1>1, <1>4, <1>7, <1>8, OthersKeep DEF GuestLeaves

-----------------------------------------------------------------------------
(* The theorems.                                                            *)

\* The invariant holds when the session begins: nobody has connected, and the server
\* waits for a client.
LEMMA HelperStarts ==
  Init => HelperInv
<1> SUFFICES ASSUME Init PROVE HelperInv
  OBVIOUS
<1>1. SocketInv /\ conns = <<>>
  BY SocketStart DEF Init, SocketInit, Heard
<1>2. Len(conns) = 0 /\ 0 \in 0 .. Len(conns) /\ SocketTypeOK
  BY <1>1 DEF SocketInv
<1>3. /\ monitor.conn = 0 /\ main.conn = 0 /\ daemon.told = Nothing
      /\ daemon.heard = Heard /\ monitor.at = "loop" /\ main.at = "test"
  BY DEF Init, Heard
<1>4. /\ user \in [idle : BOOLEAN, events : Seq(BOOLEAN)]
      /\ monitor \in [at : {"loop", "poll", "dispatch", "connect", "write", "done"},
                      batch : Seq(BOOLEAN), idle : BOOLEAN, conn : 0 .. Len(conns),
                      running : BOOLEAN]
  <2>1. PICK none \in Seq(BOOLEAN) : none = <<>>
    <3>1. PICK b \in Seq(BOOLEAN) : TRUE
      <4>1. [k \in 1 .. 0 |-> TRUE] \in Seq(BOOLEAN)
        OBVIOUS
      <4> QED
        BY <4>1
    <3>2. <<>> \in Seq(BOOLEAN)
      BY <3>1, SequenceParts, Zenon
    <3> QED
      BY <3>2, Zenon
  <2>2. /\ user = [idle |-> FALSE, events |-> none]
        /\ monitor = [at |-> "loop", batch |-> none, idle |-> FALSE, conn |-> 0,
                      running |-> TRUE]
    BY <2>1 DEF Init
  <2> QED
    BY <2>1, <2>2, <1>2
<1>5. /\ main \in [at : {"test", "sleep", "wait", "check", "connect", "write", "stop", "join",
                         "exited"}, conn : 0 .. Len(conns)]
      /\ quit \in BOOLEAN
  BY <1>2 DEF Init
<1>6. daemon \in [told : Messages \cup {Nothing}, heard : [Clients -> 0 .. Len(conns)]]
  BY <1>1, <1>2 DEF Init
<1>7. TypeOK
  BY <1>2, <1>3, <1>4, <1>5, <1>6 DEF TypeOK
<1>8. Speaks(conns, "monitor", monitor.conn) /\ Speaks(conns, "main", main.conn)
  BY <1>3 DEF Speaks
<1> QED
  BY <1>1, <1>3, <1>7, <1>8 DEF HelperInv, SocketInv

\* Every step keeps the invariant, and no thread's reports are heard out of order.
LEMMA HelperSteps ==
  ASSUME HelperInv, [Next]_vars
  PROVE  HelperInv' /\ \A t \in Clients : daemon'.heard[t] >= daemon.heard[t]
<1>1. \A t \in Clients : daemon.heard[t] \in Nat
  BY HelperParts
<1>2. CASE UNCHANGED vars
  <2>1. UNCHANGED <<socket, daemon>> /\ monitor' = monitor /\ main' = main /\ user' = user
        /\ quit' = quit /\ conns' = conns
    BY <1>2 DEF vars, helper, socket
  <2>2. HelperTypes(Len(conns))'
    BY <2>1, HelperParts DEF HelperTypes
  <2> QED
    BY <2>1, <2>2, <1>1, QuietKeeps
<1>3. CASE OnReport
  BY <1>3, ReportKeeps
<1>4. CASE DaemonHousekeeping \/ DaemonStops \/ DaemonStopped \/ DaemonStarts
  <2>1. HelperInv' /\ daemon'.heard = daemon.heard
    BY <1>4, ServerKeeps
  <2> QED
    BY <2>1, <1>1
<1>5. ASSUME \/ UserMoves \/ MonitorLoop \/ MonitorPoll \/ MonitorDispatch \/ MonitorBreaks
             \/ Signal \/ MainTests \/ MainWaits \/ MainChecks \/ MainStops \/ MainExits
             \/ MonitorConnect \/ MonitorWrite \/ MainConnect \/ MainWrite
             \/ GuestComes \/ GuestLeaves
      PROVE  HelperInv' /\ daemon' = daemon
  BY <1>5, HelperAlone, MonitorConnectKeeps, MonitorWriteKeeps, MainConnectKeeps,
     MainWriteKeeps, GuestComesKeeps, GuestLeavesKeeps
<1> QED
  BY <1>1, <1>2, <1>3, <1>4, <1>5 DEF Next, Monitoring, Leaving, Serving

\* TypeOK and the inductive invariant hold in every state of the session, however often
\* the user moves, the daemon stops and guests come.
THEOREM HelperIsRight ==
  Spec => [](TypeOK /\ HelperInv)
<1>1. HelperInv /\ [Next]_vars => HelperInv'
  BY HelperSteps
<1>2. HelperInv => TypeOK
  BY DEF HelperInv
<1> QED
  BY HelperStarts, <1>1, <1>2, PTL DEF Spec

\* The serving daemon forgets no client: an accept is pending or queued, and an open
\* connection has a read pending with nothing to read, or a handler that follows it.
THEOREM NoClientIsForgotten ==
  Spec => []NoClientForgotten
<1>1. HelperInv => NoClientForgotten
  <2> SUFFICES ASSUME HelperInv, server.at = "up" PROVE NoClientForgotten
    BY DEF NoClientForgotten
  <2>1. SocketInv /\ Shape(server, conns)
    BY HelperParts DEF HelperInv
  <2>2. \A p \in DOMAIN server.handlers : server.handlers[p] \in ToSet(server.handlers)
    BY DEF ToSet
  <2>3. server.accepting \/ \E p \in DOMAIN server.handlers : Accepts(server, p)
    BY <2>1 DEF Shape, Phases
  <2>4. server.accepting \/ \E h \in ToSet(server.handlers) : h.kind \in {"accept", "refused"}
    BY <2>2, <2>3 DEF Accepts
  <2>5. ASSUME NEW i \in DOMAIN conns, conns[i].at = "open"
        PROVE  \/ conns[i].reading /\ conns[i].line = Nothing
               \/ \E h \in ToSet(server.handlers) : h.conn = i
    <3>1. CASE conns[i].reading
      BY <3>1, <2>1 DEF Shape, Written
    <3>2. CASE \E p \in DOMAIN server.handlers : server.handlers[p].conn = i
      BY <3>2, <2>2
    <3> QED
      BY <3>1, <3>2, <2>1, <2>5 DEF Shape, Attended
  <2> QED
    BY <2>4, <2>5 DEF NoClientForgotten
<1> QED
  BY <1>1, HelperIsRight, PTL

\* The daemon hears the reports of one thread in the order in which they were made,
\* though each has a connection of its own: IpcServer accepts and reads in order.
THEOREM ReportsKeepOrder ==
  Spec => ReportsInOrder
<1>1. HelperInv /\ [Next]_vars => [\A t \in Clients : daemon'.heard[t] >= daemon.heard[t]]_daemon
  BY HelperSteps
<1> QED
  BY <1>1, HelperIsRight, PTL DEF Spec, ReportsInOrder
================================================================================
