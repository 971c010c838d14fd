-------------------------- MODULE WebOsClientProofs --------------------------
(***************************************************************************)
(* What TLAPS proves of WebOsClient, for all values of its constants. The  *)
(* operators of the model map a client record to a client record; then the *)
(* members of the class are shown one by one to keep the predicate Good of *)
(* a client record, then the handlers composed of them. The second part is *)
(* about what a step may do: it is a step of the abstract session          *)
(* PowerSession, it keeps the order of the queue, and it leaves no work    *)
(* behind.                                                                 *)
(***************************************************************************)
EXTENDS WebOsClient, FiniteSetTheorems, WellFoundedInduction, SequenceTheorems, TLAPS

-----------------------------------------------------------------------------
(* The least-number principle, from the library's well-founded ordering of  *)
(* finite sets, and the induction up to a number that it gives.             *)

\* A set of numbers is mapped to the intervals below its members, which the strict
\* subset ordering of finite sets orders well.
LEMMA LeastNumber ==
  ASSUME NEW T \in SUBSET Nat, T # {}
  PROVE  \E x \in T : \A y \in T : x <= y
<1> DEFINE U == {0 .. x : x \in T}
<1>1. IsWellFoundedOn(StrictSubsetOrdering(Nat), FiniteSubsetsOf(Nat))
  BY FS_StrictSubsetOrderingWellFounded
<1>2. U \subseteq FiniteSubsetsOf(Nat) /\ U # {}
  <2>1. \A x \in T : IsFiniteSet(0 .. x) /\ 0 .. x \in SUBSET Nat
    BY FS_Interval
  <2> QED
    BY <2>1 DEF FiniteSubsetsOf
<1> HIDE DEF U
<1>3. PICK a \in U : \A b \in U : ~(<<b, a>> \in StrictSubsetOrdering(Nat))
  BY <1>1, <1>2, WFMin
<1>4. PICK x \in T : a = 0 .. x
  BY <1>3 DEF U
<1>5. ASSUME NEW y \in T, ~(x <= y) PROVE FALSE
  <2>1. 0 .. y \in U
    BY DEF U
  <2>2. /\ 0 .. y \subseteq 0 .. x /\ 0 .. y # 0 .. x
        /\ 0 .. y \in SUBSET Nat /\ 0 .. x \in SUBSET Nat
    <3>1. x \in 0 .. x /\ x \notin 0 .. y
      BY <1>5
    <3> QED
      BY <3>1, <1>5
  <2>3. <<0 .. y, a>> \in StrictSubsetOrdering(Nat)
    BY <2>2, <1>4 DEF StrictSubsetOrdering
  <2> QED
    BY <2>1, <2>3, <1>3
<1> QED
  BY <1>5

\* A set of numbers up to n that contains 0 and with each number but n its successor
\* is the whole interval.
LEMMA UpTo ==
  ASSUME NEW n \in Nat, NEW S, 0 \in S,
         \A i \in 0 .. n : i < n /\ i \in S => i + 1 \in S
  PROVE  0 .. n \subseteq S
<1> DEFINE T == {i \in 0 .. n : i \notin S}
<1> SUFFICES ASSUME T # {} PROVE FALSE
  OBVIOUS
<1>1. T \in SUBSET Nat
  OBVIOUS
<1> HIDE DEF T
<1>2. PICK x \in T : \A y \in T : x <= y
  BY <1>1, LeastNumber
<1>3. x \in 0 .. n /\ x \notin S
  BY <1>2 DEF T
<1>4. x # 0 /\ x - 1 \in 0 .. n /\ x - 1 < n
  BY <1>3
<1>5. x - 1 \in S
  <2>1. x - 1 \notin T
    BY <1>2, <1>3, <1>4
  <2> QED
    BY <2>1, <1>4 DEF T
<1>6. (x - 1) + 1 \in S
  BY <1>4, <1>5
<1> QED
  BY <1>3, <1>6


-----------------------------------------------------------------------------
(* Without, the filter of the work queue.                                   *)

KeptBody(q, T, g, i) ==
    IF i = 0 THEN <<>>
    ELSE IF q[i].type \in T THEN g[i - 1] ELSE Append(g[i - 1], q[i])

\* The recursion of Without has a solution, built up from the front of the queue.
LEMMA KeptExists ==
  ASSUME NEW q \in Seq(Command), NEW T
  PROVE  \E g \in [0 .. Len(q) -> Seq(Command)] :
           \A i \in 0 .. Len(q) : g[i] = KeptBody(q, T, g, i)
<1> DEFINE Solved(n) == \E g \in [0 .. n -> Seq(Command)] :
                          \A i \in 0 .. n : g[i] = KeptBody(q, T, g, i)
<1> DEFINE S == {n \in 0 .. Len(q) : Solved(n)}
<1>1. Len(q) \in Nat
  OBVIOUS
<1>2. 0 \in S
  <2> DEFINE g == [i \in 0 .. 0 |-> <<>>]
  <2>1. g \in [0 .. 0 -> Seq(Command)] /\ \A i \in 0 .. 0 : g[i] = <<>>
    OBVIOUS
  <2>2. \A i \in 0 .. 0 : g[i] = KeptBody(q, T, g, i)
    BY <2>1 DEF KeptBody
  <2> HIDE DEF g
  <2> QED
    BY <2>1, <2>2, <1>1
<1>3. ASSUME NEW n \in 0 .. Len(q), n < Len(q), n \in S PROVE n + 1 \in S
  <2>1. PICK g \in [0 .. n -> Seq(Command)] :
          \A i \in 0 .. n : g[i] = KeptBody(q, T, g, i)
    BY <1>3
  <2> DEFINE new == IF q[n + 1].type \in T THEN g[n] ELSE Append(g[n], q[n + 1])
  <2> DEFINE h == [i \in 0 .. n + 1 |-> IF i = n + 1 THEN new ELSE g[i]]
  <2>2. new \in Seq(Command)
    <3>1. n \in 0 .. n /\ n + 1 \in 1 .. Len(q)
      BY <1>1, <1>3
    <3>2. g[n] \in Seq(Command) /\ q[n + 1] \in Command
      BY <2>1, <3>1
    <3> QED
      BY <3>2
  <2>3. h[n + 1] = new /\ \A i \in 0 .. n : h[i] = g[i]
    BY <1>1
  <2>4. h \in [0 .. n + 1 -> Seq(Command)]
    BY <2>2
  <2>5. \A i \in 0 .. n : h[i] = KeptBody(q, T, h, i)
    <3>1. \A i \in 0 .. n : i # 0 => i - 1 \in 0 .. n
      BY <1>1
    <3> HIDE DEF h
    <3> QED
      BY <2>1, <2>3, <3>1 DEF KeptBody
  <2>6. h[n + 1] = KeptBody(q, T, h, n + 1)
    <3>1. n \in 0 .. n /\ (n + 1) - 1 = n /\ n + 1 # 0
      BY <1>1
    <3> QED
      BY <2>3, <3>1 DEF KeptBody
  <2> HIDE DEF h
  <2>7. \A i \in 0 .. n + 1 : h[i] = KeptBody(q, T, h, i)
    <3>1. \A i \in 0 .. n + 1 : i \in 0 .. n \/ i = n + 1
      BY <1>1
    <3> QED
      BY <2>5, <2>6, <3>1
  <2>8. Solved(n + 1)
    BY <2>4, <2>7
  <2> HIDE DEF Solved
  <2> QED
    BY <2>8, <1>1, <1>3
<1> HIDE DEF S
<1>4. 0 .. Len(q) \subseteq S
  BY <1>1, <1>2, <1>3, UpTo
<1>5. Len(q) \in S
  BY <1>1, <1>4
<1>6. Solved(Len(q))
  BY <1>5 DEF S
<1> QED
  BY <1>6

\* What Without returns: the value of such a solution at the end of the queue.
LEMMA WithoutSolves ==
  ASSUME NEW q \in Seq(Command), NEW T
  PROVE  \E g : /\ \A i \in 0 .. Len(q) : g[i] = KeptBody(q, T, g, i)
                /\ Without(q, T) = g[Len(q)]
<1> DEFINE Eq(f) == f = [i \in 0 .. Len(q) |->
                           IF i = 0 THEN <<>>
                           ELSE IF q[i].type \in T THEN f[i - 1] ELSE Append(f[i - 1], q[i])]
<1>1. \E f : Eq(f)
  <2>1. PICK g \in [0 .. Len(q) -> Seq(Command)] :
          \A i \in 0 .. Len(q) : g[i] = KeptBody(q, T, g, i)
    BY KeptExists
  <2>2. g = [i \in 0 .. Len(q) |-> g[i]]
    OBVIOUS
  <2>3. Eq(g)
    BY <2>1, <2>2 DEF KeptBody
  <2> QED
    BY <2>3
<1> DEFINE f == CHOOSE f : Eq(f)
<1>2. Eq(f)
  BY <1>1
<1>3. Without(q, T) = f[Len(q)]
  BY DEF Without
<1> HIDE DEF f
<1>4. \A i \in 0 .. Len(q) : f[i] = KeptBody(q, T, f, i)
  BY <1>2 DEF KeptBody
<1> QED
  BY <1>3, <1>4

\* Without keeps exactly the units whose type is not in T.
LEMMA WithoutUnits ==
  ASSUME NEW q \in Seq(Command), NEW T
  PROVE  /\ Without(q, T) \in Seq(Command)
         /\ \A j \in DOMAIN Without(q, T) :
              \E i \in DOMAIN q : Without(q, T)[j] = q[i] /\ q[i].type \notin T
         /\ \A i \in DOMAIN q : q[i].type \notin T =>
              \E j \in DOMAIN Without(q, T) : Without(q, T)[j] = q[i]
<1>1. PICK g : /\ \A i \in 0 .. Len(q) : g[i] = KeptBody(q, T, g, i)
               /\ Without(q, T) = g[Len(q)]
  BY WithoutSolves
<1> DEFINE Right(n) ==
      /\ g[n] \in Seq(Command)
      /\ \A j \in DOMAIN g[n] : \E i \in 1 .. n : g[n][j] = q[i] /\ q[i].type \notin T
      /\ \A i \in 1 .. n : q[i].type \notin T => \E j \in DOMAIN g[n] : g[n][j] = q[i]
<1> DEFINE S == {n \in 0 .. Len(q) : Right(n)}
<1>2. Len(q) \in Nat /\ DOMAIN q = 1 .. Len(q)
  OBVIOUS
<1>3. 0 \in S
  <2>1. g[0] = <<>>
    BY <1>1, <1>2 DEF KeptBody
  <2>2. g[0] \in Seq(Command) /\ DOMAIN g[0] = {} /\ 1 .. 0 = {}
    BY <2>1
  <2> QED
    BY <2>2, <1>2
<1>4. ASSUME NEW n \in 0 .. Len(q), n < Len(q), n \in S PROVE n + 1 \in S
  <2>1. Right(n)
    BY <1>4
  <2>2. g[n + 1] = IF q[n + 1].type \in T THEN g[n] ELSE Append(g[n], q[n + 1])
    <3>1. n + 1 \in 0 .. Len(q) /\ (n + 1) - 1 = n /\ n + 1 # 0
      BY <1>2, <1>4
    <3> QED
      BY <1>1, <3>1 DEF KeptBody
  <2>3. q[n + 1] \in Command /\ n + 1 \in 0 .. Len(q) /\ \A i \in 1 .. n + 1 : i \in 1 .. n \/ i = n + 1
    BY <1>2, <1>4
  <2>4. CASE q[n + 1].type \in T
    <3>1. g[n + 1] = g[n]
      BY <2>2, <2>4
    <3> QED
      BY <2>1, <2>3, <2>4, <3>1
  <2>5. CASE q[n + 1].type \notin T
    <3> DEFINE old == g[n]
    <3>1. g[n + 1] = Append(old, q[n + 1])
      BY <2>2, <2>5
    <3>2. old \in Seq(Command)
      BY <2>1
    <3>3. /\ g[n + 1] \in Seq(Command)
          /\ DOMAIN g[n + 1] = 1 .. Len(old) + 1
          /\ \A j \in 1 .. Len(old) : g[n + 1][j] = old[j]
          /\ g[n + 1][Len(old) + 1] = q[n + 1]
          /\ Len(old) \in Nat
          /\ DOMAIN old = 1 .. Len(old)
      BY <3>1, <3>2, <2>3
    <3> HIDE DEF old
    <3>4. \A j \in DOMAIN g[n + 1] : j \in 1 .. Len(old) \/ j = Len(old) + 1
      BY <3>3
    <3>5. \A j \in DOMAIN old : \E i \in 1 .. n : old[j] = q[i] /\ q[i].type \notin T
      BY <2>1 DEF old
    <3>6. \A i \in 1 .. n : q[i].type \notin T => \E j \in DOMAIN old : old[j] = q[i]
      BY <2>1 DEF old
    <3>7. n + 1 \in 1 .. n + 1 /\ \A i \in 1 .. n : i \in 1 .. n + 1
      BY <1>2
    <3>8. Len(old) + 1 \in DOMAIN g[n + 1] /\ \A j \in DOMAIN old : j \in DOMAIN g[n + 1]
      BY <3>3
    <3>9. \A j \in DOMAIN g[n + 1] :
            \E i \in 1 .. n + 1 : g[n + 1][j] = q[i] /\ q[i].type \notin T
      BY <3>3, <3>4, <3>5, <3>7, <2>5
    <3>10. \A i \in 1 .. n + 1 : q[i].type \notin T =>
             \E j \in DOMAIN g[n + 1] : g[n + 1][j] = q[i]
      BY <3>3, <3>6, <3>8, <2>3
    <3> QED
      BY <3>3, <3>9, <3>10, <2>3
  <2> QED
    BY <2>4, <2>5
<1> HIDE DEF S
<1>5. 0 .. Len(q) \subseteq S
  BY <1>2, <1>3, <1>4, UpTo
<1>6. Right(Len(q))
  BY <1>2, <1>5 DEF S
<1> HIDE DEF Right
<1>7. Right(Len(q)) /\ g[Len(q)] = Without(q, T) /\ 1 .. Len(q) = DOMAIN q
  BY <1>1, <1>2, <1>6
<1> QED
  BY <1>7 DEF Right

-----------------------------------------------------------------------------
(* Skip, the units that startNextWork finishes at once.                      *)

\* Skip stops at the first unit that takes time, or at the end of the queue.
LEMMA SkipStops ==
  ASSUME NEW c, c.queue \in Seq(Command)
  PROVE  /\ Skip(c) \in 0 .. Len(c.queue)
         /\ \A j \in 1 .. Len(c.queue) : j <= Skip(c) => Instant(c, c.queue[j])
<1> DEFINE stops == {k \in 0 .. Len(c.queue) :
                       k < Len(c.queue) => ~Instant(c, c.queue[k + 1])}
<1>1. Len(c.queue) \in Nat
  OBVIOUS
<1>2. stops \in SUBSET Nat /\ Len(c.queue) \in stops
  BY <1>1
<1>3. Skip(c) = CHOOSE k \in stops : \A j \in stops : k <= j
  BY DEF Skip
<1> HIDE DEF stops
<1>4. \E k \in stops : \A j \in stops : k <= j
  BY <1>2, LeastNumber
<1>5. Skip(c) \in stops /\ \A j \in stops : Skip(c) <= j
  BY <1>3, <1>4
<1>6. Skip(c) \in 0 .. Len(c.queue)
  BY <1>5 DEF stops
<1>7. ASSUME NEW j \in 1 .. Len(c.queue), j <= Skip(c) PROVE Instant(c, c.queue[j])
  <2>1. j - 1 \in 0 .. Len(c.queue) /\ j - 1 < Len(c.queue) /\ (j - 1) + 1 = j
    BY <1>1, <1>7
  <2>2. j - 1 \notin stops
    BY <1>5, <1>6, <1>7, <1>1, <2>1
  <2> QED
    BY <2>1, <2>2 DEF stops
<1> QED
  BY <1>6, <1>7

-----------------------------------------------------------------------------
(* The members of the class map client records to client records.            *)

\* The fields of a client record.
LEMMA Fields ==
  ASSUME NEW c \in Client
  PROVE  /\ c.queue \in Seq(Command) /\ c.work \in Work /\ c.wire \in Seq(Requests)
         /\ c.intent \in Power \cup {"NONE"} /\ c.chain \in Stages
         /\ c.status \in {"DISCONNECTED", "CONNECTING", "CONNECTED"}
         /\ c.reads \in 0 .. MaxPending /\ c.writes \in 0 .. MaxPending
         /\ c.blocked \in 0 .. MaxPending /\ c.closes \in 0 .. MaxPending
         /\ c.stale \in 0 .. MaxPending /\ c.resolving \in 0 .. MaxPending
         /\ c.cancelled \in 0 .. MaxPending
  BY DEF Client

\* A count is cut off at the bound.
LEMMA CappedType ==
  ASSUME NEW n \in Nat
  PROVE  Capped(n) \in 0 .. MaxPending
  BY ClientAssumption DEF Capped

\* One more operation of any kind in flight.
LEMMA CountsUp ==
  ASSUME NEW n \in 0 .. MaxPending
  PROVE  Capped(n + 1) \in 0 .. MaxPending
  BY ClientAssumption DEF Capped

\* One operation less.
LEMMA CountsDown ==
  ASSUME NEW n \in 0 .. MaxPending, n > 0
  PROVE  n - 1 \in 0 .. MaxPending
  BY ClientAssumption

\* send(): a request is written, and waits for its answer on an open stream.
LEMMA SendType ==
  ASSUME NEW c \in Client, NEW r \in Requests
  PROVE  Send(c, r) \in Client
<1> DEFINE w == Capped(c.writes + 1)
<1> DEFINE b == IF c.chain = "closing" THEN Capped(c.blocked + 1) ELSE c.blocked
<1> DEFINE q == IF c.chain = "open" /\ Len(c.wire) < MaxPending THEN Append(c.wire, r) ELSE c.wire
<1>1. w \in 0 .. MaxPending /\ b \in 0 .. MaxPending
  BY CountsUp, Fields
<1>2. q \in Seq(Requests)
  BY Fields
<1>3. Send(c, r) = [c EXCEPT !.writes = w, !.blocked = b, !.wire = q]
  BY DEF Send
<1> HIDE DEF w, b, q
<1> QED
  BY <1>1, <1>2, <1>3 DEF Client

\* read(): one more read in flight.
LEMMA ReadType ==
  ASSUME NEW c \in Client
  PROVE  Read(c) \in Client
<1>1. Capped(c.reads + 1) \in 0 .. MaxPending
  BY CountsUp, Fields
<1> QED
  BY <1>1 DEF Client, Read

\* run(): the operations of the old stream become aborted ones, within the bound.
LEMMA RunType ==
  ASSUME NEW c \in Client
  PROVE  Run(c) \in Client
<1> DEFINE s == Capped(c.stale + InFlight(c))
<1> DEFINE n == Capped(c.resolving + 1)
<1>1. InFlight(c) \in Nat
  BY Fields, ClientAssumption DEF InFlight
<1>2. s \in 0 .. MaxPending
  <2>1. c.stale + InFlight(c) \in Nat
    BY <1>1, Fields, ClientAssumption
  <2> QED
    BY <2>1, CappedType
<1>3. n \in 0 .. MaxPending
  BY CountsUp, Fields
<1>4. Run(c) = [c EXCEPT !.status = "CONNECTING", !.chain = "fresh", !.wire = <<>>,
                         !.reads = 0, !.writes = 0, !.blocked = 0, !.closes = 0,
                         !.stale = s, !.resolving = n]
  BY DEF Run
<1>5. 0 \in 0 .. MaxPending /\ "fresh" \in Stages /\ <<>> \in Seq(Requests)
  BY ClientAssumption DEF Stages
<1> HIDE DEF s, n
<1>6. [c EXCEPT !.status = "CONNECTING", !.chain = "fresh", !.wire = <<>>,
               !.reads = 0, !.writes = 0] \in Client
  BY <1>5 DEF Client
<1>7. \A d \in Client : [d EXCEPT !.blocked = 0, !.closes = 0] \in Client
  BY <1>5 DEF Client
<1>8. \A d \in Client : [d EXCEPT !.stale = s, !.resolving = n] \in Client
  BY <1>2, <1>3 DEF Client
<1>9. Run(c) = [[[c EXCEPT !.status = "CONNECTING", !.chain = "fresh", !.wire = <<>>,
                          !.reads = 0, !.writes = 0]
                EXCEPT !.blocked = 0, !.closes = 0] EXCEPT !.stale = s, !.resolving = n]
  BY <1>4
<1> QED
  BY <1>6, <1>7, <1>8, <1>9

\* async_timer_ is armed, and the wait it cancels counted.
LEMMA ArmTimerType ==
  ASSUME NEW c \in Client, NEW h \in {"retry", "poll"}
  PROVE  ArmTimer(c, h) \in Client
<1> DEFINE n == IF c.timer # "idle" THEN Capped(c.cancelled + 1) ELSE c.cancelled
<1>1. n \in 0 .. MaxPending
  BY CountsUp, Fields
<1>2. ArmTimer(c, h) = [c EXCEPT !.timer = h, !.cancelled = n]
  BY DEF ArmTimer
<1> HIDE DEF n
<1>3. [c EXCEPT !.timer = h] \in Client
  BY DEF Client
<1>4. \A d \in Client : [d EXCEPT !.cancelled = n] \in Client
  BY <1>1 DEF Client
<1>5. ArmTimer(c, h) = [[c EXCEPT !.timer = h] EXCEPT !.cancelled = n]
  BY <1>2
<1> QED
  BY <1>3, <1>4, <1>5

\* delayed_request_timer_ is armed, and the wait it cancels counted.
LEMMA ArmDelayedType ==
  ASSUME NEW c \in Client
  PROVE  ArmDelayed(c) \in Client
<1> DEFINE a == IF c.delayed THEN Capped(c.cancelled + 1) ELSE c.cancelled
<1>1. a \in 0 .. MaxPending
  BY CountsUp, Fields
<1>2. ArmDelayed(c) = [c EXCEPT !.delayed = TRUE, !.cancelled = a]
  BY DEF ArmDelayed
<1> HIDE DEF a
<1> QED
  BY <1>1, <1>2 DEF Client

\* runWOL(): the wake loop runs.
LEMMA RunWOLType ==
  ASSUME NEW c \in Client
  PROVE  RunWOL(c) \in Client
  BY DEF RunWOL, Client

\* doClose() starts the close handshake of an open stream.
LEMMA StartCloseType ==
  ASSUME NEW c \in Client
  PROVE  StartClose(c) \in Client
<1> DEFINE n == Capped(c.closes + 1)
<1> DEFINE s == IF c.chain = "open" THEN "closing" ELSE c.chain
<1>1. n \in 0 .. MaxPending /\ s \in Stages
  BY CountsUp, Fields DEF Stages
<1>2. StartClose(c) = IF c.status = "DISCONNECTED" THEN c
                      ELSE [c EXCEPT !.closes = n, !.chain = s]
  BY DEF StartClose
<1> HIDE DEF n, s
<1>3. [c EXCEPT !.closes = n, !.chain = s] \in Client
  BY <1>1 DEF Client
<1> QED
  BY <1>2, <1>3

Fates == {"none", "pending", "done", "declined", "aborted", "gaveup", "lingered",
          "closed", "dropped", "replaced"}

\* Work::clear() leaves a unit.
LEMMA NoWorkType == NoWork \in Work
  BY ClientAssumption DEF NoWork, Work, WorkTypes, MaxRetries

\* A queued command, once taken up, is a unit.
LEMMA StartedType ==
  ASSUME NEW u \in Command
  PROVE  Started(u) \in Work
  BY ClientAssumption DEF Started, Work, WorkTypes, MaxRetries, Command

\* The outcome of a power command is noted.
LEMMA SettleType ==
  ASSUME NEW c \in Client, NEW outcome \in Fates
  PROVE  Settle(c, outcome) \in Client
<1>1. [c EXCEPT !.fate = outcome] \in Client
  BY DEF Client, Fates
<1> QED
  BY <1>1 DEF Settle

\* doClose() clears the queue and the unit in progress.
LEMMA DiscardType ==
  ASSUME NEW c \in Client, NEW outcome \in Fates
  PROVE  Discard(c, outcome) \in Client
<1> DEFINE f == IF c.fate = "pending" THEN outcome ELSE c.fate
<1>1. f \in Fates
  BY DEF Client, Fates
<1>2. Discard(c, outcome) = [c EXCEPT !.queue = <<>>, !.work = NoWork, !.fate = f]
  BY DEF Discard
<1>3. <<>> \in Seq(Command)
  OBVIOUS
<1> HIDE DEF f
<1> DEFINE d == [c EXCEPT !.queue = <<>>]
<1> DEFINE e == [d EXCEPT !.work = NoWork]
<1>4. Discard(c, outcome) = [e EXCEPT !.fate = f]
  BY <1>2
<1>5. d \in Client
  BY <1>3 DEF Client
<1> HIDE DEF d
<1>6. e \in Client
  BY <1>5, NoWorkType DEF Client
<1> HIDE DEF e
<1>7. [e EXCEPT !.fate = f] \in Client
  BY <1>1, <1>6 DEF Client, Fates
<1> QED
  BY <1>4, <1>7

\* doClose() as a whole.
LEMMA DoCloseType ==
  ASSUME NEW c \in Client, NEW outcome \in Fates
  PROVE  DoClose(c, outcome) \in Client
  BY DiscardType, StartCloseType DEF DoClose

\* A unit is sent over the open connection, or a connection is opened for it.
LEMMA ContactType ==
  ASSUME NEW c \in Client
  PROVE  Contact(c) \in Client
<1>1. FirstRequest(c.work.type) \in Requests
  BY DEF FirstRequest, Requests
<1> QED
  BY <1>1, SendType, RunType DEF Contact

\* The switch of startNextWork.
LEMMA BeginType ==
  ASSUME NEW c \in Client
  PROVE  Begin(c) \in Client
  BY ContactType, ArmDelayedType, DoCloseType, RunWOLType DEF Begin, BeginPowerOn, Fates

\* startNextWork with an empty queue.
LEMMA RestType ==
  ASSUME NEW c \in Client
  PROVE  Rest(c) \in Client
<1>1. [c EXCEPT !.keepAlive = TRUE] \in Client /\ [c EXCEPT !.closeTimer = TRUE] \in Client
  BY DEF Client
<1>2. DoClose(c, "dropped") \in Client
  BY DoCloseType DEF Fates
<1> QED
  BY <1>1, <1>2 DEF Rest

\* The first unit that takes time, and the units behind it.
LEMMA NextUnit ==
  ASSUME NEW c, c.queue \in Seq(Command), Skip(c) # Len(c.queue)
  PROVE  /\ Skip(c) + 1 \in 1 .. Len(c.queue)
         /\ c.queue[Skip(c) + 1] \in Command
         /\ SubSeq(c.queue, Skip(c) + 2, Len(c.queue)) \in Seq(Command)
<1>1. Len(c.queue) \in Nat
  OBVIOUS
<1>2. Skip(c) \in 0 .. Len(c.queue)
  BY SkipStops
<1> DEFINE k == Skip(c)
<1>3. k = Skip(c)
  OBVIOUS
<1> HIDE DEF k
<1>4. k \in Nat /\ k + 1 \in 1 .. Len(c.queue)
  BY <1>1, <1>2, <1>3
<1>5. c.queue[k + 1] \in Command
  BY <1>4
<1>6. SubSeq(c.queue, k + 2, Len(c.queue)) \in Seq(Command)
  <2>1. k + 2 \in Int /\ Len(c.queue) \in Int
    BY <1>1, <1>4
  <2>2. ASSUME NEW i \in k + 2 .. Len(c.queue) PROVE c.queue[i] \in Command
    <3>1. i \in 1 .. Len(c.queue)
      BY <1>1, <1>4
    <3> QED
      BY <3>1
  <2> QED
    BY <2>1, <2>2, SubSeqProperties
<1> QED
  BY <1>3, <1>4, <1>5, <1>6

\* startNextWork once no unit is in progress.
LEMMA DispatchType ==
  ASSUME NEW c \in Client
  PROVE  Dispatch(c) \in Client
<1>1. c.queue \in Seq(Command)
  BY Fields
<1> DEFINE rest == SubSeq(c.queue, Skip(c) + 2, Len(c.queue))
<1> DEFINE first == Started(c.queue[Skip(c) + 1])
<1>2. CASE c.status = "CONNECTING"
  BY <1>2, DoCloseType DEF Dispatch, Fates
<1>3. CASE c.status # "CONNECTING" /\ Skip(c) = Len(c.queue)
  <2>1. [c EXCEPT !.queue = <<>>] \in Client
    <3>1. <<>> \in Seq(Command)
      OBVIOUS
    <3> QED
      BY <3>1 DEF Client
  <2> QED
    BY <1>3, <2>1, RestType DEF Dispatch
<1>4. CASE c.status # "CONNECTING" /\ Skip(c) # Len(c.queue)
  <2>1. first \in Work /\ rest \in Seq(Command)
    BY <1>1, <1>4, NextUnit, StartedType
  <2>2. Dispatch(c) = Begin([c EXCEPT !.work = first, !.queue = rest])
    BY <1>4 DEF Dispatch
  <2> HIDE DEF first, rest
  <2>3. [c EXCEPT !.work = first, !.queue = rest] \in Client
    BY <2>1 DEF Client
  <2> QED
    BY <2>2, <2>3, BeginType
<1> QED
  BY <1>2, <1>3, <1>4

\* startNextWork.
LEMMA StartNextWorkType ==
  ASSUME NEW c \in Client
  PROVE  StartNextWork(c) \in Client
<1>1. Settle(c, "lingered") \in Client
  BY SettleType DEF Fates
<1>2. [Settle(c, "lingered") EXCEPT !.work = NoWork, !.keepAlive = FALSE] \in Client
  BY <1>1, NoWorkType DEF Client
<1> QED
  BY <1>2, DispatchType DEF StartNextWork

\* workIsFinished.
LEMMA FinishType ==
  ASSUME NEW c \in Client, NEW outcome \in Fates
  PROVE  Finish(c, outcome) \in Client
<1>1. Settle(c, outcome) \in Client
  BY SettleType
<1>2. [Settle(c, outcome) EXCEPT !.work = NoWork] \in Client
  BY <1>1, NoWorkType DEF Client
<1> QED
  BY <1>2, StartNextWorkType DEF Finish

\* enqueueWork puts a unit in the queue, in place of those it supersedes.
LEMMA PushType ==
  ASSUME NEW c \in Client, NEW u \in Command
  PROVE  Push(c, u) \in Client
<1> DEFINE q == Append(Without(c.queue, Superseded(u)), u)
<1>1. q \in Seq(Command)
  BY Fields, WithoutUnits
<1>2. Push(c, u) = [c EXCEPT !.queue = q]
  BY DEF Push
<1> HIDE DEF q
<1> QED
  BY <1>1, <1>2 DEF Client

\* enqueueWork.
LEMMA EnqueueType ==
  ASSUME NEW c \in Client, NEW u \in Command
  PROVE  Enqueue(c, u) \in Client
<1> DEFINE d == IF u.type \in Power
                THEN [c EXCEPT !.intent = u.type, !.fate = "pending"] ELSE c
<1>1. d \in Client
  <2>1. ASSUME u.type \in Power
        PROVE  [c EXCEPT !.intent = u.type, !.fate = "pending"] \in Client
    BY <2>1 DEF Client
  <2> QED
    BY <2>1
<1>2. Enqueue(c, u) = IF ~InProgress(c, u) THEN StartNextWork(Push(d, u))
                      ELSE IF u.type \in Power
                      THEN [d EXCEPT !.queue = Without(d.queue, Power)] ELSE d
  BY DEF Enqueue
<1> HIDE DEF d
<1>3. [d EXCEPT !.queue = Without(d.queue, Power)] \in Client
  <2>1. Without(d.queue, Power) \in Seq(Command)
    BY <1>1, Fields, WithoutUnits
  <2> QED
    BY <1>1, <2>1 DEF Client
<1>4. StartNextWork(Push(d, u)) \in Client
  BY <1>1, PushType, StartNextWorkType
<1> QED
  BY <1>1, <1>2, <1>3, <1>4

\* The status alone changes.
LEMMA DisconnectedType ==
  ASSUME NEW c \in Client
  PROVE  [c EXCEPT !.status = "DISCONNECTED"] \in Client
  BY DEF Client

\* onError retries the unit, or ends it.
LEMMA OnErrorType ==
  ASSUME NEW c \in Client
  PROVE  OnError(c) \in Client
<1> DEFINE d == [c EXCEPT !.status = "DISCONNECTED"]
<1>1. d \in Client
  BY DisconnectedType
<1>2. /\ Finish(c, "aborted") \in Client /\ Finish(d, "gaveup") \in Client
      /\ Finish(d, "aborted") \in Client /\ ArmTimer(c, "retry") \in Client
  <2> HIDE DEF d
  <2> QED
    BY <1>1, FinishType, ArmTimerType DEF Fates
<1> QED
  BY <1>1, <1>2 DEF OnError

-----------------------------------------------------------------------------
(* The conversation.                                                        *)

Outcomes == {"declined", "aborted", "done"}

\* The conversation goes on with a request, or ends.
LEMMA StepType ==
  ASSUME NEW u, NEW r, NEW a
  PROVE  Step(u, r, a) \in Requests \cup Outcomes \cup {"poll", "on", "off", "button", "nothing"}
  BY DEF Step, PowerOnStep, PowerOffStep, BlankStep, Requests, Outcomes

\* The display has reached the power state asked for.
LEMMA ConcludeType ==
  ASSUME NEW c \in Client, NEW on \in BOOLEAN
  PROVE  Conclude(c, on) \in Client
<1>1. [c EXCEPT !.poweredOn = on] \in Client
  BY DEF Client
<1> QED
  BY <1>1, FinishType DEF Conclude, Fates

\* onRead, for an answer that is no failure.
LEMMA RespondType ==
  ASSUME NEW c \in Client, NEW r, NEW a
  PROVE  Respond(c, r, a) \in Client
<1> DEFINE s == Step(c.work, r, a)
<1> DEFINE b == [c EXCEPT !.buttonUp = c.buttonUp \/ a = "ok"]
<1>1. s \in Requests \cup Outcomes \cup {"poll", "on", "off", "button", "nothing"}
  BY StepType
<1>2. b \in Client
  <2>1. (c.buttonUp \/ a = "ok") \in BOOLEAN
    OBVIOUS
  <2> QED
    BY <2>1 DEF Client
<1>3. Respond(c, r, a) =
        CASE s \in Requests -> Send(c, s)
          [] s = "poll" -> ArmTimer(c, "poll")
          [] s = "on" -> Conclude(c, TRUE)
          [] s = "off" -> Conclude(c, FALSE)
          [] s = "button" -> Finish(b, "done")
          [] s = "nothing" -> c
          [] OTHER -> Finish(c, s)
  BY DEF Respond
<1> HIDE DEF s, b
<1>4. s \in Requests => Send(c, s) \in Client
  BY SendType
<1>5. /\ ArmTimer(c, "poll") \in Client /\ Conclude(c, TRUE) \in Client
      /\ Conclude(c, FALSE) \in Client /\ Finish(b, "done") \in Client
  BY <1>2, ArmTimerType, ConcludeType, FinishType DEF Fates
<1>6. s \in Outcomes => Finish(c, s) \in Client
  BY FinishType DEF Outcomes, Fates
<1> QED
  BY <1>1, <1>3, <1>4, <1>5, <1>6

\* onRead, for the answer to the webOS handshake.
LEMMA RegisteredType ==
  ASSUME NEW c \in Client
  PROVE  Registered(c) \in Client
<1> DEFINE u == [type |-> "REQUEST", forced |-> FALSE]
<1> DEFINE d == IF c.key THEN c ELSE Enqueue([c EXCEPT !.key = TRUE], u)
<1>1. u \in Command
  BY DEF Command, WorkTypes
<1>2. d \in Client
  <2>1. [c EXCEPT !.key = TRUE] \in Client
    BY DEF Client
  <2> HIDE DEF u
  <2> QED
    BY <1>1, <2>1, EnqueueType
<1>3. Registered(c) =
        IF d.work.type \in {"POWER_ON", "POWER_OFF", "BLANK_SCREEN", "KEEPALIVE",
                            "REQUEST", "BUTTON"}
        THEN Send(d, FirstRequest(d.work.type)) ELSE Finish(d, "aborted")
  BY DEF Registered
<1> HIDE DEF d
<1>4. FirstRequest(d.work.type) \in Requests
  BY DEF FirstRequest, Requests
<1> QED
  BY <1>2, <1>3, <1>4, SendType, FinishType DEF Fates

\* onRead, for a display that has not paired.
LEMMA UnregisteredType ==
  ASSUME NEW c \in Client
  PROVE  Unregistered(c) \in Client
<1>1. [c EXCEPT !.key = FALSE] \in Client
  BY DEF Client
<1>2. [c EXCEPT !.wire = <<"register">> \o c.wire] \in Client
  <2>1. <<"register">> \o c.wire \in Seq(Requests)
    BY Fields DEF Requests
  <2> QED
    BY <2>1 DEF Client
<1>3. "register" \in Requests
  BY DEF Requests
<1> QED
  BY <1>1, <1>2, <1>3, SendType DEF Unregistered

\* onRead, for an error response.
LEMMA RejectType ==
  ASSUME NEW c \in Client, NEW r
  PROVE  Reject(c, r) \in Client
  BY ConcludeType, FinishType DEF Reject, Fates

\* onRead.
LEMMA OnReadType ==
  ASSUME NEW c \in Client, NEW a, c.wire # <<>>
  PROVE  OnRead(c, a) \in Client
<1> DEFINE d == [c EXCEPT !.status = "CONNECTED", !.wire = Tail(c.wire)]
<1>1. d \in Client
  <2>1. Tail(c.wire) \in Seq(Requests)
    BY Fields
  <2> QED
    BY <2>1 DEF Client
<1>2. OnRead(c, a) =
        CASE a = "error" -> Reject(d, Head(c.wire))
          [] a = "garbage" -> Finish(d, "aborted")
          [] a = "registered" -> Registered(d)
          [] a = "unregistered" -> Unregistered(d)
          [] OTHER -> Respond(d, Head(c.wire), a)
  BY DEF OnRead
<1> HIDE DEF d
<1>3. /\ Reject(d, Head(c.wire)) \in Client /\ Finish(d, "aborted") \in Client
      /\ Registered(d) \in Client /\ Unregistered(d) \in Client
      /\ Respond(d, Head(c.wire), a) \in Client
  BY <1>1, RejectType, FinishType, RegisteredType, UnregisteredType, RespondType DEF Fates
<1> QED
  BY <1>2, <1>3

-----------------------------------------------------------------------------
(* The inductive invariant, as a predicate on a client record.               *)

\* The unit in progress has attempts left while its retry timer is armed.
Attempts(c) ==
    /\ c.work.type # "REQUEST" => c.work.retry <= RetryLimit(c.work.type)
    /\ c.timer = "retry" => c.work.retry < MaxRetries
    /\ c.timer = "retry" /\ c.work.type # "REQUEST" => c.work.retry < RetryLimit(c.work.type)

Woken(c) == Waking(c.work) => c.wol

Linked(c) == c.status = "CONNECTED" => c.chain \in {"open", "closing", "closed", "failed"}

Holds(q, type) == \E i \in DOMAIN q : q[i].type = type

\* At most one unit of the queue is a power command.
OnePower(q) ==
    \A i, j \in DOMAIN q : q[i].type \in Power /\ q[j].type \in Power => i = j

\* A queued power command is the last one, still pending; a settled one left its mark.
Agreed(c) ==
    /\ OnePower(c.queue)
    /\ \A i \in DOMAIN c.queue : c.queue[i].type \in Power =>
         c.queue[i].type = c.intent /\ c.fate = "pending"
    /\ c.fate = "done" => c.poweredOn = (c.intent = "POWER_ON")

\* A power command in progress is the last one, or the last one is queued behind it.
Followed(c) ==
    c.work.type \in Power =>
      IF c.work.type = c.intent THEN \A i \in DOMAIN c.queue : c.queue[i].type \notin Power
      ELSE Holds(c.queue, c.intent)

\* A power command that is still to have its outcome is in progress or queued.
Kept(c) == c.fate = "pending" => c.work.type = c.intent \/ Holds(c.queue, c.intent)

Good(c) ==
    /\ c \in Client /\ Attempts(c) /\ Woken(c) /\ Linked(c)
    /\ Agreed(c) /\ Followed(c) /\ Kept(c)

\* Most members leave the work alone, keep a running wake loop running, do not arm the
\* retry timer and keep the status true to the stream.
Frame(c, d) ==
    /\ d \in Client
    /\ d.queue = c.queue /\ d.work = c.work /\ d.intent = c.intent /\ d.fate = c.fate
    /\ d.poweredOn = c.poweredOn
    /\ d.timer = "retry" => c.timer = "retry"
    /\ c.wol => d.wol
    /\ Linked(c) => Linked(d)

\* A member that leaves the work alone keeps the invariant.
LEMMA FrameGood ==
  ASSUME NEW c, NEW d, Good(c), Frame(c, d)
  PROVE  Good(d)
  BY DEF Good, Frame, Attempts, Woken, Agreed, Followed, Kept

\* Two such members one after the other are one.
LEMMA FrameTransitive ==
  ASSUME NEW c, NEW d, NEW e, Frame(c, d), Frame(d, e)
  PROVE  Frame(c, e)
  BY DEF Frame

\* send() is such a member,
LEMMA SendFrame ==
  ASSUME NEW c \in Client, NEW r \in Requests
  PROVE  Frame(c, Send(c, r))
<1> DEFINE w == Capped(c.writes + 1)
<1> DEFINE b == IF c.chain = "closing" THEN Capped(c.blocked + 1) ELSE c.blocked
<1> DEFINE q == IF c.chain = "open" /\ Len(c.wire) < MaxPending THEN Append(c.wire, r) ELSE c.wire
<1>1. Send(c, r) = [c EXCEPT !.writes = w, !.blocked = b, !.wire = q]
  BY DEF Send
<1>2. Send(c, r) \in Client
  BY SendType
<1> HIDE DEF w, b, q
<1> QED
  BY <1>1, <1>2 DEF Frame, Linked, Client

\* read() is,
LEMMA ReadFrame ==
  ASSUME NEW c \in Client
  PROVE  Frame(c, Read(c))
<1> DEFINE n == Capped(c.reads + 1)
<1>1. Read(c) = [c EXCEPT !.reads = n]
  BY DEF Read
<1>2. Read(c) \in Client
  BY ReadType
<1> HIDE DEF n
<1> QED
  BY <1>1, <1>2 DEF Frame, Linked, Client

\* run() is, and it leaves the timer armed or not,
LEMMA RunFrame ==
  ASSUME NEW c \in Client
  PROVE  Frame(c, Run(c)) /\ Run(c).timer = c.timer
<1> DEFINE s == Capped(c.stale + InFlight(c))
<1> DEFINE n == Capped(c.resolving + 1)
<1>1. Run(c) = [c EXCEPT !.status = "CONNECTING", !.chain = "fresh", !.wire = <<>>,
                         !.reads = 0, !.writes = 0, !.blocked = 0, !.closes = 0,
                         !.stale = s, !.resolving = n]
  BY DEF Run
<1>2. Run(c) \in Client
  BY RunType
<1> HIDE DEF s, n
<1> DEFINE d == Run(c)
<1>3. d.queue = c.queue /\ d.work = c.work /\ d.intent = c.intent
  BY <1>1 DEF Client
<1>4. d.fate = c.fate /\ d.poweredOn = c.poweredOn /\ d.timer = c.timer
  BY <1>1 DEF Client
<1>5. d.wol = c.wol /\ d.status = "CONNECTING"
  BY <1>1 DEF Client
<1> QED
  BY <1>2, <1>3, <1>4, <1>5 DEF Frame, Linked

\* waiting for the next look at the power state is,
LEMMA PollFrame ==
  ASSUME NEW c \in Client
  PROVE  Frame(c, ArmTimer(c, "poll"))
<1> DEFINE n == IF c.timer # "idle" THEN Capped(c.cancelled + 1) ELSE c.cancelled
<1>1. ArmTimer(c, "poll") = [c EXCEPT !.timer = "poll", !.cancelled = n]
  BY DEF ArmTimer
<1>2. ArmTimer(c, "poll") \in Client
  BY ArmTimerType
<1> HIDE DEF n
<1> QED
  BY <1>1, <1>2 DEF Frame, Linked, Client

\* waiting before a delayed request is,
LEMMA ArmDelayedFrame ==
  ASSUME NEW c \in Client
  PROVE  Frame(c, ArmDelayed(c))
<1> DEFINE a == IF c.delayed THEN Capped(c.cancelled + 1) ELSE c.cancelled
<1>1. ArmDelayed(c) = [c EXCEPT !.delayed = TRUE, !.cancelled = a]
  BY DEF ArmDelayed
<1>2. ArmDelayed(c) \in Client
  BY ArmDelayedType
<1> HIDE DEF a
<1> QED
  BY <1>1, <1>2 DEF Frame, Linked, Client

\* starting the wake loop is,
LEMMA RunWOLFrame ==
  ASSUME NEW c \in Client
  PROVE  Frame(c, RunWOL(c)) /\ RunWOL(c).wol
<1>1. RunWOL(c) \in Client
  BY RunWOLType
<1> QED
  BY <1>1 DEF Frame, Linked, Client, RunWOL

\* starting the close handshake is,
LEMMA StartCloseFrame ==
  ASSUME NEW c \in Client
  PROVE  Frame(c, StartClose(c))
<1> DEFINE n == Capped(c.closes + 1)
<1> DEFINE s == IF c.chain = "open" THEN "closing" ELSE c.chain
<1>1. StartClose(c) = IF c.status = "DISCONNECTED" THEN c
                      ELSE [c EXCEPT !.closes = n, !.chain = s]
  BY DEF StartClose
<1>2. StartClose(c) \in Client
  BY StartCloseType
<1>3. CASE c.status = "DISCONNECTED"
  BY <1>1, <1>3 DEF Frame
<1>4. CASE c.status # "DISCONNECTED"
  <2>1. StartClose(c) = [c EXCEPT !.closes = n, !.chain = s]
    BY <1>1, <1>4
  <2>2. c.chain \in {"open", "closing", "closed", "failed"} =>
          s \in {"open", "closing", "closed", "failed"}
    OBVIOUS
  <2> HIDE DEF n, s
  <2> QED
    BY <1>2, <2>1, <2>2 DEF Frame, Linked, Client
<1> QED
  BY <1>3, <1>4

\* and contacting the display is.
LEMMA ContactFrame ==
  ASSUME NEW c \in Client
  PROVE  Frame(c, Contact(c))
<1>1. FirstRequest(c.work.type) \in Requests
  BY DEF FirstRequest, Requests
<1> QED
  BY <1>1, SendFrame, RunFrame DEF Contact

-----------------------------------------------------------------------------
(* Ending units and starting others.                                         *)

\* What holds of a client between two units: nothing in progress, and the last power
\* command queued or settled.
Free(c) ==
    /\ c \in Client
    /\ c.work = NoWork
    /\ Linked(c)
    /\ Agreed(c)
    /\ Kept(c)

\* A client between two units satisfies the invariant.
LEMMA FreeGood ==
  ASSUME NEW c, Free(c)
  PROVE  Good(c)
  BY ClientAssumption
     DEF Free, Good, Attempts, Woken, Waking, Followed, NoWork, Power, RetryLimit, MaxRetries

\* How a power command may end.
Ends == Fates \ {"none", "pending"}

\* Throwing everything away.
LEMMA DiscardFree ==
  ASSUME NEW c \in Client, Linked(c), c.fate = "done" => c.poweredOn = (c.intent = "POWER_ON"),
         NEW outcome \in Ends, outcome # "done"
  PROVE  Free(Discard(c, outcome))
<1> DEFINE f == IF c.fate = "pending" THEN outcome ELSE c.fate
<1>1. Discard(c, outcome) = [c EXCEPT !.queue = <<>>, !.work = NoWork, !.fate = f]
  BY DEF Discard
<1>2. Discard(c, outcome) \in Client
  BY DiscardType DEF Ends
<1>3. (f = "done" => c.fate = "done") /\ f # "pending"
  BY DEF Fates, Ends
<1> HIDE DEF f
<1>4. /\ Discard(c, outcome).queue = <<>> /\ Discard(c, outcome).work = NoWork
      /\ Discard(c, outcome).fate = f /\ Discard(c, outcome).intent = c.intent
      /\ Discard(c, outcome).poweredOn = c.poweredOn
      /\ Discard(c, outcome).status = c.status /\ Discard(c, outcome).chain = c.chain
  BY <1>1 DEF Client
<1>5. DOMAIN <<>> = {}
  OBVIOUS
<1> QED
  BY <1>2, <1>3, <1>4, <1>5 DEF Free, Linked, Agreed, OnePower, Kept

\* doClose() ends in a good client: what it clears is settled.
LEMMA DoCloseGood ==
  ASSUME NEW c \in Client, Linked(c), c.fate = "done" => c.poweredOn = (c.intent = "POWER_ON"),
         NEW outcome \in Ends, outcome # "done"
  PROVE  Good(DoClose(c, outcome))
<1>1. Good(Discard(c, outcome))
  BY DiscardFree, FreeGood
<1> QED
  BY <1>1, StartCloseFrame, FrameGood DEF DoClose, Good

\* A power-on is not yet awake when Begin takes it up: Begin itself sees to that.
LEMMA BeginGood ==
  ASSUME NEW c \in Client, Attempts(c), Linked(c), Agreed(c), Followed(c), Kept(c)
  PROVE  Good(Begin(c))
<1>1. CASE c.work.type = "REQUEST_DELAYED"
  <2>1. Good(c)
    BY <1>1 DEF Good, Woken, Waking
  <2> QED
    BY <1>1, <2>1, ArmDelayedFrame, FrameGood DEF Begin
<1>2. CASE c.work.type = "CLOSE"
  <2>1. Good(DoClose(c, "closed"))
    BY DoCloseGood DEF Agreed, Fates, Ends
  <2> QED
    BY <1>2, <2>1 DEF Begin
<1>3. CASE c.work.type = "POWER_ON"
  <2> DEFINE d == Contact(c)
  <2>1. Frame(c, d) /\ d \in Client
    BY ContactFrame DEF Frame
  <2>2. Frame(d, RunWOL(d)) /\ RunWOL(d).wol
    BY <2>1, RunWOLFrame
  <2>3. Begin(c) = RunWOL(d)
    BY <1>3 DEF Begin, BeginPowerOn
  <2> HIDE DEF d
  <2>4. Frame(c, RunWOL(d))
    BY <2>1, <2>2, FrameTransitive
  <2> QED
    BY <2>2, <2>3, <2>4 DEF Good, Frame, Attempts, Woken, Agreed, Followed, Kept
<1>4. CASE c.work.type \notin {"REQUEST_DELAYED", "CLOSE", "POWER_ON"}
  <2>1. Good(c)
    BY <1>4 DEF Good, Woken, Waking
  <2> QED
    BY <1>4, <2>1, ContactFrame, FrameGood DEF Begin
<1> QED
  BY <1>1, <1>2, <1>3, <1>4

\* startNextWork with an empty queue keeps a client good.
LEMMA RestGood ==
  ASSUME NEW c, Free(c)
  PROVE  Good(Rest(c))
<1>1. Good(c) /\ c \in Client
  BY FreeGood DEF Good
<1>2. Good([c EXCEPT !.keepAlive = TRUE]) /\ Good([c EXCEPT !.closeTimer = TRUE])
  <2>1. Frame(c, [c EXCEPT !.keepAlive = TRUE]) /\ Frame(c, [c EXCEPT !.closeTimer = TRUE])
    BY <1>1 DEF Frame, Linked, Client
  <2> QED
    BY <1>1, <2>1, FrameGood
<1>3. Good(DoClose(c, "dropped"))
  BY DoCloseGood DEF Free, Agreed, Fates, Ends
<1> QED
  BY <1>1, <1>2, <1>3 DEF Rest


\* A member that leaves the work alone leaves a client between two units.
LEMMA FrameFree ==
  ASSUME NEW c, NEW d, Free(c), Frame(c, d)
  PROVE  Free(d)
  BY DEF Free, Frame, Agreed, Kept

\* A unit that counts as done has left the power state it was to reach.
Reached(c, outcome) ==
    outcome = "done" /\ c.work.type \in Power => c.poweredOn = (c.work.type = "POWER_ON")

\* A unit ends: what it was asked for is settled unless it is still to come.
LEMMA SettleFree ==
  ASSUME NEW c \in Client, Linked(c), Agreed(c), Followed(c), Kept(c),
         NEW outcome \in Ends, Reached(c, outcome)
  PROVE  Free([Settle(c, outcome) EXCEPT !.work = NoWork])
<1>1. CASE c.fate = "pending" /\ c.work.type = c.intent
  <2> DEFINE d == [c EXCEPT !.fate = outcome, !.work = NoWork]
  <2>1. c.work.type \in Power
    BY <1>1, Fields DEF Work, WorkTypes
  <2>2. \A i \in DOMAIN c.queue : c.queue[i].type \notin Power
    BY <1>1, <2>1 DEF Followed
  <2>3. d \in Client
    BY NoWorkType DEF Client, Fates, Ends
  <2>4. /\ d.queue = c.queue /\ d.work = NoWork /\ d.fate = outcome /\ d.intent = c.intent
        /\ d.poweredOn = c.poweredOn /\ d.status = c.status /\ d.chain = c.chain
    BY DEF Client
  <2>5. [Settle(c, outcome) EXCEPT !.work = NoWork] = d
    BY <1>1 DEF Settle
  <2> HIDE DEF d
  <2>6. Free(d)
    BY <1>1, <2>1, <2>2, <2>3, <2>4 DEF Free, Linked, Agreed, OnePower, Reached, Kept, Fates, Ends
  <2> QED
    BY <2>5, <2>6
<1>2. CASE ~(c.fate = "pending" /\ c.work.type = c.intent)
  <2> DEFINE d == [c EXCEPT !.work = NoWork]
  <2>1. d \in Client
    BY NoWorkType DEF Client
  <2>2. /\ d.queue = c.queue /\ d.work = NoWork /\ d.fate = c.fate /\ d.intent = c.intent
        /\ d.poweredOn = c.poweredOn /\ d.status = c.status /\ d.chain = c.chain
    BY DEF Client
  <2>3. [Settle(c, outcome) EXCEPT !.work = NoWork] = d
    BY <1>2 DEF Settle
  <2> HIDE DEF d
  <2>4. Free(d)
    BY <1>2, <2>1, <2>2 DEF Free, Linked, Agreed, Kept
  <2> QED
    BY <2>3, <2>4
<1> QED
  BY <1>1, <1>2

\* The back of the queue, from some unit on.
LEMMA BackOfQueue ==
  ASSUME NEW q \in Seq(Command), NEW k \in Nat, k < Len(q)
  PROVE  /\ DOMAIN SubSeq(q, k + 2, Len(q)) = 1 .. Len(q) - (k + 1)
         /\ \A i \in 1 .. Len(q) - (k + 1) : /\ SubSeq(q, k + 2, Len(q))[i] = q[k + 1 + i]
                                             /\ k + 1 + i \in DOMAIN q
                                             /\ k + 1 + i # k + 1
         /\ k + 1 \in DOMAIN q
<1>1. Len(q) \in Nat /\ DOMAIN q = 1 .. Len(q)
  OBVIOUS
<1>2. k + 2 \in Int /\ Len(q) \in Int
  BY <1>1
<1>3. \A i \in k + 2 .. Len(q) : q[i] \in Command
  BY <1>1
<1>4. /\ SubSeq(q, k + 2, Len(q)) \in Seq(Command)
      /\ Len(SubSeq(q, k + 2, Len(q))) = Len(q) - (k + 1)
      /\ \A i \in 1 .. Len(q) - (k + 1) : SubSeq(q, k + 2, Len(q))[i] = q[k + 1 + i]
  <2> DEFINE t == SubSeq(q, k + 2, Len(q))
  <2>1. /\ t \in Seq(Command)
        /\ Len(t) = IF k + 2 <= Len(q) THEN Len(q) - (k + 2) + 1 ELSE 0
        /\ \A i \in 1 .. Len(q) - (k + 2) + 1 : t[i] = q[k + 2 + i - 1]
    BY <1>2, <1>3, SubSeqProperties
  <2> HIDE DEF t
  <2>2. Len(t) = Len(q) - (k + 1)
    BY <1>1, <2>1
  <2>3. \A i \in 1 .. Len(q) - (k + 1) : t[i] = q[k + 1 + i]
    <3>1. Len(q) - (k + 2) + 1 = Len(q) - (k + 1)
      BY <1>1
    <3>2. \A i \in 1 .. Len(q) - (k + 1) : k + 2 + i - 1 = k + 1 + i
      BY <1>1
    <3> QED
      BY <2>1, <3>1, <3>2
  <2>4. t \in Seq(Command) /\ Len(t) = Len(q) - (k + 1)
          /\ \A i \in 1 .. Len(q) - (k + 1) : t[i] = q[k + 1 + i]
    BY <2>1, <2>2, <2>3
  <2> QED
    BY <2>4 DEF t
<1> DEFINE t == SubSeq(q, k + 2, Len(q))
<1>5. DOMAIN t = 1 .. Len(t)
  <2>1. t \in Seq(Command)
    BY <1>4
  <2> HIDE DEF t
  <2> QED
    BY <2>1
<1>6. \A i \in 1 .. Len(q) - (k + 1) : k + 1 + i \in 1 .. Len(q) /\ k + 1 + i # k + 1
  BY <1>1
<1>7. k + 1 \in 1 .. Len(q)
  BY <1>1
<1> QED
  BY <1>1, <1>4, <1>5, <1>6, <1>7

\* The units that startNextWork finishes on the spot are not power commands, so none of
\* them is the one asked for last.
LEMMA SkippedIsOrdinary ==
  ASSUME NEW c \in Client
  PROVE  \A i \in DOMAIN c.queue : i <= Skip(c) => c.queue[i].type # c.intent
<1>1. c.queue \in Seq(Command) /\ c.intent \in Power \cup {"NONE"}
  BY Fields
<1>2. \A i \in DOMAIN c.queue : i <= Skip(c) => Instant(c, c.queue[i])
  <2>1. DOMAIN c.queue = 1 .. Len(c.queue)
    BY <1>1
  <2> QED
    BY <1>1, <2>1, SkipStops
<1> QED
  BY <1>1, <1>2 DEF Instant, Power

\* startNextWork takes up a unit, or has nothing to do.
LEMMA DispatchGood ==
  ASSUME NEW c, Free(c)
  PROVE  Good(Dispatch(c))
<1>1. c \in Client /\ c.queue \in Seq(Command)
  BY Fields DEF Free
<1>2. CASE c.status = "CONNECTING"
  <2>1. Good(DoClose(c, "dropped"))
    BY DoCloseGood DEF Free, Agreed, Fates, Ends
  <2> QED
    BY <1>2, <2>1 DEF Dispatch
<1>3. CASE c.status # "CONNECTING" /\ Skip(c) = Len(c.queue)
  <2> DEFINE d == [c EXCEPT !.queue = <<>>]
  <2>1. <<>> \in Seq(Command) /\ DOMAIN <<>> = {}
    OBVIOUS
  <2>2. d \in Client
    BY <1>1, <2>1 DEF Client
  <2>3. /\ d.queue = <<>> /\ d.work = c.work /\ d.fate = c.fate /\ d.intent = c.intent
        /\ d.poweredOn = c.poweredOn /\ d.status = c.status /\ d.chain = c.chain
    BY <1>1 DEF Client
  <2>4. Dispatch(c) = Rest(d)
    BY <1>3 DEF Dispatch
  <2> HIDE DEF d
  <2>5. c.fate # "pending"
    <3>1. \A i \in DOMAIN c.queue : c.queue[i].type # c.intent
      BY <1>1, <1>3, SkippedIsOrdinary
    <3> QED
      BY <1>1, <3>1, Fields DEF Free, Kept, Holds, NoWork, Power
  <2>6. Free(d)
    BY <2>1, <2>2, <2>3, <2>5 DEF Free, Linked, Agreed, OnePower, Kept
  <2> QED
    BY <2>4, <2>6, RestGood
<1>4. CASE c.status # "CONNECTING" /\ Skip(c) # Len(c.queue)
  <2> DEFINE k == Skip(c)
  <2> DEFINE u == c.queue[k + 1]
  <2> DEFINE rest == SubSeq(c.queue, k + 2, Len(c.queue))
  <2> DEFINE first == Started(u)
  <2> DEFINE d == [c EXCEPT !.work = first, !.queue = rest]
  <2>1. u \in Command /\ first \in Work /\ rest \in Seq(Command)
    BY <1>1, <1>4, NextUnit, StartedType
  <2>2. /\ k \in Nat /\ k < Len(c.queue)
        /\ \A i \in DOMAIN c.queue : i <= k => c.queue[i].type # c.intent
    <3>1. Len(c.queue) \in Nat /\ k \in 0 .. Len(c.queue)
      BY <1>1, SkipStops
    <3> QED
      BY <1>1, <1>4, <3>1, SkippedIsOrdinary
  <2>3. Dispatch(c) = Begin(d)
    BY <1>4 DEF Dispatch
  <2> HIDE DEF k
  <2>4. /\ \A i \in DOMAIN rest : \E j \in DOMAIN c.queue : rest[i] = c.queue[j] /\ j # k + 1
        /\ \A i, j \in DOMAIN rest : \E m, n \in DOMAIN c.queue :
             rest[i] = c.queue[m] /\ rest[j] = c.queue[n] /\ (m = n => i = j)
        /\ k + 1 \in DOMAIN c.queue
        /\ \A i \in DOMAIN c.queue : i <= k \/ i = k + 1 \/ \E j \in DOMAIN rest : rest[j] = c.queue[i]
    <3>1. Len(c.queue) \in Nat /\ DOMAIN c.queue = 1 .. Len(c.queue)
      BY <1>1
    <3>4. \A i \in 1 .. Len(c.queue) : i <= k \/ i = k + 1 \/
            (i - (k + 1) \in 1 .. Len(c.queue) - (k + 1) /\ k + 1 + (i - (k + 1)) = i)
      BY <2>2, <3>1
    <3>2. \A i, j \in 1 .. Len(c.queue) - (k + 1) : k + 1 + i = k + 1 + j => i = j
      BY <2>2, <3>1
    <3>3. /\ DOMAIN rest = 1 .. Len(c.queue) - (k + 1)
          /\ \A i \in 1 .. Len(c.queue) - (k + 1) :
               rest[i] = c.queue[k + 1 + i] /\ k + 1 + i \in DOMAIN c.queue /\ k + 1 + i # k + 1
          /\ k + 1 \in DOMAIN c.queue
      BY <1>1, <2>2, BackOfQueue
    <3> HIDE DEF rest
    <3>5. \A i \in DOMAIN c.queue : i <= k \/ i = k + 1 \/ \E j \in DOMAIN rest : rest[j] = c.queue[i]
      BY <3>1, <3>3, <3>4
    <3> QED
      BY <3>2, <3>3, <3>5
  <2>5. first.retry = 0 /\ first.type = u.type
    BY DEF Started
  <2>6. u = c.queue[k + 1]
    OBVIOUS
  <2> HIDE DEF rest, first, u
  <2>7. d \in Client
    BY <1>1, <2>1 DEF Client
  <2>8. /\ d.queue = rest /\ d.work = first /\ d.fate = c.fate /\ d.intent = c.intent
        /\ d.poweredOn = c.poweredOn /\ d.status = c.status /\ d.chain = c.chain
    BY <1>1 DEF Client
  <2> HIDE DEF d
  <2>9. Attempts(d)
    BY <2>5, <2>8, ClientAssumption DEF Attempts, RetryLimit, MaxRetries
  <2>10. Linked(d)
    BY <2>8 DEF Free, Linked
  <2>11. Agreed(d)
    BY <2>4, <2>8 DEF Free, Agreed, OnePower
  <2>12. Followed(d)
    BY <2>4, <2>5, <2>6, <2>8 DEF Free, Agreed, OnePower, Followed
  <2>13. Kept(d)
    <3> SUFFICES ASSUME d.fate = "pending", d.work.type # d.intent PROVE Holds(d.queue, d.intent)
      BY DEF Kept
    <3>1. PICK i \in DOMAIN c.queue : c.queue[i].type = c.intent
      BY <1>1, <2>8, Fields DEF Free, Kept, Holds, NoWork, Power
    <3>2. i # k + 1
      BY <2>5, <2>6, <2>8, <3>1
    <3> QED
      BY <2>2, <2>4, <2>8, <3>1, <3>2 DEF Holds
  <2> QED
    BY <2>3, <2>7, <2>9, <2>10, <2>11, <2>12, <2>13, BeginGood
<1> QED
  BY <1>2, <1>3, <1>4

\* startNextWork: a lingering unit is settled before the next one is taken up.
LEMMA StartNextWorkGood ==
  ASSUME NEW c \in Client, Linked(c), Agreed(c), Followed(c),
         Kept(c), c.work.age # "lingering" => Good(c)
  PROVE  Good(StartNextWork(c))
<1> DEFINE d == [Settle(c, "lingered") EXCEPT !.work = NoWork]
<1> DEFINE e == [Settle(c, "lingered") EXCEPT !.work = NoWork, !.keepAlive = FALSE]
<1>1. Free(d)
  BY SettleFree DEF Reached, Fates, Ends
<1>2. e = [d EXCEPT !.keepAlive = FALSE]
  BY DEF Settle
<1> HIDE DEF d, e
<1>3. Frame(d, [d EXCEPT !.keepAlive = FALSE])
  <2>1. d \in Client
    BY <1>1 DEF Free
  <2>2. [d EXCEPT !.keepAlive = FALSE] \in Client
    BY <2>1 DEF Client
  <2> QED
    BY <2>1, <2>2 DEF Frame, Linked, Client
<1>4. Good(Dispatch(e))
  BY <1>1, <1>2, <1>3, FrameFree, DispatchGood
<1> QED
  BY <1>4 DEF StartNextWork, e

\* workIsFinished ends a unit in any outcome that is true of it.
LEMMA FinishGood ==
  ASSUME NEW c \in Client, Linked(c), Agreed(c), Followed(c), Kept(c),
         NEW outcome \in Ends, Reached(c, outcome)
  PROVE  Good(Finish(c, outcome))
<1> DEFINE d == [Settle(c, outcome) EXCEPT !.work = NoWork]
<1>1. Free(d)
  BY SettleFree
<1>2. Finish(c, outcome) = StartNextWork(d)
  BY DEF Finish
<1> HIDE DEF d
<1> QED
  BY <1>1, <1>2, FreeGood, StartNextWorkGood DEF Good

-----------------------------------------------------------------------------
(* Work is enqueued.                                                         *)

\* Without leaves no two power commands where there was one.
LEMMA WithoutOnePower ==
  ASSUME NEW q \in Seq(Command), NEW T, OnePower(q)
  PROVE  OnePower(Without(q, T))
<1>1. PICK g : /\ \A i \in 0 .. Len(q) : g[i] = KeptBody(q, T, g, i)
               /\ Without(q, T) = g[Len(q)]
  BY WithoutSolves
<1> DEFINE Right(n) ==
      /\ g[n] \in Seq(Command)
      /\ \A j \in DOMAIN g[n] : \E i \in 1 .. n : g[n][j] = q[i]
      /\ OnePower(g[n])
<1> DEFINE S == {n \in 0 .. Len(q) : Right(n)}
<1>2. Len(q) \in Nat /\ DOMAIN q = 1 .. Len(q)
  OBVIOUS
<1>3. 0 \in S
  <2>1. g[0] = <<>>
    BY <1>1, <1>2 DEF KeptBody
  <2>2. g[0] \in Seq(Command) /\ DOMAIN g[0] = {}
    BY <2>1
  <2> QED
    BY <2>2, <1>2 DEF OnePower
<1>4. ASSUME NEW n \in 0 .. Len(q), n < Len(q), n \in S PROVE n + 1 \in S
  <2>1. Right(n)
    BY <1>4
  <2>2. g[n + 1] = IF q[n + 1].type \in T THEN g[n] ELSE Append(g[n], q[n + 1])
    <3>1. n + 1 \in 0 .. Len(q) /\ (n + 1) - 1 = n /\ n + 1 # 0
      BY <1>2, <1>4
    <3> QED
      BY <1>1, <3>1 DEF KeptBody
  <2>3. /\ q[n + 1] \in Command /\ n + 1 \in 0 .. Len(q) /\ n + 1 \in DOMAIN q
        /\ \A i \in 1 .. n : i \in 1 .. n + 1 /\ i \in DOMAIN q /\ i # n + 1
        /\ n + 1 \in 1 .. n + 1
    BY <1>2, <1>4
  <2>4. CASE q[n + 1].type \in T
    <3>1. g[n + 1] = g[n]
      BY <2>2, <2>4
    <3> QED
      BY <2>1, <2>3, <2>4, <3>1
  <2>5. CASE q[n + 1].type \notin T
    <3> DEFINE old == g[n]
    <3>1. g[n + 1] = Append(old, q[n + 1])
      BY <2>2, <2>5
    <3>2. old \in Seq(Command)
      BY <2>1
    <3>3. /\ g[n + 1] \in Seq(Command)
          /\ DOMAIN g[n + 1] = 1 .. Len(old) + 1
          /\ \A j \in 1 .. Len(old) : g[n + 1][j] = old[j]
          /\ g[n + 1][Len(old) + 1] = q[n + 1]
          /\ Len(old) \in Nat
          /\ DOMAIN old = 1 .. Len(old)
      BY <3>1, <3>2, <2>3
    <3>4. \A j \in DOMAIN g[n + 1] : j \in DOMAIN old \/ j = Len(old) + 1
      BY <3>3
    <3>5. (\A j \in DOMAIN old : \E i \in 1 .. n : old[j] = q[i]) /\ OnePower(old)
      BY <2>1
    <3> HIDE DEF old
    <3>6. \A j \in DOMAIN g[n + 1] : \E i \in 1 .. n + 1 : g[n + 1][j] = q[i]
      BY <3>3, <3>4, <3>5, <2>3
    <3>7. OnePower(g[n + 1])
      <4>1. ASSUME NEW j \in DOMAIN old, g[n + 1][j].type \in Power,
                   g[n + 1][Len(old) + 1].type \in Power
            PROVE  FALSE
        <5>1. PICK i \in 1 .. n : old[j] = q[i]
          BY <3>5
        <5>2. i \in DOMAIN q /\ i # n + 1 /\ n + 1 \in DOMAIN q
          BY <2>3
        <5> QED
          BY <1>2, <3>3, <4>1, <5>1, <5>2 DEF OnePower
      <4> QED
        BY <3>3, <3>4, <3>5, <4>1 DEF OnePower
    <3> QED
      BY <3>3, <3>6, <3>7, <2>3
  <2> QED
    BY <2>4, <2>5
<1> HIDE DEF S
<1>5. 0 .. Len(q) \subseteq S
  BY <1>2, <1>3, <1>4, UpTo
<1>6. Right(Len(q))
  BY <1>2, <1>5 DEF S
<1> QED
  BY <1>1, <1>6

\* The intent of a call is noted before the queue is changed.
Noted(c, u) ==
    IF u.type \in Power THEN [c EXCEPT !.intent = u.type, !.fate = "pending"] ELSE c

\* Noting an intent changes nothing of the program.
LEMMA NotedFields ==
  ASSUME NEW c \in Client, NEW u \in Command
  PROVE  /\ Noted(c, u) \in Client
         /\ Noted(c, u).queue = c.queue /\ Noted(c, u).work = c.work
         /\ Noted(c, u).poweredOn = c.poweredOn /\ Noted(c, u).status = c.status
         /\ Noted(c, u).chain = c.chain /\ Noted(c, u).timer = c.timer
         /\ Noted(c, u).wol = c.wol
         /\ u.type \in Power => Noted(c, u).intent = u.type /\ Noted(c, u).fate = "pending"
         /\ u.type \notin Power => Noted(c, u) = c
<1>1. CASE u.type \in Power
  <2> DEFINE d == [c EXCEPT !.intent = u.type, !.fate = "pending"]
  <2>1. /\ d \in Client
        /\ d.queue = c.queue /\ d.work = c.work /\ d.poweredOn = c.poweredOn
        /\ d.status = c.status /\ d.chain = c.chain /\ d.timer = c.timer /\ d.wol = c.wol
        /\ d.intent = u.type /\ d.fate = "pending"
    BY <1>1 DEF Client
  <2>2. Noted(c, u) = d
    BY <1>1 DEF Noted
  <2> HIDE DEF d
  <2> QED
    BY <1>1, <2>1, <2>2
<1>2. CASE u.type \notin Power
  BY <1>2 DEF Noted
<1> QED
  BY <1>1, <1>2

\* A unit that goes into the queue leaves it without a contradicting power command.
LEMMA PushGood ==
  ASSUME NEW c, Good(c), NEW u \in Command, ~InProgress(c, u)
  PROVE  Good(Push(Noted(c, u), u))
<1> DEFINE d == Noted(c, u)
<1> DEFINE kept == Without(d.queue, Superseded(u))
<1> DEFINE q == Append(kept, u)
<1> DEFINE e == [d EXCEPT !.queue = q]
<1>1. c \in Client /\ c.queue \in Seq(Command)
  BY Fields DEF Good
<1>2. /\ d \in Client /\ d.queue = c.queue /\ d.work = c.work
      /\ d.poweredOn = c.poweredOn /\ d.status = c.status /\ d.chain = c.chain
      /\ d.timer = c.timer /\ d.wol = c.wol
      /\ u.type \in Power => d.intent = u.type /\ d.fate = "pending"
      /\ u.type \notin Power => d = c
  BY <1>1, NotedFields
<1>3. Push(d, u) = e
  BY DEF Push
<1>4. Push(d, u) \in Client
  BY <1>2, PushType
<1>11. Push(Noted(c, u), u) = e /\ e \in Client
  BY <1>3, <1>4
<1> HIDE DEF d
<1>5. /\ kept \in Seq(Command)
      /\ \A j \in DOMAIN kept : \E i \in DOMAIN c.queue :
           kept[j] = c.queue[i] /\ c.queue[i].type \notin Superseded(u)
      /\ \A i \in DOMAIN c.queue : c.queue[i].type \notin Superseded(u) =>
           \E j \in DOMAIN kept : kept[j] = c.queue[i]
      /\ OnePower(kept)
  <2>1. OnePower(c.queue)
    BY DEF Good, Agreed
  <2>2. kept = Without(c.queue, Superseded(u))
    BY <1>2
  <2> HIDE DEF kept
  <2>3. OnePower(kept)
    BY <1>1, <2>1, <2>2, WithoutOnePower
  <2> QED
    BY <1>1, <2>2, <2>3, WithoutUnits
<1>6. /\ DOMAIN q = 1 .. Len(kept) + 1 /\ DOMAIN kept = 1 .. Len(kept)
      /\ \A j \in DOMAIN kept : j \in DOMAIN q /\ q[j] = kept[j] /\ j # Len(kept) + 1
      /\ Len(kept) + 1 \in DOMAIN q /\ q[Len(kept) + 1] = u
      /\ \A j \in DOMAIN q : j \in DOMAIN kept \/ j = Len(kept) + 1
  <2>1. kept \in Seq(Command) /\ q = Append(kept, u)
    BY <1>5
  <2> HIDE DEF kept, q
  <2>2. Len(kept) \in Nat
    BY <2>1
  <2>3. /\ DOMAIN q = 1 .. Len(kept) + 1 /\ DOMAIN kept = 1 .. Len(kept)
        /\ \A j \in 1 .. Len(kept) : q[j] = kept[j]
        /\ q[Len(kept) + 1] = u
    BY <2>1
  <2> QED
    BY <2>2, <2>3
<1> HIDE DEF kept, q
<1>7. /\ e.queue = q /\ e.work = c.work /\ e.poweredOn = c.poweredOn /\ e.status = c.status
      /\ e.chain = c.chain /\ e.timer = c.timer /\ e.wol = c.wol
      /\ e.intent = d.intent /\ e.fate = d.fate
  BY <1>2 DEF Client
<1> HIDE DEF e
<1>8. Attempts(e) /\ Woken(e) /\ Linked(e)
  BY <1>7 DEF Good, Attempts, Woken, Linked
<1>9. CASE u.type \in Power
  <2>1. \A j \in DOMAIN kept : kept[j].type \notin Power
    <3>1. Superseded(u) = Power
      BY <1>9 DEF Superseded, Power
    <3> QED
      BY <1>5, <3>1
  <2>2. Agreed(e)
    BY <1>2, <1>6, <1>7, <1>9, <2>1 DEF Agreed, OnePower
  <2>3. Followed(e)
    <3>1. c.work.type # u.type
      BY <1>9 DEF InProgress
    <3> QED
      BY <1>2, <1>6, <1>7, <1>9, <3>1 DEF Followed, Holds
  <2>4. Kept(e)
    BY <1>2, <1>6, <1>7, <1>9 DEF Kept, Holds
  <2> QED
    BY <1>11, <1>8, <2>2, <2>3, <2>4 DEF Good
<1>10. CASE u.type \notin Power
  <2>1. Superseded(u) \cap Power = {}
    BY <1>10 DEF Superseded, Power
  <2>2. e.intent = c.intent /\ e.fate = c.fate
    BY <1>2, <1>7, <1>10
  <2>3. Agreed(e)
    BY <1>5, <1>6, <1>7, <1>10, <2>2 DEF Good, Agreed, OnePower
  <2>4. Holds(c.queue, c.intent) => Holds(q, c.intent)
    <3> SUFFICES ASSUME NEW i \in DOMAIN c.queue, c.queue[i].type = c.intent
                 PROVE  Holds(q, c.intent)
      BY DEF Holds
    <3>1. c.intent \in Power
      <4>1. c.queue[i] \in Command
        BY <1>1
      <4> QED
        BY <1>1, <4>1, Fields DEF Command, WorkTypes
    <3>2. PICK j \in DOMAIN kept : kept[j] = c.queue[i]
      BY <1>5, <2>1, <3>1
    <3> QED
      BY <1>6, <3>2 DEF Holds
  <2>5. Followed(e)
    BY <1>5, <1>6, <1>7, <1>10, <2>2, <2>4 DEF Good, Followed
  <2>6. Kept(e)
    BY <1>7, <2>2, <2>4 DEF Good, Kept
  <2> QED
    BY <1>11, <1>8, <2>3, <2>5, <2>6 DEF Good
<1> QED
  BY <1>9, <1>10

\* enqueueWork keeps a client good.
LEMMA EnqueueGood ==
  ASSUME NEW c, Good(c), NEW u \in Command
  PROVE  Good(Enqueue(c, u))
<1> DEFINE d == Noted(c, u)
<1>1. c \in Client /\ c.queue \in Seq(Command)
  BY Fields DEF Good
<1>2. Enqueue(c, u) = IF ~InProgress(c, u) THEN StartNextWork(Push(d, u))
                      ELSE IF u.type \in Power
                      THEN [d EXCEPT !.queue = Without(d.queue, Power)] ELSE d
  BY DEF Enqueue, Noted
<1>3. CASE ~InProgress(c, u)
  <2>1. Good(Push(d, u))
    BY <1>3, PushGood
  <2> QED
    BY <1>2, <1>3, <2>1, StartNextWorkGood DEF Good
<1>4. CASE InProgress(c, u) /\ u.type \in Power
  <2> DEFINE q == Without(d.queue, Power)
  <2> DEFINE e == [d EXCEPT !.queue = q]
  <2>1. /\ d \in Client /\ d.queue = c.queue /\ d.work = c.work
        /\ d.poweredOn = c.poweredOn /\ d.status = c.status /\ d.chain = c.chain
        /\ d.timer = c.timer /\ d.wol = c.wol
        /\ d.intent = u.type /\ d.fate = "pending"
    BY <1>1, <1>4, NotedFields
  <2> HIDE DEF d
  <2>2. /\ q \in Seq(Command)
        /\ \A j \in DOMAIN q : \E i \in DOMAIN c.queue : q[j] = c.queue[i] /\ c.queue[i].type \notin Power
    <3>1. q = Without(c.queue, Power)
      BY <2>1
    <3>2. /\ Without(c.queue, Power) \in Seq(Command)
          /\ \A j \in DOMAIN Without(c.queue, Power) : \E i \in DOMAIN c.queue :
               Without(c.queue, Power)[j] = c.queue[i] /\ c.queue[i].type \notin Power
      BY <1>1, WithoutUnits
    <3> HIDE DEF q
    <3> QED
      BY <3>1, <3>2
  <2> HIDE DEF q
  <2>3. /\ e \in Client
        /\ e.queue = q /\ e.work = c.work /\ e.poweredOn = c.poweredOn /\ e.status = c.status
        /\ e.chain = c.chain /\ e.timer = c.timer /\ e.wol = c.wol
        /\ e.intent = u.type /\ e.fate = "pending"
    BY <2>1, <2>2 DEF Client
  <2> HIDE DEF e
  <2>4. \A j \in DOMAIN q : q[j].type \notin Power
    BY <2>2
  <2>5. Attempts(e) /\ Woken(e) /\ Linked(e)
    BY <2>3 DEF Good, Attempts, Woken, Linked
  <2>6. Agreed(e)
    BY <2>3, <2>4 DEF Agreed, OnePower
  <2>7. Followed(e)
    BY <1>4, <2>3, <2>4 DEF Followed, InProgress
  <2>9. Kept(e)
    BY <1>4, <2>3 DEF Kept, InProgress
  <2>8. Enqueue(c, u) = e
    BY <1>2, <1>4 DEF e, q
  <2> QED
    BY <2>3, <2>5, <2>6, <2>7, <2>8, <2>9 DEF Good
<1>5. CASE InProgress(c, u) /\ u.type \notin Power
  <2>1. Enqueue(c, u) = c
    BY <1>2, <1>5 DEF Noted
  <2> QED
    BY <2>1
<1> QED
  BY <1>3, <1>4, <1>5

-----------------------------------------------------------------------------
(* Failures and answers.                                                     *)

\* Losing the status leaves the work alone.
LEMMA DisconnectedFrame ==
  ASSUME NEW c \in Client
  PROVE  Frame(c, [c EXCEPT !.status = "DISCONNECTED"])
<1>1. [c EXCEPT !.status = "DISCONNECTED"] \in Client
  BY DisconnectedType
<1> QED
  BY <1>1 DEF Frame, Linked, Client

\* A retry is armed for a unit with attempts left, and for no other.
LEMMA RetryGood ==
  ASSUME NEW c, Good(c), MayRetry(c)
  PROVE  Good(ArmTimer(c, "retry"))
<1> DEFINE n == IF c.timer # "idle" THEN Capped(c.cancelled + 1) ELSE c.cancelled
<1> DEFINE d == ArmTimer(c, "retry")
<1>1. d = [c EXCEPT !.timer = "retry", !.cancelled = n]
  BY DEF ArmTimer
<1>2. c \in Client /\ d \in Client
  BY ArmTimerType DEF Good
<1> HIDE DEF n, d
<1>3. /\ d.queue = c.queue /\ d.work = c.work /\ d.intent = c.intent /\ d.fate = c.fate
      /\ d.poweredOn = c.poweredOn /\ d.status = c.status /\ d.chain = c.chain
      /\ d.wol = c.wol
  BY <1>1, <1>2 DEF Client
<1>4. c.work.retry < RetryLimit(c.work.type) /\ c.work.retry < MaxRetries
  <2>1. RetryLimit(c.work.type) <= MaxRetries
    BY ClientAssumption DEF RetryLimit, MaxRetries
  <2>2. /\ c.work.retry \in Nat /\ RetryLimit(c.work.type) \in Nat /\ MaxRetries \in Nat
    BY <1>2, Fields, ClientAssumption DEF RetryLimit, MaxRetries, Work
  <2> QED
    BY <2>1, <2>2 DEF MayRetry
<1>5. Attempts(d)
  BY <1>3, <1>4 DEF Good, Attempts
<1>6. Woken(d) /\ Linked(d) /\ Agreed(d) /\ Followed(d) /\ Kept(d)
  BY <1>3 DEF Good, Woken, Linked, Agreed, Followed, Kept
<1> QED
  BY <1>2, <1>5, <1>6 DEF Good, d

\* onError keeps a client good.
LEMMA OnErrorGood ==
  ASSUME NEW c, Good(c)
  PROVE  Good(OnError(c))
<1> DEFINE d == [c EXCEPT !.status = "DISCONNECTED"]
<1>1. Good(d)
  BY DisconnectedFrame, FrameGood DEF Good
<1> HIDE DEF d
<1>2. /\ Good(Finish(c, "aborted")) /\ Good(Finish(d, "gaveup")) /\ Good(Finish(d, "aborted"))
      /\ MayRetry(c) => Good(ArmTimer(c, "retry"))
  BY <1>1, FinishGood, RetryGood DEF Good, Fates, Ends, Reached
<1>3. OnError(c) =
        CASE c.work.type \in {"POWER_ON", "POWER_OFF", "BLANK_SCREEN", "REQUEST", "BUTTON"} ->
               IF c.status = "DISCONNECTED" THEN Finish(c, "aborted")
               ELSE IF MayRetry(c) THEN ArmTimer(c, "retry")
               ELSE Finish(d, "gaveup")
          [] c.work.type = "KEEPALIVE" -> Finish(d, "aborted")
          [] OTHER -> d
  BY DEF OnError, d
<1> QED
  BY <1>1, <1>2, <1>3

\* The display has reached the state that the unit in progress asked for.
Carried(c) == [c EXCEPT !.poweredOn = (c.work.type = "POWER_ON")]

\* Noting it contradicts nothing: were the last power command settled before, its mark
\* would be the same.
LEMMA CarriedFits ==
  ASSUME NEW c, Good(c), c.work.type \in Power
  PROVE  LET d == Carried(c)
         IN /\ d \in Client /\ Linked(d) /\ Agreed(d) /\ Followed(d) /\ Kept(d)
            /\ Reached(d, "done")
<1> DEFINE on == c.work.type = "POWER_ON"
<1> DEFINE d == [c EXCEPT !.poweredOn = on]
<1>1. on \in BOOLEAN
  OBVIOUS
<1>2. c \in Client
  BY DEF Good
<1>3. Carried(c) = d
  BY DEF Carried
<1>4. d.poweredOn = (c.work.type = "POWER_ON")
  BY <1>2 DEF Client
<1> HIDE DEF on
<1>5. d \in Client
  BY <1>1, <1>2 DEF Client
<1>6. /\ d.queue = c.queue /\ d.work = c.work /\ d.intent = c.intent /\ d.fate = c.fate
      /\ d.status = c.status /\ d.chain = c.chain
  BY <1>2 DEF Client
<1> HIDE DEF d
<1>7. Linked(d) /\ Followed(d) /\ Kept(d)
  BY <1>6 DEF Good, Linked, Followed, Kept
<1>8. c.fate = "done" => c.work.type = c.intent
  <2> SUFFICES ASSUME c.fate = "done", c.work.type # c.intent PROVE FALSE
    OBVIOUS
  <2>1. PICK i \in DOMAIN c.queue : c.queue[i].type = c.intent
    BY DEF Good, Followed, Holds
  <2>2. c.intent \in Power
    <3>1. c.queue[i] \in Command
      BY <1>2, <2>1, Fields
    <3> QED
      BY <1>2, <2>1, <3>1, Fields DEF Command, WorkTypes
  <2> QED
    BY <2>1, <2>2 DEF Good, Agreed
<1>9. Agreed(d)
  BY <1>4, <1>6, <1>8 DEF Good, Agreed
<1>10. Reached(d, "done")
  BY <1>4, <1>6 DEF Reached
<1> QED
  BY <1>3, <1>5, <1>7, <1>9, <1>10

\* A power command that concludes leaves a good client.
LEMMA ConcludeGood ==
  ASSUME NEW c, Good(c), c.work.type \in Power
  PROVE  Good(Conclude(c, c.work.type = "POWER_ON"))
<1>1. Conclude(c, c.work.type = "POWER_ON") = Finish(Carried(c), "done")
  BY DEF Conclude, Carried
<1> QED
  BY <1>1, CarriedFits, FinishGood DEF Fates, Ends

\* Only a power command concludes in a power state, and in the one it asked for.
LEMMA StepMeans ==
  ASSUME NEW u, NEW r, NEW a
  PROVE  /\ Step(u, r, a) = "on" => u.type = "POWER_ON"
         /\ Step(u, r, a) = "off" => u.type = "POWER_OFF"
         /\ Step(u, r, a) = "done" => u.type \notin Power
  BY DEF Step, PowerOnStep, PowerOffStep, BlankStep, Power

\* An answer carries the conversation on, or ends the unit truthfully.
LEMMA RespondGood ==
  ASSUME NEW c, Good(c), NEW r, NEW a
  PROVE  Good(Respond(c, r, a))
<1> DEFINE s == Step(c.work, r, a)
<1> DEFINE b == [c EXCEPT !.buttonUp = c.buttonUp \/ a = "ok"]
<1>1. c \in Client
  BY DEF Good
<1>2. s \in Requests \cup Outcomes \cup {"poll", "on", "off", "button", "nothing"}
  BY StepType
<1>3. /\ s = "on" => c.work.type = "POWER_ON"
      /\ s = "off" => c.work.type = "POWER_OFF"
      /\ s = "done" => c.work.type \notin Power
  BY StepMeans
<1>4. s = "button" => c.work.type = "BUTTON"
  BY DEF Step, PowerOnStep, PowerOffStep, BlankStep
<1>5. Good(b) /\ b.work = c.work
  <2>1. (c.buttonUp \/ a = "ok") \in BOOLEAN
    OBVIOUS
  <2>2. b \in Client
    BY <1>1, <2>1 DEF Client
  <2>3. Frame(c, b)
    BY <1>1, <2>2 DEF Frame, Linked, Client
  <2> HIDE DEF b
  <2> QED
    BY <2>3, FrameGood DEF Frame
<1>6. Respond(c, r, a) =
        CASE s \in Requests -> Send(c, s)
          [] s = "poll" -> ArmTimer(c, "poll")
          [] s = "on" -> Conclude(c, TRUE)
          [] s = "off" -> Conclude(c, FALSE)
          [] s = "button" -> Finish(b, "done")
          [] s = "nothing" -> c
          [] OTHER -> Finish(c, s)
  BY DEF Respond
<1> HIDE DEF s, b
<1>7. s \in Requests => Good(Send(c, s))
  BY <1>1, SendFrame, FrameGood
<1>8. Good(ArmTimer(c, "poll"))
  BY <1>1, PollFrame, FrameGood
<1>9. s = "on" => Good(Conclude(c, TRUE))
  <2>1. ASSUME s = "on" PROVE Good(Conclude(c, TRUE))
    <3>1. (c.work.type = "POWER_ON") = TRUE /\ c.work.type \in Power
      BY <1>3, <2>1 DEF Power
    <3>2. Good(Conclude(c, c.work.type = "POWER_ON"))
      BY <3>1, ConcludeGood
    <3> QED
      BY <3>1, <3>2
  <2> QED
    BY <2>1
<1>10. s = "off" => Good(Conclude(c, FALSE))
  <2>1. ASSUME s = "off" PROVE Good(Conclude(c, FALSE))
    <3>1. (c.work.type = "POWER_ON") = FALSE /\ c.work.type \in Power
      BY <1>3, <2>1 DEF Power
    <3>2. Good(Conclude(c, c.work.type = "POWER_ON"))
      BY <3>1, ConcludeGood
    <3> QED
      BY <3>1, <3>2
  <2> QED
    BY <2>1
<1>11. s = "button" => Good(Finish(b, "done"))
  BY <1>4, <1>5, FinishGood DEF Good, Reached, Power, Fates, Ends
<1>12. s \in Outcomes => Good(Finish(c, s))
  BY <1>1, <1>3, FinishGood DEF Good, Reached, Outcomes, Fates, Ends
<1> QED
  BY <1>2, <1>6, <1>7, <1>8, <1>9, <1>10, <1>11, <1>12

\* The webOS handshake is answered: the unit in progress goes on or is given up.
LEMMA RegisteredGood ==
  ASSUME NEW c, Good(c)
  PROVE  Good(Registered(c))
<1> DEFINE u == [type |-> "REQUEST", forced |-> FALSE]
<1> DEFINE k == [c EXCEPT !.key = TRUE]
<1> DEFINE d == IF c.key THEN c ELSE Enqueue(k, u)
<1>1. u \in Command
  BY DEF Command, WorkTypes
<1>2. Good(k)
  <2>1. c \in Client
    BY DEF Good
  <2>2. k \in Client
    BY <2>1 DEF Client
  <2>3. Frame(c, k)
    BY <2>1, <2>2 DEF Frame, Linked, Client
  <2> HIDE DEF k
  <2> QED
    BY <2>3, FrameGood
<1>3. Registered(c) =
        IF d.work.type \in {"POWER_ON", "POWER_OFF", "BLANK_SCREEN", "KEEPALIVE",
                            "REQUEST", "BUTTON"}
        THEN Send(d, FirstRequest(d.work.type)) ELSE Finish(d, "aborted")
  BY DEF Registered
<1> HIDE DEF u, k
<1>4. Good(d)
  BY <1>1, <1>2, EnqueueGood
<1> HIDE DEF d
<1>5. FirstRequest(d.work.type) \in Requests
  BY DEF FirstRequest, Requests
<1>6. Good(Send(d, FirstRequest(d.work.type)))
  BY <1>4, <1>5, SendFrame, FrameGood DEF Good
<1>7. Good(Finish(d, "aborted"))
  BY <1>4, FinishGood DEF Good, Reached, Fates, Ends
<1> QED
  BY <1>3, <1>6, <1>7

\* A display that is not paired asks for the handshake again.
LEMMA UnregisteredGood ==
  ASSUME NEW c, Good(c)
  PROVE  Good(Unregistered(c))
<1> DEFINE k == [c EXCEPT !.key = FALSE]
<1> DEFINE w == [c EXCEPT !.wire = <<"register">> \o c.wire]
<1>1. c \in Client
  BY DEF Good
<1>2. Good(k)
  <2>1. k \in Client
    BY <1>1 DEF Client
  <2>2. Frame(c, k)
    BY <1>1, <2>1 DEF Frame, Linked, Client
  <2> HIDE DEF k
  <2> QED
    BY <2>2, FrameGood
<1>3. Good(w)
  <2> DEFINE v == <<"register">> \o c.wire
  <2>1. v \in Seq(Requests)
    BY <1>1, Fields DEF Requests
  <2> HIDE DEF v
  <2>2. [c EXCEPT !.wire = v] \in Client
    BY <1>1, <2>1 DEF Client
  <2>3. Frame(c, [c EXCEPT !.wire = v])
    BY <1>1, <2>2 DEF Frame, Linked, Client
  <2> QED
    BY <2>3, FrameGood DEF v
<1>4. Unregistered(c) = IF c.key THEN Send(k, "register") ELSE w
  BY DEF Unregistered
<1> HIDE DEF k, w
<1>5. Good(Send(k, "register"))
  BY <1>2, SendFrame, FrameGood DEF Good, Requests
<1> QED
  BY <1>3, <1>4, <1>5

\* An error response ends the unit; a power-on counts as done when the display refuses
\* to show a picture that it is already showing.
LEMMA RejectGood ==
  ASSUME NEW c, Good(c), NEW r
  PROVE  Good(Reject(c, r))
<1>1. CASE c.work.type = "POWER_ON"
  <2>1. (c.work.type = "POWER_ON") = TRUE /\ c.work.type \in Power
    BY <1>1 DEF Power
  <2>2. Good(Conclude(c, c.work.type = "POWER_ON"))
    BY <2>1, ConcludeGood
  <2>3. Good(Conclude(c, TRUE))
    BY <2>1, <2>2
  <2>4. Good(Finish(c, "aborted"))
    BY FinishGood DEF Good, Reached, Fates, Ends
  <2> QED
    BY <2>3, <2>4 DEF Reject
<1>2. CASE c.work.type # "POWER_ON"
  <2>1. Good(Finish(c, "aborted"))
    BY FinishGood DEF Good, Reached, Fates, Ends
  <2> QED
    BY <1>2, <2>1 DEF Reject
<1> QED
  BY <1>1, <1>2

\* The session on reading an answer, before it looks at it.
Heard(c) == [c EXCEPT !.status = "CONNECTED", !.wire = Tail(@)]

\* An answer is read from an open stream, whose session then counts as connected.
LEMMA HeardFrame ==
  ASSUME NEW c \in Client, c.wire # <<>>, c.chain \in {"open", "closing"}
  PROVE  Frame(c, Heard(c))
<1> DEFINE v == Tail(c.wire)
<1>1. v \in Seq(Requests)
  BY Fields
<1>2. Heard(c) = [c EXCEPT !.status = "CONNECTED", !.wire = v]
  BY DEF Heard
<1> HIDE DEF v
<1>3. [c EXCEPT !.status = "CONNECTED", !.wire = v] \in Client
  BY <1>1 DEF Client
<1> QED
  BY <1>2, <1>3 DEF Frame, Linked, Client

\* Whatever the answer, the client stays good.
LEMMA OnReadGood ==
  ASSUME NEW c, Good(c), NEW a, c.wire # <<>>, c.chain \in {"open", "closing"}
  PROVE  Good(OnRead(c, a))
<1> DEFINE d == Heard(c)
<1>1. Good(d)
  BY HeardFrame, FrameGood DEF Good
<1>2. OnRead(c, a) =
        CASE a = "error" -> Reject(d, Head(c.wire))
          [] a = "garbage" -> Finish(d, "aborted")
          [] a = "registered" -> Registered(d)
          [] a = "unregistered" -> Unregistered(d)
          [] OTHER -> Respond(d, Head(c.wire), a)
  BY DEF OnRead, Heard
<1> HIDE DEF d
<1>3. /\ Good(Reject(d, Head(c.wire))) /\ Good(Finish(d, "aborted"))
      /\ Good(Registered(d)) /\ Good(Unregistered(d)) /\ Good(Respond(d, Head(c.wire), a))
  BY <1>1, RejectGood, RegisteredGood, UnregisteredGood, RespondGood, FinishGood
     DEF Good, Reached, Fates, Ends
<1> QED
  BY <1>2, <1>3

-----------------------------------------------------------------------------
(* Every handler keeps the client good.                                      *)

Budget == [calls : 0 .. MaxCalls, faults : 0 .. MaxFaults, delays : 0 .. MaxDelays]

IInv == device \in Device /\ budget \in Budget /\ Good(client)

\* The bounds leave the budget a budget.
LEMMA BudgetType ==
  ASSUME budget \in Budget,
         (\E kind \in {"calls", "faults", "delays"} : Spend(kind)) \/ UNCHANGED budget
  PROVE  budget' \in Budget
<1>1. ASSUME NEW kind \in {"calls", "faults", "delays"}, Spend(kind)
      PROVE  budget' \in Budget
  <2>1. CASE kind = "calls"
    BY <1>1, <2>1, ClientAssumption DEF Spend, Budget
  <2>2. CASE kind = "faults"
    BY <1>1, <2>2, ClientAssumption DEF Spend, Budget
  <2>3. CASE kind = "delays"
    BY <1>1, <2>3, ClientAssumption DEF Spend, Budget
  <2> QED
    BY <2>1, <2>2, <2>3
<1> QED
  BY <1>1

\* A session starts with nothing to do.
LEMMA InitGood ==
  ASSUME Init
  PROVE  IInv
<1> DEFINE c == [InitClient EXCEPT !.key = device.paired]
<1>1. device \in Device /\ device.paired \in BOOLEAN
  BY ClientAssumption DEF Init, Device
<1>2. InitClient \in Client
  <2>1. <<>> \in Seq(Command) /\ <<>> \in Seq(Requests) /\ 0 \in 0 .. MaxPending
    BY ClientAssumption
  <2>2. NoWork \in Work
    BY NoWorkType
  <2> QED
    BY <2>1, <2>2 DEF InitClient, Client, Stages
<1>3. c \in Client
  BY <1>1, <1>2 DEF Client
<1>4. c.queue = <<>> /\ c.work = NoWork /\ c.fate = "none" /\ c.status = "DISCONNECTED"
  BY DEF InitClient
<1> HIDE DEF c
<1>5. Free(c)
  <2>1. DOMAIN <<>> = {}
    OBVIOUS
  <2> QED
    BY <1>3, <1>4, <2>1 DEF Free, Linked, Agreed, OnePower, Kept
<1>6. Good(client)
  BY <1>5, FreeGood DEF Init, c
<1>7. budget \in Budget
  BY ClientAssumption DEF Init, Budget
<1> QED
  BY <1>1, <1>6, <1>7 DEF IInv

\* What most handlers do: they note what has completed, and may then fail, close or
\* enqueue a unit.
Reacts(c, d) ==
    \E e : /\ Frame(c, e)
           /\ \/ d = e
              \/ d = OnError(e)
              \/ d = DoClose(e, "dropped")
              \/ \E u \in Command : d = Enqueue(e, u)

\* Such a handler keeps a client good.
LEMMA ReactsGood ==
  ASSUME NEW c, NEW d, Good(c), Reacts(c, d)
  PROVE  Good(d)
<1>1. PICK e : /\ Frame(c, e)
               /\ \/ d = e
                  \/ d = OnError(e)
                  \/ d = DoClose(e, "dropped")
                  \/ \E u \in Command : d = Enqueue(e, u)
  BY DEF Reacts
<1>2. Good(e)
  BY <1>1, FrameGood
<1>3. Good(DoClose(e, "dropped"))
  BY <1>2, DoCloseGood DEF Good, Agreed, Fates, Ends
<1> QED
  BY <1>1, <1>2, <1>3, OnErrorGood, EnqueueGood

\* A call of the public API.
LEMMA CallReacts ==
  ASSUME Good(client), Call
  PROVE  Reacts(client, client')
<1>1. PICK u \in Commands : client' = Enqueue(client, u)
  BY DEF Call
<1>2. u \in Command
  BY ClientAssumption
<1>3. Frame(client, client)
  BY DEF Good, Frame
<1> QED
  BY <1>1, <1>2, <1>3 DEF Reacts

\* The name lookup fails, or the connection is begun, in place of one under way.
LEMMA OnResolveReacts ==
  ASSUME Good(client), OnResolve
  PROVE  Reacts(client, client')
<1> DEFINE n == client.resolving - 1
<1> DEFINE c == [client EXCEPT !.resolving = n]
<1> DEFINE s == IF client.chain \in {"connect", "ssl", "handshake"}
                THEN Capped(client.stale + 1) ELSE client.stale
<1> DEFINE d == [client EXCEPT !.resolving = n, !.status = "CONNECTING",
                               !.chain = "connect", !.stale = s]
<1>1. client \in Client
  BY DEF Good
<1>2. n \in 0 .. MaxPending
  BY <1>1, CountsDown, Fields DEF OnResolve
<1>3. s \in 0 .. MaxPending
  BY <1>1, CountsUp, Fields
<1> HIDE DEF n
<1>4. Frame(client, c) /\ c.chain = client.chain /\ c.stale = client.stale
  <2>1. c \in Client
    BY <1>1, <1>2 DEF Client
  <2>2. Frame(client, c)
    BY <1>1, <2>1 DEF Frame, Linked, Client
  <2>3. c.chain = client.chain /\ c.stale = client.stale
    BY <1>1 DEF Client
  <2> HIDE DEF c
  <2> QED
    BY <2>2, <2>3
<1>5. client' = OnError(c) \/ client' = d
  <2>1. \/ client' = OnError(c)
        \/ client' = [c EXCEPT !.status = "CONNECTING", !.chain = "connect",
                               !.stale = IF c.chain \in {"connect", "ssl", "handshake"}
                                         THEN Capped(c.stale + 1) ELSE c.stale]
    BY DEF OnResolve, n
  <2>2. [c EXCEPT !.status = "CONNECTING", !.chain = "connect", !.stale = s] = d
    BY <1>1 DEF Client
  <2> HIDE DEF d, c
  <2> QED
    BY <1>4, <2>1, <2>2
<1> HIDE DEF c, s
<1>6. Frame(client, d)
  <2>1. d \in Client
    BY <1>1, <1>2, <1>3 DEF Client, Stages
  <2> QED
    BY <1>1, <2>1 DEF Frame, Linked, Client
<1> HIDE DEF d
<1> QED
  BY <1>4, <1>5, <1>6 DEF Reacts

\* The connection gets one stage further.
LEMMA OnStageReacts ==
  ASSUME Good(client), OnStage
  PROVE  Reacts(client, client')
<1> DEFINE s == [client EXCEPT !.status = "CONNECTING", !.chain = "ssl"]
<1> DEFINE o == [client EXCEPT !.status = "CONNECTING", !.chain = "open"]
<1> DEFINE h == [client EXCEPT !.status = "CONNECTING", !.chain = "handshake"]
<1>1. client \in Client
  BY DEF Good
<1>2. s \in Client /\ o \in Client /\ h \in Client
  BY <1>1 DEF Client, Stages
<1>3. Frame(client, s) /\ Frame(client, o) /\ Frame(client, h)
  BY <1>1, <1>2 DEF Frame, Linked, Client
<1>4. client' \in {s, Send(o, "register"), h}
  <2> DEFINE c == [client EXCEPT !.status = "CONNECTING"]
  <2>1. [c EXCEPT !.chain = "ssl"] = s /\ [c EXCEPT !.chain = "open"] = o
          /\ [c EXCEPT !.chain = "handshake"] = h
    BY <1>1 DEF Client
  <2>2. client' = CASE client.chain = "connect" /\ device.ssl -> [c EXCEPT !.chain = "ssl"]
                    [] client.chain = "handshake" -> Send([c EXCEPT !.chain = "open"], "register")
                    [] OTHER -> [c EXCEPT !.chain = "handshake"]
    BY DEF OnStage
  <2> HIDE DEF c, s, o, h
  <2> QED
    BY <2>1, <2>2
<1> HIDE DEF s, o, h
<1>5. Frame(client, Send(o, "register"))
  BY <1>2, <1>3, SendFrame, FrameTransitive DEF Requests
<1> QED
  BY <1>3, <1>4, <1>5 DEF Reacts

\* A request is written.
LEMMA OnWriteReacts ==
  ASSUME Good(client), OnWrite
  PROVE  Reacts(client, client')
<1> DEFINE n == client.writes - 1
<1> DEFINE c == [client EXCEPT !.writes = n]
<1>1. client \in Client
  BY DEF Good
<1>2. n \in 0 .. MaxPending
  <2>1. client.writes > 0
    BY <1>1, Fields, ClientAssumption DEF OnWrite
  <2> QED
    BY <1>1, <2>1, CountsDown, Fields
<1>3. client' = Read(c) \/ client' = c
  BY DEF OnWrite
<1> HIDE DEF n
<1>4. c \in Client
  BY <1>1, <1>2 DEF Client
<1>5. Frame(client, c)
  BY <1>1, <1>4 DEF Frame, Linked, Client
<1> HIDE DEF c
<1> QED
  BY <1>3, <1>4, <1>5, ReadFrame, FrameTransitive DEF Reacts

\* An answer is read.
LEMMA OnReadAnswerGood ==
  ASSUME Good(client), OnReadAnswer
  PROVE  Good(client')
<1>1. PICK a : client' = OnRead(client, a)
  BY DEF OnReadAnswer
<1> QED
  BY <1>1, OnReadGood DEF OnReadAnswer

\* A read fails.
LEMMA OnReadFailedReacts ==
  ASSUME Good(client), OnReadFailed
  PROVE  Reacts(client, client')
<1> DEFINE n == client.reads - 1
<1> DEFINE b == Broken(client.chain)
<1> DEFINE c == [client EXCEPT !.reads = n, !.chain = b]
<1>1. client \in Client
  BY DEF Good
<1>2. n \in 0 .. MaxPending
  BY <1>1, CountsDown, Fields DEF OnReadFailed
<1>3. b \in Stages /\ (b = client.chain \/ b = "failed")
  BY <1>1, Fields DEF Broken, Stages
<1>4. client' = OnError(c)
  BY DEF OnReadFailed
<1> HIDE DEF n, b
<1>5. c \in Client
  BY <1>1, <1>2, <1>3 DEF Client
<1>6. Frame(client, c)
  BY <1>1, <1>3, <1>5 DEF Frame, Linked, Client
<1> HIDE DEF c
<1> QED
  BY <1>4, <1>6 DEF Reacts

\* A write fails.
LEMMA OnWriteFailedReacts ==
  ASSUME Good(client), OnWriteFailed
  PROVE  Reacts(client, client')
<1> DEFINE n == client.writes - 1
<1> DEFINE k == IF client.writes > client.blocked THEN client.blocked ELSE client.blocked - 1
<1> DEFINE b == IF client.chain \in {"open", "closing"} THEN "failed" ELSE client.chain
<1> DEFINE c == [client EXCEPT !.writes = n, !.blocked = k, !.chain = b]
<1>1. client \in Client
  BY DEF Good
<1>2. n \in 0 .. MaxPending
  BY <1>1, CountsDown, Fields DEF OnWriteFailed
<1>3. k \in 0 .. MaxPending
  <2>1. client.blocked \in 0 .. MaxPending /\ client.writes \in 0 .. MaxPending /\ client.writes > 0
    BY <1>1, Fields DEF OnWriteFailed
  <2> QED
    BY <2>1, ClientAssumption
<1>4. b \in Stages /\ (b = client.chain \/ b = "failed")
  BY <1>1, Fields DEF Stages
<1>5. client' = OnError(c)
  BY DEF OnWriteFailed
<1> HIDE DEF n, k, b
<1>6. c \in Client
  BY <1>1, <1>2, <1>3, <1>4 DEF Client
<1>7. Frame(client, c)
  BY <1>1, <1>4, <1>6 DEF Frame, Linked, Client
<1> HIDE DEF c
<1> QED
  BY <1>5, <1>7 DEF Reacts

\* A stage of the connection fails.
LEMMA OnStageFailedReacts ==
  ASSUME Good(client), OnStageFailed
  PROVE  Reacts(client, client')
<1> DEFINE c == [client EXCEPT !.chain = "failed"]
<1>1. client \in Client
  BY DEF Good
<1>2. client' = OnError(c)
  BY DEF OnStageFailed
<1>3. c \in Client
  BY <1>1 DEF Client, Stages
<1>4. Frame(client, c)
  BY <1>1, <1>3 DEF Frame, Linked, Client
<1> HIDE DEF c
<1> QED
  BY <1>2, <1>4 DEF Reacts

\* The close handshake succeeds.
LEMMA OnCloseReacts ==
  ASSUME Good(client), OnClose
  PROVE  Reacts(client, client')
<1> DEFINE n == client.closes - 1
<1> DEFINE c == [client EXCEPT !.closes = n, !.chain = "closed", !.status = "DISCONNECTED"]
<1>1. client \in Client
  BY DEF Good
<1>2. n \in 0 .. MaxPending
  BY <1>1, CountsDown, Fields DEF OnClose
<1>3. client' = c
  BY DEF OnClose
<1> HIDE DEF n
<1>4. c \in Client
  BY <1>1, <1>2 DEF Client, Stages
<1>5. Frame(client, c)
  BY <1>1, <1>4 DEF Frame, Linked, Client
<1> HIDE DEF c
<1> QED
  BY <1>3, <1>5 DEF Reacts

\* The close handshake fails.
LEMMA OnCloseFailedReacts ==
  ASSUME Good(client), OnCloseFailed
  PROVE  Reacts(client, client')
<1> DEFINE n == client.closes - 1
<1> DEFINE b == IF client.chain = "closing" THEN "failed" ELSE client.chain
<1> DEFINE c == [client EXCEPT !.closes = n, !.chain = b]
<1>1. client \in Client
  BY DEF Good
<1>2. n \in 0 .. MaxPending
  BY <1>1, CountsDown, Fields DEF OnCloseFailed
<1>3. b \in Stages /\ (b = client.chain \/ b = "failed")
  BY <1>1, Fields DEF Stages
<1>4. client' = OnError(c)
  BY DEF OnCloseFailed
<1> HIDE DEF n, b
<1>5. c \in Client
  BY <1>1, <1>2, <1>3 DEF Client
<1>6. Frame(client, c)
  BY <1>1, <1>3, <1>5 DEF Frame, Linked, Client
<1> HIDE DEF c
<1> QED
  BY <1>4, <1>6 DEF Reacts

\* The handlers of operations that were cancelled.
LEMMA AbortedReacts ==
  ASSUME Good(client),
         OnAborted \/ OnCancelled
  PROVE  Reacts(client, client')
<1>1. client \in Client
  BY DEF Good
<1>2. CASE OnAborted
  <2> DEFINE n == client.stale - 1
  <2> DEFINE c == [client EXCEPT !.stale = n]
  <2>1. n \in 0 .. MaxPending
    BY <1>1, <1>2, CountsDown, Fields DEF OnAborted
  <2>2. client' = OnError(c)
    BY <1>2 DEF OnAborted
  <2> HIDE DEF n
  <2>3. c \in Client
    BY <1>1, <2>1 DEF Client
  <2>4. Frame(client, c)
    BY <1>1, <2>3 DEF Frame, Linked, Client
  <2> HIDE DEF c
  <2> QED
    BY <2>2, <2>4 DEF Reacts
<1>3. CASE OnCancelled
  <2> DEFINE n == client.cancelled - 1
  <2> DEFINE c == [client EXCEPT !.cancelled = n]
  <2>1. n \in 0 .. MaxPending
    BY <1>1, <1>3, CountsDown, Fields DEF OnCancelled
  <2>2. client' = OnError(c)
    BY <1>3 DEF OnCancelled
  <2> HIDE DEF n
  <2>3. c \in Client
    BY <1>1, <2>1 DEF Client
  <2>4. Frame(client, c)
    BY <1>1, <2>3 DEF Frame, Linked, Client
  <2> HIDE DEF c
  <2> QED
    BY <2>2, <2>4 DEF Reacts
<1> QED
  BY <1>2, <1>3

\* The display is asked for its power state once more.
LEMMA OnWaitReacts ==
  ASSUME Good(client), OnWait
  PROVE  Reacts(client, client')
<1> DEFINE c == [client EXCEPT !.timer = "idle"]
<1>1. client \in Client
  BY DEF Good
<1>2. client' = Send(c, "getPowerState")
  BY DEF OnWait
<1>3. c \in Client
  BY <1>1 DEF Client
<1>4. Frame(client, c)
  BY <1>1, <1>3 DEF Frame, Linked, Client
<1> HIDE DEF c
<1> QED
  BY <1>2, <1>3, <1>4, SendFrame, FrameTransitive DEF Reacts, Requests

\* A retry: the attempts left are one less, and were at least one.
LEMMA OnRetryConnectionGood ==
  ASSUME Good(client), OnRetryConnection
  PROVE  Good(client')
<1> DEFINE w == [client.work EXCEPT !.retry = client.work.retry + 1]
<1> DEFINE c == [client EXCEPT !.timer = "idle", !.work = w]
<1> DEFINE d == Run(c)
<1>1. client \in Client /\ client.work \in Work /\ client.timer = "retry"
  BY Fields DEF Good, OnRetryConnection
<1>2. w \in Work
  <2>1. client.work.retry < MaxRetries /\ MaxRetries \in Nat
    BY <1>1, ClientAssumption DEF Good, Attempts, MaxRetries
  <2>2. client.work.retry + 1 \in 0 .. MaxRetries
    BY <1>1, <2>1 DEF Work
  <2> QED
    BY <1>1, <2>2 DEF Work
<1>3. w.type = client.work.type /\ w.age = client.work.age /\ w.retry = client.work.retry + 1
  BY <1>1 DEF Work
<1>4. c = [client EXCEPT !.timer = "idle", !.work.retry = client.work.retry + 1]
  BY <1>1 DEF Client, Work
<1>5. client' = IF d.work.type = "POWER_ON" THEN RunWOL(d) ELSE d
  <2>1. c = [client EXCEPT !.timer = "idle", !.work.retry = @ + 1]
    BY <1>4
  <2> HIDE DEF c
  <2> QED
    BY <2>1 DEF OnRetryConnection
<1> HIDE DEF w
<1>6. c \in Client
  BY <1>1, <1>2 DEF Client
<1>7. /\ c.queue = client.queue /\ c.work = w /\ c.intent = client.intent
      /\ c.fate = client.fate /\ c.poweredOn = client.poweredOn /\ c.timer = "idle"
      /\ c.status = client.status /\ c.chain = client.chain /\ c.wol = client.wol
  BY <1>1 DEF Client
<1> HIDE DEF c
<1>8. Attempts(c)
  <2>1. ASSUME w.type # "REQUEST" PROVE w.retry <= RetryLimit(w.type)
    <3>1. client.work.retry < RetryLimit(client.work.type)
      BY <1>1, <1>3, <2>1 DEF Good, Attempts
    <3>2. RetryLimit(client.work.type) \in Nat /\ client.work.retry \in Nat
      BY <1>1, ClientAssumption DEF RetryLimit, MaxRetries, Work
    <3> QED
      BY <1>3, <3>1, <3>2
  <2> QED
    BY <1>7, <2>1 DEF Attempts
<1>9. Woken(c) /\ Linked(c) /\ Agreed(c) /\ Followed(c) /\ Kept(c)
  BY <1>3, <1>7 DEF Good, Woken, Waking, Linked, Agreed, Followed, Kept
<1>10. Good(d) /\ d \in Client
  BY <1>6, <1>8, <1>9, RunFrame, FrameGood DEF Good
<1> HIDE DEF d
<1>11. Good(RunWOL(d))
  BY <1>10, RunWOLFrame, FrameGood
<1> QED
  BY <1>5, <1>10, <1>11

\* A delayed request becomes a request, whatever unit it meets in progress.
LEMMA OnDelayedRequestGood ==
  ASSUME Good(client), OnDelayedRequest
  PROVE  Good(client')
<1> DEFINE s == Settle(client, "replaced")
<1> DEFINE w == [client.work EXCEPT !.type = "REQUEST"]
<1> DEFINE c == [s EXCEPT !.delayed = FALSE, !.work = w]
<1>1. client \in Client /\ client.work \in Work /\ client.intent \in Power \cup {"NONE"}
  BY Fields DEF Good, Client
<1>2. w \in Work /\ w.type = "REQUEST" /\ w.retry = client.work.retry
  BY <1>1 DEF Work, WorkTypes
<1>3. s \in Client
  BY <1>1, SettleType DEF Fates, Ends
<1>4. /\ s.queue = client.queue /\ s.work = client.work /\ s.intent = client.intent
      /\ s.poweredOn = client.poweredOn /\ s.timer = client.timer
      /\ s.status = client.status /\ s.chain = client.chain
      /\ \/ s.fate = client.fate
         \/ s.fate = "replaced" /\ client.work.type = client.intent
  BY <1>1 DEF Settle, Client
<1> HIDE DEF s
<1>5. client' = Contact(c)
  <2>1. c = [s EXCEPT !.delayed = FALSE, !.work.type = "REQUEST"]
    BY <1>1, <1>3, <1>4 DEF Client, Work
  <2> HIDE DEF c
  <2> QED
    BY <2>1 DEF OnDelayedRequest, s
<1> HIDE DEF w
<1>6. c \in Client
  BY <1>2, <1>3 DEF Client
<1>7. /\ c.queue = s.queue /\ c.work = w /\ c.intent = s.intent
      /\ c.fate = s.fate /\ c.poweredOn = s.poweredOn /\ c.timer = s.timer
      /\ c.status = s.status /\ c.chain = s.chain
  BY <1>3 DEF Client
<1> HIDE DEF c
<1>8. Attempts(c) /\ Woken(c) /\ Linked(c) /\ Followed(c)
  BY <1>2, <1>4, <1>7
     DEF Good, Attempts, Woken, Waking, Linked, Followed, Power
\* A power command whose outcome this is has no other queued behind it.
<1>9. Agreed(c)
  <2>1. s.fate # client.fate => \A i \in DOMAIN c.queue : c.queue[i].type \notin Power
    <3>1. client.work.type = client.intent => client.work.type \in Power
      BY <1>1 DEF Work, WorkTypes
    <3> QED
      BY <3>1, <1>4, <1>7 DEF Good, Followed
  <2> QED
    BY <2>1, <1>4, <1>7 DEF Good, Agreed, OnePower
\* One that is still pending was not in progress.
<1>10. Kept(c)
  <2>1. client.fate = "pending" /\ client.work.type = client.intent => s.fate = "replaced"
    BY <1>1 DEF Settle, Client, s
  <2> QED
    BY <2>1, <1>4, <1>7 DEF Good, Kept
<1> QED
  BY <1>5, <1>6, <1>8, <1>9, <1>10, ContactFrame, FrameGood DEF Good

\* The session is closed for want of work, or in the middle of it.
LEMMA OnDelayedCloseReacts ==
  ASSUME Good(client), OnDelayedClose
  PROVE  Reacts(client, client')
<1> DEFINE c == [client EXCEPT !.closeTimer = FALSE]
<1>1. client \in Client
  BY DEF Good
<1>2. client' = DoClose(c, "dropped")
  BY DEF OnDelayedClose
<1>3. c \in Client
  BY <1>1 DEF Client
<1>4. Frame(client, c)
  BY <1>1, <1>3 DEF Frame, Linked, Client
<1> HIDE DEF c
<1> QED
  BY <1>2, <1>4 DEF Reacts

\* The keep-alive timer posts its unit.
LEMMA OnKeepAliveReacts ==
  ASSUME Good(client), OnKeepAlive
  PROVE  Reacts(client, client')
<1> DEFINE b == client.keepAlivePosted \/ (client.status = "CONNECTED"
                                           /\ client.work.type = "UNDEFINED")
<1> DEFINE c == [client EXCEPT !.keepAlive = FALSE, !.keepAlivePosted = b]
<1>1. client \in Client
  BY DEF Good
<1>2. client' = c
  BY DEF OnKeepAlive
<1>3. b \in BOOLEAN
  BY <1>1 DEF Client
<1> HIDE DEF b
<1>4. c \in Client
  BY <1>1, <1>3 DEF Client
<1>5. Frame(client, c)
  BY <1>1, <1>4 DEF Frame, Linked, Client
<1> HIDE DEF c
<1> QED
  BY <1>2, <1>5 DEF Reacts

\* The posted unit is enqueued.
LEMMA EnqueueKeepAliveReacts ==
  ASSUME Good(client), EnqueueKeepAlive
  PROVE  Reacts(client, client')
<1> DEFINE c == [client EXCEPT !.keepAlivePosted = FALSE]
<1> DEFINE u == [type |-> "KEEPALIVE", forced |-> FALSE]
<1>1. client \in Client
  BY DEF Good
<1>2. u \in Command
  BY DEF Command, WorkTypes
<1>3. client' = Enqueue(c, u)
  BY DEF EnqueueKeepAlive
<1>4. c \in Client
  BY <1>1 DEF Client
<1>5. Frame(client, c)
  BY <1>1, <1>4 DEF Frame, Linked, Client
<1> HIDE DEF c, u
<1> QED
  BY <1>2, <1>3, <1>5 DEF Reacts

\* The wake loop ends only when no fresh power-on is in progress.
LEMMA OnWOLGood ==
  ASSUME Good(client), OnWOL
  PROVE  Good(client')
<1> DEFINE c == [client EXCEPT !.wol = FALSE]
<1>1. client \in Client
  BY DEF Good
<1>2. client' = c /\ ~Waking(client.work)
  BY DEF OnWOL
<1>3. c \in Client
  BY <1>1 DEF Client
<1>4. /\ c.queue = client.queue /\ c.work = client.work /\ c.intent = client.intent
      /\ c.fate = client.fate /\ c.poweredOn = client.poweredOn /\ c.timer = client.timer
      /\ c.status = client.status /\ c.chain = client.chain
  BY <1>1 DEF Client
<1> HIDE DEF c
<1> QED
  BY <1>2, <1>3, <1>4 DEF Good, Attempts, Woken, Linked, Agreed, Followed, Kept

\* The button socket is lost.
LEMMA ButtonClientDisconnectsReacts ==
  ASSUME Good(client), ButtonClientDisconnects
  PROVE  Reacts(client, client')
<1> DEFINE c == [client EXCEPT !.buttonUp = FALSE]
<1>1. client \in Client
  BY DEF Good
<1>2. client' = c
  BY DEF ButtonClientDisconnects
<1>3. c \in Client
  BY <1>1 DEF Client
<1>4. Frame(client, c)
  BY <1>1, <1>3 DEF Frame, Linked, Client
<1> HIDE DEF c
<1> QED
  BY <1>2, <1>4 DEF Reacts

\* A unit outlasts a deadline.
LEMMA WorkAgesGood ==
  ASSUME Good(client), WorkAges
  PROVE  Good(client')
<1> DEFINE age == IF client.work.type = "POWER_ON" /\ client.work.age = "fresh"
                  THEN "expired" ELSE "lingering"
<1> DEFINE w == [client.work EXCEPT !.age = age]
<1> DEFINE c == [client EXCEPT !.work = w]
<1>1. client \in Client /\ client.work \in Work
  BY Fields DEF Good
<1>2. age \in {"expired", "lingering"}
  OBVIOUS
<1>3. client' = c
  <2>1. c = [client EXCEPT !.work.age = age]
    BY <1>1 DEF Client, Work
  <2> QED
    BY <2>1 DEF WorkAges
<1> HIDE DEF age
<1>4. w \in Work /\ w.type = client.work.type /\ w.retry = client.work.retry /\ w.age = age
  BY <1>1, <1>2 DEF Work
<1> HIDE DEF w
<1>5. c \in Client
  BY <1>1, <1>4 DEF Client
<1>6. /\ c.queue = client.queue /\ c.work = w /\ c.intent = client.intent
      /\ c.fate = client.fate /\ c.poweredOn = client.poweredOn /\ c.timer = client.timer
      /\ c.status = client.status /\ c.chain = client.chain
  BY <1>1 DEF Client
<1> HIDE DEF c
<1> QED
  BY <1>2, <1>3, <1>4, <1>5, <1>6
     DEF Good, Attempts, Woken, Waking, Linked, Agreed, Followed, Kept

-----------------------------------------------------------------------------
(* The theorems.                                                             *)

\* The steps of the session: all but five handlers react.
LEMMA NextReacts ==
  ASSUME Good(client), Next
  PROVE  \/ Reacts(client, client')
         \/ OnReadAnswer \/ OnRetryConnection \/ OnDelayedRequest \/ OnWOL \/ WorkAges
<1>1. CASE Expiries
  BY <1>1, OnWaitReacts, OnDelayedCloseReacts, OnKeepAliveReacts DEF Expiries
<1>2. CASE Network
  BY <1>2, OnStageReacts, OnStageFailedReacts, OnWriteReacts, OnWriteFailedReacts,
     OnReadFailedReacts, OnCloseReacts, OnCloseFailedReacts DEF Network
<1>3. CASE Posted
  BY <1>3, OnResolveReacts, AbortedReacts, EnqueueKeepAliveReacts DEF Posted
<1> QED
  BY <1>1, <1>2, <1>3, CallReacts, ButtonClientDisconnectsReacts DEF Next

\* Every step of the session keeps the client good.
LEMMA NextGood ==
  ASSUME Good(client), Next
  PROVE  Good(client')
BY NextReacts, ReactsGood, OnReadAnswerGood, OnRetryConnectionGood, OnDelayedRequestGood,
   OnWOLGood, WorkAgesGood

\* The bounds are kept, and the device settings are constant.
LEMMA NextBudget ==
  ASSUME budget \in Budget, Next
  PROVE  budget' \in Budget /\ UNCHANGED device
<1>1. CASE Expiries
  BY <1>1 DEF Expiries, OnWait, OnRetryConnection, OnDelayedRequest, OnDelayedClose,
              OnKeepAlive, OnWOL
<1>2. CASE Network
  BY <1>2, BudgetType
     DEF Network, OnStage, OnStageFailed, OnWrite, OnWriteFailed, OnReadAnswer,
         OnReadFailed, OnClose, OnCloseFailed, Fault
<1>3. CASE Posted
  BY <1>3, BudgetType
     DEF Posted, OnResolve, OnAborted, OnCancelled,
         EnqueueKeepAlive
<1>4. CASE Call \/ ButtonClientDisconnects \/ WorkAges
  BY <1>4, BudgetType DEF Call, ButtonClientDisconnects, WorkAges
<1> QED
  BY <1>1, <1>2, <1>3, <1>4 DEF Next

\* The invariant from which the others follow is inductive.
THEOREM Inductive == Spec => []IInv
<1>1. Init => IInv
  BY InitGood
<1>2. IInv /\ [Next]_vars => IInv'
  <2> SUFFICES ASSUME IInv, [Next]_vars PROVE IInv'
    OBVIOUS
  <2>1. CASE Next
    BY <2>1, NextGood, NextBudget DEF IInv
  <2>2. CASE UNCHANGED vars
    BY <2>2 DEF vars, IInv
  <2> QED
    BY <2>1, <2>2
<1> QED
  BY <1>1, <1>2, PTL DEF Spec

\* The members of the class keep their types in every state of every interleaving.
THEOREM TypeCorrect == Spec => []TypeOK
<1>1. IInv => TypeOK
  BY DEF IInv, Good, TypeOK, Budget
<1> QED
  BY <1>1, Inductive, PTL

\* Whatever the order of calls, answers and failures, the queue holds no power command
\* that the last call contradicts, and one in progress that it contradicts is followed by
\* the one asked for last (enqueueWork).
THEOREM LastPowerCommandWins == Spec => []LatestIntentWins
<1>1. IInv => LatestIntentWins
  BY DEF IInv, Good, Agreed, Followed, Holds, LatestIntentWins, Queued
<1> QED
  BY <1>1, Inductive, PTL

\* A power command that was accepted and has no outcome yet is in progress or queued,
\* whatever retries, errors and other commands came after it (the drain of the daemon).
THEOREM PendingKeepsBusy == Spec => []BusyWhilePending
<1>1. IInv => BusyWhilePending
  BY DEF IInv, Good, Kept, Holds, BusyWhilePending, Queued
<1> QED
  BY <1>1, Inductive, PTL

\* When the last power command has succeeded, isPoweredOn_ is the state it asked for.
THEOREM OutcomeIsNoted == Spec => []FlagMatchesOutcome
<1>1. IInv => FlagMatchesOutcome
  BY DEF IInv, Good, Agreed, FlagMatchesOutcome
<1> QED
  BY <1>1, Inductive, PTL

\* No number of failed operations makes a unit reconnect more often than onError allows.
THEOREM RetriesEnd == Spec => []RetryBounded
<1>1. IInv => RetryBounded
  BY DEF IInv, Good, Attempts, RetryBounded
<1> QED
  BY <1>1, Inductive, PTL

\* A fresh power-on always has the wake-on-LAN loop running, though an earlier loop may
\* be about to end (runWOL, onWOL).
THEOREM WakeLoopRuns == Spec => []WakeWhilePoweringOn
<1>1. IInv => WakeWhilePoweringOn
  BY DEF IInv, Good, Woken, WakeWhilePoweringOn
<1> QED
  BY <1>1, Inductive, PTL

\* A session that counts as connected has a stream whose handshake is done: startNextWork
\* never sends a request over a stream that run() has just replaced.
THEOREM ConnectedMeansOpened == Spec => []StatusMatchesStream
<1>1. IInv => StatusMatchesStream
  BY DEF IInv, Good, Linked, StatusMatchesStream
<1> QED
  BY <1>1, Inductive, PTL

-----------------------------------------------------------------------------
(* Steps: the session as PowerSession sees it.                              *)

Slot(c) == [asked |-> c.intent, fate |-> c.fate, lit |-> c.poweredOn,
            doing |-> IF c.work.type \in Power THEN c.work.type ELSE "NONE"]

\* The last thing a handler does: nothing, begin a command or throw all away.
Closes(c, d) ==
    Slot(d) \in {Slot(c)} \cup Promise!Beginning(Slot(c)) \cup Promise!Dropping(Slot(c))

\* Before that it may end the command in progress, and first of all accept one.
Runs(c, d) == \E e : Slot(e) \in {Slot(c)} \cup Promise!Ending(Slot(c)) /\ Closes(e, d)

Moves(c, d) == \E a : Slot(a) \in {Slot(c)} \cup Promise!Accepting(Slot(c)) /\ Runs(a, d)

\* A member that leaves the work and its outcome alone is no step of the promise.
LEMMA FrameSlot ==
  ASSUME NEW c, NEW d, Frame(c, d)
  PROVE  Slot(d) = Slot(c)
  BY DEF Frame, Slot

\* Doing nothing is a way of doing each of these.
LEMMA StandStill ==
  ASSUME NEW c, NEW d, Slot(d) = Slot(c)
  PROVE  Closes(c, d) /\ Runs(c, d) /\ Moves(c, d)
<1>1. Closes(c, d)
  BY DEF Closes
<1>2. Runs(c, d)
  BY <1>1 DEF Runs
<1> QED
  BY <1>1, <1>2 DEF Moves

\* A command ends, and what became of it is noted.
LEMMA SlotUpdate ==
  ASSUME NEW c, NEW x, NEW g
  PROVE  [Slot(c) EXCEPT !.doing = x, !.fate = g]
           = [asked |-> c.intent, fate |-> g, lit |-> c.poweredOn, doing |-> x]
<1> DEFINE d == IF c.work.type \in Power THEN c.work.type ELSE "NONE"
<1> DEFINE old == [asked |-> c.intent, fate |-> c.fate, lit |-> c.poweredOn, doing |-> d]
<1> DEFINE mid == [asked |-> c.intent, fate |-> c.fate, lit |-> c.poweredOn, doing |-> x]
<1> DEFINE new == [asked |-> c.intent, fate |-> g, lit |-> c.poweredOn, doing |-> x]
<1>1. Slot(c) = old
  BY DEF Slot
<1> HIDE DEF d
<1>2. [old EXCEPT !.doing = x] = mid
  OBVIOUS
<1>3. [mid EXCEPT !.fate = g] = new
  OBVIOUS
<1> HIDE DEF old, mid, new
<1>4. [Slot(c) EXCEPT !.doing = x, !.fate = g] = new
  BY <1>1, <1>2, <1>3
<1> QED
  BY <1>4 DEF new

\* doClose() throws away what is queued and in progress.
LEMMA DoCloseSlot ==
  ASSUME NEW c \in Client, NEW outcome \in {"closed", "dropped"}
  PROVE  Slot(DoClose(c, outcome)) \in Promise!Dropping(Slot(c))
<1> DEFINE d == Discard(c, outcome)
<1> DEFINE f == IF c.fate = "pending" THEN outcome ELSE c.fate
<1>1. d = [c EXCEPT !.queue = <<>>, !.work = NoWork, !.fate = f]
  BY DEF Discard
<1>2. d \in Client
  BY DiscardType DEF Fates
<1>3. DoClose(c, outcome) = StartClose(d)
  BY DEF DoClose
<1>4. Slot(DoClose(c, outcome)) = Slot(d)
  BY <1>2, <1>3, StartCloseFrame, FrameSlot
<1> HIDE DEF f
<1>5. d.work.type = "UNDEFINED" /\ d.fate = f /\ d.intent = c.intent /\ d.poweredOn = c.poweredOn
  BY <1>1 DEF Client, NoWork
<1> HIDE DEF d
<1>6. Slot(d) = [Slot(c) EXCEPT !.doing = "NONE", !.fate = f]
  <2>1. Slot(d) = [asked |-> c.intent, fate |-> f, lit |-> c.poweredOn, doing |-> "NONE"]
    BY <1>5 DEF Slot, Power
  <2>2. [Slot(c) EXCEPT !.doing = "NONE", !.fate = f]
          = [asked |-> c.intent, fate |-> f, lit |-> c.poweredOn, doing |-> "NONE"]
    BY SlotUpdate
  <2> QED
    BY <2>1, <2>2
<1>7. f = IF Slot(c).fate = "pending" THEN outcome ELSE Slot(c).fate
  BY DEF f, Slot
<1> QED
  BY <1>4, <1>6, <1>7 DEF Promise!Dropping

\* Taking up a unit is no step, except that a close throws all away.
LEMMA BeginSlot ==
  ASSUME NEW c \in Client
  PROVE  /\ c.work.type = "CLOSE" => Slot(Begin(c)) \in Promise!Dropping(Slot(c))
         /\ c.work.type # "CLOSE" => Slot(Begin(c)) = Slot(c)
<1>1. CASE c.work.type = "CLOSE"
  BY <1>1, DoCloseSlot DEF Begin
<1>2. CASE c.work.type = "REQUEST_DELAYED"
  BY <1>2, ArmDelayedFrame, FrameSlot DEF Begin
<1>3. CASE c.work.type = "POWER_ON"
  <2>1. Frame(c, Contact(c)) /\ Contact(c) \in Client
    BY ContactFrame DEF Frame
  <2>2. Frame(Contact(c), RunWOL(Contact(c)))
    BY <2>1, RunWOLFrame
  <2>3. Slot(RunWOL(Contact(c))) = Slot(c)
    BY <2>1, <2>2, FrameSlot
  <2> QED
    BY <1>3, <2>3 DEF Begin, BeginPowerOn
<1>4. CASE c.work.type \notin {"CLOSE", "REQUEST_DELAYED", "POWER_ON"}
  <2>1. Begin(c) = Contact(c)
    BY <1>4 DEF Begin
  <2> QED
    BY <1>4, <2>1, ContactFrame, FrameSlot
<1> QED
  BY <1>1, <1>2, <1>3, <1>4

\* An empty queue: nothing, or all is thrown away.
LEMMA RestSlot ==
  ASSUME NEW c \in Client
  PROVE  Closes(c, Rest(c))
<1>1. Slot([c EXCEPT !.keepAlive = TRUE]) = Slot(c) /\ Slot([c EXCEPT !.closeTimer = TRUE]) = Slot(c)
  BY DEF Client, Slot
<1>2. Slot(DoClose(c, "dropped")) \in Promise!Dropping(Slot(c))
  BY DoCloseSlot
<1>3. Rest(c) \in {c, [c EXCEPT !.keepAlive = TRUE], [c EXCEPT !.closeTimer = TRUE],
                   DoClose(c, "dropped")}
  BY DEF Rest
<1> QED
  BY <1>1, <1>2, <1>3 DEF Closes

\* The next unit: a power command that begins is the one accepted last.
LEMMA DispatchSlot ==
  ASSUME NEW c, Free(c)
  PROVE  Closes(c, Dispatch(c))
<1>1. c \in Client /\ c.queue \in Seq(Command) /\ c.work = NoWork
  BY Fields DEF Free
<1>2. CASE c.status = "CONNECTING"
  BY <1>1, <1>2, DoCloseSlot DEF Dispatch, Closes
<1>3. CASE c.status # "CONNECTING" /\ Skip(c) = Len(c.queue)
  <2> DEFINE d == [c EXCEPT !.queue = <<>>]
  <2>1. d \in Client
    <3>1. <<>> \in Seq(Command)
      OBVIOUS
    <3> QED
      BY <1>1, <3>1 DEF Client
  <2>2. Slot(d) = Slot(c)
    BY <1>1 DEF Client, Slot
  <2>3. Dispatch(c) = Rest(d)
    BY <1>3 DEF Dispatch
  <2> HIDE DEF d
  <2> QED
    BY <2>1, <2>2, <2>3, RestSlot DEF Closes
<1>4. CASE c.status # "CONNECTING" /\ Skip(c) # Len(c.queue)
  <2> DEFINE k == Skip(c)
  <2> DEFINE u == c.queue[k + 1]
  <2> DEFINE rest == SubSeq(c.queue, k + 2, Len(c.queue))
  <2> DEFINE first == Started(u)
  <2> DEFINE d == [c EXCEPT !.work = first, !.queue = rest]
  <2>1. u \in Command /\ first \in Work /\ rest \in Seq(Command) /\ k + 1 \in DOMAIN c.queue
    BY <1>1, <1>4, NextUnit, StartedType
  <2>2. Dispatch(c) = Begin(d)
    BY <1>4 DEF Dispatch
  <2>3. first.type = u.type
    BY DEF Started
  <2>4. u.type \in Power => u.type = c.intent /\ c.fate = "pending"
    BY <2>1 DEF Free, Agreed
  <2> HIDE DEF k, rest, first, u
  <2>5. d \in Client
    BY <1>1, <2>1 DEF Client
  <2>6. /\ d.work = first /\ d.fate = c.fate /\ d.intent = c.intent /\ d.poweredOn = c.poweredOn
    BY <1>1 DEF Client
  <2> HIDE DEF d
  <2>7. Slot(c).doing = "NONE" /\ Slot(c).fate = c.fate /\ Slot(c).asked = c.intent
    BY <1>1 DEF Slot, NoWork, Power
  <2>8. CASE u.type \in Power
    <3>1. Slot(d) = [Slot(c) EXCEPT !.doing = c.intent]
      BY <2>3, <2>4, <2>6, <2>8 DEF Slot
    <3>2. Slot(d) \in Promise!Beginning(Slot(c))
      BY <2>4, <2>7, <2>8, <3>1 DEF Promise!Beginning
    <3>3. Slot(Begin(d)) = Slot(d)
      BY <2>3, <2>5, <2>6, <2>8, BeginSlot DEF Power
    <3> QED
      BY <2>2, <3>2, <3>3 DEF Closes
  <2>9. CASE u.type \notin Power
    <3>1. Slot(d) = Slot(c)
      BY <1>1, <2>3, <2>6, <2>9 DEF Slot, NoWork, Power
    <3> QED
      BY <2>2, <2>5, <3>1, BeginSlot DEF Closes
  <2> QED
    BY <2>8, <2>9
<1> QED
  BY <1>2, <1>3, <1>4

\* A unit ends: workIsFinished before it starts the next one.
Ended(c, outcome) == [Settle(c, outcome) EXCEPT !.work = NoWork]

\* The command in progress, if there is one, has its outcome.
LEMMA EndedSlot ==
  ASSUME NEW c \in Client, NEW outcome
  PROVE  Slot(Ended(c, outcome)) =
           IF Slot(c).doing = "NONE" THEN Slot(c) ELSE Promise!Ended(Slot(c), outcome)
<1> DEFINE f == IF c.fate = "pending" /\ c.work.type = c.intent THEN outcome ELSE c.fate
<1> DEFINE d == [c EXCEPT !.fate = f, !.work = NoWork]
<1>1. c.work \in Work /\ c.intent \in Power \cup {"NONE"}
  BY Fields
<1>2. Slot(Ended(c, outcome))
        = [asked |-> c.intent, fate |-> f, lit |-> c.poweredOn, doing |-> "NONE"]
  BY DEF Ended, Settle, Slot, Client, NoWork, Power
<1>3. c.work.type \notin Power => f = c.fate
  BY <1>1 DEF Work, WorkTypes
<1>4. CASE c.work.type \in Power
  <2>1. Slot(c) = [asked |-> c.intent, fate |-> c.fate, lit |-> c.poweredOn, doing |-> c.work.type]
    BY <1>4 DEF Slot
  <2>2. c.work.type # "NONE"
    BY <1>4 DEF Power
  <2>3. /\ Slot(c).fate = c.fate /\ Slot(c).doing = c.work.type /\ Slot(c).asked = c.intent
    BY <2>1
  <2>4. Promise!Ended(Slot(c), outcome) = [Slot(c) EXCEPT !.doing = "NONE", !.fate = f]
    BY <2>3 DEF Promise!Ended
  <2> HIDE DEF f, d
  <2>5. [Slot(c) EXCEPT !.doing = "NONE", !.fate = f]
          = [asked |-> c.intent, fate |-> f, lit |-> c.poweredOn, doing |-> "NONE"]
    BY SlotUpdate
  <2> QED
    BY <1>2, <2>2, <2>3, <2>4, <2>5
<1>5. CASE c.work.type \notin Power
  <2>1. Slot(c) = [asked |-> c.intent, fate |-> c.fate, lit |-> c.poweredOn, doing |-> "NONE"]
    BY <1>5 DEF Slot
  <2> QED
    BY <1>2, <1>3, <1>5, <2>1
<1> QED
  BY <1>4, <1>5

\* That is a step of the promise, but for a power command carried out.
LEMMA EndedRuns ==
  ASSUME NEW c \in Client, NEW outcome \in Ends, outcome = "done" => c.work.type \notin Power,
         NEW d, Closes(Ended(c, outcome), d)
  PROVE  Runs(c, d)
<1>1. c.work.type \notin Power => Slot(c).doing = "NONE"
  BY DEF Slot
<1>2. Slot(Ended(c, outcome)) \in {Slot(c)} \cup Promise!Ending(Slot(c))
  BY <1>1, EndedSlot DEF Promise!Ending, Ends, Fates
<1> QED
  BY <1>2 DEF Runs

\* startNextWork ends a lingering unit before it takes up the next one.
LEMMA StartNextWorkSlot ==
  ASSUME NEW c \in Client, Linked(c), Agreed(c), Followed(c), Kept(c)
  PROVE  StartNextWork(c) = c \/ Closes(Ended(c, "lingered"), StartNextWork(c))
<1> DEFINE d == Ended(c, "lingered")
<1> DEFINE e == [Settle(c, "lingered") EXCEPT !.work = NoWork, !.keepAlive = FALSE]
<1>1. Free(d)
  BY SettleFree DEF Reached, Fates, Ends, Ended
<1>2. e = [d EXCEPT !.keepAlive = FALSE]
  BY DEF Settle, Ended
<1>3. StartNextWork(c) = IF c.work.age # "lingering" THEN c ELSE Dispatch(e)
  BY DEF StartNextWork
<1> HIDE DEF d, e
<1>4. Frame(d, e)
  <2>1. d \in Client
    BY <1>1 DEF Free
  <2>2. e \in Client
    BY <1>2, <2>1 DEF Client
  <2> QED
    BY <1>2, <2>1, <2>2 DEF Frame, Linked, Client
<1>5. Closes(e, Dispatch(e)) /\ Slot(e) = Slot(d)
  BY <1>1, <1>4, FrameFree, FrameSlot, DispatchSlot
<1> QED
  BY <1>3, <1>5 DEF Closes, d

\* workIsFinished ends the unit in progress, once.
LEMMA FinishSlot ==
  ASSUME NEW c \in Client, Linked(c), Agreed(c), Followed(c), Kept(c),
         NEW outcome \in Ends, Reached(c, outcome)
  PROVE  Closes(Ended(c, outcome), Finish(c, outcome))
<1> DEFINE d == Ended(c, outcome)
<1>1. Free(d)
  BY SettleFree DEF Ended
<1>2. Finish(c, outcome) = StartNextWork(d)
  BY DEF Finish, Ended
<1> HIDE DEF d
<1>3. Slot(d).doing = "NONE" /\ d \in Client
  BY <1>1 DEF Slot, Free, NoWork, Power
<1>4. Slot(Ended(d, "lingered")) = Slot(d)
  BY <1>3, EndedSlot
<1>5. Followed(d)
  BY <1>1, FreeGood DEF Good
<1>6. StartNextWork(d) = d \/ Closes(Ended(d, "lingered"), StartNextWork(d))
  BY <1>1, <1>3, <1>5, StartNextWorkSlot DEF Free
<1> QED
  BY <1>2, <1>4, <1>6, StandStill DEF Closes, d

\* workIsFinished, for all that it is called for but a power command carried out.
LEMMA FinishRuns ==
  ASSUME NEW c, Good(c), NEW outcome \in Ends, outcome = "done" => c.work.type \notin Power
  PROVE  Runs(c, Finish(c, outcome))
<1>1. Reached(c, outcome)
  BY DEF Reached
<1> QED
  BY <1>1, FinishSlot, EndedRuns DEF Good

\* A power command is carried out: the power state is noted as that command.
LEMMA ConcludeRuns ==
  ASSUME NEW c, Good(c), c.work.type \in Power
  PROVE  Runs(c, Conclude(c, c.work.type = "POWER_ON"))
<1> DEFINE d == Carried(c)
<1> DEFINE on == c.work.type = "POWER_ON"
<1>1. Conclude(c, c.work.type = "POWER_ON") = Finish(d, "done")
  BY DEF Conclude, Carried
<1>2. Closes(Ended(d, "done"), Finish(d, "done")) /\ d \in Client
  BY CarriedFits, FinishSlot DEF Fates, Ends
<1>3. Slot(d) = [Slot(c) EXCEPT !.lit = (Slot(c).doing = "POWER_ON")]
  <2> DEFINE old == [asked |-> c.intent, fate |-> c.fate, lit |-> c.poweredOn, doing |-> c.work.type]
  <2> DEFINE new == [asked |-> c.intent, fate |-> c.fate, lit |-> on, doing |-> c.work.type]
  <2>1. Slot(c) = old
    BY DEF Slot
  <2>2. Slot(d) = new
    BY DEF Slot, Carried, Good, Client
  <2>3. (Slot(c).doing = "POWER_ON") = on
    BY <2>1
  <2> HIDE DEF on
  <2>4. [old EXCEPT !.lit = on] = new
    OBVIOUS
  <2> HIDE DEF old, new
  <2> QED
    BY <2>1, <2>2, <2>3, <2>4
<1>4. Slot(c).doing # "NONE" /\ Slot(d).doing # "NONE"
  BY <1>3 DEF Slot, Power, Carried, Good, Client
<1> HIDE DEF d
<1>5. Slot(Ended(d, "done")) \in Promise!Ending(Slot(c))
  <2>1. Slot(Ended(d, "done")) = Promise!Ended(Slot(d), "done")
    BY <1>2, <1>4, EndedSlot
  <2> QED
    BY <1>3, <1>4, <2>1 DEF Promise!Ending
<1> QED
  BY <1>1, <1>2, <1>5 DEF Runs

\* enqueueWork: a power command is accepted, and the queue may start to move.
LEMMA EnqueueMoves ==
  ASSUME NEW c, Good(c), NEW u \in Command
  PROVE  /\ Moves(c, Enqueue(c, u))
         /\ u.type \notin Power => Runs(c, Enqueue(c, u))
<1> DEFINE d == Noted(c, u)
<1>1. c \in Client /\ c.queue \in Seq(Command)
  BY Fields DEF Good
<1>2. d \in Client /\ (u.type \notin Power => d = c)
  BY <1>1, NotedFields
<1>3. Slot(d) \in {Slot(c)} \cup Promise!Accepting(Slot(c))
  <2>1. CASE u.type \in Power
    <3> DEFINE x == IF c.work.type \in Power THEN c.work.type ELSE "NONE"
    <3> DEFINE old == [asked |-> c.intent, fate |-> c.fate, lit |-> c.poweredOn, doing |-> x]
    <3> DEFINE mid == [asked |-> u.type, fate |-> c.fate, lit |-> c.poweredOn, doing |-> x]
    <3> DEFINE new == [asked |-> u.type, fate |-> "pending", lit |-> c.poweredOn, doing |-> x]
    <3>1. Slot(c) = old
      BY DEF Slot
    <3>2. Slot(d) = new
      BY <1>1, <2>1, NotedFields DEF Slot
    <3> HIDE DEF x
    <3>3. [old EXCEPT !.asked = u.type] = mid
      OBVIOUS
    <3>4. [mid EXCEPT !.fate = "pending"] = new
      OBVIOUS
    <3> HIDE DEF old, mid, new, d
    <3>5. Slot(d) = [Slot(c) EXCEPT !.asked = u.type, !.fate = "pending"]
      BY <3>1, <3>2, <3>3, <3>4
    <3> QED
      BY <2>1, <3>5 DEF Promise!Accepting
  <2> QED
    BY <1>2, <2>1
<1>4. Runs(d, Enqueue(c, u))
  <2> DEFINE p == Push(d, u)
  <2>1. Enqueue(c, u) = IF ~InProgress(c, u) THEN StartNextWork(p)
                        ELSE IF u.type \in Power
                        THEN [d EXCEPT !.queue = Without(d.queue, Power)] ELSE d
    BY DEF Enqueue, Noted
  <2>2. CASE ~InProgress(c, u)
    <3>1. Good(p)
      BY <2>2, PushGood
    <3>2. Slot(p) = Slot(d)
      BY <1>2 DEF Push, Slot, Client
    <3> HIDE DEF p, d
    <3>3. StartNextWork(p) = p \/ Closes(Ended(p, "lingered"), StartNextWork(p))
      BY <3>1, StartNextWorkSlot DEF Good
    <3>4. Runs(p, StartNextWork(p))
      BY <3>1, <3>3, EndedRuns, StandStill DEF Good, Ends, Fates
    <3> QED
      BY <2>1, <2>2, <3>2, <3>4 DEF Runs
  <2>3. Slot([d EXCEPT !.queue = Without(d.queue, Power)]) = Slot(d)
    BY <1>2 DEF Slot, Client
  <2> QED
    BY <2>1, <2>2, <2>3, StandStill
<1> HIDE DEF d
<1> QED
  BY <1>2, <1>3, <1>4 DEF Moves

\* onError is such a step.
LEMMA OnErrorRuns ==
  ASSUME NEW c, Good(c)
  PROVE  Runs(c, OnError(c))
<1> DEFINE d == [c EXCEPT !.status = "DISCONNECTED"]
<1>1. Good(d) /\ Slot(d) = Slot(c) /\ c \in Client
  BY DisconnectedFrame, FrameGood, FrameSlot DEF Good
<1> HIDE DEF d
<1>2. Runs(c, Finish(c, "aborted")) /\ Runs(d, Finish(d, "gaveup")) /\ Runs(d, Finish(d, "aborted"))
  BY <1>1, FinishRuns DEF Ends, Fates
<1>3. Runs(c, Finish(d, "gaveup")) /\ Runs(c, Finish(d, "aborted"))
  BY <1>1, <1>2 DEF Runs
<1>4. Slot(ArmTimer(c, "retry")) = Slot(c)
  BY <1>1 DEF ArmTimer, Slot, Client
<1>5. OnError(c) \in {Finish(c, "aborted"), ArmTimer(c, "retry"), Finish(d, "gaveup"),
                      Finish(d, "aborted"), d}
  BY DEF OnError, d
<1> QED
  BY <1>1, <1>2, <1>3, <1>4, <1>5, StandStill

\* An answer carries the conversation on, or ends the unit.
LEMMA RespondRuns ==
  ASSUME NEW c, Good(c), NEW r, NEW a
  PROVE  Runs(c, Respond(c, r, a))
<1> DEFINE s == Step(c.work, r, a)
<1> DEFINE b == [c EXCEPT !.buttonUp = c.buttonUp \/ a = "ok"]
<1>1. c \in Client
  BY DEF Good
<1>2. s \in Requests \cup Outcomes \cup {"poll", "on", "off", "button", "nothing"}
  BY StepType
<1>3. /\ s = "on" => c.work.type = "POWER_ON"
      /\ s = "off" => c.work.type = "POWER_OFF"
      /\ s = "done" => c.work.type \notin Power
  BY StepMeans
<1>4. s = "button" => c.work.type = "BUTTON"
  BY DEF Step, PowerOnStep, PowerOffStep, BlankStep
<1>5. Good(b) /\ Slot(b) = Slot(c) /\ b.work = c.work
  <2>1. (c.buttonUp \/ a = "ok") \in BOOLEAN
    OBVIOUS
  <2>2. b \in Client
    BY <1>1, <2>1 DEF Client
  <2>3. Frame(c, b)
    BY <1>1, <2>2 DEF Frame, Linked, Client
  <2> HIDE DEF b
  <2> QED
    BY <2>3, FrameGood, FrameSlot DEF Frame
<1>6. Respond(c, r, a) =
        CASE s \in Requests -> Send(c, s)
          [] s = "poll" -> ArmTimer(c, "poll")
          [] s = "on" -> Conclude(c, TRUE)
          [] s = "off" -> Conclude(c, FALSE)
          [] s = "button" -> Finish(b, "done")
          [] s = "nothing" -> c
          [] OTHER -> Finish(c, s)
  BY DEF Respond
<1> HIDE DEF s, b
<1>7. s \in Requests => Slot(Send(c, s)) = Slot(c)
  BY <1>1, SendFrame, FrameSlot
<1>8. Slot(ArmTimer(c, "poll")) = Slot(c)
  BY <1>1, PollFrame, FrameSlot
<1>9. ASSUME s \in {"on", "off"}
      PROVE  Runs(c, Conclude(c, s = "on"))
  <2>1. (c.work.type = "POWER_ON") = (s = "on") /\ c.work.type \in Power
    BY <1>3, <1>9 DEF Power
  <2> QED
    BY <2>1, ConcludeRuns
<1>10. /\ s = "on" => Runs(c, Conclude(c, TRUE))
       /\ s = "off" => Runs(c, Conclude(c, FALSE))
  <2>1. (s = "on" => (s = "on") = TRUE) /\ (s = "off" => (s = "on") = FALSE)
    OBVIOUS
  <2> QED
    BY <1>9, <2>1
<1>11. s = "button" => Runs(c, Finish(b, "done"))
  <2>1. s = "button" => Runs(b, Finish(b, "done"))
    BY <1>4, <1>5, FinishRuns DEF Power, Fates, Ends
  <2> QED
    BY <1>5, <2>1 DEF Runs
<1>12. s \in Outcomes => Runs(c, Finish(c, s))
  BY <1>3, FinishRuns DEF Outcomes, Fates, Ends
<1> QED
  BY <1>2, <1>6, <1>7, <1>8, <1>10, <1>11, <1>12, StandStill

\* What a handler does last, it may do twice: after all was thrown away nothing is left
\* to begin or to throw away, and a command that begins is not ended at once.
LEMMA ClosesOnce ==
  ASSUME NEW b, NEW c, NEW d, Good(c), c.work.type \notin Power, Closes(b, c), Closes(c, d)
  PROVE  Closes(b, d)
<1> DEFINE e == Slot(b)
<1>1. /\ Slot(c).doing = "NONE" /\ Slot(c).fate = c.fate /\ Slot(c).asked = c.intent
      /\ Slot(c).lit = c.poweredOn
  BY DEF Slot
<1>2. CASE Slot(c) = e
  BY <1>2 DEF Closes
<1>3. CASE Slot(c) \in Promise!Beginning(e)
  <2>1. e.fate = "pending" /\ Slot(c) = [e EXCEPT !.doing = b.intent] /\ b.fate = "pending"
    BY <1>3 DEF Promise!Beginning, Slot
  <2>2. [e EXCEPT !.doing = b.intent].fate = e.fate /\ [e EXCEPT !.doing = b.intent].asked = b.intent
          /\ [e EXCEPT !.doing = b.intent].doing = b.intent
    BY DEF Slot
  <2>3. c.fate = "pending" /\ c.intent = "NONE"
    BY <1>1, <2>1, <2>2
  <2>4. c.work.type # "NONE" /\ \A i \in DOMAIN c.queue : c.queue[i].type # "NONE"
    <3>1. c \in Client
      BY DEF Good
    <3>2. c.work \in Work /\ \A i \in DOMAIN c.queue : c.queue[i] \in Command
      BY <3>1, Fields
    <3> QED
      BY <3>2 DEF Work, Command, WorkTypes
  <2> QED
    BY <2>3, <2>4 DEF Good, Kept, Holds
<1>4. CASE Slot(c) \in Promise!Dropping(e)
  <2>1. c.fate # "pending"
    <3>1. PICK o \in {"declined", "aborted", "gaveup", "lingered", "closed", "dropped", "replaced"} :
            Slot(c) = [e EXCEPT !.doing = "NONE", !.fate = IF e.fate = "pending" THEN o ELSE e.fate]
      BY <1>4 DEF Promise!Dropping
    <3> DEFINE g == IF e.fate = "pending" THEN o ELSE e.fate
    <3>2. g # "pending"
      OBVIOUS
    <3>3. Slot(c) = [Slot(b) EXCEPT !.doing = "NONE", !.fate = g]
      BY <3>1
    <3> HIDE DEF g
    <3>4. Slot(c) = [asked |-> b.intent, fate |-> g, lit |-> b.poweredOn, doing |-> "NONE"]
      BY <3>3, SlotUpdate
    <3> QED
      BY <1>1, <3>2, <3>4
  <2>2. Promise!Beginning(Slot(c)) = {}
    BY <1>1, <2>1 DEF Promise!Beginning
  <2>3. ASSUME Slot(d) \in Promise!Dropping(Slot(c)) PROVE Slot(d) = Slot(c)
    <3>1. Slot(d) = [Slot(c) EXCEPT !.doing = "NONE", !.fate = c.fate]
      BY <1>1, <2>1, <2>3 DEF Promise!Dropping
    <3>2. Slot(d) = [asked |-> c.intent, fate |-> c.fate, lit |-> c.poweredOn, doing |-> "NONE"]
      BY <3>1, SlotUpdate
    <3> QED
      BY <3>2 DEF Slot
  <2> QED
    BY <1>4, <2>2, <2>3 DEF Closes
<1> QED
  BY <1>2, <1>3, <1>4 DEF Closes

\* Members that leave the work and its outcome alone do not count before a step.
LEMMA FrameRuns ==
  ASSUME NEW b, NEW c, NEW d, Frame(b, c), Runs(c, d)
  PROVE  Runs(b, d)
  BY FrameSlot DEF Runs

\* A step that accepts no command is a step.
LEMMA RunsMoves ==
  ASSUME NEW c, NEW d, Runs(c, d)
  PROVE  Moves(c, d)
  BY DEF Moves

\* The webOS handshake is answered: a unit may be enqueued and then one given up.
LEMMA RegisteredRuns ==
  ASSUME NEW c, Good(c)
  PROVE  Runs(c, Registered(c))
<1> DEFINE u == [type |-> "REQUEST", forced |-> FALSE]
<1> DEFINE k == [c EXCEPT !.key = TRUE]
<1> DEFINE d == IF c.key THEN c ELSE Enqueue(k, u)
<1> DEFINE more == {"POWER_ON", "POWER_OFF", "BLANK_SCREEN", "KEEPALIVE", "REQUEST", "BUTTON"}
<1>1. u \in Command /\ u.type \notin Power
  BY DEF Command, WorkTypes, Power
<1>2. Frame(c, k)
  <2>1. c \in Client
    BY DEF Good
  <2>2. k \in Client
    BY <2>1 DEF Client
  <2> QED
    BY <2>1, <2>2 DEF Frame, Linked, Client
<1>3. Registered(c) = IF d.work.type \in more THEN Send(d, FirstRequest(d.work.type))
                      ELSE Finish(d, "aborted")
  BY DEF Registered
<1> HIDE DEF u, k
<1>4. Good(d) /\ Runs(c, d)
  <2>1. Good(k)
    BY <1>2, FrameGood
  <2>2. Good(Enqueue(k, u)) /\ Runs(c, Enqueue(k, u))
    BY <1>1, <1>2, <2>1, EnqueueGood, EnqueueMoves, FrameRuns
  <2>3. Runs(c, c)
    BY StandStill
  <2> QED
    BY <2>2, <2>3
<1> HIDE DEF d
<1>5. PICK e : Slot(e) \in {Slot(c)} \cup Promise!Ending(Slot(c)) /\ Closes(e, d)
  BY <1>4 DEF Runs
<1>6. CASE d.work.type \in more
  <2>1. FirstRequest(d.work.type) \in Requests
    BY DEF FirstRequest, Requests
  <2>2. Slot(Send(d, FirstRequest(d.work.type))) = Slot(d)
    BY <1>4, <2>1, SendFrame, FrameSlot DEF Good
  <2> QED
    BY <1>3, <1>5, <1>6, <2>2 DEF Runs, Closes
<1>7. CASE d.work.type \notin more
  <2>1. d.work.type \notin Power
    BY <1>7 DEF Power
  <2>2. Closes(Ended(d, "aborted"), Finish(d, "aborted"))
    BY <1>4, FinishSlot DEF Good, Reached, Ends, Fates
  <2>3. Slot(Ended(d, "aborted")) = Slot(d)
    <3>1. Slot(d).doing = "NONE" /\ d \in Client
      BY <1>4, <2>1 DEF Slot, Good
    <3> QED
      BY <3>1, EndedSlot
  <2>4. Closes(d, Finish(d, "aborted"))
    BY <2>2, <2>3 DEF Closes
  <2>5. Closes(e, Finish(d, "aborted"))
    BY <1>4, <1>5, <2>1, <2>4, ClosesOnce
  <2> QED
    BY <1>3, <1>5, <1>7, <2>5 DEF Runs
<1> QED
  BY <1>6, <1>7

\* A display that is not paired asks for the handshake again.
LEMMA UnregisteredRuns ==
  ASSUME NEW c, Good(c)
  PROVE  Runs(c, Unregistered(c))
<1> DEFINE k == [c EXCEPT !.key = FALSE]
<1> DEFINE w == [c EXCEPT !.wire = <<"register">> \o c.wire]
<1>1. c \in Client /\ k \in Client
  BY DEF Good, Client
<1>2. Slot(k) = Slot(c) /\ Slot(w) = Slot(c)
  BY <1>1 DEF Slot, Client
<1>3. Unregistered(c) = IF c.key THEN Send(k, "register") ELSE w
  BY DEF Unregistered
<1> HIDE DEF k, w
<1>4. Slot(Send(k, "register")) = Slot(k)
  BY <1>1, SendFrame, FrameSlot DEF Requests
<1> QED
  BY <1>2, <1>3, <1>4, StandStill

\* An error response ends the unit.
LEMMA RejectRuns ==
  ASSUME NEW c, Good(c), NEW r
  PROVE  Runs(c, Reject(c, r))
<1>1. Runs(c, Finish(c, "aborted"))
  BY FinishRuns DEF Ends, Fates
<1>2. CASE c.work.type = "POWER_ON"
  <2>1. (c.work.type = "POWER_ON") = TRUE /\ c.work.type \in Power
    BY <1>2 DEF Power
  <2>2. Runs(c, Conclude(c, TRUE))
    BY <2>1, ConcludeRuns
  <2> QED
    BY <1>1, <2>2 DEF Reject
<1>3. CASE c.work.type # "POWER_ON"
  BY <1>1, <1>3 DEF Reject
<1> QED
  BY <1>2, <1>3

\* An answer is read.
LEMMA OnReadRuns ==
  ASSUME NEW c, Good(c), NEW a, c.wire # <<>>, c.chain \in {"open", "closing"}
  PROVE  Runs(c, OnRead(c, a))
<1> DEFINE d == Heard(c)
<1>1. Frame(c, d) /\ Good(d)
  BY HeardFrame, FrameGood DEF Good
<1>2. OnRead(c, a) =
        CASE a = "error" -> Reject(d, Head(c.wire))
          [] a = "garbage" -> Finish(d, "aborted")
          [] a = "registered" -> Registered(d)
          [] a = "unregistered" -> Unregistered(d)
          [] OTHER -> Respond(d, Head(c.wire), a)
  BY DEF OnRead, Heard
<1> HIDE DEF d
<1>3. /\ Runs(d, Reject(d, Head(c.wire))) /\ Runs(d, Finish(d, "aborted"))
      /\ Runs(d, Registered(d)) /\ Runs(d, Unregistered(d))
      /\ Runs(d, Respond(d, Head(c.wire), a))
  BY <1>1, RejectRuns, RegisteredRuns, UnregisteredRuns, RespondRuns, FinishRuns DEF Ends, Fates
<1>4. Runs(d, OnRead(c, a))
  BY <1>2, <1>3
<1> QED
  BY <1>1, <1>4, FrameRuns

-----------------------------------------------------------------------------
(* The handlers, and the promise.                                            *)

\* The handlers that react to something.
LEMMA ReactsMoves ==
  ASSUME NEW c, NEW d, Good(c), Reacts(c, d)
  PROVE  Moves(c, d)
<1>1. PICK e : /\ Frame(c, e)
               /\ \/ d = e
                  \/ d = OnError(e)
                  \/ d = DoClose(e, "dropped")
                  \/ \E u \in Command : d = Enqueue(e, u)
  BY DEF Reacts
<1>2. Good(e) /\ Slot(e) = Slot(c) /\ e \in Client
  BY <1>1, FrameGood, FrameSlot DEF Good
<1>3. Runs(e, DoClose(e, "dropped"))
  BY <1>2, DoCloseSlot DEF Runs, Closes
<1>4. Runs(e, OnError(e)) /\ Runs(e, e) /\ \A u \in Command : Moves(e, Enqueue(e, u))
  BY <1>2, OnErrorRuns, StandStill, EnqueueMoves
<1>5. Moves(e, d)
  BY <1>1, <1>3, <1>4, RunsMoves
<1> QED
  BY <1>2, <1>5 DEF Moves

\* A retry, the end of the wake loop and the clock are no steps.
LEMMA OthersStandStill ==
  ASSUME Good(client), OnRetryConnection \/ OnWOL \/ WorkAges
  PROVE  Slot(client') = Slot(client)
<1>1. client \in Client /\ client.work \in Work
  BY Fields DEF Good
<1>2. CASE OnRetryConnection
  BY <1>1, <1>2 DEF OnRetryConnection, Run, RunWOL, Slot, Client, Work
<1>3. CASE OnWOL
  BY <1>1, <1>3 DEF OnWOL, Slot, Client
<1>4. CASE WorkAges
  BY <1>1, <1>4 DEF WorkAges, Slot, Client, Work
<1> QED
  BY <1>2, <1>3, <1>4

\* A delayed request that takes the place of a power command ends it.
LEMMA OnDelayedRequestRuns ==
  ASSUME Good(client), OnDelayedRequest
  PROVE  Runs(client, client')
<1> DEFINE s == Settle(client, "replaced")
<1> DEFINE w == [client.work EXCEPT !.type = "REQUEST"]
<1> DEFINE c == [s EXCEPT !.delayed = FALSE, !.work = w]
<1>1. client \in Client /\ client.work \in Work
  BY Fields DEF Good
<1>2. w \in Work /\ w.type = "REQUEST"
  BY <1>1 DEF Work, WorkTypes
<1>3. s \in Client
  BY <1>1, SettleType DEF Fates
<1>4. s.work = client.work /\ s.intent = client.intent /\ s.poweredOn = client.poweredOn
  BY <1>1 DEF Settle, Client
<1>5. Ended(client, "replaced") = [s EXCEPT !.work = NoWork]
  BY DEF Ended
<1> HIDE DEF s
<1>6. client' = Contact(c)
  <2>1. c = [s EXCEPT !.delayed = FALSE, !.work.type = "REQUEST"]
    BY <1>1, <1>3, <1>4 DEF Client, Work
  <2> HIDE DEF c
  <2> QED
    BY <2>1 DEF OnDelayedRequest, s
<1> HIDE DEF w
<1>7. c \in Client
  BY <1>2, <1>3 DEF Client
<1>8. Slot(c) = Slot(Ended(client, "replaced"))
  BY <1>2, <1>3, <1>5 DEF Slot, Client, NoWork, Power
<1> HIDE DEF c
<1>9. Slot(client') = Slot(c)
  BY <1>6, <1>7, ContactFrame, FrameSlot
<1>10. Closes(Ended(client, "replaced"), client')
  BY <1>8, <1>9, StandStill
<1> QED
  BY <1>1, <1>10, EndedRuns DEF Ends, Fates

\* Every handler makes a step of the promise, or none.
LEMMA NextMoves ==
  ASSUME Good(client), Next
  PROVE  Moves(client, client')
<1>1. OnReadAnswer => Runs(client, client')
  BY OnReadRuns DEF OnReadAnswer
<1>2. OnRetryConnection \/ OnWOL \/ WorkAges => Runs(client, client')
  BY OthersStandStill, StandStill
<1> QED
  BY <1>1, <1>2, NextReacts, ReactsMoves, OnDelayedRequestRuns, RunsMoves

\* A session implements PowerSession whatever handlers run and in whatever order: a
\* command that begins is the one accepted last, the power state is noted as the command
\* that was carried out, and no command loses its outcome.
THEOREM KeepsItsPromise == Spec => ImplementsPowerSession
<1>1. Init => Promise!Init
  <2> SUFFICES ASSUME Init PROVE Promise!Init
    OBVIOUS
  <2>1. /\ client.intent = "NONE" /\ client.fate = "none" /\ client.poweredOn = FALSE
        /\ client.work = NoWork
    BY DEF Init, InitClient
  <2>2. client.work.type \notin Power
    BY <2>1 DEF NoWork, Power
  <2> QED
    BY <2>1, <2>2 DEF Promise!Init
<1>2. IInv /\ [Next]_vars => [Promise!Next]_(Slot(client))
  <2> SUFFICES ASSUME IInv, [Next]_vars, Slot(client') # Slot(client) PROVE Promise!Next
    BY DEF Slot
  <2>1. Next
    BY DEF vars
  <2>2. Moves(client, client')
    BY <2>1, NextMoves DEF IInv
  <2> QED
    BY <2>2 DEF Moves, Runs, Closes, Slot, Promise!Next
<1> QED
  BY <1>1, <1>2, Inductive, PTL DEF Spec, ImplementsPowerSession, Promise!Spec, Slot

-----------------------------------------------------------------------------
(* The order of the queue.                                                   *)

\* t is what is left of s when units are taken from its front.
Back(s, t) ==
    /\ s \in Seq(Command) /\ t \in Seq(Command) /\ Len(t) <= Len(s)
    /\ \A i \in 1 .. Len(t) : t[i] = s[Len(s) - Len(t) + i]

\* Nothing is taken, or everything.
LEMMA BackAll ==
  ASSUME NEW s \in Seq(Command)
  PROVE  Back(s, s) /\ Back(s, <<>>)
<1>1. Len(s) \in Nat /\ \A i \in 1 .. Len(s) : Len(s) - Len(s) + i = i
  OBVIOUS
<1>2. <<>> \in Seq(Command) /\ Len(<<>>) = 0 /\ 1 .. 0 = {}
  OBVIOUS
<1> QED
  BY <1>1, <1>2 DEF Back

\* Units may be taken in several turns.
LEMMA BackBack ==
  ASSUME NEW s, NEW t, NEW u, Back(s, t), Back(t, u)
  PROVE  Back(s, u)
<1>1. Len(s) \in Nat /\ Len(t) \in Nat /\ Len(u) \in Nat /\ Len(u) <= Len(t) /\ Len(t) <= Len(s)
  BY DEF Back
<1>2. ASSUME NEW i \in 1 .. Len(u) PROVE u[i] = s[Len(s) - Len(u) + i]
  <2> DEFINE j == Len(t) - Len(u) + i
  <2>1. j \in 1 .. Len(t) /\ Len(s) - Len(t) + j = Len(s) - Len(u) + i
    BY <1>1
  <2>2. u[i] = t[j]
    BY <1>2 DEF Back
  <2> HIDE DEF j
  <2>3. t[j] = s[Len(s) - Len(t) + j]
    BY <2>1 DEF Back
  <2> QED
    BY <2>1, <2>2, <2>3
<1> QED
  BY <1>1, <1>2 DEF Back

\* A unit is added at the back of both.
LEMMA BackAppend ==
  ASSUME NEW s, NEW t, Back(s, t), NEW u \in Command
  PROVE  Back(Append(s, u), Append(t, u))
<1> DEFINE a == Append(s, u)
<1> DEFINE b == Append(t, u)
<1>1. s \in Seq(Command) /\ t \in Seq(Command) /\ Len(t) <= Len(s)
  BY DEF Back
<1>2. /\ a \in Seq(Command) /\ Len(a) = Len(s) + 1 /\ Len(s) \in Nat
      /\ a[Len(s) + 1] = u /\ \A i \in 1 .. Len(s) : a[i] = s[i]
  BY <1>1
<1>3. /\ b \in Seq(Command) /\ Len(b) = Len(t) + 1 /\ Len(t) \in Nat
      /\ b[Len(t) + 1] = u /\ \A i \in 1 .. Len(t) : b[i] = t[i]
  BY <1>1
<1> HIDE DEF a, b
<1>4. ASSUME NEW i \in 1 .. Len(b) PROVE b[i] = a[Len(a) - Len(b) + i]
  <2> DEFINE j == Len(s) - Len(t) + i
  <2>1. Len(a) - Len(b) + i = j
    BY <1>2, <1>3
  <2>2. CASE i = Len(t) + 1
    <3>1. j = Len(s) + 1
      BY <1>2, <1>3, <2>2
    <3> HIDE DEF j
    <3> QED
      BY <1>2, <1>3, <2>1, <2>2, <3>1
  <2>3. CASE i # Len(t) + 1
    <3>1. i \in 1 .. Len(t) /\ j \in 1 .. Len(s)
      BY <1>1, <1>2, <1>3, <2>3
    <3>2. t[i] = s[j]
      BY <3>1 DEF Back
    <3> HIDE DEF j
    <3> QED
      BY <1>2, <1>3, <2>1, <3>1, <3>2
  <2> QED
    BY <2>2, <2>3
<1> QED
  BY <1>1, <1>2, <1>3, <1>4 DEF Back, a, b

\* As the property says it.
LEMMA BackIsSubSeq ==
  ASSUME NEW s, NEW t, Back(s, t)
  PROVE  \E k \in 0 .. Len(s) : t = SubSeq(s, k + 1, Len(s))
<1> DEFINE k == Len(s) - Len(t)
<1> DEFINE b == SubSeq(s, k + 1, Len(s))
<1>1. /\ s \in Seq(Command) /\ t \in Seq(Command) /\ Len(s) \in Nat /\ Len(t) \in Nat
      /\ Len(t) <= Len(s) /\ \A i \in 1 .. Len(t) : t[i] = s[k + i]
  BY DEF Back
<1>2. k \in 0 .. Len(s) /\ k + 1 \in Int /\ Len(s) \in Int /\ Len(s) - (k + 1) + 1 = Len(t)
  BY <1>1
<1>3. \A i \in k + 1 .. Len(s) : s[i] \in Command
  BY <1>1, <1>2
<1>4. /\ b \in Seq(Command) /\ Len(b) = IF k + 1 <= Len(s) THEN Len(s) - (k + 1) + 1 ELSE 0
      /\ \A i \in 1 .. Len(s) - (k + 1) + 1 : b[i] = s[k + 1 + i - 1]
  BY <1>2, <1>3, SubSeqProperties
<1> HIDE DEF b
<1>5. Len(b) = Len(t)
  BY <1>1, <1>2, <1>4
<1>6. \A i \in 1 .. Len(t) : k + 1 + i - 1 = k + i
  BY <1>1
<1> HIDE DEF k
<1>7. \A i \in 1 .. Len(t) : t[i] = b[i]
  BY <1>1, <1>2, <1>4, <1>6
<1>8. t = b
  BY <1>1, <1>4, <1>5, <1>7, SeqEqual
<1> QED
  BY <1>2, <1>8 DEF b

\* g solves the recursion of Without up to n.
Solves(q, T, g, n) == \A i \in 0 .. n : g[i] = KeptBody(q, T, g, i)

Alike(q, p, n) == \A i \in 1 .. n : q[i] = p[i]

\* Two solutions agree up to where they go, on queues that do.
LEMMA KeptUnique ==
  ASSUME NEW q, NEW p, NEW n \in Nat, NEW T, NEW f, NEW g,
         Alike(q, p, n), Solves(q, T, f, n), Solves(p, T, g, n)
  PROVE  f[n] = g[n]
<1> DEFINE S == {i \in 0 .. n : f[i] = g[i]}
<1>1. 0 \in S
  <2>1. 0 \in 0 .. n
    OBVIOUS
  <2>2. f[0] = <<>> /\ g[0] = <<>>
    BY <2>1 DEF KeptBody, Solves
  <2> QED
    BY <2>1, <2>2
<1>2. ASSUME NEW i \in 0 .. n, i < n, i \in S PROVE i + 1 \in S
  <2>1. i + 1 \in 0 .. n /\ i + 1 \in 1 .. n /\ i + 1 # 0 /\ (i + 1) - 1 = i
    BY <1>2
  <2>2. f[i] = g[i] /\ q[i + 1] = p[i + 1]
    BY <1>2, <2>1 DEF Alike
  <2>3. f[i + 1] = g[i + 1]
    BY <2>1, <2>2 DEF KeptBody, Solves
  <2> QED
    BY <2>1, <2>3
<1> HIDE DEF S
<1>3. 0 .. n \subseteq S
  BY <1>1, <1>2, UpTo
<1> QED
  BY <1>3 DEF S

\* What Without does at the back of the queue.
LEMMA WithoutAppend ==
  ASSUME NEW q \in Seq(Command), NEW u \in Command, NEW T
  PROVE  Without(Append(q, u), T) = IF u.type \in T THEN Without(q, T)
                                    ELSE Append(Without(q, T), u)
<1> DEFINE p == Append(q, u)
<1>1. /\ p \in Seq(Command) /\ Len(p) = Len(q) + 1 /\ Len(q) \in Nat
      /\ p[Len(q) + 1] = u /\ \A i \in 1 .. Len(q) : p[i] = q[i]
  OBVIOUS
<1> HIDE DEF p
<1>2. PICK f : /\ \A i \in 0 .. Len(p) : f[i] = KeptBody(p, T, f, i)
               /\ Without(p, T) = f[Len(p)]
  BY <1>1, WithoutSolves
<1>3. PICK g : /\ \A i \in 0 .. Len(q) : g[i] = KeptBody(q, T, g, i)
               /\ Without(q, T) = g[Len(q)]
  BY WithoutSolves
<1>4. Solves(p, T, f, Len(q)) /\ Solves(q, T, g, Len(q)) /\ Alike(p, q, Len(q))
  BY <1>1, <1>2, <1>3 DEF Solves, Alike
<1>5. f[Len(q)] = g[Len(q)]
  BY <1>1, <1>4, KeptUnique
<1>6. f[Len(p)] = IF u.type \in T THEN f[Len(q)] ELSE Append(f[Len(q)], u)
  <2>1. Len(p) \in 0 .. Len(p) /\ Len(p) # 0 /\ Len(p) - 1 = Len(q) /\ p[Len(p)] = u
    BY <1>1
  <2> QED
    BY <1>2, <2>1 DEF KeptBody
<1> QED
  BY <1>2, <1>3, <1>5, <1>6 DEF p

\* Nothing is left of an empty queue.
LEMMA WithoutEmpty ==
  ASSUME NEW T
  PROVE  Without(<<>>, T) = <<>>
<1>1. <<>> \in Seq(Command) /\ Len(<<>>) = 0
  OBVIOUS
<1>2. PICK g : /\ \A i \in 0 .. Len(<<>>) : g[i] = KeptBody(<<>>, T, g, i)
               /\ Without(<<>>, T) = g[Len(<<>>)]
  BY <1>1, WithoutSolves
<1> QED
  BY <1>1, <1>2 DEF KeptBody

\* Units that are left out anyway may be left out first.
LEMMA WithoutTwice ==
  ASSUME NEW q \in Seq(Command), NEW R, NEW T, R \subseteq T
  PROVE  Without(Without(q, R), T) = Without(q, T)
<1>1. PICK g : /\ \A i \in 0 .. Len(q) : g[i] = KeptBody(q, R, g, i)
               /\ Without(q, R) = g[Len(q)]
  BY WithoutSolves
<1>2. PICK h : /\ \A i \in 0 .. Len(q) : h[i] = KeptBody(q, T, h, i)
               /\ Without(q, T) = h[Len(q)]
  BY WithoutSolves
<1> DEFINE S == {n \in 0 .. Len(q) : g[n] \in Seq(Command) /\ Without(g[n], T) = h[n]}
<1>3. Len(q) \in Nat
  OBVIOUS
<1>4. 0 \in S
  <2>1. 0 \in 0 .. Len(q) /\ <<>> \in Seq(Command)
    BY <1>3
  <2>2. g[0] = <<>> /\ h[0] = <<>>
    BY <1>1, <1>2, <2>1 DEF KeptBody
  <2> QED
    BY <2>1, <2>2, WithoutEmpty
<1>5. ASSUME NEW n \in 0 .. Len(q), n < Len(q), n \in S PROVE n + 1 \in S
  <2> DEFINE u == q[n + 1]
  <2> DEFINE old == g[n]
  <2>1. n + 1 \in 0 .. Len(q) /\ n + 1 # 0 /\ (n + 1) - 1 = n /\ u \in Command
    BY <1>3, <1>5
  <2>2. /\ g[n + 1] = IF u.type \in R THEN old ELSE Append(old, u)
        /\ h[n + 1] = IF u.type \in T THEN h[n] ELSE Append(h[n], u)
    BY <1>1, <1>2, <2>1 DEF KeptBody
  <2>3. old \in Seq(Command) /\ Without(old, T) = h[n]
    BY <1>5
  <2> HIDE DEF u, old
  <2>4. Without(Append(old, u), T) = h[n + 1]
    BY <2>1, <2>2, <2>3, WithoutAppend
  <2>5. CASE u.type \in R
    BY <2>1, <2>2, <2>3, <2>5
  <2>6. CASE u.type \notin R
    <3>1. g[n + 1] = Append(old, u) /\ Append(old, u) \in Seq(Command)
      BY <2>1, <2>2, <2>3, <2>6
    <3> QED
      BY <2>1, <2>4, <3>1
  <2> QED
    BY <2>5, <2>6
<1> HIDE DEF S
<1>6. 0 .. Len(q) \subseteq S
  BY <1>3, <1>4, <1>5, UpTo
<1>7. Len(q) \in S
  BY <1>3, <1>6
<1> QED
  BY <1>1, <1>2, <1>7 DEF S

\* The back of a queue, filtered, is the back of the filtered queue.
LEMMA WithoutBack ==
  ASSUME NEW q, NEW r, Back(q, r), NEW T
  PROVE  Back(Without(q, T), Without(r, T))
<1> DEFINE k == Len(q) - Len(r)
<1>1. /\ q \in Seq(Command) /\ r \in Seq(Command) /\ Len(q) \in Nat /\ Len(r) \in Nat
      /\ Len(r) <= Len(q) /\ \A i \in 1 .. Len(r) : r[i] = q[k + i]
  BY DEF Back
<1>2. k \in Nat /\ k + Len(r) = Len(q)
  BY <1>1
<1> HIDE DEF k
<1>3. PICK g \in [0 .. Len(q) -> Seq(Command)] :
        \A i \in 0 .. Len(q) : g[i] = KeptBody(q, T, g, i)
  BY <1>1, KeptExists
<1>4. PICK h : /\ \A i \in 0 .. Len(r) : h[i] = KeptBody(r, T, h, i)
               /\ Without(r, T) = h[Len(r)]
  BY <1>1, WithoutSolves
<1>5. PICK f : /\ \A i \in 0 .. Len(q) : f[i] = KeptBody(q, T, f, i)
               /\ Without(q, T) = f[Len(q)]
  BY <1>1, WithoutSolves
<1>6. f[Len(q)] = g[Len(q)]
  <2>1. Solves(q, T, f, Len(q)) /\ Solves(q, T, g, Len(q)) /\ Alike(q, q, Len(q))
    BY <1>3, <1>5 DEF Solves, Alike
  <2> QED
    BY <1>1, <2>1, KeptUnique
<1> DEFINE S == {n \in 0 .. Len(r) : Back(g[k + n], h[n])}
<1>7. 0 \in S
  <2>1. 0 \in 0 .. Len(r) /\ k + 0 \in 0 .. Len(q)
    BY <1>1, <1>2
  <2>2. h[0] = <<>> /\ g[k + 0] \in Seq(Command)
    BY <1>3, <1>4, <2>1 DEF KeptBody
  <2> QED
    BY <2>1, <2>2, BackAll
<1>8. ASSUME NEW n \in 0 .. Len(r), n < Len(r), n \in S PROVE n + 1 \in S
  <2> DEFINE u == r[n + 1]
  <2>1. /\ n + 1 \in 0 .. Len(r) /\ n + 1 \in 1 .. Len(r) /\ n + 1 # 0 /\ (n + 1) - 1 = n
        /\ k + (n + 1) \in 0 .. Len(q) /\ k + (n + 1) # 0 /\ (k + (n + 1)) - 1 = k + n
    BY <1>1, <1>2, <1>8
  <2>2. u \in Command /\ q[k + (n + 1)] = u
    BY <1>1, <2>1
  <2> HIDE DEF u
  <2>3. /\ h[n + 1] = IF u.type \in T THEN h[n] ELSE Append(h[n], u)
        /\ g[k + (n + 1)] = IF u.type \in T THEN g[k + n] ELSE Append(g[k + n], u)
    BY <1>3, <1>4, <2>1, <2>2 DEF KeptBody, u
  <2>4. Back(g[k + n], h[n])
    BY <1>8
  <2>5. Back(Append(g[k + n], u), Append(h[n], u))
    BY <2>2, <2>4, BackAppend
  <2>6. Back(g[k + (n + 1)], h[n + 1])
    BY <2>3, <2>4, <2>5
  <2> QED
    BY <2>1, <2>6
<1> HIDE DEF S
<1>9. 0 .. Len(r) \subseteq S
  BY <1>1, <1>7, <1>8, UpTo
<1>10. Len(r) \in S
  BY <1>1, <1>9
<1>11. Back(g[k + Len(r)], h[Len(r)])
  BY <1>10 DEF S
<1> QED
  BY <1>2, <1>4, <1>5, <1>6, <1>11

-----------------------------------------------------------------------------
(* What the members and the handlers do to the queue.                        *)

\* Ordinary units are taken from the front,
Takes(c, d) == Back(Ordinary(c.queue), Ordinary(d.queue))

\* perhaps after one was added at the back.
New == {<<>>} \cup {<<u>> : u \in Command}

Adds(c, d) == \E new \in New : Back(Ordinary(c.queue) \o new, Ordinary(d.queue))

\* The ordinary units of a queue are units.
LEMMA OrdinaryUnits ==
  ASSUME NEW q \in Seq(Command)
  PROVE  Ordinary(q) \in Seq(Command)
BY WithoutUnits DEF Ordinary

\* A queue that is left alone, or emptied.
LEMMA LeftOrEmptied ==
  ASSUME NEW c \in Client, NEW d, d.queue = c.queue \/ d.queue = <<>>
  PROVE  Takes(c, d)
<1>1. Ordinary(c.queue) \in Seq(Command)
  BY Fields, OrdinaryUnits
<1>2. Ordinary(<<>>) = <<>>
  BY WithoutEmpty DEF Ordinary
<1> QED
  BY <1>1, <1>2, BackAll DEF Takes

\* One after the other.
LEMMA TakesTakes ==
  ASSUME NEW c, NEW d, NEW e, Takes(d, e)
  PROVE  /\ Takes(c, d) => Takes(c, e)
         /\ Adds(c, d) => Adds(c, e)
BY BackBack DEF Takes, Adds

\* To add nothing is to add.
LEMMA TakesAdds ==
  ASSUME NEW c, NEW d, Takes(c, d)
  PROVE  Adds(c, d)
<1>1. Ordinary(c.queue) \in Seq(Command)
  BY DEF Takes, Back
<1>2. Ordinary(c.queue) \o <<>> = Ordinary(c.queue) /\ <<>> \in New
  BY <1>1, ConcatEmptySeq DEF New
<1> QED
  BY <1>2 DEF Takes, Adds

\* doClose() empties the queue.
LEMMA DoCloseTakes ==
  ASSUME NEW c \in Client, NEW outcome \in {"closed", "dropped"}
  PROVE  Takes(c, DoClose(c, outcome))
<1> DEFINE d == Discard(c, outcome)
<1>1. d.queue = <<>> /\ d \in Client
  <2>1. d \in Client
    BY DiscardType DEF Fates
  <2>2. d.queue = <<>>
    BY DEF Discard, Client
  <2> QED
    BY <2>1, <2>2
<1> HIDE DEF d
<1>2. DoClose(c, outcome).queue = <<>>
  BY <1>1, StartCloseFrame DEF DoClose, Frame, d
<1> QED
  BY <1>2, LeftOrEmptied

\* Taking up a unit leaves the queue alone, but for a close.
LEMMA BeginTakes ==
  ASSUME NEW c \in Client
  PROVE  Takes(c, Begin(c))
<1>1. CASE c.work.type = "CLOSE"
  BY <1>1, DoCloseTakes DEF Begin
<1>2. CASE c.work.type = "REQUEST_DELAYED"
  BY <1>2, ArmDelayedFrame, LeftOrEmptied DEF Begin, Frame
<1>3. CASE c.work.type = "POWER_ON"
  <2>1. Contact(c) \in Client /\ Contact(c).queue = c.queue
    BY ContactFrame DEF Frame
  <2>2. RunWOL(Contact(c)).queue = c.queue
    BY <2>1, RunWOLFrame DEF Frame
  <2> QED
    BY <1>3, <2>2, LeftOrEmptied DEF Begin, BeginPowerOn
<1>4. CASE c.work.type \notin {"CLOSE", "REQUEST_DELAYED", "POWER_ON"}
  <2>1. Begin(c) = Contact(c)
    BY <1>4 DEF Begin
  <2> QED
    BY <2>1, ContactFrame, LeftOrEmptied DEF Frame
<1> QED
  BY <1>1, <1>2, <1>3, <1>4

\* The next unit is the first that takes time.
LEMMA DispatchTakes ==
  ASSUME NEW c \in Client
  PROVE  Takes(c, Dispatch(c))
<1>1. c.queue \in Seq(Command) /\ Skip(c) \in 0 .. Len(c.queue) /\ Len(c.queue) \in Nat
  BY Fields, SkipStops
<1>2. CASE c.status = "CONNECTING"
  BY <1>2, DoCloseTakes DEF Dispatch
<1>3. CASE c.status # "CONNECTING" /\ Skip(c) = Len(c.queue)
  <2> DEFINE d == [c EXCEPT !.queue = <<>>]
  <2>1. d.queue = <<>> /\ d \in Client
    <3>1. <<>> \in Seq(Command)
      OBVIOUS
    <3> QED
      BY <3>1 DEF Client
  <2>2. Dispatch(c) = Rest(d)
    BY <1>3 DEF Dispatch
  <2> HIDE DEF d
  <2>3. [d EXCEPT !.keepAlive = TRUE].queue = <<>> /\ [d EXCEPT !.closeTimer = TRUE].queue = <<>>
    BY <2>1 DEF Client
  <2>4. Rest(d) \in {d, [d EXCEPT !.keepAlive = TRUE], [d EXCEPT !.closeTimer = TRUE],
                     DoClose(d, "dropped")}
    BY DEF Rest
  <2>5. Takes(c, d) /\ Takes(d, DoClose(d, "dropped"))
    BY <2>1, LeftOrEmptied, DoCloseTakes
  <2>6. CASE Rest(d) = DoClose(d, "dropped")
    BY <2>2, <2>5, <2>6, TakesTakes
  <2>7. CASE Rest(d).queue = <<>>
    BY <2>2, <2>7, LeftOrEmptied
  <2> QED
    BY <2>1, <2>3, <2>4, <2>6, <2>7
<1>4. CASE c.status # "CONNECTING" /\ Skip(c) # Len(c.queue)
  <2> DEFINE k == Skip(c)
  <2> DEFINE first == Started(c.queue[k + 1])
  <2> DEFINE rest == SubSeq(c.queue, k + 2, Len(c.queue))
  <2> DEFINE d == [c EXCEPT !.work = first, !.queue = rest]
  <2>1. /\ first \in Work /\ rest \in Seq(Command)
    BY <1>1, <1>4, NextUnit, StartedType
  <2>2. k \in Nat /\ k < Len(c.queue)
    BY <1>1, <1>4
  <2>3. /\ DOMAIN rest = 1 .. Len(c.queue) - (k + 1)
        /\ \A i \in 1 .. Len(c.queue) - (k + 1) : rest[i] = c.queue[k + 1 + i]
    BY <1>1, <2>2, BackOfQueue
  <2>4. Dispatch(c) = Begin(d)
    BY <1>4 DEF Dispatch
  <2> HIDE DEF first, rest, k
  <2>5. d \in Client /\ d.queue = rest
    BY <2>1 DEF Client
  <2>6. Back(c.queue, rest)
    <3>1. Len(rest) = Len(c.queue) - (k + 1) /\ Len(c.queue) - Len(rest) = k + 1
      BY <1>1, <2>1, <2>2, <2>3
    <3> QED
      BY <1>1, <2>1, <2>2, <2>3, <3>1 DEF Back
  <2>7. Takes(c, d)
    BY <2>5, <2>6, WithoutBack DEF Takes, Ordinary
  <2> HIDE DEF d
  <2> QED
    BY <2>4, <2>5, <2>7, BeginTakes, TakesTakes
<1> QED
  BY <1>2, <1>3, <1>4

\* So do startNextWork and workIsFinished.
LEMMA FinishTakes ==
  ASSUME NEW c \in Client, NEW outcome \in Ends
  PROVE  Takes(c, StartNextWork(c)) /\ Takes(c, Finish(c, outcome))
<1>1. ASSUME NEW b \in Client PROVE Takes(b, StartNextWork(b))
  <2> DEFINE s == Settle(b, "lingered")
  <2> DEFINE d == [s EXCEPT !.work = NoWork, !.keepAlive = FALSE]
  <2>1. s \in Client /\ s.queue = b.queue
    <3>1. s \in Client
      BY SettleType DEF Fates
    <3>2. s.queue = b.queue
      BY DEF Settle, Client
    <3> QED
      BY <3>1, <3>2
  <2>2. StartNextWork(b) = IF b.work.age # "lingering" THEN b ELSE Dispatch(d)
    BY DEF StartNextWork
  <2> HIDE DEF s
  <2>3. d \in Client /\ d.queue = b.queue
    BY <2>1, NoWorkType DEF Client
  <2> HIDE DEF d
  <2> QED
    BY <2>2, <2>3, DispatchTakes, LeftOrEmptied, TakesTakes
<1> DEFINE s == Settle(c, outcome)
<1> DEFINE d == [s EXCEPT !.work = NoWork]
<1>2. s \in Client /\ s.queue = c.queue
  BY SettleType DEF Settle, Ends, Client
<1>3. Finish(c, outcome) = StartNextWork(d)
  BY DEF Finish
<1> HIDE DEF s
<1>4. d \in Client /\ d.queue = c.queue
  BY <1>2, NoWorkType DEF Client
<1> HIDE DEF d
<1> QED
  BY <1>1, <1>3, <1>4, LeftOrEmptied, TakesTakes

\* enqueueWork: the new unit goes to the back, and takes the place of no ordinary one.
LEMMA EnqueueAdds ==
  ASSUME NEW c \in Client, NEW u \in Command
  PROVE  Adds(c, Enqueue(c, u))
<1> DEFINE d == Noted(c, u)
<1> DEFINE p == Push(d, u)
<1> DEFINE left == Without(c.queue, Superseded(u))
<1> DEFINE T == Power \cup {"REQUEST_DELAYED"}
<1>1. c.queue \in Seq(Command) /\ d \in Client /\ d.queue = c.queue
  BY Fields, NotedFields
<1>2. Enqueue(c, u) = IF ~InProgress(c, u) THEN StartNextWork(p)
                      ELSE IF u.type \in Power
                      THEN [d EXCEPT !.queue = Without(d.queue, Power)] ELSE d
  BY DEF Enqueue, Noted
<1>3. Superseded(u) \subseteq T /\ Power \subseteq T
  BY DEF Superseded
<1> HIDE DEF d
<1>4. p = [d EXCEPT !.queue = Append(left, u)] /\ left \in Seq(Command)
  BY <1>1, WithoutUnits DEF Push
<1> HIDE DEF p, left
<1>5. p \in Client /\ p.queue = Append(left, u)
  <2>1. Append(left, u) \in Seq(Command)
    BY <1>4
  <2> QED
    BY <1>1, <1>4, <2>1 DEF Client
<1>6. Ordinary(left) = Ordinary(c.queue) /\ Ordinary(Without(c.queue, Power)) = Ordinary(c.queue)
  BY <1>1, <1>3, WithoutTwice DEF Ordinary, left
<1> DEFINE o == Ordinary(c.queue)
<1>7. o \in Seq(Command) /\ Ordinary(p.queue) \in {o, Append(o, u)}
  <2> HIDE DEF T
  <2>1. o \in Seq(Command)
    BY <1>1, OrdinaryUnits
  <2>2. Without(Append(left, u), T) = IF u.type \in T THEN Without(left, T)
                                      ELSE Append(Without(left, T), u)
    BY <1>4, WithoutAppend
  <2>3. Without(left, T) = o
    BY <1>6 DEF Ordinary, T
  <2>4. Ordinary(p.queue) = Without(Append(left, u), T)
    BY <1>5 DEF Ordinary, T
  <2> QED
    BY <2>1, <2>2, <2>3, <2>4
<1> HIDE DEF o, T
<1>8. Adds(c, p)
  <2>1. o \o <<>> = o /\ o \o <<u>> = Append(o, u) /\ Append(o, u) \in Seq(Command)
    BY <1>7, ConcatEmptySeq, AppendIsConcat
  <2>2. <<>> \in New /\ <<u>> \in New
    BY DEF New
  <2>3. Back(o, o) /\ Back(Append(o, u), Append(o, u))
    BY <1>7, <2>1, BackAll
  <2> QED
    BY <1>7, <2>1, <2>2, <2>3 DEF Adds, o
<1>9. Adds(c, StartNextWork(p))
  <2>1. "aborted" \in Ends
    BY DEF Ends, Fates
  <2>2. Takes(p, StartNextWork(p))
    BY <1>5, <2>1, FinishTakes
  <2> QED
    BY <1>8, <2>2, TakesTakes
<1>10. [d EXCEPT !.queue = Without(d.queue, Power)].queue = Without(c.queue, Power)
  BY <1>1 DEF Client
<1>11. Adds(c, [d EXCEPT !.queue = Without(d.queue, Power)]) /\ Adds(c, d)
  BY <1>1, <1>6, <1>7, <1>10, BackAll, TakesAdds DEF Takes, o
<1> QED
  BY <1>2, <1>9, <1>11

\* onError gives the unit in progress up, at most.
LEMMA OnErrorTakes ==
  ASSUME NEW c \in Client
  PROVE  Takes(c, OnError(c))
<1> DEFINE d == [c EXCEPT !.status = "DISCONNECTED"]
<1>1. d \in Client /\ d.queue = c.queue
  BY DisconnectedFrame DEF Frame
<1>2. "aborted" \in Ends /\ "gaveup" \in Ends
  BY DEF Ends, Fates
<1> HIDE DEF d
<1>3. Takes(c, d)
  BY <1>1, LeftOrEmptied
<1>4. Takes(d, Finish(d, "gaveup")) /\ Takes(d, Finish(d, "aborted"))
      /\ Takes(c, Finish(c, "aborted"))
  BY <1>1, <1>2, FinishTakes
<1>5. ArmTimer(c, "retry").queue = c.queue
  BY DEF ArmTimer, Client
<1>6. Takes(c, ArmTimer(c, "retry"))
  BY <1>5, LeftOrEmptied
<1>7. OnError(c) \in {Finish(c, "aborted"), ArmTimer(c, "retry"), Finish(d, "gaveup"),
                      Finish(d, "aborted"), d}
  BY DEF OnError, d
<1> QED
  BY <1>3, <1>4, <1>6, <1>7, TakesTakes

\* An answer carries the conversation on, or ends the unit.
LEMMA RespondTakes ==
  ASSUME NEW c \in Client, NEW r, NEW a
  PROVE  Takes(c, Respond(c, r, a)) /\ Takes(c, Reject(c, r))
<1> DEFINE s == Step(c.work, r, a)
<1> DEFINE b == [c EXCEPT !.buttonUp = c.buttonUp \/ a = "ok"]
<1>1. s \in Requests \cup Outcomes \cup {"poll", "on", "off", "button", "nothing"}
  BY StepType
<1>2. b \in Client /\ b.queue = c.queue
  <2>1. (c.buttonUp \/ a = "ok") \in BOOLEAN
    OBVIOUS
  <2> QED
    BY <2>1 DEF Client
<1>3. Respond(c, r, a) =
        CASE s \in Requests -> Send(c, s)
          [] s = "poll" -> ArmTimer(c, "poll")
          [] s = "on" -> Conclude(c, TRUE)
          [] s = "off" -> Conclude(c, FALSE)
          [] s = "button" -> Finish(b, "done")
          [] s = "nothing" -> c
          [] OTHER -> Finish(c, s)
  BY DEF Respond
<1>4. Outcomes \subseteq Ends /\ "done" \in Ends /\ "aborted" \in Ends
  BY DEF Outcomes, Ends, Fates
<1> HIDE DEF s, b
<1>5. ASSUME NEW on \in BOOLEAN PROVE Takes(c, Conclude(c, on))
  <2> DEFINE d == [c EXCEPT !.poweredOn = on]
  <2>1. d \in Client /\ d.queue = c.queue
    BY DEF Client
  <2>2. Conclude(c, on) = Finish(d, "done")
    BY DEF Conclude
  <2> HIDE DEF d
  <2> QED
    BY <1>4, <2>1, <2>2, FinishTakes, LeftOrEmptied, TakesTakes
<1>6. s \in Requests => Takes(c, Send(c, s))
  BY SendFrame, LeftOrEmptied DEF Frame
<1>7. Takes(c, ArmTimer(c, "poll")) /\ Takes(c, c)
  BY PollFrame, LeftOrEmptied DEF Frame
<1>8. Takes(c, Finish(b, "done"))
  BY <1>2, <1>4, FinishTakes, LeftOrEmptied, TakesTakes
<1>9. s \in Outcomes => Takes(c, Finish(c, s))
  BY <1>4, FinishTakes
<1>10. Takes(c, Respond(c, r, a))
  <2>1. Takes(c, Conclude(c, TRUE)) /\ Takes(c, Conclude(c, FALSE))
    BY <1>5
  <2> QED
    BY <1>1, <1>3, <2>1, <1>6, <1>7, <1>8, <1>9
<1>11. Takes(c, Reject(c, r))
  BY <1>4, <1>5, FinishTakes DEF Reject
<1> QED
  BY <1>10, <1>11

\* The answer to the webOS handshake may add a request.
LEMMA RegisteredAdds ==
  ASSUME NEW c \in Client
  PROVE  Adds(c, Registered(c)) /\ Takes(c, Unregistered(c))
<1> DEFINE u == [type |-> "REQUEST", forced |-> FALSE]
<1> DEFINE k == [c EXCEPT !.key = TRUE]
<1> DEFINE d == IF c.key THEN c ELSE Enqueue(k, u)
<1> DEFINE f == [c EXCEPT !.key = FALSE]
<1> DEFINE w == [c EXCEPT !.wire = <<"register">> \o c.wire]
<1>1. u \in Command
  BY DEF Command, WorkTypes
<1>2. k \in Client /\ f \in Client /\ k.queue = c.queue /\ f.queue = c.queue
      /\ w.queue = c.queue
  BY DEF Client
<1>3. Registered(c) \in {Send(d, FirstRequest(d.work.type)), Finish(d, "aborted")}
  BY DEF Registered
<1>4. Unregistered(c) \in {Send(f, "register"), w}
  BY DEF Unregistered
<1> HIDE DEF u, k, f, w
<1>5. d \in Client /\ Adds(c, d)
  <2>1. Enqueue(k, u) \in Client /\ Adds(k, Enqueue(k, u))
    BY <1>1, <1>2, EnqueueType, EnqueueAdds
  <2>2. Adds(c, Enqueue(k, u))
    BY <1>2, <2>1 DEF Adds
  <2>3. Adds(c, c)
    BY LeftOrEmptied, TakesAdds
  <2> QED
    BY <2>1, <2>2, <2>3
<1> HIDE DEF d
<1>6. FirstRequest(d.work.type) \in Requests /\ "register" \in Requests /\ "aborted" \in Ends
  BY DEF FirstRequest, Requests, Ends, Fates
<1>7. Takes(d, Send(d, FirstRequest(d.work.type))) /\ Takes(d, Finish(d, "aborted"))
  BY <1>5, <1>6, SendFrame, FinishTakes, LeftOrEmptied DEF Frame
<1>8. Takes(c, Send(f, "register")) /\ Takes(c, w)
  BY <1>2, <1>6, SendFrame, LeftOrEmptied DEF Frame
<1> QED
  BY <1>3, <1>4, <1>5, <1>7, <1>8, TakesTakes

\* An answer is read.
LEMMA OnReadAdds ==
  ASSUME NEW c \in Client, NEW a, c.wire # <<>>, c.chain \in {"open", "closing"}
  PROVE  Adds(c, OnRead(c, a))
<1> DEFINE d == Heard(c)
<1>1. d \in Client /\ d.queue = c.queue
  BY HeardFrame DEF Frame
<1>2. OnRead(c, a) \in {Reject(d, Head(c.wire)), Finish(d, "aborted"), Registered(d),
                        Unregistered(d), Respond(d, Head(c.wire), a)}
  BY DEF OnRead, Heard
<1> HIDE DEF d
<1>3. "aborted" \in Ends
  BY DEF Ends, Fates
<1>4. Adds(d, OnRead(c, a))
  BY <1>1, <1>2, <1>3, RespondTakes, RegisteredAdds, FinishTakes, TakesAdds
<1> QED
  BY <1>1, <1>4 DEF Adds

\* Every handler adds a unit at the back at most, and takes units from the front.
LEMMA NextAdds ==
  ASSUME Good(client), Next
  PROVE  Adds(client, client')
<1>1. client \in Client /\ client.work \in Work
  BY Fields DEF Good
<1>2. ASSUME NEW d, Reacts(client, d) PROVE Adds(client, d)
  <2>1. PICK e : /\ Frame(client, e)
                 /\ \/ d = e
                    \/ d = OnError(e)
                    \/ d = DoClose(e, "dropped")
                    \/ \E u \in Command : d = Enqueue(e, u)
    BY <1>2 DEF Reacts
  <2>2. e \in Client /\ e.queue = client.queue
    BY <2>1 DEF Frame
  <2>3. Adds(e, e) /\ Adds(e, OnError(e)) /\ Adds(e, DoClose(e, "dropped"))
        /\ \A u \in Command : Adds(e, Enqueue(e, u))
    BY <2>2, LeftOrEmptied, OnErrorTakes, DoCloseTakes, EnqueueAdds, TakesAdds
  <2> QED
    BY <2>1, <2>2, <2>3 DEF Adds
<1>3. CASE OnReadAnswer
  BY <1>1, <1>3, OnReadAdds DEF OnReadAnswer
<1>4. CASE OnRetryConnection \/ OnWOL \/ WorkAges
  <2>1. client'.queue = client.queue
    <3>1. CASE OnRetryConnection
      BY <1>1, <3>1 DEF OnRetryConnection, Run, RunWOL, Client
    <3>2. CASE OnWOL
      BY <1>1, <3>2 DEF OnWOL, Client
    <3>3. CASE WorkAges
      BY <1>1, <3>3 DEF WorkAges, Client
    <3> QED
      BY <1>4, <3>1, <3>2, <3>3
  <2> QED
    BY <1>1, <2>1, LeftOrEmptied, TakesAdds
<1>5. CASE OnDelayedRequest
  <2> DEFINE s == Settle(client, "replaced")
  <2> DEFINE w == [client.work EXCEPT !.type = "REQUEST"]
  <2> DEFINE c == [s EXCEPT !.delayed = FALSE, !.work = w]
  <2>1. w \in Work
    BY <1>1 DEF Work, WorkTypes
  <2>2. s \in Client
    BY <1>1, SettleType DEF Fates
  <2>3. s.queue = client.queue /\ s.work = client.work
    BY <1>1 DEF Settle, Client
  <2> HIDE DEF s
  <2>4. client' = Contact(c)
    <3>1. c = [s EXCEPT !.delayed = FALSE, !.work.type = "REQUEST"]
      BY <2>2, <2>3 DEF Client
    <3> HIDE DEF c
    <3> QED
      BY <1>5, <3>1 DEF OnDelayedRequest, s
  <2> HIDE DEF w
  <2>5. c \in Client /\ c.queue = client.queue
    BY <2>1, <2>2, <2>3 DEF Client
  <2> HIDE DEF c
  <2>6. client'.queue = client.queue
    BY <2>4, <2>5, ContactFrame DEF Frame
  <2> QED
    BY <1>1, <2>6, LeftOrEmptied, TakesAdds
<1> QED
  BY <1>2, <1>3, <1>4, <1>5, NextReacts

\* What a step may do to the queue, as InOrder says it.
OrderKept ==
    \E new \in {<<>>} \cup {<<u>> : u \in Command} :
      LET extended == Ordinary(client.queue) \o new
      IN \E k \in 0 .. Len(extended) :
           Ordinary(client'.queue) = SubSeq(extended, k + 1, Len(extended))

\* Units whose place in the queue is never given to another are neither reordered nor
\* overtaken, whatever handlers run (enqueueWork, startNextWork, doClose).
THEOREM QueueInOrder == Spec => InOrder
<1>1. IInv /\ [Next]_vars => [OrderKept]_vars
  <2> SUFFICES ASSUME IInv, Next PROVE OrderKept
    OBVIOUS
  <2>1. PICK new \in New : Back(Ordinary(client.queue) \o new, Ordinary(client'.queue))
    BY NextAdds DEF IInv, Adds
  <2> QED
    BY <2>1, BackIsSubSeq DEF New, OrderKept
<1> QED
  BY <1>1, Inductive, PTL DEF Spec, InOrder, OrderKept

-----------------------------------------------------------------------------
(* No work is stranded.                                                     *)

Busy(c) == c.work.type \notin {"UNDEFINED", "REQUEST_DELAYED"}

\* A handler is on its way that looks at the unit in progress: it sends the next
\* request, or ends in onError or workIsFinished. A write behind a close frame comes
\* back, and a first write is followed by a read; a close does not look at the unit.
Going(c) ==
    \/ c.chain \in {"connect", "ssl", "handshake"}
    \/ c.timer # "idle"
    \/ c.resolving > 0 \/ c.stale > 0 \/ c.cancelled > 0
    \/ c.chain = "open" /\ (c.reads > 0 \/ (c.status = "CONNECTING" /\ c.writes > 0))
    \/ c.chain = "closing" /\ c.blocked > 0 /\ c.writes > 0
    \/ c.chain \in {"fresh", "closed", "failed"} /\ (c.reads > 0 \/ c.writes > 0)

\* A stream on which the display has answered is read from.
Listens(c) == c.chain = "open" /\ c.status = "CONNECTED" => c.reads > 0

\* A close is never in progress, a cleared unit is a lingering one, and a delayed
\* request in progress has its timer.
Sorted(c) ==
    /\ c.work.type # "CLOSE"
    /\ c.work.type = "UNDEFINED" => c.work.age = "lingering"
    /\ c.work.type = "REQUEST_DELAYED" => c.delayed

\* Only a unit in progress keeps others waiting.
Filled(c) == c.queue # <<>> => c.work.type # "UNDEFINED"

\* A unit that relies on an open stream does so before the session calls it lost.
Talks(c) == Busy(c) /\ c.chain = "open" => c.status # "DISCONNECTED"

Served(c) ==
    /\ c \in Client /\ Listens(c) /\ Sorted(c) /\ Filled(c) /\ Talks(c)
    /\ Busy(c) => Going(c)

\* d is c but for what nothing waits for.
Standing(c, d) ==
    /\ d.queue = c.queue /\ d.work = c.work /\ d.status = c.status /\ d.chain = c.chain
    /\ d.reads = c.reads /\ d.writes = c.writes /\ d.blocked = c.blocked
    /\ d.stale = c.stale /\ d.resolving = c.resolving /\ d.timer = c.timer
    /\ d.delayed = c.delayed /\ d.cancelled = c.cancelled

\* Such a change leaves work served.
LEMMA StandingServed ==
  ASSUME NEW c, NEW d, Served(c), d \in Client, Standing(c, d)
  PROVE  Served(d)
BY DEF Served, Standing, Listens, Sorted, Filled, Talks, Busy, Going

\* One more operation is at least one.
LEMMA CountsOne ==
  ASSUME NEW n \in 0 .. MaxPending
  PROVE  Capped(n + 1) > 0
BY ClientAssumption DEF Capped

\* send() leaves the unit to the answer, or to the failure of the write.
LEMMA SendServes ==
  ASSUME NEW c \in Client, Listens(c), Sorted(c), Filled(c), Talks(c), NEW r \in Requests
  PROVE  Served(Send(c, r))
<1> DEFINE w == Capped(c.writes + 1)
<1> DEFINE b == IF c.chain = "closing" THEN Capped(c.blocked + 1) ELSE c.blocked
<1> DEFINE q == IF c.chain = "open" /\ Len(c.wire) < MaxPending THEN Append(c.wire, r) ELSE c.wire
<1> DEFINE d == Send(c, r)
<1>1. d = [c EXCEPT !.writes = w, !.blocked = b, !.wire = q]
  BY DEF Send
<1>2. d \in Client
  BY SendType
<1>3. w > 0 /\ (c.chain = "closing" => b > 0)
  <2>1. Capped(c.writes + 1) > 0 /\ Capped(c.blocked + 1) > 0
    BY Fields, CountsOne
  <2> QED
    BY <2>1
<1> HIDE DEF w, b, q
<1>4. /\ d.queue = c.queue /\ d.work = c.work /\ d.status = c.status /\ d.chain = c.chain
      /\ d.reads = c.reads /\ d.writes = w /\ d.blocked = b /\ d.delayed = c.delayed
  BY <1>1 DEF Client
<1> HIDE DEF d
<1>5. Listens(d) /\ Sorted(d) /\ Filled(d) /\ Talks(d)
  BY <1>4 DEF Listens, Sorted, Filled, Talks, Busy
<1>6. Busy(d) => Going(d)
  <2>1. CASE c.chain = "open"
    <3>1. Busy(c) => c.status \in {"CONNECTING", "CONNECTED"}
      BY <2>1, Fields DEF Talks
    <3> QED
      BY <1>3, <1>4, <2>1, <3>1 DEF Busy, Going, Listens
  <2>2. CASE c.chain = "closing"
    BY <1>3, <1>4, <2>2 DEF Going
  <2>3. CASE c.chain \in Stages \ {"open", "closing"}
    BY <1>3, <1>4, <2>3 DEF Going, Stages
  <2> QED
    BY <2>1, <2>2, <2>3, Fields
<1> QED
  BY <1>2, <1>5, <1>6 DEF Served, d

\* run() leaves the unit to the name lookup.
LEMMA RunServes ==
  ASSUME NEW c \in Client, Sorted(c), Filled(c)
  PROVE  Served(Run(c))
<1> DEFINE s == Capped(c.stale + InFlight(c))
<1> DEFINE n == Capped(c.resolving + 1)
<1> DEFINE d == Run(c)
<1>1. d = [c EXCEPT !.status = "CONNECTING", !.chain = "fresh", !.wire = <<>>,
                    !.reads = 0, !.writes = 0, !.blocked = 0, !.closes = 0,
                    !.stale = s, !.resolving = n]
  BY DEF Run
<1>2. d \in Client
  BY RunType
<1>3. n > 0
  BY Fields, CountsOne
<1> HIDE DEF s, n
<1>4. /\ d.queue = c.queue /\ d.work = c.work /\ d.status = "CONNECTING"
      /\ d.chain = "fresh" /\ d.delayed = c.delayed /\ d.resolving = n
  BY <1>1 DEF Client
<1> HIDE DEF d
<1> QED
  BY <1>2, <1>3, <1>4 DEF Served, Listens, Sorted, Filled, Talks, Busy, Going, d

\* Either serves the unit that is begun.
LEMMA ContactServes ==
  ASSUME NEW c \in Client, Listens(c), Sorted(c), Filled(c)
  PROVE  Served(Contact(c))
<1>1. FirstRequest(c.work.type) \in Requests
  BY DEF FirstRequest, Requests
<1>2. c.status = "CONNECTED" => Talks(c)
  BY DEF Talks
<1> QED
  BY <1>1, <1>2, SendServes, RunServes DEF Contact

\* An armed timer serves the unit.
LEMMA ArmTimerServes ==
  ASSUME NEW c \in Client, Listens(c), Sorted(c), Filled(c), Talks(c),
         NEW h \in {"retry", "poll"}
  PROVE  Served(ArmTimer(c, h))
<1> DEFINE n == IF c.timer # "idle" THEN Capped(c.cancelled + 1) ELSE c.cancelled
<1> DEFINE d == ArmTimer(c, h)
<1>1. d = [c EXCEPT !.timer = h, !.cancelled = n]
  BY DEF ArmTimer
<1>2. d \in Client
  BY ArmTimerType
<1> HIDE DEF n
<1>3. /\ d.queue = c.queue /\ d.work = c.work /\ d.status = c.status /\ d.chain = c.chain
      /\ d.reads = c.reads /\ d.delayed = c.delayed /\ d.timer = h
  BY <1>1 DEF Client
<1> HIDE DEF d
<1> QED
  BY <1>2, <1>3 DEF Served, Listens, Sorted, Filled, Talks, Busy, Going, d

\* A delayed request is served by its timer.
LEMMA ArmDelayedServes ==
  ASSUME NEW c \in Client, Listens(c), c.work.type = "REQUEST_DELAYED"
  PROVE  Served(ArmDelayed(c))
<1> DEFINE n == IF c.delayed THEN Capped(c.cancelled + 1) ELSE c.cancelled
<1> DEFINE d == ArmDelayed(c)
<1>1. d = [c EXCEPT !.delayed = TRUE, !.cancelled = n]
  BY DEF ArmDelayed
<1>2. d \in Client
  BY ArmDelayedType
<1> HIDE DEF n
<1>3. /\ d.queue = c.queue /\ d.work = c.work /\ d.status = c.status /\ d.chain = c.chain
      /\ d.reads = c.reads /\ d.delayed
  BY <1>1 DEF Client
<1> HIDE DEF d
<1> QED
  BY <1>2, <1>3 DEF Served, Listens, Sorted, Filled, Talks, Busy, d

\* doClose() leaves no work to serve.
LEMMA DoCloseServes ==
  ASSUME NEW c \in Client, Listens(c), NEW outcome \in Fates
  PROVE  Served(DoClose(c, outcome))
<1> DEFINE e == Discard(c, outcome)
<1> DEFINE d == StartClose(e)
<1>1. e \in Client /\ d \in Client
  BY DiscardType, StartCloseType
<1>2. /\ e.queue = <<>> /\ e.work = NoWork /\ e.status = c.status /\ e.chain = c.chain
      /\ e.reads = c.reads
  BY DEF Discard, Client
<1> HIDE DEF e
<1>3. /\ d.queue = <<>> /\ d.work = NoWork /\ d.status = c.status /\ d.reads = c.reads
      /\ d.chain = "open" => c.chain = "open"
  BY <1>1, <1>2 DEF StartClose, Client
<1> HIDE DEF d
<1>4. Served(d)
  BY <1>1, <1>3 DEF Served, Listens, Sorted, Filled, Talks, Busy, NoWork
<1> QED
  BY <1>4 DEF DoClose, d, e

\* A unit that is begun is served.
LEMMA BeginServes ==
  ASSUME NEW c \in Client, Listens(c), c.work.type # "UNDEFINED"
  PROVE  Served(Begin(c))
<1>1. Filled(c)
  BY DEF Filled
<1>2. CASE c.work.type = "REQUEST_DELAYED"
  BY <1>2, ArmDelayedServes DEF Begin
<1>3. CASE c.work.type = "CLOSE"
  BY <1>3, DoCloseServes DEF Begin, Fates
<1>4. CASE c.work.type \notin {"REQUEST_DELAYED", "CLOSE"}
  <2> DEFINE d == Contact(c)
  <2>1. Served(d)
    BY <1>1, <1>4, ContactServes DEF Sorted
  <2>2. CASE c.work.type = "POWER_ON"
    <3>1. Begin(c) = RunWOL(d)
      BY <2>2 DEF Begin, BeginPowerOn
    <3> HIDE DEF d
    <3>2. d \in Client
      BY <2>1 DEF Served
    <3>3. RunWOL(d) \in Client
      BY <3>2, RunWOLType
    <3>4. Standing(d, RunWOL(d))
      BY <3>2 DEF RunWOL, Standing, Client
    <3> QED
      BY <2>1, <3>1, <3>3, <3>4, StandingServed
  <2>3. CASE c.work.type # "POWER_ON"
    <3>1. Begin(c) = d
      BY <1>4, <2>3 DEF Begin
    <3> QED
      BY <2>1, <3>1
  <2> QED
    BY <2>2, <2>3
<1> QED
  BY <1>2, <1>3, <1>4

\* With an empty queue there is nothing to serve.
LEMMA RestServes ==
  ASSUME NEW c \in Client, Listens(c), c.work = NoWork, c.queue = <<>>
  PROVE  Served(Rest(c))
<1>1. Served(c)
  BY DEF Served, Sorted, Filled, Talks, Busy, NoWork
<1>2. Served([c EXCEPT !.keepAlive = TRUE])
  <2>1. Standing(c, [c EXCEPT !.keepAlive = TRUE]) /\ [c EXCEPT !.keepAlive = TRUE] \in Client
    BY DEF Standing, Client
  <2> QED
    BY <1>1, <2>1, StandingServed
<1>3. Served([c EXCEPT !.closeTimer = TRUE])
  <2>1. Standing(c, [c EXCEPT !.closeTimer = TRUE]) /\ [c EXCEPT !.closeTimer = TRUE] \in Client
    BY DEF Standing, Client
  <2> QED
    BY <1>1, <2>1, StandingServed
<1>4. Served(DoClose(c, "dropped"))
  BY DoCloseServes DEF Fates
<1> QED
  BY <1>1, <1>2, <1>3, <1>4 DEF Rest

\* startNextWork once no unit is in progress: the next one is served.
LEMMA DispatchServes ==
  ASSUME NEW c \in Client, Listens(c), c.work = NoWork
  PROVE  Served(Dispatch(c))
<1>1. c.queue \in Seq(Command)
  BY Fields
<1> DEFINE rest == SubSeq(c.queue, Skip(c) + 2, Len(c.queue))
<1> DEFINE first == Started(c.queue[Skip(c) + 1])
<1>2. CASE c.status = "CONNECTING"
  BY <1>2, DoCloseServes DEF Dispatch, Fates
<1>3. CASE c.status # "CONNECTING" /\ Skip(c) = Len(c.queue)
  <2> DEFINE d == [c EXCEPT !.queue = <<>>]
  <2>1. d \in Client /\ d.work = NoWork /\ d.queue = <<>> /\ Listens(d)
    <3>1. <<>> \in Seq(Command)
      OBVIOUS
    <3> QED
      BY <3>1 DEF Client, Listens
  <2>2. Dispatch(c) = Rest(d)
    BY <1>3 DEF Dispatch
  <2> HIDE DEF d
  <2> QED
    BY <2>1, <2>2, RestServes
<1>4. CASE c.status # "CONNECTING" /\ Skip(c) # Len(c.queue)
  <2> DEFINE d == [c EXCEPT !.work = first, !.queue = rest]
  <2>1. first \in Work /\ rest \in Seq(Command) /\ first.type # "UNDEFINED"
    <3>1. c.queue[Skip(c) + 1] \in Command /\ rest \in Seq(Command)
      BY <1>1, <1>4, NextUnit
    <3>2. \A u \in Command : Started(u).type = u.type /\ u.type # "UNDEFINED"
      BY DEF Started, Command
    <3> QED
      BY <3>1, <3>2, StartedType
  <2>2. Dispatch(c) = Begin(d)
    BY <1>4 DEF Dispatch
  <2> HIDE DEF first, rest
  <2>3. d \in Client /\ d.work = first /\ Listens(d)
    BY <2>1 DEF Client, Listens
  <2> HIDE DEF d
  <2> QED
    BY <2>1, <2>2, <2>3, BeginServes
<1> QED
  BY <1>2, <1>3, <1>4

\* The outcome of a power command is nothing that others wait for.
LEMMA SettleStanding ==
  ASSUME NEW c \in Client, NEW outcome \in Fates
  PROVE  Settle(c, outcome) \in Client /\ Standing(c, Settle(c, outcome))
<1> DEFINE e == [c EXCEPT !.fate = outcome]
<1>1. Settle(c, outcome) \in {c, e}
  BY DEF Settle
<1>2. /\ e.queue = c.queue /\ e.work = c.work /\ e.status = c.status /\ e.chain = c.chain
      /\ e.reads = c.reads /\ e.writes = c.writes
  BY DEF Client
<1>3. /\ e.blocked = c.blocked /\ e.stale = c.stale /\ e.resolving = c.resolving
      /\ e.timer = c.timer /\ e.delayed = c.delayed /\ e.cancelled = c.cancelled
  BY DEF Client
<1> HIDE DEF e
<1> QED
  BY <1>1, <1>2, <1>3, SettleType DEF Standing

\* startNextWork with a unit that lingers: the next one is served.
LEMMA NextServes ==
  ASSUME NEW c \in Client, Listens(c), c.work.age = "lingering"
  PROVE  Served(StartNextWork(c))
<1> DEFINE s == Settle(c, "lingered")
<1> DEFINE d == [s EXCEPT !.work = NoWork, !.keepAlive = FALSE]
<1>1. s \in Client /\ Standing(c, s)
  BY SettleStanding DEF Fates
<1>2. StartNextWork(c) = Dispatch(d)
  BY DEF StartNextWork
<1> HIDE DEF s
<1>3. d \in Client /\ d.work = NoWork
  BY <1>1, NoWorkType DEF Client
<1>4. d.chain = c.chain /\ d.status = c.status /\ d.reads = c.reads
  BY <1>1 DEF Client, Standing
<1> HIDE DEF d
<1>5. Listens(d)
  BY <1>4 DEF Listens
<1> QED
  BY <1>2, <1>3, <1>5, DispatchServes

\* workIsFinished: the next unit is served.
LEMMA FinishServes ==
  ASSUME NEW c \in Client, Listens(c), NEW outcome \in Fates
  PROVE  Served(Finish(c, outcome))
<1> DEFINE s == Settle(c, outcome)
<1> DEFINE d == [s EXCEPT !.work = NoWork]
<1>1. s \in Client /\ Standing(c, s)
  BY SettleStanding
<1>2. Finish(c, outcome) = StartNextWork(d)
  BY DEF Finish
<1> HIDE DEF s
<1>3. d \in Client /\ d.work = NoWork /\ Listens(d)
  BY <1>1, NoWorkType DEF Client, Listens, Standing
<1> HIDE DEF d
<1>4. d.work.age = "lingering"
  BY <1>3 DEF NoWork
<1> QED
  BY <1>2, <1>3, <1>4, NextServes

\* enqueueWork: the unit waits behind one in progress, or is begun.
LEMMA EnqueueServes ==
  ASSUME NEW c, Served(c), NEW u \in Command
  PROVE  Served(Enqueue(c, u))
<1> DEFINE d == IF u.type \in Power
                THEN [c EXCEPT !.intent = u.type, !.fate = "pending"] ELSE c
<1>1. c \in Client
  BY DEF Served
<1>2. d \in Client /\ Standing(c, d)
  <2>1. ASSUME u.type \in Power
        PROVE  /\ [c EXCEPT !.intent = u.type, !.fate = "pending"] \in Client
               /\ Standing(c, [c EXCEPT !.intent = u.type, !.fate = "pending"])
    BY <1>1, <2>1 DEF Client, Standing
  <2>2. Standing(c, c)
    BY DEF Standing
  <2> QED
    BY <1>1, <2>1, <2>2
<1>3. Enqueue(c, u) = IF ~InProgress(c, u) THEN StartNextWork(Push(d, u))
                      ELSE IF u.type \in Power
                      THEN [d EXCEPT !.queue = Without(d.queue, Power)] ELSE d
  BY DEF Enqueue
<1> HIDE DEF d
<1>4. Served(d)
  BY <1>2, StandingServed
<1>5. CASE ~InProgress(c, u)
  <2> DEFINE q == Append(Without(d.queue, Superseded(u)), u)
  <2> DEFINE p == Push(d, u)
  <2>1. p \in Client
    BY <1>2, PushType
  <2>2. p = [d EXCEPT !.queue = q]
    BY DEF Push
  <2> HIDE DEF q
  <2>3. /\ p.work = d.work /\ p.status = d.status /\ p.chain = d.chain
        /\ p.reads = d.reads /\ p.writes = d.writes /\ p.blocked = d.blocked
        /\ p.stale = d.stale /\ p.resolving = d.resolving /\ p.timer = d.timer
        /\ p.delayed = d.delayed /\ p.cancelled = d.cancelled
    BY <1>2, <2>2 DEF Client
  <2> HIDE DEF p
  <2>4. /\ p \in Client /\ Listens(p) /\ Sorted(p) /\ Talks(p)
        /\ Busy(p) => Going(p)
    BY <1>4, <2>1, <2>3 DEF Served, Listens, Sorted, Talks, Busy, Going
  <2>5. Served(StartNextWork(p))
    <3>1. CASE p.work.age = "lingering"
      BY <2>4, <3>1, NextServes
    <3>2. CASE p.work.age # "lingering"
      BY <2>4, <3>2 DEF StartNextWork, Served, Sorted, Filled
    <3> QED
      BY <3>1, <3>2
  <2> QED
    BY <1>3, <1>5, <2>5 DEF p
<1>6. CASE InProgress(c, u) /\ u.type \in Power
  <2> DEFINE q == Without(d.queue, Power)
  <2> DEFINE p == [d EXCEPT !.queue = q]
  <2>1. q \in Seq(Command)
    BY <1>2, Fields, WithoutUnits
  <2>2. Enqueue(c, u) = p
    BY <1>3, <1>6
  <2> HIDE DEF q
  <2>3. p \in Client
    BY <1>2, <2>1 DEF Client
  <2>4. /\ p.work = d.work /\ p.status = d.status /\ p.chain = d.chain
        /\ p.reads = d.reads /\ p.writes = d.writes /\ p.blocked = d.blocked
        /\ p.stale = d.stale /\ p.resolving = d.resolving /\ p.timer = d.timer
        /\ p.delayed = d.delayed /\ p.cancelled = d.cancelled
    BY <1>2 DEF Client
  <2> HIDE DEF p
  <2>5. p.work.type # "UNDEFINED"
    BY <1>2, <1>6, <2>4 DEF InProgress, Power, Standing
  <2>6. Served(p)
    BY <1>4, <2>3, <2>4, <2>5 DEF Served, Listens, Sorted, Filled, Talks, Busy, Going
  <2> QED
    BY <2>2, <2>6
<1>7. CASE InProgress(c, u) /\ u.type \notin Power
  BY <1>3, <1>4, <1>7
<1> QED
  BY <1>5, <1>6, <1>7

\* onError serves the unit in progress again or ends it: an operation that failed need
\* not be counted any more.
LEMMA OnErrorServes ==
  ASSUME NEW c \in Client, Listens(c), Sorted(c), Filled(c)
  PROVE  Served(OnError(c))
<1> DEFINE d == [c EXCEPT !.status = "DISCONNECTED"]
<1>1. /\ d \in Client /\ d.work = c.work /\ d.queue = c.queue /\ d.delayed = c.delayed
      /\ d.status = "DISCONNECTED"
  BY DEF Client
<1>2. OnError(c) =
        CASE c.work.type \in {"POWER_ON", "POWER_OFF", "BLANK_SCREEN", "REQUEST", "BUTTON"} ->
               IF c.status = "DISCONNECTED" THEN Finish(c, "aborted")
               ELSE IF MayRetry(c) THEN ArmTimer(c, "retry") ELSE Finish(d, "gaveup")
          [] c.work.type = "KEEPALIVE" -> Finish(d, "aborted")
          [] OTHER -> d
  BY DEF OnError
<1> HIDE DEF d
<1>3. Listens(d) /\ Sorted(d) /\ Filled(d)
  BY <1>1 DEF Listens, Sorted, Filled
<1>4. Served(Finish(c, "aborted")) /\ Served(Finish(d, "aborted")) /\ Served(Finish(d, "gaveup"))
  BY <1>1, <1>3, FinishServes DEF Fates
<1>5. c.status # "DISCONNECTED" => Served(ArmTimer(c, "retry"))
  BY ArmTimerServes DEF Talks
<1>6. CASE c.work.type \in {"POWER_ON", "POWER_OFF", "BLANK_SCREEN", "REQUEST", "BUTTON"}
  <2>1. OnError(c) = IF c.status = "DISCONNECTED" THEN Finish(c, "aborted")
                     ELSE IF MayRetry(c) THEN ArmTimer(c, "retry") ELSE Finish(d, "gaveup")
    BY <1>2, <1>6
  <2> QED
    BY <1>4, <1>5, <2>1
<1>7. CASE c.work.type = "KEEPALIVE"
  BY <1>2, <1>4, <1>7
<1>8. CASE c.work.type \in {"UNDEFINED", "REQUEST_DELAYED"}
  <2>1. OnError(c) = d
    BY <1>2, <1>8
  <2>2. Served(d)
    BY <1>1, <1>3, <1>8 DEF Served, Talks, Busy
  <2> QED
    BY <2>1, <2>2
<1> QED
  BY <1>6, <1>7, <1>8, Fields DEF Work, WorkTypes, Sorted

\* A unit ends with the power state noted.
LEMMA ConcludeServes ==
  ASSUME NEW c \in Client, Listens(c), NEW on \in BOOLEAN
  PROVE  Served(Conclude(c, on))
<1> DEFINE d == [c EXCEPT !.poweredOn = on]
<1>1. d \in Client /\ Listens(d)
  BY DEF Client, Listens
<1>2. Conclude(c, on) = Finish(d, "done")
  BY DEF Conclude
<1> HIDE DEF d
<1> QED
  BY <1>1, <1>2, FinishServes DEF Fates

\* onRead, for an answer that is no failure: the conversation goes on, or the unit ends.
LEMMA RespondServes ==
  ASSUME NEW c, Served(c), NEW r, NEW a
  PROVE  Served(Respond(c, r, a))
<1> DEFINE s == Step(c.work, r, a)
<1> DEFINE b == [c EXCEPT !.buttonUp = c.buttonUp \/ a = "ok"]
<1>1. c \in Client /\ Listens(c) /\ Sorted(c) /\ Filled(c) /\ Talks(c)
  BY DEF Served
<1>2. s \in Requests \cup Outcomes \cup {"poll", "on", "off", "button", "nothing"}
  BY StepType
<1>3. b \in Client /\ Listens(b)
  <2>1. (c.buttonUp \/ a = "ok") \in BOOLEAN
    OBVIOUS
  <2> QED
    BY <1>1, <2>1 DEF Client, Listens
<1>4. Respond(c, r, a) =
        CASE s \in Requests -> Send(c, s)
          [] s = "poll" -> ArmTimer(c, "poll")
          [] s = "on" -> Conclude(c, TRUE)
          [] s = "off" -> Conclude(c, FALSE)
          [] s = "button" -> Finish(b, "done")
          [] s = "nothing" -> c
          [] OTHER -> Finish(c, s)
  BY DEF Respond
<1> HIDE DEF s, b
<1>5. s \in Requests => Served(Send(c, s))
  BY <1>1, SendServes
<1>6. /\ Served(ArmTimer(c, "poll")) /\ Served(Conclude(c, TRUE))
      /\ Served(Conclude(c, FALSE)) /\ Served(Finish(b, "done"))
  BY <1>1, <1>3, ArmTimerServes, ConcludeServes, FinishServes DEF Fates
<1>7. s \in Outcomes => Served(Finish(c, s))
  BY <1>1, FinishServes DEF Outcomes, Fates
<1> QED
  BY <1>2, <1>4, <1>5, <1>6, <1>7

\* onRead, for the answer to the webOS handshake.
LEMMA RegisteredServes ==
  ASSUME NEW c, Served(c)
  PROVE  Served(Registered(c))
<1> DEFINE u == [type |-> "REQUEST", forced |-> FALSE]
<1> DEFINE k == [c EXCEPT !.key = TRUE]
<1> DEFINE d == IF c.key THEN c ELSE Enqueue(k, u)
<1>1. u \in Command
  BY DEF Command, WorkTypes
<1>2. Registered(c) \in {Send(d, FirstRequest(d.work.type)), Finish(d, "aborted")}
  BY DEF Registered
<1>3. Served(d)
  <2>1. k \in Client /\ Standing(c, k)
    BY DEF Served, Client, Standing
  <2> HIDE DEF u, k
  <2>2. Served(Enqueue(k, u))
    BY <1>1, <2>1, StandingServed, EnqueueServes
  <2> QED
    BY <2>2
<1> HIDE DEF d
<1>4. FirstRequest(d.work.type) \in Requests
  BY DEF FirstRequest, Requests
<1> QED
  BY <1>2, <1>3, <1>4, SendServes, FinishServes DEF Served, Fates

\* onRead, for a display that has not paired.
LEMMA UnregisteredServes ==
  ASSUME NEW c, Served(c)
  PROVE  Served(Unregistered(c))
<1> DEFINE f == [c EXCEPT !.key = FALSE]
<1> DEFINE w == [c EXCEPT !.wire = <<"register">> \o c.wire]
<1>1. Unregistered(c) = IF c.key THEN Send(f, "register") ELSE w
  BY DEF Unregistered
<1>2. c \in Client /\ <<"register">> \o c.wire \in Seq(Requests) /\ "register" \in Requests
  BY Fields DEF Served, Requests
<1>3. f \in Client /\ Standing(c, f) /\ w \in Client /\ Standing(c, w)
  BY <1>2 DEF Client, Standing
<1> HIDE DEF f, w
<1>4. Served(f) /\ Served(w)
  BY <1>3, StandingServed
<1> QED
  BY <1>1, <1>2, <1>4, SendServes DEF Served

\* onRead: whatever the display says, its answer came from a stream that is read from.
LEMMA OnReadServes ==
  ASSUME NEW c, Served(c), NEW a, c.wire # <<>>, c.reads > 0, c.chain \in {"open", "closing"}
  PROVE  Served(OnRead(c, a))
<1> DEFINE d == Heard(c)
<1>1. d \in Client
  BY HeardFrame DEF Frame, Served
<1>2. OnRead(c, a) \in {Reject(d, Head(c.wire)), Finish(d, "aborted"), Registered(d),
                        Unregistered(d), Respond(d, Head(c.wire), a)}
  BY DEF OnRead, Heard
<1>3. /\ d.queue = c.queue /\ d.work = c.work /\ d.status = "CONNECTED" /\ d.chain = c.chain
      /\ d.reads = c.reads /\ d.writes = c.writes /\ d.blocked = c.blocked
      /\ d.stale = c.stale /\ d.resolving = c.resolving /\ d.timer = c.timer
      /\ d.delayed = c.delayed /\ d.cancelled = c.cancelled
  BY DEF Heard, Served, Client
<1> HIDE DEF d
<1>4. Served(d)
  BY <1>1, <1>3 DEF Served, Listens, Sorted, Filled, Talks, Busy, Going
<1>5. \A r : Reject(d, r) \in {Conclude(d, TRUE), Finish(d, "aborted")}
  BY DEF Reject
<1>6. Served(Conclude(d, TRUE)) /\ Served(Finish(d, "aborted"))
  BY <1>4, ConcludeServes, FinishServes DEF Served, Fates
<1> QED
  BY <1>2, <1>4, <1>5, <1>6, RegisteredServes, UnregisteredServes, RespondServes

\* What a failure leaves alone: the work, the status, and a stream that is still open.
Fails(c, d) ==
    /\ d \in Client
    /\ d.queue = c.queue /\ d.work = c.work /\ d.delayed = c.delayed /\ d.status = c.status
    /\ d.chain = "open" => c.chain = "open" /\ d.reads = c.reads

\* The handler of a failure serves the unit in progress again, or the next one.
LEMMA FailsServed ==
  ASSUME NEW c, NEW d, Served(c), Fails(c, d)
  PROVE  Served(OnError(d))
<1>1. d \in Client /\ Listens(d) /\ Sorted(d) /\ Filled(d)
  BY DEF Fails, Served, Listens, Sorted, Filled
<1> QED
  BY <1>1, OnErrorServes

\* A call of the public API.
LEMMA CallServes ==
  ASSUME Served(client), Call
  PROVE  Served(client')
<1>1. PICK u \in Commands : client' = Enqueue(client, u)
  BY DEF Call
<1> QED
  BY <1>1, EnqueueServes, ClientAssumption

\* The name lookup fails, or a connection is begun.
LEMMA OnResolveServes ==
  ASSUME Served(client), OnResolve
  PROVE  Served(client')
<1> DEFINE n == client.resolving - 1
<1> DEFINE c == [client EXCEPT !.resolving = n]
<1> DEFINE s == IF client.chain \in {"connect", "ssl", "handshake"}
                THEN Capped(client.stale + 1) ELSE client.stale
<1> DEFINE d == [client EXCEPT !.resolving = n, !.status = "CONNECTING",
                               !.chain = "connect", !.stale = s]
<1>1. client \in Client
  BY DEF Served
<1>2. n \in 0 .. MaxPending
  BY <1>1, CountsDown, Fields DEF OnResolve
<1>3. s \in 0 .. MaxPending
  BY <1>1, CountsUp, Fields
<1> HIDE DEF n
<1>4. Fails(client, c) /\ c.chain = client.chain /\ c.stale = client.stale
  <2>1. c \in Client
    BY <1>1, <1>2 DEF Client
  <2>2. /\ c.queue = client.queue /\ c.work = client.work /\ c.delayed = client.delayed
        /\ c.status = client.status /\ c.chain = client.chain /\ c.reads = client.reads
        /\ c.stale = client.stale
    BY <1>1 DEF Client
  <2> HIDE DEF c
  <2> QED
    BY <2>1, <2>2 DEF Fails
<1>5. client' = OnError(c) \/ client' = d
  <2>1. \/ client' = OnError(c)
        \/ client' = [c EXCEPT !.status = "CONNECTING", !.chain = "connect",
                               !.stale = IF c.chain \in {"connect", "ssl", "handshake"}
                                         THEN Capped(c.stale + 1) ELSE c.stale]
    BY DEF OnResolve, n
  <2>2. [c EXCEPT !.status = "CONNECTING", !.chain = "connect", !.stale = s] = d
    BY <1>1 DEF Client
  <2> HIDE DEF d, c
  <2> QED
    BY <1>4, <2>1, <2>2
<1> HIDE DEF c, s
<1>6. Served(d)
  <2>1. d \in Client
    BY <1>1, <1>2, <1>3 DEF Client, Stages
  <2>2. /\ d.queue = client.queue /\ d.work = client.work /\ d.delayed = client.delayed
        /\ d.status = "CONNECTING" /\ d.chain = "connect"
    BY <1>1 DEF Client
  <2> HIDE DEF d
  <2> QED
    BY <2>1, <2>2 DEF Served, Listens, Sorted, Filled, Talks, Going
<1> HIDE DEF d
<1> QED
  BY <1>4, <1>5, <1>6, FailsServed

\* The connection gets one stage further; the last one writes the handshake.
LEMMA OnStageServes ==
  ASSUME Served(client), OnStage
  PROVE  Served(client')
<1> DEFINE s == [client EXCEPT !.status = "CONNECTING", !.chain = "ssl"]
<1> DEFINE o == [client EXCEPT !.status = "CONNECTING", !.chain = "open"]
<1> DEFINE h == [client EXCEPT !.status = "CONNECTING", !.chain = "handshake"]
<1>1. client \in Client
  BY DEF Served
<1>2. s \in Client /\ o \in Client /\ h \in Client
  BY <1>1 DEF Client, Stages
<1>3. \A d \in {s, o, h} : /\ d.queue = client.queue /\ d.work = client.work
                          /\ d.delayed = client.delayed /\ d.status = "CONNECTING"
  BY <1>1 DEF Client
<1>4. s.chain = "ssl" /\ h.chain = "handshake"
  BY <1>1 DEF Client
<1>5. client' \in {s, Send(o, "register"), h}
  <2> DEFINE c == [client EXCEPT !.status = "CONNECTING"]
  <2>1. [c EXCEPT !.chain = "ssl"] = s /\ [c EXCEPT !.chain = "open"] = o
          /\ [c EXCEPT !.chain = "handshake"] = h
    BY <1>1 DEF Client
  <2>2. client' = CASE client.chain = "connect" /\ device.ssl -> [c EXCEPT !.chain = "ssl"]
                    [] client.chain = "handshake" -> Send([c EXCEPT !.chain = "open"], "register")
                    [] OTHER -> [c EXCEPT !.chain = "handshake"]
    BY DEF OnStage
  <2> HIDE DEF c, s, o, h
  <2> QED
    BY <2>1, <2>2
<1> HIDE DEF s, o, h
<1>6. \A d \in {s, o, h} : Listens(d) /\ Sorted(d) /\ Filled(d) /\ Talks(d)
  BY <1>3 DEF Served, Listens, Sorted, Filled, Talks
<1>7. Served(s) /\ Served(h)
  BY <1>2, <1>4, <1>6 DEF Served, Going
<1>8. Served(Send(o, "register"))
  BY <1>2, <1>6, SendServes DEF Requests
<1> QED
  BY <1>5, <1>7, <1>8

\* A stage of the connection fails.
LEMMA OnStageFailedServes ==
  ASSUME Served(client), OnStageFailed
  PROVE  Served(client')
<1> DEFINE c == [client EXCEPT !.chain = "failed"]
<1>1. client' = OnError(c)
  BY DEF OnStageFailed
<1>2. c \in Client
  BY DEF Served, Client, Stages
<1>3. Fails(client, c)
  BY <1>2 DEF Served, Fails, Client
<1> HIDE DEF c
<1> QED
  BY <1>1, <1>3, FailsServed

\* A request is written: the first one is followed by a read, and a write behind a
\* close frame is still to come back.
LEMMA OnWriteServes ==
  ASSUME Served(client), OnWrite
  PROVE  Served(client')
<1> DEFINE n == client.writes - 1
<1> DEFINE r == IF client.status = "CONNECTING" THEN Capped(client.reads + 1) ELSE client.reads
<1> DEFINE c == [client EXCEPT !.writes = n]
<1> DEFINE d == [client EXCEPT !.writes = n, !.reads = r]
<1>1. client \in Client
  BY DEF Served
<1>2. /\ client.writes \in 0 .. MaxPending /\ client.blocked \in 0 .. MaxPending
      /\ client.reads \in 0 .. MaxPending /\ MaxPending \in Nat
      /\ client.writes > client.blocked /\ client.chain \in {"open", "closing"}
  BY <1>1, Fields, ClientAssumption DEF OnWrite
<1>3. n \in 0 .. MaxPending /\ n >= client.blocked
  BY <1>2
<1>4. /\ r \in 0 .. MaxPending
      /\ client.status = "CONNECTING" => r > 0
      /\ client.status # "CONNECTING" => r = client.reads
      /\ client.reads > 0 => r > 0
  <2>1. Capped(client.reads + 1) \in 0 .. MaxPending /\ Capped(client.reads + 1) > 0
    BY <1>2, CountsUp, CountsOne
  <2> QED
    BY <1>2, <2>1
<1>5. client' = d
  <2>1. c.status = client.status /\ c.reads = client.reads
    BY <1>1 DEF Client
  <2>2. client' = IF c.status = "CONNECTING" THEN Read(c) ELSE c
    BY DEF OnWrite
  <2>3. CASE client.status = "CONNECTING"
    <3>1. client' = [c EXCEPT !.reads = Capped(client.reads + 1)]
      BY <2>1, <2>2, <2>3 DEF Read
    <3>2. r = Capped(client.reads + 1)
      BY <2>3
    <3> HIDE DEF r, n
    <3> QED
      BY <1>1, <3>1, <3>2 DEF Client
  <2>4. CASE client.status # "CONNECTING"
    <3>1. client' = c /\ r = client.reads
      BY <2>1, <2>2, <2>4
    <3> HIDE DEF r, n
    <3> QED
      BY <1>1, <3>1 DEF Client
  <2> QED
    BY <2>3, <2>4
<1> HIDE DEF n, r, c
<1>6. d \in Client
  BY <1>1, <1>3, <1>4 DEF Client
<1>7. /\ d.queue = client.queue /\ d.work = client.work /\ d.status = client.status
      /\ d.chain = client.chain /\ d.reads = r /\ d.writes = n /\ d.blocked = client.blocked
      /\ d.stale = client.stale /\ d.resolving = client.resolving
      /\ d.timer = client.timer /\ d.delayed = client.delayed
      /\ d.cancelled = client.cancelled
  BY <1>1 DEF Client
<1> HIDE DEF d
<1>8. Listens(d) /\ Sorted(d) /\ Filled(d) /\ Talks(d)
  BY <1>4, <1>7 DEF Served, Listens, Sorted, Filled, Talks, Busy
<1>9. Busy(d) => Going(d)
  <2> SUFFICES ASSUME Busy(d) PROVE Going(d)
    OBVIOUS
  <2>1. Going(client)
    BY <1>7 DEF Served, Busy
  <2>2. CASE client.chain = "open"
    BY <1>2, <1>4, <1>7, <2>1, <2>2 DEF Going
  <2>3. CASE client.chain = "closing"
    <3>1. client.blocked > 0 => n > 0
      BY <1>2, <1>3
    <3> QED
      BY <1>7, <2>1, <2>3, <3>1 DEF Going
  <2> QED
    BY <1>2, <2>2, <2>3
<1> QED
  BY <1>5, <1>6, <1>8, <1>9 DEF Served

\* An answer is read.
LEMMA OnReadAnswerServes ==
  ASSUME Served(client), OnReadAnswer
  PROVE  Served(client')
<1>1. PICK a : client' = OnRead(client, a)
  BY DEF OnReadAnswer
<1> QED
  BY <1>1, OnReadServes DEF OnReadAnswer

\* A read fails, and with it the connection.
LEMMA OnReadFailedServes ==
  ASSUME Served(client), OnReadFailed
  PROVE  Served(client')
<1> DEFINE n == client.reads - 1
<1> DEFINE b == Broken(client.chain)
<1> DEFINE c == [client EXCEPT !.reads = n, !.chain = b]
<1>1. client \in Client
  BY DEF Served
<1>2. n \in 0 .. MaxPending
  BY <1>1, CountsDown, Fields DEF OnReadFailed
<1>3. b \in Stages /\ b # "open"
  BY <1>1, Fields DEF Broken, Stages
<1>4. client' = OnError(c)
  BY DEF OnReadFailed
<1> HIDE DEF n, b
<1>5. c \in Client
  BY <1>1, <1>2, <1>3 DEF Client
<1>6. Fails(client, c)
  BY <1>1, <1>3, <1>5 DEF Fails, Client
<1> HIDE DEF c
<1> QED
  BY <1>4, <1>6, FailsServed

\* A write fails, and with it the connection.
LEMMA OnWriteFailedServes ==
  ASSUME Served(client), OnWriteFailed
  PROVE  Served(client')
<1> DEFINE n == client.writes - 1
<1> DEFINE k == IF client.writes > client.blocked THEN client.blocked ELSE client.blocked - 1
<1> DEFINE b == IF client.chain \in {"open", "closing"} THEN "failed" ELSE client.chain
<1> DEFINE c == [client EXCEPT !.writes = n, !.blocked = k, !.chain = b]
<1>1. client \in Client
  BY DEF Served
<1>2. n \in 0 .. MaxPending
  BY <1>1, CountsDown, Fields DEF OnWriteFailed
<1>3. k \in 0 .. MaxPending
  <2>1. client.blocked \in 0 .. MaxPending /\ client.writes \in 0 .. MaxPending /\ client.writes > 0
    BY <1>1, Fields DEF OnWriteFailed
  <2> QED
    BY <2>1, ClientAssumption
<1>4. b \in Stages /\ b # "open"
  BY <1>1, Fields DEF Stages
<1>5. client' = OnError(c)
  BY DEF OnWriteFailed
<1> HIDE DEF n, k, b
<1>6. c \in Client
  BY <1>1, <1>2, <1>3, <1>4 DEF Client
<1>7. Fails(client, c)
  BY <1>1, <1>4, <1>6 DEF Fails, Client
<1> HIDE DEF c
<1> QED
  BY <1>5, <1>7, FailsServed

\* The close handshake succeeds: the writes behind it, if work relies on them, fail.
LEMMA OnCloseServes ==
  ASSUME Served(client), OnClose
  PROVE  Served(client')
<1> DEFINE n == client.closes - 1
<1> DEFINE c == [client EXCEPT !.closes = n, !.chain = "closed", !.status = "DISCONNECTED"]
<1>1. client \in Client
  BY DEF Served
<1>2. n \in 0 .. MaxPending
  BY <1>1, CountsDown, Fields DEF OnClose
<1>3. client' = c /\ client.chain = "closing"
  BY DEF OnClose
<1> HIDE DEF n
<1>4. c \in Client
  BY <1>1, <1>2 DEF Client, Stages
<1>5. /\ c.queue = client.queue /\ c.work = client.work /\ c.status = "DISCONNECTED"
      /\ c.chain = "closed" /\ c.reads = client.reads /\ c.writes = client.writes
      /\ c.stale = client.stale /\ c.resolving = client.resolving
      /\ c.timer = client.timer /\ c.delayed = client.delayed
      /\ c.cancelled = client.cancelled
  BY <1>1 DEF Client
<1> HIDE DEF c
<1>6. Served(c)
  BY <1>3, <1>4, <1>5 DEF Served, Listens, Sorted, Filled, Talks, Busy, Going
<1> QED
  BY <1>3, <1>6

\* The close handshake fails.
LEMMA OnCloseFailedServes ==
  ASSUME Served(client), OnCloseFailed
  PROVE  Served(client')
<1> DEFINE n == client.closes - 1
<1> DEFINE b == IF client.chain = "closing" THEN "failed" ELSE client.chain
<1> DEFINE c == [client EXCEPT !.closes = n, !.chain = b]
<1>1. client \in Client
  BY DEF Served
<1>2. n \in 0 .. MaxPending
  BY <1>1, CountsDown, Fields DEF OnCloseFailed
<1>3. b \in Stages /\ (b = client.chain \/ b = "failed")
  BY <1>1, Fields DEF Stages
<1>4. client' = OnError(c)
  BY DEF OnCloseFailed
<1> HIDE DEF n, b
<1>5. c \in Client
  BY <1>1, <1>2, <1>3 DEF Client
<1>6. Fails(client, c)
  BY <1>1, <1>3, <1>5 DEF Fails, Client
<1> HIDE DEF c
<1> QED
  BY <1>4, <1>6, FailsServed

\* The handlers of operations that were cancelled look at the unit in progress too.
LEMMA AbortedServes ==
  ASSUME Served(client), OnAborted \/ OnCancelled
  PROVE  Served(client')
<1>1. client \in Client
  BY DEF Served
<1>2. CASE OnAborted
  <2> DEFINE n == client.stale - 1
  <2> DEFINE c == [client EXCEPT !.stale = n]
  <2>1. n \in 0 .. MaxPending
    BY <1>1, <1>2, CountsDown, Fields DEF OnAborted
  <2>2. client' = OnError(c)
    BY <1>2 DEF OnAborted
  <2> HIDE DEF n
  <2>3. c \in Client
    BY <1>1, <2>1 DEF Client
  <2>4. Fails(client, c)
    BY <1>1, <2>3 DEF Fails, Client
  <2> HIDE DEF c
  <2> QED
    BY <2>2, <2>4, FailsServed
<1>3. CASE OnCancelled
  <2> DEFINE n == client.cancelled - 1
  <2> DEFINE c == [client EXCEPT !.cancelled = n]
  <2>1. n \in 0 .. MaxPending
    BY <1>1, <1>3, CountsDown, Fields DEF OnCancelled
  <2>2. client' = OnError(c)
    BY <1>3 DEF OnCancelled
  <2> HIDE DEF n
  <2>3. c \in Client
    BY <1>1, <2>1 DEF Client
  <2>4. Fails(client, c)
    BY <1>1, <2>3 DEF Fails, Client
  <2> HIDE DEF c
  <2> QED
    BY <2>2, <2>4, FailsServed
<1> QED
  BY <1>2, <1>3

\* The display is asked for its power state once more, and the wait is over.
LEMMA OnWaitServes ==
  ASSUME Served(client), OnWait
  PROVE  Served(client')
<1> DEFINE c == [client EXCEPT !.timer = "idle"]
<1>1. client' = Send(c, "getPowerState")
  BY DEF OnWait
<1>2. c \in Client /\ Listens(c) /\ Sorted(c) /\ Filled(c) /\ Talks(c)
  BY DEF Served, Client, Listens, Sorted, Filled, Talks, Busy
<1> HIDE DEF c
<1> QED
  BY <1>1, <1>2, SendServes DEF Requests

\* The unit in progress is tried over a new connection.
LEMMA OnRetryConnectionServes ==
  ASSUME Good(client), Served(client), OnRetryConnection
  PROVE  Served(client')
<1> DEFINE w == [client.work EXCEPT !.retry = client.work.retry + 1]
<1> DEFINE c == [client EXCEPT !.timer = "idle", !.work = w]
<1> DEFINE d == Run(c)
<1>1. client \in Client /\ client.work \in Work /\ client.timer = "retry"
  BY Fields DEF Good, OnRetryConnection
<1>2. w \in Work
  <2>1. client.work.retry < MaxRetries /\ MaxRetries \in Nat
    BY <1>1, ClientAssumption DEF Good, Attempts, MaxRetries
  <2>2. client.work.retry + 1 \in 0 .. MaxRetries
    BY <1>1, <2>1 DEF Work
  <2> QED
    BY <1>1, <2>2 DEF Work
<1>3. w.type = client.work.type /\ w.age = client.work.age
  BY <1>1 DEF Work
<1>4. c = [client EXCEPT !.timer = "idle", !.work.retry = client.work.retry + 1]
  BY <1>1 DEF Client, Work
<1>5. client' = IF d.work.type = "POWER_ON" THEN RunWOL(d) ELSE d
  <2>1. c = [client EXCEPT !.timer = "idle", !.work.retry = @ + 1]
    BY <1>4
  <2> HIDE DEF c
  <2> QED
    BY <2>1 DEF OnRetryConnection
<1> HIDE DEF w
<1>6. /\ c \in Client /\ c.queue = client.queue /\ c.work = w
      /\ c.delayed = client.delayed
  BY <1>1, <1>2 DEF Client
<1> HIDE DEF c
<1>7. Sorted(c) /\ Filled(c)
  BY <1>3, <1>6 DEF Served, Sorted, Filled
<1>8. Served(d) /\ d \in Client
  BY <1>6, <1>7, RunServes DEF Served
<1> HIDE DEF d
<1>9. RunWOL(d) \in Client /\ Standing(d, RunWOL(d))
  BY <1>8, RunWOLType DEF RunWOL, Standing, Client
<1> QED
  BY <1>5, <1>8, <1>9, StandingServed

\* A delayed request that has become due is sent, or a connection made for it.
LEMMA OnDelayedRequestServes ==
  ASSUME Served(client), OnDelayedRequest
  PROVE  Served(client')
<1> DEFINE s == Settle(client, "replaced")
<1> DEFINE w == [client.work EXCEPT !.type = "REQUEST"]
<1> DEFINE c == [s EXCEPT !.delayed = FALSE, !.work = w]
<1>1. client \in Client /\ client.work \in Work
  BY Fields DEF Served
<1>2. w \in Work /\ w.type = "REQUEST"
  BY <1>1 DEF Work, WorkTypes
<1>3. s \in Client /\ Standing(client, s)
  BY <1>1, SettleStanding DEF Fates
<1>4. client' = Contact(c)
  <2>1. c = [s EXCEPT !.delayed = FALSE, !.work.type = "REQUEST"]
    BY <1>1, <1>3 DEF Client, Work, Standing
  <2> HIDE DEF c
  <2> QED
    BY <2>1 DEF OnDelayedRequest
<1> HIDE DEF s, w
<1>5. /\ c \in Client /\ c.work = w /\ c.status = s.status /\ c.chain = s.chain
      /\ c.reads = s.reads
  BY <1>2, <1>3 DEF Client
<1> HIDE DEF c
<1>6. Listens(c) /\ Sorted(c) /\ Filled(c)
  BY <1>2, <1>3, <1>5 DEF Served, Standing, Listens, Sorted, Filled
<1> QED
  BY <1>4, <1>5, <1>6, ContactServes

\* The session is closed, and what it was doing is thrown away.
LEMMA OnDelayedCloseServes ==
  ASSUME Served(client), OnDelayedClose
  PROVE  Served(client')
<1> DEFINE c == [client EXCEPT !.closeTimer = FALSE]
<1>1. client' = DoClose(c, "dropped")
  BY DEF OnDelayedClose
<1>2. c \in Client /\ Listens(c)
  BY DEF Served, Client, Listens
<1> HIDE DEF c
<1> QED
  BY <1>1, <1>2, DoCloseServes DEF Fates

\* The keep-alive unit that was posted is enqueued.
LEMMA EnqueueKeepAliveServes ==
  ASSUME Served(client), EnqueueKeepAlive
  PROVE  Served(client')
<1> DEFINE c == [client EXCEPT !.keepAlivePosted = FALSE]
<1> DEFINE u == [type |-> "KEEPALIVE", forced |-> FALSE]
<1>1. u \in Command
  BY DEF Command, WorkTypes
<1>2. client' = Enqueue(c, u)
  BY DEF EnqueueKeepAlive
<1>3. c \in Client /\ Standing(client, c)
  BY DEF Served, Client, Standing
<1> HIDE DEF c, u
<1> QED
  BY <1>1, <1>2, <1>3, StandingServed, EnqueueServes

\* The keep-alive timer, the end of the wake loop and the loss of the button socket
\* change nothing that work waits for.
LEMMA OthersStanding ==
  ASSUME Served(client), OnKeepAlive \/ OnWOL \/ ButtonClientDisconnects
  PROVE  Served(client')
<1>1. client \in Client
  BY DEF Served
<1>2. CASE OnKeepAlive
  <2> DEFINE b == client.keepAlivePosted \/ (client.status = "CONNECTED"
                                             /\ client.work.type = "UNDEFINED")
  <2> DEFINE c == [client EXCEPT !.keepAlive = FALSE, !.keepAlivePosted = b]
  <2>1. client' = c
    BY <1>2 DEF OnKeepAlive
  <2>2. b \in BOOLEAN
    BY <1>1 DEF Client
  <2> HIDE DEF b
  <2>3. c \in Client /\ Standing(client, c)
    BY <1>1, <2>2 DEF Client, Standing
  <2> QED
    BY <2>1, <2>3, StandingServed
<1>3. CASE OnWOL
  <2>1. client' \in Client /\ Standing(client, client')
    BY <1>1, <1>3 DEF OnWOL, Client, Standing
  <2> QED
    BY <2>1, StandingServed
<1>4. CASE ButtonClientDisconnects
  <2>1. client' \in Client /\ Standing(client, client')
    BY <1>1, <1>4 DEF ButtonClientDisconnects, Client, Standing
  <2> QED
    BY <2>1, StandingServed
<1> QED
  BY <1>2, <1>3, <1>4

\* A unit outlasts a deadline, which changes nothing that it waits for.
LEMMA WorkAgesServes ==
  ASSUME Served(client), WorkAges
  PROVE  Served(client')
<1> DEFINE age == IF client.work.type = "POWER_ON" /\ client.work.age = "fresh"
                  THEN "expired" ELSE "lingering"
<1> DEFINE w == [client.work EXCEPT !.age = age]
<1> DEFINE c == [client EXCEPT !.work = w]
<1>1. client \in Client /\ client.work \in Work /\ client.work.age # "lingering"
  BY Fields DEF Served, WorkAges
<1>2. client' = c
  <2>1. c = [client EXCEPT !.work.age = age]
    BY <1>1 DEF Client, Work
  <2> QED
    BY <2>1 DEF WorkAges
<1>3. age \in {"expired", "lingering"}
  OBVIOUS
<1> HIDE DEF age
<1>4. w \in Work /\ w.type = client.work.type
  BY <1>1, <1>3 DEF Work
<1> HIDE DEF w
<1>5. c \in Client
  BY <1>1, <1>4 DEF Client
<1>6. /\ c.queue = client.queue /\ c.work = w /\ c.status = client.status
      /\ c.chain = client.chain /\ c.reads = client.reads /\ c.writes = client.writes
      /\ c.blocked = client.blocked /\ c.stale = client.stale
      /\ c.resolving = client.resolving /\ c.timer = client.timer
      /\ c.delayed = client.delayed /\ c.cancelled = client.cancelled
  BY <1>1 DEF Client
<1> HIDE DEF c
<1>7. Served(c)
  BY <1>1, <1>4, <1>5, <1>6 DEF Served, Listens, Sorted, Filled, Talks, Busy, Going
<1> QED
  BY <1>2, <1>7

\* Every handler leaves the work of the session served.
LEMMA NextServed ==
  ASSUME Good(client), Served(client), Next
  PROVE  Served(client')
<1>1. CASE Expiries
  BY <1>1, OnWaitServes, OnRetryConnectionServes, OnDelayedRequestServes,
     OnDelayedCloseServes, OthersStanding DEF Expiries
<1>2. CASE Network
  BY <1>2, OnStageServes, OnStageFailedServes, OnWriteServes, OnWriteFailedServes,
     OnReadAnswerServes, OnReadFailedServes, OnCloseServes, OnCloseFailedServes DEF Network
<1>3. CASE Posted
  BY <1>3, OnResolveServes, AbortedServes, EnqueueKeepAliveServes DEF Posted
<1> QED
  BY <1>1, <1>2, <1>3, CallServes, OthersStanding, WorkAgesServes DEF Next

\* Work that was accepted is never left with nothing under way that would begin or
\* continue it, in any order of calls, answers, failures and expiries.
THEOREM NoWorkIsLeft == Spec => []NoStrandedWork
<1> DEFINE SInv == IInv /\ Served(client)
<1>1. Init => SInv
  <2> SUFFICES ASSUME Init PROVE Served(client)
    BY InitGood
  <2>1. client \in Client
    BY InitGood DEF IInv, Good
  <2>2. client.queue = <<>> /\ client.work = NoWork /\ client.status = "DISCONNECTED"
    BY <2>1 DEF Init, InitClient, Client
  <2> QED
    BY <2>1, <2>2 DEF Served, Listens, Sorted, Filled, Talks, Busy, NoWork
<1>2. SInv /\ [Next]_vars => SInv'
  <2> SUFFICES ASSUME SInv, [Next]_vars PROVE SInv'
    OBVIOUS
  <2>1. CASE Next
    BY <2>1, NextGood, NextBudget, NextServed DEF IInv
  <2>2. CASE UNCHANGED vars
    BY <2>2 DEF vars, IInv
  <2> QED
    BY <2>1, <2>2
<1>3. SInv => NoStrandedWork
  <2> SUFFICES ASSUME Served(client), Quiescent(client)
               PROVE  client.work.type = "UNDEFINED" /\ client.queue = <<>>
    BY DEF NoStrandedWork
  <2>1. client \in Client
    BY DEF Served
  <2>2. /\ client.reads = 0 /\ client.writes = 0 /\ client.stale = 0
        /\ client.resolving = 0 /\ client.cancelled = 0
    <3> DEFINE m == client.reads
    <3> DEFINE n == client.writes
    <3> DEFINE o == client.closes
    <3> DEFINE p == client.stale
    <3> DEFINE q == client.resolving
    <3> DEFINE r == client.cancelled
    <3>1. \A i \in 0 .. MaxPending : i \in Nat
      BY ClientAssumption
    <3>2. m \in Nat /\ n \in Nat /\ o \in Nat /\ p \in Nat /\ q \in Nat /\ r \in Nat
      BY <2>1, <3>1, Fields
    <3>3. m + n + o + p + q + r = 0
      BY DEF Quiescent
    <3> HIDE DEF m, n, o, p, q, r
    <3>4. m = 0 /\ n = 0 /\ p = 0 /\ q = 0 /\ r = 0
      BY <3>2, <3>3
    <3> QED
      BY <3>4 DEF m, n, p, q, r
  <2>3. ~Going(client)
    BY <2>2 DEF Quiescent, Going
  <2>4. client.work.type = "UNDEFINED"
    BY <2>3 DEF Served, Busy, Sorted, Quiescent
  <2> QED
    BY <2>4 DEF Served, Filled
<1> QED
  BY <1>1, <1>2, <1>3, PTL DEF Spec
=============================================================================
