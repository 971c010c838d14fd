-------------------------- MODULE ButtonClientProofs --------------------------
(***************************************************************************)
(* That the button client of ButtonClient delivers the presses in order    *)
(* and strands none, for every device, any number of presses, closes,      *)
(* faults and delays; and that it has one reader, where completions run    *)
(* before the network moves.                                               *)
(***************************************************************************)
EXTENDS ButtonClient, FiniteSetTheorems, WellFoundedInduction, SequenceTheorems, TLAPS

-----------------------------------------------------------------------------
(* The least-number principle, from the library's well-founded ordering of  *)
(* finite sets: a set of natural numbers that is not empty has a least      *)
(* element.                                                                 *)

\* A set of numbers is mapped to the intervals below its members, which the strict
\* subset ordering of finite sets orders well.
LEMMA LeastNumber ==
  ASSUME NEW T \in SUBSET Nat, T # {}
  PROVE  \E x \in T : \A y \in T : x <= y
<1> DEFINE U == {0 .. x : x \in T}
<1>1. IsWellFoundedOn(StrictSubsetOrdering(Nat), FiniteSubsetsOf(Nat))
  BY FS_StrictSubsetOrderingWellFounded
<1>2. U \subseteq FiniteSubsetsOf(Nat) /\ U # {}
  <2>1. \A x \in T : IsFiniteSet(0 .. x) /\ 0 .. x \in SUBSET Nat
    BY FS_Interval
  <2> QED
    BY <2>1 DEF FiniteSubsetsOf
<1> HIDE DEF U
<1>3. PICK a \in U : \A b \in U : ~(<<b, a>> \in StrictSubsetOrdering(Nat))
  BY <1>1, <1>2, WFMin
<1>4. PICK x \in T : a = 0 .. x
  BY <1>3 DEF U
<1>5. ASSUME NEW y \in T, ~(x <= y) PROVE FALSE
  <2>1. 0 .. y \in U
    BY DEF U
  <2>2. /\ 0 .. y \subseteq 0 .. x /\ 0 .. y # 0 .. x
        /\ 0 .. y \in SUBSET Nat /\ 0 .. x \in SUBSET Nat
    <3>1. x \in 0 .. x /\ x \notin 0 .. y
      BY <1>5
    <3> QED
      BY <3>1, <1>5
  <2>3. <<0 .. y, a>> \in StrictSubsetOrdering(Nat)
    BY <2>2, <1>4 DEF StrictSubsetOrdering
  <2> QED
    BY <2>1, <2>3, <1>3
<1> QED
  BY <1>5


-----------------------------------------------------------------------------
(* The inductive invariant.                                                 *)

Above(s, low) == \A i \in 1 .. Len(s) : s[i].press # 0 => s[i].press > low

Below(s, high) == \A i \in 1 .. Len(s) : s[i].press <= high

Rising(s) ==
    \A i, j \in 1 .. Len(s) :
        i < j /\ s[i].press # 0 /\ s[j].press # 0 => s[i].press < s[j].press

Precede(s, t) ==
    \A i \in 1 .. Len(s), j \in 1 .. Len(t) :
        s[i].press # 0 /\ t[j].press # 0 => s[i].press < t[j].press

\* A sequence of units that come after the presses written and in progress, in the
\* order of the calls, of which there were made so many.
Later(s, c, made) ==
    Above(s, c.last) /\ Above(s, c.work.press) /\ Below(s, made) /\ Rising(s)

\* What was written, is in progress, is queued and is on its way follow each other in
\* the order of the calls. A press that is written again is the one in progress.
InLine(c, made) ==
    /\ c.last <= made /\ c.work.press <= made
    /\ c.work.press # 0 => c.last <= c.work.press
    /\ Later(c.queue, c, made) /\ Later(c.posted, c, made)
    /\ Precede(c.queue, c.posted)

\* A close is never in progress, and a retry that is waited for is still allowed.
Allowed(c) == c.work.type # "CLOSE" /\ (c.retryTimer => c.work.retry < MaxRetries)

\* A stream that is not open yet has no reader, and while a name is being resolved
\* there is no other stream.
Reader(c) ==
    /\ c.reads <= 1
    /\ c.resolving > 0 \/ c.chain \in Handshaking \cup {"fresh"} => c.reads = 0
    /\ c.status = "CONNECTING" => c.chain \notin {"open", "closing"}

\* Something will call onError or startNextWork. A close will not do: it may be one
\* asked for before the unit in progress began.
Waited(c) ==
    \/ c.chain \in Handshaking
    \/ c.reads + c.writes + c.resolving + c.stale + c.abortedRetry > 0
    \/ c.retryTimer

\* Only a unit in progress keeps others waiting, and it is waited for itself.
Manned(c) ==
    /\ c.queue # <<>> => c.work.type # "UNDEFINED"
    /\ c.work.type # "UNDEFINED" => Waited(c)

\* What every member keeps, in the middle of a handler too.
Sound(c, made) ==
    c \in Client /\ InLine(c, made) /\ Allowed(c) /\ (Prompt => Reader(c))

ButtonInv == TypeOK /\ Sound(client, Pressed) /\ Manned(client)

-----------------------------------------------------------------------------
(* The stream and the timers.                                               *)

\* What the members of a client are.
LEMMA Fields ==
  ASSUME NEW c, c \in Client
  PROVE  /\ c.posted \in Seq(Unit) /\ c.queue \in Seq(Unit) /\ c.work \in Work
         /\ c.status \in {"DISCONNECTED", "CONNECTING", "CONNECTED"} /\ c.chain \in Stages
         /\ \A n \in {c.reads, c.writes, c.blocked, c.closes, c.stale, c.resolving,
                      c.abortedRetry} : n \in 0 .. MaxPending /\ n \in Nat
         /\ c.retryTimer \in BOOLEAN /\ c.keepAlive \in BOOLEAN /\ c.last \in Press
         /\ MaxPending \in Nat /\ MaxPending > 0
BY ButtonAssumption DEF Client

\* A capped counter counts, and stays within its bound.
LEMMA CappedCounts ==
  ASSUME NEW n \in 0 .. MaxPending
  PROVE  /\ Capped(n + 1) \in 1 .. MaxPending /\ Capped(n + 1) \in 0 .. MaxPending
         /\ Capped(n) = n
         /\ n = 0 => Capped(n + 1) = 1
BY ButtonAssumption DEF Capped

\* No work is a unit of no press.
LEMMA NoWorkOK ==
  /\ NoWork \in Work /\ NoWork.press = 0 /\ NoWork.retry = 0 /\ NoWork.type = "UNDEFINED"
  /\ NoWork.old = FALSE
<1>1. 0 \in Press /\ 0 \in 0 .. MaxRetries /\ "UNDEFINED" \in WorkTypes
  BY ButtonAssumption DEF Press, MaxRetries, WorkTypes
<1> QED
  BY <1>1 DEF NoWork, Work

\* d is c with another stream, other operations in flight or another timer.
SameWork(c, d) ==
    /\ d.queue = c.queue /\ d.posted = c.posted /\ d.work = c.work /\ d.last = c.last

\* What the line says rests on what is written, in progress, queued and posted alone.
LEMMA SameLine ==
  ASSUME NEW c, NEW d, NEW made, SameWork(c, d), InLine(c, made)
  PROVE  InLine(d, made)
BY DEF SameWork, InLine, Later

\* A write on an open stream is one of the press in progress.
LEMMA SendSound ==
  ASSUME NEW made \in Nat, NEW c, Sound(c, made)
  PROVE  /\ Sound(Send(c), made) /\ Waited(Send(c))
         /\ Send(c).last >= c.last
         /\ Send(c).work = c.work /\ Send(c).queue = c.queue /\ Send(c).chain = c.chain
         /\ Send(c).reads = c.reads /\ Send(c).resolving = c.resolving
         /\ Send(c).status = c.status
<1> DEFINE d == Send(c)
<1> DEFINE w == Capped(c.writes + 1)
<1> DEFINE b == IF c.chain = "closing" THEN Capped(c.blocked + 1) ELSE c.blocked
<1> DEFINE l == IF c.chain = "open" /\ c.work.press # 0 THEN c.work.press ELSE c.last
<1>1. c \in Client
  BY DEF Sound
<1>2. w \in 1 .. MaxPending /\ b \in 0 .. MaxPending
  <2>1. c.writes \in 0 .. MaxPending /\ c.blocked \in 0 .. MaxPending
    BY <1>1, Fields
  <2>2. w \in 1 .. MaxPending /\ Capped(c.blocked + 1) \in 0 .. MaxPending
    BY <2>1, CappedCounts
  <2> QED
    BY <2>1, <2>2
<1>3. l \in Press /\ l >= c.last /\ l <= made /\ (c.work.press # 0 => l <= c.work.press)
  BY <1>1 DEF Client, Work, Press, Sound, InLine
<1>4. /\ Above(c.queue, l) /\ Above(c.posted, l)
  BY DEF Sound, InLine, Later
<1>5. d = [c EXCEPT !.writes = w, !.blocked = b, !.last = l]
  BY DEF Send
<1> HIDE DEF w, b, l
<1>6. d \in Client
  <2>1. w \in 0 .. MaxPending
    BY <1>2, ButtonAssumption
  <2> QED
    BY <1>1, <1>2, <1>3, <1>5, <2>1 DEF Client
<1>7. /\ d.queue = c.queue /\ d.posted = c.posted /\ d.work = c.work
      /\ d.chain = c.chain /\ d.status = c.status /\ d.reads = c.reads
      /\ d.resolving = c.resolving /\ d.retryTimer = c.retryTimer
      /\ d.writes = w /\ d.last = l
  BY <1>1, <1>5 DEF Client
<1> HIDE DEF d
<1>8. InLine(d, made)
  BY <1>3, <1>4, <1>7 DEF Sound, InLine, Later
<1>9. Sound(d, made)
  BY <1>6, <1>7, <1>8 DEF Sound, Allowed, Reader
<1>10. Waited(d)
  BY <1>2, <1>6, <1>7, Fields DEF Waited
<1> QED
  BY <1>3, <1>7, <1>9, <1>10 DEF d

\* A new stream has no reader, and its name is being resolved.
LEMMA RunSound ==
  ASSUME NEW made \in Nat, NEW c, c \in Client, InLine(c, made), Allowed(c)
  PROVE  /\ Sound(Run(c), made) /\ Waited(Run(c))
         /\ SameWork(c, Run(c))
<1> DEFINE d == Run(c)
<1> DEFINE s == Capped(c.stale + InFlight(c))
<1> DEFINE n == Capped(c.resolving + 1)
<1>1. s \in 0 .. MaxPending
  <2>1. InFlight(c) \in Nat /\ c.stale \in Nat
    BY ButtonAssumption DEF InFlight, Client
  <2> QED
    BY <2>1, ButtonAssumption DEF Capped
<1>2. n \in 1 .. MaxPending
  BY CappedCounts, Fields
<1>3. 0 \in 0 .. MaxPending /\ "fresh" \in Stages
  BY ButtonAssumption DEF Stages
<1>4. d = [c EXCEPT !.status = "CONNECTING", !.chain = "fresh", !.reads = 0, !.writes = 0,
                    !.blocked = 0, !.closes = 0, !.stale = s, !.resolving = n]
  BY DEF Run
<1> HIDE DEF s, n
<1> DEFINE e == [c EXCEPT !.status = "CONNECTING", !.chain = "fresh", !.reads = 0, !.writes = 0]
<1>5. e \in Client
  BY <1>3 DEF Client
<1>6. d = [e EXCEPT !.blocked = 0, !.closes = 0, !.stale = s, !.resolving = n]
  BY <1>4
<1>7. /\ e.queue = c.queue /\ e.posted = c.posted /\ e.work = c.work /\ e.last = c.last
      /\ e.retryTimer = c.retryTimer /\ e.chain = "fresh" /\ e.reads = 0
  BY DEF Client
<1> HIDE DEF d, e
<1>8. d \in Client
  <2>1. n \in 0 .. MaxPending
    BY <1>2, ButtonAssumption
  <2> QED
    BY <1>1, <1>3, <1>5, <1>6, <2>1 DEF Client
<1>9. /\ d.queue = e.queue /\ d.posted = e.posted /\ d.work = e.work /\ d.last = e.last
      /\ d.retryTimer = e.retryTimer /\ d.chain = e.chain /\ d.reads = e.reads
      /\ d.resolving = n
  BY <1>5, <1>6 DEF Client
<1>10. SameWork(c, d) /\ InLine(d, made)
  BY <1>7, <1>9, SameLine DEF SameWork
<1>11. Sound(d, made)
  BY <1>7, <1>8, <1>9, <1>10 DEF Sound, Allowed, Reader, SameWork
<1>12. Waited(d)
  BY <1>2, <1>8, <1>9, Fields DEF Waited
<1> QED
  BY <1>10, <1>11, <1>12 DEF d

\* The retry of a unit that may be retried is waited for.
LEMMA ArmRetrySound ==
  ASSUME NEW made \in Nat, NEW c, Sound(c, made), MayRetry(c)
  PROVE  Sound(ArmRetry(c), made) /\ Waited(ArmRetry(c)) /\ SameWork(c, ArmRetry(c))
<1> DEFINE d == ArmRetry(c)
<1> DEFINE a == IF c.retryTimer THEN Capped(c.abortedRetry + 1) ELSE c.abortedRetry
<1>1. c \in Client
  BY DEF Sound
<1>2. a \in 0 .. MaxPending
  <2>1. c.abortedRetry \in 0 .. MaxPending
    BY <1>1, Fields
  <2>2. Capped(c.abortedRetry + 1) \in 0 .. MaxPending
    BY <2>1, CappedCounts
  <2> QED
    BY <2>1, <2>2
<1>3. d = [c EXCEPT !.retryTimer = TRUE, !.abortedRetry = a]
  BY DEF ArmRetry
<1> HIDE DEF a
<1>4. d \in Client
  BY <1>1, <1>2, <1>3 DEF Client
<1>5. /\ d.queue = c.queue /\ d.posted = c.posted /\ d.work = c.work /\ d.last = c.last
      /\ d.chain = c.chain /\ d.status = c.status /\ d.reads = c.reads
      /\ d.resolving = c.resolving /\ d.retryTimer = TRUE
  BY <1>1, <1>3 DEF Client
<1> HIDE DEF d
<1>6. SameWork(c, d) /\ InLine(d, made)
  BY <1>5, SameLine DEF SameWork, Sound
<1>7. Sound(d, made)
  BY <1>4, <1>5, <1>6 DEF Sound, Allowed, Reader, MayRetry
<1> QED
  BY <1>5, <1>6, <1>7 DEF d, Waited

\* doClose leaves no work behind.
LEMMA DoCloseSound ==
  ASSUME NEW made \in Nat, NEW c, c \in Client, InLine(c, made), Prompt => Reader(c)
  PROVE  /\ Sound(DoClose(c), made) /\ Manned(DoClose(c))
         /\ DoClose(c).last = c.last
<1> DEFINE d == [c EXCEPT !.queue = <<>>, !.work = NoWork]
<1>1. NoWork \in Work /\ NoWork.press = 0 /\ NoWork.retry = 0 /\ NoWork.type = "UNDEFINED"
  BY NoWorkOK
<1>2. d \in Client
  <2>1. <<>> \in Seq(Unit)
    OBVIOUS
  <2> QED
    BY <1>1, <2>1 DEF Client
<1>3. /\ d.queue = <<>> /\ d.posted = c.posted /\ d.work = NoWork /\ d.last = c.last
      /\ d.chain = c.chain /\ d.status = c.status /\ d.reads = c.reads
      /\ d.resolving = c.resolving /\ d.closes = c.closes
  BY DEF Client
<1> HIDE DEF d
<1>4. InLine(d, made)
  <2>1. Later(<<>>, d, made) /\ Precede(<<>>, d.posted)
    BY DEF Later, Above, Below, Rising, Precede
  <2>2. Later(d.posted, d, made)
    <3>1. Above(d.posted, 0)
      <4>1. d.posted \in Seq(Unit)
        BY <1>2, Fields
      <4>2. \A i \in 1 .. Len(d.posted) : d.posted[i] \in Unit
        BY <4>1
      <4> QED
        BY <4>2, ButtonAssumption DEF Above, Unit, Press
    <3> QED
      BY <1>1, <1>3, <3>1 DEF InLine, Later
  <2> QED
    BY <1>1, <1>3, <2>1, <2>2 DEF InLine
<1>5. Allowed(d)
  BY <1>1, <1>3 DEF Allowed, MaxRetries
<1>6. Sound(d, made)
  BY <1>2, <1>3, <1>4, <1>5 DEF Sound, Reader
<1>7. Manned(d)
  BY <1>1, <1>3 DEF Manned
<1>8. CASE c.status = "DISCONNECTED"
  BY <1>3, <1>6, <1>7, <1>8 DEF DoClose, d
<1>9. CASE c.status # "DISCONNECTED"
  <2> DEFINE n == Capped(d.closes + 1)
  <2> DEFINE h == IF d.chain = "open" THEN "closing" ELSE d.chain
  <2> DEFINE e == [d EXCEPT !.closes = n, !.chain = h]
  <2>1. n \in 0 .. MaxPending /\ h \in Stages
    <3>1. \A m \in 0 .. MaxPending : Capped(m + 1) \in 0 .. MaxPending
      BY CappedCounts, ButtonAssumption
    <3>2. d.closes \in 0 .. MaxPending /\ d.chain \in Stages
      BY <1>2, Fields
    <3> QED
      BY <3>1, <3>2 DEF Stages
  <2>2. DoClose(c) = e
    BY <1>2, <1>9 DEF DoClose, d
  <2>3. h \in Handshaking \cup {"fresh"} <=> d.chain \in Handshaking \cup {"fresh"}
    BY DEF Handshaking
  <2>4. h \in {"open", "closing"} => d.chain \in {"open", "closing"}
    OBVIOUS
  <2> HIDE DEF n, h
  <2>5. e \in Client
    BY <1>2, <2>1 DEF Client
  <2>6. /\ e.queue = d.queue /\ e.posted = d.posted /\ e.work = d.work /\ e.last = d.last
        /\ e.status = d.status /\ e.reads = d.reads /\ e.resolving = d.resolving
        /\ e.retryTimer = d.retryTimer /\ e.chain = h
    BY <1>2 DEF Client
  <2> HIDE DEF e
  <2>7. InLine(e, made)
    BY <1>4, <2>6, SameLine DEF SameWork
  <2>8. Sound(e, made)
    BY <1>6, <2>3, <2>4, <2>5, <2>6, <2>7 DEF Sound, Allowed, Reader
  <2>9. Manned(e)
    BY <1>1, <1>3, <2>6 DEF Manned
  <2> QED
    BY <1>3, <2>2, <2>6, <2>8, <2>9
<1> QED
  BY <1>8, <1>9

-----------------------------------------------------------------------------
(* The work queue.                                                          *)

\* The units of a sequence have presses.
LEMMA Presses ==
  ASSUME NEW s \in Seq(Unit)
  PROVE  \A i \in 1 .. Len(s) : s[i] \in Unit /\ s[i].press \in Nat
<1>1. \A u \in Unit : u.press \in Nat
  BY ButtonAssumption DEF Unit, Press
<1>2. \A i \in 1 .. Len(s) : s[i] \in Unit
  OBVIOUS
<1> QED
  BY <1>1, <1>2

\* Skip stops within the queue.
LEMMA SkipStops ==
  ASSUME NEW c, c.queue \in Seq(Unit)
  PROVE  Skip(c) \in 0 .. Len(c.queue)
<1> DEFINE stops == {k \in 0 .. Len(c.queue) :
                       k < Len(c.queue) => ~Instant(c, c.queue[k + 1])}
<1>1. Len(c.queue) \in stops /\ stops \in SUBSET Nat
  OBVIOUS
<1>2. Skip(c) = CHOOSE k \in stops : \A j \in stops : k <= j
  BY DEF Skip
<1>3. stops \subseteq 0 .. Len(c.queue)
  OBVIOUS
<1> HIDE DEF stops
<1>4. \E k \in stops : \A j \in stops : k <= j
  BY <1>1, LeastNumber
<1>5. Skip(c) \in stops
  BY <1>2, <1>4
<1> QED
  BY <1>3, <1>5

\* The units behind one that is taken are queued as they were.
LEMMA Suffix ==
  ASSUME NEW q \in Seq(Unit), NEW k \in 0 .. Len(q), k # Len(q)
  PROVE  /\ k + 1 \in 1 .. Len(q) /\ q[k + 1] \in Unit
         /\ SubSeq(q, k + 2, Len(q)) \in Seq(Unit)
         /\ \A i \in 1 .. Len(SubSeq(q, k + 2, Len(q))) :
              /\ i + (k + 1) \in 1 .. Len(q)
              /\ SubSeq(q, k + 2, Len(q))[i] = q[i + (k + 1)]
<1>1. Len(q) \in Nat /\ k + 1 \in 1 .. Len(q)
  OBVIOUS
<1>2. q[k + 1] \in Unit
  BY <1>1
<1> DEFINE n == Len(q)
<1>3. \A i \in (k + 2) .. n : q[i] \in Unit
  BY <1>1
<1>4. /\ SubSeq(q, k + 2, n) \in Seq(Unit)
      /\ Len(SubSeq(q, k + 2, n)) = IF k + 2 <= n THEN n - (k + 2) + 1 ELSE 0
      /\ \A i \in 1 .. n - (k + 2) + 1 : SubSeq(q, k + 2, n)[i] = q[(k + 2) + i - 1]
  BY <1>1, <1>3, SubSeqProperties
<1> DEFINE s == SubSeq(q, k + 2, n)
<1> HIDE DEF s
<1>5. ASSUME NEW i \in 1 .. Len(s)
      PROVE  /\ i + (k + 1) \in 1 .. n /\ (k + 2) + i - 1 = i + (k + 1)
             /\ s[i] = q[(k + 2) + i - 1]
  <2>1. i \in 1 .. n - (k + 2) + 1
    BY <1>1, <1>4 DEF s
  <2> QED
    BY <1>1, <1>4, <2>1 DEF s
<1> QED
  BY <1>1, <1>2, <1>4, <1>5 DEF s

\* What can be taken out of the queue comes after what was taken before, and before
\* what stays.
LEMMA TakeLine ==
  ASSUME NEW made \in Nat, NEW c, c \in Client, InLine(c, made),
         NEW k \in 0 .. Len(c.queue), k # Len(c.queue),
         NEW d, d.work = Started(c.queue[k + 1]), d.posted = c.posted, d.last = c.last,
         d.queue = SubSeq(c.queue, k + 2, Len(c.queue))
  PROVE  InLine(d, made) /\ d.work.press >= 0
<1> DEFINE u == c.queue[k + 1]
<1> DEFINE rest == SubSeq(c.queue, k + 2, Len(c.queue))
<1>1. c.queue \in Seq(Unit) /\ c.posted \in Seq(Unit) /\ c.last \in Nat
  BY Fields, ButtonAssumption DEF Press
<1>2. /\ k + 1 \in 1 .. Len(c.queue) /\ u \in Unit /\ rest \in Seq(Unit)
      /\ \A i \in 1 .. Len(rest) : /\ i + (k + 1) \in 1 .. Len(c.queue)
                                   /\ rest[i] = c.queue[i + (k + 1)]
  BY <1>1, Suffix
<1>3. u.press \in Nat /\ d.work.press = u.press
  BY <1>2, ButtonAssumption DEF Started, Unit, Press
<1>4. \A i \in 1 .. Len(c.queue) : c.queue[i].press \in Nat
  BY <1>1, Presses
<1>5. \A i \in 1 .. Len(c.posted) : c.posted[i].press \in Nat
  BY <1>1, Presses
<1>6. /\ Later(c.queue, c, made) /\ Later(c.posted, c, made) /\ Precede(c.queue, c.posted)
      /\ c.last <= made
  BY DEF InLine
<1>7. u.press <= made /\ (u.press # 0 => c.last < u.press)
  BY <1>1, <1>2, <1>3, <1>6 DEF Later, Above, Below
<1> HIDE DEF u, rest
<1>8. Later(rest, d, made)
  <2>1. Above(rest, c.last) /\ Below(rest, made)
    BY <1>2, <1>6 DEF Later, Above, Below
  <2>2. Rising(rest)
    <3>1. Rising(c.queue)
      BY <1>6 DEF Later
    <3>2. ASSUME NEW i \in 1 .. Len(rest), NEW j \in 1 .. Len(rest), i < j
          PROVE  i + (k + 1) < j + (k + 1)
      BY <3>2, <1>2
    <3> QED
      BY <1>2, <3>1, <3>2 DEF Rising
  <2>3. Above(rest, u.press)
    <3>1. Rising(c.queue)
      BY <1>6 DEF Later
    <3>2. ASSUME NEW i \in 1 .. Len(rest), rest[i].press # 0 PROVE rest[i].press > u.press
      <4>1. k + 1 < i + (k + 1)
        OBVIOUS
      <4>2. CASE u.press = 0
        <5>1. rest[i].press \in Nat
          BY <1>2, <1>4
        <5> QED
          BY <3>2, <4>2, <5>1
      <4>3. CASE u.press # 0
        <5>1. c.queue[k + 1].press < c.queue[i + (k + 1)].press
          BY <1>2, <3>1, <3>2, <4>1, <4>3 DEF Rising, u
        <5> QED
          BY <1>2, <1>3, <1>4, <5>1 DEF u
      <4> QED
        BY <4>2, <4>3
    <3> QED
      BY <3>2 DEF Above
  <2> QED
    BY <1>3, <2>1, <2>2, <2>3 DEF Later
<1>9. Later(c.posted, d, made)
  <2>1. ASSUME NEW j \in 1 .. Len(c.posted), c.posted[j].press # 0
        PROVE  c.posted[j].press > u.press
    <3>1. CASE u.press = 0
      BY <1>5, <2>1, <3>1
    <3>2. CASE u.press # 0
      <4>1. u.press < c.posted[j].press
        BY <1>2, <1>6, <2>1, <3>2 DEF Precede, u
      <4> QED
        BY <1>3, <1>5, <4>1
    <3> QED
      BY <3>1, <3>2
  <2>2. Above(c.posted, u.press)
    BY <2>1 DEF Above
  <2> QED
    BY <1>3, <1>6, <2>2 DEF Later
<1>10. Precede(rest, c.posted)
  BY <1>2, <1>6 DEF Precede
<1> QED
  BY <1>1, <1>3, <1>6, <1>7, <1>8, <1>9, <1>10 DEF InLine, rest

\* The first unit of the queue that takes time is begun, or none is left.
LEMMA BeginSound ==
  ASSUME NEW made \in Nat, NEW c, c \in Client, InLine(c, made), Prompt => Reader(c),
         c.status # "CONNECTING", c.work.type # "UNDEFINED", c.work.retry = 0
  PROVE  /\ Sound(Begin(c), made) /\ Manned(Begin(c)) /\ Begin(c).last >= c.last
<1>1. CASE c.work.type = "CLOSE"
  <2>1. Begin(c) = DoClose(c)
    BY <1>1 DEF Begin
  <2>2. c.last \in Int
    BY Fields, ButtonAssumption DEF Press
  <2> QED
    BY <2>1, <2>2, DoCloseSound
<1>2. CASE c.work.type # "CLOSE"
  <2>1. Allowed(c) /\ Sound(c, made)
    BY <1>2 DEF Allowed, Sound, MaxRetries
  <2>2. CASE c.status = "CONNECTED"
    <3>1. Begin(c) = Send(c)
      BY <1>2, <2>2 DEF Begin
    <3> QED
      BY <2>1, <3>1, SendSound DEF Manned
  <2>3. CASE c.status # "CONNECTED"
    <3>1. Begin(c) = Run(c)
      BY <1>2, <2>3 DEF Begin
    <3>2. c.last \in Int
      BY Fields, ButtonAssumption DEF Press
    <3> QED
      BY <2>1, <3>1, <3>2, RunSound DEF Manned, SameWork
  <2> QED
    BY <2>2, <2>3
<1> QED
  BY <1>1, <1>2

\* The next press is taken, skipped as too old, or there is none: the client stays sound, and nothing waits without a unit.
LEMMA DispatchSound ==
  ASSUME NEW made \in Nat, NEW c, Sound(c, made), c.work = NoWork
  PROVE  /\ Sound(Dispatch(c), made) /\ Manned(Dispatch(c)) /\ Dispatch(c).last >= c.last
<1> DEFINE k == Skip(c)
<1>1. c \in Client /\ c.queue \in Seq(Unit) /\ k \in 0 .. Len(c.queue) /\ c.last \in Int
  BY Fields, SkipStops, ButtonAssumption DEF Sound, Press
<1>2. CASE c.status = "CONNECTING"
  BY <1>1, <1>2, DoCloseSound DEF Dispatch, Sound
<1>3. CASE c.status # "CONNECTING" /\ k = Len(c.queue)
  <2> DEFINE b == c.status = "CONNECTED" /\ device.keepAlive
  <2> DEFINE d == [c EXCEPT !.queue = <<>>, !.keepAlive = b]
  <2>1. Dispatch(c) = d
    BY <1>3 DEF Dispatch
  <2>2. b \in BOOLEAN /\ <<>> \in Seq(Unit)
    OBVIOUS
  <2> HIDE DEF b
  <2>3. d \in Client
    BY <1>1, <2>2 DEF Client
  <2>4. /\ d.queue = <<>> /\ d.posted = c.posted /\ d.work = c.work /\ d.last = c.last
        /\ d.chain = c.chain /\ d.status = c.status /\ d.reads = c.reads
        /\ d.resolving = c.resolving /\ d.retryTimer = c.retryTimer
    BY <1>1 DEF Client
  <2> HIDE DEF d
  <2>5. InLine(d, made)
    <3>1. Later(<<>>, d, made) /\ Precede(<<>>, d.posted)
      BY DEF Later, Above, Below, Rising, Precede
    <3> QED
      BY <2>4, <3>1 DEF InLine, Later, Sound
  <2>6. Sound(d, made) /\ Manned(d)
    BY <2>3, <2>4, <2>5, NoWorkOK DEF Sound, Allowed, Reader, Manned
  <2> QED
    BY <1>1, <2>1, <2>4, <2>6
<1>4. CASE c.status # "CONNECTING" /\ k # Len(c.queue)
  <2> DEFINE first == Started(c.queue[k + 1])
  <2> DEFINE rest == SubSeq(c.queue, k + 2, Len(c.queue))
  <2> DEFINE d == [c EXCEPT !.work = first, !.queue = rest]
  <2>1. Dispatch(c) = Begin(d)
    BY <1>4 DEF Dispatch
  <2>2. c.queue[k + 1] \in Unit /\ rest \in Seq(Unit)
    BY <1>1, <1>4, Suffix
  <2>3. first \in Work /\ first.type # "UNDEFINED" /\ first.retry = 0
    <3>1. 0 \in 0 .. MaxRetries
      BY DEF MaxRetries
    <3> QED
      BY <2>2, <3>1 DEF Started, Work, Unit
  <2>4. d.work = Started(c.queue[k + 1]) /\ d.queue = SubSeq(c.queue, k + 2, Len(c.queue))
    BY <1>1 DEF Client
  <2>5. first = d.work
    BY <2>4
  <2> HIDE DEF first, rest
  <2>6. d \in Client
    BY <1>1, <2>2, <2>3 DEF Client
  <2>7. /\ d.posted = c.posted /\ d.last = c.last /\ d.retryTimer = c.retryTimer
        /\ d.chain = c.chain /\ d.status = c.status /\ d.reads = c.reads
        /\ d.resolving = c.resolving
    BY <1>1 DEF Client
  <2> HIDE DEF d, k
  <2>8. InLine(c, made)
    BY DEF Sound
  <2>9. InLine(d, made)
    BY <1>1, <1>4, <2>4, <2>7, <2>8, TakeLine
  <2>10. Prompt => Reader(d)
    BY <2>7 DEF Sound, Reader
  <2>11. d.status # "CONNECTING" /\ d.work.type # "UNDEFINED" /\ d.work.retry = 0
    BY <1>4, <2>3, <2>5, <2>7
  <2> QED
    BY <2>1, <2>6, <2>7, <2>9, <2>10, <2>11, BeginSound
<1> QED
  BY <1>2, <1>3, <1>4

\* Of a unit that is given up nothing is left in the line.
LEMMA DropSound ==
  ASSUME NEW made \in Nat, NEW c, Sound(c, made), NEW b \in BOOLEAN,
         NEW d, d = [c EXCEPT !.work = NoWork, !.keepAlive = b]
  PROVE  /\ Sound(d, made) /\ d.work = NoWork /\ d.last = c.last
<1>1. c \in Client
  BY DEF Sound
<1>2. d \in Client
  BY <1>1, NoWorkOK DEF Client
<1>3. /\ d.queue = c.queue /\ d.posted = c.posted /\ d.work = NoWork /\ d.last = c.last
      /\ d.chain = c.chain /\ d.status = c.status /\ d.reads = c.reads
      /\ d.resolving = c.resolving /\ d.retryTimer = c.retryTimer
  BY <1>1 DEF Client
<1>4. \A s \in {c.queue, c.posted} : Above(s, 0)
  <2>1. ASSUME NEW s \in Seq(Unit) PROVE Above(s, 0)
    BY Presses DEF Above
  <2> QED
    BY <1>1, <2>1, Fields
<1>5. InLine(d, made)
  BY <1>3, <1>4, NoWorkOK DEF Sound, InLine, Later
<1>6. Sound(d, made)
  BY <1>2, <1>3, <1>5, NoWorkOK DEF Sound, Allowed, Reader, MaxRetries
<1> QED
  BY <1>3, <1>6

\* startNextWork leaves a unit that is waited for, or starts one, or none is left.
LEMMA StartNextWorkSound ==
  ASSUME NEW made \in Nat, NEW c, Sound(c, made), c.work.type # "UNDEFINED" => Waited(c)
  PROVE  /\ Sound(StartNextWork(c), made) /\ Manned(StartNextWork(c))
         /\ StartNextWork(c).last >= c.last
<1>1. c.last \in Int
  BY Fields, ButtonAssumption DEF Press, Sound
<1>2. CASE c.work.type # "UNDEFINED" /\ ~c.work.old
  BY <1>1, <1>2 DEF StartNextWork, Manned
<1>3. CASE ~(c.work.type # "UNDEFINED" /\ ~c.work.old)
  <2> DEFINE d == [c EXCEPT !.work = NoWork, !.keepAlive = FALSE]
  <2>1. StartNextWork(c) = Dispatch(d)
    BY <1>3 DEF StartNextWork
  <2>2. Sound(d, made) /\ d.work = NoWork /\ d.last = c.last
    BY DropSound
  <2> HIDE DEF d
  <2> QED
    BY <2>1, <2>2, DispatchSound
<1> QED
  BY <1>2, <1>3

\* A unit that is done makes room for the next.
LEMMA FinishSound ==
  ASSUME NEW made \in Nat, NEW c, Sound(c, made)
  PROVE  Sound(Finish(c), made) /\ Manned(Finish(c)) /\ Finish(c).last >= c.last
<1> DEFINE d == [c EXCEPT !.work = NoWork]
<1>1. c \in Client
  BY DEF Sound
<1>2. d = [c EXCEPT !.work = NoWork, !.keepAlive = c.keepAlive]
  BY <1>1 DEF Client
<1>3. PICK b \in BOOLEAN : b = c.keepAlive
  BY <1>1, Fields
<1> HIDE DEF d
<1>4. d = [c EXCEPT !.work = NoWork, !.keepAlive = b]
  BY <1>2, <1>3
<1>5. Sound(d, made) /\ d.work = NoWork /\ d.last = c.last
  BY ONLY Sound(c, made), made \in Nat, <1>4, DropSound
<1>6. d.work.type = "UNDEFINED"
  BY <1>5, NoWorkOK
<1>7. Finish(c) = StartNextWork(d)
  BY DEF Finish, d
<1> QED
  BY <1>5, <1>6, <1>7, StartNextWorkSound

\* A connection is given up, and the work stays as it is.
LEMMA DisconnectedSound ==
  ASSUME NEW made \in Nat, NEW c, Sound(c, made),
         NEW d, d = [c EXCEPT !.status = "DISCONNECTED"]
  PROVE  Sound(d, made) /\ SameWork(c, d)
<1>1. c \in Client
  BY DEF Sound
<1>2. d \in Client
  BY <1>1 DEF Client
<1>3. /\ d.queue = c.queue /\ d.posted = c.posted /\ d.work = c.work /\ d.last = c.last
      /\ d.chain = c.chain /\ d.status = "DISCONNECTED" /\ d.reads = c.reads
      /\ d.resolving = c.resolving /\ d.retryTimer = c.retryTimer
  BY <1>1 DEF Client
<1>4. SameWork(c, d) /\ InLine(d, made)
  BY <1>3, SameLine DEF SameWork, Sound
<1> QED
  BY <1>2, <1>3, <1>4 DEF Sound, Allowed, Reader

\* After an error the unit in progress waits for its retry, or it is done, or there was
\* none.
LEMMA OnErrorSound ==
  ASSUME NEW made \in Nat, NEW c, Sound(c, made),
         c.queue # <<>> => c.work.type # "UNDEFINED"
  PROVE  Sound(OnError(c), made) /\ Manned(OnError(c)) /\ OnError(c).last >= c.last
<1> DEFINE d == [c EXCEPT !.status = "DISCONNECTED"]
<1>1. Sound(d, made) /\ SameWork(c, d)
  BY DisconnectedSound
<1>2. c.last \in Int /\ c.work.type \in WorkTypes
  BY Fields, ButtonAssumption DEF Press, Sound, Work
<1> HIDE DEF d
<1>3. CASE c.work.type = "BUTTON" /\ c.status = "DISCONNECTED"
  BY <1>3, FinishSound DEF OnError
<1>4. CASE c.work.type = "BUTTON" /\ c.status # "DISCONNECTED" /\ MayRetry(c)
  <2>1. OnError(c) = ArmRetry(c)
    BY <1>4 DEF OnError
  <2> QED
    BY <1>2, <1>4, <2>1, ArmRetrySound DEF Manned, SameWork
<1>5. CASE c.work.type = "BUTTON" /\ c.status # "DISCONNECTED" /\ ~MayRetry(c)
  <2>1. OnError(c) = Finish(d)
    BY <1>5 DEF OnError, d
  <2> QED
    BY <1>1, <2>1, FinishSound DEF SameWork
<1>6. CASE c.work.type = "KEEPALIVE"
  <2>1. OnError(c) = Finish(d)
    BY <1>6 DEF OnError, d
  <2> QED
    BY <1>1, <2>1, FinishSound DEF SameWork
<1>7. CASE c.work.type = "UNDEFINED"
  <2>1. OnError(c) = d
    BY <1>7 DEF OnError, d
  <2> QED
    BY <1>1, <1>2, <1>7, <2>1 DEF SameWork, Manned
<1>8. c.work.type # "CLOSE"
  BY DEF Sound, Allowed
<1> QED
  BY <1>2, <1>3, <1>4, <1>5, <1>6, <1>7, <1>8 DEF WorkTypes

-----------------------------------------------------------------------------
(* The line of presses.                                                     *)

\* A unit that joins a sequence at its end, in the order of the calls.
LEMMA AppendLater ==
  ASSUME NEW s \in Seq(Unit), NEW u \in Unit, NEW c, NEW made \in Nat, NEW more \in Nat,
         Later(s, c, more), made <= more,
         u.press # 0 => u.press > c.last /\ u.press > c.work.press /\ u.press <= more,
         \A i \in 1 .. Len(s) : s[i].press # 0 /\ u.press # 0 => s[i].press < u.press
  PROVE  Later(Append(s, u), c, more)
<1>1. /\ Append(s, u) \in Seq(Unit) /\ Len(Append(s, u)) = Len(s) + 1 /\ Len(s) \in Nat
      /\ Append(s, u)[Len(s) + 1] = u
      /\ \A i \in 1 .. Len(s) : Append(s, u)[i] = s[i]
  OBVIOUS
<1>2. \A i \in 1 .. Len(s) + 1 : i \in 1 .. Len(s) \/ i = Len(s) + 1
  BY <1>1
<1>3. u.press \in Nat
  BY ButtonAssumption DEF Unit, Press
<1> DEFINE t == Append(s, u)
<1>4. Len(t) = Len(s) + 1 /\ t[Len(s) + 1] = u /\ \A i \in 1 .. Len(s) : t[i] = s[i]
  BY <1>1
<1> HIDE DEF t
<1>5. Above(t, c.last) /\ Above(t, c.work.press)
  BY <1>2, <1>4 DEF Later, Above
<1>6. Below(t, more)
  BY <1>2, <1>3, <1>4 DEF Later, Below
<1>7. Rising(t)
  <2>1. ASSUME NEW i \in 1 .. Len(s) + 1, NEW j \in 1 .. Len(s) + 1, i < j,
               t[i].press # 0, t[j].press # 0
        PROVE  t[i].press < t[j].press
    <3>1. i \in 1 .. Len(s)
      BY <1>1, <2>1
    <3>2. CASE j = Len(s) + 1
      BY <1>4, <2>1, <3>1, <3>2
    <3>3. CASE j \in 1 .. Len(s)
      BY <1>4, <2>1, <3>1, <3>3 DEF Later, Rising
    <3> QED
      BY <1>2, <3>2, <3>3
  <2> QED
    BY <1>4, <2>1 DEF Rising
<1> QED
  BY <1>5, <1>6, <1>7 DEF Later, t

\* More presses have been made than the line knows of.
LEMMA MadeMore ==
  ASSUME NEW made \in Nat, NEW more \in Nat, made <= more, NEW c, c \in Client,
         InLine(c, made)
  PROVE  InLine(c, more)
<1>1. ASSUME NEW s \in Seq(Unit), Below(s, made) PROVE Below(s, more)
  <2>1. \A i \in 1 .. Len(s) : s[i].press \in Nat
    BY Presses
  <2> QED
    BY <1>1, <2>1 DEF Below
<1>2. c.queue \in Seq(Unit) /\ c.posted \in Seq(Unit) /\ c.last \in Nat /\ c.work.press \in Nat
  BY Fields, ButtonAssumption DEF Press, Work
<1>3. /\ c.last <= made /\ c.work.press <= made
      /\ Later(c.queue, c, made) /\ Later(c.posted, c, made)
  BY DEF InLine
<1>4. Later(c.queue, c, more) /\ Later(c.posted, c, more)
  BY <1>1, <1>2, <1>3 DEF Later
<1>5. c.last <= more /\ c.work.press <= more
  BY <1>2, <1>3
<1> QED
  BY <1>4, <1>5 DEF InLine

\* A press that is made comes after all others; a close has no place in the order.
LEMMA PostLine ==
  ASSUME NEW made \in Nat, NEW more \in Nat, made <= more, NEW c, c \in Client,
         InLine(c, made), NEW u \in Unit,
         u.press # 0 => made < u.press /\ u.press <= more,
         NEW d, d.posted = Append(c.posted, u), d.queue = c.queue, d.work = c.work,
         d.last = c.last
  PROVE  InLine(d, more)
<1>1. c.queue \in Seq(Unit) /\ c.posted \in Seq(Unit) /\ c.last \in Nat /\ c.work.press \in Nat
  BY Fields, ButtonAssumption DEF Press, Work
<1>2. u.press \in Nat
  BY ButtonAssumption DEF Unit, Press
<1>3. /\ c.last <= made /\ c.work.press <= made
      /\ Below(c.queue, made) /\ Below(c.posted, made)
  BY DEF InLine, Later
<1>4. InLine(c, more)
  BY MadeMore
<1>5. u.press # 0 => u.press > c.last /\ u.press > c.work.press
  BY <1>1, <1>2, <1>3
<1>6. \A s \in {c.queue, c.posted} : \A i \in 1 .. Len(s) :
        s[i].press \in Nat /\ (u.press # 0 => s[i].press < u.press)
  <2>1. ASSUME NEW s \in Seq(Unit), Below(s, made), NEW i \in 1 .. Len(s)
        PROVE  s[i].press \in Nat /\ (u.press # 0 => s[i].press < u.press)
    <3>1. s[i].press \in Nat /\ s[i].press <= made
      BY <2>1, Presses DEF Below
    <3> QED
      BY <1>2, <3>1
  <2> QED
    BY <1>1, <1>3, <2>1
<1>7. Later(c.posted, c, more)
  BY <1>4 DEF InLine
<1>8. Later(Append(c.posted, u), c, more)
  BY <1>1, <1>5, <1>6, <1>7, AppendLater
<1>9. Precede(c.queue, Append(c.posted, u))
  <2>1. Precede(c.queue, c.posted)
    BY DEF InLine
  <2>2. ASSUME NEW i \in 1 .. Len(c.queue), NEW j \in 1 .. Len(c.posted) + 1,
               c.queue[i].press # 0, Append(c.posted, u)[j].press # 0
        PROVE  c.queue[i].press < Append(c.posted, u)[j].press
    <3>1. CASE j = Len(c.posted) + 1
      <4>1. Append(c.posted, u)[j] = u
        BY <1>1, <3>1
      <4> QED
        BY <1>6, <2>2, <4>1
    <3>2. CASE j \in 1 .. Len(c.posted)
      <4>1. Append(c.posted, u)[j] = c.posted[j]
        BY <1>1, <3>2
      <4> QED
        BY <2>1, <2>2, <3>2, <4>1 DEF Precede
    <3>3. j \in 1 .. Len(c.posted) \/ j = Len(c.posted) + 1
      BY <1>1
    <3> QED
      BY <3>1, <3>2, <3>3
  <2>3. Len(Append(c.posted, u)) = Len(c.posted) + 1
    BY <1>1
  <2> QED
    BY <2>2, <2>3 DEF Precede
<1> QED
  BY <1>4, <1>8, <1>9 DEF InLine, Later

\* What reaches the strand joins the queue where it had its place.
LEMMA MoveLine ==
  ASSUME NEW made \in Nat, NEW c, c \in Client, InLine(c, made), c.posted # <<>>,
         NEW d, d.posted = Tail(c.posted), d.queue = Append(c.queue, Head(c.posted)),
         d.work = c.work, d.last = c.last
  PROVE  InLine(d, made)
<1> DEFINE u == Head(c.posted)
<1> DEFINE t == Tail(c.posted)
<1>1. c.queue \in Seq(Unit) /\ c.posted \in Seq(Unit)
  BY Fields
<1>2. /\ 1 \in 1 .. Len(c.posted) /\ u = c.posted[1] /\ u \in Unit
      /\ t \in Seq(Unit) /\ Len(t) = Len(c.posted) - 1
      /\ \A i \in 1 .. Len(t) : t[i] = c.posted[i + 1] /\ i + 1 \in 1 .. Len(c.posted)
  BY <1>1
<1>3. /\ Later(c.queue, c, made) /\ Later(c.posted, c, made) /\ Precede(c.queue, c.posted)
  BY DEF InLine
<1> HIDE DEF u, t
<1>4. u.press # 0 => u.press > c.last /\ u.press > c.work.press
  BY <1>2, <1>3 DEF Later, Above
<1>5. u.press <= made
  BY <1>2, <1>3 DEF Later, Below
<1>6. \A i \in 1 .. Len(c.queue) : c.queue[i].press # 0 /\ u.press # 0
                                     => c.queue[i].press < u.press
  BY <1>2, <1>3 DEF Precede
<1>7. Later(Append(c.queue, u), c, made)
  <2>1. made <= made
    OBVIOUS
  <2>2. u.press # 0 => u.press > c.last /\ u.press > c.work.press /\ u.press <= made
    BY <1>4, <1>5
  <2> QED
    BY <1>1, <1>2, <1>3, <1>6, <2>1, <2>2, AppendLater
<1>8. Later(t, c, made)
  <2>1. Rising(t)
    <3>1. Rising(c.posted)
      BY <1>3 DEF Later
    <3>2. ASSUME NEW i \in 1 .. Len(t), NEW j \in 1 .. Len(t), i < j
          PROVE  i + 1 < j + 1
      BY <3>2
    <3> QED
      BY <1>2, <3>1, <3>2 DEF Rising
  <2>2. Above(t, c.last) /\ Above(t, c.work.press) /\ Below(t, made)
    BY <1>2, <1>3 DEF Later, Above, Below
  <2> QED
    BY <2>1, <2>2 DEF Later
<1>9. Precede(Append(c.queue, u), t)
  <2>1. ASSUME NEW i \in 1 .. Len(c.queue) + 1, NEW j \in 1 .. Len(t),
               Append(c.queue, u)[i].press # 0, t[j].press # 0
        PROVE  Append(c.queue, u)[i].press < t[j].press
    <3>1. CASE i = Len(c.queue) + 1
      <4>1. Append(c.queue, u)[i] = c.posted[1]
        BY <1>1, <1>2, <3>1
      <4>2. Rising(c.posted) /\ 1 < j + 1
        BY <1>3 DEF Later
      <4> QED
        BY <1>2, <2>1, <4>1, <4>2 DEF Rising
    <3>2. CASE i \in 1 .. Len(c.queue)
      <4>1. Append(c.queue, u)[i] = c.queue[i]
        BY <1>1, <1>2, <3>2
      <4> QED
        BY <1>2, <1>3, <2>1, <3>2, <4>1 DEF Precede
    <3>3. i \in 1 .. Len(c.queue) \/ i = Len(c.queue) + 1
      BY <1>1
    <3> QED
      BY <3>1, <3>2, <3>3
  <2>2. Len(Append(c.queue, u)) = Len(c.queue) + 1
    BY <1>1, <1>2
  <2> QED
    BY <2>1, <2>2 DEF Precede
<1> QED
  BY <1>7, <1>8, <1>9 DEF InLine, Later, u, t

-----------------------------------------------------------------------------
(* The handlers.                                                            *)

\* What a handler makes of the client.
Follows(d) == Sound(d, Pressed) /\ Manned(d) /\ d.last >= client.last

\* An operation of c has completed, and c with it maybe lost its stream or connection.
Eased(c, d) ==
    /\ SameWork(c, d)
    /\ d.retryTimer = c.retryTimer
    /\ d.reads <= c.reads /\ d.resolving <= c.resolving
    /\ d.status \in {c.status, "DISCONNECTED"}
    /\ d.chain \in {c.chain, "failed", "closed"}

\* Dropping pending operations, or forgetting a wait, leaves the client sound.
LEMMA EasedSound ==
  ASSUME NEW made \in Nat, NEW c, Sound(c, made), NEW d, d \in Client, Eased(c, d)
  PROVE  Sound(d, made)
<1>1. InLine(d, made)
  BY SameLine DEF Eased, Sound
<1>2. Allowed(d)
  BY DEF Eased, SameWork, Sound, Allowed
<1>3. Prompt => Reader(d)
  <2>1. /\ c.reads \in Nat /\ d.reads \in Nat /\ c.resolving \in Nat /\ d.resolving \in Nat
    BY Fields DEF Sound
  <2> QED
    BY <2>1 DEF Eased, Sound, Reader, Handshaking
<1> QED
  BY <1>1, <1>2, <1>3 DEF Sound

\* What the invariant says of the client.
LEMMA ClientOK ==
  ASSUME ButtonInv
  PROVE  /\ client \in Client /\ Sound(client, Pressed) /\ Manned(client)
         /\ Pressed \in Nat /\ Pressed <= MaxPresses /\ client.last \in Int
<1>1. budget.presses \in 0 .. MaxPresses
  BY DEF ButtonInv, TypeOK
<1>2. Pressed \in Nat /\ Pressed <= MaxPresses
  BY <1>1, ButtonAssumption DEF Pressed
<1> QED
  BY <1>2, Fields, ButtonAssumption DEF ButtonInv, Sound, Press

\* An error after an operation that completed.
LEMMA ErrorFollows ==
  ASSUME ButtonInv, NEW d, d \in Client, Eased(client, d)
  PROVE  Follows(OnError(d))
<1>1. Sound(client, Pressed) /\ Manned(client) /\ Pressed \in Nat
  BY ClientOK
<1>2. Sound(d, Pressed)
  BY <1>1, EasedSound
<1>3. d.queue # <<>> => d.work.type # "UNDEFINED"
  BY <1>1 DEF Manned, Eased, SameWork
<1>4. d.last = client.last
  BY DEF Eased, SameWork
<1> DEFINE made == Pressed
<1> HIDE DEF made
<1>5. Sound(OnError(d), made) /\ Manned(OnError(d)) /\ OnError(d).last >= d.last
  BY <1>1, <1>2, <1>3, OnErrorSound DEF made
<1> QED
  BY <1>4, <1>5 DEF Follows, made

\* A counter of operations in flight counts down.
LEMMA CountsDown ==
  ASSUME NEW n \in 0 .. MaxPending, n > 0
  PROVE  n - 1 \in 0 .. MaxPending /\ n - 1 <= n
BY ButtonAssumption

\* onResolve with an error: the unit is retried or given up.
LEMMA ResolveFails ==
  ASSUME ButtonInv, client.resolving > 0
  PROVE  Follows(OnError([client EXCEPT !.resolving = @ - 1]))
<1>1. client \in Client
  BY ClientOK
<1> DEFINE n == client.resolving - 1
<1>2. n \in 0 .. MaxPending /\ n <= client.resolving
  BY <1>1, Fields, CountsDown
<1> DEFINE d == [client EXCEPT !.resolving = n]
<1> HIDE DEF n
<1>3. d \in Client
  BY <1>1, <1>2 DEF Client
<1>4. Eased(client, d)
  <2>1. client.reads <= client.reads
    BY <1>1, Fields
  <2> QED
    BY <1>1, <1>2, <2>1 DEF Client, Eased, SameWork
<1>5. [client EXCEPT !.resolving = @ - 1] = d
  BY DEF n
<1> HIDE DEF d
<1> QED
  BY <1>3, <1>4, <1>5, ErrorFollows

\* A failed step of the way to an open stream: onConnect, onSSLHandshake, onWinsockHandshake.
LEMMA StageFails ==
  ASSUME ButtonInv
  PROVE  Follows(OnError([client EXCEPT !.chain = "failed"]))
<1>1. client \in Client
  BY ClientOK
<1> DEFINE d == [client EXCEPT !.chain = "failed"]
<1>2. d \in Client
  BY <1>1 DEF Client, Stages
<1>3. Eased(client, d)
  <2>1. client.reads <= client.reads /\ client.resolving <= client.resolving
    BY <1>1, Fields
  <2> QED
    BY <1>1, <2>1 DEF Client, Eased, SameWork
<1> HIDE DEF d
<1>4. Follows(OnError(d))
  BY <1>2, <1>3, ErrorFollows
<1> QED
  BY <1>4 DEF d

\* onRead with an error.
LEMMA ReadFails ==
  ASSUME ButtonInv, client.reads > 0
  PROVE  Follows(OnError([client EXCEPT !.reads = @ - 1,
                             !.chain = IF @ = "open" THEN "failed" ELSE @]))
<1>1. client \in Client
  BY ClientOK
<1> DEFINE n == client.reads - 1
<1> DEFINE h == IF client.chain = "open" THEN "failed" ELSE client.chain
<1>2. n \in 0 .. MaxPending /\ n <= client.reads
  BY <1>1, Fields, CountsDown
<1>3. h \in Stages /\ h \in {client.chain, "failed", "closed"}
  BY <1>1, Fields DEF Stages
<1> DEFINE d == [client EXCEPT !.reads = n, !.chain = h]
<1>4. [client EXCEPT !.reads = @ - 1, !.chain = IF @ = "open" THEN "failed" ELSE @] = d
  OBVIOUS
<1> HIDE DEF n, h
<1>5. d \in Client
  BY <1>1, <1>2, <1>3 DEF Client
<1>6. Eased(client, d)
  <2>1. client.resolving <= client.resolving
    BY <1>1, Fields
  <2> QED
    BY <1>1, <1>2, <1>3, <2>1 DEF Client, Eased, SameWork
<1> HIDE DEF d
<1> QED
  BY <1>4, <1>5, <1>6, ErrorFollows

\* onWrite with an error.
LEMMA WriteFails ==
  ASSUME ButtonInv, client.writes > 0
  PROVE  Follows(OnError([client EXCEPT !.writes = @ - 1,
                            !.blocked = IF client.writes > @ THEN @ ELSE @ - 1,
                            !.chain = IF @ \in {"open", "closing"} THEN "failed" ELSE @]))
<1>1. client \in Client
  BY ClientOK
<1> DEFINE n == client.writes - 1
<1> DEFINE b == IF client.writes > client.blocked THEN client.blocked ELSE client.blocked - 1
<1> DEFINE h == IF client.chain \in {"open", "closing"} THEN "failed" ELSE client.chain
<1>2. n \in 0 .. MaxPending
  BY <1>1, Fields, CountsDown
<1>3. b \in 0 .. MaxPending
  <2>1. client.writes \in Nat /\ client.blocked \in 0 .. MaxPending /\ client.blocked \in Nat
    BY <1>1, Fields
  <2> QED
    BY <2>1, ButtonAssumption
<1>4. h \in Stages /\ h \in {client.chain, "failed", "closed"}
  BY <1>1, Fields DEF Stages
<1> DEFINE d == [client EXCEPT !.writes = n, !.blocked = b, !.chain = h]
<1>5. [client EXCEPT !.writes = @ - 1,
                     !.blocked = IF client.writes > @ THEN @ ELSE @ - 1,
                     !.chain = IF @ \in {"open", "closing"} THEN "failed" ELSE @] = d
  OBVIOUS
<1> HIDE DEF n, b, h
<1>6. d \in Client
  BY <1>1, <1>2, <1>3, <1>4 DEF Client
<1>7. Eased(client, d)
  <2>1. client.resolving <= client.resolving /\ client.reads <= client.reads
    BY <1>1, Fields
  <2> QED
    BY <1>1, <1>2, <1>4, <2>1 DEF Client, Eased, SameWork
<1> HIDE DEF d
<1> QED
  BY <1>5, <1>6, <1>7, ErrorFollows

\* onClose with an error.
LEMMA CloseFails ==
  ASSUME ButtonInv, client.closes > 0
  PROVE  Follows(OnError([client EXCEPT !.closes = @ - 1,
                             !.chain = IF @ = "closing" THEN "failed" ELSE @]))
<1>1. client \in Client
  BY ClientOK
<1> DEFINE n == client.closes - 1
<1> DEFINE h == IF client.chain = "closing" THEN "failed" ELSE client.chain
<1>2. n \in 0 .. MaxPending
  BY <1>1, Fields, CountsDown
<1>3. h \in Stages /\ h \in {client.chain, "failed", "closed"}
  BY <1>1, Fields DEF Stages
<1> DEFINE d == [client EXCEPT !.closes = n, !.chain = h]
<1>4. [client EXCEPT !.closes = @ - 1, !.chain = IF @ = "closing" THEN "failed" ELSE @] = d
  OBVIOUS
<1> HIDE DEF n, h
<1>5. d \in Client
  BY <1>1, <1>2, <1>3 DEF Client
<1>6. Eased(client, d)
  <2>1. client.resolving <= client.resolving /\ client.reads <= client.reads
    BY <1>1, Fields
  <2> QED
    BY <1>1, <1>3, <2>1 DEF Client, Eased, SameWork
<1> HIDE DEF d
<1> QED
  BY <1>4, <1>5, <1>6, ErrorFollows

\* An operation of a stream that run() replaced comes back aborted.
LEMMA StreamAborted ==
  ASSUME ButtonInv, client.stale > 0
  PROVE  Follows(OnError([client EXCEPT !.stale = @ - 1]))
<1>1. client \in Client
  BY ClientOK
<1> DEFINE n == client.stale - 1
<1>2. n \in 0 .. MaxPending
  BY <1>1, Fields, CountsDown
<1> DEFINE d == [client EXCEPT !.stale = n]
<1>3. [client EXCEPT !.stale = @ - 1] = d
  OBVIOUS
<1> HIDE DEF n
<1>4. d \in Client
  BY <1>1, <1>2 DEF Client
<1>5. Eased(client, d)
  <2>1. client.resolving <= client.resolving /\ client.reads <= client.reads
    BY <1>1, Fields
  <2> QED
    BY <1>1, <2>1 DEF Client, Eased, SameWork
<1> HIDE DEF d
<1> QED
  BY <1>3, <1>4, <1>5, ErrorFollows

\* The wait before a retry comes back cancelled.
LEMMA RetryAborted ==
  ASSUME ButtonInv, client.abortedRetry > 0
  PROVE  Follows(OnError([client EXCEPT !.abortedRetry = @ - 1]))
<1>1. client \in Client
  BY ClientOK
<1> DEFINE n == client.abortedRetry - 1
<1>2. n \in 0 .. MaxPending
  BY <1>1, Fields, CountsDown
<1> DEFINE d == [client EXCEPT !.abortedRetry = n]
<1>3. [client EXCEPT !.abortedRetry = @ - 1] = d
  OBVIOUS
<1> HIDE DEF n
<1>4. d \in Client
  BY <1>1, <1>2 DEF Client
<1>5. Eased(client, d)
  <2>1. client.resolving <= client.resolving /\ client.reads <= client.reads
    BY <1>1, Fields
  <2> QED
    BY <1>1, <2>1 DEF Client, Eased, SameWork
<1> HIDE DEF d
<1> QED
  BY <1>3, <1>4, <1>5, ErrorFollows

\* A read is issued where none is.
LEMMA ReadSound ==
  ASSUME NEW made \in Nat, NEW c, Sound(c, made),
         Prompt => /\ c.reads = 0 /\ c.resolving = 0
                   /\ c.chain \notin Handshaking \cup {"fresh"}
  PROVE  Sound(Read(c), made) /\ Waited(Read(c)) /\ SameWork(c, Read(c))
<1> DEFINE n == Capped(c.reads + 1)
<1> DEFINE d == [c EXCEPT !.reads = n]
<1>1. c \in Client
  BY DEF Sound
<1>2. n \in 1 .. MaxPending /\ n \in 0 .. MaxPending /\ (c.reads = 0 => n = 1)
  BY <1>1, Fields, CappedCounts
<1>3. Read(c) = d
  BY DEF Read
<1> HIDE DEF n
<1>4. d \in Client
  BY <1>1, <1>2 DEF Client
<1>5. /\ d.queue = c.queue /\ d.posted = c.posted /\ d.work = c.work /\ d.last = c.last
      /\ d.chain = c.chain /\ d.status = c.status /\ d.reads = n
      /\ d.resolving = c.resolving /\ d.retryTimer = c.retryTimer
  BY <1>1 DEF Client
<1> HIDE DEF d
<1>6. SameWork(c, d) /\ InLine(d, made)
  BY <1>5, SameLine DEF SameWork, Sound
<1>7. Prompt => Reader(d)
  BY <1>2, <1>5 DEF Sound, Reader
<1>8. Sound(d, made)
  BY <1>4, <1>5, <1>6, <1>7 DEF Sound, Allowed
<1>9. Waited(d)
  BY <1>2, <1>4, <1>5, Fields DEF Waited
<1> QED
  BY <1>3, <1>6, <1>8, <1>9

\* Another stage of the connection is reached.
LEMMA StageReached ==
  ASSUME ButtonInv, NEW d, d \in Client, SameWork(client, d),
         d.status = "CONNECTING", d.chain \in Handshaking,
         d.reads = client.reads, d.resolving <= client.resolving,
         d.retryTimer = client.retryTimer, Prompt => client.reads = 0
  PROVE  Follows(d)
<1>1. Sound(client, Pressed) /\ Manned(client) /\ client.last \in Int
  BY ClientOK
<1> DEFINE made == Pressed
<1> HIDE DEF made
<1>2. InLine(d, made)
  BY <1>1, SameLine DEF Sound, made
<1>3. Prompt => Reader(d)
  BY DEF Reader, Handshaking
<1>4. Sound(d, made)
  BY <1>1, <1>2, <1>3 DEF Sound, Allowed, SameWork
<1>5. Manned(d)
  BY <1>1 DEF Manned, Waited, SameWork
<1> QED
  BY <1>1, <1>4, <1>5 DEF Follows, made, SameWork

\* onResolve: the addresses are known, the stream connects.
LEMMA Resolved ==
  ASSUME ButtonInv, client.resolving > 0,
         NEW d, d = [[client EXCEPT !.resolving = @ - 1]
                       EXCEPT !.status = "CONNECTING", !.chain = "connect",
                              !.stale = IF client.chain \in Handshaking
                                        THEN Capped(client.stale + 1) ELSE client.stale]
  PROVE  Follows(d)
<1>1. client \in Client /\ Sound(client, Pressed)
  BY ClientOK
<1> DEFINE n == client.resolving - 1
<1> DEFINE m == IF client.chain \in Handshaking THEN Capped(client.stale + 1) ELSE client.stale
<1>2. n \in 0 .. MaxPending /\ n <= client.resolving
  BY <1>1, Fields, CountsDown
<1>3. m \in 0 .. MaxPending
  <2>1. client.stale \in 0 .. MaxPending
    BY <1>1, Fields
  <2>2. Capped(client.stale + 1) \in 0 .. MaxPending
    BY <2>1, CappedCounts
  <2> QED
    BY <2>1, <2>2
<1> HIDE DEF n, m
<1> DEFINE c == [client EXCEPT !.resolving = n]
<1>4. c \in Client
  BY <1>1, <1>2 DEF Client
<1>5. /\ c.queue = client.queue /\ c.posted = client.posted /\ c.work = client.work
      /\ c.last = client.last /\ c.reads = client.reads /\ c.resolving = n
      /\ c.retryTimer = client.retryTimer
  BY <1>1 DEF Client
<1>6. d = [c EXCEPT !.status = "CONNECTING", !.chain = "connect", !.stale = m]
  BY DEF n, m
<1> HIDE DEF c
<1>7. d \in Client
  BY <1>3, <1>4, <1>6 DEF Client, Stages, Handshaking
<1>8. /\ d.queue = c.queue /\ d.posted = c.posted /\ d.work = c.work
      /\ d.last = c.last /\ d.reads = c.reads /\ d.resolving = c.resolving
      /\ d.retryTimer = c.retryTimer /\ d.status = "CONNECTING" /\ d.chain = "connect"
  BY <1>4, <1>6 DEF Client
<1>9. Prompt => client.reads = 0
  BY <1>1 DEF Sound, Reader
<1>10. SameWork(client, d) /\ d.chain \in Handshaking
  BY <1>5, <1>8 DEF SameWork, Handshaking
<1> QED
  BY <1>2, <1>5, <1>7, <1>8, <1>9, <1>10, StageReached

\* onConnect and onSSLHandshake: the next step towards an open stream.
LEMMA NextStage ==
  ASSUME ButtonInv, client.chain \in {"connect", "ssl"},
         NEW d, d = [client EXCEPT !.status = "CONNECTING",
                       !.chain = IF @ = "connect" /\ device.ssl THEN "ssl" ELSE "handshake"]
  PROVE  Follows(d)
<1>1. client \in Client /\ Sound(client, Pressed)
  BY ClientOK
<1> DEFINE h == IF client.chain = "connect" /\ device.ssl THEN "ssl" ELSE "handshake"
<1>2. h \in Handshaking /\ h \in Stages
  BY DEF Handshaking, Stages
<1>3. d = [client EXCEPT !.status = "CONNECTING", !.chain = h]
  OBVIOUS
<1> HIDE DEF h
<1>4. d \in Client
  BY <1>1, <1>2, <1>3 DEF Client
<1>5. /\ d.queue = client.queue /\ d.posted = client.posted /\ d.work = client.work
      /\ d.last = client.last /\ d.reads = client.reads /\ d.resolving = client.resolving
      /\ d.retryTimer = client.retryTimer /\ d.status = "CONNECTING" /\ d.chain = h
  BY <1>1, <1>3 DEF Client
<1>6. Prompt => client.reads = 0
  BY <1>1 DEF Sound, Reader, Handshaking
<1>7. SameWork(client, d) /\ d.resolving <= client.resolving
  BY <1>1, <1>5, Fields DEF SameWork
<1> QED
  BY <1>2, <1>4, <1>5, <1>6, <1>7, StageReached

\* onWinsockHandshake: the stream is open, reads, and writes the press in hand.
LEMMA Opened ==
  ASSUME ButtonInv, Undisturbed, client.chain = "handshake"
  PROVE  Follows(Read(Send([client EXCEPT !.status = "CONNECTED", !.chain = "open"])))
<1>1. client \in Client /\ Sound(client, Pressed) /\ Manned(client) /\ Pressed \in Nat
  BY ClientOK
<1> DEFINE made == Pressed
<1> DEFINE d == [client EXCEPT !.status = "CONNECTED", !.chain = "open"]
<1>2. d \in Client
  BY <1>1 DEF Client, Stages
<1>3. /\ d.queue = client.queue /\ d.posted = client.posted /\ d.work = client.work
      /\ d.last = client.last /\ d.reads = client.reads /\ d.resolving = client.resolving
      /\ d.retryTimer = client.retryTimer /\ d.status = "CONNECTED" /\ d.chain = "open"
  BY <1>1 DEF Client
<1>4. Prompt => client.reads = 0 /\ client.resolving = 0
  <2>1. Prompt => client.reads = 0
    BY <1>1 DEF Sound, Reader, Handshaking
  <2>2. client.resolving \in Nat /\ client.stale \in Nat /\ client.abortedRetry \in Nat
    BY <1>1, Fields
  <2>3. Prompt => ~(client.resolving + client.stale + client.abortedRetry > 0)
    BY DEF Undisturbed, Ready
  <2> QED
    BY <2>1, <2>2, <2>3
<1> HIDE DEF d, made
<1>5. InLine(d, made)
  BY <1>1, <1>3, SameLine DEF Sound, SameWork, made
<1>6. Prompt => Reader(d)
  BY <1>3, <1>4 DEF Reader
<1>7. Sound(d, made)
  BY <1>1, <1>2, <1>3, <1>5, <1>6 DEF Sound, Allowed
<1> DEFINE e == Send(d)
<1>8. made \in Nat
  BY <1>1 DEF made
<1>9. /\ Sound(e, made) /\ e.last >= d.last /\ e.work = d.work /\ e.queue = d.queue
      /\ e.chain = d.chain /\ e.reads = d.reads /\ e.resolving = d.resolving
  BY <1>7, <1>8, SendSound
<1> HIDE DEF e
<1>10. Prompt => /\ e.reads = 0 /\ e.resolving = 0
                 /\ e.chain \notin Handshaking \cup {"fresh"}
  BY <1>3, <1>4, <1>9 DEF Handshaking
<1>11. Sound(Read(e), made) /\ Waited(Read(e)) /\ SameWork(e, Read(e))
  BY <1>8, <1>9, <1>10, ReadSound
<1>12. Manned(Read(e))
  BY <1>1, <1>3, <1>9, <1>11 DEF Manned, SameWork
<1>13. Read(e).last >= client.last
  BY <1>3, <1>9, <1>11 DEF SameWork
<1>14. Follows(Read(e))
  BY <1>11, <1>12, <1>13 DEF Follows, made
<1> QED
  BY <1>14 DEF e, d

\* onWrite: the press has left, and the next one is taken.
LEMMA Written ==
  ASSUME ButtonInv, OnWrite
  PROVE  Follows(client')
<1>1. client \in Client /\ Sound(client, Pressed) /\ Manned(client) /\ Pressed \in Nat
  BY ClientOK
<1> DEFINE made == Pressed
<1> DEFINE n == client.writes - 1
<1> DEFINE c == [client EXCEPT !.writes = n]
<1>2. n \in 0 .. MaxPending
  <2>1. client.writes > 0
    BY <1>1, Fields DEF OnWrite
  <2> QED
    BY <1>1, <2>1, Fields, CountsDown
<1>3. client' = IF c.status = "CONNECTING" THEN Read(c) ELSE Finish(c)
  BY DEF OnWrite
<1> HIDE DEF n
<1>4. c \in Client
  BY <1>1, <1>2 DEF Client
<1>5. Eased(client, c)
  <2>1. client.resolving <= client.resolving /\ client.reads <= client.reads
    BY <1>1, Fields
  <2> QED
    BY <1>1, <2>1 DEF Client, Eased, SameWork
<1>6. c.status = client.status /\ c.chain = client.chain
  BY <1>1 DEF Client
<1> HIDE DEF c, made
<1>7. Sound(c, made) /\ made \in Nat
  BY <1>1, <1>4, <1>5, EasedSound DEF made
<1>8. CASE c.status = "CONNECTING"
  <2>1. ~Prompt
    BY <1>1, <1>6, <1>8 DEF Sound, Reader, OnWrite
  <2>2. Sound(Read(c), made) /\ Waited(Read(c)) /\ SameWork(c, Read(c))
    BY <1>7, <2>1, ReadSound
  <2>3. Manned(Read(c))
    BY <1>1, <1>5, <2>2 DEF Manned, Eased, SameWork
  <2>4. Read(c).last >= client.last
    BY <1>5, <2>2, ClientOK DEF Eased, SameWork
  <2> QED
    BY <1>3, <1>8, <2>2, <2>3, <2>4 DEF Follows, made
<1>9. CASE c.status # "CONNECTING"
  <2>1. Sound(Finish(c), made) /\ Manned(Finish(c)) /\ Finish(c).last >= c.last
    BY <1>7, FinishSound
  <2>2. c.last = client.last
    BY <1>5 DEF Eased, SameWork
  <2> QED
    BY <1>3, <1>9, <2>1, <2>2 DEF Follows, made
<1> QED
  BY <1>8, <1>9

\* onRead: the display said something, and the next read has its place.
LEMMA Answered ==
  ASSUME ButtonInv, OnRead
  PROVE  Follows(client')
<1>1. client \in Client /\ Sound(client, Pressed) /\ Manned(client) /\ client.last \in Int
  BY ClientOK
<1> DEFINE made == Pressed
<1> DEFINE d == [client EXCEPT !.status = "CONNECTED"]
<1>2. d \in Client
  BY <1>1 DEF Client
<1>3. /\ d.queue = client.queue /\ d.posted = client.posted /\ d.work = client.work
      /\ d.last = client.last /\ d.reads = client.reads /\ d.resolving = client.resolving
      /\ d.retryTimer = client.retryTimer /\ d.status = "CONNECTED"
      /\ d.chain = client.chain /\ d.writes = client.writes /\ d.stale = client.stale
      /\ d.abortedRetry = client.abortedRetry
  BY <1>1 DEF Client
<1> HIDE DEF d, made
<1>4. InLine(d, made)
  BY <1>1, <1>3, SameLine DEF Sound, SameWork, made
<1>5. Sound(d, made)
  BY <1>1, <1>2, <1>3, <1>4 DEF Sound, Allowed, Reader
<1>6. Manned(d)
  BY <1>1, <1>3 DEF Manned, Waited
<1>7. client' = d
  BY DEF OnRead, d
<1> QED
  BY <1>1, <1>3, <1>5, <1>6, <1>7 DEF Follows, made

\* onClose: the stream is gone, and queued work begins anew.
LEMMA Closed ==
  ASSUME ButtonInv, OnClose
  PROVE  Follows(client')
<1>1. client \in Client /\ Sound(client, Pressed) /\ Manned(client) /\ client.last \in Int
  BY ClientOK
<1> DEFINE n == client.closes - 1
<1> DEFINE d == [client EXCEPT !.closes = n, !.chain = "closed", !.status = "DISCONNECTED"]
<1>2. n \in 0 .. MaxPending
  BY <1>1, Fields, CountsDown DEF OnClose
<1>3. client' = d
  BY DEF OnClose
<1> HIDE DEF n
<1>4. d \in Client
  BY <1>1, <1>2 DEF Client, Stages
<1>5. Eased(client, d)
  <2>1. client.resolving <= client.resolving /\ client.reads <= client.reads
    BY <1>1, Fields
  <2> QED
    BY <1>1, <2>1 DEF Client, Eased, SameWork
<1>6. /\ d.reads = client.reads /\ d.writes = client.writes /\ d.stale = client.stale
      /\ d.resolving = client.resolving /\ d.abortedRetry = client.abortedRetry
  BY <1>1 DEF Client
<1> HIDE DEF d
<1>7. Manned(d)
  <2>1. client.chain \notin Handshaking
    BY DEF OnClose, Handshaking
  <2> QED
    BY <1>1, <1>5, <1>6, <2>1 DEF Manned, Waited, Eased, SameWork
<1>8. Sound(d, Pressed)
  BY <1>1, <1>4, <1>5, EasedSound, ClientOK
<1> QED
  BY <1>1, <1>3, <1>5, <1>7, <1>8 DEF Follows, Eased, SameWork

\* The wait before a retry is over.
LEMMA Retried ==
  ASSUME ButtonInv, OnRetryConnection
  PROVE  Follows(client')
<1>1. client \in Client /\ Sound(client, Pressed) /\ Manned(client) /\ client.last \in Int
      /\ Pressed \in Nat
  BY ClientOK
<1> DEFINE made == Pressed
<1> DEFINE w == [client.work EXCEPT !.retry = @ + 1]
<1> DEFINE c == [client EXCEPT !.retryTimer = FALSE]
<1> DEFINE d == [c EXCEPT !.work = w]
<1>2. /\ w \in Work /\ w.type = client.work.type /\ w.press = client.work.press
  <2>1. client.work \in Work /\ client.work.retry < MaxRetries
    BY <1>1, Fields DEF Sound, Allowed, OnRetryConnection
  <2>2. client.work.retry + 1 \in 0 .. MaxRetries
    BY <2>1 DEF Work, MaxRetries
  <2> QED
    BY <2>1, <2>2 DEF Work
<1>3. c \in Client
  BY <1>1 DEF Client
<1>4. /\ c.queue = client.queue /\ c.posted = client.posted /\ c.work = client.work
      /\ c.last = client.last /\ c.retryTimer = FALSE
  BY <1>1 DEF Client
<1>5. client' = Run([client EXCEPT !.retryTimer = FALSE, !.work.retry = @ + 1])
  BY DEF OnRetryConnection
<1>6. [client EXCEPT !.retryTimer = FALSE, !.work.retry = @ + 1] = [c EXCEPT !.work.retry = @ + 1]
  OBVIOUS
<1>7. [c EXCEPT !.work.retry = @ + 1] = [c EXCEPT !.work = [c.work EXCEPT !.retry = @ + 1]]
  OBVIOUS
<1>8. [c EXCEPT !.work = [c.work EXCEPT !.retry = @ + 1]] = d
  BY <1>4
<1>9. client' = Run(d)
  BY <1>5, <1>6, <1>7, <1>8
<1> HIDE DEF c, w, made
<1>10. d \in Client
  BY <1>2, <1>3 DEF Client
<1>11. /\ d.queue = c.queue /\ d.posted = c.posted /\ d.work = w
       /\ d.last = c.last /\ d.retryTimer = c.retryTimer
  BY <1>3 DEF Client
<1> HIDE DEF d
<1>12. InLine(client, made) /\ made \in Nat
  BY <1>1 DEF Sound, made
<1>13. InLine(d, made)
  BY <1>2, <1>4, <1>11, <1>12 DEF InLine, Later
<1>14. Allowed(d)
  BY <1>1, <1>2, <1>4, <1>11 DEF Allowed, Sound
<1>15. Sound(Run(d), made) /\ Waited(Run(d)) /\ SameWork(d, Run(d))
  BY <1>10, <1>12, <1>13, <1>14, RunSound
<1>16. Manned(Run(d))
  BY <1>1, <1>2, <1>4, <1>11, <1>15 DEF Manned, SameWork
<1> QED
  BY <1>1, <1>4, <1>9, <1>11, <1>15, <1>16 DEF Follows, SameWork, made

\* A unit is posted to the strand, and more presses may have been made.
LEMMA PostedSound ==
  ASSUME NEW made \in Nat, NEW more \in Nat, made <= more, NEW c, Sound(c, made), Manned(c),
         NEW u \in Unit, u.press # 0 => made < u.press /\ u.press <= more,
         NEW d, d = [c EXCEPT !.posted = Append(@, u)]
  PROVE  Sound(d, more) /\ Manned(d) /\ d.last = c.last
<1>1. c \in Client /\ InLine(c, made)
  BY DEF Sound
<1> DEFINE q == Append(c.posted, u)
<1>2. q \in Seq(Unit)
  BY <1>1, Fields
<1>3. d = [c EXCEPT !.posted = q]
  BY <1>1 DEF Client
<1> HIDE DEF q
<1>4. d \in Client
  BY <1>1, <1>2, <1>3 DEF Client
<1>5. /\ d.posted = q /\ d.queue = c.queue /\ d.work = c.work /\ d.last = c.last
      /\ d.chain = c.chain /\ d.status = c.status /\ d.reads = c.reads
      /\ d.resolving = c.resolving /\ d.retryTimer = c.retryTimer
      /\ d.writes = c.writes /\ d.stale = c.stale /\ d.abortedRetry = c.abortedRetry
  BY <1>1, <1>3 DEF Client
<1>6. d.posted = Append(c.posted, u)
  BY <1>5 DEF q
<1>7. InLine(d, more)
  BY <1>1, <1>5, <1>6, PostLine
<1>8. Sound(d, more)
  BY <1>4, <1>5, <1>7 DEF Sound, Allowed, Reader
<1>9. Manned(d)
  BY <1>5 DEF Manned, Waited
<1> QED
  BY <1>5, <1>8, <1>9

\* sendButton: the press is posted behind those before it.
LEMMA Pressing ==
  ASSUME ButtonInv, SendButton
  PROVE  /\ Sound(client', Pressed') /\ Manned(client') /\ client'.last >= client.last
<1>1. /\ client \in Client /\ Sound(client, Pressed) /\ Manned(client) /\ Pressed \in Nat
      /\ client.last \in Int
  BY ClientOK
<1>2. budget \in [presses : 0 .. MaxPresses, closes : 0 .. MaxCloses,
                  faults : 0 .. MaxFaults, delays : 0 .. MaxDelays]
  BY DEF ButtonInv, TypeOK
<1>3. budget.presses > 0 /\ budget'.presses = budget.presses - 1
  BY <1>2 DEF SendButton, Spend
<1>4. budget.presses \in Nat /\ MaxPresses \in Nat /\ budget.presses <= MaxPresses
  BY <1>2, ButtonAssumption
<1>5. Pressed' = Pressed + 1 /\ Pressed + 1 \in 0 .. MaxPresses
  BY <1>3, <1>4 DEF Pressed
<1> DEFINE u == [type |-> "BUTTON", press |-> Pressed + 1]
<1>6. u \in Unit /\ u.press = Pressed + 1
  BY <1>5 DEF Unit, WorkTypes, Press
<1>7. client' = [client EXCEPT !.posted = Append(@, u)]
  BY DEF SendButton, Post
<1> DEFINE made == Pressed
<1> DEFINE more == Pressed + 1
<1>8. /\ made \in Nat /\ more \in Nat /\ made <= more
      /\ (u.press # 0 => made < u.press /\ u.press <= more)
  BY <1>1, <1>6
<1>9. Sound(client, made)
  BY <1>1
<1> HIDE DEF u, made, more
<1>10. Sound(client', more) /\ Manned(client') /\ client'.last = client.last
  BY <1>1, <1>6, <1>7, <1>8, <1>9, PostedSound
<1> QED
  BY <1>1, <1>5, <1>10 DEF more

\* A unit that is no press is posted.
LEMMA PostedOther ==
  ASSUME ButtonInv, NEW type \in {"CLOSE", "KEEPALIVE"}, NEW c,
         Sound(c, Pressed), Manned(c), c.last = client.last,
         NEW d, d = [c EXCEPT !.posted = Append(@, [type |-> type, press |-> 0])]
  PROVE  Follows(d)
<1>1. Pressed \in Nat /\ client.last \in Int
  BY ClientOK
<1> DEFINE u == [type |-> type, press |-> 0]
<1>2. u \in Unit /\ u.press = 0
  BY ButtonAssumption DEF Unit, WorkTypes, Press
<1>3. d = [c EXCEPT !.posted = Append(@, u)]
  OBVIOUS
<1> DEFINE made == Pressed
<1>4. made \in Nat /\ made <= made /\ Sound(c, made)
  BY <1>1
<1> HIDE DEF u, made
<1>5. Sound(d, made) /\ Manned(d) /\ d.last = c.last
  BY <1>2, <1>3, <1>4, PostedSound
<1> QED
  BY <1>1, <1>5 DEF Follows, made

\* onKeepAlive: a client that has nothing to do closes.
LEMMA KeepAliveDue ==
  ASSUME ButtonInv, OnKeepAlive
  PROVE  Follows(client')
<1>1. /\ client \in Client /\ Sound(client, Pressed) /\ Manned(client)
      /\ client.last \in Int /\ Pressed \in Nat
  BY ClientOK
<1> DEFINE c == [client EXCEPT !.keepAlive = FALSE]
<1>2. c \in Client
  BY <1>1 DEF Client
<1>3. Eased(client, c)
  <2>1. client.resolving <= client.resolving /\ client.reads <= client.reads
    BY <1>1, Fields
  <2> QED
    BY <1>1, <2>1 DEF Client, Eased, SameWork
<1>4. /\ c.chain = client.chain /\ c.reads = client.reads /\ c.writes = client.writes
      /\ c.resolving = client.resolving /\ c.stale = client.stale
      /\ c.abortedRetry = client.abortedRetry
  BY <1>1 DEF Client
<1>5. client' = IF c.status = "CONNECTED" /\ c.work.type = "UNDEFINED"
                THEN [c EXCEPT !.posted = Append(@, [type |-> "KEEPALIVE", press |-> 0])]
                ELSE c
  BY DEF OnKeepAlive
<1> HIDE DEF c
<1>6. Sound(c, Pressed)
  BY <1>1, <1>2, <1>3, EasedSound
<1>7. Manned(c) /\ c.last = client.last
  BY <1>1, <1>3, <1>4 DEF Manned, Waited, Eased, SameWork
<1>8. Follows(c)
  BY <1>1, <1>6, <1>7 DEF Follows
<1>9. Follows([c EXCEPT !.posted = Append(@, [type |-> "KEEPALIVE", press |-> 0])])
  BY <1>6, <1>7, PostedOther
<1> QED
  BY <1>5, <1>8, <1>9

\* enqueueWork on the strand: the press joins the queue, and is begun if nothing is in hand.
LEMMA Enqueued ==
  ASSUME ButtonInv, EnqueueWork
  PROVE  Follows(client')
<1>1. /\ client \in Client /\ Sound(client, Pressed) /\ Manned(client) /\ Pressed \in Nat
      /\ client.posted # <<>>
  BY ClientOK DEF EnqueueWork
<1> DEFINE made == Pressed
<1> DEFINE t == Tail(client.posted)
<1> DEFINE q == Append(client.queue, Head(client.posted))
<1> DEFINE c == [client EXCEPT !.posted = t]
<1> DEFINE d == [c EXCEPT !.queue = q]
<1>2. t \in Seq(Unit) /\ q \in Seq(Unit)
  <2>1. client.posted \in Seq(Unit) /\ client.queue \in Seq(Unit)
    BY <1>1, Fields
  <2>2. Head(client.posted) \in Unit
    BY <1>1, <2>1
  <2> QED
    BY <1>1, <2>1, <2>2
<1>3. /\ c.queue = client.queue /\ c.work = client.work /\ c.last = client.last
      /\ c.chain = client.chain /\ c.status = client.status /\ c.reads = client.reads
      /\ c.resolving = client.resolving /\ c.retryTimer = client.retryTimer
      /\ c.writes = client.writes /\ c.stale = client.stale
      /\ c.abortedRetry = client.abortedRetry /\ c.posted = t
  BY <1>1 DEF Client
<1>4. client' = StartNextWork(d)
  <2>1. client' = Enqueue([client EXCEPT !.posted = Tail(@)], Head(client.posted))
    BY DEF EnqueueWork
  <2>2. [client EXCEPT !.posted = Tail(@)] = c
    OBVIOUS
  <2>3. client' = Enqueue(c, Head(client.posted))
    BY <2>1, <2>2
  <2>4. [c EXCEPT !.queue = Append(@, Head(client.posted))]
          = [c EXCEPT !.queue = Append(c.queue, Head(client.posted))]
    OBVIOUS
  <2>5. Append(c.queue, Head(client.posted)) = q
    BY <1>3
  <2> HIDE DEF c, q
  <2> QED
    BY <2>3, <2>4, <2>5 DEF Enqueue
<1>5. t = Tail(client.posted) /\ q = Append(client.queue, Head(client.posted))
  OBVIOUS
<1> HIDE DEF t, q
<1>6. c \in Client
  BY <1>1, <1>2 DEF Client
<1> HIDE DEF c
<1>7. d \in Client
  BY <1>2, <1>6 DEF Client
<1>8. /\ d.queue = q /\ d.work = c.work /\ d.last = c.last
      /\ d.chain = c.chain /\ d.status = c.status /\ d.reads = c.reads
      /\ d.resolving = c.resolving /\ d.retryTimer = c.retryTimer
      /\ d.writes = c.writes /\ d.stale = c.stale
      /\ d.abortedRetry = c.abortedRetry /\ d.posted = c.posted
  BY <1>6 DEF Client
<1> HIDE DEF d, made
<1>9. InLine(client, made) /\ made \in Nat
  BY <1>1 DEF Sound, made
<1>10. InLine(d, made)
  BY <1>1, <1>3, <1>5, <1>8, <1>9, MoveLine
<1>11. Sound(d, made)
  BY <1>1, <1>3, <1>7, <1>8, <1>10 DEF Sound, Allowed, Reader
<1>12. d.work.type # "UNDEFINED" => Waited(d)
  BY <1>1, <1>3, <1>8 DEF Manned, Waited
<1>13. /\ Sound(StartNextWork(d), made) /\ Manned(StartNextWork(d))
       /\ StartNextWork(d).last >= d.last
  BY <1>9, <1>11, <1>12, StartNextWorkSound
<1> QED
  BY <1>3, <1>4, <1>8, <1>13 DEF Follows, made

\* Time passes over the unit in hand.
LEMMA Ages ==
  ASSUME ButtonInv, WorkAges
  PROVE  Follows(client')
<1>1. client \in Client /\ Sound(client, Pressed) /\ Manned(client) /\ client.last \in Int
  BY ClientOK
<1> DEFINE made == Pressed
<1> DEFINE w == [client.work EXCEPT !.old = TRUE]
<1> DEFINE d == [client EXCEPT !.work = w]
<1>2. /\ w \in Work /\ w.type = client.work.type /\ w.press = client.work.press
      /\ w.retry = client.work.retry
  BY <1>1, Fields DEF Work
<1>3. client' = d
  BY DEF WorkAges
<1> HIDE DEF w
<1>4. d \in Client
  BY <1>1, <1>2 DEF Client
<1>5. /\ d.queue = client.queue /\ d.work = w /\ d.last = client.last
      /\ d.chain = client.chain /\ d.status = client.status /\ d.reads = client.reads
      /\ d.resolving = client.resolving /\ d.retryTimer = client.retryTimer
      /\ d.writes = client.writes /\ d.stale = client.stale
      /\ d.abortedRetry = client.abortedRetry /\ d.posted = client.posted
  BY <1>1 DEF Client
<1> HIDE DEF d, made
<1>6. InLine(d, made)
  BY <1>1, <1>2, <1>5 DEF Sound, InLine, Later, made
<1>7. Sound(d, made)
  BY <1>1, <1>2, <1>4, <1>5, <1>6 DEF Sound, Allowed, Reader
<1>8. Manned(d)
  BY <1>1, <1>2, <1>5 DEF Manned, Waited
<1> QED
  BY <1>1, <1>3, <1>5, <1>7, <1>8 DEF Follows, made

-----------------------------------------------------------------------------
(* The theorems.                                                            *)

\* What the bounds still allow keeps its type; only a press is counted as one.
LEMMA SpendType ==
  ASSUME TypeOK, NEW kind \in {"presses", "closes", "faults", "delays"}, Spend(kind)
  PROVE  /\ budget' \in [presses : 0 .. MaxPresses, closes : 0 .. MaxCloses,
                         faults : 0 .. MaxFaults, delays : 0 .. MaxDelays]
         /\ kind # "presses" => Pressed' = Pressed
<1> DEFINE B == [presses : 0 .. MaxPresses, closes : 0 .. MaxCloses,
                 faults : 0 .. MaxFaults, delays : 0 .. MaxDelays]
<1> USE ButtonAssumption
<1>1. budget \in B
  BY DEF TypeOK
<1>2. CASE kind = "presses"
  BY <1>1, <1>2 DEF Spend
<1>3. CASE kind = "closes"
  BY <1>1, <1>3 DEF Spend, Pressed
<1>4. CASE kind = "faults"
  BY <1>1, <1>4 DEF Spend, Pressed
<1>5. CASE kind = "delays"
  BY <1>1, <1>5 DEF Spend, Pressed
<1> QED
  BY <1>2, <1>3, <1>4, <1>5

\* No step changes the device, and none leaves the bounds.
LEMMA SurroundingsOK ==
  ASSUME TypeOK, Next
  PROVE  /\ device' \in Devices
         /\ budget' \in [presses : 0 .. MaxPresses, closes : 0 .. MaxCloses,
                         faults : 0 .. MaxFaults, delays : 0 .. MaxDelays]
         /\ SendButton \/ Pressed' = Pressed
<1>1. \/ \E kind \in {"closes", "faults", "delays"} : Spend(kind)
      \/ SendButton /\ Spend("presses")
      \/ UNCHANGED budget
  BY DEF Next, Calls, Network, Posted, Expiries, SendButton, Close, EnqueueWork, OnResolve,
         OnStage, OnStageFailed, OnWinsockHandshake, OnWrite, OnWriteFailed, OnRead,
         OnReadFailed, OnClose, OnCloseFailed, OnAborted, OnRetryConnection,
         OnRetryAborted, OnKeepAlive, WorkAges, Fault
<1>2. UNCHANGED device
  BY DEF Next, Calls, Network, Posted, Expiries, SendButton, Close, EnqueueWork, OnResolve,
         OnStage, OnStageFailed, OnWinsockHandshake, OnWrite, OnWriteFailed, OnRead,
         OnReadFailed, OnClose, OnCloseFailed, OnAborted, OnRetryConnection,
         OnRetryAborted, OnKeepAlive, WorkAges
<1>3. CASE UNCHANGED budget
  BY <1>2, <1>3 DEF TypeOK, Pressed
<1>4. CASE \E kind \in {"closes", "faults", "delays"} : Spend(kind)
  BY <1>2, <1>4, SpendType DEF TypeOK
<1>5. CASE SendButton /\ Spend("presses")
  BY <1>2, <1>5, SpendType DEF TypeOK
<1> QED
  BY <1>1, <1>3, <1>4, <1>5

\* Every handler keeps the line, and the display never hears of an older press.
LEMMA EveryHandler ==
  ASSUME ButtonInv, Next
  PROVE  /\ Sound(client', Pressed') /\ Manned(client') /\ client'.last >= client.last
<1>1. SendButton \/ Pressed' = Pressed
  BY SurroundingsOK DEF ButtonInv
<1> DEFINE Good(d, made) == Sound(d, made) /\ Manned(d) /\ d.last >= client.last
<1> SUFFICES Good(client', Pressed')
  OBVIOUS
<1>2. ASSUME NEW d, Follows(d) PROVE Good(d, Pressed)
  BY <1>2 DEF Follows
<1> HIDE DEF Good
<1>3. CASE SendButton
  BY <1>3, Pressing DEF Good
<1>4. CASE Close
  <2>1. Sound(client, Pressed) /\ Manned(client)
    BY ClientOK
  <2>2. client' = [client EXCEPT !.posted = Append(@, [type |-> "CLOSE", press |-> 0])]
    BY <1>4 DEF Close, Post
  <2>3. Follows([client EXCEPT !.posted = Append(@, [type |-> "CLOSE", press |-> 0])])
    BY <2>1, PostedOther
  <2>4. Pressed' = Pressed
    BY <1>4, SpendType DEF Close, ButtonInv
  <2> QED
    BY <1>2, <2>2, <2>3, <2>4
<1>5. CASE EnqueueWork
  BY <1>1, <1>2, <1>3, <1>5, Enqueued
<1>6. CASE OnResolve
  <2>1. CASE client' = OnError([client EXCEPT !.resolving = @ - 1])
    <3>1. Follows(client')
      BY <1>6, <2>1, ResolveFails DEF OnResolve
    <3> QED
      BY <1>1, <1>2, <1>3, <3>1
  <2>2. CASE client' # OnError([client EXCEPT !.resolving = @ - 1])
    <3> DEFINE c == [client EXCEPT !.resolving = @ - 1]
    <3> DEFINE d == [c EXCEPT !.status = "CONNECTING", !.chain = "connect",
                              !.stale = IF client.chain \in Handshaking
                                        THEN Capped(client.stale + 1) ELSE client.stale]
    <3>1. client' = [c EXCEPT !.status = "CONNECTING", !.chain = "connect",
                       !.stale = IF c.chain \in Handshaking THEN Capped(@ + 1) ELSE @]
      BY <1>6, <2>2 DEF OnResolve
    <3>2. c.chain = client.chain /\ c.stale = client.stale
      BY ClientOK DEF Client
    <3>3. client' = d
      BY <3>1, <3>2
    <3>4. Follows(d)
      BY <1>6, Resolved DEF OnResolve
    <3> QED
      BY <1>1, <1>2, <1>3, <3>3, <3>4
  <2> QED
    BY <2>1, <2>2
<1>7. CASE OnStage
  <2>1. Follows(client')
    BY <1>7, NextStage DEF OnStage
  <2> QED
    BY <1>1, <1>2, <1>3, <2>1
<1>8. CASE OnWinsockHandshake
  <2>1. Follows(client')
    BY <1>8, Opened DEF OnWinsockHandshake
  <2> QED
    BY <1>1, <1>2, <1>3, <2>1
<1>9. CASE OnStageFailed
  <2>1. Follows(client')
    BY <1>9, StageFails DEF OnStageFailed
  <2> QED
    BY <1>1, <1>2, <1>3, <2>1
<1>10. CASE OnWrite
  BY <1>1, <1>2, <1>3, <1>10, Written
<1>11. CASE OnRead
  BY <1>1, <1>2, <1>3, <1>11, Answered
<1>12. CASE OnReadFailed
  <2>1. Follows(client')
    BY <1>12, ReadFails DEF OnReadFailed
  <2> QED
    BY <1>1, <1>2, <1>3, <2>1
<1>13. CASE OnWriteFailed
  <2>1. Follows(client')
    BY <1>13, WriteFails DEF OnWriteFailed
  <2> QED
    BY <1>1, <1>2, <1>3, <2>1
<1>14. CASE OnClose
  BY <1>1, <1>2, <1>3, <1>14, Closed
<1>15. CASE OnCloseFailed
  <2>1. Follows(client')
    BY <1>15, CloseFails DEF OnCloseFailed
  <2> QED
    BY <1>1, <1>2, <1>3, <2>1
<1>16. CASE OnAborted
  <2>1. Follows(client')
    BY <1>16, StreamAborted DEF OnAborted
  <2> QED
    BY <1>1, <1>2, <1>3, <2>1
<1>17. CASE OnRetryConnection
  BY <1>1, <1>2, <1>3, <1>17, Retried
<1>18. CASE OnRetryAborted
  <2>1. Follows(client')
    BY <1>18, RetryAborted DEF OnRetryAborted
  <2> QED
    BY <1>1, <1>2, <1>3, <2>1
<1>19. CASE OnKeepAlive
  BY <1>1, <1>2, <1>3, <1>19, KeepAliveDue
<1>20. CASE WorkAges
  BY <1>1, <1>2, <1>3, <1>20, Ages
<1> QED
  BY <1>3, <1>4, <1>5, <1>6, <1>7, <1>8, <1>9, <1>10, <1>11, <1>12, <1>13, <1>14, <1>15,
     <1>16, <1>17, <1>18, <1>19, <1>20 DEF Next, Calls, Network, Posted, Expiries

\* A client that has not been asked for anything.
LEMMA InitOK == Init => ButtonInv
<1> SUFFICES ASSUME Init PROVE ButtonInv
  OBVIOUS
<1>1. client = InitClient /\ budget.presses = MaxPresses
  BY DEF Init
<1>2. Pressed = 0
  BY <1>1, ButtonAssumption DEF Pressed
<1>3. InitClient \in Client
  <2>1. 0 \in 0 .. MaxPending /\ 0 \in Press /\ <<>> \in Seq(Unit) /\ "fresh" \in Stages
    BY ButtonAssumption DEF Press, Stages
  <2> QED
    BY <2>1, NoWorkOK DEF InitClient, Client
<1>4. InLine(InitClient, 0)
  <2>1. Above(<<>>, 0) /\ Below(<<>>, 0) /\ Rising(<<>>) /\ Precede(<<>>, <<>>)
    BY DEF Above, Below, Rising, Precede
  <2>2. /\ InitClient.queue = <<>> /\ InitClient.posted = <<>> /\ InitClient.last = 0
        /\ InitClient.work.press = 0
    BY NoWorkOK DEF InitClient
  <2> QED
    BY <2>1, <2>2 DEF InLine, Later
<1>5. Sound(InitClient, 0)
  BY <1>3, <1>4, NoWorkOK DEF Sound, Allowed, Reader, InitClient
<1>6. Manned(InitClient)
  BY NoWorkOK DEF Manned, InitClient
<1>7. TypeOK
  BY <1>1, <1>3, ButtonAssumption DEF Init, TypeOK
<1> QED
  BY <1>1, <1>2, <1>5, <1>6, <1>7 DEF ButtonInv

\* A step keeps the invariant and the order of the presses.
LEMMA StepOK ==
  ASSUME ButtonInv, [Next]_vars
  PROVE  ButtonInv' /\ (client'.last >= client.last \/ client' = client)
<1>1. CASE Next
  <2>1. Sound(client', Pressed') /\ Manned(client') /\ client'.last >= client.last
    BY <1>1, EveryHandler
  <2>2. TypeOK'
    BY <1>1, <2>1, SurroundingsOK DEF ButtonInv, TypeOK, Sound
  <2>3. Sound(client, Pressed)'
    BY <2>1 DEF Sound, Pressed
  <2> QED
    BY <2>1, <2>2, <2>3 DEF ButtonInv
<1>2. CASE UNCHANGED vars
  BY <1>2 DEF vars, ButtonInv, TypeOK, Pressed
<1> QED
  BY <1>1, <1>2

\* The invariant holds in every schedule, for every device and every bound.
THEOREM ButtonIsRight == Spec => []ButtonInv
<1>1. ButtonInv /\ [Next]_vars => ButtonInv'
  BY StepOK
<1> QED
  BY <1>1, InitOK, PTL DEF Spec

\* A press in progress or queued is always waited for by something that starts the next
\* (onError, startNextWork): no handler forgets the queue.
THEOREM NoPressIsLeft == Spec => []NoStrandedPress
<1>1. ButtonInv => NoStrandedPress
  <2> SUFFICES ASSUME ButtonInv PROVE NoStrandedPress
    OBVIOUS
  <2>1. client \in Client /\ Manned(client)
    BY ClientOK
  <2>2. /\ client.reads \in Nat /\ client.writes \in Nat /\ client.closes \in Nat
        /\ client.resolving \in Nat /\ client.stale \in Nat /\ client.abortedRetry \in Nat
    BY <2>1, Fields
  <2> QED
    BY <2>1, <2>2 DEF Manned, Waited, NoStrandedPress
<1> QED
  BY <1>1, ButtonIsRight, PTL

\* The display receives the presses in the order of the calls, also where a press is
\* written again, given up or closed away, and in any order of the completions.
THEOREM PressesKeepOrder == Spec => PressesInOrder
<1>1. ButtonInv /\ [Next]_vars => [client'.last >= client.last]_client
  BY StepOK
<1> QED
  BY <1>1, ButtonIsRight, PTL DEF Spec, PressesInOrder

\* Where completions run before the network moves, there is one read at a time: no
\* second connection is made while a name is being resolved.
THEOREM OneReadAtATime == Prompt => (Spec => []OneReader)
<1> SUFFICES ASSUME Prompt PROVE Spec => []OneReader
  OBVIOUS
<1>1. ButtonInv => OneReader
  BY DEF ButtonInv, Sound, Reader, OneReader
<1> QED
  BY <1>1, ButtonIsRight, PTL

===============================================================================
