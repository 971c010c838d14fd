----------------------------- MODULE IoPoolProofs -----------------------------
(***************************************************************************)
(* That the pool of IoPool serves the work that was posted, for any number *)
(* of callers, any size of the pool and any number of events.              *)
(*                                                                         *)
(* The flags are right by a round that one caller makes alone. That        *)
(* excludes nothing but two callers in one round: threads enter, finish    *)
(* and leave the io_context between any two steps of the caller, and it    *)
(* may run out of work at every one of them.                               *)
(***************************************************************************)
EXTENDS IoPool, TLAPS

-----------------------------------------------------------------------------
(* The inductive invariant.                                                 *)

Threads == pool.starting + pool.running

\* Some caller that asks a session for work is at one of the places.
Posting(places) == \E c \in Callers : call[c].at \in places /\ call[c].enqueues

\* What the caller remembers of its post is true.
Remembers ==
    \A c \in Callers : call[c].at \in {"bottom", "create", "start", "clear"}
                         => call[c].enqueued = call[c].enqueues

\* Work is left in a stopped io_context only while who posted it will look again.
Noticed == io.stopped /\ io.work > 0 => Posting({"top", "flag", "restart", "bottom"})

\* Callers that have not met are one.
Alone == ~met => \A c, d \in Callers : ~At(c, "idle") /\ ~At(d, "idle") => c = d

\* A caller that has found the io_context stopped finds it so until it restarts it.
Restarts ==
    ~met => \A c \in Callers : /\ At(c, "flag") => io.stopped
                               /\ At(c, "restart") => io.stopped /\ flags.reset

\* Work that has no pool yet is that of a caller on its way to create one.
Awaited ==
    ~met /\ ~io.stopped /\ io.work > 0 /\ flags.reset
      => Posting({"enqueue", "bottom", "create", "start", "clear"})

\* The threads that a caller has created leave only a stopped io_context.
Created ==
    ~met /\ ~io.stopped
      => \A c \in Callers : /\ call[c].at \in {"start", "clear"} => Threads > 0
                            /\ At(c, "clear") => flags.started

\* Where the flag says that there is a pool, there is one.
Manned == ~met /\ ~io.stopped /\ ~flags.reset => flags.started /\ Threads > 0

PoolInv ==
    TypeOK /\ Remembers /\ Noticed /\ Alone /\ Restarts /\ Awaited /\ Created /\ Manned

-----------------------------------------------------------------------------
(* The steps of one caller.                                                 *)

\* Caller c goes on to a place, and the others stay where they are.
Moved(c, place, enqueued) ==
    /\ call' \in [Callers -> Call]
    /\ call'[c] = [at |-> place, enqueues |-> call[c].enqueues, enqueued |-> enqueued]
    /\ \A d \in Callers \ {c} : call'[d] = call[d]

\* A caller that goes on keeps what it remembers.
LEMMA GoMoves ==
  ASSUME TypeOK, NEW c \in Callers, NEW place \in Places, Go(c, place)
  PROVE  Moved(c, place, call[c].enqueued)
<1>1. call[c] \in Call /\ call \in [Callers -> Call]
  BY DEF TypeOK
<1>2. [call[c] EXCEPT !.at = place]
        = [at |-> place, enqueues |-> call[c].enqueues, enqueued |-> call[c].enqueued]
  BY <1>1 DEF Call
<1>3. [call[c] EXCEPT !.at = place] \in Call
  BY <1>1 DEF Call
<1> QED
  BY <1>1, <1>2, <1>3 DEF Go, Moved

\* A caller that goes on after it looked whether there is work, or posted some.
LEMMA NotesMoves ==
  ASSUME TypeOK, NEW c \in Callers, NEW place \in Places, NEW b \in BOOLEAN,
         call' = [call EXCEPT ![c].at = place, ![c].enqueued = b]
  PROVE  Moved(c, place, b)
<1>1. call[c] \in Call /\ call \in [Callers -> Call]
  BY DEF TypeOK
<1> DEFINE mid == [call EXCEPT ![c].at = place]
<1>2. /\ mid \in [Callers -> Call]
      /\ mid[c] = [at |-> place, enqueues |-> call[c].enqueues, enqueued |-> call[c].enqueued]
      /\ \A d \in Callers \ {c} : mid[d] = call[d]
  <2>1. [call[c] EXCEPT !.at = place]
          = [at |-> place, enqueues |-> call[c].enqueues, enqueued |-> call[c].enqueued]
    BY <1>1 DEF Call
  <2>2. [call[c] EXCEPT !.at = place] \in Call
    BY <1>1 DEF Call
  <2> QED
    BY <1>1, <2>1, <2>2
<1>3. call' = [mid EXCEPT ![c].enqueued = b]
  BY <1>1
<1> HIDE DEF mid
<1>4. [mid[c] EXCEPT !.enqueued = b]
        = [at |-> place, enqueues |-> call[c].enqueues, enqueued |-> b]
  BY <1>2
<1>5. [at |-> place, enqueues |-> call[c].enqueues, enqueued |-> b] \in Call
  BY <1>1 DEF Call
<1> DEFINE new == [at |-> place, enqueues |-> call[c].enqueues, enqueued |-> b]
<1>6. call' = [mid EXCEPT ![c] = new]
  BY <1>3, <1>4
<1> QED
  BY <1>2, <1>5, <1>6 DEF Moved

\* A caller that is not idle is the only one, unless two have met.
LEMMA OthersIdle ==
  ASSUME PoolInv, ~met, NEW c \in Callers, ~At(c, "idle"), NEW d \in Callers, d # c
  PROVE  call[d].at = "idle"
BY DEF PoolInv, Alone, At

\* The type invariant, whatever happens.
LEMMA NextType == ASSUME TypeOK, [Next]_vars PROVE TypeOK'
<1> USE PoolAssumption
<1>1. Idle \in Call
  BY DEF Idle, Call, Places
<1>2. ASSUME NEW c \in Callers, Begin(c) PROVE TypeOK'
  <2>1. PICK e \in BOOLEAN :
           call' = [call EXCEPT ![c] = [at |-> "top", enqueues |-> e, enqueued |-> FALSE]]
    BY <1>2 DEF Begin
  <2>2. [at |-> "top", enqueues |-> e, enqueued |-> FALSE] \in Call
    BY DEF Call, Places
  <2>3. call' \in [Callers -> Call]
    BY <2>1, <2>2 DEF TypeOK
  <2>4. left' \in 0 .. MaxEvents /\ met' \in BOOLEAN
    BY <1>2 DEF Begin, TypeOK
  <2> QED
    BY <1>2, <2>3, <2>4 DEF Begin, TypeOK
<1>3. ASSUME NEW c \in Callers, Top(c) PROVE TypeOK'
  <2> DEFINE place == IF io.stopped THEN "flag" ELSE "enqueue"
  <2>1. place \in Places
    BY DEF Places
  <2> HIDE DEF place
  <2>2. call' = [call EXCEPT ![c].at = place, ![c].enqueued = FALSE]
    BY <1>3 DEF Top, place
  <2>3. call' \in [Callers -> Call]
    BY <2>1, <2>2, NotesMoves DEF Moved
  <2> QED
    BY <1>3, <2>3 DEF Top, TypeOK
<1>4. ASSUME NEW c \in Callers, Flag(c) PROVE TypeOK'
  BY <1>4, GoMoves DEF Flag, TypeOK, Moved, Places
<1>5. ASSUME NEW c \in Callers, Restart(c) PROVE TypeOK'
  BY <1>5, GoMoves DEF Restart, TypeOK, Moved, Places
<1>6. ASSUME NEW c \in Callers, Enqueue(c) PROVE TypeOK'
  <2>1. call[c].enqueues \in BOOLEAN
    BY DEF TypeOK, Call
  <2>2. call' \in [Callers -> Call]
    BY <1>6, <2>1, NotesMoves DEF Enqueue, Moved, Places
  <2>3. io' \in [stopped : BOOLEAN, work : Nat]
    BY <1>6 DEF Enqueue, TypeOK
  <2> QED
    BY <1>6, <2>2, <2>3 DEF Enqueue, TypeOK
<1>7. ASSUME NEW c \in Callers, Bottom(c) PROVE TypeOK'
  <2>1. call' \in [Callers -> Call]
    BY <1>7, GoMoves DEF Bottom, Moved, Places
  <2> QED
    BY <1>7, <2>1 DEF Bottom, TypeOK
<1>8. ASSUME NEW c \in Callers, Create(c) PROVE TypeOK'
  <2>1. call' \in [Callers -> Call]
    <3>1. Go(c, "start") => call' \in [Callers -> Call]
      BY GoMoves DEF Moved, Places
    <3>2. call' = [call EXCEPT ![c] = Idle] => call' \in [Callers -> Call]
      BY <1>1 DEF TypeOK
    <3> QED
      BY <1>8, <3>1, <3>2 DEF Create
  <2>2. pool' \in [starting : Nat, running : Nat]
    BY <1>8 DEF Create, TypeOK
  <2> QED
    BY <1>8, <2>1, <2>2 DEF Create, TypeOK
<1>9. ASSUME NEW c \in Callers, Start(c) PROVE TypeOK'
  BY <1>9, GoMoves DEF Start, TypeOK, Moved, Places
<1>10. ASSUME NEW c \in Callers, Clear(c) PROVE TypeOK'
  BY <1>1, <1>10 DEF Clear, TypeOK
<1>11. CASE Enter
  <2>1. pool' \in [starting : Nat, running : Nat] /\ io' \in [stopped : BOOLEAN, work : Nat]
    <3>0. pool.starting - 1 \in Nat /\ pool.running + 1 \in Nat
      BY <1>11 DEF Enter, TypeOK
    <3>1. CASE io.work = 0 \/ io.stopped
      BY <1>11, <3>0, <3>1 DEF Enter, TypeOK
    <3>2. CASE ~(io.work = 0 \/ io.stopped)
      BY <1>11, <3>0, <3>2 DEF Enter, TypeOK
    <3> QED
      BY <3>1, <3>2
  <2> QED
    BY <1>11, <2>1 DEF Enter, TypeOK
<1>12. CASE Finish
  BY <1>12 DEF Finish, TypeOK
<1>13. CASE Leave
  BY <1>13 DEF Leave, TypeOK
<1>14. CASE UNCHANGED vars
  BY <1>14 DEF vars, TypeOK
<1> QED
  BY <1>2, <1>3, <1>4, <1>5, <1>6, <1>7, <1>8, <1>9, <1>10, <1>11, <1>12, <1>13, <1>14
     DEF Next, IoNext, Step

\* An event begins. Where callers have met, the io_context has run out of work since, and
\* there is no work in it.
LEMMA BeginKeeps ==
  ASSUME PoolInv, NEW c \in Callers, Begin(c)
  PROVE  PoolInv'
<1>1. TypeOK'
  BY NextType DEF PoolInv, Next
<1>2. PICK e \in BOOLEAN :
         call' = [call EXCEPT ![c] = [at |-> "top", enqueues |-> e, enqueued |-> FALSE]]
  BY DEF Begin
<1>3. /\ call'[c] = [at |-> "top", enqueues |-> e, enqueued |-> FALSE]
      /\ \A d \in Callers \ {c} : call'[d] = call[d]
  BY <1>2 DEF PoolInv, TypeOK
<1>4. UNCHANGED <<io, flags, pool>> /\ At(c, "idle")
  BY DEF Begin
<1>5. ~met' => AllIdle /\ (met => io.stopped)
  BY DEF Begin
<1>6. Remembers'
  BY <1>3 DEF PoolInv, Remembers
<1>7. Noticed'
  BY <1>3, <1>4 DEF PoolInv, Noticed, Posting, At
<1>8. Alone'
  BY <1>3, <1>5 DEF Alone, AllIdle, At
<1>9. Restarts'
  BY <1>3, <1>5 DEF Restarts, AllIdle, At
<1>10. Awaited'
  BY <1>4, <1>5 DEF PoolInv, Awaited, Posting, AllIdle, At
<1>11. Created'
  BY <1>3, <1>5 DEF Created, AllIdle, At
<1>12. Manned'
  BY <1>4, <1>5 DEF PoolInv, Manned, Threads
<1> QED
  BY <1>1, <1>6, <1>7, <1>8, <1>9, <1>10, <1>11, <1>12 DEF PoolInv

\* A caller that goes on is still the only one.
LEMMA AloneKept ==
  ASSUME PoolInv, NEW c \in Callers, ~At(c, "idle"), NEW place, NEW b, Moved(c, place, b),
         met' = met
  PROVE  Alone'
BY DEF PoolInv, Alone, At, Moved

\* A round begins with a look at the io_context.
LEMMA TopKeeps ==
  ASSUME PoolInv, NEW c \in Callers, Top(c)
  PROVE  PoolInv'
<1>1. TypeOK'
  BY NextType DEF PoolInv, Next, Step
<1> DEFINE place == IF io.stopped THEN "flag" ELSE "enqueue"
<1>2. place \in Places /\ (io.stopped => place = "flag") /\ (~io.stopped => place = "enqueue")
  BY DEF Places
<1>3. call' = [call EXCEPT ![c].at = place, ![c].enqueued = FALSE]
  BY DEF Top
<1> HIDE DEF place
<1>4. Moved(c, place, FALSE)
  BY <1>2, <1>3, NotesMoves DEF PoolInv
<1>5. UNCHANGED <<io, flags, pool, met>> /\ At(c, "top")
  BY DEF Top
<1>6. Remembers'
  BY <1>2, <1>4 DEF PoolInv, Remembers, Moved
<1>7. Noticed'
  BY <1>2, <1>4, <1>5 DEF PoolInv, Noticed, Posting, Moved, At
<1>8. Alone'
  BY <1>4, <1>5, AloneKept DEF At
<1>9. Restarts'
  BY <1>2, <1>4, <1>5 DEF PoolInv, Restarts, Moved, At
<1>10. Awaited'
  BY <1>2, <1>4, <1>5 DEF PoolInv, Awaited, Posting, Moved, At
<1>11. Created'
  BY <1>2, <1>4, <1>5 DEF PoolInv, Created, Threads, Moved, At
<1>12. Manned'
  BY <1>5 DEF PoolInv, Manned, Threads
<1> QED
  BY <1>1, <1>6, <1>7, <1>8, <1>9, <1>10, <1>11, <1>12 DEF PoolInv

\* ioc_reset_ is set, and asks for a pool: that there is one is not claimed any more.
LEMMA FlagKeeps ==
  ASSUME PoolInv, NEW c \in Callers, Flag(c)
  PROVE  PoolInv'
<1>1. TypeOK'
  BY NextType DEF PoolInv, Next, Step
<1>2. Moved(c, "restart", call[c].enqueued)
  BY GoMoves DEF PoolInv, Flag, Places
<1>3. UNCHANGED <<io, pool, met>> /\ At(c, "flag") /\ flags' = [flags EXCEPT !.reset = TRUE]
  BY DEF Flag
<1>4. flags'.reset /\ flags'.started = flags.started
  BY <1>3 DEF PoolInv, TypeOK
<1>5. ~met => io.stopped
  BY <1>3 DEF PoolInv, Restarts, At
<1>6. Remembers'
  BY <1>2 DEF PoolInv, Remembers, Moved
<1>7. Noticed'
  BY <1>2, <1>3 DEF PoolInv, Noticed, Posting, Moved, At
<1>8. Alone'
  BY <1>2, <1>3, AloneKept DEF At
<1>9. Restarts'
  BY <1>2, <1>3, <1>4, <1>5 DEF PoolInv, Restarts, Moved, At
<1>10. Awaited' /\ Created' /\ Manned'
  BY <1>3, <1>5 DEF Awaited, Created, Manned
<1> QED
  BY <1>1, <1>6, <1>7, <1>8, <1>9, <1>10 DEF PoolInv

\* The io_context is restarted. Work that was left in it is the caller's own.
LEMMA RestartKeeps ==
  ASSUME PoolInv, NEW c \in Callers, Restart(c)
  PROVE  PoolInv'
<1>1. TypeOK'
  BY NextType DEF PoolInv, Next, Step
<1>2. Moved(c, "enqueue", call[c].enqueued)
  BY GoMoves DEF PoolInv, Restart, Places
<1>3. UNCHANGED <<flags, pool, met>> /\ At(c, "restart") /\ io' = [io EXCEPT !.stopped = FALSE]
  BY DEF Restart
<1>4. ~io'.stopped /\ io'.work = io.work
  BY <1>3 DEF PoolInv, TypeOK
<1>5. ~met => io.stopped /\ flags.reset
  BY <1>3 DEF PoolInv, Restarts, At
<1>6. ~met => \A d \in Callers \ {c} : call[d].at = "idle"
  BY <1>3, OthersIdle DEF At
<1>7. Remembers'
  BY <1>2 DEF PoolInv, Remembers, Moved
<1>8. Noticed'
  BY <1>4 DEF Noticed
<1>9. Alone'
  BY <1>2, <1>3, AloneKept DEF At
<1>10. Restarts' /\ Created'
  BY <1>2, <1>3, <1>6 DEF Restarts, Created, Moved, At
<1>11. Awaited'
  <2> SUFFICES ASSUME ~met, io.work > 0 PROVE call[c].enqueues
    BY <1>2, <1>3, <1>4 DEF Awaited, Posting, Moved
  <2>1. Posting({"top", "flag", "restart", "bottom"})
    BY <1>5 DEF PoolInv, Noticed
  <2> QED
    BY <2>1, <1>6 DEF Posting
<1>12. Manned'
  BY <1>3, <1>5 DEF Manned
<1> QED
  BY <1>1, <1>7, <1>8, <1>9, <1>10, <1>11, <1>12 DEF PoolInv

\* Work is posted, by the caller itself or not at all.
LEMMA EnqueueKeeps ==
  ASSUME PoolInv, NEW c \in Callers, Enqueue(c)
  PROVE  PoolInv'
<1>1. TypeOK'
  BY NextType DEF PoolInv, Next, Step
<1>2. call[c].enqueues \in BOOLEAN
  BY DEF PoolInv, TypeOK, Call
<1>3. Moved(c, "bottom", call[c].enqueues)
  BY <1>2, NotesMoves DEF PoolInv, Enqueue, Places
<1>4. UNCHANGED <<flags, pool, met>> /\ At(c, "enqueue")
  BY DEF Enqueue
<1>5. io'.stopped = io.stopped /\ (~call[c].enqueues => io'.work = io.work)
  BY DEF PoolInv, TypeOK, Enqueue
<1>6. Remembers'
  BY <1>3 DEF PoolInv, Remembers, Moved
<1>7. Noticed'
  BY <1>3, <1>4, <1>5 DEF PoolInv, Noticed, Posting, Moved, At
<1>8. Alone'
  BY <1>3, <1>4, AloneKept DEF At
<1>9. Restarts'
  BY <1>3, <1>4, <1>5 DEF PoolInv, Restarts, Moved, At
<1>10. Awaited'
  BY <1>3, <1>4, <1>5 DEF PoolInv, Awaited, Posting, Moved, At
<1>11. Created'
  BY <1>3, <1>4, <1>5 DEF PoolInv, Created, Threads, Moved, At
<1>12. Manned'
  BY <1>4, <1>5 DEF PoolInv, Manned, Threads
<1> QED
  BY <1>1, <1>6, <1>7, <1>8, <1>9, <1>10, <1>11, <1>12 DEF PoolInv

\* A caller that finds the io_context stopped begins again.
LEMMA BottomKeeps ==
  ASSUME PoolInv, NEW c \in Callers, Bottom(c)
  PROVE  PoolInv'
<1>1. TypeOK'
  BY NextType DEF PoolInv, Next, Step
<1> DEFINE place == IF io.stopped THEN "top" ELSE "create"
<1>2. place \in Places /\ (io.stopped => place = "top") /\ (~io.stopped => place = "create")
  BY DEF Places
<1>3. Go(c, place)
  BY DEF Bottom
<1> HIDE DEF place
<1>4. Moved(c, place, call[c].enqueued)
  BY <1>2, <1>3, GoMoves DEF PoolInv
<1>5. UNCHANGED <<io, flags, pool, met>> /\ At(c, "bottom")
  BY DEF Bottom
<1>6. Remembers'
  BY <1>2, <1>4, <1>5 DEF PoolInv, Remembers, Moved, At
<1>7. Noticed'
  BY <1>2, <1>4, <1>5 DEF PoolInv, Noticed, Posting, Moved, At
<1>8. Alone'
  BY <1>4, <1>5, AloneKept DEF At
<1>9. Restarts'
  BY <1>2, <1>4, <1>5 DEF PoolInv, Restarts, Moved, At
<1>10. Awaited'
  BY <1>2, <1>4, <1>5 DEF PoolInv, Awaited, Posting, Moved, At
<1>11. Created'
  BY <1>2, <1>4, <1>5 DEF PoolInv, Created, Threads, Moved, At
<1>12. Manned'
  BY <1>5 DEF PoolInv, Manned, Threads
<1> QED
  BY <1>1, <1>6, <1>7, <1>8, <1>9, <1>10, <1>11, <1>12 DEF PoolInv

\* A caller that is asked for a pool creates its threads.
LEMMA CreateKeeps ==
  ASSUME PoolInv, NEW c \in Callers, Create(c)
  PROVE  PoolInv'
<1>1. TypeOK'
  BY NextType DEF PoolInv, Next, Step
<1>2. UNCHANGED <<io, flags, met>> /\ At(c, "create")
  BY DEF Create
<1>3. call[c].enqueued = call[c].enqueues
  BY <1>2 DEF PoolInv, Remembers, At
<1>4. CASE flags.reset /\ call[c].enqueued
  <2>1. Moved(c, "start", call[c].enqueued)
    BY <1>4, GoMoves DEF PoolInv, Create, Places
  <2>2. Threads' > 0
    <3>1. pool' = [pool EXCEPT !.starting = @ + PoolSize]
      BY <1>4 DEF Create
    <3> QED
      BY <3>1, PoolAssumption DEF PoolInv, TypeOK, Threads
  <2>3. Remembers'
    BY <1>3, <2>1 DEF PoolInv, Remembers, Moved
  <2>4. Noticed'
    BY <1>2, <2>1 DEF PoolInv, Noticed, Posting, Moved, At
  <2>5. Alone'
    BY <1>2, <2>1, AloneKept DEF At
  <2>6. Restarts'
    BY <1>2, <2>1 DEF PoolInv, Restarts, Moved, At
  <2>7. Awaited'
    BY <1>2, <2>1 DEF PoolInv, Awaited, Posting, Moved, At
  <2>8. Created'
    BY <1>2, <2>1, <2>2 DEF PoolInv, Created, Moved, At
  <2>9. Manned'
    BY <1>2, <1>4 DEF Manned
  <2> QED
    BY <1>1, <2>3, <2>4, <2>5, <2>6, <2>7, <2>8, <2>9 DEF PoolInv
\* No work was posted, or the pool is there.
<1>5. CASE ~(flags.reset /\ call[c].enqueued)
  <2>1. /\ call' = [call EXCEPT ![c] = Idle]
        /\ UNCHANGED pool
    BY <1>5 DEF Create
  <2>2. call'[c] = Idle /\ \A d \in Callers \ {c} : call'[d] = call[d]
    BY <2>1 DEF PoolInv, TypeOK
  <2>3. Remembers'
    BY <2>2 DEF PoolInv, Remembers, Idle
  <2>4. Noticed'
    BY <1>2, <2>2 DEF PoolInv, Noticed, Posting, At
  <2>5. Alone' /\ Restarts'
    BY <1>2, <2>2 DEF PoolInv, Alone, Restarts, At, Idle
  <2>6. Awaited'
    BY <1>2, <1>3, <1>5, <2>2 DEF PoolInv, Awaited, Posting, At
  <2>7. Created' /\ Manned'
    BY <1>2, <2>1, <2>2 DEF PoolInv, Created, Manned, Threads, At, Idle
  <2> QED
    BY <1>1, <2>3, <2>4, <2>5, <2>6, <2>7 DEF PoolInv
<1> QED
  BY <1>4, <1>5

\* ioc_started_ is set once the threads are there.
LEMMA StartKeeps ==
  ASSUME PoolInv, NEW c \in Callers, Start(c)
  PROVE  PoolInv'
<1>1. TypeOK'
  BY NextType DEF PoolInv, Next, Step
<1>2. Moved(c, "clear", call[c].enqueued)
  BY GoMoves DEF PoolInv, Start, Places
<1>3. UNCHANGED <<io, pool, met>> /\ At(c, "start") /\ flags' = [flags EXCEPT !.started = TRUE]
  BY DEF Start
<1>4. flags'.started /\ flags'.reset = flags.reset
  BY <1>3 DEF PoolInv, TypeOK
<1>5. Remembers'
  BY <1>2, <1>3 DEF PoolInv, Remembers, Moved, At
<1>6. Noticed'
  BY <1>2, <1>3 DEF PoolInv, Noticed, Posting, Moved, At
<1>7. Alone'
  BY <1>2, <1>3, AloneKept DEF At
<1>8. Restarts'
  BY <1>2, <1>3, <1>4 DEF PoolInv, Restarts, Moved, At
<1>9. Awaited'
  BY <1>2, <1>3, <1>4 DEF PoolInv, Awaited, Posting, Moved, At
<1>10. Created'
  BY <1>2, <1>3, <1>4 DEF PoolInv, Created, Threads, Moved, At
<1>11. Manned'
  BY <1>3, <1>4 DEF PoolInv, Manned, Threads
<1> QED
  BY <1>1, <1>5, <1>6, <1>7, <1>8, <1>9, <1>10, <1>11 DEF PoolInv

\* ioc_reset_ is cleared, and from now on claims the pool that was created.
LEMMA ClearKeeps ==
  ASSUME PoolInv, NEW c \in Callers, Clear(c)
  PROVE  PoolInv'
<1>1. TypeOK'
  BY NextType DEF PoolInv, Next, Step
<1>2. /\ UNCHANGED <<io, pool, met>> /\ At(c, "clear")
      /\ flags' = [flags EXCEPT !.reset = FALSE] /\ call' = [call EXCEPT ![c] = Idle]
  BY DEF Clear
<1>3. ~flags'.reset /\ flags'.started = flags.started
  BY <1>2 DEF PoolInv, TypeOK
<1>4. call'[c] = Idle /\ \A d \in Callers \ {c} : call'[d] = call[d]
  BY <1>2 DEF PoolInv, TypeOK
<1>5. ~met /\ ~io.stopped => Threads > 0 /\ flags.started
  BY <1>2 DEF PoolInv, Created, At
<1>6. ~met => \A d \in Callers \ {c} : call[d].at = "idle"
  BY <1>2, OthersIdle DEF At
<1>7. Remembers'
  BY <1>4 DEF PoolInv, Remembers, Idle
<1>8. Noticed'
  BY <1>2, <1>4 DEF PoolInv, Noticed, Posting, At
<1>9. Alone' /\ Restarts' /\ Created'
  BY <1>2, <1>4, <1>6 DEF Alone, Restarts, Created, At, Idle
<1>10. Awaited'
  BY <1>3 DEF Awaited
<1>11. Manned'
  BY <1>2, <1>3, <1>5 DEF Manned, Threads
<1> QED
  BY <1>1, <1>7, <1>8, <1>9, <1>10, <1>11 DEF PoolInv

-----------------------------------------------------------------------------
(* The steps of the io_context, and the theorems.                            *)

\* Threads come and go without a caller: they are lost to a stopped io_context only.
LEMMA IoKeeps ==
  ASSUME PoolInv, IoNext
  PROVE  PoolInv'
<1>1. TypeOK'
  BY NextType DEF PoolInv, Next
<1>2. UNCHANGED <<flags, call, met>>
  BY DEF IoNext, Enter, Finish, Leave
<1>3. /\ io.stopped => io'.stopped
      /\ io'.work > 0 => io.work > 0 /\ io'.stopped = io.stopped
      /\ ~io'.stopped => Threads' = Threads
  <2>1. CASE Enter
    <3>1. CASE io.work = 0 \/ io.stopped
      <4>1. io' = [io EXCEPT !.stopped = TRUE]
        BY <2>1, <3>1 DEF Enter
      <4>2. io'.stopped = TRUE /\ io'.work = io.work
        BY <4>1 DEF PoolInv, TypeOK
      <4>3. io.stopped \in BOOLEAN /\ io.work \in Nat
        BY DEF PoolInv, TypeOK
      <4>4. io.work > 0 => io.stopped = TRUE
        BY <3>1, <4>3
      <4> QED
        BY <4>2, <4>4
    <3>2. CASE ~(io.work = 0 \/ io.stopped)
      BY <2>1, <3>2 DEF Enter, PoolInv, TypeOK, Threads
    <3> QED
      BY <3>1, <3>2
  <2>2. CASE Finish
    BY <2>2 DEF Finish, PoolInv, TypeOK, Threads
  <2>3. CASE Leave
    BY <2>3 DEF Leave, PoolInv, TypeOK
  <2> QED
    BY <2>1, <2>2, <2>3 DEF IoNext
<1>4. Remembers' /\ Alone'
  BY <1>2 DEF PoolInv, Remembers, Alone, At
<1>5. Noticed'
  BY <1>2, <1>3 DEF PoolInv, Noticed, Posting
<1>6. Restarts'
  BY <1>2, <1>3 DEF PoolInv, Restarts, At
<1>7. Awaited'
  BY <1>2, <1>3 DEF PoolInv, Awaited, Posting
<1>8. Created' /\ Manned'
  BY <1>2, <1>3 DEF PoolInv, Created, Manned, At
<1> QED
  BY <1>1, <1>4, <1>5, <1>6, <1>7, <1>8 DEF PoolInv

\* Nothing is posted and nobody has called at the start.
LEMMA PoolInit == Init => PoolInv
<1> SUFFICES ASSUME Init PROVE PoolInv
  OBVIOUS
<1>1. Idle \in Call
  BY DEF Idle, Call, Places
<1>2. TypeOK
  <2>1. call \in [Callers -> Call]
    BY <1>1 DEF Init
  <2>2. left \in 0 .. MaxEvents
    BY PoolAssumption DEF Init
  <2> QED
    BY <2>1, <2>2 DEF Init, TypeOK
<1>3. \A c \in Callers : call[c] = Idle
  BY DEF Init
<1> QED
  BY <1>2, <1>3
     DEF Init, PoolInv, Remembers, Noticed, Alone, Restarts, Awaited, Created, Manned, At, Idle

\* The invariant of the pool holds in every reachable state.
THEOREM PoolIsRight == Spec => []PoolInv
<1>1. PoolInv /\ [Next]_vars => PoolInv'
  <2>1. CASE UNCHANGED vars
    BY <2>1, NextType
       DEF vars, PoolInv, Remembers, Noticed, Posting, Alone, Restarts, Awaited, Created, Manned,
           Threads, At
  <2> QED
    BY <2>1, IoKeeps, BeginKeeps, TopKeeps, FlagKeeps, RestartKeeps, EnqueueKeeps, BottomKeeps,
       CreateKeeps, StartKeeps, ClearKeeps DEF Next, Step
<1> QED
  BY <1>1, PoolInit, PTL DEF Spec

\* Between two events, and unless two of them met, work that was posted has an io_context
\* that runs and threads to run it: no power command waits for the next event.
THEOREM WorkHasThreads == Spec => []WorkIsServed
<1>1. PoolInv => WorkIsServed
  BY DEF PoolInv, WorkIsServed, AllIdle, At, Noticed, Posting, Awaited, Manned, Threads
<1> QED
  BY <1>1, PoolIsRight, PTL

\* Under the same conditions isBusy tells of the work: the power handler does not give up
\* the lock before the displays have answered.
THEOREM BusyTellsOfWork == Spec => []BusyWhileWorking
<1>1. PoolInv => BusyWhileWorking
  BY DEF PoolInv, TypeOK, BusyWhileWorking, IsBusy, AllIdle, At, Noticed, Posting, Awaited, Manned
<1> QED
  BY <1>1, PoolIsRight, PTL
=============================================================================
