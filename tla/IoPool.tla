-------------------------------- MODULE IoPool --------------------------------
(***************************************************************************)
(* The io_context of the daemon and the threads that run it: isBusy and    *)
(* the two ends of processEvent in src/src/daemon/companion.cpp.           *)
(*                                                                         *)
(* The sessions have no threads of their own. A thread that processes an   *)
(* event posts the work of the event to the io_context; threads are        *)
(* created for it when the io_context has run out of work before, and end  *)
(* when it runs out of work again. The monitor of the system bus, its      *)
(* resume threads, the control socket and the main thread process events,  *)
(* and nothing keeps two of them from doing so at the same time: every     *)
(* read and write of the flags they share is a step. Where two did, the    *)
(* flags may be wrong: a late store of ioc_reset_ denies a pool that works, *)
(* a late clear keeps the pool from being created. The properties are about *)
(* the rest of the time, and say that the next round is right again.        *)
(***************************************************************************)
EXTENDS Integers, FiniteSets

CONSTANTS
    Callers,     \* threads that process events
    PoolSize,    \* threads of one pool: two for each managed device, at least two
    MaxEvents    \* bound: events processed

ASSUME PoolAssumption ==
    /\ PoolSize \in Nat \ {0}
    /\ MaxEvents \in Nat

VARIABLES
    io,     \* the io_context: [stopped, work], outstanding work
    flags,  \* [reset, started]: ioc_reset_ and ioc_started_
    pool,   \* threads: [starting, running], about to call run() and inside it
    call,   \* where each caller is in processEvent
    left,   \* events that the bound still allows
    met     \* history: two callers met since the io_context last ran out of work

vars == <<io, flags, pool, call, left, met>>

Places == {"idle", "top", "flag", "restart", "enqueue", "bottom", "create", "start", "clear"}

\* enqueues: the event asks a session for work; enqueued: work_was_enqueued.
Call == [at : Places, enqueues : BOOLEAN, enqueued : BOOLEAN]

Idle == [at |-> "idle", enqueues |-> FALSE, enqueued |-> FALSE]

Init == /\ io = [stopped |-> FALSE, work |-> 0]
        /\ flags = [reset |-> TRUE, started |-> FALSE]
        /\ pool = [starting |-> 0, running |-> 0]
        /\ call = [c \in Callers |-> Idle]
        /\ left = MaxEvents
        /\ met = FALSE

IsBusy == flags.started /\ ~flags.reset /\ ~io.stopped

-----------------------------------------------------------------------------
(* A caller.                                                                *)

At(c, place) == call[c].at = place

AllIdle == \A c \in Callers : At(c, "idle")

Go(c, place) == call' = [call EXCEPT ![c].at = place]

Begin(c) ==
    /\ At(c, "idle")
    /\ left > 0
    /\ left' = left - 1
    /\ \E enqueues \in BOOLEAN :
         call' = [call EXCEPT ![c] = [at |-> "top", enqueues |-> enqueues, enqueued |-> FALSE]]
    /\ met' = ((met /\ ~io.stopped) \/ ~AllIdle)
    /\ UNCHANGED <<io, flags, pool>>

Top(c) ==
    /\ At(c, "top")
    /\ call' = [call EXCEPT ![c].at = IF io.stopped THEN "flag" ELSE "enqueue",
                            ![c].enqueued = FALSE]
    /\ UNCHANGED <<io, flags, pool, left, met>>

Flag(c) ==
    /\ At(c, "flag")
    /\ flags' = [flags EXCEPT !.reset = TRUE]
    /\ Go(c, "restart")
    /\ UNCHANGED <<io, pool, left, met>>

Restart(c) ==
    /\ At(c, "restart")
    /\ io' = [io EXCEPT !.stopped = FALSE]
    /\ Go(c, "enqueue")
    /\ UNCHANGED <<flags, pool, left, met>>

Enqueue(c) ==
    /\ At(c, "enqueue")
    /\ io' = [io EXCEPT !.work = IF call[c].enqueues THEN @ + 1 ELSE @]
    /\ call' = [call EXCEPT ![c].at = "bottom", ![c].enqueued = call[c].enqueues]
    /\ UNCHANGED <<flags, pool, left, met>>

\* Mutant: the io_context is looked at once, before the work is posted.
BottomOnce(c) ==
    /\ At(c, "bottom")
    /\ Go(c, "create")
    /\ UNCHANGED <<io, flags, pool, left, met>>

\* The io_context may have run out of work while work was posted to it.
Bottom(c) ==
    /\ At(c, "bottom")
    /\ Go(c, IF io.stopped THEN "top" ELSE "create")
    /\ UNCHANGED <<io, flags, pool, left, met>>

Create(c) ==
    /\ At(c, "create")
    /\ IF flags.reset /\ call[c].enqueued
       THEN /\ pool' = [pool EXCEPT !.starting = @ + PoolSize]
            /\ Go(c, "start")
       ELSE /\ call' = [call EXCEPT ![c] = Idle]
            /\ UNCHANGED pool
    /\ UNCHANGED <<io, flags, left, met>>

Start(c) ==
    /\ At(c, "start")
    /\ flags' = [flags EXCEPT !.started = TRUE]
    /\ Go(c, "clear")
    /\ UNCHANGED <<io, pool, left, met>>

\* Mutant: the flag stays set.
ClearNothing(c) ==
    /\ At(c, "clear")
    /\ call' = [call EXCEPT ![c] = Idle]
    /\ UNCHANGED <<io, flags, pool, left, met>>

Clear(c) ==
    /\ At(c, "clear")
    /\ flags' = [flags EXCEPT !.reset = FALSE]
    /\ call' = [call EXCEPT ![c] = Idle]
    /\ UNCHANGED <<io, pool, left, met>>

Step(c) ==
    \/ Top(c) \/ Flag(c) \/ Restart(c) \/ Enqueue(c) \/ Bottom(c) \/ Create(c) \/ Start(c)
    \/ Clear(c)

-----------------------------------------------------------------------------
(* The io_context. Work that ends last stops it; so does a thread that calls  *)
(* run() when there is none.                                                 *)

Enter ==
    /\ pool.starting > 0
    /\ IF io.work = 0 \/ io.stopped
       THEN /\ pool' = [pool EXCEPT !.starting = @ - 1]
            /\ io' = [io EXCEPT !.stopped = TRUE]
       ELSE /\ pool' = [starting |-> pool.starting - 1, running |-> pool.running + 1]
            /\ UNCHANGED io
    /\ UNCHANGED <<flags, call, left, met>>

\* Mutant: the io_context never runs out of work.
FinishOnly ==
    /\ pool.running > 0
    /\ ~io.stopped
    /\ io.work > 0
    /\ io' = [io EXCEPT !.work = @ - 1]
    /\ UNCHANGED <<flags, pool, call, left, met>>

Finish ==
    /\ pool.running > 0
    /\ ~io.stopped
    /\ io.work > 0
    /\ io' = [stopped |-> io.work = 1, work |-> io.work - 1]
    /\ UNCHANGED <<flags, pool, call, left, met>>

Leave ==
    /\ pool.running > 0
    /\ io.stopped
    /\ pool' = [pool EXCEPT !.running = @ - 1]
    /\ UNCHANGED <<io, flags, call, left, met>>

IoNext == Enter \/ Finish \/ Leave

Next == IoNext \/ \E c \in Callers : Begin(c) \/ Step(c)

Spec == Init /\ [][Next]_vars

\* The scheduler runs every thread, and a unit of work ends.
LiveSpec == Spec /\ WF_vars(IoNext) /\ \A c \in Callers : WF_vars(Step(c))

-----------------------------------------------------------------------------
(* Properties.                                                              *)

TypeOK ==
    /\ io \in [stopped : BOOLEAN, work : Nat]
    /\ flags \in [reset : BOOLEAN, started : BOOLEAN]
    /\ pool \in [starting : Nat, running : Nat]
    /\ call \in [Callers -> Call]
    /\ left \in 0 .. MaxEvents
    /\ met \in BOOLEAN

\* Work that was posted has threads to run it once the calls that posted it are over,
\* unless two calls met: whatever the moment at which the io_context ran out of work, no
\* power command waits for the next event.
WorkIsServed ==
    AllIdle /\ ~met /\ io.work > 0 => ~io.stopped /\ pool.starting + pool.running > 0

\* isBusy tells of the work, unless two calls met: the power handler of the daemon waits
\* while it says so.
BusyWhileWorking == AllIdle /\ ~met /\ io.work > 0 => IsBusy

\* The wait ends when nothing more happens: the io_context runs out of work.
DrainEnds == IsBusy /\ left = 0 /\ ~met ~> ~IsBusy
==============================================================================
