-------------------------- MODULE CommandLineProofs --------------------------
(***************************************************************************)
(* What TLAPS proves of the command line program, for any displays, any     *)
(* commands a user may have in mind and any faults: how an exchange with a  *)
(* display goes, how long the thread lasts that wakes it, that the          *)
(* arguments are read as the user meant them, and that the displays hear    *)
(* what was meant, in its order, and all of it when nothing fails.          *)
(***************************************************************************)
EXTENDS CommandLine, FiniteSetTheorems, WellFoundedInduction, SequenceTheorems, TLAPS

-----------------------------------------------------------------------------
(* The least-number principle, from the library's well-founded ordering of  *)
(* finite sets, and the induction up to a number that it gives.             *)

\* A set of numbers is mapped to the intervals below its members, which the strict
\* subset ordering of finite sets orders well.
LEMMA LeastNumber ==
  ASSUME NEW T \in SUBSET Nat, T # {}
  PROVE  \E x \in T : \A y \in T : x <= y
<1> DEFINE U == {0 .. x : x \in T}
<1>1. IsWellFoundedOn(StrictSubsetOrdering(Nat), FiniteSubsetsOf(Nat))
  BY FS_StrictSubsetOrderingWellFounded
<1>2. U \subseteq FiniteSubsetsOf(Nat) /\ U # {}
  <2>1. \A x \in T : IsFiniteSet(0 .. x) /\ 0 .. x \in SUBSET Nat
    BY FS_Interval
  <2> QED
    BY <2>1 DEF FiniteSubsetsOf
<1> HIDE DEF U
<1>3. PICK a \in U : \A b \in U : ~(<<b, a>> \in StrictSubsetOrdering(Nat))
  BY <1>1, <1>2, WFMin
<1>4. PICK x \in T : a = 0 .. x
  BY <1>3 DEF U
<1>5. ASSUME NEW y \in T, ~(x <= y) PROVE FALSE
  <2>1. 0 .. y \in U
    BY DEF U
  <2>2. /\ 0 .. y \subseteq 0 .. x /\ 0 .. y # 0 .. x
        /\ 0 .. y \in SUBSET Nat /\ 0 .. x \in SUBSET Nat
    <3>1. x \in 0 .. x /\ x \notin 0 .. y
      BY <1>5
    <3> QED
      BY <3>1, <1>5
  <2>3. <<0 .. y, a>> \in StrictSubsetOrdering(Nat)
    BY <2>2, <1>4 DEF StrictSubsetOrdering
  <2> QED
    BY <2>1, <2>3, <1>3
<1> QED
  BY <1>5

\* A set of numbers up to n that contains 0 and with each number but n its successor
\* is the whole interval.
LEMMA UpTo ==
  ASSUME NEW n \in Nat, NEW S, 0 \in S,
         \A i \in 0 .. n : i < n /\ i \in S => i + 1 \in S
  PROVE  0 .. n \subseteq S
<1> DEFINE T == {i \in 0 .. n : i \notin S}
<1> SUFFICES ASSUME T # {} PROVE FALSE
  OBVIOUS
<1>1. T \in SUBSET Nat
  OBVIOUS
<1> HIDE DEF T
<1>2. PICK x \in T : \A y \in T : x <= y
  BY <1>1, LeastNumber
<1>3. x \in 0 .. n /\ x \notin S
  BY <1>2 DEF T
<1>4. x # 0 /\ x - 1 \in 0 .. n /\ x - 1 < n
  BY <1>3
<1>5. x - 1 \in S
  <2>1. x - 1 \notin T
    BY <1>2, <1>3, <1>4
  <2> QED
    BY <2>1, <1>4 DEF T
<1>6. (x - 1) + 1 \in S
  BY <1>4, <1>5
<1> QED
  BY <1>3, <1>6


-----------------------------------------------------------------------------
(* The invariant.                                                           *)

Marks == {"error", "payload", "info"}

Thread == [at : {"none", "born", "run", "ended"}, elapsed : 0 .. TimeUp, nap : BOOLEAN]

ConsoleTypeOK ==
    /\ work = [event |-> work.event, printed |-> work.printed, display |-> work.display,
               answers |-> work.answers]
    /\ work.display \in Displays \cup {0}
    /\ work.answers \in [Displays -> SUBSET Marks]
    /\ link \in Stages \cup {"none", "again", "nap"}
    /\ trying \in [elapsed : 0 .. TimeUp, fresh : BOOLEAN, nap : BOOLEAN]
    /\ wol \in [Displays -> Thread]
    /\ terminate \in BOOLEAN
    /\ \E S : heard \in Seq(S)
    /\ faults \in 0 .. MaxFaults
    /\ silent \subseteq Paired

\* Where the exchange with a display may be, for each kind of event.
Places ==
    [plain  |-> {"connect", "register", "ask", "close", "dismiss"},
     alert  |-> {"connect", "register", "create", "alert", "close", "dismiss"},
     button |-> {"connect", "register", "socket", "reconnect", "press", "close", "dismiss"},
     power  |-> {"connect", "register", "unblank", "state", "close", "dismiss", "part",
                 "again", "nap"}]

\* An exchange is with a display of the event that has a key.
Addressed ==
    /\ work = NoWork => link = "none"
    /\ work.display # 0 => work.display \in Matches(work.event)
    /\ link # "none" => work.display \in Paired \cap Displays /\ link \in Places[Kind]

\* Displays that come later have no answer yet, nor has the one at hand before it was asked.
\* Only a power-on is tried once more, and may have been answered and refused before.
Unanswered ==
    /\ \A d \in Displays : d > work.display => work.answers[d] = {}
    /\ link \notin {"none", "close", "dismiss"} =>
         IsPowerOn \/ work.answers[work.display] = {}

\* The exchange with the display at hand is over, but for its close.
Behind == link \in {"none", "dismiss", "part"} \/ (link = "close" /\ ~IsPowerOn)

\* No display of the event was passed over: each has an answer, if only an error.
Treated ==
    \A d \in Displays :
      /\ d < work.display \/ (d = work.display /\ Behind)
      /\ d \in Matches(work.event)
      => work.answers[d] # {}

\* A display that is said to have answered did what it was asked.
AnswersAreTrue ==
    \A d \in Displays :
      "payload" \in work.answers[d] =>
        \E i \in DOMAIN heard : heard[i] = [ask |-> work.event.ask, display |-> d]

\* While the first power-on is tried its thread is there, and has not waited for longer.
Waking ==
    link # "none" /\ IsPowerOn /\ ~terminate /\ work.display \in Wakeable =>
      LET thread == wol[work.display]
      IN  /\ thread.elapsed <= trying.elapsed
          /\ trying.elapsed < TimeUp => thread.at \in {"born", "run"}

ConsoleInv ==
    ConsoleTypeOK /\ Addressed /\ Unanswered /\ Treated /\ AnswersAreTrue /\ Waking

\* A display that has yet to do what the event asks.
Unasked(w) ==
    IF w.event.ask.on = "poweron" THEN "payload" \notin w.answers[w.display]
                                  ELSE w.answers[w.display] = {}

\* Within an event the displays are asked in their order and answers are not taken back; a
\* display does what it is asked in a step that leaves it no longer unasked, so it does it once.
AskedOnce ==
    [][/\ heard' # heard =>
            /\ work.display \in Matches(work.event) \cap Paired
            /\ heard' = Append(heard, [ask |-> work.event.ask, display |-> work.display])
            /\ Unasked(work) /\ work'.display = work.display /\ ~Unasked(work')
       /\ work # NoWork /\ work' # NoWork =>
            /\ work'.event = work.event /\ work.display <= work'.display
            /\ \A d \in Displays : work.answers[d] \subseteq work'.answers[d]]_vars

\* A result that has nothing but answers of displays means that each display the event is for
\* did what it asks.
SuccessMeansDone ==
    [][printed' # printed /\ Confirmed(Last(printed')) =>
         /\ Matches(work.event) # {}
         /\ \A d \in Matches(work.event) :
              \E i \in DOMAIN heard : heard[i] = [ask |-> work.event.ask, display |-> d]]_vars

-----------------------------------------------------------------------------
(* Displays, and the course of an exchange.                                 *)

LEMMA DisplaysAreNumbered == Displays \subseteq Nat \ {0}
  BY NamesAssumption DEF Displays

\* There is a closest display as long as there is one.
LEMMA ClosestIsThere ==
  ASSUME Further # {}
  PROVE  Closest \in Further /\ \A e \in Further : Closest <= e
<1>1. Further \in SUBSET Nat
  BY DisplaysAreNumbered DEF Further, Matches
<1>2. \E d \in Further : \A e \in Further : d <= e
  BY <1>1, LeastNumber
<1> QED
  BY <1>2 DEF Closest

\* Each stage is followed by the one its kind has next.
LEMMA Goes ==
  /\ Kind \in {"plain", "alert", "button", "power"}
  /\ Kind = "power" <=> IsPowerOn
  /\ Following("connect") = "register"
  /\ Following("register") = CASE Kind = "plain" -> "ask" [] Kind = "alert" -> "create"
                               [] Kind = "button" -> "socket" [] Kind = "power" -> "unblank"
  /\ Kind = "plain" => Following("ask") = "close"
  /\ Kind = "alert" => Following("create") = "alert" /\ Following("alert") = "close"
  /\ Kind = "button" => /\ Following("socket") = "reconnect"
                        /\ Following("reconnect") = "press" /\ Following("press") = "close"
  /\ Kind = "power" => Following("unblank") = "state"
<1>1. Kind \in {"plain", "alert", "button", "power"} /\ (Kind = "power" <=> IsPowerOn)
  BY DEF Kind
<1> DEFINE Place(s, stage) == CHOOSE i \in DOMAIN s : s[i] = stage
<1> DEFINE plain == <<"connect", "register", "ask", "close">>
<1> DEFINE alert == <<"connect", "register", "create", "alert", "close">>
<1> DEFINE button == <<"connect", "register", "socket", "reconnect", "press", "close">>
<1> DEFINE power == <<"connect", "register", "unblank", "state", "close">>
<1>2. /\ Place(plain, "connect") = 1 /\ Place(plain, "register") = 2 /\ Place(plain, "ask") = 3
      /\ plain[2] = "register" /\ plain[3] = "ask" /\ plain[4] = "close"
  OBVIOUS
<1>3. /\ Place(alert, "connect") = 1 /\ Place(alert, "register") = 2
      /\ Place(alert, "create") = 3 /\ Place(alert, "alert") = 4
      /\ alert[2] = "register" /\ alert[3] = "create" /\ alert[4] = "alert"
      /\ alert[5] = "close"
  OBVIOUS
<1>4. /\ Place(button, "connect") = 1 /\ Place(button, "register") = 2
      /\ Place(button, "socket") = 3 /\ Place(button, "reconnect") = 4
      /\ Place(button, "press") = 5
      /\ button[2] = "register" /\ button[3] = "socket" /\ button[4] = "reconnect"
      /\ button[5] = "press" /\ button[6] = "close"
  OBVIOUS
<1>5. /\ Place(power, "connect") = 1 /\ Place(power, "register") = 2
      /\ Place(power, "unblank") = 3
      /\ power[2] = "register" /\ power[3] = "unblank" /\ power[4] = "state"
  OBVIOUS
<1>6. /\ Kind = "plain" => Course = plain
      /\ Kind = "alert" => Course = alert
      /\ Kind = "button" => Course = button
      /\ Kind = "power" => Course = power
  BY DEF Course
<1>7. \A stage : Following(stage) = Course[1 + Place(Course, stage)]
  BY DEF Following
<1> HIDE DEF Place, plain, alert, button, power
<1>8. CASE Kind = "plain"
  BY <1>2, <1>6, <1>7, <1>8, <1>1
<1>9. CASE Kind = "alert"
  BY <1>3, <1>6, <1>7, <1>9, <1>1
<1>10. CASE Kind = "button"
  BY <1>4, <1>6, <1>7, <1>10, <1>1
<1>11. CASE Kind = "power"
  BY <1>5, <1>6, <1>7, <1>11, <1>1
<1> QED
  BY <1>1, <1>8, <1>9, <1>10, <1>11

-----------------------------------------------------------------------------
(* An exchange.                                                             *)

\* What a step of an exchange may do, whichever it is.
Proceeds ==
    /\ link # "none"
    /\ work' = [event |-> work.event, printed |-> work.printed, display |-> work.display,
                answers |-> work'.answers]
    /\ work'.answers \in [Displays -> SUBSET Marks]
    /\ \A d \in Displays : IF d = work.display THEN work.answers[d] \subseteq work'.answers[d]
                                               ELSE work'.answers[d] = work.answers[d]
    /\ link' = "none" \/ link' \in Places[Kind]
    /\ link' \notin {"none", "close", "dismiss"} =>
         IsPowerOn \/ work'.answers[work.display] = {}
    /\ link' \in {"none", "dismiss", "part"} \/ (link' = "close" /\ ~IsPowerOn) =>
         work'.answers[work.display] # {}
    /\ heard' = heard \/ heard' = Carried
    /\ heard' # heard => IF IsPowerOn THEN /\ "payload" \notin work.answers[work.display]
                                           /\ "payload" \in work'.answers[work.display]
                                      ELSE /\ work.answers[work.display] = {}
                                           /\ work'.answers[work.display] # {}
    /\ "payload" \in work'.answers[work.display] =>
         "payload" \in work.answers[work.display] \/ heard' = Carried
    /\ trying' \in [elapsed : 0 .. TimeUp, fresh : BOOLEAN, nap : BOOLEAN]
    /\ trying'.elapsed = trying.elapsed /\ wol' = wol
    /\ terminate' \in BOOLEAN /\ (terminate => terminate')
    /\ faults' \in 0 .. MaxFaults /\ silent' = silent

\* An answer is added to those of the display at hand.
LEMMA Marked ==
  ASSUME ConsoleTypeOK, work.display \in Displays, NEW mark \in Marks, Answer(mark)
  PROVE  /\ work' = [event |-> work.event, printed |-> work.printed, display |-> work.display,
                     answers |-> work'.answers]
         /\ work'.answers \in [Displays -> SUBSET Marks]
         /\ \A d \in Displays : d # work.display => work'.answers[d] = work.answers[d]
         /\ work'.answers[work.display] = work.answers[work.display] \cup {mark}
<1> DEFINE w == [event |-> work.event, printed |-> work.printed, display |-> work.display,
                 answers |-> work.answers]
<1>1. work = w /\ work.answers \in [Displays -> SUBSET Marks]
  BY DEF ConsoleTypeOK
<1>2. work' = [event |-> work.event, printed |-> work.printed, display |-> work.display,
               answers |-> [work.answers EXCEPT ![work.display] = @ \cup {mark}]]
  <2>1. work' = [w EXCEPT !.answers[work.display] = @ \cup {mark}]
    BY <1>1 DEF Answer
  <2> QED
    BY <2>1
<1> QED
  BY <1>1, <1>2

\* No answer is added.
LEMMA Unmarked ==
  ASSUME ConsoleTypeOK, work' = work
  PROVE  /\ work' = [event |-> work.event, printed |-> work.printed, display |-> work.display,
                     answers |-> work'.answers]
         /\ work'.answers \in [Displays -> SUBSET Marks]
         /\ \A d \in Displays : work'.answers[d] = work.answers[d]
  BY DEF ConsoleTypeOK

\* Where an exchange is, and what its display may have answered.
LEMMA Underway ==
  ASSUME ConsoleInv, link # "none"
  PROVE  /\ work.display \in Displays /\ work.display \in Paired /\ work # NoWork
         /\ work.display \in Matches(work.event)
         /\ link \in Places[Kind]
         /\ link \in Effect => ~IsPowerOn /\ work.answers[work.display] = {}
<1>1. work.display \in Displays /\ work.display \in Paired /\ link \in Places[Kind]
  BY DEF ConsoleInv, Addressed
<1>2. work.display # 0
  BY <1>1, DisplaysAreNumbered
<1>3. link \in Effect => ~IsPowerOn
  BY <1>1, Goes DEF Effect, Places
<1>4. link \in Effect => link \notin {"none", "close", "dismiss"}
  BY DEF Effect
<1> QED
  BY <1>1, <1>2, <1>3, <1>4 DEF ConsoleInv, Addressed, Unanswered

LEMMA FaultBounded ==
  ASSUME ConsoleTypeOK, Fault
  PROVE  faults' \in 0 .. MaxFaults
  BY ConsoleAssumption DEF ConsoleTypeOK, Fault

\* A step of an exchange keeps the invariant, and asks a display once.
LEMMA ProceedsKeeps ==
  ASSUME ConsoleInv, Proceeds
  PROVE  ConsoleInv'
<1> DEFINE d == work.display
<1>1. /\ d \in Displays /\ d \in Paired /\ d # 0 /\ d \in Matches(work.event)
      /\ link \in Places[Kind]
  BY Underway, DisplaysAreNumbered DEF Proceeds
<1>2. /\ work'.event = work.event /\ work'.display = d
      /\ Kind' = Kind /\ (IsPowerOn' <=> IsPowerOn)
      /\ Matches(work.event)' = Matches(work.event)
  BY DEF Proceeds, Kind, IsPowerOn, Matches
<1>3. ConsoleTypeOK'
  <2>1. /\ work' = [event |-> work'.event, printed |-> work'.printed,
                    display |-> work'.display, answers |-> work'.answers]
        /\ work'.answers \in [Displays -> SUBSET Marks]
    BY DEF Proceeds
  <2>2. link' \in Stages \cup {"none", "again", "nap"}
    <3>1. Places[Kind] \subseteq Stages \cup {"none", "again", "nap"}
      BY Goes DEF Places, Stages, Closings
    <3> QED
      BY <3>1 DEF Proceeds
  <2>3. \E S : heard' \in Seq(S)
    <3>1. PICK S : heard \in Seq(S)
      BY DEF ConsoleInv, ConsoleTypeOK
    <3> DEFINE x == [ask |-> work.event.ask, display |-> d]
    <3>2. heard \in Seq(S \cup {x}) /\ x \in S \cup {x}
      BY <3>1
    <3>3. Append(heard, x) \in Seq(S \cup {x})
      BY <3>2
    <3> QED
      BY <3>2, <3>3 DEF Proceeds, Carried
  <2> QED
    BY <1>1, <1>2, <2>1, <2>2, <2>3 DEF Proceeds, ConsoleInv, ConsoleTypeOK
<1>4. Addressed'
  <2>1. work' # NoWork
    BY <1>1, <1>2 DEF NoWork
  <2> QED
    BY <1>1, <1>2, <2>1 DEF Proceeds, Addressed
<1>5. Unanswered'
  <2>1. \A e \in Displays : e > d => work'.answers[e] = {}
    <3> SUFFICES ASSUME NEW e \in Displays, e > d PROVE work'.answers[e] = {}
      OBVIOUS
    <3>1. e # d
      BY <1>1, DisplaysAreNumbered
    <3> QED
      BY <3>1 DEF Proceeds, ConsoleInv, Unanswered
  <2> QED
    BY <1>2, <2>1 DEF Proceeds, Unanswered
<1>6. AnswersAreTrue'
  <2> SUFFICES ASSUME NEW e \in Displays, "payload" \in work'.answers[e]
               PROVE  \E i \in DOMAIN heard' : heard'[i] = [ask |-> work.event.ask, display |-> e]
    BY <1>2 DEF AnswersAreTrue
  <2>1. PICK S : heard \in Seq(S)
    BY DEF ConsoleInv, ConsoleTypeOK
  <2> DEFINE x == [ask |-> work.event.ask, display |-> d]
  <2>2. heard \in Seq(S \cup {x}) /\ x \in S \cup {x}
    BY <2>1
  <2> DEFINE n == Len(heard)
  <2>3. /\ n \in Nat /\ DOMAIN heard = 1 .. n
        /\ DOMAIN Append(heard, x) = 1 .. n + 1 /\ Append(heard, x)[n + 1] = x
        /\ \A i \in 1 .. n : Append(heard, x)[i] = heard[i]
    BY <2>2
  <2>4. heard' = heard \/ heard' = Append(heard, x)
    BY DEF Proceeds, Carried
  <2>5. CASE "payload" \in work.answers[e]
    <3>1. PICK i \in DOMAIN heard : heard[i] = [ask |-> work.event.ask, display |-> e]
      BY <2>5 DEF ConsoleInv, AnswersAreTrue
    <3> QED
      BY <2>3, <2>4, <3>1
  <2>6. CASE "payload" \notin work.answers[e]
    <3>1. e = d
      BY <2>6 DEF Proceeds
    <3>2. heard' = Append(heard, x)
      BY <2>6, <3>1 DEF Proceeds, Carried
    <3> QED
      BY <2>3, <3>1, <3>2
  <2> QED
    BY <2>5, <2>6
<1>7. Waking'
  BY <1>1, <1>2 DEF Proceeds, ConsoleInv, Waking
<1>8. Treated'
  <2>1. Behind' => work'.answers[d] # {}
    BY <1>2 DEF Proceeds, Behind
  <2>2. \A e \in Displays : e < d => e # d
    BY DisplaysAreNumbered
  <2>3. \A e \in Displays : e < d => work'.answers[e] = work.answers[e]
    BY <2>2 DEF Proceeds
  <2> QED
    BY <1>2, <2>1, <2>3 DEF ConsoleInv, Treated
<1> QED
  BY <1>3, <1>4, <1>5, <1>6, <1>7, <1>8 DEF ConsoleInv

LEMMA SucceedsProceeds ==
  ASSUME ConsoleInv, work # NoWork, Succeeds
  PROVE  Proceeds
<1> DEFINE d == work.display
<1>1. link # "none" /\ link \notin {"state", "close", "dismiss", "part"} /\ link \in Stages
  BY DEF Succeeds, Stages, Closings
<1>2. /\ d \in Displays /\ link \in Places[Kind] /\ ConsoleTypeOK
      /\ link \in Effect => ~IsPowerOn /\ work.answers[d] = {}
  BY <1>1, Underway DEF ConsoleInv
<1>3. link' \in Places[Kind] \ {"none", "dismiss", "part"}
  <2>1. link' = Following(link)
    BY DEF Succeeds
  <2>2. CASE Kind = "plain"
    BY <1>1, <1>2, <2>1, <2>2, Goes DEF Places
  <2>3. CASE Kind = "alert"
    BY <1>1, <1>2, <2>1, <2>3, Goes DEF Places
  <2>4. CASE Kind = "button"
    BY <1>1, <1>2, <2>1, <2>4, Goes DEF Places
  <2>5. CASE Kind = "power"
    <3>1. link \in {"connect", "register", "unblank"}
      BY <1>1, <1>2, <2>5 DEF Places, Stages, Closings
    <3> QED
      BY <2>1, <2>5, <3>1, Goes DEF Places
  <2> QED
    BY <2>2, <2>3, <2>4, <2>5, Goes
<1>4. /\ UNCHANGED <<trying, wol, terminate, silent, faults>>
      /\ IF link \in Effect
         THEN heard' = Carried /\ Answer(IF link = "alert" THEN "info" ELSE "payload")
         ELSE UNCHANGED <<heard, work>>
  BY DEF Succeeds
<1>5. IsPowerOn \/ work.answers[d] = {}
  BY <1>1 DEF ConsoleInv, Unanswered
<1>6. CASE link \in Effect
  <2> DEFINE mark == IF link = "alert" THEN "info" ELSE "payload"
  <2>1. mark \in Marks /\ Answer(mark) /\ heard' = Carried
    BY <1>4, <1>6 DEF Marks
  <2> HIDE DEF mark
  <2>2. /\ work' = [event |-> work.event, printed |-> work.printed, display |-> work.display,
                    answers |-> work'.answers]
        /\ work'.answers \in [Displays -> SUBSET Marks]
        /\ \A e \in Displays : e # d => work'.answers[e] = work.answers[e]
        /\ work'.answers[d] = work.answers[d] \cup {mark}
    BY <1>2, <2>1, Marked
  <2>3. link' = "close"
    <3>1. link' = Following(link)
      BY DEF Succeeds
    <3> QED
      BY <1>2, <1>6, <3>1, Goes DEF Places, Effect
  <2> QED
    BY <1>1, <1>2, <1>3, <1>4, <1>6, <2>1, <2>2, <2>3 DEF Proceeds, ConsoleTypeOK
<1>7. CASE link \notin Effect
  <2>1. work' = work /\ heard' = heard
    BY <1>4, <1>7
  <2>2. /\ work' = [event |-> work.event, printed |-> work.printed, display |-> work.display,
                    answers |-> work'.answers]
        /\ work'.answers \in [Displays -> SUBSET Marks]
        /\ \A e \in Displays : work'.answers[e] = work.answers[e]
    BY <1>2, <2>1, Unmarked
  <2>3. link' # "close"
    <3>1. link' = Following(link)
      BY DEF Succeeds
    <3>2. link \in {"connect", "register", "create", "socket", "reconnect", "unblank"}
      BY <1>1, <1>7 DEF Stages, Closings, Effect
    <3>3. CASE Kind = "plain"
      BY <1>2, <3>1, <3>2, <3>3, Goes DEF Places
    <3>4. CASE Kind = "alert"
      BY <1>2, <3>1, <3>2, <3>4, Goes DEF Places
    <3>5. CASE Kind = "button"
      BY <1>2, <3>1, <3>2, <3>5, Goes DEF Places
    <3>6. CASE Kind = "power"
      BY <1>2, <3>1, <3>2, <3>6, Goes DEF Places
    <3> QED
      BY <3>3, <3>4, <3>5, <3>6, Goes
  <2> QED
    BY <1>1, <1>2, <1>3, <1>4, <1>5, <2>1, <2>2, <2>3 DEF Proceeds, ConsoleTypeOK
<1> QED
  BY <1>6, <1>7

LEMMA PowerStateProceeds ==
  ASSUME ConsoleInv, work # NoWork, PowerState
  PROVE  Proceeds
<1> DEFINE d == work.display
<1>1. link = "state" /\ UNCHANGED <<trying, wol, terminate, silent>>
  BY DEF PowerState
<1>2. d \in Displays /\ link \in Places[Kind] /\ ConsoleTypeOK
  BY <1>1, Underway DEF ConsoleInv
<1>3. Kind = "power" /\ IsPowerOn /\ {"part", "close"} \subseteq Places[Kind]
  BY <1>1, <1>2, Goes DEF Places
<1>4. CASE /\ link' = "part" /\ Answer("payload") /\ faults' = faults
           /\ heard' = IF "payload" \in work.answers[d] THEN heard ELSE Carried
  <2>1. /\ work' = [event |-> work.event, printed |-> work.printed, display |-> work.display,
                    answers |-> work'.answers]
        /\ work'.answers \in [Displays -> SUBSET Marks]
        /\ \A e \in Displays : e # d => work'.answers[e] = work.answers[e]
        /\ work'.answers[d] = work.answers[d] \cup {"payload"}
    BY <1>2, <1>4, Marked DEF Marks
  <2>2. heard' # heard => "payload" \notin work.answers[d]
    BY <1>4
  <2>3. heard' = heard \/ heard' = Carried
    BY <1>4
  <2>4. "payload" \in work'.answers[d] => "payload" \in work.answers[d] \/ heard' = Carried
    BY <1>4
  <2> QED
    BY <1>1, <1>2, <1>3, <1>4, <2>1, <2>2, <2>3, <2>4 DEF Proceeds, ConsoleTypeOK
<1>5. CASE link' = "close" /\ Fault /\ UNCHANGED <<heard, work>>
  <2>1. /\ work' = [event |-> work.event, printed |-> work.printed, display |-> work.display,
                    answers |-> work'.answers]
        /\ work'.answers \in [Displays -> SUBSET Marks]
        /\ \A e \in Displays : work'.answers[e] = work.answers[e]
    BY <1>2, <1>5, Unmarked
  <2>2. faults' \in 0 .. MaxFaults
    BY <1>2, <1>5, FaultBounded
  <2> QED
    BY <1>1, <1>2, <1>3, <1>5, <2>1, <2>2 DEF Proceeds, ConsoleTypeOK
<1> QED
  BY <1>4, <1>5 DEF PowerState

LEMMA RefusedProceeds ==
  ASSUME ConsoleInv, work # NoWork, Refused
  PROVE  Proceeds
<1> DEFINE d == work.display
<1> DEFINE mark == IF link = "alert" THEN "info" ELSE "error"
<1>1. /\ link \in {"register", "ask", "create", "alert", "socket"}
      /\ link' = IF link = "register" THEN "dismiss" ELSE "close"
      /\ UNCHANGED <<heard, trying, wol, terminate, silent>> /\ Fault /\ Answer(mark)
      /\ mark \in {"info", "error"}
  BY DEF Refused
<1> HIDE DEF mark
<1>2. d \in Displays /\ link \in Places[Kind] /\ ConsoleTypeOK
  BY <1>1, Underway DEF ConsoleInv
<1>3. link' \in Places[Kind]
  BY <1>1, <1>2, Goes DEF Places
<1>4. /\ work' = [event |-> work.event, printed |-> work.printed, display |-> work.display,
                  answers |-> work'.answers]
      /\ work'.answers \in [Displays -> SUBSET Marks]
      /\ \A e \in Displays : e # d => work'.answers[e] = work.answers[e]
      /\ work'.answers[d] = work.answers[d] \cup {mark}
  BY <1>1, <1>2, Marked DEF Marks
<1>5. faults' \in 0 .. MaxFaults
  BY <1>1, <1>2, FaultBounded
<1> QED
  BY <1>1, <1>2, <1>3, <1>4, <1>5 DEF Proceeds, ConsoleTypeOK

\* The steps of a power-on that rests, and of any other that leaves.
LEMMA RestsStays ==
  ASSUME ConsoleTypeOK, IsPowerOn, Rests
  PROVE  /\ link' \in {"nap", "again"} /\ link' \in Places[Kind]
         /\ trying' \in [elapsed : 0 .. TimeUp, fresh : BOOLEAN, nap : BOOLEAN]
         /\ trying'.elapsed = trying.elapsed
  BY Goes DEF ConsoleTypeOK, Rests, Places

LEMMA ClosesProceeds ==
  ASSUME ConsoleInv, work # NoWork, Closes
  PROVE  Proceeds
<1> DEFINE d == work.display
<1>1. /\ link \in {"close", "dismiss", "part"} /\ UNCHANGED <<work, wol, heard, silent, faults>>
      /\ IF IsPowerOn /\ link = "close" THEN Rests /\ UNCHANGED terminate
                                        ELSE Leave /\ UNCHANGED trying
  BY DEF Closes, Closings
<1>2. d \in Displays /\ link \in Places[Kind] /\ ConsoleTypeOK
  BY <1>1, Underway DEF ConsoleInv
<1>3. /\ work' = [event |-> work.event, printed |-> work.printed, display |-> work.display,
                  answers |-> work'.answers]
      /\ work'.answers \in [Displays -> SUBSET Marks]
      /\ \A e \in Displays : work'.answers[e] = work.answers[e]
  BY <1>1, <1>2, Unmarked
<1>4. CASE IsPowerOn /\ link = "close"
  <2>1. /\ link' \in {"nap", "again"} /\ link' \in Places[Kind]
        /\ trying' \in [elapsed : 0 .. TimeUp, fresh : BOOLEAN, nap : BOOLEAN]
        /\ trying'.elapsed = trying.elapsed
    BY <1>1, <1>2, <1>4, RestsStays
  <2> QED
    BY <1>1, <1>2, <1>3, <1>4, <2>1 DEF Proceeds, ConsoleTypeOK
<1>5. CASE ~(IsPowerOn /\ link = "close")
  <2>1. link' = "none" /\ terminate' = (terminate \/ IsPowerOn) /\ trying' = trying
    BY <1>1, <1>5 DEF Leave
  <2>2. IsPowerOn \in BOOLEAN
    BY DEF IsPowerOn
  <2>3. work.answers[d] # {}
    BY <1>1, <1>2, <1>5, Underway DEF ConsoleInv, Treated, Behind
  <2> QED
    BY <1>1, <1>2, <1>3, <2>1, <2>2, <2>3 DEF Proceeds, ConsoleTypeOK
<1> QED
  BY <1>4, <1>5

LEMMA FailsProceeds ==
  ASSUME ConsoleInv, work # NoWork, Fails
  PROVE  Proceeds
<1> DEFINE d == work.display
<1>1. /\ link \in Stages /\ link # "none" /\ UNCHANGED <<wol, silent>> /\ Fault
      /\ heard' \in {heard} \cup (IF link \in Effect THEN {Carried} ELSE {})
  BY DEF Fails, Stages, Closings
<1>2. /\ d \in Displays /\ link \in Places[Kind] /\ ConsoleTypeOK
      /\ link \in Effect => ~IsPowerOn /\ work.answers[d] = {}
  BY <1>1, Underway DEF ConsoleInv
<1>3. faults' \in 0 .. MaxFaults
  BY <1>1, <1>2, FaultBounded
<1>4. CASE IsPowerOn
  <2>1. Rests /\ UNCHANGED <<terminate, work>> /\ heard' = heard
    BY <1>1, <1>2, <1>4 DEF Fails
  <2>2. /\ link' \in {"nap", "again"} /\ link' \in Places[Kind]
        /\ trying' \in [elapsed : 0 .. TimeUp, fresh : BOOLEAN, nap : BOOLEAN]
        /\ trying'.elapsed = trying.elapsed
    BY <1>2, <1>4, <2>1, RestsStays
  <2>3. /\ work' = [event |-> work.event, printed |-> work.printed, display |-> work.display,
                    answers |-> work'.answers]
        /\ work'.answers \in [Displays -> SUBSET Marks]
        /\ \A e \in Displays : work'.answers[e] = work.answers[e]
    BY <1>2, <2>1, Unmarked
  <2> QED
    BY <1>1, <1>2, <1>3, <1>4, <2>1, <2>2, <2>3 DEF Proceeds, ConsoleTypeOK
<1>5. CASE ~IsPowerOn
  <2>1. Leave /\ Answer("error") /\ UNCHANGED trying
    BY <1>5 DEF Fails
  <2>2. link' = "none" /\ terminate' = terminate
    BY <1>2, <1>5, <2>1 DEF Leave, ConsoleTypeOK
  <2>3. /\ work' = [event |-> work.event, printed |-> work.printed, display |-> work.display,
                    answers |-> work'.answers]
        /\ work'.answers \in [Displays -> SUBSET Marks]
        /\ \A e \in Displays : e # d => work'.answers[e] = work.answers[e]
        /\ work'.answers[d] = work.answers[d] \cup {"error"}
    BY <1>2, <2>1, Marked DEF Marks
  <2> QED
    BY <1>1, <1>2, <1>3, <1>5, <2>1, <2>2, <2>3 DEF Proceeds, ConsoleTypeOK
<1> QED
  BY <1>4, <1>5

LEMMA AttemptsProceed ==
  ASSUME ConsoleInv, work # NoWork, TriesAgain \/ GivesUp \/ Wakes
  PROVE  Proceeds
<1> DEFINE d == work.display
<1>1. link \in {"again", "nap"} /\ UNCHANGED <<wol, heard, silent, faults>>
  BY DEF TriesAgain, GivesUp, Wakes
<1>2. d \in Displays /\ link \in Places[Kind] /\ ConsoleTypeOK
  BY <1>1, Underway DEF ConsoleInv
<1>3. IsPowerOn /\ {"connect", "again"} \subseteq Places[Kind]
  BY <1>1, <1>2, Goes DEF Places
<1>4. CASE TriesAgain \/ Wakes
  <2>1. /\ link' \in {"connect", "again"} /\ UNCHANGED <<work, terminate>>
        /\ trying' = trying \/ trying' = [trying EXCEPT !.fresh = TRUE]
    BY <1>4 DEF TriesAgain, Wakes
  <2>2. /\ work' = [event |-> work.event, printed |-> work.printed, display |-> work.display,
                    answers |-> work'.answers]
        /\ work'.answers \in [Displays -> SUBSET Marks]
        /\ \A e \in Displays : work'.answers[e] = work.answers[e]
    BY <1>2, <2>1, Unmarked
  <2> QED
    BY <1>1, <1>2, <1>3, <2>1, <2>2 DEF Proceeds, ConsoleTypeOK
<1>5. CASE GivesUp
  <2>1. /\ link' = "none" /\ terminate' = TRUE /\ trying' = trying
        /\ IF "payload" \in work.answers[d] THEN work' = work ELSE Answer("error")
    BY <1>3, <1>5 DEF GivesUp, Leave
  <2>2. CASE "payload" \in work.answers[d]
    <3>1. /\ work' = [event |-> work.event, printed |-> work.printed, display |-> work.display,
                      answers |-> work'.answers]
          /\ work'.answers \in [Displays -> SUBSET Marks]
          /\ \A e \in Displays : work'.answers[e] = work.answers[e]
      BY <1>2, <2>1, <2>2, Unmarked
    <3> QED
      BY <1>1, <1>2, <1>3, <2>1, <2>2, <3>1 DEF Proceeds, ConsoleTypeOK
  <2>3. CASE "payload" \notin work.answers[d]
    <3>1. /\ work' = [event |-> work.event, printed |-> work.printed, display |-> work.display,
                      answers |-> work'.answers]
          /\ work'.answers \in [Displays -> SUBSET Marks]
          /\ \A e \in Displays : e # d => work'.answers[e] = work.answers[e]
          /\ work'.answers[d] = work.answers[d] \cup {"error"}
      BY <1>2, <2>1, <2>3, Marked DEF Marks
    <3> QED
      BY <1>1, <1>2, <1>3, <2>1, <3>1 DEF Proceeds, ConsoleTypeOK
  <2> QED
    BY <2>2, <2>3
<1> QED
  BY <1>4, <1>5

LEMMA ExchangeProceeds ==
  ASSUME ConsoleInv, Exchange
  PROVE  Proceeds
  BY SucceedsProceeds, PowerStateProceeds, RefusedProceeds, ClosesProceeds, FailsProceeds,
     AttemptsProceed DEF Exchange

-----------------------------------------------------------------------------
(* The other steps.                                                         *)

LEMMA StartRight ==
  ASSUME NEW argv, Start(argv)
  PROVE  ConsoleInv
<1>1. ConsoleTypeOK
  <2>1. <<>> \in Seq({})
    OBVIOUS
  <2>2. heard \in Seq({})
    BY <2>1 DEF Start
  <2>3. TimeUp \in Nat /\ MaxFaults \in Nat
    BY ConsoleAssumption DEF TimeUp
  <2>4. 0 \in 0 .. TimeUp /\ 0 \in 0 .. MaxFaults
    BY <2>3
  <2>5. wol \in [Displays -> Thread]
    BY <2>4 DEF Start, NoThread, Thread
  <2>6. trying \in [elapsed : 0 .. TimeUp, fresh : BOOLEAN, nap : BOOLEAN]
    BY <2>4 DEF Start
  <2>7. /\ work = [event |-> work.event, printed |-> work.printed, display |-> work.display,
                   answers |-> work.answers]
        /\ work.display = 0 /\ work.answers \in [Displays -> SUBSET Marks]
    BY DEF Start, NoWork, NoAnswers
  <2> QED
    BY <2>2, <2>4, <2>5, <2>6, <2>7 DEF Start, ConsoleTypeOK
<1>2. Addressed /\ Unanswered /\ AnswersAreTrue /\ Waking
  BY DEF Start, Addressed, Unanswered, AnswersAreTrue, Waking, NoWork, NoAnswers
<1>3. Treated
  BY DisplaysAreNumbered DEF Start, Treated, NoWork
<1> QED
  BY <1>1, <1>2, <1>3 DEF ConsoleInv

\* Between exchanges nothing is said of the display at hand.
LEMMA Between ==
  ASSUME ConsoleTypeOK', link' = "none",
         work'.display # 0 => work'.display \in Matches(work'.event),
         \A d \in Displays : d > work'.display => work'.answers[d] = {},
         \A d \in Displays :
           d <= work'.display /\ d \in Matches(work'.event) => work'.answers[d] # {},
         AnswersAreTrue'
  PROVE  ConsoleInv'
<1>1. Matches(work.event)' = Matches(work'.event)
  BY DEF Matches
<1>2. Treated'
  <2>1. work'.display \in Nat
    BY DisplaysAreNumbered DEF ConsoleTypeOK
  <2> QED
    BY <1>1, <2>1, DisplaysAreNumbered DEF Treated
<1> QED
  BY <1>1, <1>2 DEF ConsoleInv, Addressed, Unanswered, Waking

LEMMA ReadArgumentsKeeps ==
  ASSUME ConsoleInv, ReadArguments
  PROVE  ConsoleInv'
<1>1. /\ work = NoWork /\ link = "none"
      /\ UNCHANGED <<link, trying, wol, terminate, heard, silent, faults>>
  BY DEF ReadArguments, ConsoleInv, Addressed
<1>2. PICK e, p : work' = [NoWork EXCEPT !.event = e, !.printed = p] \/ work' = NoWork
  BY DEF ReadArguments
<1>3. /\ work' = [event |-> work'.event, printed |-> work'.printed, display |-> 0,
                  answers |-> NoAnswers]
      /\ work'.display = 0 /\ work'.answers = NoAnswers
  <2>1. CASE work' = NoWork
    BY <2>1 DEF NoWork
  <2>2. CASE work' = [NoWork EXCEPT !.event = e, !.printed = p]
    <3>1. work' = [event |-> e, printed |-> p, display |-> 0, answers |-> NoAnswers]
      BY <2>2 DEF NoWork
    <3> QED
      BY <3>1
  <2> QED
    BY <1>2, <2>1, <2>2
<1>4. ConsoleTypeOK'
  BY <1>1, <1>3 DEF ConsoleInv, ConsoleTypeOK, NoAnswers
<1>5. \A d \in Displays : work'.answers[d] = {}
  BY <1>3 DEF NoAnswers
<1>6. \A d \in Displays : ~(d <= work'.display)
  BY <1>3, DisplaysAreNumbered
<1> QED
  BY <1>1, <1>3, <1>4, <1>5, <1>6, Between DEF AnswersAreTrue

LEMMA PrintAnswersKeeps ==
  ASSUME ConsoleInv, PrintAnswers
  PROVE  ConsoleInv'
<1>1. /\ work' = NoWork /\ link = "none"
      /\ UNCHANGED <<link, trying, wol, terminate, heard, silent, faults>>
  BY DEF PrintAnswers, At
<1>2. ConsoleTypeOK'
  BY <1>1 DEF ConsoleInv, ConsoleTypeOK, NoWork, NoAnswers
<1>3. work'.display = 0 /\ \A d \in Displays : work'.answers[d] = {}
  BY <1>1 DEF NoWork, NoAnswers
<1>4. \A d \in Displays : ~(d <= work'.display)
  BY <1>3, DisplaysAreNumbered
<1> QED
  BY <1>1, <1>2, <1>3, <1>4, Between DEF AnswersAreTrue

\* The next display has no answer so far, and is later than the last.
LEMMA NextOne ==
  ASSUME ConsoleInv, NextDisplay
  PROVE  /\ Closest \in Displays /\ Closest \in Matches(work.event) /\ Closest > work.display
         /\ \A e \in Matches(work.event) : e > work.display => Closest <= e
         /\ work.display \in Nat /\ work.answers[Closest] = {}
         /\ work' = [event |-> work.event, printed |-> work.printed, display |-> Closest,
                     answers |-> work'.answers]
         /\ work'.answers = [work.answers EXCEPT
                               ![Closest] = IF Closest \in Paired THEN {} ELSE {"error"}]
<1> DEFINE w == [event |-> work.event, printed |-> work.printed, display |-> work.display,
                 answers |-> work.answers]
<1> DEFINE mark == IF Closest \in Paired THEN {} ELSE {"error"}
<1>1. Closest \in Further
  BY ClosestIsThere DEF NextDisplay
<1>2. /\ Closest \in Displays /\ Closest \in Matches(work.event) /\ Closest > work.display
      /\ \A e \in Matches(work.event) : e > work.display => Closest <= e
  BY <1>1, ClosestIsThere DEF NextDisplay, Further, Matches
<1>3. work = w /\ work.display \in Nat
  BY DisplaysAreNumbered DEF ConsoleInv, ConsoleTypeOK
<1>4. work' = [w EXCEPT !.display = Closest, !.answers[Closest] = mark]
  BY <1>3 DEF NextDisplay
<1> HIDE DEF mark
<1>5. work' = [event |-> work.event, printed |-> work.printed, display |-> Closest,
               answers |-> [work.answers EXCEPT ![Closest] = mark]]
  BY <1>4
<1> QED
  BY <1>2, <1>3, <1>5 DEF ConsoleInv, Unanswered, mark

LEMMA NextDisplayKeeps ==
  ASSUME ConsoleInv, NextDisplay
  PROVE  ConsoleInv'
<1> DEFINE d == Closest
<1> DEFINE mark == IF Closest \in Paired THEN {} ELSE {"error"}
<1>1. /\ d \in Displays /\ d \in Matches(work.event) /\ d > work.display
      /\ \A e \in Matches(work.event) : e > work.display => d <= e
      /\ work.display \in Nat /\ work.answers[d] = {}
      /\ work' = [event |-> work.event, printed |-> work.printed, display |-> d,
                  answers |-> work'.answers]
      /\ work'.answers = [work.answers EXCEPT ![d] = mark]
  BY NextOne
<1>2. mark \in {{}, {"error"}} /\ (d \in Paired => mark = {})
  OBVIOUS
<1>3. /\ link = "none" /\ UNCHANGED <<terminate, heard, silent, faults>> /\ ConsoleTypeOK
      /\ IF d \in Paired
         THEN /\ link' = IF IsPowerOn THEN "again" ELSE "connect"
              /\ trying' = [elapsed |-> 0, fresh |-> FALSE, nap |-> FALSE]
              /\ wol' = IF IsPowerOn THEN [wol EXCEPT ![d] = [NoThread EXCEPT !.at = "born"]]
                                     ELSE wol
         ELSE UNCHANGED <<link, trying, wol>>
  BY DEF NextDisplay, At, ConsoleInv
<1> HIDE DEF d, mark
<1>4. /\ work'.event = work.event /\ work'.display = d
      /\ Kind' = Kind /\ (IsPowerOn' <=> IsPowerOn)
      /\ Matches(work.event)' = Matches(work.event)
  BY <1>1 DEF Kind, IsPowerOn, Matches
<1>5. /\ work.answers \in [Displays -> SUBSET Marks] /\ work'.answers \in [Displays -> SUBSET Marks]
      /\ work'.answers[d] = mark
      /\ \A e \in Displays : e # d => work'.answers[e] = work.answers[e]
  BY <1>1, <1>2, <1>3 DEF ConsoleTypeOK, Marks
<1>6. d \in Nat \ {0} /\ Displays \subseteq Nat
  BY <1>1, DisplaysAreNumbered
<1>7. TimeUp \in Nat
  BY ConsoleAssumption DEF TimeUp
<1>8. wol' \in [Displays -> Thread]
  <2> DEFINE born == [NoThread EXCEPT !.at = "born"]
  <2>1. born \in Thread
    <3>1. 0 \in 0 .. TimeUp
      BY <1>7
    <3>2. NoThread \in Thread
      BY <3>1 DEF Thread, NoThread
    <3> QED
      BY <3>2 DEF Thread
  <2> HIDE DEF born
  <2>2. wol' = wol \/ wol' = [wol EXCEPT ![d] = born]
    BY <1>3 DEF born
  <2> QED
    BY <1>1, <1>3, <2>1, <2>2 DEF ConsoleTypeOK
<1>9. ConsoleTypeOK'
  <2>1. link' \in Stages \cup {"none", "again", "nap"}
    <3>1. link' \in {"none", "again", "connect"}
      BY <1>3
    <3> QED
      BY <3>1 DEF Stages
  <2>2. trying' \in [elapsed : 0 .. TimeUp, fresh : BOOLEAN, nap : BOOLEAN]
    <3>1. trying' = trying \/ trying' = [elapsed |-> 0, fresh |-> FALSE, nap |-> FALSE]
      BY <1>3
    <3>2. 0 \in 0 .. TimeUp
      BY <1>7
    <3>3. [elapsed |-> 0, fresh |-> FALSE, nap |-> FALSE]
            \in [elapsed : 0 .. TimeUp, fresh : BOOLEAN, nap : BOOLEAN]
      BY <3>2
    <3>4. trying \in [elapsed : 0 .. TimeUp, fresh : BOOLEAN, nap : BOOLEAN]
      BY <1>3 DEF ConsoleTypeOK
    <3> QED
      BY <3>1, <3>3, <3>4
  <2> QED
    BY <1>1, <1>3, <1>4, <1>5, <1>8, <2>1, <2>2 DEF ConsoleTypeOK
<1>10. \A e \in Displays : e > d => work'.answers[e] = {}
  <2> SUFFICES ASSUME NEW e \in Displays, e > d PROVE work'.answers[e] = {}
    OBVIOUS
  <2>1. e > work.display /\ e # d
    BY <1>1, <1>6
  <2> QED
    BY <1>5, <2>1 DEF ConsoleInv, Unanswered
<1>11. AnswersAreTrue'
  <2>1. \A e \in Displays : "payload" \in work'.answers[e] => "payload" \in work.answers[e]
    BY <1>2, <1>5
  <2> QED
    BY <1>3, <1>4, <2>1 DEF ConsoleInv, AnswersAreTrue
<1>12. \A e \in Displays : e < d /\ e \in Matches(work.event) => work'.answers[e] # {}
  <2> SUFFICES ASSUME NEW e \in Displays, e < d, e \in Matches(work.event)
               PROVE  work'.answers[e] # {}
    OBVIOUS
  <2>1. e \in Nat /\ e # d /\ (e < work.display \/ e = work.display)
    BY <1>1, <1>6
  <2>2. work.answers[e] # {}
    BY <1>3, <2>1 DEF ConsoleInv, Treated, Behind
  <2> QED
    BY <1>5, <2>1, <2>2
<1>13. CASE d \in Paired
  <2>1. Addressed'
    <3>1. link' \in Places[Kind]
      BY <1>3, <1>13, Goes DEF Places
    <3>2. work' # NoWork
      BY <1>4, <1>6 DEF NoWork
    <3> QED
      BY <1>1, <1>4, <1>13, <3>1, <3>2 DEF Addressed
  <2>2. Unanswered'
    BY <1>2, <1>4, <1>5, <1>10, <1>13 DEF Unanswered
  <2>3. Waking'
    <3> SUFFICES ASSUME IsPowerOn PROVE Waking'
      BY <1>4 DEF Waking
    <3>1. /\ wol' = [wol EXCEPT ![d] = [NoThread EXCEPT !.at = "born"]]
          /\ trying'.elapsed = 0
      BY <1>3, <1>13
    <3>2. wol'[d].at = "born" /\ wol'[d].elapsed = 0
      BY <1>1, <1>3, <3>1 DEF ConsoleTypeOK, NoThread
    <3> QED
      BY <1>4, <3>1, <3>2 DEF Waking
  <2>4. Treated'
    <3>1. ~Behind'
      BY <1>3, <1>4, <1>13 DEF Behind
    <3> QED
      BY <1>4, <1>12, <3>1 DEF Treated
  <2> QED
    BY <1>9, <1>11, <2>1, <2>2, <2>3, <2>4 DEF ConsoleInv
<1>14. CASE d \notin Paired
  <2>1. link' = "none"
    BY <1>3, <1>14
  <2>2. mark # {}
    BY <1>14 DEF mark, d
  <2>3. \A e \in Displays : e <= d /\ e \in Matches(work.event) => work'.answers[e] # {}
    BY <1>5, <1>6, <1>12, <2>2
  <2> QED
    BY <1>1, <1>4, <1>9, <1>10, <1>11, <2>1, <2>3, Between
<1> QED
  BY <1>13, <1>14

LEMMA TickKeeps ==
  ASSUME ConsoleInv, Tick
  PROVE  ConsoleInv'
<1>1. /\ trying' = [elapsed |-> Later(trying.elapsed), fresh |-> FALSE, nap |-> FALSE]
      /\ wol' = [d \in Displays |->
                   IF wol[d].at = "run"
                   THEN [wol[d] EXCEPT !.elapsed = Later(@), !.nap = FALSE] ELSE wol[d]]
      /\ UNCHANGED <<work, link, terminate, heard, silent, faults>> /\ link # "none"
      /\ ConsoleTypeOK
  BY DEF Tick, Trying, ConsoleInv
<1>2. /\ TimeUp \in Nat /\ trying.elapsed \in 0 .. TimeUp
      /\ \A n \in 0 .. TimeUp : /\ Later(n) \in 0 .. TimeUp /\ n <= Later(n)
                                /\ \A m \in 0 .. TimeUp : m <= n => Later(m) <= Later(n)
  <2>1. TimeUp \in Nat /\ trying.elapsed \in 0 .. TimeUp
    <3>1. TimeUp \in Nat
      BY ConsoleAssumption DEF TimeUp
    <3> QED
      BY <1>1, <3>1 DEF ConsoleTypeOK
  <2>2. ASSUME NEW n \in 0 .. TimeUp, NEW m \in 0 .. TimeUp
        PROVE  Later(n) \in 0 .. TimeUp /\ n <= Later(n) /\ (m <= n => Later(m) <= Later(n))
    BY <2>1 DEF Later
  <2> QED
    BY <2>1, <2>2
<1>3. \A d \in Displays :
        /\ wol[d] \in Thread /\ wol'[d] \in Thread /\ wol'[d].at = wol[d].at
        /\ wol'[d].elapsed \in {wol[d].elapsed, Later(wol[d].elapsed)}
  <2> SUFFICES ASSUME NEW d \in Displays
               PROVE  /\ wol[d] \in Thread /\ wol'[d] \in Thread /\ wol'[d].at = wol[d].at
                      /\ wol'[d].elapsed \in {wol[d].elapsed, Later(wol[d].elapsed)}
    OBVIOUS
  <2>1. wol[d] \in Thread
    BY <1>1 DEF ConsoleTypeOK
  <2>2. Later(wol[d].elapsed) \in 0 .. TimeUp
    BY <1>2, <2>1 DEF Thread
  <2> QED
    BY <1>1, <2>1, <2>2 DEF Thread
<1>4. wol' \in [Displays -> Thread] /\ trying'.elapsed = Later(trying.elapsed)
  BY <1>1, <1>3
<1>5. ConsoleTypeOK'
  BY <1>1, <1>2, <1>4 DEF ConsoleTypeOK
<1>6. /\ Addressed' /\ Unanswered' /\ Treated' /\ AnswersAreTrue'
      /\ IsPowerOn' <=> IsPowerOn
  BY <1>1 DEF ConsoleInv, Addressed, Unanswered, Treated, Behind, AnswersAreTrue, Kind, IsPowerOn,
              Matches
<1>7. Waking'
  <2> DEFINE d == work.display
  <2> SUFFICES ASSUME IsPowerOn, ~terminate, d \in Wakeable
               PROVE  /\ wol'[d].elapsed <= trying'.elapsed
                      /\ trying'.elapsed < TimeUp => wol'[d].at \in {"born", "run"}
    BY <1>1, <1>6 DEF Waking
  <2>1. d \in Displays
    BY <1>1, Underway
  <2>2. /\ wol[d].elapsed <= trying.elapsed
        /\ trying.elapsed < TimeUp => wol[d].at \in {"born", "run"}
    BY <1>1 DEF ConsoleInv, Waking
  <2>3. wol[d].elapsed \in 0 .. TimeUp
    BY <1>3, <2>1 DEF Thread
  <2>4. wol[d].elapsed <= Later(trying.elapsed)
        /\ Later(wol[d].elapsed) <= Later(trying.elapsed)
    BY <1>2, <2>2, <2>3
  <2>5. Later(trying.elapsed) < TimeUp => trying.elapsed < TimeUp
    BY <1>2
  <2> QED
    BY <1>3, <1>4, <2>1, <2>2, <2>4, <2>5
<1> QED
  BY <1>5, <1>6, <1>7 DEF ConsoleInv

LEMMA WolSendsKeeps ==
  ASSUME ConsoleInv, NEW e \in Displays, WolSends(e)
  PROVE  ConsoleInv'
<1> DEFINE on == MayWake(e)
<1>1. /\ wol' = [wol EXCEPT ![e].at = IF on THEN "run" ELSE "ended", ![e].nap = on]
      /\ UNCHANGED <<work, link, trying, terminate, heard, silent, faults>>
      /\ ConsoleTypeOK /\ wol[e] \in Thread
  BY DEF WolSends, ConsoleInv, ConsoleTypeOK
<1>2. on \in BOOLEAN /\ (on <=> e \in Wakeable /\ ~terminate /\ wol[e].elapsed < TimeUp)
  BY DEF MayWake
<1> HIDE DEF on
<1>3. /\ wol' = [wol EXCEPT ![e] = [wol[e] EXCEPT !.at = IF on THEN "run" ELSE "ended", !.nap = on]]
  BY <1>1 DEF ConsoleTypeOK
<1>4. /\ wol'[e] \in Thread /\ wol'[e].elapsed = wol[e].elapsed
      /\ on => wol'[e].at = "run"
      /\ \A d \in Displays : d # e => wol'[d] = wol[d]
  BY <1>1, <1>2, <1>3 DEF ConsoleTypeOK, Thread
<1>5. wol' \in [Displays -> Thread]
  BY <1>1, <1>3, <1>4 DEF ConsoleTypeOK
<1>6. ConsoleTypeOK'
  BY <1>1, <1>5 DEF ConsoleTypeOK
<1>7. /\ Addressed' /\ Unanswered' /\ Treated' /\ AnswersAreTrue'
      /\ IsPowerOn' <=> IsPowerOn
  BY <1>1 DEF ConsoleInv, Addressed, Unanswered, Treated, Behind, AnswersAreTrue, Kind, IsPowerOn,
              Matches
<1>8. Waking'
  <2> DEFINE d == work.display
  <2> SUFFICES ASSUME link # "none", IsPowerOn, ~terminate, d \in Wakeable
               PROVE  /\ wol'[d].elapsed <= trying.elapsed
                      /\ trying.elapsed < TimeUp => wol'[d].at \in {"born", "run"}
    BY <1>1, <1>7 DEF Waking
  <2>1. d \in Displays
    BY Underway
  <2>2. /\ wol[d].elapsed <= trying.elapsed
        /\ trying.elapsed < TimeUp => wol[d].at \in {"born", "run"}
    BY DEF ConsoleInv, Waking
  <2>3. wol[d].elapsed \in 0 .. TimeUp /\ trying.elapsed \in 0 .. TimeUp /\ TimeUp \in Nat
    BY <1>1, <2>1, ConsoleAssumption DEF ConsoleTypeOK, Thread, TimeUp
  <2>4. CASE d = e
    <3>1. trying.elapsed < TimeUp => on
      BY <1>2, <2>2, <2>3, <2>4
    <3> QED
      BY <1>4, <2>2, <2>4, <3>1
  <2>5. CASE d # e
    BY <1>4, <2>1, <2>2, <2>5
  <2> QED
    BY <2>4, <2>5
<1> QED
  BY <1>6, <1>7, <1>8 DEF ConsoleInv

\* The daemon's steps leave the program alone.
LEMMA ApartKeeps ==
  ASSUME ConsoleInv, UNCHANGED console
  PROVE  ConsoleInv'
  BY DEF ConsoleInv, console, ConsoleTypeOK, Addressed, Unanswered, Treated, Behind,
         AnswersAreTrue, Waking, Kind, IsPowerOn, Matches

LEMMA ConsoleStep == ConsoleInv /\ [Next]_vars => ConsoleInv'
<1> SUFFICES ASSUME ConsoleInv, [Next]_vars PROVE ConsoleInv'
  OBVIOUS
<1>1. CASE UNCHANGED console
  BY <1>1, ApartKeeps
<1>2. CASE ConsoleNext
  <2>1. CASE ReadArguments
    BY <2>1, ReadArgumentsKeeps
  <2>2. CASE NextDisplay
    BY <2>2, NextDisplayKeeps
  <2>3. CASE PrintAnswers
    BY <2>3, PrintAnswersKeeps
  <2>4. CASE Exchange
    BY <2>4, ExchangeProceeds, ProceedsKeeps
  <2>5. CASE Tick
    BY <2>5, TickKeeps
  <2>6. CASE \E d \in Displays : WolSends(d)
    BY <2>6, WolSendsKeeps
  <2> QED
    BY <1>2, <2>1, <2>2, <2>3, <2>4, <2>5, <2>6 DEF ConsoleNext
<1> QED
  BY <1>1, <1>2 DEF Next, Sent, Daemon, CommandLineProgram, vars

-----------------------------------------------------------------------------
(* The theorems.                                                            *)

\* Between any two steps of the command line program the exchange with a display is where its
\* kind may be, answers are those of displays that did what they were asked, and the
\* thread of the first power-on has not waited for longer than the loop of PowerOnDevice.
THEOREM ConsoleIsRight == Spec => []ConsoleInv
<1>1. Init => ConsoleInv
  BY StartRight DEF Init
<1> QED
  BY <1>1, ConsoleStep, PTL DEF Spec

\* The thread that PowerOnDevice starts lasts as long as its loop may try once more,
\* whatever fails in between, for a display that a magic packet can be sent to.
THEOREM ThreadLasts == Spec => []WakesWhileTrying
<1>1. ConsoleInv => WakesWhileTrying
  BY DEF ConsoleInv, Waking, WakesWhileTrying, Trying
<1> QED
  BY <1>1, ConsoleIsRight, PTL

\* A display does what an event asks once at most, in the order of the displays, also when an
\* attempt to power it on is made again after it was answered.
THEOREM DisplaysDoItOnce == Spec => AskedOnce
<1> DEFINE A ==
      /\ heard' # heard =>
           /\ work.display \in Matches(work.event) \cap Paired
           /\ heard' = Append(heard, [ask |-> work.event.ask, display |-> work.display])
           /\ Unasked(work) /\ work'.display = work.display /\ ~Unasked(work')
      /\ work # NoWork /\ work' # NoWork =>
           /\ work'.event = work.event /\ work.display <= work'.display
           /\ \A d \in Displays : work.answers[d] \subseteq work'.answers[d]
<1>1. ConsoleInv /\ [Next]_vars => A
  <2> SUFFICES ASSUME ConsoleInv, [Next]_vars PROVE A
    OBVIOUS
  <2>1. work.display \in Nat
    BY DisplaysAreNumbered DEF ConsoleInv, ConsoleTypeOK
  <2>2. CASE UNCHANGED <<work, heard>>
    BY <2>1, <2>2
  <2>3. CASE ReadArguments \/ PrintAnswers
    BY <2>3 DEF ReadArguments, PrintAnswers
  <2>4. CASE NextDisplay
    <3>1. heard' = heard
      BY <2>4 DEF NextDisplay
    <3>2. /\ Closest \in Displays /\ Closest > work.display /\ work.answers[Closest] = {}
          /\ work' = [event |-> work.event, printed |-> work.printed, display |-> Closest,
                      answers |-> work'.answers]
          /\ work'.answers = [work.answers EXCEPT
                                ![Closest] = IF Closest \in Paired THEN {} ELSE {"error"}]
      BY <2>4, NextOne
    <3>3. work'.event = work.event /\ work'.display = Closest /\ Closest \in Nat
      BY <3>2, DisplaysAreNumbered
    <3>4. work.answers \in [Displays -> SUBSET Marks]
      BY DEF ConsoleInv, ConsoleTypeOK
    <3>5. \A d \in Displays : work.answers[d] \subseteq work'.answers[d]
      BY <3>2, <3>4
    <3> QED
      BY <2>1, <3>1, <3>2, <3>3, <3>5
  <2>5. CASE Exchange
    <3>1. Proceeds
      BY <2>5, ExchangeProceeds
    <3>2. work.display \in Displays /\ work.display \in Paired \cap Matches(work.event)
      BY <3>1, Underway DEF Proceeds
    <3>3. work'.event = work.event /\ work'.display = work.display
      BY <3>1 DEF Proceeds
    <3>4. \A d \in Displays : work.answers[d] \subseteq work'.answers[d]
      BY <3>1 DEF Proceeds
    <3>5. heard' # heard => heard' = Carried /\ Unasked(work) /\ ~Unasked(work')
      BY <3>1, <3>3 DEF Proceeds, Unasked, IsPowerOn
    <3> QED
      BY <2>1, <3>2, <3>3, <3>4, <3>5 DEF Carried
  <2>6. CASE Tick \/ \E d \in Displays : WolSends(d)
    BY <2>2, <2>6 DEF Tick, WolSends
  <2> QED
    BY <2>2, <2>3, <2>4, <2>5, <2>6
       DEF Next, Sent, Daemon, CommandLineProgram, ConsoleNext, vars, console
<1>2. [][A]_vars => AskedOnce
  BY PTL DEF AskedOnce
<1> QED
  BY <1>1, <1>2, ConsoleIsRight, PTL DEF Spec

\* What is printed is a list.
LEMMA PrintedIsList == Spec => [](\E S : printed \in Seq(S))
<1>1. Init => \E S : printed \in Seq(S)
  <2>1. <<>> \in Seq({})
    OBVIOUS
  <2> QED
    BY <2>1 DEF Init, Start
<1>2. [Next]_vars => printed' = printed \/ \E result : printed' = Append(printed, result)
  BY DEF Next, vars, console, Sent, Daemon, CommandLineProgram, ConsoleNext, ReadArguments,
         NextDisplay, PrintAnswers, PrintIf, Exchange, Succeeds, PowerState, Refused, Closes,
         Fails, TriesAgain, GivesUp, Wakes, Tick, WolSends
<1>3. (\E S : printed \in Seq(S)) /\ [Next]_vars => (\E S : printed \in Seq(S))'
  <2> SUFFICES ASSUME NEW S, printed \in Seq(S), [Next]_vars
               PROVE  \E U : printed' \in Seq(U)
    OBVIOUS
  <2>1. CASE printed' = printed
    BY <2>1
  <2>2. CASE \E result : printed' = Append(printed, result)
    <3>1. PICK result : printed' = Append(printed, result)
      BY <2>2
    <3>2. printed \in Seq(S \cup {result}) /\ result \in S \cup {result}
      OBVIOUS
    <3>3. Append(printed, result) \in Seq(S \cup {result})
      BY <3>2
    <3> QED
      BY <3>1, <3>3
  <2> QED
    BY <1>2, <2>1, <2>2
<1> QED
  BY <1>1, <1>3, PTL DEF Spec

\* Where the command line program prints nothing but answers, each display that the command is
\* for did what it asks, whatever was refused, failed or silent before.
THEOREM SuccessIsTrue == Spec => SuccessMeansDone
<1> DEFINE A ==
      printed' # printed /\ Confirmed(Last(printed')) =>
        /\ Matches(work.event) # {}
        /\ \A d \in Matches(work.event) :
             \E i \in DOMAIN heard : heard[i] = [ask |-> work.event.ask, display |-> d]
<1> DEFINE P == \E S : printed \in Seq(S)
<1>1. ConsoleInv /\ P /\ [Next]_vars => A
  <2> SUFFICES ASSUME ConsoleInv, NEW S, printed \in Seq(S), [Next]_vars,
                      printed' # printed, Confirmed(Last(printed'))
               PROVE  /\ Matches(work.event) # {}
                      /\ \A d \in Matches(work.event) :
                           \E i \in DOMAIN heard :
                             heard[i] = [ask |-> work.event.ask, display |-> d]
    OBVIOUS
  <2>1. ASSUME NEW result, printed' = Append(printed, result)
        PROVE  Last(printed') = result
    <3>1. printed \in Seq(S \cup {result}) /\ result \in S \cup {result}
      OBVIOUS
    <3>2. /\ Len(printed) \in Nat /\ Len(Append(printed, result)) = Len(printed) + 1
          /\ Append(printed, result)[Len(printed) + 1] = result
      BY <3>1
    <3> QED
      BY <2>1, <3>2 DEF Last
  <2>2. ReadArguments \/ PrintAnswers
    BY DEF Next, vars, console, Sent, Daemon, CommandLineProgram, ConsoleNext, NextDisplay,
           Exchange, Succeeds, PowerState, Refused, Closes, Fails, TriesAgain, GivesUp, Wakes,
           Tick, WolSends
  <2>3. ~ReadArguments
    <3> SUFFICES ASSUME ReadArguments PROVE FALSE
      OBVIOUS
    <3>1. PICK says : says \in {"error", "help"}
                        /\ printed' = Append(printed, Result(says, NoAnswers))
      BY DEF ReadArguments, PrintIf
    <3>2. Last(printed') = Result(says, NoAnswers)
      BY <2>1, <3>1
    <3> QED
      BY <3>1, <3>2 DEF Confirmed, Result
  <2> DEFINE says == IF Matches(work.event) = {} THEN "error" ELSE "answers"
  <2>4. printed' = Append(printed, Result(says, work.answers)) /\ link = "none" /\ Further = {}
    BY <2>2, <2>3 DEF PrintAnswers, PrintIf, At
  <2>5. Last(printed') = Result(says, work.answers)
    BY <2>1, <2>4
  <2>6. says = "answers" /\ \A d \in Displays : work.answers[d] \subseteq {"payload"}
    BY <2>5 DEF Confirmed, Result
  <2>7. \A d \in Matches(work.event) : "payload" \in work.answers[d]
    <3> SUFFICES ASSUME NEW d \in Matches(work.event) PROVE "payload" \in work.answers[d]
      OBVIOUS
    <3>1. d \in Displays /\ d \in Nat /\ work.display \in Nat
      BY DisplaysAreNumbered DEF Matches, ConsoleInv, ConsoleTypeOK
    <3>2. ~(d > work.display)
      BY <2>4 DEF Further
    <3>3. d < work.display \/ d = work.display
      BY <3>1, <3>2
    <3>4. work.answers[d] # {}
      BY <2>4, <3>1, <3>3 DEF ConsoleInv, Treated, Behind
    <3> QED
      BY <2>6, <3>1, <3>4
  <2>8. \A d \in Matches(work.event) : d \in Displays
    BY DEF Matches
  <2> QED
    BY <2>6, <2>7, <2>8 DEF ConsoleInv, AnswersAreTrue
<1>2. [][A]_vars => SuccessMeansDone
  BY PTL DEF SuccessMeansDone
<1> QED
  BY <1>1, <1>2, ConsoleIsRight, PrintedIsList, PTL DEF Spec

-----------------------------------------------------------------------------
(* Lists of lists end to end: FlattenSeq by its recursion, and what it does *)
(* to lists put end to end.                                                 *)

\* The recursion of FlattenSeq from an empty list on.
Runs(s, g) == g[0] = <<>> /\ \A i \in 1 .. Len(s) : g[i] = g[i - 1] \o s[i]

\* The recursion has a solution.
LEMMA FlattenRuns ==
  ASSUME NEW U, NEW s \in Seq(Seq(U))
  PROVE  \E g \in [0 .. Len(s) -> Seq(U)] : Runs(s, g)
<1> DEFINE Solved(n) == \E g \in [0 .. n -> Seq(U)] :
                          g[0] = <<>> /\ \A i \in 1 .. n : g[i] = g[i - 1] \o s[i]
<1> DEFINE S == {n \in 0 .. Len(s) : Solved(n)}
<1>1. Len(s) \in Nat
  OBVIOUS
<1>2. 0 \in S
  <2> DEFINE g == [i \in 0 .. 0 |-> <<>>]
  <2>0. <<>> \in Seq(U)
    OBVIOUS
  <2>1. g \in [0 .. 0 -> Seq(U)] /\ g[0] = <<>>
    BY <2>0
  <2> HIDE DEF g
  <2>2. \A i \in 1 .. 0 : FALSE
    OBVIOUS
  <2>3. Solved(0)
    BY <2>1, <2>2
  <2> HIDE DEF Solved
  <2> QED
    BY <2>3, <1>1
<1>3. ASSUME NEW n \in 0 .. Len(s), n < Len(s), n \in S PROVE n + 1 \in S
  <2>1. PICK g \in [0 .. n -> Seq(U)] :
          g[0] = <<>> /\ \A i \in 1 .. n : g[i] = g[i - 1] \o s[i]
    BY <1>3
  <2> DEFINE h == [i \in 0 .. n + 1 |-> IF i = n + 1 THEN g[n] \o s[n + 1] ELSE g[i]]
  <2>2. g[n] \o s[n + 1] \in Seq(U)
    <3>1. n \in 0 .. n /\ n + 1 \in 1 .. Len(s)
      BY <1>1, <1>3
    <3>2. g[n] \in Seq(U) /\ s[n + 1] \in Seq(U)
      BY <2>1, <3>1
    <3> QED
      BY <3>2
  <2>3. h[n + 1] = g[n] \o s[n + 1] /\ \A i \in 0 .. n : h[i] = g[i]
    BY <1>1
  <2>4. h \in [0 .. n + 1 -> Seq(U)]
    BY <2>2
  <2> HIDE DEF h
  <2>5. \A i \in 1 .. n + 1 : h[i] = h[i - 1] \o s[i]
    <3> SUFFICES ASSUME NEW i \in 1 .. n + 1 PROVE h[i] = h[i - 1] \o s[i]
      OBVIOUS
    <3>1. CASE i = n + 1
      <4>1. i - 1 = n /\ n \in 0 .. n
        BY <3>1, <1>1
      <4> QED
        BY <2>3, <3>1, <4>1
    <3>2. CASE i # n + 1
      <4>1. i \in 1 .. n /\ i \in 0 .. n /\ i - 1 \in 0 .. n
        BY <3>2, <1>1
      <4> QED
        BY <2>1, <2>3, <4>1
    <3> QED
      BY <3>1, <3>2
  <2>6. h[0] = <<>>
    BY <2>1, <2>3, <1>1
  <2>7. Solved(n + 1)
    BY <2>4, <2>5, <2>6
  <2> HIDE DEF Solved
  <2> QED
    BY <2>7, <1>1, <1>3
<1> HIDE DEF S
<1>4. 0 .. Len(s) \subseteq S
  BY <1>1, <1>2, <1>3, UpTo
<1>5. Len(s) \in S
  BY <1>1, <1>4
<1> QED
  BY <1>5 DEF S, Runs

\* And FlattenSeq is the last value of it.
LEMMA FlattenIs ==
  ASSUME NEW U, NEW s \in Seq(Seq(U)), NEW g, Runs(s, g)
  PROVE  FlattenSeq(s) = g[Len(s)]
<1>1. Len(s) \in Nat
  OBVIOUS
<1>2. CASE Len(s) = 0
  <2>1. s = <<>>
    BY <1>2
  <2> QED
    BY <1>2, <2>1 DEF FlattenSeq, Runs
<1>3. CASE Len(s) # 0
  <2> DEFINE Eq(f) == f = [i \in 1 .. Len(s) |-> IF i = 1 THEN s[i] ELSE f[i - 1] \o s[i]]
  <2> DEFINE f == CHOOSE f : Eq(f)
  <2>1. \A i \in 1 .. Len(s) : s[i] \in Seq(U)
    OBVIOUS
  <2>2. \E e : Eq(e)
    <3>1. PICK h \in [0 .. Len(s) -> Seq(U)] : Runs(s, h)
      BY FlattenRuns
    <3> DEFINE e == [i \in 1 .. Len(s) |-> h[i]]
    <3>2. \A i \in 1 .. Len(s) : e[i] = IF i = 1 THEN s[i] ELSE e[i - 1] \o s[i]
      <4> SUFFICES ASSUME NEW i \in 1 .. Len(s)
                   PROVE  e[i] = IF i = 1 THEN s[i] ELSE e[i - 1] \o s[i]
        OBVIOUS
      <4>1. e[i] = h[i - 1] \o s[i]
        BY <3>1 DEF Runs
      <4>2. CASE i = 1
        <5>1. h[i - 1] = <<>>
          BY <3>1, <4>2 DEF Runs
        <5> QED
          BY <2>1, <4>1, <4>2, <5>1
      <4>3. CASE i # 1
        <5>1. i - 1 \in 1 .. Len(s)
          BY <4>3, <1>1
        <5> QED
          BY <4>1, <4>3, <5>1
      <4> QED
        BY <4>2, <4>3
    <3>3. Eq(e)
      <4>1. e = [i \in 1 .. Len(s) |-> e[i]]
        OBVIOUS
      <4> HIDE DEF e
      <4> QED
        BY <3>2, <4>1
    <3> QED
      BY <3>3
  <2>3. Eq(f)
    BY <2>2
  <2>4. FlattenSeq(s) = f[Len(s)]
    BY <1>3 DEF FlattenSeq
  <2> HIDE DEF f
  <2>5. \A i \in 1 .. Len(s) : f[i] = IF i = 1 THEN s[i] ELSE f[i - 1] \o s[i]
    BY <2>3
  <2> DEFINE S == {i \in 0 .. Len(s) : i = 0 \/ f[i] = g[i]}
  <2>6. 0 \in S
    BY <1>1
  <2>7. ASSUME NEW n \in 0 .. Len(s), n < Len(s), n \in S PROVE n + 1 \in S
    <3>1. n + 1 \in 1 .. Len(s) /\ (n + 1) - 1 = n
      BY <2>7, <1>1
    <3>2. g[n + 1] = g[n] \o s[n + 1]
      BY <3>1 DEF Runs
    <3>3. CASE n = 0
      <4>1. g[n] = <<>> /\ s[n + 1] \in Seq(U)
        BY <2>1, <3>1, <3>3 DEF Runs
      <4>2. g[n + 1] = s[n + 1]
        BY <3>2, <4>1
      <4> QED
        BY <2>5, <3>1, <3>3, <4>2
    <3>4. CASE n # 0
      <4>1. f[n + 1] = IF n + 1 = 1 THEN s[n + 1] ELSE f[(n + 1) - 1] \o s[n + 1]
        BY <2>5, <3>1
      <4>2. n + 1 # 1 /\ f[n] = g[n]
        BY <1>1, <2>7, <3>4
      <4>3. f[n + 1] = g[n] \o s[n + 1]
        BY <3>1, <4>1, <4>2
      <4>4. f[n + 1] = g[n + 1] /\ n + 1 \in 0 .. Len(s)
        BY <1>1, <3>1, <3>2, <4>3
      <4> QED
        BY <4>4
    <3> QED
      BY <3>3, <3>4
  <2> HIDE DEF S
  <2>8. 0 .. Len(s) \subseteq S
    BY <1>1, <2>6, <2>7, UpTo
  <2> QED
    BY <1>1, <1>3, <2>4, <2>8 DEF S
<1> QED
  BY <1>2, <1>3

\* The empty list, one list, lists that are all empty.
LEMMA FlattenNone == FlattenSeq(<<>>) = <<>>
  BY DEF FlattenSeq

\* Lists end to end are a list of what is in them.
LEMMA FlattenType ==
  ASSUME NEW U, NEW s \in Seq(Seq(U))
  PROVE  FlattenSeq(s) \in Seq(U)
<1>1. PICK g \in [0 .. Len(s) -> Seq(U)] : Runs(s, g)
  BY FlattenRuns
<1>2. Len(s) \in Nat /\ FlattenSeq(s) = g[Len(s)]
  BY <1>1, FlattenIs
<1> QED
  BY <1>2

\* Empty lists end to end are empty.
LEMMA FlattenEmpty ==
  ASSUME NEW s \in Seq({<<>>})
  PROVE  FlattenSeq(s) = <<>>
<1> DEFINE g == [i \in 0 .. Len(s) |-> <<>>]
<1>1. <<>> \in Seq({}) /\ Len(s) \in Nat
  OBVIOUS
<1>2. s \in Seq(Seq({}))
  BY <1>1, SeqMonotonic
<1>3. Runs(s, g)
  <2>1. \A i \in 1 .. Len(s) : s[i] = <<>> /\ i \in 0 .. Len(s) /\ i - 1 \in 0 .. Len(s)
    BY <1>1
  <2>2. <<>> \o <<>> = <<>>
    OBVIOUS
  <2> QED
    BY <2>1, <2>2, <1>1 DEF Runs
<1> QED
  BY <1>1, <1>2, <1>3, FlattenIs

\* A list alone is itself.
LEMMA FlattenOne ==
  ASSUME NEW U, NEW x \in Seq(U)
  PROVE  FlattenSeq(<<x>>) = x
<1> DEFINE g == [i \in 0 .. 1 |-> IF i = 0 THEN <<>> ELSE x]
<1>1. <<x>> \in Seq(Seq(U)) /\ Len(<<x>>) = 1 /\ <<x>>[1] = x
  OBVIOUS
<1>2. Runs(<<x>>, g) /\ g[1] = x
  BY <1>1 DEF Runs
<1> HIDE DEF g
<1> QED
  BY <1>1, <1>2, FlattenIs

\* Which two of three lists are put together first does not matter.
LEMMA Associative ==
  ASSUME NEW U
  PROVE  \A a, b, c \in Seq(U) : (a \o b) \o c = a \o (b \o c)
<1> TAKE a, b, c \in Seq(U)
<1> QED
  BY ConcatAssociative

\* Lists of lists may be flattened apart.
LEMMA FlattenConcat ==
  ASSUME NEW U, NEW s \in Seq(Seq(U)), NEW t \in Seq(Seq(U))
  PROVE  FlattenSeq(s \o t) = FlattenSeq(s) \o FlattenSeq(t)
<1> DEFINE n == Len(s)
<1> DEFINE m == Len(t)
<1>1. n \in Nat /\ m \in Nat
  OBVIOUS
<1>2. PICK g \in [0 .. n -> Seq(U)] : Runs(s, g)
  BY FlattenRuns
<1>3. PICK h \in [0 .. m -> Seq(U)] : Runs(t, h)
  BY FlattenRuns
<1>4. FlattenSeq(s) = g[n] /\ FlattenSeq(t) = h[m]
  BY <1>2, <1>3, FlattenIs
<1>5. /\ s \o t \in Seq(Seq(U)) /\ Len(s \o t) = n + m
      /\ \A i \in 1 .. n : (s \o t)[i] = s[i] /\ s[i] \in Seq(U)
      /\ \A i \in 1 .. m : (s \o t)[n + i] = t[i] /\ t[i] \in Seq(U)
  OBVIOUS
<1>9. \A a, b, c \in Seq(U) : (a \o b) \o c = a \o (b \o c)
  BY Associative
<1> DEFINE e == [i \in 0 .. n + m |-> IF i <= n THEN g[i] ELSE g[n] \o h[i - n]]
<1>6. Runs(s \o t, e)
  <2>1. e[0] = <<>>
    BY <1>1, <1>2 DEF Runs
  <2>2. ASSUME NEW i \in 1 .. n + m PROVE e[i] = e[i - 1] \o (s \o t)[i]
    <3>1. CASE i <= n
      <4>1. e[i] = g[i] /\ e[i - 1] = g[i - 1] /\ i \in 1 .. n
        BY <1>1, <3>1
      <4> QED
        BY <1>2, <1>5, <4>1 DEF Runs
    <3>2. CASE i > n
      <4> DEFINE j == i - n
      <4>1. j \in 1 .. m /\ j - 1 \in 0 .. m /\ i = n + j /\ n \in 0 .. n /\ j \in 0 .. m
        BY <1>1, <3>2
      <4>2. e[i] = g[n] \o h[j]
        BY <1>1, <3>2
      <4>3. e[i - 1] = g[n] \o h[j - 1]
        <5>1. CASE i - 1 > n
          <6>1. (i - 1) - n = j - 1 /\ i - 1 \in 0 .. n + m /\ ~(i - 1 <= n)
            BY <1>1, <5>1
          <6> QED
            BY <6>1
        <5>2. CASE i - 1 = n
          <6>1. j - 1 = 0 /\ e[i - 1] = g[n]
            BY <1>1, <5>2
          <6>2. g[n] \in Seq(U) /\ h[j - 1] = <<>>
            BY <1>2, <1>3, <4>1, <6>1 DEF Runs
          <6> QED
            BY <6>1, <6>2
        <5> QED
          BY <1>1, <3>2, <5>1, <5>2
      <4>4. h[j] = h[j - 1] \o t[j] /\ (s \o t)[i] = t[j]
        BY <1>3, <1>5, <4>1 DEF Runs
      <4>5. g[n] \in Seq(U) /\ h[j - 1] \in Seq(U) /\ t[j] \in Seq(U)
        BY <1>2, <1>3, <1>5, <4>1
      <4>7. (g[n] \o h[j - 1]) \o t[j] = g[n] \o (h[j - 1] \o t[j])
        BY <4>5, <1>9
      <4> HIDE DEF e, j
      <4> QED
        BY <4>2, <4>3, <4>4, <4>7
    <3>3. i <= n \/ i > n
      BY <1>1
    <3> HIDE DEF e
    <3> QED
      BY <3>1, <3>2, <3>3
  <2> HIDE DEF e
  <2> QED
    BY <1>5, <2>1, <2>2 DEF Runs
<1>7. FlattenSeq(s \o t) = e[n + m]
  BY <1>5, <1>6, FlattenIs
<1>8. e[n + m] = g[n] \o h[m]
  <2>1. CASE m = 0
    <3>1. e[n + m] = g[n] /\ h[m] = <<>> /\ g[n] \in Seq(U)
      BY <1>1, <1>2, <1>3, <2>1 DEF Runs
    <3> QED
      BY <3>1
  <2>2. CASE m # 0
    <3>1. n + m \in 0 .. n + m /\ ~(n + m <= n) /\ (n + m) - n = m
      BY <1>1, <2>2
    <3> QED
      BY <3>1
  <2> QED
    BY <2>1, <2>2
<1> QED
  BY <1>4, <1>7, <1>8

-----------------------------------------------------------------------------
(* How much of a list of requests is met in another: Met by its recursion,  *)
(* and its value when one more request is meant, or one more is heard.      *)

\* How much is met once a is meant, when n was met before.
MetBy(asks, n, a) == IF n < Len(asks) /\ asks[n + 1] = a THEN n + 1 ELSE n

\* The recursion of Met.
Counts(asks, meant, m) ==
    m[0] = 0 /\ \A i \in 1 .. Len(meant) : m[i] = MetBy(asks, m[i - 1], meant[i])

\* The recursion of Met has a solution.
LEMMA MetCounts ==
  ASSUME NEW U, NEW asks \in Seq(U), NEW meant \in Seq(U)
  PROVE  \E m \in [0 .. Len(meant) -> 0 .. Len(asks)] : Counts(asks, meant, m)
<1> DEFINE Solved(n) == \E m \in [0 .. n -> 0 .. Len(asks)] :
                          m[0] = 0 /\ \A i \in 1 .. n : m[i] = MetBy(asks, m[i - 1], meant[i])
<1> DEFINE S == {n \in 0 .. Len(meant) : Solved(n)}
<1>1. Len(meant) \in Nat /\ Len(asks) \in Nat
  OBVIOUS
<1>2. 0 \in S
  <2> DEFINE m == [i \in 0 .. 0 |-> 0]
  <2>1. m \in [0 .. 0 -> 0 .. Len(asks)] /\ m[0] = 0
    BY <1>1
  <2> HIDE DEF m
  <2>2. \A i \in 1 .. 0 : FALSE
    OBVIOUS
  <2>3. Solved(0)
    BY <2>1, <2>2
  <2> HIDE DEF Solved
  <2> QED
    BY <2>3, <1>1
<1>3. ASSUME NEW n \in 0 .. Len(meant), n < Len(meant), n \in S PROVE n + 1 \in S
  <2>1. PICK m \in [0 .. n -> 0 .. Len(asks)] :
          m[0] = 0 /\ \A i \in 1 .. n : m[i] = MetBy(asks, m[i - 1], meant[i])
    BY <1>3
  <2> DEFINE new == MetBy(asks, m[n], meant[n + 1])
  <2> DEFINE h == [i \in 0 .. n + 1 |-> IF i = n + 1 THEN new ELSE m[i]]
  <2>2. new \in 0 .. Len(asks)
    <3>1. m[n] \in 0 .. Len(asks)
      BY <2>1, <1>1
    <3> QED
      BY <1>1, <3>1 DEF MetBy
  <2>3. h[n + 1] = new /\ \A i \in 0 .. n : h[i] = m[i]
    BY <1>1
  <2>4. h \in [0 .. n + 1 -> 0 .. Len(asks)]
    BY <2>2
  <2> HIDE DEF h
  <2>5. \A i \in 1 .. n + 1 : h[i] = MetBy(asks, h[i - 1], meant[i])
    <3> SUFFICES ASSUME NEW i \in 1 .. n + 1 PROVE h[i] = MetBy(asks, h[i - 1], meant[i])
      OBVIOUS
    <3>1. CASE i = n + 1
      <4>1. i - 1 = n /\ n \in 0 .. n
        BY <3>1, <1>1
      <4> QED
        BY <2>3, <3>1, <4>1
    <3>2. CASE i # n + 1
      <4>1. i \in 1 .. n /\ i \in 0 .. n /\ i - 1 \in 0 .. n
        BY <3>2, <1>1
      <4> QED
        BY <2>1, <2>3, <4>1
    <3> QED
      BY <3>1, <3>2
  <2>6. h[0] = 0
    BY <2>1, <2>3, <1>1
  <2>7. Solved(n + 1)
    BY <2>4, <2>5, <2>6
  <2> HIDE DEF Solved
  <2> QED
    BY <2>7, <1>1, <1>3
<1> HIDE DEF S
<1>4. 0 .. Len(meant) \subseteq S
  BY <1>1, <1>2, <1>3, UpTo
<1>5. Len(meant) \in S
  BY <1>1, <1>4
<1> QED
  BY <1>5 DEF S, Counts

\* Met is where such a solution ends.
LEMMA MetIs ==
  ASSUME NEW U, NEW asks \in Seq(U), NEW meant \in Seq(U), NEW m, Counts(asks, meant, m)
  PROVE  Met(asks, meant) = m[Len(meant)]
<1> DEFINE N == Len(meant)
<1> DEFINE Eq(f) == f = [i \in 0 .. Len(meant) |->
                           IF i = 0 THEN 0
                           ELSE LET n == f[i - 1]
                                IN  IF n < Len(asks) /\ asks[n + 1] = meant[i] THEN n + 1 ELSE n]
<1> DEFINE f == CHOOSE f : Eq(f)
<1>1. N \in Nat
  OBVIOUS
<1>2. \E e : Eq(e)
  <2>1. PICK h \in [0 .. N -> 0 .. Len(asks)] : Counts(asks, meant, h)
    BY MetCounts
  <2>2. h = [i \in 0 .. N |-> h[i]]
    OBVIOUS
  <2>3. \A i \in 0 .. N : i = 0 \/ i \in 1 .. N
    BY <1>1
  <2>4. Eq(h)
    BY <2>1, <2>2, <2>3 DEF Counts, MetBy
  <2> QED
    BY <2>4
<1>3. Eq(f)
  BY <1>2
<1>4. Met(asks, meant) = f[N]
  BY DEF Met
<1> HIDE DEF f
<1>5. f[0] = 0 /\ \A i \in 1 .. N : f[i] = MetBy(asks, f[i - 1], meant[i])
  <2>1. \A i \in 0 .. N : f[i] = IF i = 0 THEN 0
                                 ELSE LET n == f[i - 1]
                                      IN  IF n < Len(asks) /\ asks[n + 1] = meant[i]
                                          THEN n + 1 ELSE n
    BY <1>3
  <2>2. 0 \in 0 .. N /\ \A i \in 1 .. N : i \in 0 .. N /\ i # 0
    BY <1>1
  <2> QED
    BY <2>1, <2>2 DEF MetBy
<1> HIDE DEF Eq
<1> DEFINE S == {i \in 0 .. N : f[i] = m[i]}
<1>6. 0 \in S
  BY <1>1, <1>5 DEF Counts
<1>7. ASSUME NEW n \in 0 .. N, n < N, n \in S PROVE n + 1 \in S
  <2>1. n + 1 \in 1 .. N /\ n + 1 \in 0 .. N /\ (n + 1) - 1 = n
    BY <1>1, <1>7
  <2>2. f[n + 1] = MetBy(asks, f[(n + 1) - 1], meant[n + 1])
    BY <1>5, <2>1
  <2>3. m[n + 1] = MetBy(asks, m[(n + 1) - 1], meant[n + 1])
    BY <2>1 DEF Counts
  <2> QED
    BY <1>7, <2>1, <2>2, <2>3
<1> HIDE DEF S
<1>8. 0 .. N \subseteq S
  BY <1>1, <1>6, <1>7, UpTo
<1>9. N \in S
  BY <1>1, <1>8
<1> QED
  BY <1>4, <1>9 DEF S

\* Nothing is met in nothing.
LEMMA MetNone == Met(<<>>, <<>>) = 0
<1> DEFINE m == [i \in 0 .. 0 |-> 0]
<1>1. <<>> \in Seq({}) /\ Len(<<>>) = 0 /\ m[0] = 0
  OBVIOUS
<1>2. Counts(<<>>, <<>>, m)
  BY <1>1 DEF Counts
<1> HIDE DEF m
<1> QED
  BY <1>1, <1>2, MetIs

\* What comes after all asks were met changes nothing.
LEMMA MetMore ==
  ASSUME NEW U, NEW asks \in Seq(U), NEW past \in Seq(U), NEW rest \in Seq(U),
         Met(asks, past) = Len(asks)
  PROVE  Met(asks, past \o rest) = Len(asks)
<1> DEFINE N == Len(past)
<1> DEFINE M == Len(rest)
<1>1. /\ N \in Nat /\ M \in Nat /\ past \o rest \in Seq(U) /\ Len(past \o rest) = N + M
      /\ \A i \in 1 .. N : (past \o rest)[i] = past[i]
  OBVIOUS
<1>2. PICK m \in [0 .. N + M -> 0 .. Len(asks)] : Counts(asks, past \o rest, m)
  BY <1>1, MetCounts
<1>3. Met(asks, past \o rest) = m[N + M]
  BY <1>1, <1>2, MetIs
<1>4. m[N] = Len(asks)
  <2>1. \A i \in 1 .. N : i \in 1 .. N + M
    BY <1>1
  <2>2. Counts(asks, past, m)
    BY <1>1, <1>2, <2>1 DEF Counts
  <2> QED
    BY <2>2, MetIs
<1> DEFINE S == {i \in 0 .. M : m[N + i] = Len(asks)}
<1>5. 0 \in S
  BY <1>1, <1>4
<1>6. ASSUME NEW i \in 0 .. M, i < M, i \in S PROVE i + 1 \in S
  <2>1. N + (i + 1) \in 1 .. N + M /\ (N + (i + 1)) - 1 = N + i /\ i + 1 \in 0 .. M
    BY <1>1, <1>6
  <2>2. m[N + (i + 1)] = MetBy(asks, m[N + i], (past \o rest)[N + (i + 1)])
    BY <1>1, <1>2, <2>1 DEF Counts
  <2>3. m[N + i] = Len(asks) /\ Len(asks) \in Nat
    BY <1>6
  <2>4. m[N + (i + 1)] = Len(asks)
    BY <2>2, <2>3 DEF MetBy
  <2> QED
    BY <2>1, <2>4
<1> HIDE DEF S
<1>7. 0 .. M \subseteq S
  BY <1>1, <1>5, <1>6, UpTo
<1>8. M \in S
  BY <1>1, <1>7
<1> QED
  BY <1>3, <1>8 DEF S

\* One more ask that is met.
LEMMA MetOneMore ==
  ASSUME NEW U, NEW asks \in Seq(U), NEW past \in Seq(U), NEW a \in U,
         Met(asks, past) = Len(asks)
  PROVE  Met(Append(asks, a), past \o <<a>>) = Len(Append(asks, a))
<1> DEFINE N == Len(past)
<1> DEFINE L == Len(asks)
<1> DEFINE as == Append(asks, a)
<1> DEFINE ps == past \o <<a>>
<1>1. /\ N \in Nat /\ L \in Nat
      /\ as \in Seq(U) /\ Len(as) = L + 1 /\ as[L + 1] = a /\ \A i \in 1 .. L : as[i] = asks[i]
      /\ ps \in Seq(U) /\ Len(ps) = N + 1 /\ ps[N + 1] = a /\ \A i \in 1 .. N : ps[i] = past[i]
  OBVIOUS
<1> HIDE DEF as, ps
<1>0. N \in Nat /\ L \in Nat /\ Len(as) = L + 1 /\ as[L + 1] = a
  BY <1>1
<1>11. /\ \A x : MetBy(as, L, x) = L \/ MetBy(as, L, x) = L + 1
       /\ \A x : MetBy(as, L + 1, x) = L + 1
       /\ MetBy(as, L, a) = L + 1
  <2>1. L < Len(as) /\ ~(L + 1 < Len(as))
    BY <1>0
  <2> QED
    BY <1>0, <2>1 DEF MetBy
<1>2. PICK m \in [0 .. N -> 0 .. L] : Counts(asks, past, m)
  BY MetCounts
<1>3. PICK k \in [0 .. N + 1 -> 0 .. L + 1] : Counts(as, ps, k)
  BY <1>1, MetCounts
<1>4. m[N] = L /\ Met(as, ps) = k[N + 1]
  <2>1. m[N] = L
    BY <1>2, MetIs
  <2>2. Met(as, ps) = k[Len(ps)]
    BY <1>1, <1>3, MetIs
  <2> QED
    BY <1>1, <2>1, <2>2
<1> DEFINE S == {i \in 0 .. N : k[i] = m[i] \/ (m[i] = L /\ k[i] = L + 1)}
<1>5. 0 \in S
  BY <1>1, <1>2, <1>3 DEF Counts
<1>6. ASSUME NEW i \in 0 .. N, i < N, i \in S PROVE i + 1 \in S
  <2>1. i + 1 \in 1 .. N /\ i + 1 \in 1 .. N + 1 /\ (i + 1) - 1 = i /\ i + 1 \in 0 .. N
    BY <1>1, <1>6
  <2>2. m[i + 1] = MetBy(asks, m[i], past[i + 1])
    <3>1. m[i + 1] = MetBy(asks, m[(i + 1) - 1], past[i + 1])
      BY <1>2, <2>1 DEF Counts
    <3> QED
      BY <2>1, <3>1
  <2>3. k[i + 1] = MetBy(as, k[i], ps[i + 1])
    <3>1. k[i + 1] = MetBy(as, k[(i + 1) - 1], ps[i + 1])
      BY <1>1, <1>3, <2>1 DEF Counts
    <3> QED
      BY <2>1, <3>1
  <2>4. ps[i + 1] = past[i + 1] /\ m[i] \in 0 .. L
    BY <1>1, <1>2, <2>1
  <2>5. CASE k[i] = m[i] /\ m[i] < L
    <3>1. m[i] + 1 \in 1 .. L
      BY <1>1, <2>4, <2>5
    <3>2. as[m[i] + 1] = asks[m[i] + 1]
      BY <1>1, <3>1
    <3>3. m[i] < L + 1 /\ Len(as) = L + 1
      BY <1>1, <2>4, <2>5
    <3>4. k[i + 1] = m[i + 1]
      BY <2>2, <2>3, <2>4, <2>5, <3>2, <3>3 DEF MetBy
    <3> QED
      BY <2>1, <3>4
  <2>6. CASE m[i] = L /\ (k[i] = L \/ k[i] = L + 1)
    <3>1. m[i + 1] = L
      BY <1>0, <2>2, <2>6 DEF MetBy
    <3>2. k[i + 1] = L \/ k[i + 1] = L + 1
      BY <1>11, <2>3, <2>6
    <3> QED
      BY <2>1, <3>1, <3>2
  <2> QED
    BY <1>1, <1>6, <2>4, <2>5, <2>6
<1> HIDE DEF S
<1>7. 0 .. N \subseteq S
  BY <1>0, <1>5, <1>6, UpTo
<1>8. N \in S
  BY <1>0, <1>7
<1>9. k[N] = L \/ k[N] = L + 1
  BY <1>4, <1>8 DEF S
<1>10. k[N + 1] = L + 1
  <2>1. N + 1 \in 1 .. N + 1 /\ (N + 1) - 1 = N
    BY <1>1
  <2>2. k[N + 1] = MetBy(as, k[(N + 1) - 1], ps[N + 1])
    BY <1>1, <1>3, <2>1 DEF Counts
  <2>3. k[N + 1] = MetBy(as, k[N], a)
    BY <1>1, <2>1, <2>2
  <2> QED
    BY <1>9, <1>11, <2>3
<1> QED
  BY <1>1, <1>4, <1>10 DEF as, ps

-----------------------------------------------------------------------------
(* An agenda: a list of requests, what is left of it, and what was heard.   *)

\* What was done follows what has been dealt with, and is all of it unless something is
\* in doubt.
Follows(whole, rest, done, doubted) ==
    \E S : \E past \in Seq(S) :
      /\ rest \in Seq(S) /\ done \in Seq(S)
      /\ whole = past \o rest
      /\ Met(done, past) = Len(done)
      /\ done = past \/ doubted

\* At first all of it is left.
LEMMA FollowsFromStart ==
  ASSUME NEW T, NEW whole \in Seq(T), NEW doubted
  PROVE  Follows(whole, whole, <<>>, doubted)
<1>1. <<>> \in Seq(T) /\ whole = <<>> \o whole /\ Len(<<>>) = 0
  OBVIOUS
<1> QED
  BY <1>1, MetNone DEF Follows

\* The next ask is left out.
LEMMA FollowsSkip ==
  ASSUME NEW whole, NEW a, NEW T, NEW rest \in Seq(T), NEW done, NEW doubted,
         Follows(whole, <<a>> \o rest, done, doubted)
  PROVE  Follows(whole, rest, done, TRUE)
<1>1. PICK S : \E past \in Seq(S) :
                 /\ done \in Seq(S)
                 /\ whole = past \o (<<a>> \o rest) /\ Met(done, past) = Len(done)
  BY DEF Follows
<1>2. PICK past \in Seq(S) :
        /\ done \in Seq(S)
        /\ whole = past \o (<<a>> \o rest) /\ Met(done, past) = Len(done)
  BY <1>1
<1> DEFINE U == S \cup T \cup {a}
<1>3. past \in Seq(U) /\ done \in Seq(U) /\ rest \in Seq(U) /\ <<a>> \in Seq(U)
  <2>1. S \subseteq U /\ T \subseteq U /\ a \in U
    OBVIOUS
  <2> HIDE DEF U
  <2>2. past \in Seq(U) /\ done \in Seq(U) /\ rest \in Seq(U)
    BY <1>2, <2>1, SeqMonotonic
  <2> QED
    BY <2>1, <2>2
<1> HIDE DEF U
<1>4. past \o (<<a>> \o rest) = (past \o <<a>>) \o rest
  BY <1>3, Associative
<1>5. past \o <<a>> \in Seq(U)
  BY <1>3
<1>6. Met(done, past \o <<a>>) = Len(done)
  BY <1>2, <1>3, MetMore
<1> QED
  BY <1>2, <1>3, <1>4, <1>5, <1>6 DEF Follows

\* The next ask is met.
LEMMA FollowsDo ==
  ASSUME NEW whole, NEW a, NEW T, NEW rest \in Seq(T), NEW done, NEW doubted,
         Follows(whole, <<a>> \o rest, done, doubted)
  PROVE  Follows(whole, rest, Append(done, a), doubted)
<1>1. PICK S : \E past \in Seq(S) :
                 /\ done \in Seq(S)
                 /\ whole = past \o (<<a>> \o rest) /\ Met(done, past) = Len(done)
                 /\ done = past \/ doubted
  BY DEF Follows
<1>2. PICK past \in Seq(S) :
        /\ done \in Seq(S)
        /\ whole = past \o (<<a>> \o rest) /\ Met(done, past) = Len(done)
        /\ done = past \/ doubted
  BY <1>1
<1> DEFINE U == S \cup T \cup {a}
<1>3. /\ past \in Seq(U) /\ done \in Seq(U) /\ rest \in Seq(U) /\ <<a>> \in Seq(U) /\ a \in U
  <2>1. S \subseteq U /\ T \subseteq U /\ a \in U
    OBVIOUS
  <2> HIDE DEF U
  <2>2. past \in Seq(U) /\ done \in Seq(U) /\ rest \in Seq(U)
    BY <1>2, <2>1, SeqMonotonic
  <2> QED
    BY <2>1, <2>2
<1> HIDE DEF U
<1>4. past \o (<<a>> \o rest) = (past \o <<a>>) \o rest
  BY <1>3, Associative
<1>5. past \o <<a>> \in Seq(U) /\ Append(done, a) \in Seq(U) /\ Append(done, a) = done \o <<a>>
  BY <1>3, AppendIsConcat
<1>6. Met(Append(done, a), past \o <<a>>) = Len(Append(done, a))
  BY <1>2, <1>3, MetOneMore
<1>7. Append(done, a) = past \o <<a>> \/ doubted
  BY <1>2, <1>5
<1> QED
  BY <1>2, <1>3, <1>4, <1>5, <1>6, <1>7 DEF Follows

\* More may be in doubt.
LEMMA FollowsDoubted ==
  ASSUME NEW whole, NEW rest, NEW done, NEW doubted, NEW more,
         Follows(whole, rest, done, doubted), doubted => more
  PROVE  Follows(whole, rest, done, more)
  BY DEF Follows

\* What was done follows the whole, and is the whole when nothing is left or in doubt.
LEMMA FollowsToEnd ==
  ASSUME NEW whole, NEW rest, NEW done, NEW doubted, Follows(whole, rest, done, doubted)
  PROVE  /\ Met(done, whole) = Len(done)
         /\ rest = <<>> /\ ~doubted => done = whole
<1>1. PICK S : \E past \in Seq(S) :
                 /\ rest \in Seq(S) /\ done \in Seq(S)
                 /\ whole = past \o rest /\ Met(done, past) = Len(done)
                 /\ done = past \/ doubted
  BY DEF Follows
<1>2. PICK past \in Seq(S) :
        /\ rest \in Seq(S) /\ done \in Seq(S)
        /\ whole = past \o rest /\ Met(done, past) = Len(done)
        /\ done = past \/ doubted
  BY <1>1
<1>3. Met(done, past \o rest) = Len(done)
  BY <1>2, MetMore
<1>4. rest = <<>> => past \o rest = past
  OBVIOUS
<1> QED
  BY <1>2, <1>3, <1>4

-----------------------------------------------------------------------------
\* What a list of displays is asked, in their order.
AsksOf(ask, displays) ==
    FlattenSeq([d \in Displays |->
                  IF d \in displays THEN <<[ask |-> ask, display |-> d]>> ELSE <<>>])

\* The displays are numbered.
LEMMA DisplaysInterval ==
  Len(Names) \in Nat /\ Displays = 1 .. Len(Names)
  BY NamesAssumption DEF Displays

\* What an event asks is a list of requests, each of a display.
LEMMA AsksAreList ==
  ASSUME NEW ask, NEW displays
  PROVE  AsksOf(ask, displays) \in Seq({[ask |-> ask, display |-> d] : d \in Displays})
<1> DEFINE U == {[ask |-> ask, display |-> d] : d \in Displays}
<1> DEFINE slot(d) == IF d \in displays THEN <<[ask |-> ask, display |-> d]>> ELSE <<>>
<1>1. \A d \in Displays : slot(d) \in Seq(U)
  <2> SUFFICES ASSUME NEW d \in Displays PROVE slot(d) \in Seq(U)
    OBVIOUS
  <2>1. [ask |-> ask, display |-> d] \in U
    OBVIOUS
  <2> HIDE DEF U
  <2>2. <<[ask |-> ask, display |-> d]>> \in Seq(U) /\ <<>> \in Seq(U)
    BY <2>1
  <2> QED
    BY <2>2
<1> HIDE DEF U, slot
<1>2. [d \in 1 .. Len(Names) |-> slot(d)] \in Seq(Seq(U))
  BY <1>1, DisplaysInterval
<1>3. FlattenSeq([d \in Displays |-> slot(d)]) \in Seq(U)
  BY <1>2, DisplaysInterval, FlattenType
<1> QED
  BY <1>3 DEF AsksOf, slot, U

\* Nothing is asked of no display.
LEMMA AsksOfNone ==
  ASSUME NEW ask
  PROVE  AsksOf(ask, {}) = <<>>
<1>1. [d \in 1 .. Len(Names) |-> <<>>] \in Seq({<<>>})
  BY DisplaysInterval
<1>2. FlattenSeq([d \in 1 .. Len(Names) |-> <<>>]) = <<>>
  BY <1>1, FlattenEmpty
<1>3. [d \in Displays |-> IF d \in {} THEN <<[ask |-> ask, display |-> d]>> ELSE <<>>]
        = [d \in 1 .. Len(Names) |-> <<>>]
  BY DisplaysInterval
<1> QED
  BY <1>2, <1>3 DEF AsksOf

\* A list of empty lists is one.
LEMMA EmptyLists ==
  ASSUME NEW k \in Nat
  PROVE  LET s == [i \in 1 .. k |-> <<>>] IN s \in Seq({<<>>}) /\ Len(s) = k
  OBVIOUS

\* The first of the displays is asked first.
LEMMA AsksOfFirst ==
  ASSUME NEW ask, NEW displays \in SUBSET Displays, NEW c \in displays,
         \A d \in displays : c <= d
  PROVE  AsksOf(ask, displays) =
           <<[ask |-> ask, display |-> c]>> \o AsksOf(ask, displays \ {c})
<1> DEFINE n == Len(Names)
<1> DEFINE U == {[ask |-> ask, display |-> d] : d \in Displays}
<1> DEFINE x == [ask |-> ask, display |-> c]
<1> DEFINE slot(S, d) == IF d \in S THEN <<[ask |-> ask, display |-> d]>> ELSE <<>>
<1> DEFINE front == [i \in 1 .. c - 1 |-> <<>>]
<1> DEFINE back == [i \in 1 .. n - c |-> slot(displays, c + i)]
<1> DEFINE whole == [d \in 1 .. n |-> slot(displays, d)]
<1> DEFINE less == [d \in 1 .. n |-> slot(displays \ {c}, d)]
<1>1. n \in Nat /\ Displays = 1 .. n /\ c \in 1 .. n /\ displays \in SUBSET (1 .. n)
  BY DisplaysInterval
<1>2. \A d \in 1 .. n : <<[ask |-> ask, display |-> d]>> \in Seq(U)
  <2> SUFFICES ASSUME NEW d \in 1 .. n PROVE <<[ask |-> ask, display |-> d]>> \in Seq(U)
    OBVIOUS
  <2>1. [ask |-> ask, display |-> d] \in U
    BY <1>1
  <2> HIDE DEF U
  <2> QED
    BY <2>1
<1>3. <<>> \in Seq(U) /\ <<x>> \in Seq(U)
  BY <1>1, <1>2
<1>4. \A S, d : d \in 1 .. n => slot(S, d) \in Seq(U)
  BY <1>2, <1>3
<1>5. /\ \A d \in 1 .. n : d < c => slot(displays, d) = <<>> /\ slot(displays \ {c}, d) = <<>>
      /\ slot(displays, c) = <<x>> /\ slot(displays \ {c}, c) = <<>>
      /\ \A d \in 1 .. n : d > c => slot(displays \ {c}, d) = slot(displays, d)
  BY <1>1
<1> HIDE DEF U, slot, x
<1>6. /\ front \in Seq(Seq(U)) /\ Len(front) = c - 1 /\ front \in Seq({<<>>})
      /\ \A i \in 1 .. c - 1 : front[i] = <<>>
  <2>1. c - 1 \in Nat
    BY <1>1
  <2>2. front \in Seq({<<>>}) /\ Len(front) = c - 1
    BY <2>1, EmptyLists
  <2>3. {<<>>} \subseteq Seq(U)
    BY <1>3
  <2> HIDE DEF front
  <2>4. front \in Seq(Seq(U))
    BY <2>2, <2>3, SeqMonotonic
  <2> QED
    BY <2>2, <2>4 DEF front
<1>7. /\ back \in Seq(Seq(U)) /\ Len(back) = n - c
      /\ \A i \in 1 .. n - c : back[i] = slot(displays, c + i)
  <2>1. n - c \in Nat /\ \A i \in 1 .. n - c : c + i \in 1 .. n
    BY <1>1
  <2>2. \A i \in 1 .. n - c : slot(displays, c + i) \in Seq(U)
    BY <1>4, <2>1
  <2> QED
    BY <2>1, <2>2
<1>8. /\ whole \in Seq(Seq(U)) /\ Len(whole) = n /\ \A d \in 1 .. n : whole[d] = slot(displays, d)
      /\ less \in Seq(Seq(U)) /\ Len(less) = n
      /\ \A d \in 1 .. n : less[d] = slot(displays \ {c}, d)
  BY <1>1, <1>4
<1> HIDE DEF front, back, whole, less, n
<1>9. ASSUME NEW y \in Seq(U)
      PROVE  /\ (front \o <<y>>) \o back \in Seq(Seq(U)) /\ Len((front \o <<y>>) \o back) = n
             /\ \A d \in 1 .. n : ((front \o <<y>>) \o back)[d] =
                                    IF d < c THEN <<>> ELSE IF d = c THEN y
                                    ELSE slot(displays, d)
             /\ FlattenSeq((front \o <<y>>) \o back) = y \o FlattenSeq(back)
  <2> DEFINE f == front \o <<y>>
  <2>1. /\ f \in Seq(Seq(U)) /\ Len(f) = c /\ f[c] = y
        /\ \A d \in 1 .. c - 1 : f[d] = <<>>
    BY <1>1, <1>6
  <2>2. FlattenSeq(f) = y
    <3>1. <<y>> \in Seq(Seq(U))
      OBVIOUS
    <3>2. FlattenSeq(f) = FlattenSeq(front) \o FlattenSeq(<<y>>)
      BY <1>6, <3>1, FlattenConcat
    <3>3. FlattenSeq(front) = <<>> /\ FlattenSeq(<<y>>) = y
      BY <1>6, FlattenEmpty, FlattenOne
    <3> QED
      BY <3>2, <3>3
  <2> HIDE DEF f
  <2>3. f \o back \in Seq(Seq(U)) /\ Len(f \o back) = n
    BY <1>1, <1>7, <2>1
  <2>4. FlattenSeq(f \o back) = y \o FlattenSeq(back)
    BY <1>7, <2>1, <2>2, FlattenConcat
  <2>6. \A d \in 1 .. Len(f) + Len(back) :
          (f \o back)[d] = IF d <= Len(f) THEN f[d] ELSE back[d - Len(f)]
    BY <1>7, <2>1, ConcatProperties
  <2>7. Len(f) + Len(back) = n /\ Len(f) = c
    BY <1>1, <1>7, <2>1
  <2>5. ASSUME NEW d \in 1 .. n
        PROVE  (f \o back)[d] = IF d < c THEN <<>> ELSE IF d = c THEN y ELSE slot(displays, d)
    <3>1. CASE d <= c
      <4>1. (f \o back)[d] = f[d] /\ d \in 1 .. c
        BY <1>1, <2>6, <2>7, <3>1
      <4>2. d = c \/ (d < c /\ d \in 1 .. c - 1)
        BY <1>1, <3>1
      <4> QED
        BY <1>1, <2>1, <4>1, <4>2
    <3>2. CASE d > c
      <4>1. d - c \in 1 .. n - c /\ c + (d - c) = d /\ d \notin 1 .. c
        BY <1>1, <3>2
      <4>2. (f \o back)[d] = back[d - c]
        BY <1>1, <2>6, <2>7, <3>2
      <4>3. back[d - c] = slot(displays, d)
        BY <1>7, <4>1
      <4>4. ~(d < c) /\ d # c
        BY <1>1, <3>2
      <4> QED
        BY <4>2, <4>3, <4>4
    <3>3. d <= c \/ d > c
      BY <1>1
    <3> QED
      BY <3>1, <3>2, <3>3
  <2> QED
    BY <2>3, <2>4, <2>5 DEF f
<1>10. whole = (front \o <<<<x>>>>) \o back
  <2>1. \A d \in 1 .. n : d < c \/ d = c \/ d > c
    BY <1>1
  <2>2. \A d \in 1 .. n : whole[d] = ((front \o <<<<x>>>>) \o back)[d]
    BY <1>3, <1>5, <1>8, <1>9, <2>1
  <2> DEFINE other == (front \o <<<<x>>>>) \o back
  <2>3. other \in Seq(Seq(U)) /\ Len(other) = n
    BY <1>3, <1>9
  <2>4. whole \in Seq(Seq(U)) /\ Len(whole) = n /\ \A d \in 1 .. n : whole[d] = other[d]
    BY <1>8, <2>2
  <2> HIDE DEF other
  <2>5. whole = other
    BY <2>3, <2>4, SeqEqual
  <2> QED
    BY <2>5 DEF other
<1>11. less = (front \o <<<<>>>>) \o back
  <2>1. \A d \in 1 .. n : d < c \/ d = c \/ d > c
    BY <1>1
  <2>2. \A d \in 1 .. n : less[d] = ((front \o <<<<>>>>) \o back)[d]
    BY <1>3, <1>5, <1>8, <1>9, <2>1
  <2> DEFINE other == (front \o <<<<>>>>) \o back
  <2>3. other \in Seq(Seq(U)) /\ Len(other) = n
    BY <1>3, <1>9
  <2>4. less \in Seq(Seq(U)) /\ Len(less) = n /\ \A d \in 1 .. n : less[d] = other[d]
    BY <1>8, <2>2
  <2> HIDE DEF other
  <2>5. less = other
    BY <2>3, <2>4, SeqEqual
  <2> QED
    BY <2>5 DEF other
<1>12. FlattenSeq(whole) = <<x>> \o FlattenSeq(back) /\ FlattenSeq(less) = <<>> \o FlattenSeq(back)
  BY <1>3, <1>9, <1>10, <1>11
<1>13. <<>> \o FlattenSeq(back) = FlattenSeq(back)
  BY <1>7, FlattenType
<1>14. AsksOf(ask, displays) = FlattenSeq(whole) /\ AsksOf(ask, displays \ {c}) = FlattenSeq(less)
  BY <1>1 DEF AsksOf, whole, less, slot
<1> QED
  BY <1>12, <1>13, <1>14 DEF x

-----------------------------------------------------------------------------
(* The commands that are left to do, and what they will ask of the          *)
(* displays.                                                                *)

\* What a command asks that is read as one event, or as none.
LeafAsks(words) ==
    LET outcome == ProcessCommand(words)
    IN  IF outcome.says = "answers" THEN AsksOf(outcome.event.ask, Matches(outcome.event))
                                    ELSE <<>>

\* What a command asks, that may stand for others.
CommandAsks(words) ==
    LET outcome == ProcessCommand(words)
    IN  IF outcome.says = "again"
        THEN FlattenSeq([i \in DOMAIN outcome.again |-> LeafAsks(outcome.again[i].words)])
        ELSE LeafAsks(words)

\* What the commands of a list ask, one after the other.
ToCome(list) == FlattenSeq([i \in DOMAIN list |-> CommandAsks(list[i].words)])

\* A command that stands for no others.
IsLeaf(words) ==
    LET outcome == ProcessCommand(words)
    IN  /\ outcome.says # "again" /\ outcome.again = <<>>
        /\ outcome.says = "answers" => outcome.event # <<>>

\* The answers to this command are printed, and it goes through an alert, so that there
\* will be a word of it that is no confirmation.
Guarding(command) ==
    LET outcome == ProcessCommand(command.words)
    IN  command.printed /\ outcome.says = "answers" /\ outcome.event.ask.on \in ThroughAlert

\* One of the commands is such a command.
HasGuard(list) == \E i \in DOMAIN list : Guarding(list[i])

\* The answers to this command are those to a power-on.
PowersOn(command) ==
    LET outcome == ProcessCommand(command.words)
    IN  outcome.says = "answers" /\ outcome.event.ask.on = "poweron"

\* A command whose answers are not printed is no power-on, and is followed by such a command.
Guarded(list) ==
    \A i \in DOMAIN list :
      \/ list[i].printed
      \/ ~PowersOn(list[i]) /\ \E j \in DOMAIN list : j > i /\ Guarding(list[j])

\* A command is an event or none, or stands for commands that are.
Regular(words) ==
    LET outcome == ProcessCommand(words)
    IN  \/ IsLeaf(words)
        \/ /\ outcome.says = "again"
           /\ \E T : outcome.again \in Seq(T)
           /\ \A i \in DOMAIN outcome.again : IsLeaf(outcome.again[i].words)
           /\ Guarded(outcome.again)

\* A list of such commands.
IsList(list) == (\E T : list \in Seq(T)) /\ \A i \in DOMAIN list : Regular(list[i].words)

-----------------------------------------------------------------------------

\* Lists of which each has its own elements.
LEMMA OneSetForAll ==
  ASSUME NEW n \in Nat, NEW s, s = [i \in 1 .. n |-> s[i]], \A i \in 1 .. n : \E U : s[i] \in Seq(U)
  PROVE  \E U : s \in Seq(Seq(U))
<1> DEFINE V == UNION {{s[i][k] : k \in DOMAIN s[i]} : i \in 1 .. n}
<1>1. \A i \in 1 .. n : s[i] \in Seq(V)
  <2> SUFFICES ASSUME NEW i \in 1 .. n PROVE s[i] \in Seq(V)
    OBVIOUS
  <2>1. PICK U : s[i] \in Seq(U)
    OBVIOUS
  <2>2. \A k \in DOMAIN s[i] : s[i][k] \in V
    OBVIOUS
  <2> HIDE DEF V
  <2>3. /\ Len(s[i]) \in Nat /\ DOMAIN s[i] = 1 .. Len(s[i])
        /\ s[i] = [k \in 1 .. Len(s[i]) |-> s[i][k]]
    BY <2>1
  <2> QED
    BY <2>2, <2>3
<1> HIDE DEF V
<1>2. s \in Seq(Seq(V))
  BY <1>1
<1> QED
  BY <1>2

\* It is a list of requests.
LEMMA LeafAsksAreList ==
  ASSUME NEW words
  PROVE  \E U : LeafAsks(words) \in Seq(U)
<1>1. <<>> \in Seq({})
  OBVIOUS
<1> QED
  BY <1>1, AsksAreList DEF LeafAsks

\* So is this.
LEMMA CommandAsksAreList ==
  ASSUME NEW words, Regular(words)
  PROVE  \E U : CommandAsks(words) \in Seq(U)
<1> DEFINE outcome == ProcessCommand(words)
<1>1. CASE outcome.says # "again"
  BY <1>1, LeafAsksAreList DEF CommandAsks
<1>2. CASE outcome.says = "again"
  <2>1. PICK T : outcome.again \in Seq(T)
    BY <1>2 DEF Regular, IsLeaf
  <2> DEFINE n == Len(outcome.again)
  <2> DEFINE s == [i \in DOMAIN outcome.again |-> LeafAsks(outcome.again[i].words)]
  <2>2. n \in Nat /\ DOMAIN outcome.again = 1 .. n
    BY <2>1
  <2>3. s = [i \in 1 .. n |-> s[i]] /\ \A i \in 1 .. n : \E U : s[i] \in Seq(U)
    BY <2>2, LeafAsksAreList
  <2> HIDE DEF n, s
  <2>4. PICK U : s \in Seq(Seq(U))
    BY <2>2, <2>3, OneSetForAll
  <2>5. FlattenSeq(s) \in Seq(U)
    BY <2>4, FlattenType
  <2>6. CommandAsks(words) = FlattenSeq(s)
    BY <1>2 DEF CommandAsks, s
  <2> QED
    BY <2>5, <2>6
<1> QED
  BY <1>1, <1>2

\* What the commands of a list ask, list by list.
LEMMA AsksLists ==
  ASSUME NEW list, IsList(list)
  PROVE  LET s == [i \in DOMAIN list |-> CommandAsks(list[i].words)]
         IN  (\E U : s \in Seq(Seq(U))) /\ Len(s) = Len(list)
<1> DEFINE n == Len(list)
<1> DEFINE s == [i \in DOMAIN list |-> CommandAsks(list[i].words)]
<1>1. n \in Nat /\ DOMAIN list = 1 .. n
  BY DEF IsList
<1>2. s = [i \in 1 .. n |-> s[i]] /\ Len(s) = n
  BY <1>1
<1>3. \A i \in 1 .. n : \E U : s[i] \in Seq(U)
  BY <1>1, CommandAsksAreList DEF IsList
<1> HIDE DEF s
<1>4. \E U : s \in Seq(Seq(U))
  BY <1>1, <1>2, <1>3, OneSetForAll
<1> QED
  BY <1>2, <1>4 DEF s

\* And this.
LEMMA ToComeIsList ==
  ASSUME NEW list, IsList(list)
  PROVE  \E U : ToCome(list) \in Seq(U)
<1> DEFINE s == [i \in DOMAIN list |-> CommandAsks(list[i].words)]
<1>1. PICK U : s \in Seq(Seq(U))
  BY AsksLists
<1> HIDE DEF s
<1>2. FlattenSeq(s) \in Seq(U)
  BY <1>1, FlattenType
<1> QED
  BY <1>2 DEF ToCome, s

\* No commands ask nothing.
LEMMA ToComeNone ==
  IsList(<<>>) /\ ToCome(<<>>) = <<>>
<1>1. <<>> \in Seq({}) /\ DOMAIN <<>> = {}
  OBVIOUS
<1>2. [i \in DOMAIN <<>> |-> CommandAsks(<<>>[i].words)] = <<>>
  BY <1>1
<1> QED
  BY <1>1, <1>2, FlattenNone DEF IsList, ToCome

\* What is a list.
LEMMA ListIs ==
  ASSUME NEW W, NEW k \in Nat, NEW u, u = [i \in 1 .. k |-> u[i]], \A i \in 1 .. k : u[i] \in W
  PROVE  u \in Seq(W) /\ Len(u) = k
<1>1. u \in [1 .. k -> W]
  OBVIOUS
<1>2. u \in Seq(W)
  BY <1>1
<1>3. DOMAIN u = 1 .. k
  OBVIOUS
<1> QED
  BY <1>2, <1>3, LenProperties

\* A list whose elements are those of one list, then those of another.
LEMMA ConcatIs ==
  ASSUME NEW W, NEW s \in Seq(W), NEW t \in Seq(W), NEW n \in Nat, NEW m \in Nat,
         Len(s) = n, Len(t) = m, NEW Y, NEW u \in [1 .. n + m -> Y],
         \A i \in 1 .. n + m : u[i] = IF i <= n THEN s[i] ELSE t[i - n]
  PROVE  u = s \o t
<1>1. s \o t \in Seq(W)
  OBVIOUS
<1>2. Len(s \o t) = n + m
  BY ConcatProperties
<1>3. \A i \in 1 .. n + m : (s \o t)[i] = IF i <= n THEN s[i] ELSE t[i - n]
  BY ConcatProperties
<1>4. \A i \in 1 .. n + m : (s \o t)[i] \in W
  BY <1>1, <1>2
<1>5. \A i \in 1 .. n + m : u[i] = (s \o t)[i]
  BY <1>3
<1>6. \A i \in 1 .. n + m : u[i] \in W
  BY <1>4, <1>5
<1>7. n + m \in Nat
  OBVIOUS
<1> DEFINE k == n + m
<1>8. k \in Nat /\ u = [i \in 1 .. k |-> u[i]] /\ \A i \in 1 .. k : u[i] \in W
  BY <1>6, <1>7
<1>9. Len(s \o t) = k /\ \A i \in 1 .. k : u[i] = (s \o t)[i]
  BY <1>2, <1>5
<1> HIDE DEF k
<1>10. u \in Seq(W) /\ Len(u) = k
  BY <1>8, ListIs
<1> QED
  BY <1>1, <1>9, <1>10, SeqEqual

\* Commands behind others ask what they ask, behind what the others ask.
LEMMA ToComeConcat ==
  ASSUME NEW a, NEW b, IsList(a), IsList(b)
  PROVE  IsList(a \o b) /\ ToCome(a \o b) = ToCome(a) \o ToCome(b)
<1> DEFINE n == Len(a)
<1> DEFINE m == Len(b)
<1> DEFINE s == [i \in DOMAIN a |-> CommandAsks(a[i].words)]
<1> DEFINE t == [i \in DOMAIN b |-> CommandAsks(b[i].words)]
<1> DEFINE st == [i \in DOMAIN (a \o b) |-> CommandAsks((a \o b)[i].words)]
<1>1. PICK A : a \in Seq(A)
  BY DEF IsList
<1>2. PICK B : b \in Seq(B)
  BY DEF IsList
<1>3. a \in Seq(A \cup B) /\ b \in Seq(A \cup B)
  BY <1>1, <1>2, SeqMonotonic
<1>4. /\ n \in Nat /\ m \in Nat /\ a \o b \in Seq(A \cup B)
      /\ DOMAIN a = 1 .. n /\ DOMAIN b = 1 .. m /\ DOMAIN (a \o b) = 1 .. n + m
      /\ Len(a \o b) = n + m
      /\ \A i \in 1 .. n + m : (a \o b)[i] = IF i <= n THEN a[i] ELSE b[i - n]
  BY <1>3, ConcatProperties, LenProperties
<1>5. \A i \in 1 .. n + m : i <= n => i \in 1 .. n
  BY <1>4
<1>6. \A i \in 1 .. n + m : ~(i <= n) => i - n \in 1 .. m
  BY <1>4
<1>7. IsList(a \o b)
  <2>1. ASSUME NEW i \in 1 .. n + m PROVE Regular((a \o b)[i].words)
    <3>1. CASE i <= n
      BY <1>4, <1>5, <3>1 DEF IsList
    <3>2. CASE ~(i <= n)
      BY <1>4, <1>6, <3>2 DEF IsList
    <3> QED
      BY <3>1, <3>2
  <2> QED
    BY <1>4, <2>1 DEF IsList
<1>8. PICK U : s \in Seq(Seq(U))
  BY AsksLists
<1>9. PICK V : t \in Seq(Seq(V))
  BY AsksLists
<1> DEFINE W == U \cup V
<1>10. s \in Seq(Seq(W)) /\ t \in Seq(Seq(W))
  <2>1. Seq(U) \subseteq Seq(W) /\ Seq(V) \subseteq Seq(W)
    BY SeqMonotonic
  <2> HIDE DEF W, s, t
  <2> QED
    BY <1>8, <1>9, <2>1, SeqMonotonic
<1>11. /\ Len(s) = n /\ Len(t) = m /\ Len(st) = n + m
       /\ \A i \in 1 .. n : s[i] = CommandAsks(a[i].words)
       /\ \A i \in 1 .. m : t[i] = CommandAsks(b[i].words)
       /\ \A i \in 1 .. n + m : st[i] = CommandAsks((a \o b)[i].words)
       /\ st = [i \in 1 .. n + m |-> st[i]]
  BY <1>4
<1> HIDE DEF W, s, t, st
<1> HIDE DEF n, m
<1>13. \A i \in 1 .. n + m : st[i] = IF i <= n THEN s[i] ELSE t[i - n]
  <2> TAKE i \in 1 .. n + m
  <2>1. CASE i <= n
    BY <1>4, <1>5, <1>11, <2>1
  <2>2. CASE ~(i <= n)
    BY <1>4, <1>6, <1>11, <2>2
  <2> QED
    BY <2>1, <2>2
<1>14. st = s \o t
  <2>1. n \in Nat /\ m \in Nat
    BY <1>4
  <2>2. Len(s) = n /\ Len(t) = m
    BY <1>11
  <2> DEFINE Y == {st[i] : i \in 1 .. n + m}
  <2>4. st \in [1 .. n + m -> Y]
    BY <1>11
  <2> HIDE DEF Y
  <2> DEFINE X == Seq(W)
  <2>3. s \in Seq(X) /\ t \in Seq(X)
    BY <1>10
  <2> HIDE DEF X
  <2> QED
    BY <1>13, <2>1, <2>2, <2>3, <2>4, ConcatIs
<1>15. FlattenSeq(st) = FlattenSeq(s) \o FlattenSeq(t)
  BY <1>10, <1>14, FlattenConcat
<1> QED
  BY <1>7, <1>15 DEF ToCome, s, t, st

\* A command alone asks what it asks.
LEMMA ToComeOne ==
  ASSUME NEW command, Regular(command.words)
  PROVE  IsList(<<command>>) /\ ToCome(<<command>>) = CommandAsks(command.words)
<1>1. <<command>> \in Seq({command}) /\ DOMAIN <<command>> = {1} /\ <<command>>[1] = command
  OBVIOUS
<1>2. PICK U : CommandAsks(command.words) \in Seq(U)
  BY CommandAsksAreList
<1>3. [i \in DOMAIN <<command>> |-> CommandAsks(<<command>>[i].words)]
        = <<CommandAsks(command.words)>>
  BY <1>1
<1> QED
  BY <1>1, <1>2, <1>3, FlattenOne DEF IsList, ToCome

\* The first command of a list, and the others.
LEMMA ToComeFirst ==
  ASSUME NEW list, IsList(list), list # <<>>
  PROVE  /\ Regular(Head(list).words) /\ IsList(Tail(list))
         /\ ToCome(list) = CommandAsks(Head(list).words) \o ToCome(Tail(list))
<1>1. PICK T : list \in Seq(T)
  BY DEF IsList
<1>2. /\ Head(list) = list[1] /\ 1 \in DOMAIN list /\ Tail(list) \in Seq(T)
      /\ \A i \in DOMAIN Tail(list) : i + 1 \in DOMAIN list /\ Tail(list)[i] = list[i + 1]
  BY <1>1
<1>3. Regular(Head(list).words) /\ IsList(Tail(list))
  BY <1>2 DEF IsList
<1>4. list = <<Head(list)>> \o Tail(list)
  BY <1>1
<1>5. IsList(<<Head(list)>>) /\ ToCome(<<Head(list)>>) = CommandAsks(Head(list).words)
  BY <1>3, ToComeOne
<1>6. ToCome(<<Head(list)>> \o Tail(list)) = ToCome(<<Head(list)>>) \o ToCome(Tail(list))
  BY <1>3, <1>5, ToComeConcat
<1> QED
  BY <1>3, <1>4, <1>5, <1>6

\* The commands another command stands for ask what it asks.
LEMMA ToComeAgain ==
  ASSUME NEW words, Regular(words), ProcessCommand(words).says = "again"
  PROVE  LET again == ProcessCommand(words).again
         IN  IsList(again) /\ ToCome(again) = CommandAsks(words) /\ Guarded(again)
<1> DEFINE again == ProcessCommand(words).again
<1>1. /\ \E T : again \in Seq(T)
      /\ \A i \in DOMAIN again : IsLeaf(again[i].words)
      /\ Guarded(again)
  BY DEF Regular, IsLeaf
<1>2. \A i \in DOMAIN again : CommandAsks(again[i].words) = LeafAsks(again[i].words)
  BY <1>1 DEF IsLeaf, CommandAsks
<1>3. [i \in DOMAIN again |-> CommandAsks(again[i].words)]
        = [i \in DOMAIN again |-> LeafAsks(again[i].words)]
  BY <1>2
<1> HIDE DEF again
<1>4. ToCome(again) = CommandAsks(words)
  BY <1>3 DEF ToCome, CommandAsks, again
<1> QED
  BY <1>1, <1>4 DEF IsList, Regular, again

\* The guards of a list once its first command is taken.
LEMMA GuardsOfList ==
  ASSUME NEW list, IsList(list), list # <<>>
  PROVE  /\ HasGuard(list) => Guarding(Head(list)) \/ HasGuard(Tail(list))
         /\ Guarded(list) => Guarded(Tail(list))
         /\ Guarded(list) => \/ Head(list).printed
                             \/ ~PowersOn(Head(list)) /\ HasGuard(Tail(list))
<1>1. PICK T : list \in Seq(T)
  BY DEF IsList
<1> DEFINE n == Len(list)
<1>2. /\ n \in Nat /\ DOMAIN list = 1 .. n /\ DOMAIN Tail(list) = 1 .. n - 1 /\ n # 0
      /\ Head(list) = list[1] /\ \A i \in 1 .. n - 1 : Tail(list)[i] = list[i + 1]
  BY <1>1
<1> HIDE DEF n
<1>3. \A j \in 1 .. n : j # 1 => j - 1 \in 1 .. n - 1 /\ Tail(list)[j - 1] = list[j]
  BY <1>2
<1>4. HasGuard(list) => Guarding(Head(list)) \/ HasGuard(Tail(list))
  BY <1>2, <1>3 DEF HasGuard
<1>5. ASSUME Guarded(list) PROVE Guarded(Tail(list))
  <2> SUFFICES ASSUME NEW i \in 1 .. n - 1, ~Tail(list)[i].printed
               PROVE  /\ ~PowersOn(Tail(list)[i])
                      /\ \E j \in 1 .. n - 1 : j > i /\ Guarding(Tail(list)[j])
    BY <1>2 DEF Guarded
  <2>1. i + 1 \in 1 .. n /\ Tail(list)[i] = list[i + 1]
    BY <1>2
  <2>2. ~PowersOn(list[i + 1]) /\ \E j \in 1 .. n : j > i + 1 /\ Guarding(list[j])
    BY <1>2, <1>5, <2>1 DEF Guarded
  <2>3. PICK j \in 1 .. n : j > i + 1 /\ Guarding(list[j])
    BY <2>2
  <2>4. j # 1 /\ j - 1 > i
    BY <1>2, <2>3
  <2> QED
    BY <1>3, <2>1, <2>2, <2>3, <2>4
<1>6. ASSUME Guarded(list), ~Head(list).printed
      PROVE  ~PowersOn(Head(list)) /\ HasGuard(Tail(list))
  <2>1. 1 \in DOMAIN list
    BY <1>2
  <2>2. ~PowersOn(list[1]) /\ \E j \in 1 .. n : j > 1 /\ Guarding(list[j])
    BY <1>2, <1>6, <2>1 DEF Guarded
  <2>3. PICK j \in 1 .. n : j > 1 /\ Guarding(list[j])
    BY <2>2
  <2>4. j # 1
    BY <2>3
  <2>5. HasGuard(Tail(list))
    BY <1>2, <1>3, <2>3, <2>4 DEF HasGuard
  <2> QED
    BY <1>2, <2>2, <2>5
<1> QED
  BY <1>4, <1>5, <1>6

\* The guards of lists end to end.
LEMMA GuardsOfConcat ==
  ASSUME NEW a, NEW b, IsList(a), IsList(b)
  PROVE  /\ HasGuard(b) => HasGuard(a \o b)
         /\ Guarded(a) /\ Guarded(b) => Guarded(a \o b)
<1> DEFINE n == Len(a)
<1> DEFINE m == Len(b)
<1>1. PICK A : a \in Seq(A)
  BY DEF IsList
<1>2. PICK B : b \in Seq(B)
  BY DEF IsList
<1>3. a \in Seq(A \cup B) /\ b \in Seq(A \cup B)
  BY <1>1, <1>2, SeqMonotonic
<1>4. /\ n \in Nat /\ m \in Nat
      /\ DOMAIN a = 1 .. n /\ DOMAIN b = 1 .. m /\ DOMAIN (a \o b) = 1 .. n + m
      /\ \A i \in 1 .. n + m : (a \o b)[i] = IF i <= n THEN a[i] ELSE b[i - n]
  BY <1>3, ConcatProperties, LenProperties
<1> HIDE DEF n, m
<1>5. \A i \in 1 .. m : n + i \in 1 .. n + m /\ (a \o b)[n + i] = b[i]
  <2> TAKE i \in 1 .. m
  <2>1. n + i \in 1 .. n + m /\ ~(n + i <= n) /\ (n + i) - n = i
    BY <1>4
  <2> QED
    BY <1>4, <2>1
<1>6. \A i \in 1 .. n : i \in 1 .. n + m /\ (a \o b)[i] = a[i]
  BY <1>4
<1>7. HasGuard(b) => HasGuard(a \o b)
  BY <1>4, <1>5 DEF HasGuard
<1>8. ASSUME Guarded(a), Guarded(b) PROVE Guarded(a \o b)
  <2> SUFFICES ASSUME NEW i \in 1 .. n + m, ~(a \o b)[i].printed
               PROVE  /\ ~PowersOn((a \o b)[i])
                      /\ \E j \in 1 .. n + m : j > i /\ Guarding((a \o b)[j])
    BY <1>4 DEF Guarded
  <2>1. CASE i <= n
    <3>1. i \in 1 .. n /\ (a \o b)[i] = a[i]
      BY <1>4, <2>1
    <3>2. ~PowersOn(a[i]) /\ \E j \in 1 .. n : j > i /\ Guarding(a[j])
      BY <1>4, <1>8, <3>1 DEF Guarded
    <3>3. PICK j \in 1 .. n : j > i /\ Guarding(a[j])
      BY <3>2
    <3> QED
      BY <1>6, <3>1, <3>2, <3>3
  <2>2. CASE ~(i <= n)
    <3>1. i - n \in 1 .. m /\ (a \o b)[i] = b[i - n]
      BY <1>4, <2>2
    <3>2. ~PowersOn(b[i - n]) /\ \E j \in 1 .. m : j > i - n /\ Guarding(b[j])
      BY <1>4, <1>8, <3>1 DEF Guarded
    <3>3. PICK j \in 1 .. m : j > i - n /\ Guarding(b[j])
      BY <3>2
    <3>4. n + j > i
      BY <1>4, <3>3
    <3> QED
      BY <1>5, <3>1, <3>2, <3>3, <3>4
  <2> QED
    BY <2>1, <2>2
<1> QED
  BY <1>7, <1>8

-----------------------------------------------------------------------------
(* The invariant of the order: what was heard follows what was meant, and   *)
(* an error is printed for what was not heard.                              *)

\* The first of some displays, and the others.
First(c, displays, others) ==
    /\ displays \subseteq Displays /\ c \in displays /\ \A d \in displays : c <= d
    /\ others = displays \ {c}

\* The displays of an event that have not been asked.
PendingOf(w, at) ==
    {d \in Matches(w.event) : d > w.display \/ (d = w.display /\ at # "none" /\ Unasked(w))}

\* What is left to ask for an event, then for the commands left.
Left(ask, displays, list) == AsksOf(ask, displays) \o ToCome(list)

\* A list with one more element before it.
Before(a, rest) == <<a>> \o rest

\* What is left to ask of the displays: of those of the event, then by the commands.
RestOf(w, at, list) ==
    IF w = NoWork THEN ToCome(list) ELSE Left(w.event.ask, PendingOf(w, at), list)

\* Something printed is no confirmation.
Unconfirmed(results) == \E i \in DOMAIN results : ~Confirmed(results[i])

\* Something that will be printed of this event is no confirmation.
Lacking(w) ==
    /\ w # NoWork /\ w.printed
    /\ w.event.ask.on \in ThroughAlert \/ \E d \in Displays : ~(w.answers[d] \subseteq {"payload"})

\* An error, or the word of an alert, was printed or will be.
Doubt(results, list, w) == Unconfirmed(results) \/ HasGuard(list) \/ Lacking(w)

\* No display answers to the end of an alert.
AlertsSay ==
    work # NoWork /\ work.event.ask.on \in ThroughAlert =>
      \A d \in Displays : "payload" \notin work.answers[d]

\* What was heard follows what was meant, up to what is left to do.
OnSchedule ==
    /\ IsList(left) /\ Guarded(left)
    /\ work # NoWork /\ ~work.printed => HasGuard(left) /\ ~IsPowerOn
    /\ \E S : printed \in Seq(S)
    /\ Follows(Intended(intent), RestOf(work, link, left), heard, Doubt(printed, left, work))

\* The inductive invariant: alerts say so, and if every command of the user is understood,
\* the program is on schedule.
OrderInv ==
    /\ AlertsSay
    /\ written = "arguments" /\ All(intent, ConsoleUnderstands) => OnSchedule

-----------------------------------------------------------------------------

\* They are displays.
LEMMA MatchesAreDisplays ==
  ASSUME NEW w, NEW at
  PROVE  PendingOf(w, at) \in SUBSET Displays
  BY DEF PendingOf, Matches

\* The first of what is left to ask.
LEMMA RestFirst ==
  ASSUME NEW ask, NEW displays, NEW c, NEW others, First(c, displays, others),
         NEW list, IsList(list), NEW a, a = [ask |-> ask, display |-> c]
  PROVE  /\ \E T : Left(ask, others, list) \in Seq(T)
         /\ Left(ask, displays, list) = Before(a, Left(ask, others, list))
<1> DEFINE b == AsksOf(ask, others)
<1> DEFINE t == ToCome(list)
<1>1. PICK U : t \in Seq(U)
  BY ToComeIsList
<1> DEFINE V == {[ask |-> ask, display |-> d] : d \in Displays}
<1>2. b \in Seq(V)
  BY AsksAreList
<1> DEFINE W == U \cup V \cup {a}
<1>3. <<a>> \in Seq(W)
  OBVIOUS
<1>4. U \subseteq W /\ V \subseteq W
  OBVIOUS
<1>5. AsksOf(ask, displays) = <<a>> \o b
  <2>1. displays \in SUBSET Displays /\ c \in displays /\ \A d \in displays : c <= d
    BY DEF First
  <2>2. AsksOf(ask, displays) = <<[ask |-> ask, display |-> c]>> \o AsksOf(ask, displays \ {c})
    BY <2>1, AsksOfFirst
  <2> QED
    BY <2>2 DEF First
<1> HIDE DEF b, t, V, W
<1>6. b \in Seq(W) /\ t \in Seq(W)
  BY <1>1, <1>2, <1>4, SeqMonotonic
<1>7. <<a>> \o (b \o t) = (<<a>> \o b) \o t
  BY <1>3, <1>6, Associative
<1>8. b \o t \in Seq(W)
  BY <1>6
<1>9. AsksOf(ask, displays) \o t = <<a>> \o (b \o t)
  BY <1>5, <1>7
<1>10. \E T : Left(ask, others, list) \in Seq(T)
  BY <1>8 DEF Left, b, t
<1>11. Left(ask, displays, list) = Before(a, Left(ask, others, list))
  BY <1>9 DEF Left, Before, b, t
<1> QED
  BY <1>10, <1>11

\* A display that is not asked leaves a doubt.
LEMMA RestSkip ==
  ASSUME NEW ask, NEW displays, NEW c, NEW others, First(c, displays, others),
         NEW list, IsList(list), NEW a, a = [ask |-> ask, display |-> c],
         NEW whole, NEW done, NEW doubted, Follows(whole, Left(ask, displays, list), done, doubted)
  PROVE  Follows(whole, Left(ask, others, list), done, TRUE)
<1> DEFINE rest == Left(ask, others, list)
<1>1. (\E T : rest \in Seq(T)) /\ Left(ask, displays, list) = Before(a, rest)
  BY RestFirst
<1> HIDE DEF rest
<1>2. PICK T : rest \in Seq(T)
  BY <1>1
<1>3. Follows(whole, <<a>> \o rest, done, doubted)
  BY <1>1 DEF Before
<1>4. Follows(whole, rest, done, TRUE)
  BY <1>2, <1>3, FollowsSkip
<1> QED
  BY <1>4 DEF rest

\* A display that is asked has heard what was next.
LEMMA RestDo ==
  ASSUME NEW ask, NEW displays, NEW c, NEW others, First(c, displays, others),
         NEW list, IsList(list), NEW a, a = [ask |-> ask, display |-> c],
         NEW whole, NEW done, NEW doubted, Follows(whole, Left(ask, displays, list), done, doubted)
  PROVE  Follows(whole, Left(ask, others, list), Append(done, a), doubted)
<1> DEFINE rest == Left(ask, others, list)
<1>1. (\E T : rest \in Seq(T)) /\ Left(ask, displays, list) = Before(a, rest)
  BY RestFirst
<1> HIDE DEF rest
<1>2. PICK T : rest \in Seq(T)
  BY <1>1
<1>3. Follows(whole, <<a>> \o rest, done, doubted)
  BY <1>1 DEF Before
<1>4. Follows(whole, rest, Append(done, a), doubted)
  BY <1>2, <1>3, FollowsDo
<1> QED
  BY <1>4 DEF rest

\* What is printed next.
LEMMA PrintedMore ==
  ASSUME NEW results, \E S : results \in Seq(S), NEW result
  PROVE  /\ \E S : Append(results, result) \in Seq(S)
         /\ Unconfirmed(results) => Unconfirmed(Append(results, result))
         /\ ~Confirmed(result) => Unconfirmed(Append(results, result))
<1>1. PICK S : results \in Seq(S)
  OBVIOUS
<1> DEFINE U == S \cup {result}
<1>2. results \in Seq(U) /\ result \in U
  BY <1>1
<1> HIDE DEF U
<1> DEFINE more == Append(results, result)
<1> DEFINE n == Len(results)
<1>3. more \in Seq(U)
  BY <1>2
<1>4. /\ n \in Nat /\ DOMAIN results = 1 .. n /\ DOMAIN more = 1 .. n + 1
      /\ more[n + 1] = result /\ \A i \in 1 .. n : more[i] = results[i]
  BY <1>2
<1> HIDE DEF more, n
<1>5. n + 1 \in 1 .. n + 1 /\ \A i \in 1 .. n : i \in 1 .. n + 1
  BY <1>4
<1>6. Unconfirmed(results) => Unconfirmed(more)
  BY <1>4, <1>5 DEF Unconfirmed
<1>7. ~Confirmed(result) => Unconfirmed(more)
  BY <1>4, <1>5 DEF Unconfirmed
<1> QED
  BY <1>3, <1>6, <1>7 DEF more

-----------------------------------------------------------------------------
(* An alert that was not shown is not taken for one that was.               *)

\* No answer to an alert is one of the display.
LEMMA AlertMarks ==
  ASSUME ConsoleInv, Exchange, work.event.ask.on \in ThroughAlert
  PROVE  /\ work'.event = work.event
         /\ \A d \in Displays : "payload" \in work'.answers[d] => "payload" \in work.answers[d]
<1>1. link # "none"
  BY ExchangeProceeds DEF Proceeds
<1>2. work.display \in Displays /\ link \in Places[Kind] /\ Kind = "alert"
  BY <1>1, Underway DEF Kind, IsPowerOn, ThroughAlert
<1>3. link \in {"connect", "register", "create", "alert", "close", "dismiss"} /\ ~IsPowerOn
  BY <1>2, Goes DEF Places
<1>4. ASSUME NEW mark \in {"error", "info"}, Answer(mark)
      PROVE  /\ work'.event = work.event
             /\ \A d \in Displays : "payload" \in work'.answers[d] => "payload" \in work.answers[d]
  <2>1. mark \in Marks
    BY DEF Marks
  <2>2. /\ work' = [event |-> work.event, printed |-> work.printed, display |-> work.display,
                    answers |-> work'.answers]
        /\ \A d \in Displays : d # work.display => work'.answers[d] = work.answers[d]
        /\ work'.answers[work.display] = work.answers[work.display] \cup {mark}
    BY <1>2, <1>4, <2>1, Marked DEF ConsoleInv
  <2>3. work'.event = work.event
    BY <2>2
  <2> QED
    BY <2>2, <2>3
<1>5. ASSUME work' = work
      PROVE  /\ work'.event = work.event
             /\ \A d \in Displays : "payload" \in work'.answers[d] => "payload" \in work.answers[d]
  BY <1>5
<1>6. CASE Succeeds
  <2>1. CASE link \in Effect
    <3>1. link = "alert" /\ Answer("info")
      BY <1>3, <1>6, <2>1 DEF Succeeds, Effect
    <3> QED
      BY <1>4, <3>1
  <2>2. CASE link \notin Effect
    BY <1>5, <1>6, <2>2 DEF Succeeds
  <2> QED
    BY <2>1, <2>2
<1>7. CASE Refused
  BY <1>4, <1>7 DEF Refused
<1>8. CASE Fails
  BY <1>3, <1>4, <1>8 DEF Fails
<1>9. CASE Closes
  BY <1>5, <1>9 DEF Closes
<1> QED
  BY <1>3, <1>6, <1>7, <1>8, <1>9 DEF Exchange, PowerState, TriesAgain, GivesUp, Wakes

\* No step makes an answer of an alert that is none.
LEMMA AlertsSayKept ==
  ConsoleInv /\ AlertsSay /\ [Next]_vars => AlertsSay'
<1> SUFFICES ASSUME ConsoleInv, AlertsSay, [Next]_vars PROVE AlertsSay'
  OBVIOUS
<1>1. CASE UNCHANGED work
  BY <1>1 DEF AlertsSay
<1>2. CASE ReadArguments
  <2>1. PICK e, p : work' = [NoWork EXCEPT !.event = e, !.printed = p] \/ work' = NoWork
    BY <1>2 DEF ReadArguments
  <2>2. work'.answers = NoAnswers
    <3>1. CASE work' = NoWork
      BY <3>1 DEF NoWork
    <3>2. CASE work' = [NoWork EXCEPT !.event = e, !.printed = p]
      <4>1. work' = [event |-> e, printed |-> p, display |-> 0, answers |-> NoAnswers]
        BY <3>2 DEF NoWork
      <4> QED
        BY <4>1
    <3> QED
      BY <2>1, <3>1, <3>2
  <2> QED
    BY <2>2 DEF AlertsSay, NoAnswers
<1>3. CASE PrintAnswers
  BY <1>3 DEF PrintAnswers, AlertsSay
<1>4. CASE NextDisplay
  <2>1. /\ Closest \in Displays /\ work # NoWork
        /\ work' = [event |-> work.event, printed |-> work.printed, display |-> Closest,
                    answers |-> work'.answers]
        /\ work'.answers = [work.answers EXCEPT
                              ![Closest] = IF Closest \in Paired THEN {} ELSE {"error"}]
    BY <1>4, NextOne DEF NextDisplay, At
  <2>2. work'.event = work.event /\ work.answers \in [Displays -> SUBSET Marks]
    BY <2>1 DEF ConsoleInv, ConsoleTypeOK
  <2>3. \A d \in Displays : "payload" \in work'.answers[d] => "payload" \in work.answers[d]
    BY <2>1, <2>2
  <2> QED
    BY <2>1, <2>2, <2>3 DEF AlertsSay
<1>5. CASE Exchange
  <2>1. work'.event = work.event /\ work # NoWork
    BY <1>5, ExchangeProceeds DEF Proceeds, Exchange
  <2> QED
    BY <1>5, <2>1, AlertMarks DEF AlertsSay
<1>6. CASE Tick \/ \E d \in Displays : WolSends(d)
  BY <1>1, <1>6 DEF Tick, WolSends
<1> QED
  BY <1>1, <1>2, <1>3, <1>4, <1>5, <1>6
     DEF Next, Sent, Daemon, CommandLineProgram, ConsoleNext, vars, console

-----------------------------------------------------------------------------
\* Taking the next command keeps to the schedule.
LEMMA ReadArgumentsOnSchedule ==
  ASSUME ConsoleInv, OnSchedule, ReadArguments, intent' = intent
  PROVE  OnSchedule'
<1> DEFINE words == Head(left).words
<1> DEFINE outcome == ProcessCommand(words)
<1> DEFINE rest == Tail(left)
<1> DEFINE whole == Intended(intent)
<1>1. /\ work = NoWork /\ left # <<>> /\ link = "none" /\ link' = "none" /\ heard' = heard
      /\ IsList(left) /\ Guarded(left)
      /\ Follows(whole, ToCome(left), heard, Doubt(printed, left, work))
  BY DEF ReadArguments, ConsoleInv, Addressed, OnSchedule, RestOf
<1>2. PICK P : printed \in Seq(P)
  BY DEF OnSchedule
<1>3. Regular(words) /\ IsList(rest) /\ ToCome(left) = CommandAsks(words) \o ToCome(rest)
  BY <1>1, ToComeFirst
<1>4. /\ HasGuard(left) => Guarding(Head(left)) \/ HasGuard(rest)
      /\ Guarded(rest)
      /\ Head(left).printed \/ (~PowersOn(Head(left)) /\ HasGuard(rest))
  BY <1>1, GuardsOfList
<1>5. /\ left' = outcome.again \o rest
      /\ work' = IF outcome.says = "answers"
                 THEN [NoWork EXCEPT !.event = outcome.event, !.printed = Head(left).printed]
                 ELSE NoWork
      /\ printed' = printed \/ \E result : printed' = Append(printed, result)
  BY DEF ReadArguments, PrintIf
<1>6. (\E S : printed' \in Seq(S)) /\ (Unconfirmed(printed) => Unconfirmed(printed'))
  BY <1>2, <1>5, PrintedMore
<1>7. PICK T : rest \in Seq(T)
  BY <1>3 DEF IsList
<1>8. <<>> \o rest = rest
  BY <1>7
<1>9. PICK R : ToCome(rest) \in Seq(R)
  BY <1>3, ToComeIsList
<1>10. <<>> \o ToCome(rest) = ToCome(rest)
  BY <1>9
<1>11. Guarding(Head(left)) <=> /\ Head(left).printed /\ outcome.says = "answers"
                                /\ outcome.event.ask.on \in ThroughAlert
  BY DEF Guarding
<1>12. Lacking(work) = FALSE
  BY <1>1 DEF Lacking
<1> HIDE DEF outcome, words, rest, whole
<1>13. CASE outcome.says = "answers"
  <2>1. /\ outcome.again = <<>> /\ outcome.event # <<>>
        /\ CommandAsks(words) = AsksOf(outcome.event.ask, Matches(outcome.event))
    BY <1>3, <1>13 DEF Regular, IsLeaf, CommandAsks, LeafAsks, outcome
  <2>2. /\ left' = rest
        /\ work' = [event |-> outcome.event, printed |-> Head(left).printed, display |-> 0,
                    answers |-> NoAnswers]
    BY <1>5, <1>8, <1>13, <2>1 DEF NoWork
  <2>3. /\ work' # NoWork /\ work'.event = outcome.event /\ work'.printed = Head(left).printed
        /\ work'.display = 0
    BY <2>1, <2>2 DEF NoWork
  <2>4. PendingOf(work', link') = Matches(outcome.event)
    <3>1. \A d \in Matches(outcome.event) : d > 0
      <4> TAKE d \in Matches(outcome.event)
      <4>1. d \in Displays
        BY DEF Matches
      <4>2. d \in Nat \ {0}
        BY <4>1, DisplaysAreNumbered
      <4> QED
        BY <4>2
    <3> QED
      BY <2>3, <3>1 DEF PendingOf
  <2>5. RestOf(work', link', left') = ToCome(left)
    BY <1>3, <2>1, <2>2, <2>3, <2>4 DEF RestOf, Left
  <2>6. Doubt(printed, left, work) => Doubt(printed', left', work')
    BY <1>4, <1>6, <1>11, <1>12, <2>2, <2>3 DEF Doubt, Lacking
  <2>7. Follows(whole, RestOf(work', link', left'), heard, Doubt(printed', left', work'))
    BY <1>1, <2>5, <2>6, FollowsDoubted
  <2>8. ~work'.printed => HasGuard(left') /\ ~IsPowerOn'
    <3>1. PowersOn(Head(left)) <=> outcome.event.ask.on = "poweron"
      BY <1>13 DEF PowersOn, outcome, words
    <3>2. IsPowerOn' <=> outcome.event.ask.on = "poweron"
      BY <2>3 DEF IsPowerOn
    <3> QED
      BY <1>4, <2>2, <2>3, <3>1, <3>2
  <2> QED
    BY <1>1, <1>3, <1>4, <1>6, <2>2, <2>7, <2>8 DEF OnSchedule, whole
<1>14. CASE outcome.says # "answers"
  <2>1. work' = NoWork /\ ~Guarding(Head(left))
    BY <1>5, <1>11, <1>14
  <2>2. IsList(left') /\ Guarded(left') /\ ToCome(left') = ToCome(left)
        /\ (HasGuard(rest) => HasGuard(left'))
    <3>1. CASE outcome.says # "again"
      <4>1. outcome.again = <<>> /\ CommandAsks(words) = <<>>
        BY <1>3, <1>14, <3>1 DEF Regular, IsLeaf, CommandAsks, LeafAsks, outcome
      <4>2. left' = rest /\ ToCome(left) = ToCome(rest)
        BY <1>3, <1>5, <1>8, <1>10, <4>1
      <4> QED
        BY <1>3, <1>4, <4>2
    <3>2. CASE outcome.says = "again"
      <4> DEFINE again == outcome.again
      <4>1. IsList(again) /\ ToCome(again) = CommandAsks(words) /\ Guarded(again)
        BY <1>3, <3>2, ToComeAgain DEF outcome
      <4> HIDE DEF again
      <4>2. IsList(again \o rest) /\ ToCome(again \o rest) = ToCome(again) \o ToCome(rest)
        BY <1>3, <4>1, ToComeConcat
      <4>3. /\ HasGuard(rest) => HasGuard(again \o rest)
            /\ Guarded(again \o rest)
        BY <1>3, <1>4, <4>1, GuardsOfConcat
      <4>4. left' = again \o rest
        BY <1>5 DEF again
      <4> QED
        BY <1>3, <4>1, <4>2, <4>3, <4>4
    <3> QED
      BY <3>1, <3>2
  <2>3. RestOf(work', link', left') = ToCome(left)
    BY <2>1, <2>2 DEF RestOf
  <2>4. Doubt(printed, left, work) => Doubt(printed', left', work')
    BY <1>4, <1>6, <1>12, <2>1, <2>2 DEF Doubt
  <2>5. Follows(whole, RestOf(work', link', left'), heard, Doubt(printed', left', work'))
    BY <1>1, <2>3, <2>4, FollowsDoubted
  <2> QED
    BY <1>1, <1>6, <2>1, <2>2, <2>5 DEF OnSchedule, whole
<1> QED
  BY <1>13, <1>14

-----------------------------------------------------------------------------
(* Each step of the program keeps to the schedule.                          *)

\* Answers are not taken back.
LEMMA LackingStays ==
  ASSUME NEW w, NEW v, v # NoWork, v.event = w.event, v.printed = w.printed,
         \A d \in Displays : w.answers[d] \subseteq v.answers[d]
  PROVE  Lacking(w) => Lacking(v)
<1> SUFFICES ASSUME Lacking(w) PROVE Lacking(v)
  OBVIOUS
<1>1. CASE w.event.ask.on \in ThroughAlert
  BY <1>1 DEF Lacking
<1>2. CASE \E d \in Displays : ~(w.answers[d] \subseteq {"payload"})
  <2>1. PICK d \in Displays : ~(w.answers[d] \subseteq {"payload"})
    BY <1>2
  <2>2. ~(v.answers[d] \subseteq {"payload"})
    BY <2>1
  <2> QED
    BY <2>2 DEF Lacking
<1> QED
  BY <1>1, <1>2 DEF Lacking

\* Going on to the next display keeps to the schedule.
LEMMA NextDisplayOnSchedule ==
  ASSUME ConsoleInv, OnSchedule, NextDisplay, intent' = intent
  PROVE  OnSchedule'
<1> DEFINE c == Closest
<1> DEFINE whole == Intended(intent)
<1> DEFINE ask == work.event.ask
<1>1. /\ c \in Displays /\ c \in Matches(work.event) /\ c > work.display
      /\ \A e \in Matches(work.event) : e > work.display => c <= e
      /\ work.display \in Nat /\ work.answers[c] = {}
      /\ work' = [event |-> work.event, printed |-> work.printed, display |-> c,
                  answers |-> work'.answers]
      /\ work'.answers = [work.answers EXCEPT ![c] = IF c \in Paired THEN {} ELSE {"error"}]
  BY NextOne
<1>2. /\ work # NoWork /\ link = "none" /\ UNCHANGED <<left, printed, heard>>
      /\ IF c \in Paired THEN link' # "none" ELSE link' = link
  BY DEF NextDisplay, At
<1>3. /\ work'.event = work.event /\ work'.printed = work.printed /\ work'.display = c
      /\ c \in Nat \ {0}
  BY <1>1, DisplaysAreNumbered
<1>4. work' # NoWork
  BY <1>3 DEF NoWork
<1>5. work.answers \in [Displays -> SUBSET Marks]
  BY DEF ConsoleInv, ConsoleTypeOK
<1>6. /\ work'.answers[c] = IF c \in Paired THEN {} ELSE {"error"}
      /\ \A d \in Displays : d # c => work'.answers[d] = work.answers[d]
  BY <1>1, <1>5
<1>7. \A d \in Displays : work.answers[d] \subseteq work'.answers[d]
  BY <1>1, <1>6
<1>8. Lacking(work) => Lacking(work')
  BY <1>3, <1>4, <1>7, LackingStays
<1>9. PendingOf(work, link) = Further
  BY <1>2 DEF PendingOf, Further
<1>10. \A d \in Matches(work.event) : d \in Displays /\ d \in Nat
  <2> TAKE d \in Matches(work.event)
  <2>1. d \in Displays
    BY DEF Matches
  <2> QED
    BY <2>1, DisplaysAreNumbered
<1>11. Follows(whole, Left(ask, Further, left), heard, Doubt(printed, left, work))
  BY <1>2, <1>9 DEF OnSchedule, RestOf
<1>12. Doubt(printed, left, work) => Doubt(printed', left', work')
  BY <1>2, <1>8 DEF Doubt
<1>13. /\ IsList(left) /\ Guarded(left)
       /\ ~work.printed => HasGuard(left) /\ ~IsPowerOn
  BY <1>2 DEF OnSchedule
<1>14. RestOf(work', link', left') = Left(ask, PendingOf(work', link'), left)
  BY <1>2, <1>3, <1>4 DEF RestOf
<1> HIDE DEF c, whole, ask
<1>15. Follows(whole, RestOf(work', link', left'), heard, Doubt(printed', left', work'))
  <2>1. CASE c \in Paired
    <3>1. link' # "none" /\ Unasked(work')
      BY <1>2, <1>3, <1>6, <2>1 DEF Unasked
    <3>2. PendingOf(work', link') = Further
      BY <1>1, <1>3, <1>10, <3>1 DEF PendingOf, Further
    <3> QED
      BY <1>11, <1>12, <1>14, <3>2, FollowsDoubted
  <2>2. CASE c \notin Paired
    <3>1. PendingOf(work', link') = {d \in Matches(work.event) : d > c}
      BY <1>2, <1>3, <2>2 DEF PendingOf
    <3>2. First(c, Further, PendingOf(work', link'))
      BY <1>1, <1>3, <1>10, <3>1 DEF First, Further
    <3> DEFINE a == [ask |-> ask, display |-> c]
    <3>3. a = [ask |-> ask, display |-> c]
      OBVIOUS
    <3> HIDE DEF a
    <3>4. Follows(whole, Left(ask, PendingOf(work', link'), left), heard, TRUE)
      BY <1>11, <1>13, <3>2, <3>3, RestSkip
    <3>5. Doubt(printed', left', work')
      <4>1. CASE work.printed
        <5>1. ~(work'.answers[c] \subseteq {"payload"})
          BY <1>6, <2>2
        <5>2. Lacking(work')
          BY <1>1, <1>3, <1>4, <4>1, <5>1 DEF Lacking
        <5> QED
          BY <5>2 DEF Doubt
      <4>2. CASE ~work.printed
        BY <1>2, <1>13, <4>2 DEF Doubt
      <4> QED
        BY <4>1, <4>2
    <3> QED
      BY <1>14, <3>4, <3>5, FollowsDoubted
  <2> QED
    BY <2>1, <2>2
<1>16. /\ \E S : printed' \in Seq(S)
       /\ ~work'.printed => HasGuard(left') /\ ~IsPowerOn'
  BY <1>2, <1>3, <1>13 DEF OnSchedule, IsPowerOn
<1> QED
  BY <1>2, <1>13, <1>15, <1>16 DEF OnSchedule, whole

\* Printing the answers keeps to the schedule.
LEMMA PrintAnswersOnSchedule ==
  ASSUME ConsoleInv, AlertsSay, OnSchedule, PrintAnswers, intent' = intent
  PROVE  OnSchedule'
<1> DEFINE says == IF Matches(work.event) = {} THEN "error" ELSE "answers"
<1> DEFINE result == Result(says, work.answers)
<1> DEFINE whole == Intended(intent)
<1>1. /\ work # NoWork /\ link = "none" /\ Further = {} /\ work' = NoWork
      /\ UNCHANGED <<left, link, heard>>
      /\ printed' = IF work.printed THEN Append(printed, result) ELSE printed
  BY DEF PrintAnswers, At, PrintIf
<1>2. IsList(left) /\ Guarded(left) /\ (~work.printed => HasGuard(left))
  BY <1>1 DEF OnSchedule
<1>3. PICK P : printed \in Seq(P)
  BY DEF OnSchedule
<1>4. PendingOf(work, link) = {}
  BY <1>1 DEF PendingOf, Further
<1>5. PICK R : ToCome(left) \in Seq(R)
  BY <1>2, ToComeIsList
<1>6. RestOf(work, link, left) = ToCome(left)
  <2>1. <<>> \o ToCome(left) = ToCome(left)
    BY <1>5
  <2> QED
    BY <1>1, <1>4, <2>1, AsksOfNone DEF RestOf, Left
<1>7. RestOf(work', link', left') = ToCome(left)
  BY <1>1 DEF RestOf
<1> HIDE DEF result
<1>8. /\ \E S : printed' \in Seq(S)
      /\ Unconfirmed(printed) => Unconfirmed(printed')
      /\ work.printed /\ ~Confirmed(result) => Unconfirmed(printed')
  BY <1>1, <1>3, PrintedMore
<1>9. Lacking(work) => ~Confirmed(result)
  <2> SUFFICES ASSUME Lacking(work), Confirmed(result) PROVE FALSE
    OBVIOUS
  <2>1. Matches(work.event) # {} /\ \A d \in Displays : work.answers[d] \subseteq {"payload"}
    BY DEF Confirmed, Result, result
  <2>2. work.event.ask.on \in ThroughAlert
    BY <2>1 DEF Lacking
  <2>3. PICK d \in Matches(work.event) : TRUE
    BY <2>1
  <2>4. d \in Displays /\ d \in Nat /\ work.display \in Nat
    BY DisplaysAreNumbered DEF Matches, ConsoleInv, ConsoleTypeOK
  <2>5. ~(d > work.display)
    BY <1>1 DEF Further
  <2>6. d < work.display \/ d = work.display
    BY <2>4, <2>5
  <2>7. work.answers[d] # {}
    BY <1>1, <2>4, <2>6 DEF ConsoleInv, Treated, Behind
  <2>8. "payload" \notin work.answers[d]
    BY <1>1, <2>2, <2>4 DEF AlertsSay
  <2> QED
    BY <2>1, <2>4, <2>7, <2>8
<1>10. Doubt(printed, left, work) => Doubt(printed', left', work')
  BY <1>1, <1>8, <1>9 DEF Doubt, Lacking
<1>11. Follows(whole, ToCome(left), heard, Doubt(printed, left, work))
  BY <1>6 DEF OnSchedule
<1>12. Follows(whole, RestOf(work', link', left'), heard, Doubt(printed', left', work'))
  BY <1>7, <1>10, <1>11, FollowsDoubted
<1> QED
  BY <1>1, <1>2, <1>8, <1>12 DEF OnSchedule

\* Each step of an exchange with a display keeps to the schedule.
LEMMA ExchangeOnSchedule ==
  ASSUME ConsoleInv, OnSchedule, Exchange, intent' = intent
  PROVE  OnSchedule'
<1> DEFINE d == work.display
<1> DEFINE ask == work.event.ask
<1> DEFINE a == [ask |-> ask, display |-> d]
<1> DEFINE whole == Intended(intent)
<1> DEFINE later == {e \in Matches(work.event) : e > d}
<1>1. Proceeds
  BY ExchangeProceeds
<1>2. /\ d \in Displays /\ d \in Matches(work.event) /\ work # NoWork /\ link # "none"
      /\ d \in Nat \ {0}
  BY <1>1, Underway, DisplaysAreNumbered DEF Proceeds
<1>3. UNCHANGED <<left, printed>>
  BY DEF Exchange, Succeeds, PowerState, Refused, Closes, Fails, TriesAgain, GivesUp, Wakes
<1>4. work'.event = work.event /\ work'.printed = work.printed /\ work'.display = d
  BY <1>1 DEF Proceeds
<1>5. work' # NoWork
  BY <1>2, <1>4 DEF NoWork
<1>6. \A e \in Displays : work.answers[e] \subseteq work'.answers[e]
  BY <1>1 DEF Proceeds
<1>7. Lacking(work) => Lacking(work')
  BY <1>4, <1>5, <1>6, LackingStays
<1>8. Doubt(printed, left, work) => Doubt(printed', left', work')
  BY <1>3, <1>7 DEF Doubt
<1>9. /\ IsList(left) /\ Guarded(left)
      /\ ~work.printed => HasGuard(left) /\ ~IsPowerOn
  BY <1>2 DEF OnSchedule
<1>10. \A e \in Matches(work.event) : e \in Displays /\ e \in Nat
  <2> TAKE e \in Matches(work.event)
  <2>1. e \in Displays
    BY DEF Matches
  <2> QED
    BY <2>1, DisplaysAreNumbered
<1>11. /\ PendingOf(work, link) = IF Unasked(work) THEN later \cup {d} ELSE later
       /\ PendingOf(work', link') = IF link' # "none" /\ Unasked(work')
                                    THEN later \cup {d} ELSE later
  BY <1>2, <1>4, <1>10 DEF PendingOf
<1>12. First(d, later \cup {d}, later)
  BY <1>2, <1>10 DEF First
<1>13. Follows(whole, Left(ask, PendingOf(work, link), left), heard, Doubt(printed, left, work))
  BY <1>2 DEF OnSchedule, RestOf
<1>14. RestOf(work', link', left') = Left(ask, PendingOf(work', link'), left)
  BY <1>3, <1>4, <1>5 DEF RestOf
<1>15. heard' = heard \/ heard' = Append(heard, a)
  BY <1>1 DEF Proceeds, Carried
<1>16. heard' # heard => Unasked(work) /\ ~Unasked(work')
  BY <1>1, <1>4 DEF Proceeds, Unasked, IsPowerOn
<1>17. a = [ask |-> ask, display |-> d]
  OBVIOUS
<1> HIDE DEF a, later, whole
<1>18. Follows(whole, RestOf(work', link', left'), heard', Doubt(printed', left', work'))
  <2>1. CASE heard' # heard
    <3>1. PendingOf(work, link) = later \cup {d} /\ PendingOf(work', link') = later
      BY <1>11, <1>16, <2>1
    <3> DEFINE most == later \cup {d}
    <3>2. First(d, most, later)
      BY <1>12
    <3>3. Follows(whole, Left(ask, most, left), heard, Doubt(printed, left, work))
      BY <1>13, <3>1
    <3> HIDE DEF most
    <3>4. Follows(whole, Left(ask, later, left), Append(heard, a), Doubt(printed, left, work))
      BY <1>9, <1>17, <3>2, <3>3, RestDo
    <3>5. heard' = Append(heard, a)
      BY <1>15, <2>1
    <3> QED
      BY <1>8, <1>14, <3>1, <3>4, <3>5, FollowsDoubted
  <2>2. CASE heard' = heard /\ PendingOf(work', link') = PendingOf(work, link)
    BY <1>8, <1>13, <1>14, <2>2, FollowsDoubted
  <2>3. CASE heard' = heard /\ PendingOf(work', link') # PendingOf(work, link)
    <3>1. heard' # Carried
      <4>1. PICK S : heard \in Seq(S)
        BY DEF ConsoleInv, ConsoleTypeOK
      <4>2. Len(Append(heard, a)) # Len(heard)
        BY <4>1
      <4> QED
        BY <2>3, <4>2 DEF Carried, a
    <3>2. "payload" \in work'.answers[d] => "payload" \in work.answers[d]
      BY <1>1, <3>1 DEF Proceeds
    <3>3. Unasked(work') => Unasked(work)
      BY <1>2, <1>4, <1>6 DEF Unasked
    <3>4. Unasked(work) /\ ~(link' # "none" /\ Unasked(work'))
      BY <1>11, <2>3, <3>3
    <3>5. "payload" \notin work'.answers[d] /\ work'.answers[d] # {}
      <4>1. "payload" \notin work.answers[d]
        BY <3>4 DEF Unasked
      <4>2. CASE link' = "none"
        BY <1>1, <3>2, <4>1, <4>2 DEF Proceeds
      <4>3. CASE ~Unasked(work')
        BY <1>4, <3>2, <4>1, <4>3 DEF Unasked
      <4> QED
        BY <3>4, <4>2, <4>3
    <3>6. Doubt(printed', left', work')
      <4>1. CASE work.printed
        <5>1. ~(work'.answers[d] \subseteq {"payload"})
          BY <3>5
        <5>2. Lacking(work')
          BY <1>2, <1>4, <1>5, <4>1, <5>1 DEF Lacking
        <5> QED
          BY <5>2 DEF Doubt
      <4>2. CASE ~work.printed
        BY <1>3, <1>9, <4>2 DEF Doubt
      <4> QED
        BY <4>1, <4>2
    <3> DEFINE most == later \cup {d}
    <3>7. First(d, most, later)
      BY <1>12
    <3>8. Follows(whole, Left(ask, most, left), heard, Doubt(printed, left, work))
      BY <1>11, <1>13, <3>4
    <3>9. PendingOf(work', link') = later
      BY <1>11, <3>4
    <3> HIDE DEF most
    <3>10. Follows(whole, Left(ask, later, left), heard, TRUE)
      BY <1>9, <1>17, <3>7, <3>8, RestSkip
    <3> QED
      BY <1>14, <2>3, <3>6, <3>9, <3>10, FollowsDoubted
  <2> QED
    BY <2>1, <2>2, <2>3
<1>19. /\ \E S : printed' \in Seq(S)
       /\ ~work'.printed => HasGuard(left') /\ ~IsPowerOn'
  BY <1>3, <1>4, <1>9 DEF OnSchedule, IsPowerOn
<1> QED
  BY <1>3, <1>9, <1>18, <1>19 DEF OnSchedule, whole

\* Each step of the program keeps the invariant.
LEMMA OrderStep ==
  ConsoleInv /\ OrderInv /\ [Next]_vars => OrderInv'
<1> SUFFICES ASSUME ConsoleInv, OrderInv, [Next]_vars PROVE OrderInv'
  OBVIOUS
<1>1. AlertsSay /\ AlertsSay' /\ intent' = intent
  BY AlertsSayKept DEF OrderInv, Next, vars, Sent, Daemon, CommandLineProgram
<1> SUFFICES ASSUME written' = "arguments", All(intent, ConsoleUnderstands)
             PROVE  OnSchedule'
  BY <1>1 DEF OrderInv
<1>2. written' = written /\ ~Sent
  BY DEF Next, vars, Sent, Daemon, CommandLineProgram
<1>3. OnSchedule
  BY <1>2 DEF OrderInv
<1>4. CASE UNCHANGED <<left, printed, work, link, heard>>
  BY <1>1, <1>3, <1>4 DEF OnSchedule, IsPowerOn
<1>5. CASE ReadArguments
  BY <1>1, <1>3, <1>5, ReadArgumentsOnSchedule
<1>6. CASE NextDisplay
  BY <1>1, <1>3, <1>6, NextDisplayOnSchedule
<1>7. CASE PrintAnswers
  BY <1>1, <1>3, <1>7, PrintAnswersOnSchedule
<1>8. CASE Exchange
  BY <1>1, <1>3, <1>8, ExchangeOnSchedule
<1>9. CASE Tick \/ \E d \in Displays : WolSends(d)
  BY <1>4, <1>9 DEF Tick, WolSends
<1> QED
  BY <1>2, <1>4, <1>5, <1>6, <1>7, <1>8, <1>9
     DEF Next, Daemon, CommandLineProgram, ConsoleNext, vars, console

-----------------------------------------------------------------------------
(* How a command is read: each operator of ProcessCommand reads the         *)
(* commands with its own names, and no other.                               *)

\* The names each operator reads.
OutputNames == {"help", "of", "od", "ok", "output"}
PowerNames == {"poweron", "screenon", "poweroff", "screenoff"}
HdmiNames == {"sethdmi"}
SoundNames == {"volume", "mute", "unmute"}
MenuNames == {"servicemenu", "freesyncinfo", "servicemenu_legacy_enable",
              "servicemenu_legacy_disable"}
PanelNames == {"servicemenu_tpc_enable", "servicemenu_tpc_disable", "servicemenu_gsr_enable",
               "servicemenu_gsr_disable"}
ButtonNames == {"button", "button_nocheck"}
SettingsNames == {"settings_picture", "settings_other", "settings_options"}
RequestNames == {"request", "request_with_param", "get_system_settings"}
AppNames == {"start_app", "start_app_with_param", "close_app"}
CurveNames == {"set_curve_preset", "adjust_curve_preset"}

\* An operator says nothing of a command with a name that is not its own.
LEMMA OthersAreSilent ==
  ASSUME NEW words, NEW name, words[1] = <<Dash, name>>
  PROVE  /\ name \notin OutputNames => OutputReads(words) = <<>>
         /\ name \notin PowerNames => PowerReads(words) = <<>>
         /\ name \notin HdmiNames => HdmiReads(words) = <<>>
         /\ name \notin SoundNames => SoundReads(words) = <<>>
         /\ name \notin MenuNames => MenuReads(words) = <<>>
         /\ name \notin PanelNames => PanelReads(words) = <<>>
         /\ name \notin ButtonNames => ButtonReads(words) = <<>>
         /\ name \notin SettingsNames => SettingsReads(words) = <<>>
         /\ name \notin RequestNames => RequestReads(words) = <<>>
         /\ name \notin AppNames => AppReads(words) = <<>>
         /\ name \notin CurveNames => CurveReads(words) = <<>>
         /\ name # "set_curvature" => CurvatureReads(words) = <<>>
         /\ name # "set_input_type" => InputTypeReads(words) = <<>>
         /\ name \notin ApiCommands => TableReads(words) = <<>>
<1>1. \A names : Named(words, names) <=> name \in names
  BY DEF Named
<1>2. name \notin OutputNames => OutputReads(words) = <<>>
  BY <1>1 DEF OutputReads, OutputNames
<1>3. name \notin PowerNames => PowerReads(words) = <<>>
  BY <1>1 DEF PowerReads, PowerNames
<1>4. name \notin HdmiNames => HdmiReads(words) = <<>>
  BY DEF HdmiReads, HdmiNames
<1>5. name \notin SoundNames => SoundReads(words) = <<>>
  BY <1>1 DEF SoundReads, SoundNames
<1>6. name \notin MenuNames => MenuReads(words) = <<>>
  BY <1>1 DEF MenuReads, MenuNames
<1>7. name \notin PanelNames => PanelReads(words) = <<>>
  BY <1>1 DEF PanelReads, PanelNames
<1>8. name \notin ButtonNames => ButtonReads(words) = <<>>
  BY <1>1 DEF ButtonReads, ButtonNames
<1>9. name \notin SettingsNames => SettingsReads(words) = <<>>
  BY <1>1 DEF SettingsReads, SettingsNames
<1>10. name \notin RequestNames => RequestReads(words) = <<>>
  BY <1>1 DEF RequestReads, RequestNames
<1>11. name \notin AppNames => AppReads(words) = <<>>
  BY <1>1 DEF AppReads, AppNames
<1>12. name \notin CurveNames => CurveReads(words) = <<>>
  BY <1>1 DEF CurveReads, CurveNames
<1>13. name # "set_curvature" => CurvatureReads(words) = <<>>
  BY <1>1 DEF CurvatureReads
<1>14. name # "set_input_type" => InputTypeReads(words) = <<>>
  BY <1>1 DEF InputTypeReads
<1>15. name \notin ApiCommands => TableReads(words) = <<>>
  BY <1>1 DEF TableReads
<1> QED
  BY <1>2, <1>3, <1>4, <1>5, <1>6, <1>7, <1>8, <1>9, <1>10, <1>11, <1>12, <1>13, <1>14, <1>15

\* Lists of which each is empty or has this one element.
LEMMA Joined ==
  ASSUME NEW x, NEW a \in Seq({x}), NEW b \in Seq({x})
  PROVE  a \o b \in Seq({x}) /\ (a # <<>> \/ b # <<>> => a \o b # <<>>)
<1>1. a \o b \in Seq({x}) /\ Len(a \o b) = Len(a) + Len(b)
  BY ConcatProperties
<1>2. Len(a) \in Nat /\ Len(b) \in Nat /\ (a # <<>> => Len(a) # 0) /\ (b # <<>> => Len(b) # 0)
  OBVIOUS
<1>3. a # <<>> \/ b # <<>> => Len(a \o b) # 0
  BY <1>1, <1>2
<1> QED
  BY <1>1, <1>3

\* One operator reads the command, and the others do not.
LEMMA OneReads ==
  ASSUME NEW words, NEW x,
         NEW all, all = {OutputReads(words), PowerReads(words), HdmiReads(words),
                         SoundReads(words), MenuReads(words), PanelReads(words),
                         ButtonReads(words), SettingsReads(words), RequestReads(words),
                         AppReads(words), CurveReads(words), CurvatureReads(words),
                         InputTypeReads(words), TableReads(words)},
         all \subseteq {<<>>, <<x>>}, <<x>> \in all
  PROVE  ProcessCommand(words) = x
<1> DEFINE a1 == OutputReads(words)
<1> DEFINE a2 == PowerReads(words)
<1> DEFINE a3 == HdmiReads(words)
<1> DEFINE a4 == SoundReads(words)
<1> DEFINE a5 == MenuReads(words)
<1> DEFINE a6 == PanelReads(words)
<1> DEFINE a7 == ButtonReads(words)
<1> DEFINE a8 == SettingsReads(words)
<1> DEFINE a9 == RequestReads(words)
<1> DEFINE a10 == AppReads(words)
<1> DEFINE a11 == CurveReads(words)
<1> DEFINE a12 == CurvatureReads(words)
<1> DEFINE a13 == InputTypeReads(words)
<1> DEFINE a14 == TableReads(words)
<1> DEFINE S == Seq({x})
<1>1. <<>> \in S /\ <<x>> \in S /\ <<x>> # <<>>
  OBVIOUS
<1>2. /\ a1 \in S /\ a2 \in S /\ a3 \in S /\ a4 \in S /\ a5 \in S /\ a6 \in S /\ a7 \in S
      /\ a8 \in S /\ a9 \in S /\ a10 \in S /\ a11 \in S /\ a12 \in S /\ a13 \in S /\ a14 \in S
  BY <1>1
<1>3. \/ a1 # <<>> \/ a2 # <<>> \/ a3 # <<>> \/ a4 # <<>> \/ a5 # <<>> \/ a6 # <<>> \/ a7 # <<>>
      \/ a8 # <<>> \/ a9 # <<>> \/ a10 # <<>> \/ a11 # <<>> \/ a12 # <<>> \/ a13 # <<>>
      \/ a14 # <<>>
  BY <1>1
<1> DEFINE b2 == a1 \o a2
<1> DEFINE b3 == b2 \o a3
<1> DEFINE b4 == b3 \o a4
<1> DEFINE b5 == b4 \o a5
<1> DEFINE b6 == b5 \o a6
<1> DEFINE b7 == b6 \o a7
<1> DEFINE b8 == b7 \o a8
<1> DEFINE b9 == b8 \o a9
<1> DEFINE b10 == b9 \o a10
<1> DEFINE b11 == b10 \o a11
<1> DEFINE b12 == b11 \o a12
<1> DEFINE b13 == b12 \o a13
<1> DEFINE b14 == b13 \o a14
<1>4. ProcessCommand(words) = IF b14 = <<>> THEN Says("error")[1] ELSE b14[1]
  BY DEF ProcessCommand
<1> HIDE DEF a1, a2, a3, a4, a5, a6, a7, a8, a9, a10, a11, a12, a13, a14
<1> DEFINE Grows(b, a, n) == n \in S /\ (b # <<>> \/ a # <<>> => n # <<>>)
<1>5. \A b \in S, a \in S : Grows(b, a, b \o a)
  BY Joined
<1> HIDE DEF S
<1>6. Grows(a1, a2, b2)
  BY <1>2, <1>5
<1>7. Grows(b2, a3, b3)
  BY <1>2, <1>5, <1>6
<1>8. Grows(b3, a4, b4)
  BY <1>2, <1>5, <1>7
<1>9. Grows(b4, a5, b5)
  BY <1>2, <1>5, <1>8
<1>10. Grows(b5, a6, b6)
  BY <1>2, <1>5, <1>9
<1>11. Grows(b6, a7, b7)
  BY <1>2, <1>5, <1>10
<1>12. Grows(b7, a8, b8)
  BY <1>2, <1>5, <1>11
<1>13. Grows(b8, a9, b9)
  BY <1>2, <1>5, <1>12
<1>14. Grows(b9, a10, b10)
  BY <1>2, <1>5, <1>13
<1>15. Grows(b10, a11, b11)
  BY <1>2, <1>5, <1>14
<1>16. Grows(b11, a12, b12)
  BY <1>2, <1>5, <1>15
<1>17. Grows(b12, a13, b13)
  BY <1>2, <1>5, <1>16
<1>18. Grows(b13, a14, b14)
  BY <1>2, <1>5, <1>17
<1> HIDE DEF b2, b3, b4, b5, b6, b7, b8, b9, b10, b11, b12, b13, b14
<1>19. b14 \in S /\ b14 # <<>>
  BY <1>3, <1>6, <1>7, <1>8, <1>9, <1>10, <1>11, <1>12, <1>13, <1>14, <1>15, <1>16, <1>17, <1>18
<1>20. b14[1] = x
  BY <1>19 DEF S
<1> QED
  BY <1>4, <1>19, <1>20

-----------------------------------------------------------------------------
(* The words of a command: its name, its arguments and its displays.        *)

\* A command as it is written: its first word, its arguments and its displays.
Written(first, args, to) == <<first>> \o args \o to

\* These are its words.
Consists(words, first, args, to) ==
    /\ Len(words) = 1 + Len(args) + Len(to) /\ words[1] = first
    /\ \A i \in DOMAIN args : words[i + 1] = args[i]
    /\ Devices(words, 1 + Len(args)) = to
    /\ \E S : words \in Seq(S)

\* Where the words of a command are.
LEMMA WrittenIs ==
  ASSUME NEW T, NEW first, NEW args \in Seq(T), NEW to \in Seq(T)
  PROVE  Consists(Written(first, args, to), first, args, to)
<1> DEFINE T2 == T \cup {first}
<1> DEFINE h == <<first>>
<1> DEFINE n == Len(args)
<1> DEFINE m == Len(to)
<1>1. h \in Seq(T2) /\ Len(h) = 1 /\ h[1] = first
  OBVIOUS
<1>2. T \subseteq T2
  OBVIOUS
<1> HIDE DEF T2, h
<1>3. args \in Seq(T2) /\ to \in Seq(T2) /\ n \in Nat /\ m \in Nat
  BY <1>2, SeqMonotonic
<1> DEFINE f == h \o args
<1>4. f \in Seq(T2) /\ Len(f) = 1 + n
  <2>1. f \in Seq(T2)
    BY <1>1, <1>3
  <2> QED
    BY <1>1, <1>3, <2>1, ConcatProperties
<1>5. /\ f[1] = h[1] /\ \A i \in 1 .. n : f[i + 1] = args[i]
  <2>1. \A i \in 1 .. Len(h) + n : f[i] = IF i <= Len(h) THEN h[i] ELSE args[i - Len(h)]
    BY <1>1, <1>3, ConcatProperties
  <2>2. \A i \in 1 .. 1 + n : f[i] = IF i <= 1 THEN h[i] ELSE args[i - 1]
    BY <1>1, <2>1
  <2>3. \A i \in 1 .. n : i + 1 \in 1 .. 1 + n /\ ~(i + 1 <= 1) /\ (i + 1) - 1 = i
    BY <1>3
  <2>4. 1 \in 1 .. 1 + n
    BY <1>3
  <2> HIDE DEF f, n
  <2>5. f[1] = h[1]
    BY <2>2, <2>4
  <2>6. \A i \in 1 .. n : f[i + 1] = args[i]
    <3> TAKE i \in 1 .. n
    <3> DEFINE j == i + 1
    <3>1. j \in 1 .. 1 + n /\ ~(j <= 1) /\ j - 1 = i
      BY <2>3
    <3> HIDE DEF j
    <3>2. f[j] = args[i]
      BY <2>2, <3>1
    <3> QED
      BY <3>2 DEF j
  <2> QED
    BY <2>5, <2>6
<1> HIDE DEF f
<1> DEFINE words == f \o to
<1>6. words \in Seq(T2) /\ Len(words) = 1 + n + m
  BY <1>3, <1>4
<1>7. \A i \in 1 .. 1 + n + m : words[i] = IF i <= 1 + n THEN f[i] ELSE to[i - (1 + n)]
  <2>1. \A i \in 1 .. Len(f) + m : words[i] = IF i <= Len(f) THEN f[i] ELSE to[i - Len(f)]
    BY <1>3, <1>4, ConcatProperties
  <2> QED
    BY <1>4, <2>1
<1>8. Written(first, args, to) = words
  BY DEF Written, h, f
<1> HIDE DEF words, n, m
<1>9. words[1] = first
  <2>1. 1 \in 1 .. 1 + n + m /\ 1 <= 1 + n
    BY <1>3
  <2> QED
    BY <1>1, <1>5, <1>7, <2>1
<1>10. \A i \in 1 .. n : words[i + 1] = args[i]
  <2> TAKE i \in 1 .. n
  <2>1. i + 1 \in 1 .. 1 + n + m /\ i + 1 <= 1 + n
    BY <1>3
  <2> QED
    BY <1>5, <1>7, <2>1
<1>11. DOMAIN args = 1 .. n
  BY DEF n
<1>12. Devices(words, 1 + n) = to
  <2> DEFINE back == SubSeq(words, 1 + n + 1, 1 + n + m)
  <2>1. Devices(words, 1 + n) = back
    BY <1>6 DEF Devices, From
  <2>2. \A i \in 1 .. m : to[i] = words[1 + n + i]
    <3> TAKE i \in 1 .. m
    <3>1. 1 + n + i \in 1 .. 1 + n + m /\ ~(1 + n + i <= 1 + n) /\ (1 + n + i) - (1 + n) = i
      BY <1>3
    <3> QED
      BY <1>7, <3>1
  <2>3. back \in Seq(T2) /\ Len(back) = m /\ \A i \in 1 .. m : back[i] = words[1 + n + i]
    <3> DEFINE p == 1 + n + 1
    <3> DEFINE q == 1 + n + m
    <3>1. p \in Int /\ q \in Int /\ \A i \in p .. q : words[i] \in T2
      BY <1>3, <1>6
    <3>2. q - p + 1 = m /\ (~(p <= q) => m = 0) /\ \A i \in 1 .. m : p + i - 1 = 1 + n + i
      BY <1>3
    <3> HIDE DEF p, q
    <3>3. /\ SubSeq(words, p, q) \in Seq(T2)
          /\ Len(SubSeq(words, p, q)) = IF p <= q THEN q - p + 1 ELSE 0
          /\ \A i \in 1 .. q - p + 1 : SubSeq(words, p, q)[i] = words[p + i - 1]
      BY <3>1, SubSeqProperties
    <3>4. back = SubSeq(words, p, q)
      BY DEF p, q
    <3> HIDE DEF back
    <3> QED
      BY <3>2, <3>3, <3>4
  <2> HIDE DEF back
  <2>4. Len(to) = m
    BY DEF m
  <2>5. \A i \in 1 .. Len(back) : back[i] = to[i]
    BY <2>2, <2>3
  <2>6. back = to
    BY <1>3, <2>3, <2>4, <2>5, SeqEqual
  <2> QED
    BY <2>1, <2>6
<1>13. \E S : words \in Seq(S)
  BY <1>6
<1> QED
  BY <1>6, <1>8, <1>9, <1>10, <1>11, <1>12, <1>13 DEF n, m, Consists

-----------------------------------------------------------------------------
(* ProcessCommand by the name of the command.                               *)

\* The operator of a family reads the commands with its names.
LEMMA ReadByItsFamily ==
  ASSUME NEW words, NEW name, words[1] = <<Dash, name>>, NEW x
  PROVE  /\ name \in OutputNames /\ OutputReads(words) = <<x>> => ProcessCommand(words) = x
         /\ name \in PowerNames /\ PowerReads(words) = <<x>> => ProcessCommand(words) = x
         /\ name \in HdmiNames /\ HdmiReads(words) = <<x>> => ProcessCommand(words) = x
         /\ name \in SoundNames /\ SoundReads(words) = <<x>> => ProcessCommand(words) = x
         /\ name \in MenuNames /\ MenuReads(words) = <<x>> => ProcessCommand(words) = x
         /\ name \in PanelNames /\ PanelReads(words) = <<x>> => ProcessCommand(words) = x
         /\ name \in ButtonNames /\ ButtonReads(words) = <<x>> => ProcessCommand(words) = x
         /\ name \in SettingsNames /\ SettingsReads(words) = <<x>> => ProcessCommand(words) = x
         /\ name \in RequestNames /\ RequestReads(words) = <<x>> => ProcessCommand(words) = x
         /\ name \in AppNames /\ AppReads(words) = <<x>> => ProcessCommand(words) = x
         /\ name \in CurveNames /\ CurveReads(words) = <<x>> => ProcessCommand(words) = x
         /\ name \in {"set_curvature"} /\ CurvatureReads(words) = <<x>> => ProcessCommand(words) = x
         /\ name \in {"set_input_type"} /\ InputTypeReads(words) = <<x>>
            => ProcessCommand(words) = x
         /\ name \in ApiCommands /\ TableReads(words) = <<x>> => ProcessCommand(words) = x
<1> DEFINE all == {OutputReads(words), PowerReads(words), HdmiReads(words),
                   SoundReads(words), MenuReads(words), PanelReads(words),
                   ButtonReads(words), SettingsReads(words), RequestReads(words),
                   AppReads(words), CurveReads(words), CurvatureReads(words),
                   InputTypeReads(words), TableReads(words)}
<1>1. all \subseteq {<<>>, <<x>>} /\ <<x>> \in all => ProcessCommand(words) = x
  BY OneReads
<1>2. ASSUME name \in OutputNames, OutputReads(words) = <<x>> PROVE ProcessCommand(words) = x
  <2>1. /\ name \notin PowerNames /\ name \notin HdmiNames /\ name \notin SoundNames
        /\ name \notin MenuNames /\ name \notin PanelNames /\ name \notin ButtonNames
        /\ name \notin SettingsNames /\ name \notin RequestNames /\ name \notin AppNames
        /\ name \notin CurveNames /\ name # "set_curvature" /\ name # "set_input_type"
        /\ name \notin ApiCommands
    BY <1>2 DEF OutputNames, PowerNames, HdmiNames, SoundNames, MenuNames, PanelNames,
           ButtonNames, SettingsNames, RequestNames, AppNames, CurveNames, ApiCommands
  <2>2. /\ all \subseteq {<<>>, <<x>>} /\ <<x>> \in all
    BY <1>2, <2>1, OthersAreSilent
  <2> QED
    BY <1>1, <2>2
<1>3. ASSUME name \in PowerNames, PowerReads(words) = <<x>> PROVE ProcessCommand(words) = x
  <2>1. /\ name \notin OutputNames /\ name \notin HdmiNames /\ name \notin SoundNames
        /\ name \notin MenuNames /\ name \notin PanelNames /\ name \notin ButtonNames
        /\ name \notin SettingsNames /\ name \notin RequestNames /\ name \notin AppNames
        /\ name \notin CurveNames /\ name # "set_curvature" /\ name # "set_input_type"
        /\ name \notin ApiCommands
    BY <1>3 DEF OutputNames, PowerNames, HdmiNames, SoundNames, MenuNames, PanelNames,
           ButtonNames, SettingsNames, RequestNames, AppNames, CurveNames, ApiCommands
  <2>2. /\ all \subseteq {<<>>, <<x>>} /\ <<x>> \in all
    BY <1>3, <2>1, OthersAreSilent
  <2> QED
    BY <1>1, <2>2
<1>4. ASSUME name \in HdmiNames, HdmiReads(words) = <<x>> PROVE ProcessCommand(words) = x
  <2>1. /\ name \notin OutputNames /\ name \notin PowerNames /\ name \notin SoundNames
        /\ name \notin MenuNames /\ name \notin PanelNames /\ name \notin ButtonNames
        /\ name \notin SettingsNames /\ name \notin RequestNames /\ name \notin AppNames
        /\ name \notin CurveNames /\ name # "set_curvature" /\ name # "set_input_type"
        /\ name \notin ApiCommands
    BY <1>4 DEF OutputNames, PowerNames, HdmiNames, SoundNames, MenuNames, PanelNames,
           ButtonNames, SettingsNames, RequestNames, AppNames, CurveNames, ApiCommands
  <2>2. /\ all \subseteq {<<>>, <<x>>} /\ <<x>> \in all
    BY <1>4, <2>1, OthersAreSilent
  <2> QED
    BY <1>1, <2>2
<1>5. ASSUME name \in SoundNames, SoundReads(words) = <<x>> PROVE ProcessCommand(words) = x
  <2>1. /\ name \notin OutputNames /\ name \notin PowerNames /\ name \notin HdmiNames
        /\ name \notin MenuNames /\ name \notin PanelNames /\ name \notin ButtonNames
        /\ name \notin SettingsNames /\ name \notin RequestNames /\ name \notin AppNames
        /\ name \notin CurveNames /\ name # "set_curvature" /\ name # "set_input_type"
        /\ name \notin ApiCommands
    BY <1>5 DEF OutputNames, PowerNames, HdmiNames, SoundNames, MenuNames, PanelNames,
           ButtonNames, SettingsNames, RequestNames, AppNames, CurveNames, ApiCommands
  <2>2. /\ all \subseteq {<<>>, <<x>>} /\ <<x>> \in all
    BY <1>5, <2>1, OthersAreSilent
  <2> QED
    BY <1>1, <2>2
<1>6. ASSUME name \in MenuNames, MenuReads(words) = <<x>> PROVE ProcessCommand(words) = x
  <2>1. /\ name \notin OutputNames /\ name \notin PowerNames /\ name \notin HdmiNames
        /\ name \notin SoundNames /\ name \notin PanelNames /\ name \notin ButtonNames
        /\ name \notin SettingsNames /\ name \notin RequestNames /\ name \notin AppNames
        /\ name \notin CurveNames /\ name # "set_curvature" /\ name # "set_input_type"
        /\ name \notin ApiCommands
    BY <1>6 DEF OutputNames, PowerNames, HdmiNames, SoundNames, MenuNames, PanelNames,
           ButtonNames, SettingsNames, RequestNames, AppNames, CurveNames, ApiCommands
  <2>2. /\ all \subseteq {<<>>, <<x>>} /\ <<x>> \in all
    BY <1>6, <2>1, OthersAreSilent
  <2> QED
    BY <1>1, <2>2
<1>7. ASSUME name \in PanelNames, PanelReads(words) = <<x>> PROVE ProcessCommand(words) = x
  <2>1. /\ name \notin OutputNames /\ name \notin PowerNames /\ name \notin HdmiNames
        /\ name \notin SoundNames /\ name \notin MenuNames /\ name \notin ButtonNames
        /\ name \notin SettingsNames /\ name \notin RequestNames /\ name \notin AppNames
        /\ name \notin CurveNames /\ name # "set_curvature" /\ name # "set_input_type"
        /\ name \notin ApiCommands
    BY <1>7 DEF OutputNames, PowerNames, HdmiNames, SoundNames, MenuNames, PanelNames,
           ButtonNames, SettingsNames, RequestNames, AppNames, CurveNames, ApiCommands
  <2>2. /\ all \subseteq {<<>>, <<x>>} /\ <<x>> \in all
    BY <1>7, <2>1, OthersAreSilent
  <2> QED
    BY <1>1, <2>2
<1>8. ASSUME name \in ButtonNames, ButtonReads(words) = <<x>> PROVE ProcessCommand(words) = x
  <2>1. /\ name \notin OutputNames /\ name \notin PowerNames /\ name \notin HdmiNames
        /\ name \notin SoundNames /\ name \notin MenuNames /\ name \notin PanelNames
        /\ name \notin SettingsNames /\ name \notin RequestNames /\ name \notin AppNames
        /\ name \notin CurveNames /\ name # "set_curvature" /\ name # "set_input_type"
        /\ name \notin ApiCommands
    BY <1>8 DEF OutputNames, PowerNames, HdmiNames, SoundNames, MenuNames, PanelNames,
           ButtonNames, SettingsNames, RequestNames, AppNames, CurveNames, ApiCommands
  <2>2. /\ all \subseteq {<<>>, <<x>>} /\ <<x>> \in all
    BY <1>8, <2>1, OthersAreSilent
  <2> QED
    BY <1>1, <2>2
<1>9. ASSUME name \in SettingsNames, SettingsReads(words) = <<x>> PROVE ProcessCommand(words) = x
  <2>1. /\ name \notin OutputNames /\ name \notin PowerNames /\ name \notin HdmiNames
        /\ name \notin SoundNames /\ name \notin MenuNames /\ name \notin PanelNames
        /\ name \notin ButtonNames /\ name \notin RequestNames /\ name \notin AppNames
        /\ name \notin CurveNames /\ name # "set_curvature" /\ name # "set_input_type"
        /\ name \notin ApiCommands
    BY <1>9 DEF OutputNames, PowerNames, HdmiNames, SoundNames, MenuNames, PanelNames,
           ButtonNames, SettingsNames, RequestNames, AppNames, CurveNames, ApiCommands
  <2>2. /\ all \subseteq {<<>>, <<x>>} /\ <<x>> \in all
    BY <1>9, <2>1, OthersAreSilent
  <2> QED
    BY <1>1, <2>2
<1>10. ASSUME name \in RequestNames, RequestReads(words) = <<x>> PROVE ProcessCommand(words) = x
  <2>1. /\ name \notin OutputNames /\ name \notin PowerNames /\ name \notin HdmiNames
        /\ name \notin SoundNames /\ name \notin MenuNames /\ name \notin PanelNames
        /\ name \notin ButtonNames /\ name \notin SettingsNames /\ name \notin AppNames
        /\ name \notin CurveNames /\ name # "set_curvature" /\ name # "set_input_type"
        /\ name \notin ApiCommands
    BY <1>10 DEF OutputNames, PowerNames, HdmiNames, SoundNames, MenuNames, PanelNames,
           ButtonNames, SettingsNames, RequestNames, AppNames, CurveNames, ApiCommands
  <2>2. /\ all \subseteq {<<>>, <<x>>} /\ <<x>> \in all
    BY <1>10, <2>1, OthersAreSilent
  <2> QED
    BY <1>1, <2>2
<1>11. ASSUME name \in AppNames, AppReads(words) = <<x>> PROVE ProcessCommand(words) = x
  <2>1. /\ name \notin OutputNames /\ name \notin PowerNames /\ name \notin HdmiNames
        /\ name \notin SoundNames /\ name \notin MenuNames /\ name \notin PanelNames
        /\ name \notin ButtonNames /\ name \notin SettingsNames /\ name \notin RequestNames
        /\ name \notin CurveNames /\ name # "set_curvature" /\ name # "set_input_type"
        /\ name \notin ApiCommands
    BY <1>11 DEF OutputNames, PowerNames, HdmiNames, SoundNames, MenuNames, PanelNames,
           ButtonNames, SettingsNames, RequestNames, AppNames, CurveNames, ApiCommands
  <2>2. /\ all \subseteq {<<>>, <<x>>} /\ <<x>> \in all
    BY <1>11, <2>1, OthersAreSilent
  <2> QED
    BY <1>1, <2>2
<1>12. ASSUME name \in CurveNames, CurveReads(words) = <<x>> PROVE ProcessCommand(words) = x
  <2>1. /\ name \notin OutputNames /\ name \notin PowerNames /\ name \notin HdmiNames
        /\ name \notin SoundNames /\ name \notin MenuNames /\ name \notin PanelNames
        /\ name \notin ButtonNames /\ name \notin SettingsNames /\ name \notin RequestNames
        /\ name \notin AppNames /\ name # "set_curvature" /\ name # "set_input_type"
        /\ name \notin ApiCommands
    BY <1>12 DEF OutputNames, PowerNames, HdmiNames, SoundNames, MenuNames, PanelNames,
           ButtonNames, SettingsNames, RequestNames, AppNames, CurveNames, ApiCommands
  <2>2. /\ all \subseteq {<<>>, <<x>>} /\ <<x>> \in all
    BY <1>12, <2>1, OthersAreSilent
  <2> QED
    BY <1>1, <2>2
<1>13. ASSUME name \in {"set_curvature"}, CurvatureReads(words) = <<x>>
       PROVE  ProcessCommand(words) = x
  <2>1. /\ name \notin OutputNames /\ name \notin PowerNames /\ name \notin HdmiNames
        /\ name \notin SoundNames /\ name \notin MenuNames /\ name \notin PanelNames
        /\ name \notin ButtonNames /\ name \notin SettingsNames /\ name \notin RequestNames
        /\ name \notin AppNames /\ name \notin CurveNames /\ name # "set_input_type"
        /\ name \notin ApiCommands
    BY <1>13 DEF OutputNames, PowerNames, HdmiNames, SoundNames, MenuNames, PanelNames,
           ButtonNames, SettingsNames, RequestNames, AppNames, CurveNames, ApiCommands
  <2>2. /\ all \subseteq {<<>>, <<x>>} /\ <<x>> \in all
    BY <1>13, <2>1, OthersAreSilent
  <2> QED
    BY <1>1, <2>2
<1>14. ASSUME name \in {"set_input_type"}, InputTypeReads(words) = <<x>>
       PROVE  ProcessCommand(words) = x
  <2>1. /\ name \notin OutputNames /\ name \notin PowerNames /\ name \notin HdmiNames
        /\ name \notin SoundNames /\ name \notin MenuNames /\ name \notin PanelNames
        /\ name \notin ButtonNames /\ name \notin SettingsNames /\ name \notin RequestNames
        /\ name \notin AppNames /\ name \notin CurveNames /\ name # "set_curvature"
        /\ name \notin ApiCommands
    BY <1>14 DEF OutputNames, PowerNames, HdmiNames, SoundNames, MenuNames, PanelNames,
           ButtonNames, SettingsNames, RequestNames, AppNames, CurveNames, ApiCommands
  <2>2. /\ all \subseteq {<<>>, <<x>>} /\ <<x>> \in all
    BY <1>14, <2>1, OthersAreSilent
  <2> QED
    BY <1>1, <2>2
<1>15. ASSUME name \in ApiCommands, TableReads(words) = <<x>> PROVE ProcessCommand(words) = x
  <2>1. /\ name \notin OutputNames /\ name \notin PowerNames /\ name \notin HdmiNames
        /\ name \notin SoundNames /\ name \notin MenuNames /\ name \notin PanelNames
        /\ name \notin ButtonNames /\ name \notin SettingsNames /\ name \notin RequestNames
        /\ name \notin AppNames /\ name \notin CurveNames /\ name # "set_curvature"
        /\ name # "set_input_type"
    BY <1>15 DEF OutputNames, PowerNames, HdmiNames, SoundNames, MenuNames, PanelNames,
           ButtonNames, SettingsNames, RequestNames, AppNames, CurveNames, ApiCommands
  <2>2. /\ all \subseteq {<<>>, <<x>>} /\ <<x>> \in all
    BY <1>15, <2>1, OthersAreSilent
  <2> QED
    BY <1>1, <2>2
<1> QED
  BY <1>2, <1>3, <1>4, <1>5, <1>6, <1>7, <1>8, <1>9, <1>10, <1>11, <1>12, <1>13, <1>14, <1>15

-----------------------------------------------------------------------------
(* What a command asks, and of whom, when it is read as one event or none.  *)

\* The outcome of a command that asks something of some displays.
AnswerTo(ask, to) == [says |-> "answers", event |-> [ask |-> ask, to |-> to], again |-> <<>>]

\* The outcome of a command that asks nothing.
SaysOnly(what) == [says |-> what, event |-> <<>>, again |-> <<>>]

\* The displays that are called by their names, or all if none is named.
Bidden(to) == {d \in Displays : to = <<>> \/ \E i \in DOMAIN to : Called(d, to[i])}

\* What a command asks for, as it is meant.
Asked(c) == FlattenSeq([i \in DOMAIN Means(c) |-> AsksOf(Means(c)[i], Meant(c))])

\* Such a command asks it of those displays.
LEMMA LeafAnswers ==
  ASSUME NEW words, NEW ask, NEW to, ProcessCommand(words) = AnswerTo(ask, to)
  PROVE  IsLeaf(words) /\ LeafAsks(words) = AsksOf(ask, Bidden(to))
<1> DEFINE event == [ask |-> ask, to |-> to]
<1>1. /\ ProcessCommand(words).says = "answers" /\ ProcessCommand(words).event = event
      /\ ProcessCommand(words).again = <<>>
  BY DEF AnswerTo
<1>2. event # <<>> /\ event.ask = ask /\ event.to = to
  OBVIOUS
<1> HIDE DEF event
<1>3. Matches(event) = Bidden(to)
  BY <1>2 DEF Matches, Bidden
<1> QED
  BY <1>1, <1>2, <1>3 DEF IsLeaf, LeafAsks

\* And such a command asks nothing.
LEMMA LeafSays ==
  ASSUME NEW words, NEW what, what \notin {"answers", "again"},
         ProcessCommand(words) = SaysOnly(what)
  PROVE  IsLeaf(words) /\ LeafAsks(words) = <<>>
<1>1. ProcessCommand(words).says = what /\ ProcessCommand(words).again = <<>>
  BY DEF SaysOnly
<1> QED
  BY <1>1 DEF IsLeaf, LeafAsks

\* The displays the user means are those the command is for.
LEMMA MeantIsBidden ==
  ASSUME NEW c PROVE Meant(c) = Bidden(c.to)
  BY DEF Meant, Bidden

\* A command that asks for one thing.
LEMMA OneAsk ==
  ASSUME NEW c, NEW ask, Means(c) = <<ask>>, ProcessCommand(Texts(c)) = AnswerTo(ask, c.to)
  PROVE  Regular(Texts(c)) /\ CommandAsks(Texts(c)) = Asked(c)
<1> DEFINE words == Texts(c)
<1>1. IsLeaf(words) /\ LeafAsks(words) = AsksOf(ask, Meant(c))
  BY LeafAnswers, MeantIsBidden
<1> HIDE DEF words
<1>2. Regular(words) /\ CommandAsks(words) = AsksOf(ask, Meant(c))
  BY <1>1 DEF Regular, CommandAsks, IsLeaf
<1> DEFINE asks == AsksOf(ask, Meant(c))
<1>3. PICK U : asks \in Seq(U)
  BY AsksAreList
<1>4. [i \in DOMAIN Means(c) |-> AsksOf(Means(c)[i], Meant(c))] = <<asks>>
  <2>1. DOMAIN <<ask>> = 1 .. 1 /\ <<ask>>[1] = ask
    OBVIOUS
  <2> QED
    BY <2>1
<1> HIDE DEF asks
<1>5. FlattenSeq(<<asks>>) = asks
  BY <1>3, FlattenOne
<1>6. Asked(c) = asks
  BY <1>4, <1>5 DEF Asked
<1> QED
  BY <1>2, <1>6 DEF asks, words

\* A command that asks for nothing.
LEMMA NoAsk ==
  ASSUME NEW c, NEW what, what \notin {"answers", "again"}, Means(c) = <<>>,
         ProcessCommand(Texts(c)) = SaysOnly(what)
  PROVE  Regular(Texts(c)) /\ CommandAsks(Texts(c)) = Asked(c)
<1>1. IsLeaf(Texts(c)) /\ LeafAsks(Texts(c)) = <<>>
  BY LeafSays
<1>2. Regular(Texts(c)) /\ CommandAsks(Texts(c)) = <<>>
  BY <1>1 DEF Regular, CommandAsks, IsLeaf
<1>3. [i \in DOMAIN Means(c) |-> AsksOf(Means(c)[i], Meant(c))] = <<>>
  OBVIOUS
<1> QED
  BY <1>2, <1>3, FlattenNone DEF Asked

-----------------------------------------------------------------------------
\* What is known of a command that the program can read.
Readable(c) == /\ c \in Command
               /\ Len(c.args) = Arity[c.name]
               /\ ConsoleUnderstands(c)

\* The words of a command the user writes.
LEMMA CommandWords ==
  ASSUME NEW c, Readable(c)
  PROVE  /\ Texts(c) = Written(<<Dash, c.name>>, c.args, c.to)
         /\ Texts(c)[1] = <<Dash, c.name>>
         /\ Len(Texts(c)) = 1 + Len(c.args) + Len(c.to) /\ Len(c.to) \in Nat
         /\ \A i \in 1 .. Len(c.args) : Texts(c)[i + 1] = c.args[i] /\ c.args[i] \in Word
         /\ Devices(Texts(c), 1 + Len(c.args)) = c.to
<1>1. c.args \in Seq(Word) /\ c.to \in Seq(Word)
  BY DEF Readable, Command
<1>2. Texts(c) = Written(<<Dash, c.name>>, c.args, c.to)
  BY DEF Texts, Written
<1>3. DOMAIN c.args = 1 .. Len(c.args) /\ Len(c.to) \in Nat
  BY <1>1
<1>4. \A i \in 1 .. Len(c.args) : c.args[i] \in Word
  BY <1>1
<1> DEFINE words == Written(<<Dash, c.name>>, c.args, c.to)
<1>5. Consists(words, <<Dash, c.name>>, c.args, c.to)
  BY <1>1, WrittenIs
<1> HIDE DEF words
<1>6. Texts(c) = words
  BY <1>2 DEF words
<1> QED
  BY <1>3, <1>4, <1>5, <1>6 DEF words, Consists

\* By the number of its arguments.
LEMMA WordsWithout ==
  ASSUME NEW c, Readable(c), Arity[c.name] = 0
  PROVE  /\ Texts(c)[1] = <<Dash, c.name>> /\ Devices(Texts(c), 1) = c.to
<1>1. Len(c.args) = 0 /\ 1 + 0 = 1
  BY DEF Readable
<1> QED
  BY <1>1, CommandWords

\* Those of a command with one argument.
LEMMA WordsWithOne ==
  ASSUME NEW c, Readable(c), Arity[c.name] = 1
  PROVE  /\ Texts(c)[1] = <<Dash, c.name>> /\ Devices(Texts(c), 2) = c.to
         /\ Len(Texts(c)) > 1 /\ Texts(c)[2] = c.args[1] /\ c.args[1] \in Word
<1>1. Len(c.args) = 1 /\ 1 + 1 = 2 /\ 1 \in 1 .. 1
  BY DEF Readable
<1>2. /\ Texts(c)[1] = <<Dash, c.name>>
      /\ Len(Texts(c)) = 1 + Len(c.args) + Len(c.to) /\ Len(c.to) \in Nat
      /\ \A i \in 1 .. Len(c.args) : Texts(c)[i + 1] = c.args[i] /\ c.args[i] \in Word
      /\ Devices(Texts(c), 1 + Len(c.args)) = c.to
  BY CommandWords
<1>3. Texts(c)[1 + 1] = c.args[1] /\ c.args[1] \in Word
  BY <1>1, <1>2
<1>4. Len(Texts(c)) > 1
  BY <1>1, <1>2
<1> QED
  BY <1>1, <1>2, <1>3, <1>4

-----------------------------------------------------------------------------
(* A command without arguments is read as it is meant.                      *)

\* The program reads a command as it is meant.
Right(c) == Regular(Texts(c)) /\ CommandAsks(Texts(c)) = Asked(c)

\* A command that is answered with what it means is read as it is meant.
LEMMA RightIfAsked ==
  ASSUME NEW c, NEW ask, Means(c) = <<ask>>, ProcessCommand(Texts(c)) = AnswerTo(ask, c.to)
  PROVE  Right(c)
  BY OneAsk DEF Right

\* So is one that means nothing and asks nothing.
LEMMA RightIfNotAsked ==
  ASSUME NEW c, NEW what, what \notin {"answers", "again"}, Means(c) = <<>>,
         ProcessCommand(Texts(c)) = SaysOnly(what)
  PROVE  Right(c)
  BY NoAsk DEF Right

\* The outcome that Sends gives.
LEMMA SendsIs ==
  ASSUME NEW ask, NEW to
  PROVE  Sends(ask, to) = <<AnswerTo(ask, to)>>
  BY DEF Sends, AnswerTo

\* The outcome that Says gives.
LEMMA SaysIs ==
  ASSUME NEW what
  PROVE  Says(what) = <<SaysOnly(what)>>
  BY DEF Says, SaysOnly

\* A command has one name.
LEMMA NamedIs ==
  ASSUME NEW words, NEW name, words[1] = <<Dash, name>>
  PROVE  /\ \A names : Named(words, names) <=> name \in names
         /\ Len(words[1]) = 2 /\ words[1][2] = name
  BY DEF Named

\* The command for the form of the output asks nothing.
LEMMA OutputIsRight ==
  ASSUME NEW c, Readable(c), c.name = "output"
  PROVE  Right(c)
<1> DEFINE words == Texts(c)
<1>1. Arity[c.name] = 1
  BY DEF Arity
<1>2. words[1] = <<Dash, c.name>> /\ Len(words) > 1
  BY <1>1, WordsWithOne
<1>3. Means(c) = <<>>
  BY DEF Means
<1> HIDE DEF words
<1>4. \A names : Named(words, names) <=> c.name \in names
  BY <1>2, NamedIs
<1>5. PICK what \in {"error", "friendly", "default", "field"} : OutputReads(words) = Says(what)
  <2>1. <<"friendly">>[1] = "friendly" /\ <<"default">>[1] = "default"
    OBVIOUS
  <2> QED
    BY <1>4, <2>1 DEF OutputReads, OrError
<1>6. OutputReads(words) = <<SaysOnly(what)>>
  BY <1>5, SaysIs
<1>7. ProcessCommand(words) = SaysOnly(what)
  BY <1>2, <1>6, ReadByItsFamily DEF OutputNames
<1> QED
  BY <1>3, <1>5, <1>7, RightIfNotAsked DEF words

\* The other commands without arguments ask what they mean.
LEMMA WithoutIsRight ==
  ASSUME NEW c, Readable(c), Arity[c.name] = 0,
         c.name \notin {"servicemenu", "servicemenu_legacy_enable"}
  PROVE  Right(c)
<1> DEFINE words == Texts(c)
<1>1. words[1] = <<Dash, c.name>> /\ Devices(words, 1) = c.to
  BY WordsWithout
<1>2. c.name \in {"poweron", "screenon", "poweroff", "unmute", "servicemenu_tpc_enable"}
  <2>1. c.name \in DOMAIN Arity /\ c.name # "autodisable"
    BY DEF Readable, Command, ConsoleUnderstands, OnlyOfDaemon
  <2> QED
    BY <2>1 DEF Arity
<1> HIDE DEF words
<1>3. (\A names : Named(words, names) <=> c.name \in names) /\ words[1][2] = c.name
  BY <1>1, NamedIs
<1>4. CASE c.name \in {"poweron", "screenon"}
  <2> DEFINE ask == Ask("poweron", <<>>)
  <2>1. Means(c) = <<ask>>
    BY <1>4 DEF Means
  <2>2. PowerReads(words) = Sends(ask, c.to)
    BY <1>1, <1>3, <1>4 DEF PowerReads
  <2> HIDE DEF ask
  <2>3. PowerReads(words) = <<AnswerTo(ask, c.to)>>
    BY <2>2, SendsIs
  <2>4. ProcessCommand(words) = AnswerTo(ask, c.to)
    BY <1>1, <1>4, <2>3, ReadByItsFamily DEF PowerNames
  <2> QED
    BY <2>1, <2>4, RightIfAsked DEF words
<1>5. CASE c.name = "poweroff"
  <2> DEFINE ask == Ask("poweroff", <<>>)
  <2>1. Means(c) = <<ask>>
    BY <1>5 DEF Means
  <2>2. PowerReads(words) = Sends(ask, c.to)
    BY <1>1, <1>3, <1>5 DEF PowerReads
  <2> HIDE DEF ask
  <2>3. PowerReads(words) = <<AnswerTo(ask, c.to)>>
    BY <2>2, SendsIs
  <2>4. ProcessCommand(words) = AnswerTo(ask, c.to)
    BY <1>1, <1>5, <2>3, ReadByItsFamily DEF PowerNames
  <2> QED
    BY <2>1, <2>4, RightIfAsked DEF words
<1>6. CASE c.name = "unmute"
  <2> DEFINE ask == Ask("setMute", <<>>)
  <2>1. Means(c) = <<ask>>
    BY <1>6 DEF Means
  <2>2. SoundReads(words) = Sends(ask, c.to)
    BY <1>1, <1>3, <1>6 DEF SoundReads
  <2> HIDE DEF ask
  <2>3. SoundReads(words) = <<AnswerTo(ask, c.to)>>
    BY <2>2, SendsIs
  <2>4. ProcessCommand(words) = AnswerTo(ask, c.to)
    BY <1>1, <1>6, <2>3, ReadByItsFamily DEF SoundNames
  <2> QED
    BY <2>1, <2>4, RightIfAsked DEF words
<1>7. CASE c.name = "servicemenu_tpc_enable"
  <2> DEFINE ask == Ask("setTemporalPeakControl", <<<<"true">>>>)
  <2>1. Means(c) = <<ask>>
    BY <1>7 DEF Means
  <2>2. PanelReads(words) = Sends(ask, c.to)
    BY <1>1, <1>3, <1>7 DEF PanelReads
  <2> HIDE DEF ask
  <2>3. PanelReads(words) = <<AnswerTo(ask, c.to)>>
    BY <2>2, SendsIs
  <2>4. ProcessCommand(words) = AnswerTo(ask, c.to)
    BY <1>1, <1>7, <2>3, ReadByItsFamily DEF PanelNames
  <2> QED
    BY <2>1, <2>4, RightIfAsked DEF words
<1> QED
  BY <1>2, <1>4, <1>5, <1>6, <1>7

-----------------------------------------------------------------------------
(* Numbers: atoi reads the digits that to_string writes.                    *)

\* The first of the positions from i on, or one past n.
IsFirst(first, positions, i, n) ==
    /\ first = n + 1 \/ first \in positions
    /\ first \in positions => first >= i
    /\ \A j \in positions : j >= i => first <= j
    /\ first = n + 1 => \A j \in positions : ~(j >= i)

\* FirstOf gives the first position.
LEMMA FirstOfIs ==
  ASSUME NEW text, NEW n \in Nat, Len(text) = n, NEW positions \in SUBSET (1 .. n), NEW i \in Nat
  PROVE  IsFirst(FirstOf(positions, i, text), positions, i, n)
<1> DEFINE later == {j \in positions : j >= i}
<1> DEFINE first == FirstOf(positions, i, text)
<1>1. later \in SUBSET Nat
  <2>1. \A j \in later : j \in 1 .. n
    OBVIOUS
  <2>2. \A j \in later : j \in Nat
    BY <2>1
  <2> HIDE DEF later
  <2> QED
    BY <2>2
<1>2. first = IF later = {} THEN n + 1 ELSE CHOOSE j \in later : \A k \in later : j <= k
  BY DEF FirstOf
<1> HIDE DEF first
<1>3. CASE later = {}
  <2>1. \A j \in positions : ~(j >= i)
    BY <1>3
  <2>2. first = n + 1
    BY <1>2, <1>3
  <2>3. first \notin positions
    BY <2>2
  <2> QED
    BY <2>1, <2>2, <2>3 DEF first, IsFirst
<1>4. CASE later # {}
  <2>1. \E j \in later : \A k \in later : j <= k
    BY <1>1, <1>4, LeastNumber
  <2>2. first \in later /\ \A k \in later : first <= k
    BY <1>2, <1>4, <2>1
  <2>3. first \in positions /\ first >= i /\ first # n + 1
    BY <2>2
  <2> QED
    BY <2>2, <2>3 DEF first, IsFirst
<1> QED
  BY <1>3, <1>4

\* The digit that a symbol is.
Digit(symbol) == CHOOSE d \in 0 .. 9 : Digits[d + 1] = symbol

\* Each digit has its value.
LEMMA DigitIs ==
  /\ \A symbol \in ToSet(Digits) : Digit(symbol) \in 0 .. 9
  /\ \A d \in 0 .. 9 : Digits[d + 1] \in ToSet(Digits) /\ Digit(Digits[d + 1]) = d
<1>1. DOMAIN Digits = 1 .. 10
  BY DEF Digits
<1>2. \A d, e \in 0 .. 9 : Digits[d + 1] = Digits[e + 1] => d = e
  <2>1. /\ Digits[1] = "0" /\ Digits[2] = "1" /\ Digits[3] = "2" /\ Digits[4] = "3"
        /\ Digits[5] = "4" /\ Digits[6] = "5" /\ Digits[7] = "6" /\ Digits[8] = "7"
        /\ Digits[9] = "8" /\ Digits[10] = "9"
    BY DEF Digits
  <2>2. \A i \in 1 .. 10 : \/ i = 1 \/ i = 2 \/ i = 3 \/ i = 4 \/ i = 5 \/ i = 6
                            \/ i = 7 \/ i = 8 \/ i = 9 \/ i = 10
    OBVIOUS
  <2>3. \A i, j \in 1 .. 10 : Digits[i] = Digits[j] => i = j
    BY <2>1, <2>2
  <2> SUFFICES ASSUME NEW d \in 0 .. 9, NEW e \in 0 .. 9, Digits[d + 1] = Digits[e + 1]
               PROVE  d = e
    OBVIOUS
  <2> DEFINE i == d + 1
  <2> DEFINE j == e + 1
  <2>4. i \in 1 .. 10 /\ j \in 1 .. 10 /\ (i = j => d = e)
    OBVIOUS
  <2> HIDE DEF i, j
  <2>5. Digits[i] = Digits[j] => d = e
    BY <2>3, <2>4
  <2> QED
    BY <2>5 DEF i, j
<1>4. \A d \in 0 .. 9 : d + 1 \in 1 .. 10
  OBVIOUS
<1>5. \A d \in 0 .. 9 : Digits[d + 1] \in ToSet(Digits)
  BY <1>1, <1>4 DEF ToSet
<1>6. ASSUME NEW symbol \in ToSet(Digits) PROVE \E d \in 0 .. 9 : Digits[d + 1] = symbol
  <2>1. PICK i \in 1 .. 10 : Digits[i] = symbol
    BY <1>1 DEF ToSet
  <2>2. i - 1 \in 0 .. 9 /\ (i - 1) + 1 = i
    OBVIOUS
  <2> QED
    BY <2>1, <2>2
<1>7. \A symbol \in ToSet(Digits) : Digit(symbol) \in 0 .. 9
  BY <1>6 DEF Digit
<1>8. ASSUME NEW d \in 0 .. 9 PROVE Digit(Digits[d + 1]) = d
  <2>1. Digit(Digits[d + 1]) \in 0 .. 9 /\ Digits[Digit(Digits[d + 1]) + 1] = Digits[d + 1]
    BY DEF Digit
  <2> QED
    BY <1>2, <2>1
<1> QED
  BY <1>5, <1>7, <1>8

\* A number that is read digit by digit.
ReadsBy(digits, n, v) ==
    v[0] = 0 /\ \A i \in 1 .. n : v[i] = 10 * v[i - 1] + Digit(digits[i])

\* The recursion of reading digits has a solution.
LEMMA NumberIsRead ==
  ASSUME NEW n \in Nat, NEW digits, \A i \in 1 .. n : Digit(digits[i]) \in Int
  PROVE  \E v \in [0 .. n -> Int] : ReadsBy(digits, n, v)
<1> DEFINE Solved(k) == \E v \in [0 .. k -> Int] : ReadsBy(digits, k, v)
<1> DEFINE S == {k \in 0 .. n : Solved(k)}
<1>1. 0 \in S
  <2> DEFINE v == [i \in 0 .. 0 |-> 0]
  <2>1. v \in [0 .. 0 -> Int] /\ v[0] = 0
    OBVIOUS
  <2> HIDE DEF v
  <2>2. \A i \in 1 .. 0 : FALSE
    OBVIOUS
  <2>3. Solved(0)
    BY <2>1, <2>2 DEF ReadsBy
  <2> HIDE DEF Solved
  <2> QED
    BY <2>3
<1>2. ASSUME NEW k \in 0 .. n, k < n, k \in S PROVE k + 1 \in S
  <2>1. PICK v \in [0 .. k -> Int] :
            v[0] = 0 /\ \A i \in 1 .. k : v[i] = 10 * v[i - 1] + Digit(digits[i])
    BY <1>2 DEF ReadsBy
  <2> DEFINE new == 10 * v[k] + Digit(digits[k + 1])
  <2> DEFINE h == [i \in 0 .. k + 1 |-> IF i = k + 1 THEN new ELSE v[i]]
  <2>2. new \in Int
    <3>1. v[k] \in Int /\ k + 1 \in 1 .. n
      BY <1>2
    <3> QED
      BY <3>1
  <2>3. h[k + 1] = new /\ \A i \in 0 .. k : h[i] = v[i]
    OBVIOUS
  <2>4. h \in [0 .. k + 1 -> Int]
    BY <2>2
  <2> HIDE DEF h
  <2>5. \A i \in 1 .. k + 1 : h[i] = 10 * h[i - 1] + Digit(digits[i])
    <3> SUFFICES ASSUME NEW i \in 1 .. k + 1 PROVE h[i] = 10 * h[i - 1] + Digit(digits[i])
      OBVIOUS
    <3>1. CASE i = k + 1
      <4>1. i - 1 = k /\ k \in 0 .. k
        BY <3>1
      <4> QED
        BY <2>3, <3>1, <4>1
    <3>2. CASE i # k + 1
      <4>1. i \in 1 .. k /\ i \in 0 .. k /\ i - 1 \in 0 .. k
        BY <3>2
      <4> QED
        BY <2>1, <2>3, <4>1
    <3> QED
      BY <3>1, <3>2
  <2>6. h[0] = 0
    BY <2>1, <2>3
  <2>7. Solved(k + 1)
    BY <2>4, <2>5, <2>6 DEF ReadsBy
  <2> HIDE DEF Solved
  <2> QED
    BY <2>7, <1>2
<1> HIDE DEF S
<1>3. 0 .. n \subseteq S
  BY <1>1, <1>2, UpTo
<1>4. n \in S
  BY <1>3
<1> QED
  BY <1>4 DEF S

\* The number has a sign.
Minus(word) == word # <<>> /\ word[1] = Dash

\* What is behind the sign.
DigitsOf(word) == IF Minus(word) THEN Tail(word) ELSE word

\* Where the digits end.
EndOf(digits) == FirstOf(WhereNot(digits, ToSet(Digits)), 1, digits) - 1

\* atoi is the last value of the recursion, with the sign.
LEMMA AtoiIs ==
  ASSUME NEW word, NEW n \in Nat, n = EndOf(DigitsOf(word)),
         NEW v \in [0 .. n -> Int], ReadsBy(DigitsOf(word), n, v)
  PROVE  atoi(word) = IF Minus(word) THEN -v[n] ELSE v[n]
<1> DEFINE digits == DigitsOf(word)
<1> DEFINE Eq(f) == f = [i \in 0 .. n |->
                           IF i = 0 THEN 0 ELSE 10 * f[i - 1] + Digit(digits[i])]
<1> DEFINE f == CHOOSE f : Eq(f)
<1>1. \E e : Eq(e)
  <2>1. v = [i \in 0 .. n |-> v[i]]
    OBVIOUS
  <2>2. \A i \in 0 .. n : i = 0 \/ i \in 1 .. n
    OBVIOUS
  <2>3. Eq(v)
    BY <2>1, <2>2 DEF ReadsBy
  <2> QED
    BY <2>3
<1>2. Eq(f)
  BY <1>1
<1>3. atoi(word) = IF Minus(word) THEN -f[n] ELSE f[n]
  BY DEF atoi, Minus, DigitsOf, EndOf, Digit
<1> HIDE DEF f, digits
<1>4. f[0] = 0 /\ \A i \in 1 .. n : f[i] = 10 * f[i - 1] + Digit(digits[i])
  <2>1. \A i \in 0 .. n : f[i] = IF i = 0 THEN 0 ELSE 10 * f[i - 1] + Digit(digits[i])
    BY <1>2
  <2>2. 0 \in 0 .. n /\ \A i \in 1 .. n : i \in 0 .. n /\ i # 0
    OBVIOUS
  <2> QED
    BY <2>1, <2>2
<1> HIDE DEF Eq
<1>5. v[0] = 0 /\ \A i \in 1 .. n : v[i] = 10 * v[i - 1] + Digit(digits[i])
  BY DEF ReadsBy, digits
<1> DEFINE S == {i \in 0 .. n : f[i] = v[i]}
<1>6. 0 \in S
  BY <1>4, <1>5
<1>7. ASSUME NEW k \in 0 .. n, k < n, k \in S PROVE k + 1 \in S
  <2>1. k + 1 \in 1 .. n /\ k + 1 \in 0 .. n /\ (k + 1) - 1 = k
    BY <1>7
  <2>2. f[k + 1] = 10 * f[k] + Digit(digits[k + 1])
    BY <1>4, <2>1
  <2>3. v[k + 1] = 10 * v[k] + Digit(digits[k + 1])
    BY <1>5, <2>1
  <2> QED
    BY <1>7, <2>1, <2>2, <2>3
<1> HIDE DEF S
<1>8. 0 .. n \subseteq S
  BY <1>6, <1>7, UpTo
<1>9. n \in S
  BY <1>8
<1> QED
  BY <1>3, <1>9 DEF S

\* A word is read up to what is no digit, and gives a number.
LEMMA AtoiIsNumber ==
  ASSUME NEW T, NEW word \in Seq(T)
  PROVE  atoi(word) \in Int
<1> DEFINE digits == DigitsOf(word)
<1> DEFINE m == Len(digits)
<1> DEFINE others == WhereNot(digits, ToSet(Digits))
<1> DEFINE n == EndOf(digits)
<1>1. digits \in Seq(T)
  BY DEF DigitsOf, Minus
<1> HIDE DEF digits
<1>2. m \in Nat /\ DOMAIN digits = 1 .. m
  BY <1>1
<1>3. others = {i \in 1 .. m : digits[i] \notin ToSet(Digits)}
  BY <1>2 DEF WhereNot, Where
<1>4. others \in SUBSET (1 .. m) /\ 1 \in Nat
  BY <1>3
<1> HIDE DEF m, others
<1> DEFINE first == FirstOf(others, 1, digits)
<1>5. first = m + 1 \/ first \in others
  BY <1>2, <1>4, FirstOfIs DEF m, IsFirst
<1>6. \A j \in others : j >= 1 => first <= j
  BY <1>2, <1>4, FirstOfIs DEF m, IsFirst
<1>7. n = first - 1
  BY DEF EndOf, others
<1> HIDE DEF first, n
<1>8. first \in 1 .. m + 1
  <2>1. first \in others => first \in 1 .. m
    BY <1>4
  <2> QED
    BY <1>2, <1>5, <2>1
<1>9. n \in 0 .. m
  BY <1>2, <1>7, <1>8
<1>10. \A i \in 1 .. n : digits[i] \in ToSet(Digits)
  <2> SUFFICES ASSUME NEW i \in 1 .. n, digits[i] \notin ToSet(Digits) PROVE FALSE
    OBVIOUS
  <2>1. i \in 1 .. m /\ i < first /\ i >= 1 /\ first \in Int
    BY <1>2, <1>7, <1>8, <1>9
  <2>2. i \in others
    BY <1>3, <2>1
  <2> QED
    BY <1>6, <2>1, <2>2
<1>11. \A i \in 1 .. n : Digit(digits[i]) \in Int
  BY <1>10, DigitIs
<1>12. n \in Nat
  BY <1>2, <1>9
<1>13. PICK v \in [0 .. n -> Int] : ReadsBy(digits, n, v)
  BY <1>11, <1>12, NumberIsRead
<1>14. atoi(word) = IF Minus(word) THEN -v[n] ELSE v[n]
  BY <1>12, <1>13, AtoiIs DEF n, digits
<1>15. v[n] \in Int
  BY <1>12, <1>13
<1> QED
  BY <1>14, <1>15

\* A number brought into a range is in it.
LEMMA WithinIs ==
  ASSUME NEW n \in Int, NEW min \in Int, NEW max \in Int, min <= max
  PROVE  Within(n, min, max) \in min .. max
  BY DEF Within

\* to_string writes digits and a sign.
LEMMA ToStringIsText ==
  ASSUME NEW n \in -999 .. 999
  PROVE  to_string(n) \in Seq(ToSet(Digits) \cup {Dash}) /\ to_string(n) # <<>>
<1> DEFINE U == ToSet(Digits) \cup {Dash}
<1> DEFINE m == IF n < 0 THEN -n ELSE n
<1>1. m \in 0 .. 999
  OBVIOUS
<1> HIDE DEF m
<1>2. m % 10 \in 0 .. 9 /\ (m \div 10) % 10 \in 0 .. 9 /\ (m \div 100) \in 0 .. 9
  BY <1>1
<1>3. /\ Digits[(m % 10) + 1] \in U /\ Digits[((m \div 10) % 10) + 1] \in U
      /\ Digits[(m \div 100) + 1] \in U /\ Dash \in U
  BY <1>2, DigitIs
<1> HIDE DEF U
<1> DEFINE a == IF n < 0 THEN <<Dash>> ELSE <<>>
<1> DEFINE b == IF m >= 100 THEN <<Digits[(m \div 100) + 1]>> ELSE <<>>
<1> DEFINE c == IF m >= 10 THEN <<Digits[((m \div 10) % 10) + 1]>> ELSE <<>>
<1> DEFINE d == <<Digits[(m % 10) + 1]>>
<1>4. a \in Seq(U) /\ b \in Seq(U) /\ c \in Seq(U) /\ d \in Seq(U) /\ Len(d) = 1
  BY <1>3
<1>5. to_string(n) = a \o b \o c \o d
  BY DEF to_string, m
<1> HIDE DEF a, b, c, d
<1>6. a \o b \o c \in Seq(U)
  BY <1>4
<1> DEFINE front == a \o b \o c
<1>8. front \in Seq(U) /\ Len(front) \in Nat
  BY <1>6
<1> HIDE DEF front
<1>7. Len(front \o d) = Len(front) + 1 /\ front \o d \in Seq(U)
  <2>1. d \in Seq(U) /\ Len(d) = 1
    BY <1>4
  <2>2. front \o d \in Seq(U)
    BY <1>8, <2>1
  <2>3. Len(front \o d) = Len(front) + Len(d)
    BY <1>8, <2>1, ConcatProperties
  <2> QED
    BY <2>1, <2>2, <2>3
<1>9. front \o d # <<>>
  BY <1>7, <1>8
<1> QED
  BY <1>5, <1>7, <1>9 DEF front, U

\* Two symbols, one behind the other.
LEMMA PairIs ==
  ASSUME NEW p, NEW q
  PROVE  <<p>> \o <<q>> = <<p, q>>
<1> DEFINE s == <<p>> \o <<q>>
<1>1. <<p>> \in Seq({p, q}) /\ <<q>> \in Seq({p, q}) /\ Len(<<p>>) = 1 /\ Len(<<q>>) = 1
  OBVIOUS
<1>2. s \in Seq({p, q}) /\ <<p, q>> \in Seq({p, q})
  BY <1>1
<1>3. Len(s) = 2
  BY <1>1, ConcatProperties
<1>4. s[1] = p /\ s[2] = q
  BY <1>1, ConcatProperties
<1> HIDE DEF s
<1>5. \A i \in 1 .. 2 : s[i] = <<p, q>>[i]
  BY <1>4
<1>6. Len(<<p, q>>) = 2
  OBVIOUS
<1> QED
  BY <1>2, <1>3, <1>5, <1>6, SeqEqual DEF s

\* Three symbols, one behind the others.
LEMMA TripleIs ==
  ASSUME NEW p, NEW q, NEW r
  PROVE  <<p>> \o <<q, r>> = <<p, q, r>>
<1> DEFINE s == <<p>> \o <<q, r>>
<1> DEFINE U == {p, q, r}
<1>1. <<p>> \in Seq(U) /\ <<q, r>> \in Seq(U) /\ Len(<<p>>) = 1 /\ Len(<<q, r>>) = 2
  OBVIOUS
<1>2. s \in Seq(U) /\ <<p, q, r>> \in Seq(U)
  BY <1>1
<1>3. Len(s) = 3
  BY <1>1, ConcatProperties
<1>4. s[1] = p /\ s[2] = q /\ s[3] = r
  BY <1>1, ConcatProperties
<1> HIDE DEF s
<1>5. \A i \in 1 .. 3 : s[i] = <<p, q, r>>[i]
  BY <1>4
<1>6. Len(<<p, q, r>>) = 3
  OBVIOUS
<1> QED
  BY <1>2, <1>3, <1>5, <1>6, SeqEqual DEF s

\* What to_string writes for the numbers from 0 to 100.
LEMMA ToStringOfSmall ==
  ASSUME NEW n \in 0 .. 100
  PROVE  \/ n \in 0 .. 9 /\ to_string(n) = <<Digits[n + 1]>>
         \/ /\ n \in 10 .. 99
            /\ to_string(n) = <<Digits[(n \div 10) + 1], Digits[(n % 10) + 1]>>
         \/ n = 100 /\ to_string(n) = <<Digits[2], Digits[1], Digits[1]>>
<1>1. ~(n < 0)
  OBVIOUS
<1>2. CASE n \in 0 .. 9
  <2>1. ~(n >= 100) /\ ~(n >= 10) /\ n % 10 = n
    BY <1>2
  <2>2. to_string(n) = <<>> \o <<>> \o <<>> \o <<Digits[n + 1]>>
    BY <1>1, <2>1 DEF to_string
  <2> QED
    BY <1>2, <2>2
<1>3. CASE n \in 10 .. 99
  <2>1. ~(n >= 100) /\ n >= 10 /\ (n \div 10) % 10 = n \div 10
    BY <1>3
  <2> DEFINE p == Digits[(n \div 10) + 1]
  <2> DEFINE q == Digits[(n % 10) + 1]
  <2>2. to_string(n) = <<>> \o <<>> \o <<p>> \o <<q>>
    BY <1>1, <2>1 DEF to_string
  <2> HIDE DEF p, q
  <2>4. <<>> \o <<>> = <<>> /\ <<>> \o <<p>> = <<p>>
    OBVIOUS
  <2>5. <<p>> \o <<q>> = <<p, q>>
    BY PairIs
  <2>3. to_string(n) = <<p, q>>
    BY <2>2, <2>4, <2>5
  <2> QED
    BY <1>3, <2>3 DEF p, q
<1>4. CASE n = 100
  <2>1. n >= 100 /\ n >= 10 /\ n \div 100 = 1 /\ (n \div 10) % 10 = 0 /\ n % 10 = 0
    BY <1>4
  <2>2. to_string(n) = <<>> \o <<Digits[1 + 1]>> \o <<Digits[0 + 1]>> \o <<Digits[0 + 1]>>
    BY <1>1, <2>1 DEF to_string
  <2> QED
    BY <1>4, <2>2
<1> QED
  BY <1>2, <1>3, <1>4

\* A small number is zero when its text is, and a text that was written is read as it was.
LEMMA SmallNumbers ==
  ASSUME NEW n \in 0 .. 100
  PROVE  (to_string(n) = <<"0">> <=> n = 0) /\ atoi(to_string(n)) = n
<1> DEFINE text == to_string(n)
<1> DEFINE k == IF n \in 0 .. 9 THEN 1 ELSE IF n \in 10 .. 99 THEN 2 ELSE 3
<1>1. \A d \in 0 .. 9 : Digits[d + 1] \in ToSet(Digits) /\ Digit(Digits[d + 1]) = d
  BY DigitIs
<1>2. Digits[1] = "0" /\ Digits[2] \in ToSet(Digits) /\ Digit(Digits[2]) = 1
  <2>1. Digits[1 + 1] \in ToSet(Digits) /\ Digit(Digits[1 + 1]) = 1
    BY <1>1
  <2> QED
    BY <2>1 DEF Digits
<1>3. Digits[1] \in ToSet(Digits) /\ Digit(Digits[1]) = 0
  <2>1. Digits[0 + 1] \in ToSet(Digits) /\ Digit(Digits[0 + 1]) = 0
    BY <1>1
  <2> QED
    BY <2>1
<1>4. Dash \notin ToSet(Digits)
  BY DEF Dash, Digits, ToSet
<1>5. /\ text \in Seq(ToSet(Digits)) /\ Len(text) = k
      /\ text = <<"0">> <=> n = 0
      /\ Digit(text[1]) = IF k = 1 THEN n ELSE IF k = 2 THEN n \div 10 ELSE 1
      /\ k >= 2 => Digit(text[2]) = IF k = 2 THEN n % 10 ELSE 0
      /\ k = 3 => Digit(text[3]) = 0 /\ n = 100
  <2>1. CASE n \in 0 .. 9
    <3>1. Digits[n + 1] \in ToSet(Digits) /\ Digit(Digits[n + 1]) = n
      BY <1>1, <2>1
    <3>2. text = <<Digits[n + 1]>> /\ k = 1
      BY <2>1, ToStringOfSmall
    <3> HIDE DEF text, k
    <3>3. Digits[n + 1] = "0" <=> n = 0
      BY <1>2, <1>3, <3>1
    <3> DEFINE p == Digits[n + 1]
    <3> HIDE DEF p
    <3>4. text = <<p>> /\ p \in ToSet(Digits) /\ Digit(p) = n /\ (p = "0" <=> n = 0)
      BY <3>1, <3>2, <3>3 DEF p
    <3> QED
      BY <3>2, <3>4
  <2>2. CASE n \in 10 .. 99
    <3>1. n \div 10 \in 0 .. 9 /\ n % 10 \in 0 .. 9 /\ n # 0
      BY <2>2
    <3> DEFINE p == Digits[(n \div 10) + 1]
    <3> DEFINE q == Digits[(n % 10) + 1]
    <3>2. /\ p \in ToSet(Digits) /\ Digit(p) = n \div 10
          /\ q \in ToSet(Digits) /\ Digit(q) = n % 10
      BY <1>1, <3>1
    <3>3. text = <<p, q>> /\ k = 2
      <4>1. n \notin 0 .. 9 /\ n # 100
        BY <2>2
      <4>2. \/ n \in 0 .. 9
            \/ text = <<p, q>>
            \/ n = 100
        BY ToStringOfSmall
      <4> HIDE DEF text, p, q
      <4>3. k = 2
        BY <2>2, <4>1
      <4> QED
        BY <4>1, <4>2, <4>3
    <3> HIDE DEF text, k, p, q
    <3> QED
      BY <3>1, <3>2, <3>3
  <2>3. CASE n = 100
    <3>1. text = <<Digits[2], Digits[1], Digits[1]>> /\ k = 3
      BY <2>3, ToStringOfSmall
    <3> HIDE DEF text, k
    <3> QED
      BY <1>2, <1>3, <2>3, <3>1
  <2> QED
    BY <2>1, <2>2, <2>3
<1> HIDE DEF text
<1>6. ~Minus(text) /\ DigitsOf(text) = text
  <2>1. text[1] \in ToSet(Digits)
    BY <1>5
  <2> QED
    BY <1>4, <2>1 DEF Minus, DigitsOf
<1>7. k \in 1 .. 3 /\ EndOf(text) = k
  <2>1. k \in 1 .. 3
    OBVIOUS
  <2> HIDE DEF k
  <2>2. WhereNot(text, ToSet(Digits)) = {}
    <3>1. \A i \in DOMAIN text : text[i] \in ToSet(Digits)
      BY <1>5
    <3> QED
      BY <3>1 DEF WhereNot, Where
  <2>3. FirstOf({}, 1, text) = k + 1
    BY <1>5 DEF FirstOf
  <2> QED
    BY <2>1, <2>2, <2>3 DEF EndOf
<1>8. \A i \in 1 .. k : Digit(text[i]) \in Int
  BY <1>5
<1>9. PICK v \in [0 .. k -> Int] : ReadsBy(text, k, v)
  BY <1>7, <1>8, NumberIsRead
<1>10. atoi(text) = v[k]
  BY <1>6, <1>7, <1>9, AtoiIs
<1>11. v[0] = 0 /\ \A i \in 1 .. k : v[i] = 10 * v[i - 1] + Digit(text[i])
  BY <1>9 DEF ReadsBy
<1>12. v[1] = Digit(text[1])
  BY <1>5, <1>7, <1>11
<1>13. ASSUME k = 1 PROVE atoi(text) = n
  BY <1>5, <1>10, <1>12, <1>13
<1>14. ASSUME k = 2 PROVE atoi(text) = n
  <2>1. v[2] = 10 * v[1] + Digit(text[2])
    BY <1>11, <1>14
  <2>2. v[2] = 10 * (n \div 10) + (n % 10)
    BY <1>5, <1>12, <1>14, <2>1
  <2> QED
    BY <1>5, <1>10, <1>14, <2>2
<1>15. ASSUME k = 3 PROVE atoi(text) = n
  <2>1. v[2] = 10 * v[1] + Digit(text[2]) /\ v[3] = 10 * v[2] + Digit(text[3])
    BY <1>11, <1>15
  <2>2. v[1] = 1 /\ Digit(text[2]) = 0 /\ Digit(text[3]) = 0 /\ n = 100
    BY <1>5, <1>12, <1>15
  <2>3. v[3] = 100
    BY <2>1, <2>2
  <2> QED
    BY <1>10, <1>15, <2>2, <2>3
<1>16. k = 1 \/ k = 2 \/ k = 3
  BY <1>7
<1> HIDE DEF k
<1>17. atoi(text) = n
  BY <1>16, <1>13, <1>14, <1>15
<1> QED
  BY <1>5, <1>17 DEF text

-----------------------------------------------------------------------------
(* The commands with one argument are read as they are meant.               *)

\* The volume is brought into its range.
LEMMA VolumeIsRight ==
  ASSUME NEW c, Readable(c), c.name = "volume"
  PROVE  Right(c)
<1> DEFINE words == Texts(c)
<1> DEFINE first == c.args[1]
<1>1. Arity[c.name] = 1
  BY DEF Arity
<1>2. /\ words[1] = <<Dash, c.name>> /\ Devices(words, 2) = c.to
      /\ Len(words) > 1 /\ words[2] = first /\ first \in Word
  BY <1>1, WordsWithOne
<1> HIDE DEF words
<1>3. (\A names : Named(words, names) <=> c.name \in names) /\ words[1][2] = c.name
  BY <1>2, NamedIs
<1> DEFINE ask == Ask("setVolume", <<to_string(Within(atoi(first), 0, 100))>>)
<1>4. Means(c) = <<ask>>
  BY DEF Means
<1>5. SoundReads(words) = Sends(ask, c.to)
  BY <1>2, <1>3 DEF SoundReads, OrError, Level
<1> HIDE DEF ask
<1>6. SoundReads(words) = <<AnswerTo(ask, c.to)>>
  BY <1>5, SendsIs
<1>7. ProcessCommand(words) = AnswerTo(ask, c.to)
  BY <1>2, <1>6, ReadByItsFamily DEF SoundNames
<1> QED
  BY <1>4, <1>7, RightIfAsked DEF words

\* A request is sent as it is.
LEMMA RequestIsRight ==
  ASSUME NEW c, Readable(c), c.name = "request"
  PROVE  Right(c)
<1> DEFINE words == Texts(c)
<1> DEFINE first == c.args[1]
<1>1. Arity[c.name] = 1
  BY DEF Arity
<1>2. /\ words[1] = <<Dash, c.name>> /\ Devices(words, 2) = c.to
      /\ Len(words) > 1 /\ words[2] = first /\ first \in Word
  BY <1>1, WordsWithOne
<1> HIDE DEF words
<1>3. (\A names : Named(words, names) <=> c.name \in names) /\ words[1][2] = c.name
  BY <1>2, NamedIs
<1> DEFINE ask == Ask("ssap", <<first>>)
<1>4. Means(c) = <<ask>>
  BY DEF Means
<1>5. RequestReads(words) = Sends(ask, c.to)
  BY <1>2, <1>3 DEF RequestReads, OrError
<1> HIDE DEF ask
<1>6. RequestReads(words) = <<AnswerTo(ask, c.to)>>
  BY <1>5, SendsIs
<1>7. ProcessCommand(words) = AnswerTo(ask, c.to)
  BY <1>2, <1>6, ReadByItsFamily DEF RequestNames
<1> QED
  BY <1>4, <1>7, RightIfAsked DEF words

\* An application is started.
LEMMA StartAppIsRight ==
  ASSUME NEW c, Readable(c), c.name = "start_app"
  PROVE  Right(c)
<1> DEFINE words == Texts(c)
<1> DEFINE first == c.args[1]
<1>1. Arity[c.name] = 1
  BY DEF Arity
<1>2. /\ words[1] = <<Dash, c.name>> /\ Devices(words, 2) = c.to
      /\ Len(words) > 1 /\ words[2] = first /\ first \in Word
  BY <1>1, WordsWithOne
<1> HIDE DEF words
<1>3. (\A names : Named(words, names) <=> c.name \in names) /\ words[1][2] = c.name
  BY <1>2, NamedIs
<1> DEFINE ask == Launch(first)
<1>4. Means(c) = <<ask>>
  BY DEF Means
<1>5. AppReads(words) = Sends(ask, c.to)
  BY <1>2, <1>3 DEF AppReads, OrError
<1> HIDE DEF ask
<1>6. AppReads(words) = <<AnswerTo(ask, c.to)>>
  BY <1>5, SendsIs
<1>7. ProcessCommand(words) = AnswerTo(ask, c.to)
  BY <1>2, <1>6, ReadByItsFamily DEF AppNames
<1> QED
  BY <1>4, <1>7, RightIfAsked DEF words

\* A setting with a range: a number is never empty, so it is never refused.
LEMMA ColorTemperatureIsRight ==
  ASSUME NEW c, Readable(c), c.name = "colortemperature"
  PROVE  Right(c)
<1> DEFINE words == Texts(c)
<1> DEFINE first == c.args[1]
<1>1. Arity[c.name] = 1
  BY DEF Arity
<1>2. /\ words[1] = <<Dash, c.name>> /\ Devices(words, 2) = c.to
      /\ Len(words) > 1 /\ words[2] = first /\ first \in Word
  BY <1>1, WordsWithOne
<1> HIDE DEF words
<1>3. (\A names : Named(words, names) <=> c.name \in names) /\ words[1][2] = c.name
  BY <1>2, NamedIs
<1>8. Level(first, -50, 50) # <<>>
  <2>1. first \in Seq(STRING)
    BY <1>2 DEF Word
  <2>2. atoi(first) \in Int
    BY <2>1, AtoiIsNumber
  <2> DEFINE level == Within(atoi(first), -50, 50)
  <2>3. level \in -50 .. 50
    BY <2>2 DEF Within
  <2> HIDE DEF level
  <2>4. level \in -999 .. 999
    BY <2>3
  <2> QED
    BY <2>4, ToStringIsText DEF Level, level
<1> DEFINE ask == SetSetting(<<"picture">>, <<"colortemperature">>,
                         to_string(Within(atoi(first), -50, 50)))
<1>4. Means(c) = <<ask>>
  BY DEF Means
<1>5. TableReads(words) = Sends(ask, c.to)
  <2>1. Len(Setting(c.name)) = 1 /\ Setting(c.name) = <<"colortemperature">>
    BY DEF Setting
  <2>2. Level(first, -50, 50) = to_string(Within(atoi(first), -50, 50))
    BY DEF Level
  <2>3. /\ HasRange(c.name) /\ Min_(c.name) = -50 /\ Max_(c.name) = 50
        /\ c.name \in ApiCommands /\ Category(c.name) = <<"picture">>
    BY DEF HasRange, Min_, Max_, ApiCommands, Category
  <2> DEFINE argument == IF HasRange(c.name) THEN Level(first, Min_(c.name), Max_(c.name))
                                             ELSE validateArgument(first, Argument(c.name))
  <2>4. argument = Level(first, -50, 50)
    BY <2>3
  <2>5. TableReads(words)
          = OrError(Len(words) > 1 /\ argument # <<>>,
                    Sends(IF Len(Setting(c.name)) > 1
                          THEN SetSettings(Category(c.name), Setting(c.name) \o argument)
                          ELSE SetSetting(Category(c.name), Setting(c.name), argument),
                          c.to))
    BY <1>2, <1>3, <2>3 DEF TableReads
  <2> HIDE DEF argument
  <2> QED
    BY <1>2, <1>8, <2>1, <2>2, <2>3, <2>4, <2>5 DEF OrError
<1> HIDE DEF ask
<1>6. TableReads(words) = <<AnswerTo(ask, c.to)>>
  BY <1>5, SendsIs
<1>7. ProcessCommand(words) = AnswerTo(ask, c.to)
  BY <1>2, <1>6, ReadByItsFamily DEF ApiCommands
<1> QED
  BY <1>4, <1>7, RightIfAsked DEF words

\* A setting with a list of values.
LEMMA GameModeIsRight ==
  ASSUME NEW c, Readable(c), c.name = "gamemode_hdmi1"
  PROVE  Right(c)
<1> DEFINE words == Texts(c)
<1> DEFINE first == c.args[1]
<1>1. Arity[c.name] = 1
  BY DEF Arity
<1>2. /\ words[1] = <<Dash, c.name>> /\ Devices(words, 2) = c.to
      /\ Len(words) > 1 /\ words[2] = first /\ first \in Word
  BY <1>1, WordsWithOne
<1> HIDE DEF words
<1>3. (\A names : Named(words, names) <=> c.name \in names) /\ words[1][2] = c.name
  BY <1>2, NamedIs
<1>8. Len(Setting(c.name)) = 2 /\ Setting(c.name) = <<"gameMode", "hdmi1">> /\ first # <<>>
  BY <1>2 DEF Setting, Word
<1>4. CASE first \in Argument(c.name)
  <2> DEFINE ask == SetSettings(<<"other">>, <<"gameMode", "hdmi1">> \o first)
  <2>1. Means(c) = <<ask>>
    BY <1>4 DEF Means
  <2>2. TableReads(words) = Sends(ask, c.to)
    BY <1>2, <1>3, <1>4, <1>8 DEF TableReads, OrError, ApiCommands, HasRange,
         Category, validateArgument
  <2> HIDE DEF ask
  <2>3. TableReads(words) = <<AnswerTo(ask, c.to)>>
    BY <2>2, SendsIs
  <2>4. ProcessCommand(words) = AnswerTo(ask, c.to)
    BY <1>2, <2>3, ReadByItsFamily DEF ApiCommands
  <2> QED
    BY <2>1, <2>4, RightIfAsked DEF words
<1>5. CASE ~(first \in Argument(c.name))
  <2>1. Means(c) = <<>>
    BY <1>5 DEF Means
  <2>2. TableReads(words) = Says("error")
    BY <1>2, <1>3, <1>5, <1>8 DEF TableReads, OrError, ApiCommands, HasRange,
         Category, validateArgument
  <2>3. TableReads(words) = <<SaysOnly("error")>>
    BY <2>2, SaysIs
  <2>4. ProcessCommand(words) = SaysOnly("error")
    BY <1>2, <2>3, ReadByItsFamily DEF ApiCommands
  <2> QED
    BY <2>1, <2>4, RightIfNotAsked DEF words
<1> QED
  BY <1>4, <1>5

\* A button of the remote control.
LEMMA ButtonIsRight ==
  ASSUME NEW c, Readable(c), c.name = "button"
  PROVE  Right(c)
<1> DEFINE words == Texts(c)
<1> DEFINE first == c.args[1]
<1>1. Arity[c.name] = 1
  BY DEF Arity
<1>2. /\ words[1] = <<Dash, c.name>> /\ Devices(words, 2) = c.to
      /\ Len(words) > 1 /\ words[2] = first /\ first \in Word
  BY <1>1, WordsWithOne
<1> HIDE DEF words
<1>3. (\A names : Named(words, names) <=> c.name \in names) /\ words[1][2] = c.name
  BY <1>2, NamedIs
<1>8. first # <<>>
  BY <1>2 DEF Word
<1>4. CASE first \in Buttons
  <2> DEFINE ask == Ask("button", <<first>>)
  <2>1. Means(c) = <<ask>>
    BY <1>4 DEF Means
  <2>2. ButtonReads(words) = Sends(ask, c.to)
    BY <1>2, <1>3, <1>4, <1>8 DEF ButtonReads, OrError, validateArgument
  <2> HIDE DEF ask
  <2>3. ButtonReads(words) = <<AnswerTo(ask, c.to)>>
    BY <2>2, SendsIs
  <2>4. ProcessCommand(words) = AnswerTo(ask, c.to)
    BY <1>2, <2>3, ReadByItsFamily DEF ButtonNames
  <2> QED
    BY <2>1, <2>4, RightIfAsked DEF words
<1>5. CASE ~(first \in Buttons)
  <2>1. Means(c) = <<>>
    BY <1>5 DEF Means
  <2>2. ButtonReads(words) = Says("error")
    BY <1>2, <1>3, <1>5, <1>8 DEF ButtonReads, OrError, validateArgument
  <2>3. ButtonReads(words) = <<SaysOnly("error")>>
    BY <2>2, SaysIs
  <2>4. ProcessCommand(words) = SaysOnly("error")
    BY <1>2, <2>3, ReadByItsFamily DEF ButtonNames
  <2> QED
    BY <2>1, <2>4, RightIfNotAsked DEF words
<1> QED
  BY <1>4, <1>5

\* Settings that are given as JSON.
LEMMA PictureIsRight ==
  ASSUME NEW c, Readable(c), c.name = "settings_picture"
  PROVE  Right(c)
<1> DEFINE words == Texts(c)
<1> DEFINE first == c.args[1]
<1>1. Arity[c.name] = 1
  BY DEF Arity
<1>2. /\ words[1] = <<Dash, c.name>> /\ Devices(words, 2) = c.to
      /\ Len(words) > 1 /\ words[2] = first /\ first \in Word
  BY <1>1, WordsWithOne
<1> HIDE DEF words
<1>3. (\A names : Named(words, names) <=> c.name \in names) /\ words[1][2] = c.name
  BY <1>2, NamedIs
<1>4. CASE IsJson(first)
  <2> DEFINE ask == SetSettings(<<"picture">>, Dumped(first))
  <2>1. Means(c) = <<ask>>
    BY <1>4 DEF Means
  <2>2. SettingsReads(words) = Sends(ask, c.to)
    BY <1>2, <1>3, <1>4 DEF SettingsReads, OrError
  <2> HIDE DEF ask
  <2>3. SettingsReads(words) = <<AnswerTo(ask, c.to)>>
    BY <2>2, SendsIs
  <2>4. ProcessCommand(words) = AnswerTo(ask, c.to)
    BY <1>2, <2>3, ReadByItsFamily DEF SettingsNames
  <2> QED
    BY <2>1, <2>4, RightIfAsked DEF words
<1>5. CASE ~(IsJson(first))
  <2>1. Means(c) = <<>>
    BY <1>5 DEF Means
  <2>2. SettingsReads(words) = Says("error")
    BY <1>2, <1>3, <1>5 DEF SettingsReads, OrError
  <2>3. SettingsReads(words) = <<SaysOnly("error")>>
    BY <2>2, SaysIs
  <2>4. ProcessCommand(words) = SaysOnly("error")
    BY <1>2, <2>3, ReadByItsFamily DEF SettingsNames
  <2> QED
    BY <2>1, <2>4, RightIfNotAsked DEF words
<1> QED
  BY <1>4, <1>5

\* The first character of an input is the input.
LEMMA HdmiIsRight ==
  ASSUME NEW c, Readable(c), c.name = "sethdmi"
  PROVE  Right(c)
<1> DEFINE words == Texts(c)
<1> DEFINE first == c.args[1]
<1>1. Arity[c.name] = 1
  BY DEF Arity
<1>2. /\ words[1] = <<Dash, c.name>> /\ Devices(words, 2) = c.to
      /\ Len(words) > 1 /\ words[2] = first /\ first \in Word
  BY <1>1, WordsWithOne
<1> HIDE DEF words
<1>3. (\A names : Named(words, names) <=> c.name \in names) /\ words[1][2] = c.name
  BY <1>2, NamedIs
<1> DEFINE input == SubSeq(first, 1, 1)
<1>8. first \in Inputs => input = first
  BY DEF Inputs
<1>9. input \in Inputs => first \in Inputs
  <2>1. InputIsRead(c)
    BY DEF Readable, ConsoleUnderstands
  <2> QED
    BY <2>1 DEF InputIsRead
<1>10. validateArgument(input, {<<"1">>, <<"2">>, <<"3">>, <<"4">>}) # <<>> <=> first \in Inputs
  <2>2. \A w \in Inputs : w # <<>>
    BY DEF Inputs
  <2>1. validateArgument(input, Inputs) # <<>> <=> input \in Inputs
    BY <2>2 DEF validateArgument
  <2> QED
    BY <1>8, <1>9, <2>1 DEF Inputs
<1>11. ~(Len(words[1]) > 2) /\ ~(Len(words[1]) < 2)
  BY <1>2
<1> HIDE DEF input
<1>12. HdmiReads(words) = IF first \in Inputs THEN Sends(HdmiApp(input), c.to) ELSE Says("error")
  <2>1. HdmiReads(words) = OrError(validateArgument(SubSeq(words[2], 1, 1),
                                      {<<"1">>, <<"2">>, <<"3">>, <<"4">>}) # <<>>,
                                   Sends(HdmiApp(SubSeq(words[2], 1, 1)), Devices(words, 2)))
    BY <1>2, <1>3, <1>11 DEF HdmiReads
  <2> QED
    BY <1>2, <1>10, <2>1 DEF OrError, input
<1>4. CASE first \in Inputs
  <2> DEFINE ask == HdmiApp(first)
  <2>1. Means(c) = <<ask>>
    BY <1>4 DEF Means
  <2>2. HdmiReads(words) = Sends(ask, c.to)
    BY <1>4, <1>8, <1>12
  <2> HIDE DEF ask
  <2>3. HdmiReads(words) = <<AnswerTo(ask, c.to)>>
    BY <2>2, SendsIs
  <2>4. ProcessCommand(words) = AnswerTo(ask, c.to)
    BY <1>2, <2>3, ReadByItsFamily DEF HdmiNames
  <2> QED
    BY <2>1, <2>4, RightIfAsked DEF words
<1>5. CASE ~(first \in Inputs)
  <2>1. Means(c) = <<>>
    BY <1>5 DEF Means
  <2>2. HdmiReads(words) = Says("error")
    BY <1>5, <1>12
  <2>3. HdmiReads(words) = <<SaysOnly("error")>>
    BY <2>2, SaysIs
  <2>4. ProcessCommand(words) = SaysOnly("error")
    BY <1>2, <2>3, ReadByItsFamily DEF HdmiNames
  <2> QED
    BY <2>1, <2>4, RightIfNotAsked DEF words
<1> QED
  BY <1>4, <1>5

-----------------------------------------------------------------------------
(* The commands with two arguments and with three.                          *)

\* The words of a command with two arguments.
LEMMA WordsWithTwo ==
  ASSUME NEW c, Readable(c), Arity[c.name] = 2
  PROVE  /\ Texts(c)[1] = <<Dash, c.name>> /\ Devices(Texts(c), 3) = c.to
         /\ Len(Texts(c)) > 2 /\ Texts(c)[2] = c.args[1] /\ Texts(c)[3] = c.args[2]
<1>1. Len(c.args) = 2 /\ 1 + 2 = 3 /\ 1 \in 1 .. 2 /\ 2 \in 1 .. 2 /\ 1 + 1 = 2 /\ 2 + 1 = 3
  BY DEF Readable
<1>2. /\ Texts(c)[1] = <<Dash, c.name>>
      /\ Len(Texts(c)) = 1 + Len(c.args) + Len(c.to) /\ Len(c.to) \in Nat
      /\ \A i \in 1 .. Len(c.args) : Texts(c)[i + 1] = c.args[i] /\ c.args[i] \in Word
      /\ Devices(Texts(c), 1 + Len(c.args)) = c.to
  BY CommandWords
<1>3. Texts(c)[1 + 1] = c.args[1] /\ Texts(c)[2 + 1] = c.args[2]
  BY <1>1, <1>2
<1>4. Len(Texts(c)) > 2
  BY <1>1, <1>2
<1> QED
  BY <1>1, <1>2, <1>3, <1>4

\* Those of a command with three.
LEMMA WordsWithThree ==
  ASSUME NEW c, Readable(c), Arity[c.name] = 3
  PROVE  /\ Texts(c)[1] = <<Dash, c.name>> /\ Devices(Texts(c), 4) = c.to
         /\ Len(Texts(c)) > 3
         /\ Texts(c)[2] = c.args[1] /\ Texts(c)[3] = c.args[2] /\ Texts(c)[4] = c.args[3]
<1>1. /\ Len(c.args) = 3 /\ 1 + 3 = 4 /\ 1 \in 1 .. 3 /\ 2 \in 1 .. 3 /\ 3 \in 1 .. 3
      /\ 1 + 1 = 2 /\ 2 + 1 = 3 /\ 3 + 1 = 4
  BY DEF Readable
<1>2. /\ Texts(c)[1] = <<Dash, c.name>>
      /\ Len(Texts(c)) = 1 + Len(c.args) + Len(c.to) /\ Len(c.to) \in Nat
      /\ \A i \in 1 .. Len(c.args) : Texts(c)[i + 1] = c.args[i] /\ c.args[i] \in Word
      /\ Devices(Texts(c), 1 + Len(c.args)) = c.to
  BY CommandWords
<1>3. /\ Texts(c)[1 + 1] = c.args[1] /\ Texts(c)[2 + 1] = c.args[2]
      /\ Texts(c)[3 + 1] = c.args[3]
  BY <1>1, <1>2
<1>4. Len(Texts(c)) > 3
  BY <1>1, <1>2
<1> QED
  BY <1>1, <1>2, <1>3, <1>4

\* The settings of a category, which the second argument names as JSON.
LEMMA GetSettingsIsRight ==
  ASSUME NEW c, Readable(c), c.name = "get_system_settings"
  PROVE  Right(c)
<1> DEFINE words == Texts(c)
<1> DEFINE first == c.args[1]
<1> DEFINE second == c.args[2]
<1>1. Arity[c.name] = 2
  BY DEF Arity
<1>2. /\ words[1] = <<Dash, c.name>> /\ Devices(words, 3) = c.to
      /\ Len(words) > 2 /\ words[2] = first /\ words[3] = second
  BY <1>1, WordsWithTwo
<1> HIDE DEF words
<1>3. (\A names : Named(words, names) <=> c.name \in names) /\ words[1][2] = c.name
  BY <1>2, NamedIs
<1>4. CASE IsJson(second)
  <2> DEFINE ask == Ask("getSystemSettings", <<first, Dumped(second)>>)
  <2>1. Means(c) = <<ask>>
    BY <1>4 DEF Means
  <2>2. RequestReads(words) = Sends(ask, c.to)
    BY <1>2, <1>3, <1>4 DEF RequestReads, OrError
  <2> HIDE DEF ask
  <2>3. RequestReads(words) = <<AnswerTo(ask, c.to)>>
    BY <2>2, SendsIs
  <2>4. ProcessCommand(words) = AnswerTo(ask, c.to)
    BY <1>2, <2>3, ReadByItsFamily DEF RequestNames
  <2> QED
    BY <2>1, <2>4, RightIfAsked DEF words
<1>5. CASE ~IsJson(second)
  <2>1. Means(c) = <<>>
    BY <1>5 DEF Means
  <2>2. RequestReads(words) = Says("error")
    BY <1>2, <1>3, <1>5 DEF RequestReads, OrError
  <2>3. RequestReads(words) = <<SaysOnly("error")>>
    BY <2>2, SaysIs
  <2>4. ProcessCommand(words) = SaysOnly("error")
    BY <1>2, <2>3, ReadByItsFamily DEF RequestNames
  <2> QED
    BY <2>1, <2>4, RightIfNotAsked DEF words
<1> QED
  BY <1>4, <1>5

\* The icon and the label of an input.
LEMMA InputTypeIsRight ==
  ASSUME NEW c, Readable(c), c.name = "set_input_type"
  PROVE  Right(c)
<1> DEFINE words == Texts(c)
<1> DEFINE ask == SetDeviceInfo(c.args[1], c.args[2], c.args[3])
<1>1. Arity[c.name] = 3
  BY DEF Arity
<1>2. /\ words[1] = <<Dash, c.name>> /\ Devices(words, 4) = c.to
      /\ Len(words) > 3
      /\ words[2] = c.args[1] /\ words[3] = c.args[2] /\ words[4] = c.args[3]
  BY <1>1, WordsWithThree
<1> HIDE DEF words
<1>3. \A names : Named(words, names) <=> c.name \in names
  BY <1>2, NamedIs
<1>4. Means(c) = <<ask>>
  BY DEF Means
<1>5. InputTypeReads(words) = Sends(ask, c.to)
  BY <1>2, <1>3 DEF InputTypeReads, OrError
<1> HIDE DEF ask
<1>6. InputTypeReads(words) = <<AnswerTo(ask, c.to)>>
  BY <1>5, SendsIs
<1>7. ProcessCommand(words) = AnswerTo(ask, c.to)
  BY <1>2, <1>6, ReadByItsFamily
<1> QED
  BY <1>4, <1>7, RightIfAsked DEF words

-----------------------------------------------------------------------------
(* The commands that the program writes anew as others.                     *)

\* The outcome of a command that stands for others.
Instead(list) == [says |-> "again", event |-> <<>>, again |-> list]

\* A command that stands for others, each of which asks for one thing.
LEMMA RightIfInstead ==
  ASSUME NEW c, NEW k \in Nat, NEW T, NEW list \in Seq(T), Len(list) = k,
         NEW M, Means(c) \in Seq(M), Len(Means(c)) = k,
         ProcessCommand(Texts(c)) = Instead(list),
         \A i \in 1 .. k : ProcessCommand(list[i].words) = AnswerTo(Means(c)[i], c.to),
         Guarded(list)
  PROVE  Right(c)
<1> DEFINE words == Texts(c)
<1> DEFINE means == Means(c)
<1>1. ProcessCommand(words).says = "again" /\ ProcessCommand(words).again = list
  BY DEF Instead
<1>2. DOMAIN list = 1 .. k /\ DOMAIN means = 1 .. k
  OBVIOUS
<1> HIDE DEF words, means
<1>3. \A i \in 1 .. k : ProcessCommand(list[i].words) = AnswerTo(means[i], c.to)
  BY DEF means
<1>4. ASSUME NEW i \in 1 .. k
      PROVE  IsLeaf(list[i].words) /\ LeafAsks(list[i].words) = AsksOf(means[i], Meant(c))
  BY <1>3, LeafAnswers, MeantIsBidden
<1>5. Regular(words)
  BY <1>1, <1>2, <1>4 DEF Regular
<1>6. [i \in DOMAIN list |-> LeafAsks(list[i].words)]
        = [i \in DOMAIN means |-> AsksOf(means[i], Meant(c))]
  BY <1>2, <1>4
<1>7. CommandAsks(words) = FlattenSeq([i \in DOMAIN list |-> LeafAsks(list[i].words)])
  BY <1>1 DEF CommandAsks
<1>8. Asked(c) = FlattenSeq([i \in DOMAIN means |-> AsksOf(means[i], Meant(c))])
  BY DEF Asked, means
<1> QED
  BY <1>5, <1>6, <1>7, <1>8 DEF Right, words

\* A command that stands for one other, whose result is printed.
LEMMA RightIfRewritten ==
  ASSUME NEW c, NEW ask, Means(c) = <<ask>>, NEW new,
         ProcessCommand(Texts(c)) = Instead(<<[words |-> new, printed |-> TRUE]>>),
         ProcessCommand(new) = AnswerTo(ask, c.to)
  PROVE  Right(c)
<1> DEFINE command == [words |-> new, printed |-> TRUE]
<1> DEFINE list == <<command>>
<1>1. command.words = new /\ command.printed = TRUE
  OBVIOUS
<1>2. ProcessCommand(Texts(c)) = Instead(list)
  OBVIOUS
<1> HIDE DEF command
<1>3. list \in Seq({command}) /\ Len(list) = 1 /\ DOMAIN list = 1 .. 1 /\ list[1] = command
  OBVIOUS
<1>4. Means(c) \in Seq({ask}) /\ Len(Means(c)) = 1 /\ Means(c)[1] = ask
  OBVIOUS
<1> HIDE DEF list
<1>5. \A i \in 1 .. 1 : i = 1
  OBVIOUS
<1>6. \A i \in 1 .. 1 : ProcessCommand(list[i].words) = AnswerTo(Means(c)[i], c.to)
  BY <1>1, <1>3, <1>4, <1>5
<1>7. Guarded(list)
  BY <1>1, <1>3, <1>5 DEF Guarded
<1> QED
  BY <1>2, <1>3, <1>4, <1>6, <1>7, RightIfInstead

\* A command that is written anew, with two arguments or with one.
Anew(w, head, p, q, to) == w = <<head, p, q>> \o to

\* A command written anew with one argument.
AnewShort(w, head, p, to) == w = <<head, p>> \o to

\* Its words.
LEMMA AnewWithTwo ==
  ASSUME NEW T, NEW to \in Seq(T), NEW p, NEW q, NEW head,
         NEW w, Anew(w, head, p, q, to)
  PROVE  w[1] = head /\ Devices(w, 3) = to /\ Len(w) > 2 /\ w[2] = p /\ w[3] = q
<1> DEFINE V == T \cup {p, q}
<1> DEFINE args == <<p, q>>
<1>1. T \subseteq V /\ args \in Seq(V)
  OBVIOUS
<1>2. Len(args) = 2 /\ args[1] = p /\ args[2] = q /\ DOMAIN args = 1 .. 2
  OBVIOUS
<1>3. <<head>> \o args = <<head, p, q>>
  BY TripleIs
<1> HIDE DEF V, args
<1>4. to \in Seq(V) /\ Len(to) \in Nat
  BY <1>1, SeqMonotonic
<1>5. w = Written(head, args, to)
  BY <1>3 DEF Written, Anew
<1>6. Consists(w, head, args, to)
  BY <1>1, <1>4, <1>5, WrittenIs
<1>7. /\ Len(w) = 1 + Len(args) + Len(to) /\ w[1] = head
      /\ \A i \in 1 .. 2 : w[i + 1] = args[i]
      /\ Devices(w, 1 + Len(args)) = to
  BY <1>2, <1>6 DEF Consists
<1>8. w[1 + 1] = args[1] /\ w[2 + 1] = args[2]
  BY <1>7
<1> QED
  BY <1>2, <1>4, <1>7, <1>8

\* Its words.
LEMMA AnewWithOne ==
  ASSUME NEW T, NEW to \in Seq(T), NEW p, NEW head,
         NEW w, AnewShort(w, head, p, to)
  PROVE  w[1] = head /\ Devices(w, 2) = to /\ Len(w) > 1 /\ w[2] = p
<1> DEFINE V == T \cup {p}
<1> DEFINE args == <<p>>
<1>1. T \subseteq V /\ args \in Seq(V)
  OBVIOUS
<1>2. Len(args) = 1 /\ args[1] = p /\ DOMAIN args = 1 .. 1
  OBVIOUS
<1>3. <<head>> \o args = <<head, p>>
  BY PairIs
<1> HIDE DEF V, args
<1>4. to \in Seq(V) /\ Len(to) \in Nat
  BY <1>1, SeqMonotonic
<1>5. w = Written(head, args, to)
  BY <1>3 DEF Written, AnewShort
<1>6. Consists(w, head, args, to)
  BY <1>1, <1>4, <1>5, WrittenIs
<1>7. /\ Len(w) = 1 + Len(args) + Len(to) /\ w[1] = head
      /\ \A i \in 1 .. 1 : w[i + 1] = args[i]
      /\ Devices(w, 1 + Len(args)) = to
  BY <1>2, <1>6 DEF Consists
<1>8. w[1 + 1] = args[1]
  BY <1>7
<1> QED
  BY <1>2, <1>4, <1>7, <1>8

\* The outcome that Again gives.
LEMMA AgainIs ==
  ASSUME NEW list
  PROVE  Again(list) = <<Instead(list)>>
  BY DEF Again, Instead

\* The service menu is an application.
LEMMA ServiceMenuIsRight ==
  ASSUME NEW c, Readable(c), c.name = "servicemenu"
  PROVE  Right(c)
<1> DEFINE words == Texts(c)
<1> DEFINE app == <<"com.webos.app.factorywin">>
<1> DEFINE json == <<"{", Quote, "irKey", Quote, ":", Quote, "inStart", Quote, "}">>
<1> DEFINE head == <<Dash, "start_app_with_param">>
<1> DEFINE new == <<head, app, json>> \o c.to
<1> DEFINE ask == LaunchWith(app, Dumped(json))
<1>1. Arity[c.name] = 0
  BY DEF Arity
<1>2. words[1] = <<Dash, c.name>> /\ Devices(words, 1) = c.to
  BY <1>1, WordsWithout
<1>3. c.to \in Seq(Word)
  BY DEF Readable, Command
<1> HIDE DEF words
<1>4. (\A names : Named(words, names) <=> c.name \in names) /\ words[1][2] = c.name
  BY <1>2, NamedIs
<1>5. Means(c) = <<ask>>
  BY DEF Means
<1>6. MenuReads(words) = Again(<<[words |-> new, printed |-> TRUE]>>)
  <2> DEFINE command == [
        servicemenu |-> AppCommandFor("com.webos.app.factorywin", "irKey", "inStart"),
        freesyncinfo |-> AppCommandFor("com.webos.app.tvhotkey", "activateType", "freesync-info"),
        servicemenu_legacy_enable |-> LegacyCommandFor("false"),
        servicemenu_legacy_disable |-> LegacyCommandFor("true")]
  <2>1. MenuReads(words) = IF Named(words, DOMAIN command)
                           THEN Again(Rewritten(words, 1, command[words[1][2]])) ELSE <<>>
    BY DEF MenuReads
  <2>2. /\ "servicemenu" \in DOMAIN command
        /\ command["servicemenu"] = AppCommandFor("com.webos.app.factorywin", "irKey", "inStart")
    OBVIOUS
  <2> HIDE DEF command
  <2>3. MenuReads(words)
          = Again(Rewritten(words, 1,
                            AppCommandFor("com.webos.app.factorywin", "irKey", "inStart")))
    BY <1>4, <2>1, <2>2
  <2>4. Rewritten(words, 1, AppCommandFor("com.webos.app.factorywin", "irKey", "inStart"))
          = <<[words |-> AppCommandFor("com.webos.app.factorywin", "irKey", "inStart") \o c.to,
               printed |-> TRUE]>>
    BY <1>2 DEF Rewritten
  <2> QED
    BY <2>3, <2>4 DEF AppCommandFor
<1>7. IsJson(json)
  <2>1. json # <<>> /\ json[1] = "{" /\ Len(json) = 9 /\ json[9] = "}"
    OBVIOUS
  <2> HIDE DEF json
  <2> QED
    BY <2>1 DEF IsJson, Last
<1>14. Anew(new, head, app, json, c.to) /\ head = <<Dash, "start_app_with_param">>
  BY DEF Anew
<1> HIDE DEF app, json, new, head
<1>8. /\ new[1] = <<Dash, "start_app_with_param">> /\ Devices(new, 3) = c.to
      /\ Len(new) > 2 /\ new[2] = app /\ new[3] = json
  BY <1>3, <1>14, AnewWithTwo
<1>9. \A names : Named(new, names) <=> "start_app_with_param" \in names
  BY <1>8, NamedIs
<1>10. AppReads(new) = Sends(ask, c.to)
  BY <1>7, <1>8, <1>9 DEF AppReads, OrError
<1> HIDE DEF ask
<1>11. AppReads(new) = <<AnswerTo(ask, c.to)>>
  BY <1>10, SendsIs
<1>12. ProcessCommand(new) = AnswerTo(ask, c.to)
  BY <1>8, <1>11, ReadByItsFamily DEF AppNames
<1> DEFINE list == <<[words |-> new, printed |-> TRUE]>>
<1>13. ProcessCommand(words) = Instead(list)
  <2>1. MenuReads(words) = <<Instead(list)>>
    BY <1>6, AgainIs
  <2> QED
    BY <1>2, <2>1, ReadByItsFamily DEF MenuNames
<1> QED
  BY <1>5, <1>12, <1>13, RightIfRewritten DEF words

\* The service menu of older displays is a setting.
LEMMA LegacyMenuIsRight ==
  ASSUME NEW c, Readable(c), c.name = "servicemenu_legacy_enable"
  PROVE  Right(c)
<1> DEFINE words == Texts(c)
<1> DEFINE json == <<"{", Quote, "svcMenuFlag", Quote, ":", "false", "}">>
<1> DEFINE head == <<Dash, "settings_other">>
<1> DEFINE new == <<head, json>> \o c.to
<1> DEFINE ask == SetSettings(<<"other">>, Dumped(json))
<1>1. Arity[c.name] = 0
  BY DEF Arity
<1>2. words[1] = <<Dash, c.name>> /\ Devices(words, 1) = c.to
  BY <1>1, WordsWithout
<1>3. c.to \in Seq(Word)
  BY DEF Readable, Command
<1> HIDE DEF words
<1>4. (\A names : Named(words, names) <=> c.name \in names) /\ words[1][2] = c.name
  BY <1>2, NamedIs
<1>5. Means(c) = <<ask>>
  BY DEF Means
<1>6. MenuReads(words) = Again(<<[words |-> new, printed |-> TRUE]>>)
  <2> DEFINE command == [
        servicemenu |-> AppCommandFor("com.webos.app.factorywin", "irKey", "inStart"),
        freesyncinfo |-> AppCommandFor("com.webos.app.tvhotkey", "activateType", "freesync-info"),
        servicemenu_legacy_enable |-> LegacyCommandFor("false"),
        servicemenu_legacy_disable |-> LegacyCommandFor("true")]
  <2>1. MenuReads(words) = IF Named(words, DOMAIN command)
                           THEN Again(Rewritten(words, 1, command[words[1][2]])) ELSE <<>>
    BY DEF MenuReads
  <2>2. /\ "servicemenu_legacy_enable" \in DOMAIN command
        /\ command["servicemenu_legacy_enable"] = LegacyCommandFor("false")
    OBVIOUS
  <2> HIDE DEF command
  <2>3. MenuReads(words) = Again(Rewritten(words, 1, LegacyCommandFor("false")))
    BY <1>4, <2>1, <2>2
  <2>4. Rewritten(words, 1, LegacyCommandFor("false"))
          = <<[words |-> LegacyCommandFor("false") \o c.to, printed |-> TRUE]>>
    BY <1>2 DEF Rewritten
  <2> QED
    BY <2>3, <2>4 DEF LegacyCommandFor
<1>7. IsJson(json)
  <2>1. json # <<>> /\ json[1] = "{" /\ Len(json) = 7 /\ json[7] = "}"
    OBVIOUS
  <2> HIDE DEF json
  <2> QED
    BY <2>1 DEF IsJson, Last
<1>14. AnewShort(new, head, json, c.to) /\ head = <<Dash, "settings_other">>
  BY DEF AnewShort
<1> HIDE DEF json, new, head
<1>8. /\ new[1] = <<Dash, "settings_other">> /\ Devices(new, 2) = c.to
      /\ Len(new) > 1 /\ new[2] = json
  BY <1>3, <1>14, AnewWithOne
<1>9. (\A names : Named(new, names) <=> "settings_other" \in names)
      /\ new[1][2] = "settings_other"
  BY <1>8, NamedIs
<1>10. SettingsReads(new) = Sends(ask, c.to)
  BY <1>7, <1>8, <1>9 DEF SettingsReads, OrError
<1> HIDE DEF ask
<1>11. SettingsReads(new) = <<AnswerTo(ask, c.to)>>
  BY <1>10, SendsIs
<1>12. ProcessCommand(new) = AnswerTo(ask, c.to)
  BY <1>8, <1>11, ReadByItsFamily DEF SettingsNames
<1> DEFINE list == <<[words |-> new, printed |-> TRUE]>>
<1>13. ProcessCommand(words) = Instead(list)
  <2>1. MenuReads(words) = <<Instead(list)>>
    BY <1>6, AgainIs
  <2> QED
    BY <1>2, <2>1, ReadByItsFamily DEF MenuNames
<1> QED
  BY <1>5, <1>12, <1>13, RightIfRewritten DEF words

-----------------------------------------------------------------------------
(* The commands for the curvature, which the program writes anew twice.     *)

\* The words for presets, and those for which there is none to adjust.
CurveTexts == {<<"flat">>, <<"2">>, <<"3">>}

\* The words for presets that can be adjusted.
AdjustTexts == {<<"2">>, <<"3">>}

\* The presets of those words.
LEMMA PresetsAre ==
  /\ CurvePreset(<<"flat">>) = <<"flat">> /\ CurvePreset(<<"2">>) = <<"curvature", "2">>
  /\ CurvePreset(<<"3">>) = <<"curvature", "3">>
  /\ \A text \in CurveTexts : CurvePreset(text) # <<>>
  /\ \A text \in AdjustTexts : CurvePreset(text) # <<>> /\ CurvePreset(text) # <<"flat">>
<1>1. CurvePreset(<<"flat">>) = <<"flat">>
  BY DEF CurvePreset
<1>2. ASSUME NEW text \in {<<"2">>, <<"3">>} PROVE CurvePreset(text) = <<"curvature">> \o text
  <2>1. text \notin {<<"0">>, <<"flat">>} /\ text \in {<<"1">>, <<"2">>, <<"3">>}
    OBVIOUS
  <2> QED
    BY <2>1 DEF CurvePreset
<1>3. CurvePreset(<<"2">>) = <<"curvature", "2">>
  <2>1. CurvePreset(<<"2">>) = <<"curvature">> \o <<"2">>
    BY <1>2
  <2>2. <<"curvature">> \o <<"2">> = <<"curvature", "2">>
    BY PairIs
  <2> QED
    BY <2>1, <2>2
<1>4. CurvePreset(<<"3">>) = <<"curvature", "3">>
  <2>1. CurvePreset(<<"3">>) = <<"curvature">> \o <<"3">>
    BY <1>2
  <2>2. <<"curvature">> \o <<"3">> = <<"curvature", "3">>
    BY PairIs
  <2> QED
    BY <2>1, <2>2
<1>5. /\ <<"flat">> # <<>> /\ <<"curvature", "2">> # <<>> /\ <<"curvature", "3">> # <<>>
      /\ <<"curvature", "2">> # <<"flat">> /\ <<"curvature", "3">> # <<"flat">>
  OBVIOUS
<1> QED
  BY <1>1, <1>3, <1>4, <1>5 DEF CurveTexts, AdjustTexts

\* A preset that is chosen.
LEMMA ChoiceIs ==
  ASSUME NEW T, NEW to \in Seq(T), NEW text \in CurveTexts,
         NEW head, head = <<Dash, "set_curve_preset">>, NEW w, AnewShort(w, head, text, to)
  PROVE  ProcessCommand(w) = AnswerTo(Ask("changeCurve", <<CurvePreset(text)>>), to)
<1>1. /\ w[1] = <<Dash, "set_curve_preset">> /\ Devices(w, 2) = to /\ Len(w) > 1
      /\ w[2] = text
  BY AnewWithOne
<1>2. \A names : Named(w, names) <=> "set_curve_preset" \in names
  BY <1>1, NamedIs
<1> DEFINE preset == CurvePreset(text)
<1>3. preset # <<>>
  BY PresetsAre
<1> DEFINE ask == Ask("changeCurve", <<preset>>)
<1>4. CurveReads(w) = Sends(ask, to)
  BY <1>1, <1>2, <1>3 DEF CurveReads, OrError
<1> HIDE DEF ask
<1>5. CurveReads(w) = <<AnswerTo(ask, to)>>
  BY <1>4, SendsIs
<1>6. ProcessCommand(w) = AnswerTo(ask, to)
  BY <1>1, <1>5, ReadByItsFamily DEF CurveNames
<1> QED
  BY <1>6 DEF ask

\* A preset that is adjusted, to a number that was written and is read again.
LEMMA AdjustmentIs ==
  ASSUME NEW T, NEW to \in Seq(T), NEW text \in AdjustTexts,
         NEW head, head = <<Dash, "adjust_curve_preset">>,
         NEW level, Level(level, 0, 100) = level, NEW w, Anew(w, head, text, level, to)
  PROVE  ProcessCommand(w)
           = AnswerTo(Ask("updateCurvature", <<CurvePreset(text), level>>), to)
<1>1. /\ w[1] = <<Dash, "adjust_curve_preset">> /\ Devices(w, 3) = to /\ Len(w) > 2
      /\ w[2] = text /\ w[3] = level
  BY AnewWithTwo
<1>2. \A names : Named(w, names) <=> "adjust_curve_preset" \in names
  BY <1>1, NamedIs
<1> DEFINE preset == CurvePreset(text)
<1>3. preset # <<>> /\ preset # <<"flat">>
  BY PresetsAre
<1> DEFINE ask == Ask("updateCurvature", <<preset, level>>)
<1>5. CurveReads(w) = Sends(ask, to)
  BY <1>1, <1>2, <1>3 DEF CurveReads, OrError
<1> HIDE DEF ask
<1>6. CurveReads(w) = <<AnswerTo(ask, to)>>
  BY <1>5, SendsIs
<1>8. ProcessCommand(w) = AnswerTo(ask, to)
  BY <1>1, <1>6, ReadByItsFamily DEF CurveNames
<1> QED
  BY <1>8 DEF ask

\* A curvature is made of two presets, unless it is none.
LEMMA CurvatureIsRight ==
  ASSUME NEW c, Readable(c), c.name = "set_curvature"
  PROVE  Right(c)
<1> DEFINE words == Texts(c)
<1> DEFINE first == c.args[1]
<1> DEFINE to == c.to
<1> DEFINE n == Within(atoi(first), 0, 100)
<1> DEFINE level == to_string(n)
<1>1. Arity[c.name] = 1
  BY DEF Arity
<1>2. /\ words[1] = <<Dash, c.name>> /\ Devices(words, 2) = to
      /\ Len(words) > 1 /\ words[2] = first /\ first \in Word
  BY <1>1, WordsWithOne
<1>3. to \in Seq(Word)
  BY DEF Readable, Command
<1> HIDE DEF words
<1>4. \A names : Named(words, names) <=> c.name \in names
  BY <1>2, NamedIs
<1>5. atoi(first) \in Int
  <2>1. first \in Seq(STRING)
    BY <1>2 DEF Word
  <2> QED
    BY <2>1, AtoiIsNumber
<1>6. n \in 0 .. 100 /\ (n = 0 <=> atoi(first) <= 0)
  BY <1>5 DEF Within
<1>7. Level(words[2], 0, 100) = level
  BY <1>2 DEF Level
<1> HIDE DEF n
<1>8. level = <<"0">> <=> atoi(first) <= 0
  BY <1>6, SmallNumbers
<1> DEFINE choose == <<Dash, "set_curve_preset">>
<1> DEFINE adjust == <<Dash, "adjust_curve_preset">>
<1> DEFINE parts == IF first = <<"flat">> \/ level = <<"0">> THEN <<<<choose, <<"flat">>>>>>
                       ELSE <<<<adjust, <<"2">>, level>>, <<adjust, <<"3">>, level>>,
                              <<choose, <<"3">>>>, <<choose, <<"2">>>>>>
<1> DEFINE list == [i \in DOMAIN parts |->
                      [words |-> parts[i] \o to, printed |-> i = Len(parts)]]
<1>9. CurvatureReads(words) = Again(list)
  BY <1>2, <1>4, <1>7 DEF CurvatureReads, OrError
<1>10. ProcessCommand(words) = Instead(list)
  <2> HIDE DEF list
  <2>1. CurvatureReads(words) = <<Instead(list)>>
    BY <1>9, AgainIs
  <2> QED
    BY <1>2, <2>1, ReadByItsFamily
<1> HIDE DEF level
<1>11. CASE first = <<"flat">> \/ atoi(first) <= 0
  <2> DEFINE text == <<"flat">>
  <2> DEFINE new == <<choose, text>> \o to
  <2> DEFINE ask == Ask("changeCurve", <<text>>)
  <2>1. Means(c) = <<ask>>
    BY <1>11 DEF Means
  <2>2. list = <<[words |-> new, printed |-> TRUE]>>
    <3>1. parts = <<<<choose, text>>>>
      BY <1>8, <1>11
    <3> DEFINE part == <<choose, text>>
    <3> HIDE DEF parts, part
    <3>2. parts = <<part>>
      BY <3>1 DEF part
    <3>3. DOMAIN parts = {1} /\ Len(parts) = 1 /\ parts[1] = part
      BY <3>2
    <3>4. list = [i \in {1} |-> [words |-> part \o to, printed |-> TRUE]]
      BY <3>3
    <3> DEFINE one == [words |-> part \o to, printed |-> TRUE]
    <3>5. one = [words |-> new, printed |-> TRUE]
      BY DEF part
    <3> HIDE DEF one
    <3>6. list = [i \in {1} |-> one]
      BY <3>4 DEF one
    <3> HIDE DEF list
    <3>7. <<one>> = [i \in {1} |-> one]
      OBVIOUS
    <3> QED
      BY <3>5, <3>6, <3>7
  <2>3. AnewShort(new, choose, text, to)
    BY DEF AnewShort
  <2>6. text \in CurveTexts /\ CurvePreset(text) = text
    BY PresetsAre DEF CurveTexts
  <2>7. choose = <<Dash, "set_curve_preset">>
    OBVIOUS
  <2> HIDE DEF new, choose, list, text
  <2>4. ProcessCommand(new) = AnswerTo(ask, to)
    BY <1>3, <2>3, <2>6, <2>7, ChoiceIs
  <2>5. ProcessCommand(Texts(c)) = Instead(<<[words |-> new, printed |-> TRUE]>>)
    BY <1>10, <2>2 DEF words
  <2> HIDE DEF ask
  <2> QED
    BY <2>1, <2>4, <2>5, RightIfRewritten
<1>12. CASE ~(first = <<"flat">> \/ atoi(first) <= 0)
  <2> DEFINE text2 == <<"2">>
  <2> DEFINE text3 == <<"3">>
  <2> DEFINE preset2 == <<"curvature", "2">>
  <2> DEFINE preset3 == <<"curvature", "3">>
  <2> DEFINE m1 == Ask("updateCurvature", <<preset2, level>>)
  <2> DEFINE m2 == Ask("updateCurvature", <<preset3, level>>)
  <2> DEFINE m3 == Ask("changeCurve", <<preset3>>)
  <2> DEFINE m4 == Ask("changeCurve", <<preset2>>)
  <2> DEFINE w1 == <<adjust, text2, level>> \o to
  <2> DEFINE w2 == <<adjust, text3, level>> \o to
  <2> DEFINE w3 == <<choose, text3>> \o to
  <2> DEFINE w4 == <<choose, text2>> \o to
  <2>1. Means(c) = <<m1, m2, m3, m4>>
    BY <1>12 DEF Means, level, n
  <2>2. /\ Len(list) = 4 /\ DOMAIN list = 1 .. 4 /\ (\E T : list \in Seq(T))
        /\ list[1].words = w1 /\ list[2].words = w2 /\ list[3].words = w3
        /\ list[4].words = w4 /\ list[4].printed
    <3> DEFINE p1 == <<adjust, text2, level>>
    <3> DEFINE p2 == <<adjust, text3, level>>
    <3> DEFINE p3 == <<choose, text3>>
    <3> DEFINE p4 == <<choose, text2>>
    <3>1. parts = <<p1, p2, p3, p4>>
      BY <1>8, <1>12
    <3>2. w1 = p1 \o to /\ w2 = p2 \o to /\ w3 = p3 \o to /\ w4 = p4 \o to
      OBVIOUS
    <3> HIDE DEF p1, p2, p3, p4, parts, w1, w2, w3, w4
    <3>3. /\ DOMAIN parts = 1 .. 4 /\ Len(parts) = 4
          /\ parts[1] = p1 /\ parts[2] = p2 /\ parts[3] = p3 /\ parts[4] = p4
      BY <3>1
    <3> DEFINE entry(i) == [words |-> parts[i] \o to, printed |-> i = Len(parts)]
    <3>4. list = [i \in 1 .. 4 |-> entry(i)]
      BY <3>3
    <3>5. /\ entry(1).words = w1 /\ entry(2).words = w2 /\ entry(3).words = w3
          /\ entry(4).words = w4 /\ entry(4).printed
      BY <3>2, <3>3
    <3> HIDE DEF entry, list
    <3>6. DOMAIN list = 1 .. 4 /\ \A i \in 1 .. 4 : list[i] = entry(i)
      BY <3>4
    <3>7. list \in Seq({entry(i) : i \in 1 .. 4}) /\ Len(list) = 4
      BY <3>4
    <3>8. list[1] = entry(1) /\ list[2] = entry(2) /\ list[3] = entry(3) /\ list[4] = entry(4)
      BY <3>6
    <3> QED
      BY <3>5, <3>6, <3>7, <3>8
  <2>3. /\ Anew(w1, adjust, text2, level, to) /\ Anew(w2, adjust, text3, level, to)
        /\ AnewShort(w3, choose, text3, to) /\ AnewShort(w4, choose, text2, to)
    BY DEF Anew, AnewShort
  <2>4. /\ text2 \in CurveTexts /\ text3 \in CurveTexts
        /\ text2 \in AdjustTexts /\ text3 \in AdjustTexts
        /\ CurvePreset(text2) = preset2 /\ CurvePreset(text3) = preset3
    BY PresetsAre DEF CurveTexts, AdjustTexts
  <2>5. choose = <<Dash, "set_curve_preset">> /\ adjust = <<Dash, "adjust_curve_preset">>
    OBVIOUS
  <2>6. Level(level, 0, 100) = level
    <3>1. atoi(level) = n
      BY <1>6, SmallNumbers DEF level
    <3>2. Within(n, 0, 100) = n
      BY <1>6 DEF Within
    <3> QED
      BY <3>1, <3>2 DEF Level, level
  <2> HIDE DEF w1, w2, w3, w4, choose, adjust, list, text2, text3, preset2, preset3
  <2>7. ProcessCommand(w1) = AnswerTo(m1, to)
    BY <1>3, <2>3, <2>4, <2>5, <2>6, AdjustmentIs
  <2>8. ProcessCommand(w2) = AnswerTo(m2, to)
    BY <1>3, <2>3, <2>4, <2>5, <2>6, AdjustmentIs
  <2>9. ProcessCommand(w3) = AnswerTo(m3, to)
    BY <1>3, <2>3, <2>4, <2>5, ChoiceIs
  <2>10. ProcessCommand(w4) = AnswerTo(m4, to)
    BY <1>3, <2>3, <2>4, <2>5, ChoiceIs
  <2>11. Guarded(list)
    <3>1. m4.on \in ThroughAlert
      BY DEF Ask, ThroughAlert
    <3> HIDE DEF m1, m2, m3, m4
    <3>2. /\ ProcessCommand(w4).says = "answers"
          /\ ProcessCommand(w4).event = [ask |-> m4, to |-> to]
      BY <2>10 DEF AnswerTo
    <3>3. Guarding(list[4])
      BY <2>2, <3>1, <3>2 DEF Guarding
    <3>4. \A i \in 1 .. 4 : i = 4 \/ (4 > i /\ (i = 1 \/ i = 2 \/ i = 3))
      OBVIOUS
    <3>5. 4 \in 1 .. 4
      OBVIOUS
    <3>6. m1.on # "poweron" /\ m2.on # "poweron" /\ m3.on # "poweron"
      BY DEF Ask, m1, m2, m3
    <3>7. /\ ProcessCommand(w1).event = [ask |-> m1, to |-> to]
          /\ ProcessCommand(w2).event = [ask |-> m2, to |-> to]
          /\ ProcessCommand(w3).event = [ask |-> m3, to |-> to]
      BY <2>7, <2>8, <2>9 DEF AnswerTo
    <3>8. ~PowersOn(list[1]) /\ ~PowersOn(list[2]) /\ ~PowersOn(list[3])
      BY <2>2, <3>6, <3>7 DEF PowersOn
    <3> QED
      BY <2>2, <3>3, <3>4, <3>5, <3>8 DEF Guarded
  <2> DEFINE means == <<m1, m2, m3, m4>>
  <2>12. /\ means \in Seq({m1, m2, m3, m4}) /\ Len(means) = 4
         /\ means[1] = m1 /\ means[2] = m2 /\ means[3] = m3 /\ means[4] = m4
    <3> HIDE DEF m1, m2, m3, m4
    <3> QED
      OBVIOUS
  <2> HIDE DEF m1, m2, m3, m4, means
  <2>13. Means(c) = means
    BY <2>1 DEF means
  <2>14. \A i \in 1 .. 4 : i = 1 \/ i = 2 \/ i = 3 \/ i = 4
    OBVIOUS
  <2>15. \A i \in 1 .. 4 : ProcessCommand(list[i].words) = AnswerTo(Means(c)[i], c.to)
    BY <2>2, <2>7, <2>8, <2>9, <2>10, <2>12, <2>13, <2>14
  <2>16. ProcessCommand(Texts(c)) = Instead(list)
    BY <1>10 DEF words
  <2>17. \E T : list \in Seq(T)
    BY <2>2
  <2>18. \E M : Means(c) \in Seq(M)
    BY <2>12, <2>13
  <2>19. Len(list) = 4 /\ Len(Means(c)) = 4
    BY <2>2, <2>12, <2>13
  <2> QED
    BY <2>11, <2>15, <2>16, <2>17, <2>18, <2>19, RightIfInstead
<1> QED
  BY <1>11, <1>12

-----------------------------------------------------------------------------
(* Each command is read as it is meant, and the arguments are cut into the  *)
(* commands they were written from.                                         *)

\* The program reads every command as it is meant.
LEMMA CommandIsRight ==
  ASSUME NEW c, Readable(c)
  PROVE  Right(c)
<1>1. c.name \in DOMAIN Arity /\ c.name # "autodisable"
  BY DEF Readable, Command, ConsoleUnderstands, OnlyOfDaemon
<1>2. \/ Arity[c.name] = 0
      \/ c.name = "output" \/ c.name = "volume" \/ c.name = "colortemperature"
      \/ c.name = "gamemode_hdmi1" \/ c.name = "sethdmi" \/ c.name = "button"
      \/ c.name = "settings_picture" \/ c.name = "request" \/ c.name = "start_app"
      \/ c.name = "set_curvature" \/ c.name = "get_system_settings"
      \/ c.name = "set_input_type"
  BY <1>1 DEF Arity
<1>3. Arity[c.name] = 0 => Right(c)
  BY WithoutIsRight, ServiceMenuIsRight, LegacyMenuIsRight
<1> QED
  BY <1>2, <1>3, OutputIsRight, VolumeIsRight, ColorTemperatureIsRight, GameModeIsRight,
     HdmiIsRight, ButtonIsRight, PictureIsRight, RequestIsRight, StartAppIsRight,
     CurvatureIsRight, GetSettingsIsRight, InputTypeIsRight

-----------------------------------------------------------------------------
\* The word begins a command.
BeginsCommand(word) == word # <<>> /\ word[1] = Dash

\* Only its first word begins a command.
LEMMA TextsBegin ==
  ASSUME NEW c, Readable(c)
  PROVE  /\ Texts(c) # <<>> /\ \E T : Texts(c) \in Seq(T)
         /\ BeginsCommand(Texts(c)[1])
         /\ \A i \in 2 .. Len(Texts(c)) : ~BeginsCommand(Texts(c)[i])
<1> DEFINE h == <<Dash, c.name>>
<1> DEFINE T == Word \cup {h}
<1> DEFINE back == c.args \o c.to
<1> DEFINE m == Len(back)
<1>1. c.args \in Seq(Word) /\ c.to \in Seq(Word) /\ Word \subseteq T /\ h \in T
  BY DEF Readable, Command
<1>2. h # <<>> /\ h[1] = Dash
  OBVIOUS
<1> HIDE DEF T
<1>3. c.args \in Seq(T) /\ c.to \in Seq(T)
  BY <1>1, SeqMonotonic
<1>4. back \in Seq(T)
  BY <1>3
<1>5. \A i \in DOMAIN back : back[i][1] # Dash
  BY DEF Readable, ConsoleUnderstands
<1> HIDE DEF h
<1>6. <<h>> \in Seq(T) /\ Len(<<h>>) = 1 /\ <<h>>[1] = h
  BY <1>1
<1>7. Texts(c) = <<h>> \o back
  <2> DEFINE one == <<h>>
  <2>1. \A x, y, z \in Seq(T) : (x \o y) \o z = x \o (y \o z)
    BY Associative
  <2>2. one \in Seq(T)
    BY <1>6
  <2> HIDE DEF one
  <2>3. (one \o c.args) \o c.to = one \o (c.args \o c.to)
    BY <1>3, <2>1, <2>2
  <2> QED
    BY <2>3 DEF Texts, h, one
<1> HIDE DEF back
<1> DEFINE one == <<h>>
<1>8. one \in Seq(T) /\ Len(one) = 1 /\ one[1] = h
  BY <1>6
<1> HIDE DEF one
<1> DEFINE t == one \o back
<1>9. /\ t \in Seq(T) /\ Len(t) = 1 + m /\ m \in Nat
      /\ \A i \in 1 .. 1 + m : t[i] = IF i <= 1 THEN one[i] ELSE back[i - 1]
  <2>1. /\ Len(t) = Len(one) + Len(back)
        /\ \A i \in 1 .. Len(one) + Len(back) :
             t[i] = IF i <= Len(one) THEN one[i] ELSE back[i - Len(one)]
    BY <1>4, <1>8, ConcatProperties
  <2> QED
    BY <1>4, <1>8, <2>1
<1>10. Texts(c) = t
  BY <1>7 DEF one
<1> HIDE DEF t
<1>11. t # <<>> /\ BeginsCommand(t[1])
  <2>1. 1 \in 1 .. 1 + m
    BY <1>9
  <2>2. t[1] = h
    BY <1>8, <1>9, <2>1
  <2> QED
    BY <1>2, <1>9, <2>2 DEF BeginsCommand
<1>12. ASSUME NEW i \in 2 .. Len(t) PROVE ~BeginsCommand(t[i])
  <2> DEFINE j == i - 1
  <2>1. i \in 1 .. 1 + m /\ ~(i <= 1) /\ j \in 1 .. m
    BY <1>9
  <2>2. DOMAIN back = 1 .. m
    BY <1>4
  <2>3. t[i] = back[j]
    BY <1>9, <2>1
  <2> HIDE DEF j
  <2> QED
    BY <1>5, <2>1, <2>2, <2>3 DEF BeginsCommand
<1> QED
  BY <1>9, <1>10, <1>11, <1>12

\* The entry that the arguments of one command give.
Entry(words) == [words |-> words, printed |-> TRUE]

\* Arguments of which the first begins a command.
Starts(argv) == argv = <<>> \/ 1 \in Begins(argv)

\* For each word, the command that begins with it, if one does.
Slots(argv) ==
    [i \in DOMAIN argv |->
       IF i \in Begins(argv)
       THEN <<Entry(SubSeq(argv, i, FirstOf(Begins(argv), i + 1, argv) - 1))>> ELSE <<>>]

\* The commands are those, end to end.
LEMMA CommandsAre ==
  ASSUME NEW argv, Starts(argv)
  PROVE  CommandsOf(argv) = FlattenSeq(Slots(argv))
<1>1. CASE argv = <<>>
  <2>1. Slots(argv) = <<>>
    BY <1>1 DEF Slots
  <2>2. CommandsOf(argv) = <<>>
    BY <1>1 DEF CommandsOf
  <2> QED
    BY <2>1, <2>2, FlattenNone
<1>2. CASE argv # <<>>
  <2>1. 1 \in Begins(argv)
    BY <1>2 DEF Starts
  <2> QED
    BY <1>2, <2>1 DEF CommandsOf, Slots, Entry
<1> QED
  BY <1>1, <1>2

\* One list behind another.
IsConcat(whole, a, b) == whole = a \o b

\* The commands that arguments begin, and the slots of these, are those of both parts.
LEMMA SlotsConcat ==
  ASSUME NEW T, NEW argv \in Seq(T), NEW t \in Seq(T), NEW n \in Nat, NEW m \in Nat,
         Len(argv) = n, Len(t) = m, m >= 1,
         BeginsCommand(t[1]), \A i \in 2 .. m : ~BeginsCommand(t[i]),
         NEW whole, IsConcat(whole, argv, t)
  PROVE  /\ whole \in Seq(T) /\ Len(whole) = n + m
         /\ Begins(whole) = Begins(argv) \cup {n + 1} /\ Begins(argv) \subseteq 1 .. n
         /\ \A i \in 1 .. n : whole[i] = argv[i]
         /\ \A i \in 1 .. m : whole[n + i] = t[i]
<1>1. /\ whole \in Seq(T) /\ Len(whole) = n + m
      /\ \A i \in 1 .. n + m : whole[i] = IF i <= n THEN argv[i] ELSE t[i - n]
  BY ConcatProperties DEF IsConcat
<1>2. \A i \in 1 .. n : whole[i] = argv[i]
  BY <1>1
<1>3. ASSUME NEW i \in 1 .. m PROVE whole[n + i] = t[i]
  <2> DEFINE j == n + i
  <2>1. j \in 1 .. n + m /\ ~(j <= n) /\ j - n = i
    OBVIOUS
  <2> HIDE DEF j
  <2>2. whole[j] = t[i]
    BY <1>1, <2>1
  <2> QED
    BY <2>2 DEF j
<1>4. Begins(argv) = {i \in 1 .. n : BeginsCommand(argv[i])}
  BY DEF Begins, BeginsCommand
<1>5. Begins(whole) = {i \in 1 .. n + m : BeginsCommand(whole[i])}
  BY <1>1 DEF Begins, BeginsCommand
<1>6. \A i \in 1 .. n + m : BeginsCommand(whole[i]) <=> i \in Begins(argv) \/ i = n + 1
  <2> SUFFICES ASSUME NEW i \in 1 .. n + m
               PROVE  BeginsCommand(whole[i]) <=> i \in Begins(argv) \/ i = n + 1
    OBVIOUS
  <2>1. CASE i <= n
    <3>1. i \in 1 .. n /\ i # n + 1
      BY <2>1
    <3> QED
      BY <1>2, <1>4, <3>1
  <2>2. CASE i = n + 1
    <3>1. 1 \in 1 .. m
      OBVIOUS
    <3>2. whole[n + 1] = t[1]
      BY <1>3, <3>1
    <3> QED
      BY <2>2, <3>2
  <2>3. CASE i > n + 1
    <3> DEFINE j == i - n
    <3>1. j \in 2 .. m /\ j \in 1 .. m /\ n + j = i /\ i \notin 1 .. n /\ i # n + 1
      BY <2>3
    <3> HIDE DEF j
    <3>2. whole[i] = t[j]
      BY <1>3, <3>1
    <3> QED
      BY <1>4, <3>1, <3>2
  <2> QED
    BY <2>1, <2>2, <2>3
<1>7. Begins(argv) \subseteq 1 .. n
  BY <1>4
<1>8. Begins(argv) \cup {n + 1} \subseteq 1 .. n + m
  BY <1>7
<1> QED
  BY <1>1, <1>2, <1>3, <1>5, <1>6, <1>7, <1>8

-----------------------------------------------------------------------------
(* Where the commands begin when one more is written behind the others.     *)

\* A part of a list whose elements are those of another list is the same part of that.
LEMMA SamePart ==
  ASSUME NEW T, NEW s \in Seq(T), NEW t \in Seq(T), NEW p \in Nat, NEW q \in Nat, NEW k \in Int,
         1 <= p, q <= Len(s), 1 <= p + k, q + k <= Len(t),
         \A i \in p .. q : s[i] = t[i + k]
  PROVE  SubSeq(s, p, q) = SubSeq(t, p + k, q + k)
<1> DEFINE pk == p + k
<1> DEFINE qk == q + k
<1> DEFINE a == SubSeq(s, p, q)
<1> DEFINE b == SubSeq(t, pk, qk)
<1>1. Len(s) \in Nat /\ Len(t) \in Nat
  OBVIOUS
<1>2. pk \in Int /\ qk \in Int /\ qk - pk + 1 = q - p + 1 /\ (pk <= qk <=> p <= q)
  OBVIOUS
<1>3. \A i \in p .. q : s[i] \in T
  <2>1. \A i \in p .. q : i \in 1 .. Len(s)
    BY <1>1
  <2> QED
    BY <2>1
<1>4. \A i \in pk .. qk : t[i] \in T
  <2>1. \A i \in pk .. qk : i \in 1 .. Len(t)
    BY <1>1
  <2> QED
    BY <2>1
<1>5. /\ a \in Seq(T) /\ Len(a) = IF p <= q THEN q - p + 1 ELSE 0
      /\ \A i \in 1 .. q - p + 1 : a[i] = s[p + i - 1]
  BY <1>3, SubSeqProperties
<1>6. \A i \in 1 .. q - p + 1 : p + i - 1 \in p .. q /\ (p + i - 1) + k = pk + i - 1
  OBVIOUS
<1> HIDE DEF pk, qk, a
<1>7. /\ b \in Seq(T) /\ Len(b) = IF pk <= qk THEN qk - pk + 1 ELSE 0
      /\ \A i \in 1 .. qk - pk + 1 : b[i] = t[pk + i - 1]
  BY <1>2, <1>4, SubSeqProperties
<1> HIDE DEF b
<1>8. Len(a) = Len(b)
  BY <1>2, <1>5, <1>7
<1>9. ASSUME NEW i \in 1 .. q - p + 1 PROVE a[i] = b[i]
  <2>1. a[i] = s[p + i - 1] /\ b[i] = t[pk + i - 1]
    BY <1>2, <1>5, <1>7
  <2> DEFINE j == p + i - 1
  <2>2. j \in p .. q /\ j + k = pk + i - 1
    BY <1>6
  <2>3. s[j] = t[j + k]
    <3> HIDE DEF j
    <3> QED
      BY <2>2
  <2> QED
    BY <2>1, <2>2, <2>3
<1>10. \A i \in 1 .. Len(a) : i \in 1 .. q - p + 1
  BY <1>5
<1>11. \A i \in 1 .. Len(a) : a[i] = b[i]
  BY <1>9, <1>10
<1>12. a = b
  BY <1>5, <1>7, <1>8, <1>11, SeqEqual
<1> QED
  BY <1>12 DEF a, b, pk, qk

\* The whole of a list is a part of it.
LEMMA WholePart ==
  ASSUME NEW T, NEW t \in Seq(T), NEW m, m = Len(t)
  PROVE  SubSeq(t, 1, m) = t
<1>1. \A i \in 1 .. m : t[i] \in T /\ 1 + i - 1 = i
  OBVIOUS
<1>2. m \in Nat /\ m - 1 + 1 = m /\ (IF 1 <= m THEN m ELSE 0) = m
  OBVIOUS
<1>3. /\ SubSeq(t, 1, m) \in Seq(T) /\ Len(SubSeq(t, 1, m)) = IF 1 <= m THEN m - 1 + 1 ELSE 0
      /\ \A i \in 1 .. m - 1 + 1 : SubSeq(t, 1, m)[i] = t[1 + i - 1]
  BY <1>1, <1>2, SubSeqProperties
<1> DEFINE a == SubSeq(t, 1, m)
<1>4. a \in Seq(T) /\ Len(a) = Len(t) /\ \A i \in 1 .. Len(a) : a[i] = t[i]
  BY <1>1, <1>2, <1>3
<1> HIDE DEF a
<1>5. a = t
  BY <1>4, SeqEqual
<1> QED
  BY <1>5 DEF a

\* Some positions, and one more.
Adds(more, begins, k) == \A j : j \in more <=> j \in begins \/ j = k

\* Behind it another command begins, or nothing does.
NextBegins(n, m, argv, whole, begins, more) ==
    /\ \A i \in 1 .. n : /\ FirstOf(more, i + 1, whole) = FirstOf(begins, i + 1, argv)
                          /\ FirstOf(begins, i + 1, argv) \in i + 1 .. n + 1
    /\ FirstOf(more, n + 2, whole) = n + m + 1

\* Where the next command begins, when one more is written behind the others.
LEMMA NextBegin ==
  ASSUME NEW n \in Nat, NEW m \in Nat, m >= 1, NEW argv, Len(argv) = n,
         NEW whole, Len(whole) = n + m,
         NEW begins \in SUBSET (1 .. n), NEW more, Adds(more, begins, n + 1)
  PROVE  NextBegins(n, m, argv, whole, begins, more)
<1>1. more \in SUBSET (1 .. n + m) /\ n + m \in Nat /\ \A j \in more : j \in 1 .. n + 1
  <2>1. \A j \in more : j \in 1 .. n + 1
    <3> TAKE j \in more
    <3>1. j \in begins \/ j = n + 1
      BY DEF Adds
    <3>2. j \in begins => j \in 1 .. n
      OBVIOUS
    <3> QED
      BY <3>1, <3>2
  <2>2. \A j \in 1 .. n + 1 : j \in 1 .. n + m
    OBVIOUS
  <2> QED
    BY <2>1, <2>2
<1>2. ASSUME NEW i \in 1 .. n
      PROVE  /\ FirstOf(more, i + 1, whole) = FirstOf(begins, i + 1, argv)
             /\ FirstOf(begins, i + 1, argv) \in i + 1 .. n + 1
  <2> DEFINE k == i + 1
  <2>1. k \in Nat /\ n + 1 >= k
    OBVIOUS
  <2> HIDE DEF k
  <2> DEFINE f == FirstOf(begins, k, argv)
  <2> DEFINE g == FirstOf(more, k, whole)
  <2>9. IsFirst(f, begins, k, n)
    BY <2>1, FirstOfIs
  <2>2. /\ f = n + 1 \/ f \in begins
        /\ f \in begins => f >= k
        /\ \A j \in begins : j >= k => f <= j
        /\ f = n + 1 => \A j \in begins : ~(j >= k)
    BY <2>9 DEF IsFirst
  <2> DEFINE nm == n + m
  <2>3. nm \in Nat /\ Len(whole) = nm /\ more \in SUBSET (1 .. nm)
    BY <1>1
  <2> HIDE DEF f, nm
  <2>10. IsFirst(g, more, k, nm)
    BY <2>1, <2>3, FirstOfIs
  <2>4. /\ g = nm + 1 \/ g \in more
        /\ g \in more => g >= k
        /\ \A j \in more : j >= k => g <= j
        /\ g = nm + 1 => \A j \in more : ~(j >= k)
    BY <2>10 DEF IsFirst
  <2> HIDE DEF g
  <2>5. g \in more
    BY <2>1, <2>4 DEF Adds
  <2>6. \A j \in begins : j \in 1 .. n
    OBVIOUS
  <2>7. CASE f = n + 1
    <3>1. g = n + 1
      BY <2>2, <2>4, <2>5, <2>7 DEF Adds
    <3> QED
      BY <2>1, <2>7, <3>1 DEF f, g, k
  <2>8. CASE f \in begins
    <3>1. f \in 1 .. n /\ f >= k
      BY <2>2, <2>6, <2>8
    <3>2. g <= f
      BY <2>4, <2>8, <3>1 DEF Adds
    <3>3. g # n + 1
      BY <3>1, <3>2
    <3>4. g \in begins
      BY <2>5, <3>3 DEF Adds
    <3>5. g \in 1 .. n /\ f <= g
      BY <2>2, <2>4, <2>5, <2>6, <3>4
    <3>6. g = f
      BY <3>1, <3>2, <3>5
    <3>7. f \in k .. n + 1
      BY <2>1, <3>1
    <3> QED
      BY <3>6, <3>7 DEF f, g, k
  <2> QED
    BY <2>2, <2>7, <2>8
<1>3. FirstOf(more, n + 2, whole) = n + m + 1
  <2> DEFINE nm == n + m
  <2> DEFINE k == n + 2
  <2>1. nm \in Nat /\ Len(whole) = nm /\ more \in SUBSET (1 .. nm) /\ k \in Nat
    BY <1>1
  <2>2. \A j \in more : ~(j >= k)
    BY <1>1
  <2> HIDE DEF nm, k
  <2> DEFINE g == FirstOf(more, k, whole)
  <2>5. IsFirst(g, more, k, nm)
    BY <2>1, FirstOfIs
  <2>3. (g = nm + 1 \/ g \in more) /\ (g \in more => g >= k)
    BY <2>5 DEF IsFirst
  <2> HIDE DEF g
  <2>4. g = nm + 1
    BY <2>2, <2>3
  <2> QED
    BY <2>4 DEF g, k, nm
<1> QED
  BY <1>2, <1>3 DEF NextBegins

-----------------------------------------------------------------------------
(* One more command on the line is one more command read.                   *)

\* The arguments of one more command give one more command.
LEMMA ReadOneMore ==
  ASSUME NEW T, NEW argv \in Seq(T), Starts(argv), NEW t \in Seq(T), t # <<>>,
         BeginsCommand(t[1]), \A i \in 2 .. Len(t) : ~BeginsCommand(t[i]),
         NEW whole, IsConcat(whole, argv, t)
  PROVE  /\ whole \in Seq(T) /\ Starts(whole)
         /\ CommandsOf(whole) = CommandsOf(argv) \o <<Entry(t)>>
<1> DEFINE n == Len(argv)
<1> DEFINE m == Len(t)
<1>1. n \in Nat /\ m \in Nat /\ m >= 1
  OBVIOUS
<1> HIDE DEF n, m
<1> DEFINE begins == Begins(argv)
<1> DEFINE more == Begins(whole)
<1>2. /\ whole \in Seq(T) /\ Len(whole) = n + m
      /\ more = begins \cup {n + 1} /\ begins \subseteq 1 .. n
      /\ \A i \in 1 .. n : whole[i] = argv[i]
      /\ \A i \in 1 .. m : whole[n + i] = t[i]
  BY <1>1, SlotsConcat DEF n, m
<1> HIDE DEF begins, more
<1> DEFINE F(i) == FirstOf(begins, i + 1, argv)
<1>3. /\ \A i \in 1 .. n : FirstOf(more, i + 1, whole) = F(i) /\ F(i) \in i + 1 .. n + 1
      /\ FirstOf(more, n + 2, whole) = n + m + 1
  <2>1. begins \in SUBSET (1 .. n) /\ Adds(more, begins, n + 1)
    BY <1>2 DEF Adds
  <2>2. Len(argv) = n /\ Len(whole) = n + m
    BY <1>2 DEF n
  <2>3. NextBegins(n, m, argv, whole, begins, more)
    BY <1>1, <2>1, <2>2, NextBegin
  <2> QED
    BY <2>3 DEF NextBegins
<1> HIDE DEF F
<1> DEFINE part(i) == <<Entry(SubSeq(argv, i, F(i) - 1))>>
<1> DEFINE a == Slots(argv)
<1> DEFINE U == {Entry(SubSeq(argv, i, F(i) - 1)) : i \in 1 .. n} \cup {Entry(t)}
<1>4. a = [i \in 1 .. n |-> IF i \in begins THEN part(i) ELSE <<>>]
  BY DEF Slots, begins, F, n
<1>5. \A i \in 1 .. n : part(i) \in Seq(U)
  OBVIOUS
<1> DEFINE slot(i) == IF i \in begins THEN part(i) ELSE <<>>
<1>6. <<>> \in Seq(U) /\ <<Entry(t)>> \in Seq(U)
  OBVIOUS
<1> HIDE DEF part, U
<1>7. \A i \in 1 .. n : slot(i) \in Seq(U)
  BY <1>5, <1>6
<1> DEFINE b == [i \in 1 .. m |-> IF i = 1 THEN <<Entry(t)>> ELSE <<>>]
<1> DEFINE V == Seq(U)
<1> HIDE DEF V
<1>8. a \in Seq(V) /\ Len(a) = n
  <2>1. a = [i \in 1 .. n |-> slot(i)]
    BY <1>4
  <2> HIDE DEF a, slot
  <2>2. \A i \in 1 .. n : slot(i) \in V
    BY <1>7 DEF V
  <2> QED
    BY <1>1, <2>1, <2>2
<1>9. b \in Seq(V) /\ Len(b) = m
  BY <1>1, <1>6 DEF V
<1>10. Slots(whole) = a \o b
  <2> DEFINE s == Slots(whole)
  <2> DEFINE end(i) == FirstOf(more, i + 1, whole) - 1
  <2>1. s = [i \in 1 .. n + m |->
               IF i \in more THEN <<Entry(SubSeq(whole, i, end(i)))>> ELSE <<>>]
    BY <1>2 DEF Slots, more
  <2>8. \A k \in 1 .. n + m : k \in more => s[k] = <<Entry(SubSeq(whole, k, end(k)))>>
    BY <2>1
  <2>2. \A i \in 1 .. n : s[i] = a[i]
    <3> SUFFICES ASSUME NEW i \in 1 .. n PROVE s[i] = a[i]
      OBVIOUS
    <3>1. i \in 1 .. n + m /\ (i \in more <=> i \in begins)
      BY <1>1, <1>2
    <3>2. CASE i \in begins
      <4>1. s[i] = <<Entry(SubSeq(whole, i, F(i) - 1))>>
        BY <1>3, <2>1, <3>1, <3>2
      <4>2. SubSeq(whole, i, F(i) - 1) = SubSeq(argv, i, F(i) - 1)
        <5> DEFINE q == F(i) - 1
        <5>1. q \in Nat /\ q <= n /\ i \in Nat /\ 1 <= i
          BY <1>1, <1>3
        <5> HIDE DEF q
        <5>2. \A j \in i .. q : whole[j] = argv[j + 0]
          <6> TAKE j \in i .. q
          <6>1. j \in 1 .. n /\ j + 0 = j
            BY <1>1, <5>1
          <6> QED
            BY <1>2, <6>1
        <5>3. q <= Len(whole) /\ 1 <= i + 0 /\ q + 0 <= Len(argv) /\ 0 \in Int
          BY <1>1, <1>2, <5>1 DEF n
        <5>4. SubSeq(whole, i, q) = SubSeq(argv, i + 0, q + 0)
          BY <1>2, <5>1, <5>2, <5>3, SamePart
        <5>5. i + 0 = i /\ q + 0 = q
          BY <5>1
        <5>6. SubSeq(whole, i, q) = SubSeq(argv, i, q)
          BY <5>4, <5>5
        <5> QED
          BY <5>6 DEF q
      <4>3. a[i] = <<Entry(SubSeq(argv, i, F(i) - 1))>>
        BY <1>4, <3>2 DEF part
      <4> QED
        BY <4>1, <4>2, <4>3
    <3>3. CASE i \notin begins
      <4>1. s[i] = <<>>
        BY <2>1, <3>1, <3>3
      <4>2. a[i] = <<>>
        BY <1>4, <3>3
      <4> QED
        BY <4>1, <4>2
    <3> QED
      BY <3>2, <3>3
  <2>3. \A i \in 1 .. m : s[n + i] = b[i]
    <3> SUFFICES ASSUME NEW i \in 1 .. m PROVE s[n + i] = b[i]
      OBVIOUS
    <3> DEFINE j == n + i
    <3>1. j \in 1 .. n + m /\ (j \in more <=> i = 1)
      BY <1>1, <1>2
    <3>2. CASE i = 1
      <4>1. j = n + 1 /\ j + 1 = n + 2 /\ n + m + 1 - 1 = n + m
        BY <1>1, <3>2
      <4> HIDE DEF j
      <4>7. j \in 1 .. n + m /\ j \in more
        BY <3>1, <3>2
      <4>5. s[j] = <<Entry(SubSeq(whole, j, end(j)))>>
        BY <2>8, <4>7
      <4>6. end(j) = n + m
        <5> DEFINE e == FirstOf(more, n + 2, whole)
        <5>1. end(j) = e - 1
          BY <4>1
        <5>2. e = n + m + 1
          BY <1>3
        <5> HIDE DEF e
        <5> QED
          BY <1>1, <5>1, <5>2
      <4>2. s[j] = <<Entry(SubSeq(whole, n + 1, n + m))>>
        BY <4>1, <4>5, <4>6
      <4>3. SubSeq(whole, n + 1, n + m) = t
        <5>1. SubSeq(t, 1, m) = SubSeq(whole, 1 + n, m + n)
          <6> DEFINE p == 1
          <6>3. p \in Nat /\ 1 <= p /\ 1 <= p + n
            BY <1>1
          <6>1. 1 \in Nat /\ 1 <= 1 /\ m <= Len(t) /\ 1 <= 1 + n /\ m + n <= Len(whole) /\ n \in Int
            BY <1>1, <1>2 DEF m
          <6>2. \A k \in 1 .. m : t[k] = whole[k + n]
            <7> TAKE k \in 1 .. m
            <7>1. k + n = n + k
              BY <1>1
            <7> QED
              BY <1>2, <7>1
          <6>4. \A k \in p .. m : t[k] = whole[k + n]
            BY <6>2
          <6> HIDE DEF p
          <6>5. SubSeq(t, p, m) = SubSeq(whole, p + n, m + n)
            BY <1>1, <1>2, <6>1, <6>3, <6>4, SamePart
          <6> QED
            BY <6>5 DEF p
        <5>2. 1 + n = n + 1 /\ m + n = n + m
          BY <1>1
        <5>3. SubSeq(t, 1, m) = t
          BY WholePart DEF m
        <5> QED
          BY <5>1, <5>2, <5>3
      <4>4. b[i] = <<Entry(t)>>
        BY <3>2
      <4> QED
        BY <4>2, <4>3, <4>4 DEF j
    <3>3. CASE i # 1
      <4>1. b[i] = <<>>
        BY <3>3
      <4> HIDE DEF j
      <4>2. s[j] = <<>>
        BY <2>1, <3>1, <3>3
      <4> QED
        BY <4>1, <4>2 DEF j
    <3> QED
      BY <3>2, <3>3
  <2>4. DOMAIN s = 1 .. n + m /\ s = [i \in 1 .. n + m |-> s[i]]
    BY <2>1
  <2> HIDE DEF s, a, b
  <2> DEFINE Y == {s[i] : i \in 1 .. n + m}
  <2>5. s \in [1 .. n + m -> Y]
    BY <2>4
  <2>6. \A i \in 1 .. n + m : s[i] = IF i <= n THEN a[i] ELSE b[i - n]
    <3> TAKE i \in 1 .. n + m
    <3>1. CASE i <= n
      <4>1. i \in 1 .. n
        BY <3>1
      <4> QED
        BY <2>2, <3>1, <4>1
    <3>2. CASE ~(i <= n)
      <4> DEFINE j == i - n
      <4>1. j \in 1 .. m /\ n + j = i
        BY <1>1, <3>2
      <4> HIDE DEF j
      <4>2. s[i] = b[j]
        BY <2>3, <4>1
      <4> QED
        BY <3>2, <4>2 DEF j
    <3> QED
      BY <3>1, <3>2
  <2> HIDE DEF Y
  <2>7. s = a \o b
    BY <1>1, <1>8, <1>9, <2>5, <2>6, ConcatIs
  <2> QED
    BY <2>7 DEF s
<1>11. FlattenSeq(b) = <<Entry(t)>>
  <2> DEFINE x == <<Entry(t)>>
  <2> DEFINE none == [i \in 1 .. m - 1 |-> <<>>]
  <2>1. m - 1 \in Nat
    BY <1>1
  <2>2. none \in Seq({<<>>}) /\ Len(none) = m - 1
    BY <2>1
  <2>3. \A i \in 1 .. m - 1 : none[i] = <<>>
    OBVIOUS
  <2>4. \A i \in 1 .. m : b[i] = IF i = 1 THEN x ELSE <<>>
    OBVIOUS
  <2>5. b \in [1 .. m -> {x, <<>>}]
    OBVIOUS
  <2>6. x \in V
    BY <1>6 DEF V
  <2> HIDE DEF none, x, b
  <2>7. <<x>> \in Seq(V) /\ Len(<<x>>) = 1 /\ <<x>>[1] = x
    BY <2>6
  <2> DEFINE one == <<x>>
  <2>8. none \in Seq(V)
    <3>1. {<<>>} \subseteq V
      BY <1>6 DEF V
    <3> QED
      BY <2>2, <3>1, SeqMonotonic
  <2>9. b = one \o none
    <3>1. one \in Seq(V) /\ Len(one) = 1 /\ one[1] = x
      BY <2>7
    <3> HIDE DEF one
    <3> DEFINE k == m - 1
    <3>2. 1 + k = m /\ k \in Nat
      BY <1>1
    <3>3. \A i \in 1 .. m : b[i] = IF i <= 1 THEN one[i] ELSE none[i - 1]
      <4> TAKE i \in 1 .. m
      <4>1. i <= 1 => i = 1
        OBVIOUS
      <4>2. ~(i <= 1) => i # 1 /\ i - 1 \in 1 .. m - 1
        BY <1>1
      <4> QED
        BY <2>3, <2>4, <3>1, <4>1, <4>2
    <3>4. Len(none) = k
      BY <2>2
    <3> HIDE DEF k
    <3> DEFINE both == one \o none
    <3>6. /\ both \in Seq(V) /\ Len(both) = Len(one) + Len(none)
          /\ \A i \in 1 .. Len(one) + Len(none) :
               both[i] = IF i <= Len(one) THEN one[i] ELSE none[i - Len(one)]
      BY <2>8, <3>1, ConcatProperties
    <3>7. b \in Seq(V) /\ Len(b) = m
      BY <1>9
    <3> HIDE DEF both
    <3>8. Len(both) = m /\ \A i \in 1 .. m : both[i] = b[i]
      BY <3>1, <3>2, <3>3, <3>4, <3>6
    <3>9. \A i \in 1 .. Len(b) : b[i] = both[i]
      BY <3>7, <3>8
    <3>10. b = both
      BY <3>6, <3>7, <3>8, <3>9, SeqEqual
    <3> QED
      BY <3>10 DEF both
  <2>10. FlattenSeq(none) = <<>>
    BY <2>2, FlattenEmpty
  <2>11. FlattenSeq(one) = x
    BY <2>6, FlattenOne DEF V
  <2>12. FlattenSeq(one \o none) = FlattenSeq(one) \o FlattenSeq(none)
    BY <2>7, <2>8, FlattenConcat DEF V
  <2>13. x \o <<>> = x
    BY <2>6 DEF V
  <2> QED
    BY <2>9, <2>10, <2>11, <2>12, <2>13 DEF x
<1> HIDE DEF a, b
<1>12. FlattenSeq(a \o b) = FlattenSeq(a) \o FlattenSeq(b)
  BY <1>8, <1>9, FlattenConcat DEF V
<1>13. Starts(whole)
  <2>1. CASE argv = <<>>
    <3>1. n + 1 = 1
      BY <2>1 DEF n
    <3> QED
      BY <1>2, <3>1 DEF Starts, more
  <2>2. CASE argv # <<>>
    <3>1. 1 \in begins
      BY <2>2 DEF Starts, begins
    <3> QED
      BY <1>2, <3>1 DEF Starts, more
  <2> QED
    BY <2>1, <2>2
<1>14. CommandsOf(whole) = FlattenSeq(Slots(whole)) /\ CommandsOf(argv) = FlattenSeq(a)
  BY <1>13, CommandsAre DEF a
<1> QED
  BY <1>2, <1>10, <1>11, <1>12, <1>13, <1>14

-----------------------------------------------------------------------------
(* The line as a whole: the arguments give the commands of the line, in     *)
(* order.                                                                   *)

\* The first k elements.
Prefix(e, k) == [i \in 1 .. k |-> e[i]]

\* One more element.
LEMMA PrefixGrows ==
  ASSUME NEW n \in Nat, NEW Y, NEW e \in [1 .. n -> Y], NEW k \in Nat, k < n
  PROVE  Prefix(e, k + 1) = Prefix(e, k) \o <<e[k + 1]>>
<1> DEFINE a == Prefix(e, k)
<1> DEFINE b == <<e[k + 1]>>
<1> DEFINE c == Prefix(e, k + 1)
<1>1. k + 1 \in 1 .. n /\ \A i \in 1 .. k + 1 : i \in 1 .. n
  OBVIOUS
<1>2. \A i \in 1 .. k + 1 : e[i] \in Y
  BY <1>1
<1>3. \A i \in 1 .. k : e[i] \in Y
  BY <1>2
<1>4. a \in Seq(Y) /\ Len(a) = k /\ \A i \in 1 .. k : a[i] = e[i]
  BY <1>3 DEF Prefix
<1>5. c \in Seq(Y) /\ Len(c) = k + 1 /\ \A i \in 1 .. k + 1 : c[i] = e[i]
  BY <1>2 DEF Prefix
<1>6. b \in Seq(Y) /\ Len(b) = 1 /\ b[1] = e[k + 1]
  BY <1>1
<1> HIDE DEF a, b, c
<1> DEFINE both == a \o b
<1>7. /\ both \in Seq(Y) /\ Len(both) = Len(a) + Len(b)
      /\ \A i \in 1 .. Len(a) + Len(b) : both[i] = IF i <= Len(a) THEN a[i] ELSE b[i - Len(a)]
  BY <1>4, <1>6, ConcatProperties
<1> HIDE DEF both
<1>8. ASSUME NEW i \in 1 .. k + 1 PROVE both[i] = c[i]
  <2>1. CASE i <= k
    <3>1. i \in 1 .. k
      BY <2>1
    <3> QED
      BY <1>4, <1>5, <1>6, <1>7, <3>1
  <2>2. CASE i = k + 1
    <3>1. ~(i <= k) /\ i - k = 1
      BY <2>2
    <3> QED
      BY <1>4, <1>5, <1>6, <1>7, <2>2, <3>1
  <2> QED
    BY <2>1, <2>2
<1>9. Len(both) = k + 1
  BY <1>4, <1>6, <1>7
<1>10. \A i \in 1 .. Len(both) : both[i] = c[i]
  BY <1>8, <1>9
<1>11. both = c
  BY <1>5, <1>7, <1>9, <1>10, SeqEqual
<1> QED
  BY <1>11 DEF both, a, b, c

\* The commands that the arguments of some commands are read as.
LEMMA ArgvIsRead ==
  ASSUME NEW line \in Seq(Command), \A i \in DOMAIN line : Readable(line[i]),
         NEW n, n = Len(line)
  PROVE  CommandsOf(Argv(line)) = [i \in 1 .. n |-> Entry(Texts(line[i]))]
<1> DEFINE texts == [i \in 1 .. n |-> Texts(line[i])]
<1>1. n \in Nat /\ DOMAIN line = 1 .. n
  OBVIOUS
<1>2. \A i \in 1 .. n : /\ texts[i] # <<>> /\ (\E T : texts[i] \in Seq(T))
                        /\ BeginsCommand(texts[i][1])
                        /\ \A j \in 2 .. Len(texts[i]) : ~BeginsCommand(texts[i][j])
  BY <1>1, TextsBegin
<1>3. texts = [i \in 1 .. n |-> texts[i]] /\ DOMAIN texts = 1 .. n
  OBVIOUS
<1>4. Argv(line) = FlattenSeq(texts)
  BY <1>1 DEF Argv
<1> DEFINE Y == {Entry(texts[i]) : i \in 1 .. n}
<1> DEFINE e == [i \in 1 .. n |-> Entry(texts[i])]
<1>5. e \in [1 .. n -> Y] /\ \A i \in 1 .. n : e[i] = Entry(texts[i])
  OBVIOUS
<1>6. [i \in 1 .. n |-> Entry(Texts(line[i]))] = Prefix(e, n)
  BY DEF Prefix
<1> HIDE DEF texts, Y, e
<1>7. PICK U : texts \in Seq(Seq(U))
  BY <1>1, <1>2, <1>3, OneSetForAll
<1>8. Len(texts) = n
  BY <1>1, <1>3, <1>7
<1>9. PICK g \in [0 .. n -> Seq(U)] : Runs(texts, g)
  BY <1>7, <1>8, FlattenRuns
<1>10. g[0] = <<>> /\ \A i \in 1 .. n : g[i] = g[i - 1] \o texts[i]
  BY <1>8, <1>9 DEF Runs
<1>11. Argv(line) = g[n]
  BY <1>4, <1>7, <1>8, <1>9, FlattenIs
<1> DEFINE Solved(k) == Starts(g[k]) /\ CommandsOf(g[k]) = Prefix(e, k)
<1> DEFINE S == {k \in 0 .. n : Solved(k)}
<1>12. 0 \in S
  <2>1. Starts(<<>>) /\ CommandsOf(<<>>) = <<>>
    BY DEF Starts, CommandsOf
  <2>2. Prefix(e, 0) = <<>>
    BY DEF Prefix
  <2>3. Solved(0)
    BY <1>10, <2>1, <2>2
  <2> HIDE DEF Solved
  <2> QED
    BY <1>1, <2>3
<1>13. ASSUME NEW k \in 0 .. n, k < n, k \in S PROVE k + 1 \in S
  <2> DEFINE j == k + 1
  <2>1. j \in 1 .. n /\ j - 1 = k /\ k \in Nat
    BY <1>1, <1>13
  <2>2. Starts(g[k]) /\ CommandsOf(g[k]) = Prefix(e, k) /\ g[k] \in Seq(U)
    BY <1>9, <1>13
  <2>3. Prefix(e, j) = Prefix(e, k) \o <<e[j]>>
    BY <1>1, <1>5, <1>13, <2>1, PrefixGrows
  <2> HIDE DEF j
  <2> DEFINE argv == g[k]
  <2> DEFINE t == texts[j]
  <2> DEFINE whole == g[j]
  <2>4. t \in Seq(U) /\ t # <<>> /\ BeginsCommand(t[1])
    BY <1>2, <1>7, <1>8, <2>1
  <2>8. \A i \in 2 .. Len(t) : ~BeginsCommand(t[i])
    BY <1>2, <2>1
  <2>5. IsConcat(whole, argv, t)
    BY <1>10, <2>1 DEF IsConcat
  <2>6. Starts(argv) /\ argv \in Seq(U)
    BY <2>2
  <2> HIDE DEF argv, t, whole
  <2>7. Starts(whole) /\ CommandsOf(whole) = CommandsOf(argv) \o <<Entry(t)>>
    BY <2>4, <2>5, <2>6, <2>8, ReadOneMore
  <2>9. e[j] = Entry(t)
    BY <1>5, <2>1 DEF t
  <2>10. Solved(j)
    BY <2>2, <2>3, <2>7, <2>9 DEF argv, whole
  <2> HIDE DEF Solved
  <2>11. j \in 0 .. n
    BY <2>1
  <2> QED
    BY <2>10, <2>11 DEF j
<1> HIDE DEF S
<1>14. 0 .. n \subseteq S
  BY <1>1, <1>12, <1>13, UpTo
<1>15. n \in S
  BY <1>1, <1>14
<1> QED
  BY <1>6, <1>11, <1>15 DEF S

-----------------------------------------------------------------------------
(* The schedule is kept in every state, and with it the two properties.     *)

\* What a line means is what its commands ask, each for itself.
LEMMA IntendedIs ==
  ASSUME NEW line
  PROVE  Intended(line) = FlattenSeq([i \in DOMAIN line |-> Asked(line[i])])
  BY DEF Intended, Asked, AsksOf

\* The program reads its arguments as they are meant.
LEMMA ReadsAsMeant ==
  ASSUME NEW line \in Intents, All(line, ConsoleUnderstands)
  PROVE  LET list == CommandsOf(Argv(line))
         IN  IsList(list) /\ Guarded(list) /\ ToCome(list) = Intended(line)
<1> DEFINE n == Len(line)
<1> DEFINE list == CommandsOf(Argv(line))
<1>1. /\ line \in Seq(Command) /\ n \in Nat /\ DOMAIN line = 1 .. n
      /\ \A i \in 1 .. n : line[i] \in Command /\ Len(line[i].args) = Arity[line[i].name]
  <2>1. line \in Seq(Command) /\ \A i \in DOMAIN line : Len(line[i].args) = Arity[line[i].name]
    BY IntentsAssumption
  <2> QED
    BY <2>1
<1>2. \A i \in 1 .. n : ConsoleUnderstands(line[i])
  BY <1>1 DEF All
<1>3. \A i \in 1 .. n : Readable(line[i])
  BY <1>1, <1>2 DEF Readable
<1>4. list = [i \in 1 .. n |-> Entry(Texts(line[i]))]
  BY <1>1, <1>3, ArgvIsRead
<1>5. \A i \in 1 .. n : Right(line[i])
  BY <1>3, CommandIsRight
<1> HIDE DEF n, list
<1>6. /\ DOMAIN list = 1 .. n /\ list \in Seq({Entry(Texts(line[i])) : i \in 1 .. n})
      /\ \A i \in 1 .. n : list[i].words = Texts(line[i]) /\ list[i].printed
  <2>1. DOMAIN list = 1 .. n /\ \A i \in 1 .. n : list[i] = Entry(Texts(line[i]))
    BY <1>4
  <2>2. list \in Seq({Entry(Texts(line[i])) : i \in 1 .. n})
    BY <1>1, <1>4
  <2> QED
    BY <2>1, <2>2 DEF Entry
<1>7. IsList(list)
  BY <1>5, <1>6 DEF IsList, Right
<1>8. Guarded(list)
  BY <1>6 DEF Guarded
<1>9. ToCome(list) = Intended(line)
  <2>1. [i \in DOMAIN list |-> CommandAsks(list[i].words)]
          = [i \in DOMAIN line |-> Asked(line[i])]
    BY <1>1, <1>5, <1>6 DEF Right
  <2> QED
    BY <2>1, IntendedIs DEF ToCome
<1> QED
  BY <1>7, <1>8, <1>9 DEF list

\* The program starts on schedule: the arguments are read as they are meant.
LEMMA StartOnSchedule ==
  Init => OrderInv
<1> SUFFICES ASSUME Init PROVE OrderInv
  OBVIOUS
<1>1. work = NoWork /\ intent \in Intents
  BY DEF Init, Start
<1>2. AlertsSay
  BY <1>1 DEF AlertsSay
<1>3. ASSUME written = "arguments", All(intent, ConsoleUnderstands) PROVE OnSchedule
  <2>1. left = CommandsOf(Argv(intent)) /\ printed = <<>> /\ heard = <<>>
    BY <1>3 DEF Init, Start
  <2>2. IsList(left) /\ Guarded(left) /\ ToCome(left) = Intended(intent)
    BY <1>1, <1>3, <2>1, ReadsAsMeant
  <2> DEFINE whole == Intended(intent)
  <2>3. PICK T : whole \in Seq(T)
    BY <2>2, ToComeIsList
  <2>4. RestOf(work, link, left) = whole
    BY <1>1, <2>2 DEF RestOf
  <2> HIDE DEF whole
  <2>5. Follows(whole, whole, <<>>, Doubt(printed, left, work))
    BY <2>3, FollowsFromStart
  <2>6. Follows(whole, RestOf(work, link, left), heard, Doubt(printed, left, work))
    BY <2>1, <2>4, <2>5
  <2>7. <<>> \in Seq({0})
    OBVIOUS
  <2> QED
    BY <1>1, <2>1, <2>2, <2>6, <2>7 DEF OnSchedule, whole
<1> QED
  BY <1>2, <1>3 DEF OrderInv

\* In every state of the program, what has been heard and what is left to do are together
\* what the user meant, in its order, but for what an error was or will be printed of
\* (console.cpp:67-182 and the exchanges of each event).
THEOREM ScheduleIsKept == Spec => []OrderInv
  BY StartOnSchedule, OrderStep, ConsoleIsRight, PTL DEF Spec

\* Whatever fails, the displays do nothing but what is meant, in the order of the arguments.
THEOREM OrderIsKept == Spec => []HeardInOrder
<1>1. OrderInv => HeardInOrder
  <2> SUFFICES ASSUME OrderInv, written = "arguments", All(intent, ConsoleUnderstands)
               PROVE  Met(heard, Intended(intent)) = Len(heard)
    BY DEF HeardInOrder
  <2>1. Follows(Intended(intent), RestOf(work, link, left), heard, Doubt(printed, left, work))
    BY DEF OrderInv, OnSchedule
  <2> QED
    BY <2>1, FollowsToEnd
<1> QED
  BY <1>1, ScheduleIsKept, PTL

\* Where every result is an answer of the displays, all was done that was meant.
THEOREM NoErrorIsTrue == Spec => []NoErrorMeansDone
<1>1. OrderInv => NoErrorMeansDone
  <2> SUFFICES ASSUME OrderInv, ConsoleIsDone, All(intent, ConsoleUnderstands),
                      All(printed, Confirmed)
               PROVE  heard = Intended(intent)
    BY DEF NoErrorMeansDone
  <2>1. left = <<>> /\ work = NoWork /\ written = "arguments"
    BY DEF ConsoleIsDone, Ended
  <2>2. Follows(Intended(intent), RestOf(work, link, left), heard, Doubt(printed, left, work))
    BY <2>1 DEF OrderInv, OnSchedule
  <2>3. RestOf(work, link, left) = <<>>
    BY <2>1, ToComeNone DEF RestOf
  <2>4. ~Unconfirmed(printed)
    BY DEF All, Unconfirmed
  <2>5. ~HasGuard(left)
    BY <2>1 DEF HasGuard
  <2>6. ~Lacking(work)
    BY <2>1 DEF Lacking
  <2>7. ~Doubt(printed, left, work)
    BY <2>4, <2>5, <2>6 DEF Doubt
  <2> QED
    BY <2>2, <2>3, <2>7, FollowsToEnd
<1> QED
  BY <1>1, ScheduleIsKept, PTL

-----------------------------------------------------------------------------
(* What the paired displays are meant to do of all that is not left to be   *)
(* asked.                                                                   *)

\* One more ask.
LEMMA OfPairedMore ==
  ASSUME NEW U, NEW past \in Seq(U), NEW a \in U
  PROVE  /\ OfPaired(past) \in Seq(U)
         /\ OfPaired(past \o <<a>>)
              = IF a.display \in Paired THEN Append(OfPaired(past), a) ELSE OfPaired(past)
<1> DEFINE kept(x) == IF x.display \in Paired THEN <<x>> ELSE <<>>
<1> DEFINE all == past \o <<a>>
<1> DEFINE s == [i \in DOMAIN past |-> kept(past[i])]
<1> DEFINE t == <<kept(a)>>
<1> DEFINE n == Len(past)
<1>1. /\ n \in Nat /\ DOMAIN past = 1 .. n /\ DOMAIN all = 1 .. n + 1 /\ all[n + 1] = a
      /\ \A i \in 1 .. n : all[i] = past[i] /\ past[i] \in U
  OBVIOUS
<1>2. kept(a) \in Seq(U) /\ \A i \in 1 .. n : kept(past[i]) \in Seq(U)
  BY <1>1
<1> HIDE DEF all, n, kept
<1>3. s \in Seq(Seq(U)) /\ t \in Seq(Seq(U)) /\ Len(s) = n /\ Len(t) = 1 /\ t[1] = kept(a)
      /\ \A i \in 1 .. n : s[i] = kept(past[i])
  BY <1>1, <1>2
<1> HIDE DEF s, t
<1>4. [i \in DOMAIN all |-> kept(all[i])] = s \o t
  <2> DEFINE r == [i \in DOMAIN all |-> kept(all[i])]
  <2>1. DOMAIN r = 1 .. n + 1 /\ \A i \in 1 .. n + 1 : r[i] = kept(all[i])
    BY <1>1
  <2>2. r \in Seq(Seq(U)) /\ Len(r) = n + 1
    <3>1. \A i \in 1 .. n + 1 : kept(all[i]) \in Seq(U)
      <4> TAKE i \in 1 .. n + 1
      <4>1. i \in 1 .. n \/ i = n + 1
        BY <1>1
      <4> QED
        BY <1>1, <1>2, <4>1
    <3> DEFINE V == Seq(U)
    <3>2. n + 1 \in Nat /\ \A i \in 1 .. n + 1 : r[i] \in V
      BY <1>1, <2>1, <3>1
    <3>3. r = [i \in 1 .. n + 1 |-> r[i]]
      BY <2>1
    <3> HIDE DEF r, V
    <3>4. r \in Seq(V) /\ Len(r) = n + 1
      BY <3>2, <3>3
    <3> QED
      BY <3>4 DEF V
  <2> HIDE DEF r
  <2>3. /\ s \o t \in Seq(Seq(U)) /\ Len(s \o t) = n + 1
        /\ \A i \in 1 .. n + 1 : (s \o t)[i] = IF i <= n THEN s[i] ELSE t[i - n]
    <3> DEFINE V == Seq(U)
    <3>1. s \in Seq(V) /\ t \in Seq(V)
      BY <1>3
    <3> HIDE DEF V
    <3>2. /\ s \o t \in Seq(V) /\ Len(s \o t) = Len(s) + Len(t)
          /\ \A i \in 1 .. Len(s) + Len(t) :
               (s \o t)[i] = IF i <= Len(s) THEN s[i] ELSE t[i - Len(s)]
      BY <3>1, ConcatProperties
    <3> QED
      BY <1>3, <3>2 DEF V
  <2>4. \A i \in 1 .. n + 1 : r[i] = (s \o t)[i]
    <3> TAKE i \in 1 .. n + 1
    <3>1. CASE i \in 1 .. n
      <4>1. i <= n /\ all[i] = past[i] /\ s[i] = kept(past[i])
        BY <1>1, <1>3, <3>1
      <4> QED
        BY <2>1, <2>3, <4>1
    <3>2. CASE i = n + 1
      <4>1. ~(i <= n) /\ i - n = 1 /\ all[i] = a
        BY <1>1, <3>2
      <4>2. (s \o t)[i] = t[1]
        BY <2>3, <4>1
      <4>3. kept(all[i]) = kept(a)
        BY <4>1
      <4>4. (s \o t)[i] = kept(a)
        BY <1>3, <4>2
      <4> QED
        BY <2>1, <4>3, <4>4
    <3>3. n \in Nat
      BY <1>1
    <3>4. i \in 1 .. n \/ i = n + 1
      BY <3>3
    <3> QED
      BY <3>1, <3>2, <3>4
  <2>5. r = s \o t
    BY <1>1, <2>2, <2>3, <2>4, SeqEqual
  <2> QED
    BY <2>5 DEF r
<1>5. OfPaired(all) = FlattenSeq(s) \o FlattenSeq(t)
  <2>1. OfPaired(all) = FlattenSeq(s \o t)
    BY <1>4 DEF OfPaired, kept
  <2> QED
    BY <1>3, <2>1, FlattenConcat
<1>6. OfPaired(past) = FlattenSeq(s)
  BY DEF OfPaired, s, kept
<1>7. FlattenSeq(t) = kept(a)
  BY <1>2, FlattenOne DEF t
<1>8. OfPaired(past) \in Seq(U)
  BY <1>3, <1>6, FlattenType
<1> DEFINE done == OfPaired(past)
<1>9. OfPaired(all) = done \o kept(a) /\ done \in Seq(U)
  BY <1>5, <1>6, <1>7, <1>8
<1> HIDE DEF done
<1>10. done \o <<a>> = Append(done, a) /\ done \o <<>> = done
  BY <1>9
<1> QED
  BY <1>9, <1>10 DEF done, all, kept

\* Of nothing, nothing.
LEMMA OfPairedNone ==
  OfPaired(<<>>) = <<>>
<1>1. [i \in DOMAIN <<>> |-> IF <<>>[i].display \in Paired THEN <<<<>>[i]>> ELSE <<>>]
        \in Seq({<<>>})
  OBVIOUS
<1> QED
  BY <1>1, FlattenEmpty DEF OfPaired

\* What was done is what the paired displays are meant to do of all that is not left.
Serves(whole, rest, done) ==
    \E S : \E past \in Seq(S) :
      rest \in Seq(S) /\ whole = past \o rest /\ done = OfPaired(past)

\* At first nothing is done and all is left.
LEMMA ServesFromStart ==
  ASSUME NEW T, NEW whole \in Seq(T)
  PROVE  Serves(whole, whole, <<>>)
<1>1. <<>> \in Seq(T) /\ whole = <<>> \o whole
  OBVIOUS
<1> QED
  BY <1>1, OfPairedNone DEF Serves

\* The next ask is done, or is for a display that is not paired.
LEMMA ServesNext ==
  ASSUME NEW whole, NEW a, NEW T, NEW rest \in Seq(T), NEW done,
         Serves(whole, Before(a, rest), done)
  PROVE  Serves(whole, rest, IF a.display \in Paired THEN Append(done, a) ELSE done)
<1>1. PICK S : \E past \in Seq(S) : whole = past \o (<<a>> \o rest) /\ done = OfPaired(past)
  BY DEF Serves, Before
<1>2. PICK past \in Seq(S) : whole = past \o (<<a>> \o rest) /\ done = OfPaired(past)
  BY <1>1
<1> DEFINE U == S \cup T \cup {a}
<1>3. past \in Seq(U) /\ rest \in Seq(U) /\ <<a>> \in Seq(U) /\ a \in U
  <2>1. S \subseteq U /\ T \subseteq U /\ a \in U
    OBVIOUS
  <2> HIDE DEF U
  <2>2. past \in Seq(U) /\ rest \in Seq(U)
    BY <1>2, <2>1, SeqMonotonic
  <2> QED
    BY <2>1, <2>2
<1> HIDE DEF U
<1>4. past \o (<<a>> \o rest) = (past \o <<a>>) \o rest
  BY <1>3, Associative
<1>5. past \o <<a>> \in Seq(U)
  BY <1>3
<1>6. OfPaired(past \o <<a>>) = IF a.display \in Paired THEN Append(done, a) ELSE done
  BY <1>2, <1>3, OfPairedMore
<1> QED
  BY <1>2, <1>3, <1>4, <1>5, <1>6 DEF Serves

\* When nothing is left, all is done.
LEMMA ServesToEnd ==
  ASSUME NEW whole, NEW done, Serves(whole, <<>>, done)
  PROVE  done = OfPaired(whole)
<1>1. PICK S : \E past \in Seq(S) : whole = past \o <<>> /\ done = OfPaired(past)
  BY DEF Serves
<1>2. PICK past \in Seq(S) : whole = past \o <<>> /\ done = OfPaired(past)
  BY <1>1
<1>3. past \o <<>> = past
  OBVIOUS
<1> QED
  BY <1>2, <1>3

-----------------------------------------------------------------------------
(* The invariant of the service: while nothing fails, the paired displays   *)
(* have done all that is not left.                                          *)

\* One of the results that were printed is the error of a paired display.
ErrorPrinted(results) ==
    \E i \in DOMAIN results : \E d \in Paired : "error" \in results[i].answers[d]

\* An error that will be printed.
Failing(w) == w # NoWork /\ w.printed /\ \E d \in Paired : "error" \in w.answers[d]

\* Nothing has failed: no fault, no error printed, and none that will be.
Smooth == faults = 0 /\ ~ErrorPrinted(printed) /\ ~Failing(work)

\* No display answers a power-on as it answers an alert.
PowerSays ==
    work # NoWork /\ IsPowerOn => \A d \in Displays : "info" \notin work.answers[d]

\* While nothing has failed, the paired displays have done all but what is left.
AllServed == Smooth => Serves(Intended(intent), RestOf(work, link, left), heard)

\* The inductive invariant: no answer to a power-on is that of an alert, and if every
\* command of the user is understood, all is served.
ServedInv ==
    /\ PowerSays
    /\ written = "arguments" /\ All(intent, ConsoleUnderstands) => AllServed

-----------------------------------------------------------------------------

\* What an exchange adds to the answers to a power-on.
LEMMA PowerMarks ==
  ASSUME ConsoleInv, Exchange, IsPowerOn
  PROVE  /\ work'.event = work.event
         /\ \A d \in Displays : "info" \in work'.answers[d] => "info" \in work.answers[d]
<1>1. link # "none"
  BY ExchangeProceeds DEF Proceeds
<1>2. work.display \in Displays /\ link \in Places[Kind] /\ Kind = "power"
  BY <1>1, Underway, Goes
<1>3. link \notin {"ask", "create", "alert", "socket", "press"}
  BY <1>2 DEF Places
<1>4. ASSUME NEW mark \in {"error", "payload"}, Answer(mark)
      PROVE  /\ work'.event = work.event
             /\ \A d \in Displays : "info" \in work'.answers[d] => "info" \in work.answers[d]
  <2>1. mark \in Marks
    BY DEF Marks
  <2>2. /\ work' = [event |-> work.event, printed |-> work.printed, display |-> work.display,
                    answers |-> work'.answers]
        /\ \A d \in Displays : d # work.display => work'.answers[d] = work.answers[d]
        /\ work'.answers[work.display] = work.answers[work.display] \cup {mark}
    BY <1>2, <1>4, <2>1, Marked DEF ConsoleInv
  <2>3. work'.event = work.event
    BY <2>2
  <2> QED
    BY <2>2, <2>3
<1>5. ASSUME work' = work
      PROVE  /\ work'.event = work.event
             /\ \A d \in Displays : "info" \in work'.answers[d] => "info" \in work.answers[d]
  BY <1>5
<1>6. CASE Succeeds
  <2>1. link \notin Effect
    BY <1>3 DEF Effect
  <2> QED
    BY <1>5, <1>6, <2>1 DEF Succeeds
<1>7. CASE PowerState
  BY <1>4, <1>5, <1>7 DEF PowerState
<1>8. CASE Refused
  BY <1>3, <1>4, <1>8 DEF Refused
<1>9. CASE Fails
  BY <1>5, <1>9 DEF Fails
<1>10. CASE Closes
  BY <1>5, <1>10 DEF Closes
<1>11. CASE TriesAgain
  BY <1>5, <1>11 DEF TriesAgain
<1>12. CASE GivesUp
  BY <1>4, <1>5, <1>12 DEF GivesUp
<1>13. CASE Wakes
  BY <1>5, <1>13 DEF Wakes
<1> QED
  BY <1>6, <1>7, <1>8, <1>9, <1>10, <1>11, <1>12, <1>13 DEF Exchange

\* No step makes it so.
LEMMA PowerSaysKept ==
  ConsoleInv /\ PowerSays /\ [Next]_vars => PowerSays'
<1> SUFFICES ASSUME ConsoleInv, PowerSays, [Next]_vars PROVE PowerSays'
  OBVIOUS
<1>1. CASE UNCHANGED work
  BY <1>1 DEF PowerSays, IsPowerOn
<1>2. CASE ReadArguments
  <2>1. PICK e, p : work' = [NoWork EXCEPT !.event = e, !.printed = p] \/ work' = NoWork
    BY <1>2 DEF ReadArguments
  <2>2. work' # NoWork => work'.answers = NoAnswers
    BY <2>1 DEF NoWork
  <2>3. \A d \in Displays : NoAnswers[d] = {}
    BY DEF NoAnswers
  <2> QED
    BY <2>2, <2>3 DEF PowerSays
<1>3. CASE NextDisplay
  <2>1. /\ Closest \in Displays /\ work # NoWork /\ work'.event = work.event
        /\ work'.answers = [work.answers EXCEPT ![Closest] = IF Closest \in Paired THEN {}
                                                                             ELSE {"error"}]
    <3>1. /\ Closest \in Displays
          /\ work' = [event |-> work.event, printed |-> work.printed, display |-> Closest,
                      answers |-> work'.answers]
          /\ work'.answers = [work.answers EXCEPT ![Closest] = IF Closest \in Paired THEN {}
                                                                               ELSE {"error"}]
      BY <1>3, NextOne
    <3>2. work # NoWork
      BY <1>3 DEF NextDisplay, At
    <3>3. work'.event = work.event
      BY <3>1
    <3> QED
      BY <3>1, <3>2, <3>3
  <2>2. work.answers \in [Displays -> SUBSET Marks]
    BY DEF ConsoleInv, ConsoleTypeOK
  <2>3. \A d \in Displays : "info" \in work'.answers[d] => "info" \in work.answers[d]
    BY <2>1, <2>2
  <2> QED
    BY <2>1, <2>3 DEF PowerSays, IsPowerOn
<1>4. CASE PrintAnswers
  BY <1>4 DEF PrintAnswers, PowerSays
<1>5. CASE Exchange
  <2>1. work'.event = work.event /\ work # NoWork
    BY <1>5, ExchangeProceeds DEF Proceeds, Exchange
  <2>2. IsPowerOn' <=> IsPowerOn
    BY <2>1 DEF IsPowerOn
  <2> QED
    BY <1>5, <2>1, <2>2, PowerMarks DEF PowerSays
<1>6. CASE Tick \/ \E d \in Displays : WolSends(d)
  BY <1>1, <1>6 DEF Tick, WolSends
<1> QED
  BY <1>1, <1>2, <1>3, <1>4, <1>5, <1>6
     DEF Next, Sent, Daemon, CommandLineProgram, ConsoleNext, vars, console

\* Faults are counted, and not forgotten.
LEMMA FaultsCount ==
  ASSUME ConsoleInv, MaxFaults > 0, Exchange, faults' = 0
  PROVE  faults = 0 /\ ~Fault
<1>1. faults \in 0 .. MaxFaults /\ MaxFaults \in Nat
  BY ConsoleAssumption DEF ConsoleInv, ConsoleTypeOK
<1>2. ~Fault
  BY <1>1 DEF Fault
<1>3. faults' = faults \/ Fault
  BY DEF Exchange, Succeeds, PowerState, Refused, Closes, Fails, TriesAgain, GivesUp, Wakes
<1> QED
  BY <1>2, <1>3

\* Without a fault a display that had no answer gets one by doing what it is asked, unless it is
\* to be powered on.
LEMMA AnswersWithoutFault ==
  ASSUME ConsoleInv, MaxFaults > 0, Exchange, faults' = 0, ~IsPowerOn, heard' = heard
  PROVE  work' = work
<1>1. ~Fault
  BY FaultsCount
<1>2. link # "none"
  BY ExchangeProceeds DEF Proceeds
<1>3. link \in Places[Kind] /\ Kind \in {"plain", "alert", "button"}
  BY <1>2, Underway, Goes
<1>4. link \notin {"state", "again"}
  BY <1>3 DEF Places
<1>5. CASE Succeeds
  <2>1. heard' # Carried
    <3>1. PICK S : heard \in Seq(S)
      BY DEF ConsoleInv, ConsoleTypeOK
    <3> DEFINE a == [ask |-> work.event.ask, display |-> work.display]
    <3> HIDE DEF a
    <3>2. Len(Append(heard, a)) # Len(heard)
      BY <3>1
    <3> QED
      BY <3>2 DEF Carried, a
  <2> QED
    BY <1>5, <2>1 DEF Succeeds
<1>6. CASE Closes
  BY <1>6 DEF Closes
<1>7. CASE Wakes
  BY <1>7 DEF Wakes
<1> QED
  BY <1>1, <1>4, <1>5, <1>6, <1>7
     DEF Exchange, PowerState, Refused, Fails, TriesAgain, GivesUp

-----------------------------------------------------------------------------
(* Reading a command and printing its answers keep to it.                   *)

\* What is printed next hides no error.
LEMMA ErrorsStay ==
  ASSUME NEW results, \E S : results \in Seq(S), NEW result
  PROVE  /\ ErrorPrinted(results) => ErrorPrinted(Append(results, result))
         /\ (\E d \in Paired : "error" \in result.answers[d])
              => ErrorPrinted(Append(results, result))
<1>1. PICK S : results \in Seq(S)
  OBVIOUS
<1> DEFINE more == Append(results, result)
<1> DEFINE n == Len(results)
<1>2. /\ n \in Nat /\ DOMAIN results = 1 .. n /\ DOMAIN more = 1 .. n + 1
      /\ more[n + 1] = result /\ \A i \in 1 .. n : more[i] = results[i]
  BY <1>1
<1> HIDE DEF more, n
<1>3. n + 1 \in 1 .. n + 1 /\ \A i \in 1 .. n : i \in 1 .. n + 1
  BY <1>2
<1>4. ErrorPrinted(results) => ErrorPrinted(more)
  BY <1>2, <1>3 DEF ErrorPrinted
<1>5. (\E d \in Paired : "error" \in result.answers[d]) => ErrorPrinted(more)
  BY <1>2, <1>3 DEF ErrorPrinted
<1> QED
  BY <1>4, <1>5 DEF more

\* Taking the next command leaves what is to be asked.
LEMMA ReadArgumentsRest ==
  ASSUME ConsoleInv, OnSchedule, ReadArguments
  PROVE  RestOf(work', link', left') = RestOf(work, link, left)
<1> DEFINE words == Head(left).words
<1> DEFINE outcome == ProcessCommand(words)
<1> DEFINE rest == Tail(left)
<1>1. work = NoWork /\ left # <<>> /\ IsList(left) /\ RestOf(work, link, left) = ToCome(left)
  BY DEF ReadArguments, OnSchedule, RestOf
<1>2. Regular(words) /\ IsList(rest) /\ ToCome(left) = CommandAsks(words) \o ToCome(rest)
  BY <1>1, ToComeFirst
<1>3. /\ left' = outcome.again \o rest
      /\ work' = IF outcome.says = "answers"
                 THEN [NoWork EXCEPT !.event = outcome.event, !.printed = Head(left).printed]
                 ELSE NoWork
  BY DEF ReadArguments
<1>4. PICK T : rest \in Seq(T)
  BY <1>2 DEF IsList
<1>5. PICK R : ToCome(rest) \in Seq(R)
  BY <1>2, ToComeIsList
<1>6. <<>> \o rest = rest /\ <<>> \o ToCome(rest) = ToCome(rest)
  BY <1>4, <1>5
<1> HIDE DEF outcome, words, rest
<1>7. CASE outcome.says = "answers"
  <2>1. /\ outcome.again = <<>> /\ outcome.event # <<>>
        /\ CommandAsks(words) = AsksOf(outcome.event.ask, Matches(outcome.event))
    BY <1>2, <1>7 DEF Regular, IsLeaf, CommandAsks, LeafAsks, outcome
  <2>2. work' = [event |-> outcome.event, printed |-> Head(left).printed, display |-> 0,
                 answers |-> NoAnswers]
    BY <1>3, <1>7 DEF NoWork
  <2>3. left' = rest /\ work' # NoWork /\ work'.event = outcome.event /\ work'.display = 0
    BY <1>3, <1>6, <2>1, <2>2 DEF NoWork
  <2>4. PendingOf(work', link') = Matches(outcome.event)
    <3>1. \A d \in Matches(outcome.event) : d > 0
      <4> TAKE d \in Matches(outcome.event)
      <4>1. d \in Displays
        BY DEF Matches
      <4>2. d \in Nat \ {0}
        BY <4>1, DisplaysAreNumbered
      <4> QED
        BY <4>2
    <3> QED
      BY <2>3, <3>1 DEF PendingOf
  <2> QED
    BY <1>1, <1>2, <2>1, <2>3, <2>4 DEF RestOf, Left
<1>8. CASE outcome.says = "again"
  <2> DEFINE again == outcome.again
  <2>1. IsList(again) /\ ToCome(again) = CommandAsks(words)
    BY <1>2, <1>8, ToComeAgain DEF outcome
  <2> HIDE DEF again
  <2>2. ToCome(again \o rest) = ToCome(again) \o ToCome(rest)
    BY <1>2, <2>1, ToComeConcat
  <2>3. left' = again \o rest /\ work' = NoWork
    BY <1>3, <1>8 DEF again
  <2> QED
    BY <1>1, <1>2, <2>1, <2>2, <2>3 DEF RestOf
<1>9. CASE outcome.says \notin {"answers", "again"}
  <2>1. outcome.again = <<>> /\ CommandAsks(words) = <<>>
    BY <1>2, <1>9 DEF Regular, IsLeaf, CommandAsks, LeafAsks, outcome
  <2>2. left' = rest /\ work' = NoWork
    BY <1>3, <1>6, <1>9, <2>1
  <2> QED
    BY <1>1, <1>2, <1>6, <2>1, <2>2 DEF RestOf
<1> QED
  BY <1>7, <1>8, <1>9

\* Taking the next command keeps all served.
LEMMA ReadArgumentsServed ==
  ASSUME ConsoleInv, OnSchedule, AllServed, ReadArguments, intent' = intent
  PROVE  AllServed'
<1>1. RestOf(work', link', left') = RestOf(work, link, left)
  BY ReadArgumentsRest
<1>2. \E S : printed \in Seq(S)
  BY DEF OnSchedule
<1>3. printed' = printed \/ \E result : printed' = Append(printed, result)
  BY DEF ReadArguments, PrintIf
<1>4. ErrorPrinted(printed) => ErrorPrinted(printed')
  BY <1>2, <1>3, ErrorsStay
<1>5. work = NoWork /\ faults' = faults /\ heard' = heard
  BY DEF ReadArguments
<1>6. Smooth' => Smooth
  BY <1>4, <1>5 DEF Smooth, Failing
<1> QED
  BY <1>1, <1>5, <1>6 DEF AllServed

\* So does printing the answers to the last one.
LEMMA PrintAnswersServed ==
  ASSUME ConsoleInv, OnSchedule, AllServed, PrintAnswers, intent' = intent
  PROVE  AllServed'
<1> DEFINE says == IF Matches(work.event) = {} THEN "error" ELSE "answers"
<1> DEFINE result == Result(says, work.answers)
<1>1. /\ work # NoWork /\ link = "none" /\ Further = {} /\ work' = NoWork
      /\ UNCHANGED <<left, link, heard, faults>>
      /\ printed' = IF work.printed THEN Append(printed, result) ELSE printed
  BY DEF PrintAnswers, At, PrintIf
<1>2. result.answers = work.answers
  BY DEF Result
<1>3. PendingOf(work, link) = {}
  BY <1>1 DEF PendingOf, Further
<1>4. IsList(left) /\ \E S : printed \in Seq(S)
  BY DEF OnSchedule
<1>5. PICK R : ToCome(left) \in Seq(R)
  BY <1>4, ToComeIsList
<1>6. RestOf(work, link, left) = ToCome(left)
  <2>1. <<>> \o ToCome(left) = ToCome(left)
    BY <1>5
  <2> QED
    BY <1>1, <1>3, <2>1, AsksOfNone DEF RestOf, Left
<1>7. RestOf(work', link', left') = ToCome(left)
  BY <1>1 DEF RestOf
<1> HIDE DEF result
<1>8. /\ ErrorPrinted(printed) => ErrorPrinted(printed')
      /\ work.printed /\ (\E d \in Paired : "error" \in work.answers[d]) => ErrorPrinted(printed')
  BY <1>1, <1>2, <1>4, ErrorsStay
<1>9. Smooth' => Smooth
  BY <1>1, <1>8 DEF Smooth, Failing
<1> QED
  BY <1>1, <1>6, <1>7, <1>9 DEF AllServed

\* What is left once a display is dealt with, whether it did what it is asked or not.
LEMMA RestNext ==
  ASSUME NEW ask, NEW displays, NEW c, NEW others, First(c, displays, others),
         NEW list, IsList(list), NEW a, a = [ask |-> ask, display |-> c],
         NEW whole, NEW done, Serves(whole, Left(ask, displays, list), done)
  PROVE  Serves(whole, Left(ask, others, list), IF c \in Paired THEN Append(done, a) ELSE done)
<1> DEFINE rest == Left(ask, others, list)
<1>1. (\E T : rest \in Seq(T)) /\ Left(ask, displays, list) = Before(a, rest)
  BY RestFirst
<1>2. a.display = c
  OBVIOUS
<1> HIDE DEF rest
<1>3. Serves(whole, Before(a, rest), done)
  BY <1>1
<1>4. Serves(whole, rest, IF a.display \in Paired THEN Append(done, a) ELSE done)
  BY <1>1, <1>3, ServesNext
<1> QED
  BY <1>2, <1>4 DEF rest

\* Errors are not taken back.
LEMMA FailingStays ==
  ASSUME NEW w, NEW v, v # NoWork, v.event = w.event, v.printed = w.printed,
         \A d \in Displays : w.answers[d] \subseteq v.answers[d]
  PROVE  Failing(w) => Failing(v)
<1>1. Paired \subseteq Displays
  BY ConsoleAssumption
<1> QED
  BY <1>1 DEF Failing

-----------------------------------------------------------------------------
(* So do going on to the next display and the exchange with it, and what is *)
(* meant is done.                                                           *)

\* So does going on to the next display: one that is not paired is owed nothing.
LEMMA NextDisplayServed ==
  ASSUME ConsoleInv, OnSchedule, AllServed, NextDisplay, intent' = intent
  PROVE  AllServed'
<1> DEFINE c == Closest
<1> DEFINE whole == Intended(intent)
<1> DEFINE ask == work.event.ask
<1>1. /\ c \in Displays /\ c \in Matches(work.event) /\ c > work.display
      /\ \A e \in Matches(work.event) : e > work.display => c <= e
      /\ work.display \in Nat /\ work.answers[c] = {}
      /\ work' = [event |-> work.event, printed |-> work.printed, display |-> c,
                  answers |-> work'.answers]
      /\ work'.answers = [work.answers EXCEPT ![c] = IF c \in Paired THEN {} ELSE {"error"}]
  BY NextOne
<1>2. /\ work # NoWork /\ link = "none" /\ UNCHANGED <<left, printed, heard, faults>>
      /\ IF c \in Paired THEN link' # "none" ELSE link' = link
  BY DEF NextDisplay, At
<1>3. /\ work'.event = work.event /\ work'.printed = work.printed /\ work'.display = c
      /\ c \in Nat \ {0}
  BY <1>1, DisplaysAreNumbered
<1>4. work' # NoWork
  BY <1>3 DEF NoWork
<1>5. work.answers \in [Displays -> SUBSET Marks]
  BY DEF ConsoleInv, ConsoleTypeOK
<1>6. /\ c \in Paired => work'.answers[c] = {}
      /\ \A d \in Displays : work.answers[d] \subseteq work'.answers[d]
  BY <1>1, <1>5
<1>7. Smooth' => Smooth
  <2>1. Failing(work) => Failing(work')
    BY <1>3, <1>4, <1>6, FailingStays
  <2> QED
    BY <1>2, <2>1 DEF Smooth
<1>8. PendingOf(work, link) = Further
  BY <1>2 DEF PendingOf, Further
<1>9. \A d \in Matches(work.event) : d \in Displays /\ d \in Nat
  <2> TAKE d \in Matches(work.event)
  <2>1. d \in Displays
    BY DEF Matches
  <2> QED
    BY <2>1, DisplaysAreNumbered
<1>10. RestOf(work, link, left) = Left(ask, Further, left)
  BY <1>2, <1>8 DEF RestOf
<1>11. RestOf(work', link', left') = Left(ask, PendingOf(work', link'), left)
  BY <1>2, <1>3, <1>4 DEF RestOf
<1>12. IsList(left)
  BY DEF OnSchedule
<1>13. Smooth => Serves(whole, Left(ask, Further, left), heard)
  BY <1>10 DEF AllServed
<1>14. intent' = intent
  OBVIOUS
<1> HIDE DEF c, whole, ask
<1>15. CASE c \in Paired
  <2>1. link' # "none" /\ Unasked(work')
    BY <1>2, <1>3, <1>6, <1>15 DEF Unasked
  <2>2. PendingOf(work', link') = Further
    BY <1>1, <1>3, <1>9, <2>1 DEF PendingOf, Further
  <2> QED
    BY <1>2, <1>7, <1>11, <1>13, <1>14, <2>2 DEF AllServed, whole
<1>16. CASE c \notin Paired
  <2>1. PendingOf(work', link') = {d \in Matches(work.event) : d > c}
    BY <1>2, <1>3, <1>16 DEF PendingOf
  <2>2. First(c, Further, PendingOf(work', link'))
    BY <1>1, <1>3, <1>9, <2>1 DEF First, Further
  <2> DEFINE a == [ask |-> ask, display |-> c]
  <2>3. a = [ask |-> ask, display |-> c]
    OBVIOUS
  <2> HIDE DEF a
  <2>4. Smooth => Serves(whole, Left(ask, PendingOf(work', link'), left), heard)
    BY <1>12, <1>13, <1>16, <2>2, <2>3, RestNext
  <2> QED
    BY <1>2, <1>7, <1>11, <1>14, <2>4 DEF AllServed, whole
<1> QED
  BY <1>15, <1>16

\* An exchange without a fault ends with the display having done what it is asked, or with the
\* error of a power-on that ran out of time.
LEMMA DoneOrError ==
  ASSUME ConsoleInv, MaxFaults > 0, PowerSays, OnSchedule, Exchange, heard' = heard,
         Unasked(work), link' = "none" \/ ~Unasked(work'), faults' = 0
  PROVE  Failing(work')
<1> DEFINE d == work.display
<1>1. Proceeds
  BY ExchangeProceeds
<1>2. d \in Displays /\ d \in Paired /\ work # NoWork /\ link # "none" /\ d \in Nat \ {0}
  BY <1>1, Underway, DisplaysAreNumbered DEF Proceeds
<1>3. /\ work'.event = work.event /\ work'.printed = work.printed /\ work'.display = d
      /\ work'.answers \in [Displays -> SUBSET Marks]
  BY <1>1 DEF Proceeds
<1>4. work' # NoWork
  BY <1>2, <1>3 DEF NoWork
<1>5. heard' # Carried
  <2>1. PICK S : heard \in Seq(S)
    BY DEF ConsoleInv, ConsoleTypeOK
  <2> DEFINE a == [ask |-> work.event.ask, display |-> work.display]
  <2> HIDE DEF a
  <2>2. Len(Append(heard, a)) # Len(heard)
    BY <2>1
  <2> QED
    BY <2>2 DEF Carried, a
<1>6. "payload" \in work'.answers[d] => "payload" \in work.answers[d]
  BY <1>1, <1>5 DEF Proceeds
<1>7. "payload" \notin work.answers[d] /\ "payload" \notin work'.answers[d]
  BY <1>6 DEF Unasked
<1>8. work'.answers[d] # {}
  <2>1. CASE link' = "none"
    BY <1>1, <2>1 DEF Proceeds
  <2>2. CASE ~Unasked(work')
    BY <1>3, <1>7, <2>2 DEF Unasked
  <2> QED
    BY <2>1, <2>2
<1>9. IsPowerOn
  <2> SUFFICES ASSUME ~IsPowerOn PROVE FALSE
    OBVIOUS
  <2>1. work' = work
    BY AnswersWithoutFault
  <2>2. work.answers[d] = {}
    BY DEF Unasked, IsPowerOn
  <2> QED
    BY <1>8, <2>1, <2>2
<1>10. "info" \notin work'.answers[d]
  BY <1>2, <1>9, PowerMarks DEF PowerSays
<1>11. "error" \in work'.answers[d]
  BY <1>2, <1>3, <1>7, <1>8, <1>10 DEF Marks
<1>12. work.printed
  BY <1>2, <1>9 DEF OnSchedule
<1> QED
  BY <1>2, <1>3, <1>4, <1>11, <1>12 DEF Failing

\* So does each step of an exchange: the display does what it is asked, or it fails.
LEMMA ExchangeServed ==
  ASSUME ConsoleInv, MaxFaults > 0, PowerSays, OnSchedule, AllServed, Exchange, intent' = intent
  PROVE  AllServed'
<1> DEFINE d == work.display
<1> DEFINE ask == work.event.ask
<1> DEFINE a == [ask |-> ask, display |-> d]
<1> DEFINE whole == Intended(intent)
<1> DEFINE later == {e \in Matches(work.event) : e > d}
<1> SUFFICES ASSUME Smooth' PROVE Serves(whole, RestOf(work', link', left'), heard')
  BY DEF AllServed
<1>1. Proceeds
  BY ExchangeProceeds
<1>2. /\ d \in Displays /\ d \in Matches(work.event) /\ work # NoWork /\ link # "none"
      /\ d \in Nat \ {0} /\ d \in Paired
  BY <1>1, Underway, DisplaysAreNumbered DEF Proceeds
<1>3. UNCHANGED <<left, printed>>
  BY DEF Exchange, Succeeds, PowerState, Refused, Closes, Fails, TriesAgain, GivesUp, Wakes
<1>4. work'.event = work.event /\ work'.printed = work.printed /\ work'.display = d
  BY <1>1 DEF Proceeds
<1>5. work' # NoWork
  BY <1>2, <1>4 DEF NoWork
<1>6. \A e \in Displays : work.answers[e] \subseteq work'.answers[e]
  BY <1>1 DEF Proceeds
<1>7. Smooth
  <2>1. Failing(work) => Failing(work')
    BY <1>4, <1>5, <1>6, FailingStays
  <2>2. faults = 0
    BY FaultsCount DEF Smooth
  <2> QED
    BY <1>3, <2>1, <2>2 DEF Smooth
<1>8. IsList(left)
  BY DEF OnSchedule
<1>9. \A e \in Matches(work.event) : e \in Displays /\ e \in Nat
  <2> TAKE e \in Matches(work.event)
  <2>1. e \in Displays
    BY DEF Matches
  <2> QED
    BY <2>1, DisplaysAreNumbered
<1>10. /\ PendingOf(work, link) = IF Unasked(work) THEN later \cup {d} ELSE later
       /\ PendingOf(work', link') = IF link' # "none" /\ Unasked(work')
                                    THEN later \cup {d} ELSE later
  BY <1>2, <1>4, <1>9 DEF PendingOf
<1>11. First(d, later \cup {d}, later)
  BY <1>2, <1>9 DEF First
<1>12. Serves(whole, Left(ask, PendingOf(work, link), left), heard)
  BY <1>2, <1>7 DEF AllServed, RestOf
<1>13. RestOf(work', link', left') = Left(ask, PendingOf(work', link'), left)
  BY <1>3, <1>4, <1>5 DEF RestOf
<1>14. heard' = heard \/ heard' = Append(heard, a)
  BY <1>1 DEF Proceeds, Carried
<1>15. heard' # heard => Unasked(work) /\ ~Unasked(work')
  BY <1>1, <1>4 DEF Proceeds, Unasked, IsPowerOn
<1>16. a = [ask |-> ask, display |-> d]
  OBVIOUS
<1>17. Unasked(work') => Unasked(work)
  BY <1>2, <1>4, <1>6 DEF Unasked
<1>18. heard' = heard /\ Unasked(work) => link' # "none" /\ Unasked(work')
  <2> SUFFICES ASSUME heard' = heard, Unasked(work), link' = "none" \/ ~Unasked(work')
               PROVE  FALSE
    OBVIOUS
  <2>1. faults' = 0 /\ ~Failing(work')
    BY DEF Smooth
  <2> QED
    BY <2>1, DoneOrError
<1> HIDE DEF a, later, whole
<1>19. CASE heard' # heard
  <2>1. PendingOf(work, link) = later \cup {d} /\ PendingOf(work', link') = later
    BY <1>10, <1>15, <1>19
  <2> DEFINE most == later \cup {d}
  <2>2. First(d, most, later)
    BY <1>11
  <2>3. Serves(whole, Left(ask, most, left), heard)
    BY <1>12, <2>1
  <2> HIDE DEF most
  <2>4. Serves(whole, Left(ask, later, left), Append(heard, a))
    BY <1>2, <1>8, <1>16, <2>2, <2>3, RestNext
  <2> QED
    BY <1>13, <1>14, <1>19, <2>1, <2>4
<1>20. CASE heard' = heard
  <2>1. PendingOf(work', link') = PendingOf(work, link)
    BY <1>10, <1>17, <1>18, <1>20
  <2> QED
    BY <1>12, <1>13, <1>20, <2>1
<1> QED
  BY <1>19, <1>20

\* Each step of the program keeps the invariant.
LEMMA ServedStep ==
  ASSUME MaxFaults > 0
  PROVE  ConsoleInv /\ OrderInv /\ ServedInv /\ [Next]_vars => ServedInv'
<1> SUFFICES ASSUME ConsoleInv, OrderInv, ServedInv, [Next]_vars PROVE ServedInv'
  OBVIOUS
<1>1. PowerSays /\ PowerSays' /\ intent' = intent
  BY PowerSaysKept DEF ServedInv, Next, vars, Sent, Daemon, CommandLineProgram
<1> SUFFICES ASSUME written' = "arguments", All(intent, ConsoleUnderstands)
             PROVE  AllServed'
  BY <1>1 DEF ServedInv
<1>2. written' = written /\ ~Sent
  BY DEF Next, vars, Sent, Daemon, CommandLineProgram
<1>3. OnSchedule /\ AllServed
  BY <1>2 DEF OrderInv, ServedInv
<1>4. CASE UNCHANGED <<left, printed, work, link, heard, faults>>
  BY <1>1, <1>3, <1>4 DEF AllServed, Smooth
<1>5. CASE ReadArguments
  BY <1>1, <1>3, <1>5, ReadArgumentsServed
<1>6. CASE NextDisplay
  BY <1>1, <1>3, <1>6, NextDisplayServed
<1>7. CASE PrintAnswers
  BY <1>1, <1>3, <1>7, PrintAnswersServed
<1>8. CASE Exchange
  BY <1>1, <1>3, <1>8, ExchangeServed
<1>9. CASE Tick \/ \E d \in Displays : WolSends(d)
  BY <1>4, <1>9 DEF Tick, WolSends
<1> QED
  BY <1>2, <1>4, <1>5, <1>6, <1>7, <1>8, <1>9
     DEF Next, Daemon, CommandLineProgram, ConsoleNext, vars, console

\* It holds at the start.
LEMMA StartServed ==
  Init => ServedInv
<1> SUFFICES ASSUME Init PROVE ServedInv
  OBVIOUS
<1>1. work = NoWork /\ intent \in Intents
  BY DEF Init, Start
<1>2. PowerSays
  BY <1>1 DEF PowerSays
<1>3. ASSUME written = "arguments", All(intent, ConsoleUnderstands) PROVE AllServed
  <2>1. left = CommandsOf(Argv(intent)) /\ heard = <<>>
    BY <1>3 DEF Init, Start
  <2>2. IsList(left) /\ ToCome(left) = Intended(intent)
    BY <1>1, <1>3, <2>1, ReadsAsMeant
  <2> DEFINE whole == Intended(intent)
  <2>3. PICK T : whole \in Seq(T)
    BY <2>2, ToComeIsList
  <2>4. RestOf(work, link, left) = whole
    BY <1>1, <2>2 DEF RestOf
  <2> HIDE DEF whole
  <2>5. Serves(whole, whole, <<>>)
    BY <2>3, ServesFromStart
  <2> QED
    BY <2>1, <2>4, <2>5 DEF AllServed, whole
<1> QED
  BY <1>2, <1>3 DEF ServedInv

\* While nothing fails, the paired displays have done all that was meant but for what is left
\* (console.cpp:67-182).
THEOREM ServiceIsKept == MaxFaults > 0 => (Spec => []ServedInv)
<1> SUFFICES ASSUME MaxFaults > 0 PROVE Spec => []ServedInv
  OBVIOUS
<1>1. ConsoleInv /\ OrderInv /\ ServedInv /\ [Next]_vars => ServedInv'
  BY ServedStep
<1> QED
  BY <1>1, StartServed, ConsoleIsRight, ScheduleIsKept, PTL DEF Spec

\* Of a line that says nothing that arguments cannot say, what ConsoleReadsAsWritten says: when
\* nothing fails, the paired displays have done what was meant, in its order
\* (console.cpp:67-182). MaxFaults > 0 lets a failed exchange be counted.
THEOREM WhatIsWrittenIsDone ==
  MaxFaults > 0 => (Spec => [](All(intent, ConsoleUnderstands) => ConsoleReadsAsWritten))
<1> SUFFICES ASSUME MaxFaults > 0
             PROVE  Spec => [](All(intent, ConsoleUnderstands) => ConsoleReadsAsWritten)
  OBVIOUS
<1>1. ServedInv => (All(intent, ConsoleUnderstands) => ConsoleReadsAsWritten)
  <2> SUFFICES ASSUME ServedInv, ConsoleIsDone, NothingFailed, All(intent, ConsoleUnderstands)
               PROVE  heard = OfPaired(Intended(intent))
    BY DEF ConsoleReadsAsWritten
  <2>1. left = <<>> /\ work = NoWork /\ written = "arguments"
    BY DEF ConsoleIsDone, Ended
  <2>2. RestOf(work, link, left) = <<>>
    BY <2>1, ToComeNone DEF RestOf
  <2>3. Smooth
    BY <2>1 DEF Smooth, NothingFailed, ErrorPrinted, Failing
  <2>4. Serves(Intended(intent), <<>>, heard)
    BY <2>1, <2>2, <2>3 DEF ServedInv, AllServed
  <2> QED
    BY <2>4, ServesToEnd
<1>2. Spec => []ServedInv
  BY ServiceIsKept
<1> QED
  BY <1>1, <1>2, PTL

=============================================================================
