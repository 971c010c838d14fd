----------------------------- MODULE PowerSession -----------------------------
(***************************************************************************)
(* What a session promises the engine about power commands. The session    *)
(* tells the display one command at a time; one that is accepted meanwhile  *)
(* waits, and takes the place of one that was waiting.                      *)
(*                                                                         *)
(* Three promises are in the steps. A command that begins is the one that   *)
(* was accepted last. The power state is noted when a command is carried    *)
(* out, as that command. A command has an outcome when it ends, or when the *)
(* session throws away all it has, and only then.                           *)
(***************************************************************************)
CONSTANTS
    Power,      \* the power commands
    Nothing,    \* no command
    Outcomes    \* how a command ends that is not carried out

VARIABLE slot   \* [asked, doing, fate, lit]: the command accepted last, the one the
                \* display is being told, what became of the former, the state noted

Init == slot = [asked |-> Nothing, doing |-> Nothing, fate |-> "none", lit |-> FALSE]

Ended(s, outcome) ==
    [s EXCEPT !.doing = Nothing,
              !.fate = IF @ = "pending" /\ s.doing = s.asked THEN outcome ELSE @]

Accepting(s) == {[s EXCEPT !.asked = t, !.fate = "pending"] : t \in Power}

\* The command that the display is being told is carried out, or given up.
Ending(s) ==
    IF s.doing = Nothing THEN {}
    ELSE {Ended([s EXCEPT !.lit = (s.doing = "POWER_ON")], "done")}
           \cup {Ended(s, o) : o \in Outcomes}

Beginning(s) ==
    IF s.doing = Nothing /\ s.fate = "pending" THEN {[s EXCEPT !.doing = s.asked]} ELSE {}

Dropping(s) ==
    {[s EXCEPT !.doing = Nothing, !.fate = IF @ = "pending" THEN o ELSE @] : o \in Outcomes}

\* A handler of the session may do several of these before it returns.
Next ==
    \E accepted \in {slot} \cup Accepting(slot) :
      \E ended \in {accepted} \cup Ending(accepted) :
        slot' \in {ended} \cup Beginning(ended) \cup Dropping(ended)

Spec == Init /\ [][Next]_slot
================================================================================
