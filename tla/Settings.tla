------------------------------- MODULE Settings -------------------------------
(***************************************************************************)
(* config.json and the two programs that write it: the settings window      *)
(* (src/src/gui) with Preferences (src/src/common/preferences.cpp), and the  *)
(* daemon, whose sessions store the pairing key a display has given them     *)
(* (setSessionKey of src/src/daemon/web_os_client.cpp).                      *)
(*                                                                         *)
(* Neither program locks the file. Each reads it, opens it for writing,      *)
(* which empties it, and writes it anew. The daemon knows a display by the   *)
(* name its entry had when it started; the window names the entries anew     *)
(* whenever it writes. A display is what an entry's name and address stand   *)
(* for, and the pairing key a display gives is the display itself.           *)
(***************************************************************************)
EXTENDS Naturals, Sequences, SequencesExt

CONSTANTS
    Displays,      \* the displays a user may own
    WithMac,       \* those whose entry has a MAC address
    Files,         \* what the file may contain at first, if there is one
    Methods,       \* wake methods that a user chooses
    MaxEdits,      \* bound: changes in the window
    MaxPairings,   \* bound: keys given by displays
    MaxDeaths      \* bound: programs that are killed


VARIABLES
    file,      \* [state, content]
    gui,       \* the window: [at, known, dirty, agreed, general, devices]; known: it
               \* showed or wrote what the file has; agreed: the service was brought up to
               \* date after the last Apply
    unit,      \* systemd starts the daemon with the machine
    daemon,    \* [at, devices, pairing]: the entries as they were when it started, and
               \* the key that is being stored: [at, index, copy]
    paired,    \* ghost: displays whose key was stored and which the settings still name
    moved,     \* ghost: displays that were given the entry of another, which kept its key
    clash,     \* ghost: a key was stored while the window wrote the file, or under the
               \* name that another display's entry has by now
    budget     \* what the bounds still allow

vars == <<file, gui, unit, daemon, paired, moved, clash, budget>>

Nobody == "nobody"
NoKey == "no key"
Keys == Displays \cup {NoKey}

ASSUME SettingsAssumption ==
    /\ WithMac \subseteq Displays
    /\ {Nobody, NoKey} \cap Displays = {}
    /\ Methods \subseteq 1 .. 3
    /\ {MaxEdits, MaxPairings, MaxDeaths} \subseteq Nat

-----------------------------------------------------------------------------
(* Reading: the constructor of Preferences. A node of the file is a record   *)
(* of the keys it has.                                                      *)

Get(node, key, default) == IF key \in DOMAIN node THEN node[key] ELSE default

Typed(node, keys, S) == \A key \in keys \cap DOMAIN node : node[key] \in S

\* What the programs write, of this version or an older one. A value of a type that is
\* not that of its key is passed over like a key that is missing.
Format(content) ==
    /\ content = [general |-> content.general, devices |-> content.devices]
    /\ Typed(content.general,
             {"ExtendedLog", "AutoUpdate", "IdleFullscreen", "IdleFsExclusionsEnabled",
              "IdleWhiteListEnabled", "BlankWhenIdleFullscreenDisable",
              "BlankWhenIdleProcessControl", "TimingPreshutdown"}, BOOLEAN)
    /\ Typed(content.general,
             {"PowerOnTimeOut", "BlankWhenIdleDelay", "LogLevel", "UpdaterMode",
              "TimingShutdown"}, Int)
    /\ IsFiniteSet(DOMAIN content.devices) /\ DOMAIN content.devices \subseteq Nat
    /\ \A i \in DOMAIN content.devices :
         /\ Typed(content.devices[i],
                  {"Enabled", "CheckHdmiInputWhenPoweringOff", "HDMIinputcontrol",
                   "SetHdmiInput", "SetHDMIInputOnResume"}, BOOLEAN)
         /\ Typed(content.devices[i],
                  {"WOL", "SourceHdmiInput", "SetHDMIInputOnResumeToNumber",
                   "OnlyTurnOffIfCurrentHDMIInputNumberIs"}, Int)
         /\ Typed(content.devices[i], {"Name"}, Displays)
         /\ Typed(content.devices[i], {"SessionKey"}, Keys)

\* No display is named twice, and no entry has the key of another.
Keyed(content) ==
    \A i, j \in DOMAIN content.devices :
      LET name == Get(content.devices[i], "Name", Nobody)
      IN /\ Get(content.devices[i], "SessionKey", NoKey) \in {NoKey, name}
         /\ name # Nobody /\ Get(content.devices[j], "Name", Nobody) = name => i = j

\* The files of the first start are such files.
ASSUME FilesAssumption == \A content \in Files : Format(content) /\ Keyed(content)

Clamp(low, n, high) == IF n < low THEN low ELSE IF n > high THEN high ELSE n

\* The number that stands for a Boolean of an older version.
Legacy(node, key, default) ==
    IF key \in DOMAIN node THEN IF node[key] THEN 1 ELSE 0 ELSE default

Defaults ==
    [log |-> 0, timeout |-> 40, updater |-> 0, delay |-> 10, fullscreen |-> FALSE,
     control |-> FALSE, timing |-> 0]

\* A fullscreen exclusion of an older version counts as process control.
Excluded(node) ==
    "IdleFullscreen" \in DOMAIN node
      /\ ~node.IdleFullscreen /\ Get(node, "IdleFsExclusionsEnabled", TRUE)

ReadGeneral(node) ==
    [log        |-> IF node.Version < 3 THEN Legacy(node, "ExtendedLog", 0)
                    ELSE Get(node, "LogLevel", Defaults.log),
     timeout    |-> Clamp(5, Get(node, "PowerOnTimeOut", Defaults.timeout), 100),
     updater    |-> Get(node, "UpdaterMode", Legacy(node, "AutoUpdate", Defaults.updater)),
     delay      |-> Clamp(1, Get(node, "BlankWhenIdleDelay", Defaults.delay), 240),
     fullscreen |-> Get(node, "BlankWhenIdleFullscreenDisable",
                        Get(node, "IdleFullscreen", FALSE)),
     control    |-> Get(node, "BlankWhenIdleProcessControl",
                        Excluded(node) \/ Get(node, "IdleWhiteListEnabled", FALSE)),
     timing     |-> Get(node, "TimingShutdown",
                        Legacy(node, "TimingPreshutdown", Defaults.timing))]

Device(id, display, key, wake) ==
    [id |-> id, display |-> display, key |-> key, enabled |-> TRUE, wake |-> wake,
     check |-> FALSE, set |-> FALSE, source |-> 1]

\* The input of an older version is kept with the setting that used it.
Source(node, set, check) ==
    IF "SourceHdmiInput" \in DOMAIN node THEN node.SourceHdmiInput
    ELSE IF set /\ "SetHDMIInputOnResumeToNumber" \in DOMAIN node
    THEN node.SetHDMIInputOnResumeToNumber
    ELSE IF check THEN Get(node, "OnlyTurnOffIfCurrentHDMIInputNumberIs", 1) ELSE 1

ReadDevice(id, old, node) ==
    LET check == Get(node, "CheckHdmiInputWhenPoweringOff", Get(node, "HDMIinputcontrol", FALSE))
        set == Get(node, "SetHdmiInput", Get(node, "SetHDMIInputOnResume", FALSE))
    IN [Device(id, Get(node, "Name", Nobody), Get(node, "SessionKey", NoKey),
               IF old THEN 4 ELSE Clamp(1, Get(node, "WOL", 4), 4))
        EXCEPT !.enabled = Get(node, "Enabled", TRUE), !.check = check, !.set = set,
               !.source = Clamp(1, Source(node, set, check), 4)]

\* Entries are read in the order of their names.
Ids(content) ==
    LET ids == DOMAIN content.devices
    IN [k \in 1 .. Cardinality(ids) |->
          CHOOSE i \in ids : Cardinality({j \in ids : j < i}) = k - 1]

ReadDevices(content) ==
    [k \in DOMAIN Ids(content) |->
       ReadDevice(Ids(content)[k], content.general.Version < 3,
                  content.devices[Ids(content)[k]])]

Empty == [general |-> <<>>, devices |-> <<>>]

\* A file without a version has never been filled in; one that is cut off cannot be
\* parsed.
Populated(f) == f.state = "whole" /\ "Version" \in DOMAIN f.content.general

Loaded(f) ==
    [general |-> IF Populated(f) THEN ReadGeneral(f.content.general) ELSE Defaults,
     devices |-> IF Populated(f) THEN ReadDevices(f.content) ELSE <<>>]

-----------------------------------------------------------------------------
(* Writing: writeToDisk, in three steps.                                     *)

\* The keys of node f, and those of g that f has not.
Over(f, g) == [x \in DOMAIN f \cup DOMAIN g |-> IF x \in DOMAIN f THEN f[x] ELSE g[x]]

\* The key that the file has for the MAC address of d, if any entry has that address.
StoredKey(content, d) ==
    LET same == {i \in DOMAIN content.devices :
                   Get(content.devices[i], "Name", Nobody) = d.display}
    IN IF d.display \in WithMac /\ same # {}
       THEN Get(content.devices[Max(same)], "SessionKey", NoKey) ELSE d.key

\* Mutant: the keys are looked up by the place in the list.
WithStoredKeysByPlace(content, devices) ==
    [k \in DOMAIN devices |->
       IF k \in DOMAIN content.devices
       THEN [devices[k] EXCEPT !.key = Get(content.devices[k], "SessionKey", NoKey)]
       ELSE devices[k]]

\* Mutant: the keys the window was opened with are good enough.
WithStoredKeysKept(content, devices) == devices

WithStoredKeys(content, devices) ==
    [k \in DOMAIN devices |-> [devices[k] EXCEPT !.key = StoredKey(content, devices[k])]]

\* Mutant: the fullscreen setting goes where older versions had it.
WrittenGeneralOld(g) ==
    [Version |-> 3, LogLevel |-> g.log, PowerOnTimeOut |-> g.timeout,
     UpdaterMode |-> g.updater, BlankWhenIdleDelay |-> g.delay,
     IdleFullscreen |-> g.fullscreen, TimingShutdown |-> g.timing]

WrittenGeneral(g) ==
    [Version |-> 3, LogLevel |-> g.log, PowerOnTimeOut |-> g.timeout,
     UpdaterMode |-> g.updater, BlankWhenIdleDelay |-> g.delay,
     BlankWhenIdleFullscreenDisable |-> g.fullscreen,
     BlankWhenIdleProcessControl |-> g.control, TimingShutdown |-> g.timing]

\* A name that is empty is not written.
WrittenDevice(d) ==
    Over([SessionKey |-> d.key, Enabled |-> d.enabled, WOL |-> d.wake,
          CheckHdmiInputWhenPoweringOff |-> d.check, SetHdmiInput |-> d.set,
          SourceHdmiInput |-> d.source],
         IF d.display = Nobody THEN <<>> ELSE [Name |-> d.display])

Numbered(devices) == [k \in DOMAIN devices |-> [devices[k] EXCEPT !.id = k]]

Written(g) ==
    [general |-> WrittenGeneral(g.general),
     devices |-> [k \in DOMAIN g.devices |-> WrittenDevice(g.devices[k])]]

Cut == file' = [state |-> "torn", content |-> Empty]

\* A program that has emptied the file writes it. What it writes may be cut short, as on a
\* full disk, or, if another has written the file since, be followed by what is left of
\* the other.
Put(content) == Cut \/ file' = [state |-> "whole", content |-> content]

-----------------------------------------------------------------------------
Spend(kind) == budget[kind] > 0 /\ budget' = [budget EXCEPT ![kind] = @ - 1]

NoPairing == [at |-> "none", index |-> 0, copy |-> Empty]

Down == [at |-> "down", devices |-> <<>>, pairing |-> NoPairing]

Closed == [at |-> "closed", known |-> FALSE, dirty |-> FALSE, agreed |-> FALSE,
           general |-> Defaults, devices |-> <<>>]

\* The file has the key of d, under its name.
KeyIn(content, d) ==
    \E i \in DOMAIN content.devices :
      /\ Get(content.devices[i], "Name", Nobody) = d
      /\ Get(content.devices[i], "SessionKey", NoKey) = d

Init ==
    /\ file \in {[state |-> "whole", content |-> c] : c \in Files}
                  \cup {[state |-> "missing", content |-> Empty]}
    /\ gui = Closed
    /\ unit \in BOOLEAN
    /\ daemon = Down
    /\ paired = {d \in Displays : KeyIn(file.content, d)}
    /\ moved = {}
    /\ clash = FALSE
    /\ budget = [edits |-> MaxEdits, pairings |-> MaxPairings, deaths |-> MaxDeaths]

-----------------------------------------------------------------------------
(* The window.                                                              *)

\* Also without a file, and with one that cannot be read.
Opens ==
    /\ gui.at = "closed"
    /\ gui' = [at |-> "open", known |-> file.state = "whole", dirty |-> FALSE,
               agreed |-> FALSE, general |-> Loaded(file).general,
               devices |-> Loaded(file).devices]
    /\ UNCHANGED <<file, unit, daemon, paired, moved, budget>>

Changes(devices) ==
    /\ gui.at = "open"
    /\ Spend("edits")
    /\ gui' = [gui EXCEPT !.devices = devices, !.dirty = TRUE]
    /\ UNCHANGED <<file, unit, daemon, paired>>

Unlisted == Displays \ {gui.devices[k].display : k \in DOMAIN gui.devices}

\* onAddManually: the dialog makes the default method a broadcast. (The user does not
\* add a display twice.)
Adds ==
    /\ \E d \in Unlisted : Changes(Append(gui.devices, Device(0, d, NoKey, 1)))
    /\ UNCHANGED moved

\* What the dialog makes of an entry. It shows name and addresses, so that the entry may
\* become another display's, and not the key, which stays. It has a button for each of
\* three methods: no entry leaves it with the fourth.
Stored(d, display, wake) == [d EXCEPT !.display = display, !.wake = wake]

OwnKey(d) == d.key \in {NoKey, d.display}

\* onEditDevice: an entry needs a name. (The user does not name a display twice.)
Edits ==
    \E k \in DOMAIN gui.devices, wake \in Methods :
      \E display \in Unlisted \cup ({gui.devices[k].display} \ {Nobody}) :
        LET d == Stored(gui.devices[k], display, wake)
        IN /\ Changes([gui.devices EXCEPT ![k] = d])
           /\ moved' = IF OwnKey(d) THEN moved ELSE moved \cup {display}

\* onEnableToggled, for the entry that onDeviceChanged shows.
Toggles ==
    /\ \E k \in DOMAIN gui.devices : Changes([gui.devices EXCEPT ![k].enabled = ~@])
    /\ UNCHANGED moved

\* onRemoveDevice
Removes ==
    /\ \E k \in DOMAIN gui.devices : Changes(RemoveAt(gui.devices, k))
    /\ UNCHANGED moved

LogLevelDebug == 4

\* The log level that the dialog shows: the first of its five for one it does not have.
Offered(log) == IF log \in 0 .. LogLevelDebug THEN log ELSE 0

\* onSettings
Options ==
    /\ gui.at = "open"
    /\ Spend("edits")
    /\ \E t \in {5, 100}, log \in {Offered(gui.general.log), LogLevelDebug} :
         gui' = [gui EXCEPT !.general.timeout = t, !.general.log = log, !.dirty = TRUE]
    /\ UNCHANGED <<file, unit, daemon, paired, moved>>

\* onApply. With a file that cannot be parsed it reports a failure, and that is all.
ApplyReads ==
    /\ gui.at = "open" /\ gui.dirty
    /\ file.state # "torn"
    /\ gui' = [gui EXCEPT !.at = "read", !.agreed = FALSE,
                       !.devices = WithStoredKeys(file.content, @)]
    /\ UNCHANGED <<file, unit, daemon, paired, moved, budget>>

ApplyCuts ==
    /\ gui.at = "read"
    /\ gui' = [gui EXCEPT !.at = "cut", !.devices = Numbered(@)]
    /\ Cut
    /\ UNCHANGED <<unit, daemon, paired, moved, budget>>

ApplyWrites ==
    /\ gui.at = "cut"
    /\ Put(Written(gui))
    /\ gui' = [gui EXCEPT !.at = "sync", !.dirty = FALSE, !.known = TRUE]
    /\ paired' = paired \cap {gui.devices[k].display : k \in DOMAIN gui.devices}
    /\ UNCHANGED <<unit, daemon, moved, budget>>

\* The file cannot be opened for writing: it stays as it is, and Apply reports success.
ApplyFails ==
    /\ gui.at = "read"
    /\ gui' = [gui EXCEPT !.at = "sync", !.devices = Numbered(@), !.dirty = FALSE,
                       !.known = FALSE]
    /\ UNCHANGED <<file, unit, daemon, paired, moved, budget>>

\* A service that starts reads the file.
Running ==
    IF file.state = "torn" THEN Down
    ELSE [at |-> "up", devices |-> Loaded(file).devices, pairing |-> NoPairing]

WantsManagement == \E k \in DOMAIN gui.devices : gui.devices[k].enabled

Synced(agreed) == gui.at = "sync" /\ gui' = [gui EXCEPT !.at = "open", !.agreed = agreed]

\* The user says no, to the window or to polkit, or systemd fails.
Declines ==
    /\ Synced(FALSE)
    /\ UNCHANGED <<file, unit, daemon, paired, moved, budget>>

\* install: enable --now leaves a daemon alone that somebody has started.
Installs ==
    /\ WantsManagement /\ ~unit
    /\ Synced(daemon.at = "down")
    /\ unit' = TRUE
    /\ daemon' = IF daemon.at = "down" THEN Running ELSE daemon
    /\ UNCHANGED <<file, paired, moved, budget>>

\* A daemon that is stopped waits for its sessions.
Disables ==
    /\ ~WantsManagement /\ unit
    /\ daemon.pairing.at = "none"
    /\ Synced(TRUE)
    /\ unit' = FALSE
    /\ daemon' = Down
    /\ UNCHANGED <<file, paired, moved, budget>>

TriesRestart ==
    /\ WantsManagement = unit
    /\ daemon.pairing.at = "none"
    /\ Synced(TRUE)
    /\ daemon' = IF daemon.at = "up" THEN Running ELSE daemon
    /\ UNCHANGED <<file, unit, paired, moved, budget>>

\* syncService
Syncs == Declines \/ Installs \/ Disables \/ TriesRestart

\* closeEvent, with or without an Apply before it.
Closes ==
    /\ gui.at = "open"
    /\ gui' = Closed
    /\ UNCHANGED <<file, unit, daemon, paired, moved, budget>>

Window ==
    \/ Opens \/ Adds \/ Edits \/ Toggles \/ Removes \/ Options
    \/ ApplyReads \/ ApplyCuts \/ ApplyWrites \/ ApplyFails \/ Syncs \/ Closes

-----------------------------------------------------------------------------
(* The daemon.                                                              *)

\* By systemd or by hand. With a file that cannot be parsed it terminates.
Starts ==
    /\ daemon.at = "down"
    /\ file.state # "torn"
    /\ daemon' = Running
    /\ UNCHANGED <<file, gui, unit, paired, moved, budget>>

\* A display has given a key, for want of one or because it refused the one it was sent. The
\* exception of a file that cannot be parsed leaves io_context::run, and with it the thread
\* and the program.
PairReads ==
    /\ daemon.at = "up"
    /\ daemon.pairing.at = "none"
    /\ Spend("pairings")
    /\ \E k \in DOMAIN daemon.devices :
         /\ daemon.devices[k].display # Nobody
         /\ daemon.devices[k].key # daemon.devices[k].display
         /\ daemon' = IF file.state = "torn" THEN Down
                      ELSE [daemon EXCEPT
                              !.devices[k].key = daemon.devices[k].display,
                              !.pairing = [at |-> "read", index |-> k, copy |-> file.content]]
    /\ UNCHANGED <<file, gui, unit, paired, moved>>

PairCuts ==
    /\ daemon.pairing.at = "read"
    /\ daemon' = [daemon EXCEPT !.pairing.at = "cut"]
    /\ Cut
    /\ UNCHANGED <<gui, unit, paired, moved, budget>>

Subject == daemon.devices[daemon.pairing.index]

\* The entry of that name gets the key, and is created if there is none.
PairWrites ==
    /\ daemon.pairing.at = "cut"
    /\ LET copy == daemon.pairing.copy
           node == Over([SessionKey |-> Subject.display], Get(copy.devices, Subject.id, <<>>))
       IN Put([copy EXCEPT !.devices = Over([i \in {Subject.id} |-> node], @)])
    /\ daemon' = [daemon EXCEPT !.pairing = NoPairing]
    /\ paired' = paired \cup {Subject.display}
    /\ UNCHANGED <<gui, unit, moved, budget>>

\* The file cannot be opened for writing: the session goes on with the key.
PairFails ==
    /\ daemon.pairing.at = "read"
    /\ daemon' = [daemon EXCEPT !.pairing = NoPairing]
    /\ UNCHANGED <<file, gui, unit, paired, moved, budget>>

Stops ==
    /\ daemon.at = "up"
    /\ daemon.pairing.at = "none"
    /\ daemon' = Down
    /\ UNCHANGED <<file, gui, unit, paired, moved, budget>>

Pairs == Starts \/ PairReads \/ PairCuts \/ PairWrites \/ PairFails \/ Stops

\* Either program is killed at any point.
Dies ==
    /\ Spend("deaths")
    /\ \/ gui' = Closed /\ UNCHANGED daemon
       \/ daemon' = Down /\ UNCHANGED gui
    /\ UNCHANGED <<file, unit, paired, moved>>

-----------------------------------------------------------------------------
Misplaced ==
    LET devices == daemon.pairing.copy.devices
    IN ~(Subject.id \in DOMAIN devices /\ Get(devices[Subject.id], "Name", Nobody) = Subject.display)

Clashing == daemon.pairing.at # "none" /\ (gui.at \in {"read", "cut"} \/ Misplaced)

Next == (Window \/ Pairs \/ Dies) /\ clash' = (clash \/ Clashing')

Spec == Init /\ [][Next]_vars

-----------------------------------------------------------------------------
(* Properties.                                                              *)

General ==
    [log : Int, timeout : 5 .. 100, updater : Int, delay : 1 .. 240,
     fullscreen : BOOLEAN, control : BOOLEAN, timing : Int]

DeviceType ==
    [id : Nat, display : Displays \cup {Nobody}, key : Keys, enabled : BOOLEAN, wake : 1 .. 4,
     check : BOOLEAN, set : BOOLEAN, source : 1 .. 4]

\* The timeout and the idle delay, and the wake method and the input of each display, are
\* within their limits in both programs, whatever numbers the file had; the log level, the
\* updater mode and the shutdown timing are any number.
TypeOK ==
    /\ file.state \in {"missing", "whole", "torn"}
    /\ gui.at \in {"closed", "open", "read", "cut", "sync"}
    /\ {gui.known, gui.dirty, gui.agreed, unit, clash} \subseteq BOOLEAN
    /\ gui.general \in General
    /\ gui.devices \in Seq(DeviceType)
    /\ daemon.at \in {"down", "up"}
    /\ daemon.devices \in Seq(DeviceType)
    /\ daemon.pairing.at \in {"none", "read", "cut"}
    /\ daemon.pairing.at # "none" => daemon.pairing.index \in DOMAIN daemon.devices
    /\ {paired, moved} \subseteq SUBSET Displays

\* No display's entry has the key of another, however often entries were removed, added
\* and renamed between the keys: the daemon would be refused and ask the user to pair
\* again. Unless the user made the entry of another display, which had its key, that of
\* this one; and unless a key was stored while the window wrote, or by a daemon that still
\* had the old names.
KeyOfItsDisplay ==
    file.state = "whole" /\ ~clash =>
      \A i \in DOMAIN file.content.devices :
        LET name == Get(file.content.devices[i], "Name", Nobody)
        IN Get(file.content.devices[i], "SessionKey", NoKey) \in {NoKey, name} \/ name \in moved

\* The key of a display with a MAC address stays in the file as long as the settings name
\* the display, also when the window was opened before the daemon stored it, and when
\* the display was removed, and added again or given another's entry, before Apply.
KeysKept ==
    file.state = "whole" /\ ~clash =>
      \A d \in paired \cap WithMac : KeyIn(file.content, d)

WithoutKeys(devices) == [k \in DOMAIN devices |-> [devices[k] EXCEPT !.key = NoKey]]

\* What the window shows after Apply is what a daemon that starts will use: settings of
\* older versions and values outside the limits are written the way they were taken. And it
\* is what a daemon that runs does use, if the user agreed to bring the service up to date.
\* (Except after an Apply that could not open the file, and said nothing.)
AppliedIsLoaded ==
    gui.at \in {"open", "sync"} /\ gui.known /\ ~gui.dirty /\ file.state = "whole" /\ ~clash =>
      /\ Loaded(file).general = gui.general
      /\ WithoutKeys(Loaded(file).devices) = WithoutKeys(gui.devices)
      /\ gui.agreed /\ daemon.at = "up"
           => WithoutKeys(daemon.devices) = WithoutKeys(gui.devices)
================================================================================
