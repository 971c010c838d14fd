---------------------------- MODULE SettingsProofs ----------------------------
(***************************************************************************)
(* What TLAPS proves of Settings, for any displays, files and bounds: no    *)
(* entry gets the key of another display, keys are kept, and what the       *)
(* window applied is what the daemon loads.                                 *)
(***************************************************************************)
EXTENDS Settings, FiniteSetTheorems, SequenceTheorems, TLAPS

-----------------------------------------------------------------------------
(* The order of the entries.                                                *)

Below(S, i) == {j \in S : j < i}

\* The entry at each place in the order of a finite set of names: there is one, with as
\* many below it as there are places before, and no entry is left out.
LEMMA Ranks ==
  ASSUME NEW S \in SUBSET Nat, IsFiniteSet(S)
  PROVE  /\ Cardinality(S) \in Nat
         /\ \A k \in 1 .. Cardinality(S) : \E i \in S : Cardinality(Below(S, i)) = k - 1
         /\ \A i, j \in S : Cardinality(Below(S, i)) = Cardinality(Below(S, j)) => i = j
         /\ \A i \in S : Cardinality(Below(S, i)) + 1 \in 1 .. Cardinality(S)
<1> DEFINE n == Cardinality(S)
<1> DEFINE r == [i \in S |-> Cardinality(Below(S, i)) + 1]
<1>1. n \in Nat
  BY FS_CardinalityType
<1>2. \A i \in S : IsFiniteSet(Below(S, i)) /\ Cardinality(Below(S, i)) \in Nat
  BY FS_Subset, FS_CardinalityType DEF Below
<1>3. \A i \in S : Cardinality(Below(S, i)) < n
  <2> TAKE i \in S
  <2>1. Below(S, i) \in SUBSET S /\ i \notin Below(S, i)
    BY DEF Below
  <2>2. Cardinality(Below(S, i)) <= n /\ Cardinality(Below(S, i)) # n
    BY <2>1, FS_Subset
  <2> QED
    BY <2>2, <1>1, <1>2
<1>4. \A i, j \in S : i < j => Cardinality(Below(S, i)) < Cardinality(Below(S, j))
  <2> SUFFICES ASSUME NEW i \in S, NEW j \in S, i < j
               PROVE  Cardinality(Below(S, i)) < Cardinality(Below(S, j))
    OBVIOUS
  <2>1. Below(S, i) \in SUBSET Below(S, j) /\ i \notin Below(S, i) /\ i \in Below(S, j)
    <3>1. \A m \in S : m \in Nat
      OBVIOUS
    <3>2. \A m \in S : m < i => m < j
      BY <3>1
    <3>3. ~(i < i)
      BY <3>1
    <3> QED
      BY <3>2, <3>3 DEF Below
  <2>2. /\ Cardinality(Below(S, i)) <= Cardinality(Below(S, j))
        /\ Cardinality(Below(S, i)) # Cardinality(Below(S, j))
    BY <2>1, <1>2, FS_Subset
  <2> QED
    BY <2>2, <1>2
<1>5. \A i, j \in S : Cardinality(Below(S, i)) = Cardinality(Below(S, j)) => i = j
  BY <1>2, <1>4
<1>6. \A i \in S : Cardinality(Below(S, i)) + 1 \in 1 .. n
  BY <1>1, <1>2, <1>3
<1>7. r \in Injection(S, 1 .. n)
  <2>1. r \in [S -> 1 .. n]
    BY <1>6
  <2>2. \A i, j \in S : r[i] = r[j] => i = j
    BY <1>2, <1>5
  <2> QED
    BY <2>1, <2>2 DEF Injection, IsInjective
<1>8. IsFiniteSet(1 .. n) /\ Cardinality(1 .. n) = n
  BY <1>1, FS_Interval
<1>9. r \in Surjection(S, 1 .. n)
  BY <1>7, <1>8, FS_Injection
<1>10. \A k \in 1 .. n : \E i \in S : r[i] = k
  BY <1>9 DEF Surjection
<1>11. \A k \in 1 .. n : \E i \in S : Cardinality(Below(S, i)) = k - 1
  BY <1>2, <1>10
<1> QED
  BY <1>1, <1>5, <1>6, <1>11

\* The entries are listed each once.
LEMMA IdsOf ==
  ASSUME NEW c, IsFiniteSet(DOMAIN c.devices), DOMAIN c.devices \subseteq Nat
  PROVE  /\ Ids(c) \in Seq(DOMAIN c.devices) /\ Len(Ids(c)) \in Nat
         /\ DOMAIN Ids(c) = 1 .. Len(Ids(c))
         /\ \A j, k \in DOMAIN Ids(c) : Ids(c)[j] = Ids(c)[k] => j = k
<1> DEFINE S == DOMAIN c.devices
<1> DEFINE n == Cardinality(S)
<1>1. /\ n \in Nat
      /\ \A k \in 1 .. n : \E i \in S : Cardinality(Below(S, i)) = k - 1
  BY Ranks
<1>2. Ids(c) = [k \in 1 .. n |-> CHOOSE i \in S : Cardinality(Below(S, i)) = k - 1]
  BY DEF Ids, Below
<1>3. \A k \in 1 .. n : Ids(c)[k] \in S /\ Cardinality(Below(S, Ids(c)[k])) = k - 1
  BY <1>1, <1>2
<1>4. Ids(c) \in [1 .. n -> S]
  BY <1>2, <1>3
<1>5. \A j, k \in 1 .. n : Ids(c)[j] = Ids(c)[k] => j = k
  BY <1>1, <1>3
<1> QED
  BY <1>1, <1>4, <1>5

\* Entries that are numbered are listed in that order.
LEMMA IdsNumbered ==
  ASSUME NEW c, NEW n \in Nat, DOMAIN c.devices = 1 .. n
  PROVE  Ids(c) = [k \in 1 .. n |-> k]
<1> DEFINE S == 1 .. n
<1>1. \A i \in S : Below(S, i) = 1 .. i - 1
  BY DEF Below
<1>2. IsFiniteSet(S) /\ Cardinality(S) = n
  BY FS_Interval
<1>3. \A i \in S : Cardinality(Below(S, i)) = i - 1
  <2> TAKE i \in S
  <2>1. 1 \in Int /\ i - 1 \in Int
    OBVIOUS
  <2>2. Cardinality(1 .. i - 1) = IF 1 > i - 1 THEN 0 ELSE (i - 1) - 1 + 1
    BY <2>1, FS_Interval
  <2> QED
    BY <2>2, <1>1
<1>4. Ids(c) = [k \in 1 .. n |-> CHOOSE i \in S : Cardinality(Below(S, i)) = k - 1]
  BY <1>2 DEF Ids, Below
<1>5. \A k \in 1 .. n : (CHOOSE i \in S : Cardinality(Below(S, i)) = k - 1) = k
  BY <1>3
<1> QED
  BY <1>4, <1>5

-----------------------------------------------------------------------------
(* Reading.                                                                 *)

Name(node) == Get(node, "Name", Nobody)

Key(node) == Get(node, "SessionKey", NoKey)

Listed(c, i) == ReadDevice(i, c.general.Version < 3, c.devices[i])

\* The settings that are read from a file have their types.
LEMMA GeneralRead ==
  ASSUME NEW c, Format(c)
  PROVE  ReadGeneral(c.general) \in General
<1> DEFINE g == c.general
<1>1. /\ Typed(g, {"ExtendedLog", "AutoUpdate", "IdleFullscreen", "IdleFsExclusionsEnabled",
                   "IdleWhiteListEnabled", "BlankWhenIdleFullscreenDisable",
                   "BlankWhenIdleProcessControl", "TimingPreshutdown"}, BOOLEAN)
      /\ Typed(g, {"PowerOnTimeOut", "BlankWhenIdleDelay", "LogLevel", "UpdaterMode",
                   "TimingShutdown"}, Int)
  BY DEF Format
<1> HIDE DEF g
<1>2. (IF g.Version < 3 THEN Legacy(g, "ExtendedLog", 0) ELSE Get(g, "LogLevel", Defaults.log))
        \in Int
  BY <1>1 DEF Typed, Legacy, Get, Defaults
<1>3. Clamp(5, Get(g, "PowerOnTimeOut", Defaults.timeout), 100) \in 5 .. 100
  <2>1. PICK n \in Int : n = Get(g, "PowerOnTimeOut", Defaults.timeout)
    BY <1>1 DEF Typed, Get, Defaults
  <2> QED
    BY <2>1 DEF Clamp
<1>4. Get(g, "UpdaterMode", Legacy(g, "AutoUpdate", Defaults.updater)) \in Int
  BY <1>1 DEF Typed, Legacy, Get, Defaults
<1>5. Clamp(1, Get(g, "BlankWhenIdleDelay", Defaults.delay), 240) \in 1 .. 240
  <2>1. PICK n \in Int : n = Get(g, "BlankWhenIdleDelay", Defaults.delay)
    BY <1>1 DEF Typed, Get, Defaults
  <2> QED
    BY <2>1 DEF Clamp
<1>6. Get(g, "BlankWhenIdleFullscreenDisable", Get(g, "IdleFullscreen", FALSE)) \in BOOLEAN
  BY <1>1 DEF Typed, Get
<1>7. Get(g, "BlankWhenIdleProcessControl",
          Excluded(g) \/ Get(g, "IdleWhiteListEnabled", FALSE)) \in BOOLEAN
  BY <1>1 DEF Typed, Get
<1>8. Get(g, "TimingShutdown", Legacy(g, "TimingPreshutdown", Defaults.timing)) \in Int
  BY <1>1 DEF Typed, Legacy, Get, Defaults
<1>9. ReadGeneral(g) \in General
  BY <1>2, <1>3, <1>4, <1>5, <1>6, <1>7, <1>8 DEF ReadGeneral, General
<1> QED
  BY <1>9 DEF g

\* The entries that are read from a file have their types, and the names and keys that
\* the file gives them.
LEMMA DeviceRead ==
  ASSUME NEW c, Format(c), NEW i \in DOMAIN c.devices
  PROVE  /\ Listed(c, i) \in DeviceType
         /\ Listed(c, i).id = i
         /\ Listed(c, i).display = Name(c.devices[i])
         /\ Listed(c, i).key = Key(c.devices[i])
<1> DEFINE d == c.devices[i]
<1>1. /\ Typed(d, {"Enabled", "CheckHdmiInputWhenPoweringOff", "HDMIinputcontrol",
                   "SetHdmiInput", "SetHDMIInputOnResume"}, BOOLEAN)
      /\ Typed(d, {"WOL", "SourceHdmiInput", "SetHDMIInputOnResumeToNumber",
                   "OnlyTurnOffIfCurrentHDMIInputNumberIs"}, Int)
      /\ Typed(d, {"Name"}, Displays) /\ Typed(d, {"SessionKey"}, Keys)
      /\ i \in Nat
  BY DEF Format
<1> HIDE DEF d
<1> DEFINE check == Get(d, "CheckHdmiInputWhenPoweringOff", Get(d, "HDMIinputcontrol", FALSE))
<1> DEFINE set == Get(d, "SetHdmiInput", Get(d, "SetHDMIInputOnResume", FALSE))
<1> DEFINE wake == IF c.general.Version < 3 THEN 4 ELSE Clamp(1, Get(d, "WOL", 4), 4)
<1> DEFINE source == Clamp(1, Source(d, set, check), 4)
<1> DEFINE enabled == Get(d, "Enabled", TRUE)
<1>2. check \in BOOLEAN /\ set \in BOOLEAN /\ enabled \in BOOLEAN
  BY <1>1 DEF Typed, Get
<1>3. wake \in 1 .. 4
  <2>1. PICK n \in Int : n = Get(d, "WOL", 4)
    BY <1>1 DEF Typed, Get
  <2> QED
    BY <2>1 DEF Clamp
<1> HIDE DEF check, set, wake, enabled
<1>4. source \in 1 .. 4
  <2>1. PICK n \in Int : n = Source(d, set, check)
    BY <1>1, <1>2 DEF Source, Typed, Get
  <2> QED
    BY <2>1 DEF Clamp
<1>5. Name(d) \in Displays \cup {Nobody} /\ Key(d) \in Keys
  BY <1>1 DEF Name, Key, Typed, Get, Keys
<1> HIDE DEF source
<1>6. Listed(c, i) =
        [id |-> i, display |-> Name(d), key |-> Key(d), enabled |-> enabled, wake |-> wake,
         check |-> check, set |-> set, source |-> source]
  <2>1. Listed(c, i) =
          [Device(i, Name(d), Key(d), wake)
           EXCEPT !.enabled = enabled, !.check = check, !.set = set, !.source = source]
    BY DEF Listed, ReadDevice, Name, Key, d, check, set, wake, source, enabled
  <2> QED
    BY <2>1 DEF Device
<1>7. Listed(c, i) \in DeviceType /\ Listed(c, i).id = i
  BY <1>1, <1>2, <1>3, <1>4, <1>5, <1>6 DEF DeviceType
<1>8. Listed(c, i).display = Name(d) /\ Listed(c, i).key = Key(d)
  BY <1>6
<1> QED
  BY <1>7, <1>8 DEF d

\* No key is another display's, but for the displays of m; and of a content, no display is
\* named twice.
Own(devices, m) ==
    \A k \in DOMAIN devices :
      devices[k].key \in {NoKey, devices[k].display} \/ devices[k].display \in m

Fits(content, m) ==
    \A i, j \in DOMAIN content.devices :
      /\ \/ Key(content.devices[i]) \in {NoKey, Name(content.devices[i])}
         \/ Name(content.devices[i]) \in m
      /\ Name(content.devices[i]) # Nobody /\ Name(content.devices[j]) = Name(content.devices[i])
           => i = j

Single(devices) ==
    \A j, k \in DOMAIN devices :
      devices[k].display # Nobody /\ devices[j].display = devices[k].display => j = k

\* What is loaded has its type; the list names a display once and has no other's keys, if
\* the file has.
LEMMA LoadedRight ==
  ASSUME NEW f, Format(f.content), NEW m
  PROVE  /\ Loaded(f).general \in General
         /\ Loaded(f).devices \in Seq(DeviceType)
         /\ Fits(f.content, m) => Own(Loaded(f).devices, m) /\ Single(Loaded(f).devices)
<1> DEFINE c == f.content
<1> DEFINE ids == Ids(c)
<1>1. /\ ids \in Seq(DOMAIN c.devices) /\ Len(ids) \in Nat /\ DOMAIN ids = 1 .. Len(ids)
      /\ \A j, k \in DOMAIN ids : ids[j] = ids[k] => j = k
  BY IdsOf DEF Format
<1>2. \A k \in DOMAIN ids : ids[k] \in DOMAIN c.devices
  BY <1>1
<1>3. ReadDevices(c) = [k \in DOMAIN ids |-> Listed(c, ids[k])]
  BY DEF ReadDevices, Listed
<1> HIDE DEF ids
<1>4. \A k \in DOMAIN ids :
        /\ ReadDevices(c)[k] \in DeviceType
        /\ ReadDevices(c)[k].display = Name(c.devices[ids[k]])
        /\ ReadDevices(c)[k].key = Key(c.devices[ids[k]])
  BY <1>2, <1>3, DeviceRead
<1>5. ReadDevices(c) \in Seq(DeviceType) /\ DOMAIN ReadDevices(c) = DOMAIN ids
  BY <1>1, <1>3, <1>4
<1>6. Fits(c, m) => Own(ReadDevices(c), m) /\ Single(ReadDevices(c))
  BY <1>1, <1>2, <1>4, <1>5 DEF Fits, Own, Single, Name, Key
<1>7. ReadGeneral(c.general) \in General
  BY GeneralRead
<1>8. Defaults \in General
  BY DEF Defaults, General
<1>9. CASE Populated(f)
  BY <1>5, <1>6, <1>7, <1>9 DEF Loaded
<1>10. CASE ~Populated(f)
  <2>1. Loaded(f).general = Defaults /\ Loaded(f).devices = <<>>
    BY <1>10 DEF Loaded
  <2>2. <<>> \in Seq(DeviceType)
    OBVIOUS
  <2>3. PICK none \in Seq(DeviceType) : none = <<>>
    BY <2>2, Zenon
  <2>4. DOMAIN none = {}
    BY <2>3
  <2> QED
    BY <1>8, <2>1, <2>3, <2>4 DEF Own, Single
<1> QED
  BY <1>9, <1>10

-----------------------------------------------------------------------------
(* Writing.                                                                 *)

\* What the file has of an entry that was written.
LEMMA DeviceWritten ==
  ASSUME NEW d \in DeviceType
  PROVE  LET w == WrittenDevice(d)
         IN /\ Name(w) = d.display /\ Key(w) = d.key
            /\ "Enabled" \in DOMAIN w /\ w["Enabled"] = d.enabled
            /\ "WOL" \in DOMAIN w /\ w["WOL"] = d.wake
            /\ "CheckHdmiInputWhenPoweringOff" \in DOMAIN w
            /\ w["CheckHdmiInputWhenPoweringOff"] = d.check
            /\ "SetHdmiInput" \in DOMAIN w /\ w["SetHdmiInput"] = d.set
            /\ "SourceHdmiInput" \in DOMAIN w /\ w["SourceHdmiInput"] = d.source
            /\ "Name" \in DOMAIN w => w["Name"] = d.display /\ d.display \in Displays
            /\ "SessionKey" \in DOMAIN w => w["SessionKey"] = d.key
            /\ DOMAIN w \subseteq {"SessionKey", "Enabled", "WOL", "SetHdmiInput", "Name",
                                   "CheckHdmiInputWhenPoweringOff", "SourceHdmiInput"}
<1> DEFINE base == [SessionKey |-> d.key, Enabled |-> d.enabled, WOL |-> d.wake,
                    CheckHdmiInputWhenPoweringOff |-> d.check, SetHdmiInput |-> d.set,
                    SourceHdmiInput |-> d.source]
<1>1. DOMAIN base = {"SessionKey", "Enabled", "WOL", "CheckHdmiInputWhenPoweringOff",
                     "SetHdmiInput", "SourceHdmiInput"}
  OBVIOUS
<1>2. /\ base["SessionKey"] = d.key /\ base["Enabled"] = d.enabled /\ base["WOL"] = d.wake
      /\ base["CheckHdmiInputWhenPoweringOff"] = d.check /\ base["SetHdmiInput"] = d.set
      /\ base["SourceHdmiInput"] = d.source
  OBVIOUS
<1>3. d.display \in Displays \cup {Nobody}
  BY DEF DeviceType
<1> HIDE DEF base
<1>4. CASE d.display = Nobody
  <2>1. DOMAIN <<>> = {}
    OBVIOUS
  <2>2. WrittenDevice(d) = [x \in DOMAIN base |-> base[x]]
    <3>1. WrittenDevice(d) = Over(base, <<>>)
      BY <1>4 DEF WrittenDevice, base
    <3> QED
      BY <2>1, <3>1 DEF Over
  <2> QED
    BY <2>2, <1>1, <1>2, <1>4 DEF Name, Key, Get
<1>5. CASE d.display # Nobody
  <2> DEFINE more == [Name |-> d.display]
  <2>1. DOMAIN more = {"Name"} /\ more["Name"] = d.display
    OBVIOUS
  <2>2. WrittenDevice(d) = Over(base, more)
    BY <1>5 DEF WrittenDevice, base
  <2> HIDE DEF more
  <2>3. WrittenDevice(d) = [x \in DOMAIN base \cup {"Name"} |->
                              IF x \in DOMAIN base THEN base[x] ELSE more[x]]
    BY <2>1, <2>2 DEF Over
  <2> QED
    BY <2>1, <2>3, <1>1, <1>2, <1>3, <1>5 DEF Name, Key, Get
<1> QED
  BY <1>3, <1>4, <1>5

\* The settings that are written are of this version, have their types, and are read as
\* they were.
LEMMA GeneralWritten ==
  ASSUME NEW g \in General
  PROVE  LET w == WrittenGeneral(g)
         IN /\ "Version" \in DOMAIN w /\ w.Version = 3
            /\ Typed(w, {"ExtendedLog", "AutoUpdate", "IdleFullscreen",
                         "IdleFsExclusionsEnabled", "IdleWhiteListEnabled",
                         "BlankWhenIdleFullscreenDisable", "BlankWhenIdleProcessControl",
                         "TimingPreshutdown"}, BOOLEAN)
            /\ Typed(w, {"PowerOnTimeOut", "BlankWhenIdleDelay", "LogLevel", "UpdaterMode",
                        "TimingShutdown"}, Int)
            /\ ReadGeneral(w) = g
<1> DEFINE w == WrittenGeneral(g)
<1>1. /\ g.log \in Int /\ g.timeout \in 5 .. 100 /\ g.updater \in Int
      /\ g.delay \in 1 .. 240 /\ g.fullscreen \in BOOLEAN /\ g.control \in BOOLEAN
      /\ g.timing \in Int
      /\ g = [log |-> g.log, timeout |-> g.timeout, updater |-> g.updater, delay |-> g.delay,
              fullscreen |-> g.fullscreen, control |-> g.control, timing |-> g.timing]
  BY DEF General
<1>2. DOMAIN w = {"Version", "LogLevel", "PowerOnTimeOut", "UpdaterMode", "BlankWhenIdleDelay",
                  "BlankWhenIdleFullscreenDisable", "BlankWhenIdleProcessControl",
                  "TimingShutdown"}
  BY DEF WrittenGeneral
<1>3. /\ w["Version"] = 3 /\ w["LogLevel"] = g.log /\ w["PowerOnTimeOut"] = g.timeout
      /\ w["UpdaterMode"] = g.updater /\ w["BlankWhenIdleDelay"] = g.delay
      /\ w["BlankWhenIdleFullscreenDisable"] = g.fullscreen
      /\ w["BlankWhenIdleProcessControl"] = g.control /\ w["TimingShutdown"] = g.timing
      /\ w.Version = 3
  BY DEF WrittenGeneral
<1> HIDE DEF w
<1>4. Typed(w, {"ExtendedLog", "AutoUpdate", "IdleFullscreen",
                "IdleFsExclusionsEnabled", "IdleWhiteListEnabled",
                "BlankWhenIdleFullscreenDisable", "BlankWhenIdleProcessControl",
                "TimingPreshutdown"}, BOOLEAN)
  BY <1>1, <1>2, <1>3 DEF Typed
<1>5. Typed(w, {"PowerOnTimeOut", "BlankWhenIdleDelay", "LogLevel", "UpdaterMode",
                "TimingShutdown"}, Int)
  BY <1>1, <1>2, <1>3 DEF Typed
<1>6. /\ Get(w, "LogLevel", Defaults.log) = g.log /\ ~(w.Version < 3)
      /\ Get(w, "UpdaterMode", Legacy(w, "AutoUpdate", Defaults.updater)) = g.updater
      /\ Get(w, "BlankWhenIdleFullscreenDisable", Get(w, "IdleFullscreen", FALSE)) = g.fullscreen
      /\ Get(w, "TimingShutdown", Legacy(w, "TimingPreshutdown", Defaults.timing)) = g.timing
  BY <1>2, <1>3 DEF Get
<1>7. Get(w, "BlankWhenIdleProcessControl",
          Excluded(w) \/ Get(w, "IdleWhiteListEnabled", FALSE)) = g.control
  BY <1>2, <1>3 DEF Get
<1>8. Clamp(5, Get(w, "PowerOnTimeOut", Defaults.timeout), 100) = g.timeout
  BY <1>1, <1>2, <1>3 DEF Get, Clamp
<1>9. Clamp(1, Get(w, "BlankWhenIdleDelay", Defaults.delay), 240) = g.delay
  BY <1>1, <1>2, <1>3 DEF Get, Clamp
<1>10. ReadGeneral(w) = g
  <2>1. ReadGeneral(w) =
          [log |-> g.log, timeout |-> g.timeout, updater |-> g.updater, delay |-> g.delay,
           fullscreen |-> g.fullscreen, control |-> g.control, timing |-> g.timing]
    BY <1>6, <1>7, <1>8, <1>9 DEF ReadGeneral
  <2> QED
    BY <2>1, <1>1
<1> QED
  BY <1>2, <1>3, <1>4, <1>5, <1>10 DEF w

\* An entry that is written is read as it was, if it has its number.
LEMMA DeviceReadBack ==
  ASSUME NEW c, NEW i, NEW d \in DeviceType, ~(c.general.Version < 3),
         c.devices[i] = WrittenDevice(d), d.id = i
  PROVE  Listed(c, i) = d
<1> DEFINE w == WrittenDevice(d)
<1>1. /\ Name(w) = d.display /\ Key(w) = d.key
      /\ "Enabled" \in DOMAIN w /\ w["Enabled"] = d.enabled
      /\ "WOL" \in DOMAIN w /\ w["WOL"] = d.wake
      /\ "CheckHdmiInputWhenPoweringOff" \in DOMAIN w
      /\ w["CheckHdmiInputWhenPoweringOff"] = d.check
      /\ "SetHdmiInput" \in DOMAIN w /\ w["SetHdmiInput"] = d.set
      /\ "SourceHdmiInput" \in DOMAIN w /\ w["SourceHdmiInput"] = d.source
  BY DeviceWritten
<1>2. /\ d.wake \in 1 .. 4 /\ d.source \in 1 .. 4
      /\ d = [id |-> d.id, display |-> d.display, key |-> d.key, enabled |-> d.enabled,
              wake |-> d.wake, check |-> d.check, set |-> d.set, source |-> d.source]
  BY DEF DeviceType
<1> HIDE DEF w
<1> DEFINE check == Get(w, "CheckHdmiInputWhenPoweringOff", Get(w, "HDMIinputcontrol", FALSE))
<1> DEFINE set == Get(w, "SetHdmiInput", Get(w, "SetHDMIInputOnResume", FALSE))
<1> DEFINE wake == Clamp(1, Get(w, "WOL", 4), 4)
<1> DEFINE source == Clamp(1, Source(w, set, check), 4)
<1> DEFINE enabled == Get(w, "Enabled", TRUE)
<1>3. check = d.check /\ set = d.set /\ enabled = d.enabled
  BY <1>1 DEF Get
<1>4. wake = d.wake
  BY <1>1, <1>2 DEF Get, Clamp
<1> HIDE DEF check, set, wake, enabled
<1>5. source = d.source
  <2>1. Source(w, set, check) = d.source
    BY <1>1 DEF Source
  <2> QED
    BY <2>1, <1>2 DEF Clamp
<1> HIDE DEF source
<1>6. c.devices[i] = w
  BY DEF w
<1>7. Listed(c, i) =
        [Device(i, Name(w), Key(w), wake)
         EXCEPT !.enabled = enabled, !.check = check, !.set = set, !.source = source]
  BY <1>6 DEF Listed, ReadDevice, Name, Key, check, set, wake, source, enabled
<1>8. Listed(c, i) = [id |-> d.id, display |-> d.display, key |-> d.key, enabled |-> d.enabled,
                      wake |-> d.wake, check |-> d.check, set |-> d.set, source |-> d.source]
  BY <1>1, <1>3, <1>4, <1>5, <1>7 DEF Device
<1> QED
  BY <1>2, <1>8

\* What the window writes has the format, with the names and keys of its list, and is
\* loaded as it was.
LEMMA WrittenRight ==
  ASSUME NEW g, g.general \in General, g.devices \in Seq(DeviceType), NEW f,
         f.state = "whole", f.content = Written(g), NEW m
  PROVE  /\ Format(Written(g))
         /\ Own(g.devices, m) /\ Single(g.devices) => Fits(Written(g), m)
         /\ DOMAIN Written(g).devices = DOMAIN g.devices
         /\ \A k \in DOMAIN g.devices : /\ Name(Written(g).devices[k]) = g.devices[k].display
                                        /\ Key(Written(g).devices[k]) = g.devices[k].key
         /\ Loaded(f).general = g.general
         /\ (\A k \in DOMAIN g.devices : g.devices[k].id = k) => Loaded(f).devices = g.devices
<1> DEFINE c == Written(g)
<1> DEFINE n == Len(g.devices)
<1>1. n \in Nat /\ DOMAIN g.devices = 1 .. n /\ \A k \in 1 .. n : g.devices[k] \in DeviceType
  OBVIOUS
<1>2. /\ c = [general |-> c.general, devices |-> c.devices]
      /\ c.general = WrittenGeneral(g.general)
      /\ DOMAIN c.devices = 1 .. n /\ \A k \in 1 .. n : c.devices[k] = WrittenDevice(g.devices[k])
  BY <1>1 DEF Written
<1> HIDE DEF c
<1>3. \A k \in 1 .. n :
        /\ Name(c.devices[k]) = g.devices[k].display /\ Key(c.devices[k]) = g.devices[k].key
        /\ Typed(c.devices[k],
                 {"Enabled", "CheckHdmiInputWhenPoweringOff", "HDMIinputcontrol",
                  "SetHdmiInput", "SetHDMIInputOnResume"}, BOOLEAN)
        /\ Typed(c.devices[k],
                 {"WOL", "SourceHdmiInput", "SetHDMIInputOnResumeToNumber",
                  "OnlyTurnOffIfCurrentHDMIInputNumberIs"}, Int)
        /\ Typed(c.devices[k], {"Name"}, Displays)
        /\ Typed(c.devices[k], {"SessionKey"}, Keys)
  <2> TAKE k \in 1 .. n
  <2> DEFINE d == g.devices[k]
  <2>1. d \in DeviceType
    BY <1>1
  <2> DEFINE w == WrittenDevice(d)
  <2>2. /\ Name(w) = d.display /\ Key(w) = d.key
        /\ w["Enabled"] = d.enabled /\ w["WOL"] = d.wake
        /\ w["CheckHdmiInputWhenPoweringOff"] = d.check
        /\ w["SetHdmiInput"] = d.set /\ w["SourceHdmiInput"] = d.source
        /\ "Name" \in DOMAIN w => w["Name"] = d.display /\ d.display \in Displays
        /\ "SessionKey" \in DOMAIN w => w["SessionKey"] = d.key
        /\ DOMAIN w \subseteq {"SessionKey", "Enabled", "WOL", "SetHdmiInput", "Name",
                               "CheckHdmiInputWhenPoweringOff", "SourceHdmiInput"}
    BY <2>1, DeviceWritten
  <2>3. /\ d.enabled \in BOOLEAN /\ d.check \in BOOLEAN /\ d.set \in BOOLEAN
        /\ d.wake \in Int /\ d.source \in Int /\ d.key \in Keys
    BY <2>1 DEF DeviceType
  <2>4. c.devices[k] = w
    BY <1>2
  <2> HIDE DEF w, d
  <2>5. Typed(w, {"Enabled", "CheckHdmiInputWhenPoweringOff", "HDMIinputcontrol",
                  "SetHdmiInput", "SetHDMIInputOnResume"}, BOOLEAN)
    BY <2>2, <2>3 DEF Typed
  <2>6. Typed(w, {"WOL", "SourceHdmiInput", "SetHDMIInputOnResumeToNumber",
                  "OnlyTurnOffIfCurrentHDMIInputNumberIs"}, Int)
    BY <2>2, <2>3 DEF Typed
  <2>7. Typed(w, {"Name"}, Displays) /\ Typed(w, {"SessionKey"}, Keys)
    BY <2>2, <2>3 DEF Typed
  <2>8. Name(w) = d.display /\ Key(w) = d.key
    BY <2>2
  <2> QED
    BY <2>4, <2>5, <2>6, <2>7, <2>8 DEF d
<1>4. /\ "Version" \in DOMAIN c.general /\ c.general.Version = 3
      /\ Typed(c.general,
               {"ExtendedLog", "AutoUpdate", "IdleFullscreen", "IdleFsExclusionsEnabled",
                "IdleWhiteListEnabled", "BlankWhenIdleFullscreenDisable",
                "BlankWhenIdleProcessControl", "TimingPreshutdown"}, BOOLEAN)
      /\ Typed(c.general, {"PowerOnTimeOut", "BlankWhenIdleDelay", "LogLevel", "UpdaterMode",
                          "TimingShutdown"}, Int)
      /\ ReadGeneral(c.general) = g.general
  <2> DEFINE w == WrittenGeneral(g.general)
  <2>1. /\ "Version" \in DOMAIN w /\ w.Version = 3
        /\ Typed(w, {"ExtendedLog", "AutoUpdate", "IdleFullscreen",
                     "IdleFsExclusionsEnabled", "IdleWhiteListEnabled",
                     "BlankWhenIdleFullscreenDisable", "BlankWhenIdleProcessControl",
                     "TimingPreshutdown"}, BOOLEAN)
        /\ Typed(w, {"PowerOnTimeOut", "BlankWhenIdleDelay", "LogLevel", "UpdaterMode",
                    "TimingShutdown"}, Int)
        /\ ReadGeneral(w) = g.general
    BY GeneralWritten
  <2>2. c.general = w
    BY <1>2
  <2> HIDE DEF w
  <2> QED
    BY <2>1, <2>2
<1>5. IsFiniteSet(DOMAIN c.devices) /\ DOMAIN c.devices \subseteq Nat
  <2>1. n \in Int /\ 1 \in Int
    BY <1>1
  <2>2. IsFiniteSet(1 .. n)
    BY <2>1, FS_Interval
  <2> QED
    BY <2>2, <1>2
<1>6. Format(c)
  BY <1>2, <1>3, <1>4, <1>5 DEF Format
<1>7. Own(g.devices, m) /\ Single(g.devices) => Fits(c, m)
  BY <1>1, <1>2, <1>3 DEF Fits, Own, Single, Name, Key
<1>8. f.content = c
  BY DEF c
<1>9. Loaded(f).general = g.general /\ Loaded(f).devices = ReadDevices(c)
  <2>1. Populated(f)
    BY <1>4, <1>8 DEF Populated
  <2> QED
    BY <2>1, <1>4, <1>8 DEF Loaded
<1>10. ASSUME \A k \in DOMAIN g.devices : g.devices[k].id = k
       PROVE  ReadDevices(c) = g.devices
  <2>1. Ids(c) = [k \in 1 .. n |-> k]
    BY <1>1, <1>2, IdsNumbered
  <2>2. DOMAIN Ids(c) = 1 .. n /\ \A k \in 1 .. n : Ids(c)[k] = k
    BY <2>1
  <2>3. ReadDevices(c) = [k \in 1 .. n |-> Listed(c, k)]
    BY <2>2 DEF ReadDevices, Listed
  <2>4. ~(c.general.Version < 3)
    BY <1>4
  <2>5. \A k \in 1 .. n : Listed(c, k) = g.devices[k]
    BY <2>4, <1>1, <1>2, <1>10, DeviceReadBack
  <2>6. g.devices = [k \in 1 .. n |-> g.devices[k]]
    BY <1>1
  <2> QED
    BY <2>3, <2>5, <2>6
<1> QED
  BY <1>1, <1>2, <1>3, <1>6, <1>7, <1>9, <1>10 DEF c

-----------------------------------------------------------------------------
(* The invariant.                                                           *)

FileRight(f) ==
    /\ f = [state |-> f.state, content |-> f.content]
    /\ f.state \in {"missing", "whole", "torn"}
    /\ Format(f.content)
    /\ f.state # "whole" => f.content = Empty

GuiType ==
    [at : {"closed", "open", "read", "cut", "sync"}, known : BOOLEAN, dirty : BOOLEAN,
     agreed : BOOLEAN, general : General, devices : Seq(DeviceType)]

\* The entry that gets a key.
Chosen(d) == d.devices[d.pairing.index]

DaemonRight(d) ==
    /\ d = [at |-> d.at, devices |-> d.devices, pairing |-> d.pairing]
    /\ d.pairing = [at |-> d.pairing.at, index |-> d.pairing.index, copy |-> d.pairing.copy]
    /\ d.at \in {"down", "up"} /\ d.pairing.at \in {"none", "read", "cut"}
    /\ d.devices \in Seq(DeviceType)
    /\ Format(d.pairing.copy)
    /\ d.pairing.at # "none" =>
         d.at = "up" /\ d.pairing.index \in DOMAIN d.devices /\ Chosen(d).display \in Displays

\* While a key is stored the window does not write, and the entry has its name.
Apart(g, d) ==
    d.pairing.at # "none" =>
      /\ g.at \notin {"read", "cut"}
      /\ Chosen(d).id \in DOMAIN d.pairing.copy.devices
      /\ Name(d.pairing.copy.devices[Chosen(d).id]) = Chosen(d).display

\* So the copy that the daemon changes is what the file has, or had.
Follows(f, d) ==
    /\ d.pairing.at = "read" => f.state # "torn" /\ d.pairing.copy = f.content
    /\ d.pairing.at = "cut" => f.state = "torn"

\* Neither the file, nor the window's list, nor the copy has a key of another display.
OwnKeys(f, g, d, m) ==
    Fits(f.content, m) /\ Own(g.devices, m) /\ Single(g.devices) /\ Fits(d.pairing.copy, m)

\* A key that was stored is in the file, in the copy that will replace it, and in the list
\* that will.
Safe(f, g, d, x) ==
    /\ f.state # "torn" => KeyIn(f.content, x)
    /\ d.pairing.at # "none" => KeyIn(d.pairing.copy, x)
    /\ g.at \in {"read", "cut"} =>
         \A k \in DOMAIN g.devices : g.devices[k].display = x => g.devices[k].key = x

\* The window shows what the file has.
Shown(g) == g.at \in {"open", "sync"} /\ g.known /\ ~g.dirty

Matches(content, g) ==
    LET f == [state |-> "whole", content |-> content]
    IN /\ Loaded(f).general = g.general
       /\ WithoutKeys(Loaded(f).devices) = WithoutKeys(g.devices)

Agrees(f, g, d) ==
    /\ Shown(g) =>
         /\ f.state = "whole" => Matches(f.content, g)
         /\ d.pairing.at # "none" => Matches(d.pairing.copy, g)
         /\ g.agreed /\ d.at = "up" => WithoutKeys(d.devices) = WithoutKeys(g.devices)
    /\ g.at \in {"open", "sync"} /\ g.known => f.state # "missing"
    /\ g.at \in {"read", "cut", "sync"} => ~g.agreed
    /\ g.at = "cut" => \A k \in DOMAIN g.devices : g.devices[k].id = k

Sound(f, g, d, p, m) ==
    /\ Apart(g, d) /\ Follows(f, d) /\ OwnKeys(f, g, d, m)
    /\ \A x \in p \cap WithMac : Safe(f, g, d, x)
    /\ Agrees(f, g, d)

TypeInv ==
    /\ FileRight(file) /\ gui \in GuiType /\ DaemonRight(daemon)
    /\ unit \in BOOLEAN /\ clash \in BOOLEAN
    /\ paired \subseteq Displays /\ moved \subseteq Displays

\* Once there was a clash, only the types are sure.
Inv == TypeInv /\ (~clash => Sound(file, gui, daemon, paired, moved))

-----------------------------------------------------------------------------
(* What a step makes of a content or of a list.                             *)

\* The content that a session writes: the entry has the key.
Paired(c, i, x) ==
    [c EXCEPT !.devices = Over([j \in {i} |-> Over([SessionKey |-> x], Get(@, i, <<>>))], @)]

\* Only the key of that entry is another.
LEMMA PairedEntries ==
  ASSUME NEW c, Format(c), NEW i \in Nat, NEW x \in Displays
  PROVE  LET n == Paired(c, i, x)
         IN /\ n = [general |-> c.general, devices |-> n.devices]
            /\ DOMAIN n.devices = DOMAIN c.devices \cup {i}
            /\ \A j \in DOMAIN c.devices : j # i => n.devices[j] = c.devices[j]
            /\ DOMAIN n.devices[i] = DOMAIN Get(c.devices, i, <<>>) \cup {"SessionKey"}
            /\ n.devices[i]["SessionKey"] = x
            /\ \A key \in DOMAIN n.devices[i] :
                 key # "SessionKey" => n.devices[i][key] = Get(c.devices, i, <<>>)[key]
<1> DEFINE ds == c.devices
<1> DEFINE old == Get(ds, i, <<>>)
<1> DEFINE key == [SessionKey |-> x]
<1> DEFINE node == Over(key, old)
<1> DEFINE n == Paired(c, i, x)
<1>1. c = [general |-> c.general, devices |-> ds]
  BY DEF Format
<1>2. n = [general |-> c.general, devices |-> Over([j \in {i} |-> node], ds)]
  BY <1>1 DEF Paired
<1>3. DOMAIN key = {"SessionKey"} /\ key["SessionKey"] = x
  OBVIOUS
<1> HIDE DEF old, key, ds
<1>4. node = [y \in {"SessionKey"} \cup DOMAIN old |->
                IF y \in {"SessionKey"} THEN key[y] ELSE old[y]]
  BY <1>3 DEF Over
<1>5. /\ DOMAIN node = DOMAIN old \cup {"SessionKey"} /\ node["SessionKey"] = x
      /\ \A y \in DOMAIN node : y # "SessionKey" => node[y] = old[y]
  BY <1>3, <1>4
<1> HIDE DEF node
<1>6. Over([j \in {i} |-> node], ds) =
        [y \in {i} \cup DOMAIN ds |-> IF y \in {i} THEN node ELSE ds[y]]
  BY DEF Over
<1> HIDE DEF n
<1>7. n.devices = [y \in {i} \cup DOMAIN ds |-> IF y \in {i} THEN node ELSE ds[y]]
  BY <1>2, <1>6
<1>8. /\ DOMAIN n.devices = DOMAIN ds \cup {i}
      /\ \A j \in DOMAIN ds : j # i => n.devices[j] = ds[j]
      /\ n.devices[i] = node
  BY <1>7
<1>9. n = [general |-> c.general, devices |-> n.devices]
  BY <1>2
<1> QED
  BY <1>5, <1>8, <1>9 DEF n, ds, old

\* It has the format.
LEMMA PairedFormat ==
  ASSUME NEW c, Format(c), NEW i \in Nat, NEW x \in Displays
  PROVE  Format(Paired(c, i, x))
<1> DEFINE n == Paired(c, i, x)
<1> DEFINE old == Get(c.devices, i, <<>>)
<1>1. /\ n = [general |-> c.general, devices |-> n.devices]
      /\ DOMAIN n.devices = DOMAIN c.devices \cup {i}
      /\ \A j \in DOMAIN c.devices : j # i => n.devices[j] = c.devices[j]
      /\ DOMAIN n.devices[i] = DOMAIN old \cup {"SessionKey"}
      /\ n.devices[i]["SessionKey"] = x
      /\ \A key \in DOMAIN n.devices[i] : key # "SessionKey" => n.devices[i][key] = old[key]
  BY PairedEntries
<1> DEFINE Bools == {"Enabled", "CheckHdmiInputWhenPoweringOff", "HDMIinputcontrol",
                     "SetHdmiInput", "SetHDMIInputOnResume"}
<1> DEFINE Numbers == {"WOL", "SourceHdmiInput", "SetHDMIInputOnResumeToNumber",
                       "OnlyTurnOffIfCurrentHDMIInputNumberIs"}
<1>2. \A j \in DOMAIN c.devices :
        /\ Typed(c.devices[j], Bools, BOOLEAN) /\ Typed(c.devices[j], Numbers, Int)
        /\ Typed(c.devices[j], {"Name"}, Displays) /\ Typed(c.devices[j], {"SessionKey"}, Keys)
  BY DEF Format
<1>3. /\ Typed(old, Bools, BOOLEAN) /\ Typed(old, Numbers, Int)
      /\ Typed(old, {"Name"}, Displays)
  <2>1. CASE i \in DOMAIN c.devices
    BY <2>1, <1>2 DEF Get
  <2>2. CASE i \notin DOMAIN c.devices
    <3>1. old = <<>>
      BY <2>2 DEF Get
    <3>2. DOMAIN old = {}
      BY <3>1
    <3> QED
      BY <3>2 DEF Typed
  <2> QED
    BY <2>1, <2>2
<1>4. "SessionKey" \notin Bools /\ "SessionKey" \notin Numbers /\ "SessionKey" # "Name"
  OBVIOUS
<1> HIDE DEF Bools, Numbers, old, n
<1>5. /\ Typed(n.devices[i], Bools, BOOLEAN) /\ Typed(n.devices[i], Numbers, Int)
      /\ Typed(n.devices[i], {"Name"}, Displays) /\ Typed(n.devices[i], {"SessionKey"}, Keys)
  BY <1>1, <1>3, <1>4 DEF Typed, Keys
<1>6. \A j \in DOMAIN n.devices :
        /\ Typed(n.devices[j], Bools, BOOLEAN) /\ Typed(n.devices[j], Numbers, Int)
        /\ Typed(n.devices[j], {"Name"}, Displays) /\ Typed(n.devices[j], {"SessionKey"}, Keys)
  <2> TAKE j \in DOMAIN n.devices
  <2>1. CASE j = i
    BY <2>1, <1>5
  <2>2. CASE j # i
    BY <2>2, <1>1, <1>2
  <2> QED
    BY <2>1, <2>2
<1>7. IsFiniteSet(DOMAIN n.devices) /\ DOMAIN n.devices \subseteq Nat
  <2>1. IsFiniteSet(DOMAIN c.devices) /\ DOMAIN c.devices \subseteq Nat
    BY DEF Format
  <2> QED
    BY <2>1, <1>1, FS_AddElement
<1>8. n.general = c.general /\ n = [general |-> n.general, devices |-> n.devices]
  BY <1>1
<1>9. Format(n)
  <2>1. /\ Typed(n.general, {"ExtendedLog", "AutoUpdate", "IdleFullscreen",
                             "IdleFsExclusionsEnabled", "IdleWhiteListEnabled",
                             "BlankWhenIdleFullscreenDisable", "BlankWhenIdleProcessControl",
                             "TimingPreshutdown"}, BOOLEAN)
        /\ Typed(n.general, {"PowerOnTimeOut", "BlankWhenIdleDelay", "LogLevel", "UpdaterMode",
                            "TimingShutdown"}, Int)
    BY <1>8 DEF Format
  <2> QED
    BY <1>6, <1>7, <1>8, <2>1 DEF Format, Bools, Numbers
<1> QED
  BY <1>9 DEF n

\* If the entry has the name of the display, every key stays with its display, and but for
\* the keys what is loaded stays the same.
LEMMA PairedRight ==
  ASSUME NEW c, Format(c), NEW i \in DOMAIN c.devices, NEW x \in Displays,
         Name(c.devices[i]) = x, NEW m
  PROVE  /\ Fits(c, m) => Fits(Paired(c, i, x), m)
         /\ KeyIn(Paired(c, i, x), x)
         /\ \A y \in Displays : KeyIn(c, y) => KeyIn(Paired(c, i, x), y)
         /\ \A g : Matches(c, g) => Matches(Paired(c, i, x), g)
<1> DEFINE n == Paired(c, i, x)
<1>1. i \in Nat /\ x # Nobody /\ x # NoKey
  BY SettingsAssumption DEF Format
<1>2. Get(c.devices, i, <<>>) = c.devices[i]
  BY DEF Get
<1>3. /\ n = [general |-> c.general, devices |-> n.devices]
      /\ DOMAIN n.devices = DOMAIN c.devices
      /\ \A j \in DOMAIN c.devices : j # i => n.devices[j] = c.devices[j]
      /\ DOMAIN n.devices[i] = DOMAIN c.devices[i] \cup {"SessionKey"}
      /\ n.devices[i]["SessionKey"] = x
      /\ \A key \in DOMAIN n.devices[i] :
           key # "SessionKey" => n.devices[i][key] = c.devices[i][key]
  <2> DEFINE old == Get(c.devices, i, <<>>)
  <2>1. /\ n = [general |-> c.general, devices |-> n.devices]
        /\ DOMAIN n.devices = DOMAIN c.devices \cup {i}
        /\ \A j \in DOMAIN c.devices : j # i => n.devices[j] = c.devices[j]
        /\ DOMAIN n.devices[i] = DOMAIN old \cup {"SessionKey"}
        /\ n.devices[i]["SessionKey"] = x
        /\ \A key \in DOMAIN n.devices[i] :
             key # "SessionKey" => n.devices[i][key] = old[key]
    BY <1>1, PairedEntries
  <2>2. old = c.devices[i]
    BY <1>2
  <2> HIDE DEF old, n
  <2> QED
    BY <2>1, <2>2
<1>4. Format(n)
  BY <1>1, PairedFormat
<1> HIDE DEF n
<1>5. /\ \A j \in DOMAIN c.devices : Name(n.devices[j]) = Name(c.devices[j])
      /\ \A j \in DOMAIN c.devices : j # i => Key(n.devices[j]) = Key(c.devices[j])
      /\ Key(n.devices[i]) = x
  <2>1. Name(n.devices[i]) = Name(c.devices[i]) /\ Key(n.devices[i]) = x
    BY <1>3 DEF Name, Key, Get
  <2> QED
    BY <2>1, <1>3
<1>6. Fits(c, m) => Fits(n, m)
  <2>1. Fits(c, m) => \A j, k \in DOMAIN c.devices :
          /\ \/ Key(c.devices[j]) \in {NoKey, Name(c.devices[j])}
             \/ Name(c.devices[j]) \in m
          /\ Name(c.devices[j]) # Nobody /\ Name(c.devices[k]) = Name(c.devices[j]) => j = k
    BY DEF Fits, Name, Key
  <2>2. Fits(c, m) => \A j, k \in DOMAIN n.devices :
          /\ \/ Key(n.devices[j]) \in {NoKey, Name(n.devices[j])}
             \/ Name(n.devices[j]) \in m
          /\ Name(n.devices[j]) # Nobody /\ Name(n.devices[k]) = Name(n.devices[j]) => j = k
    BY <2>1, <1>3, <1>5
  <2> QED
    BY <2>2 DEF Fits, Name, Key
<1>7. KeyIn(n, x)
  BY <1>1, <1>3, <1>5 DEF KeyIn, Name, Key
<1>8. \A y \in Displays : KeyIn(c, y) => KeyIn(n, y)
  <2> SUFFICES ASSUME NEW y \in Displays, NEW j \in DOMAIN c.devices,
                      Name(c.devices[j]) = y, Key(c.devices[j]) = y
               PROVE  \E k \in DOMAIN n.devices : Name(n.devices[k]) = y /\ Key(n.devices[k]) = y
    BY DEF KeyIn, Name, Key
  <2> QED
    BY <1>1, <1>3, <1>5
<1>9. ASSUME NEW g, Matches(c, g)
      PROVE  Matches(n, g)
  <2> DEFINE f == [state |-> "whole", content |-> c]
  <2> DEFINE h == [state |-> "whole", content |-> n]
  <2>1. n.general = c.general
    BY <1>3
  <2>2. (Populated(f) <=> Populated(h)) /\ Loaded(h).general = Loaded(f).general
    BY <2>1 DEF Populated, Loaded
  <2>3. Ids(n) = Ids(c)
    BY <1>3 DEF Ids
  <2> DEFINE ids == Ids(c)
  <2>4. \A k \in DOMAIN ids : ids[k] \in DOMAIN c.devices
    BY IdsOf DEF Format
  <2>5. ReadDevices(c) = [k \in DOMAIN ids |-> Listed(c, ids[k])]
    BY DEF ReadDevices, Listed
  <2>6. ReadDevices(n) = [k \in DOMAIN ids |-> Listed(n, ids[k])]
    BY <2>3 DEF ReadDevices, Listed
  <2> HIDE DEF ids
  <2>7. \A j \in DOMAIN c.devices :
          [Listed(n, j) EXCEPT !.key = NoKey] = [Listed(c, j) EXCEPT !.key = NoKey]
    <3> TAKE j \in DOMAIN c.devices
    <3>1. CASE j # i
      BY <3>1, <1>3, <2>1 DEF Listed
    <3>2. CASE j = i
      <4> DEFINE a == c.devices[i]
      <4> DEFINE b == n.devices[i]
      <4>1. \A key, default : key # "SessionKey" => Get(b, key, default) = Get(a, key, default)
        BY <1>3 DEF Get
      <4>2. \A set, check : Source(b, set, check) = Source(a, set, check)
        <5>1. /\ "SourceHdmiInput" \in DOMAIN b <=> "SourceHdmiInput" \in DOMAIN a
              /\ "SetHDMIInputOnResumeToNumber" \in DOMAIN b
                   <=> "SetHDMIInputOnResumeToNumber" \in DOMAIN a
              /\ "SourceHdmiInput" \in DOMAIN a => b["SourceHdmiInput"] = a["SourceHdmiInput"]
              /\ "SetHDMIInputOnResumeToNumber" \in DOMAIN a
                   => b["SetHDMIInputOnResumeToNumber"] = a["SetHDMIInputOnResumeToNumber"]
          BY <1>3
        <5>2. \A default : Get(b, "OnlyTurnOffIfCurrentHDMIInputNumberIs", default)
                             = Get(a, "OnlyTurnOffIfCurrentHDMIInputNumberIs", default)
          BY <4>1
        <5> HIDE DEF a, b
        <5> QED
          BY <5>1, <5>2 DEF Source
      <4> DEFINE check(v) == Get(v, "CheckHdmiInputWhenPoweringOff",
                                 Get(v, "HDMIinputcontrol", FALSE))
      <4> DEFINE set(v) == Get(v, "SetHdmiInput", Get(v, "SetHDMIInputOnResume", FALSE))
      <4> DEFINE wake(v) == IF c.general.Version < 3 THEN 4 ELSE Clamp(1, Get(v, "WOL", 4), 4)
      <4> DEFINE source(v) == Clamp(1, Source(v, set(v), check(v)), 4)
      <4> DEFINE enabled(v) == Get(v, "Enabled", TRUE)
      <4>3. /\ check(b) = check(a) /\ set(b) = set(a) /\ wake(b) = wake(a)
            /\ enabled(b) = enabled(a) /\ Name(b) = Name(a)
        BY <4>1 DEF Name
      <4>4. source(b) = source(a)
        BY <4>2, <4>3
      <4>5. Listed(c, i) = [Device(i, Name(a), Key(a), wake(a))
              EXCEPT !.enabled = enabled(a), !.check = check(a), !.set = set(a),
                     !.source = source(a)]
        BY DEF Listed, ReadDevice, Name, Key
      <4>6. Listed(n, i) = [Device(i, Name(b), Key(b), wake(b))
              EXCEPT !.enabled = enabled(b), !.check = check(b), !.set = set(b),
                     !.source = source(b)]
        BY <2>1 DEF Listed, ReadDevice, Name, Key
      <4> HIDE DEF a, b, check, set, wake, source, enabled
      <4>7. [Listed(c, i) EXCEPT !.key = NoKey] =
              [id |-> i, display |-> Name(a), key |-> NoKey, enabled |-> enabled(a),
               wake |-> wake(a), check |-> check(a), set |-> set(a), source |-> source(a)]
        <5>1. Listed(c, i) =
                [id |-> i, display |-> Name(a), key |-> Key(a), enabled |-> enabled(a),
                 wake |-> wake(a), check |-> check(a), set |-> set(a), source |-> source(a)]
          BY <4>5 DEF Device
        <5> QED
          BY <5>1
      <4>8. [Listed(n, i) EXCEPT !.key = NoKey] =
              [id |-> i, display |-> Name(b), key |-> NoKey, enabled |-> enabled(b),
               wake |-> wake(b), check |-> check(b), set |-> set(b), source |-> source(b)]
        <5>1. Listed(n, i) =
                [id |-> i, display |-> Name(b), key |-> Key(b), enabled |-> enabled(b),
                 wake |-> wake(b), check |-> check(b), set |-> set(b), source |-> source(b)]
          BY <4>6 DEF Device
        <5> QED
          BY <5>1
      <4> QED
        BY <4>3, <4>4, <4>7, <4>8, <3>2
    <3> QED
      BY <3>1, <3>2
  <2>8. WithoutKeys(ReadDevices(n)) = WithoutKeys(ReadDevices(c))
    BY <2>4, <2>5, <2>6, <2>7 DEF WithoutKeys
  <2>9. WithoutKeys(Loaded(h).devices) = WithoutKeys(Loaded(f).devices)
    BY <2>2, <2>8 DEF Loaded
  <2> QED
    BY <1>9, <2>2, <2>9 DEF Matches
<1> QED
  BY <1>6, <1>7, <1>8, <1>9 DEF n

\* A list of entries.
LEMMA Entries ==
  ASSUME NEW s \in Seq(DeviceType)
  PROVE  /\ Len(s) \in Nat /\ DOMAIN s = 1 .. Len(s)
         /\ \A k \in DOMAIN s : s[k] \in DeviceType /\ k \in Nat
  OBVIOUS

\* An entry with another key, another number or another switch.
LEMMA EntryWith ==
  ASSUME NEW d \in DeviceType
  PROVE  /\ \A key \in Keys : LET e == [d EXCEPT !.key = key]
                              IN /\ e \in DeviceType /\ e.display = d.display /\ e.key = key
                                 /\ e.id = d.id /\ e.enabled = d.enabled
                                 /\ [e EXCEPT !.key = NoKey] = [d EXCEPT !.key = NoKey]
         /\ \A id \in Nat : LET e == [d EXCEPT !.id = id]
                            IN /\ e \in DeviceType /\ e.display = d.display /\ e.key = d.key
                               /\ e.id = id
         /\ \A wake \in 1 .. 4 : LET e == [d EXCEPT !.wake = wake]
                                 IN e \in DeviceType /\ e.display = d.display /\ e.key = d.key
         /\ LET e == [d EXCEPT !.enabled = ~@]
            IN e \in DeviceType /\ e.display = d.display /\ e.key = d.key
  BY DEF DeviceType

\* The greatest of some numbers is one of them.
LEMMA MaxOf ==
  ASSUME NEW S \in SUBSET Nat, IsFiniteSet(S), S # {}
  PROVE  Max(S) \in S
<1>1. Cardinality(S) \in Nat /\ Cardinality(S) # 0
  BY FS_CardinalityType, FS_EmptySet
<1>2. Cardinality(S) \in 1 .. Cardinality(S)
  BY <1>1
<1>3. PICK i \in S : Cardinality(Below(S, i)) = Cardinality(S) - 1
  BY <1>2, Ranks
<1>4. Below(S, i) \in SUBSET S /\ i \notin Below(S, i) /\ Below(S, i) \cup {i} \in SUBSET S
  BY DEF Below
<1>5. IsFiniteSet(Below(S, i))
  BY <1>4, FS_Subset
<1>6. Cardinality(Below(S, i) \cup {i}) = Cardinality(S)
  <2>1. Cardinality(Below(S, i) \cup {i}) = Cardinality(Below(S, i)) + 1
    BY <1>4, <1>5, FS_AddElement
  <2> QED
    BY <2>1, <1>1, <1>3
<1>7. Below(S, i) \cup {i} = S
  BY <1>4, <1>6, FS_Subset
<1>8. \A j \in S : i >= j
  BY <1>7 DEF Below
<1> QED
  BY <1>8 DEF Max

\* The key that the window takes over from the file is a key; if each key is with its
\* display it is that of the entry, and is there when the file has one.
LEMMA StoredKeyRight ==
  ASSUME NEW c, Format(c), NEW d \in DeviceType, NEW m
  PROVE  /\ StoredKey(c, d) \in Keys
         /\ Fits(c, m) /\ (d.key \in {NoKey, d.display} \/ d.display \in m)
              => StoredKey(c, d) \in {NoKey, d.display} \/ d.display \in m
         /\ Fits(c, m) /\ d.display \in WithMac /\ KeyIn(c, d.display) => StoredKey(c, d) = d.display
<1> DEFINE same == {i \in DOMAIN c.devices : Name(c.devices[i]) = d.display}
<1>1. IsFiniteSet(DOMAIN c.devices) /\ DOMAIN c.devices \subseteq Nat
  BY DEF Format
<1>2. same \in SUBSET DOMAIN c.devices /\ IsFiniteSet(same)
  BY <1>1, FS_Subset
<1>3. StoredKey(c, d) = IF d.display \in WithMac /\ same # {}
                        THEN Key(c.devices[Max(same)]) ELSE d.key
  BY DEF StoredKey, Name, Key
<1>4. \A i \in DOMAIN c.devices : Key(c.devices[i]) \in Keys
  BY DEF Format, Typed, Key, Get, Keys
<1>5. same # {} => Max(same) \in same
  BY <1>1, <1>2, MaxOf
<1>6. d.key \in Keys /\ (d.display \in WithMac => d.display # Nobody)
  BY SettingsAssumption DEF DeviceType
<1>7. StoredKey(c, d) \in Keys
  BY <1>3, <1>4, <1>5, <1>6
<1>8. Fits(c, m) => \A i, j \in DOMAIN c.devices :
        /\ Key(c.devices[i]) \in {NoKey, Name(c.devices[i])} \/ Name(c.devices[i]) \in m
        /\ Name(c.devices[i]) # Nobody /\ Name(c.devices[j]) = Name(c.devices[i]) => i = j
  BY DEF Fits, Name, Key
<1>9. Fits(c, m) /\ (d.key \in {NoKey, d.display} \/ d.display \in m)
        => StoredKey(c, d) \in {NoKey, d.display} \/ d.display \in m
  BY <1>3, <1>5, <1>8
<1>10. KeyIn(c, d.display) => \E i \in same : Key(c.devices[i]) = d.display
  BY DEF KeyIn, Name, Key
<1>11. Fits(c, m) /\ d.display \in WithMac /\ KeyIn(c, d.display) => StoredKey(c, d) = d.display
  BY <1>3, <1>5, <1>6, <1>8, <1>10
<1> QED
  BY <1>7, <1>9, <1>11

\* A list whose entries have the names of another's has each of them once, too.
LEMMA SameNames ==
  ASSUME NEW s, NEW t, NEW m, DOMAIN t = DOMAIN s,
         \A k \in DOMAIN s : t[k].display = s[k].display
  PROVE  /\ Single(s) => Single(t)
         /\ Own(s, m) /\ (\A k \in DOMAIN s : t[k].key \in {NoKey, s[k].key}) => Own(t, m)
<1>1. Single(s) => Single(t)
  BY DEF Single
<1>2. ASSUME Own(s, m), \A k \in DOMAIN s : t[k].key \in {NoKey, s[k].key}
      PROVE  Own(t, m)
  <2>1. \A k \in DOMAIN s : s[k].key \in {NoKey, s[k].display} \/ s[k].display \in m
    BY <1>2 DEF Own
  <2>2. \A k \in DOMAIN t : t[k].key \in {NoKey, t[k].display} \/ t[k].display \in m
    BY <1>2, <2>1
  <2> QED
    BY <2>2 DEF Own
<1> QED
  BY <1>1, <1>2

\* Adding a display that is not there.
LEMMA Added ==
  ASSUME NEW s \in Seq(DeviceType), NEW d \in DeviceType, d.key = NoKey, NEW m
  PROVE  /\ Append(s, d) \in Seq(DeviceType)
         /\ Own(s, m) => Own(Append(s, d), m)
         /\ Single(s) /\ (\A k \in DOMAIN s : s[k].display # d.display) => Single(Append(s, d))
<1> DEFINE t == Append(s, d)
<1> DEFINE n == Len(s)
<1>1. n \in Nat /\ DOMAIN s = 1 .. n
  OBVIOUS
<1>2. /\ t \in Seq(DeviceType) /\ DOMAIN t = 1 .. n + 1
      /\ \A k \in 1 .. n : t[k] = s[k] /\ t[n + 1] = d
  OBVIOUS
<1>3. t[n + 1] = d
  OBVIOUS
<1> HIDE DEF t, n
<1>4. Own(s, m) => Own(t, m)
  <2> SUFFICES ASSUME Own(s, m), NEW k \in DOMAIN t
               PROVE  t[k].key \in {NoKey, t[k].display} \/ t[k].display \in m
    BY DEF Own
  <2>1. CASE k = n + 1
    BY <2>1, <1>3
  <2>2. CASE k # n + 1
    <3>1. k \in 1 .. n
      BY <2>2, <1>1, <1>2
    <3> QED
      BY <3>1, <1>1, <1>2 DEF Own
  <2> QED
    BY <2>1, <2>2
<1>5. ASSUME Single(s), \A k \in DOMAIN s : s[k].display # d.display
      PROVE  Single(t)
  <2> SUFFICES ASSUME NEW j \in DOMAIN t, NEW k \in DOMAIN t,
                      t[k].display # Nobody, t[j].display = t[k].display
               PROVE  j = k
    BY DEF Single
  <2>1. \A i \in DOMAIN t : i = n + 1 \/ i \in 1 .. n
    BY <1>1, <1>2
  <2> QED
    BY <2>1, <1>1, <1>2, <1>3, <1>5 DEF Single
<1> QED
  BY <1>2, <1>4, <1>5 DEF t

\* Putting an entry in the place of another, of the same display or one that is not there.
LEMMA Replaced ==
  ASSUME NEW s \in Seq(DeviceType), NEW k \in DOMAIN s, NEW d \in DeviceType, NEW m, NEW n
  PROVE  LET t == [s EXCEPT ![k] = d]
         IN /\ t \in Seq(DeviceType)
            /\ Own(s, m) /\ m \subseteq n /\ (d.key \in {NoKey, d.display} \/ d.display \in n)
                 => Own(t, n)
            /\ Single(s) /\ (\A j \in DOMAIN s : s[j].display = d.display => j = k)
                 => Single(t)
<1> DEFINE t == [s EXCEPT ![k] = d]
<1>1. t \in Seq(DeviceType) /\ DOMAIN t = DOMAIN s
  OBVIOUS
<1>2. \A j \in DOMAIN s : t[j] = IF j = k THEN d ELSE s[j]
  OBVIOUS
<1> HIDE DEF t
<1>3. Own(s, m) /\ m \subseteq n /\ (d.key \in {NoKey, d.display} \/ d.display \in n) => Own(t, n)
  BY <1>1, <1>2 DEF Own
<1>4. Single(s) /\ (\A j \in DOMAIN s : s[j].display = d.display => j = k) => Single(t)
  BY <1>1, <1>2 DEF Single
<1> QED
  BY <1>1, <1>3, <1>4 DEF t

\* Putting an entry of the same display, with the same key, in its place.
LEMMA Kept ==
  ASSUME NEW s \in Seq(DeviceType), NEW k \in DOMAIN s, NEW d \in DeviceType, NEW m,
         d.display = s[k].display, d.key = s[k].key
  PROVE  /\ [s EXCEPT ![k] = d] \in Seq(DeviceType)
         /\ Own(s, m) => Own([s EXCEPT ![k] = d], m)
         /\ Single(s) => Single([s EXCEPT ![k] = d])
<1> DEFINE t == [s EXCEPT ![k] = d]
<1>1. t \in Seq(DeviceType) /\ DOMAIN t = DOMAIN s
  OBVIOUS
<1>2. \A j \in DOMAIN s : t[j] = IF j = k THEN d ELSE s[j]
  OBVIOUS
<1> HIDE DEF t
<1>3. \A j \in DOMAIN s : t[j].display = s[j].display /\ t[j].key = s[j].key
  BY <1>2
<1> QED
  BY <1>1, <1>3, SameNames DEF t

\* Removing an entry.
LEMMA Removed ==
  ASSUME NEW s \in Seq(DeviceType), NEW k \in DOMAIN s, NEW m
  PROVE  /\ RemoveAt(s, k) \in Seq(DeviceType)
         /\ Own(s, m) => Own(RemoveAt(s, k), m)
         /\ Single(s) => Single(RemoveAt(s, k))
<1> DEFINE n == Len(s)
<1> DEFINE t == RemoveAt(s, k)
<1> DEFINE place(j) == IF j < k THEN j ELSE j + 1
<1>1. n \in Nat /\ DOMAIN s = 1 .. n /\ k \in 1 .. n
  OBVIOUS
<1>2. t = SubSeq(s, 1, k - 1) \o SubSeq(s, k + 1, n)
  BY DEF RemoveAt
<1>3. /\ SubSeq(s, 1, k - 1) \in Seq(DeviceType) /\ SubSeq(s, k + 1, n) \in Seq(DeviceType)
      /\ Len(SubSeq(s, 1, k - 1)) = k - 1 /\ Len(SubSeq(s, k + 1, n)) = n - k
      /\ \A j \in 1 .. k - 1 : SubSeq(s, 1, k - 1)[j] = s[j]
      /\ \A j \in 1 .. n - k : SubSeq(s, k + 1, n)[j] = s[j + k]
  BY <1>1
<1>4. /\ t \in Seq(DeviceType) /\ Len(t) = n - 1 /\ DOMAIN t = 1 .. n - 1
      /\ \A j \in 1 .. n - 1 : t[j] = s[place(j)]
  <2> DEFINE a == SubSeq(s, 1, k - 1)
  <2> DEFINE b == SubSeq(s, k + 1, n)
  <2> HIDE DEF a, b
  <2>1. a \in Seq(DeviceType) /\ b \in Seq(DeviceType) /\ t = a \o b
        /\ Len(a) = k - 1 /\ Len(b) = n - k
    BY <1>2, <1>3 DEF a, b
  <2>2. a \o b \in Seq(DeviceType) /\ Len(a \o b) = n - 1
    <3>1. a \o b \in Seq(DeviceType) /\ Len(a \o b) = Len(a) + Len(b)
      BY <2>1, ConcatProperties
    <3> QED
      BY <2>1, <3>1, <1>1
  <2>3. \A j \in 1 .. n - 1 : (a \o b)[j] = IF j <= k - 1 THEN a[j] ELSE b[j - (k - 1)]
    BY <2>1, <1>1
  <2>4. \A j \in 1 .. n - 1 : t[j] = s[place(j)]
    <3> TAKE j \in 1 .. n - 1
    <3>1. CASE j < k
      <4>1. j \in 1 .. k - 1 /\ j <= k - 1
        BY <3>1, <1>1
      <4> QED
        BY <4>1, <3>1, <2>1, <2>3, <1>3 DEF a
    <3>2. CASE ~(j < k)
      <4>1. j - (k - 1) \in 1 .. n - k /\ ~(j <= k - 1) /\ j - (k - 1) + k = j + 1
        BY <3>2, <1>1
      <4> QED
        BY <4>1, <3>2, <2>1, <2>3, <1>3 DEF b
    <3> QED
      BY <3>1, <3>2
  <2> QED
    BY <2>1, <2>2, <2>4, <1>1
<1> HIDE DEF t
<1>5. \A j \in 1 .. n - 1 : place(j) \in 1 .. n
  BY <1>1
<1>6. \A i, j \in 1 .. n - 1 : place(i) = place(j) => i = j
  BY <1>1
<1> HIDE DEF place
<1>7. Own(s, m) => Own(t, m)
  BY <1>1, <1>4, <1>5 DEF Own
<1>8. Single(s) => Single(t)
  BY <1>1, <1>4, <1>5, <1>6 DEF Single
<1> QED
  BY <1>4, <1>7, <1>8 DEF t

\* Taking over the keys of the file.
LEMMA KeysTaken ==
  ASSUME NEW c, Format(c), NEW s \in Seq(DeviceType), NEW m
  PROVE  LET t == WithStoredKeys(c, s)
         IN /\ t \in Seq(DeviceType) /\ DOMAIN t = DOMAIN s
            /\ \A k \in DOMAIN s : t[k].display = s[k].display /\ t[k].key = StoredKey(c, s[k])
            /\ Fits(c, m) /\ Own(s, m) => Own(t, m)
            /\ Single(s) => Single(t)
<1> DEFINE t == WithStoredKeys(c, s)
<1>1. Len(s) \in Nat /\ DOMAIN s = 1 .. Len(s) /\ \A k \in DOMAIN s : s[k] \in DeviceType
  BY Entries
<1>2. t = [k \in DOMAIN s |-> [s[k] EXCEPT !.key = StoredKey(c, s[k])]]
  BY DEF WithStoredKeys
<1>3. \A k \in DOMAIN s : StoredKey(c, s[k]) \in Keys
  BY <1>1, StoredKeyRight
<1> HIDE DEF t
<1>4. \A k \in DOMAIN s : /\ t[k] \in DeviceType
                          /\ t[k].display = s[k].display /\ t[k].key = StoredKey(c, s[k])
  <2> TAKE k \in DOMAIN s
  <2> DEFINE d == s[k]
  <2> DEFINE key == StoredKey(c, s[k])
  <2>1. d \in DeviceType /\ key \in Keys /\ t[k] = [d EXCEPT !.key = key]
    BY <1>1, <1>2, <1>3
  <2> HIDE DEF d, key
  <2>2. LET e == [d EXCEPT !.key = key]
        IN e \in DeviceType /\ e.display = d.display /\ e.key = key
    BY <2>1, EntryWith
  <2>3. t[k] \in DeviceType /\ t[k].display = d.display /\ t[k].key = key
    BY <2>1, <2>2
  <2> QED
    BY <2>3 DEF d, key
<1>5. t \in Seq(DeviceType) /\ DOMAIN t = DOMAIN s
  BY <1>1, <1>2, <1>4
<1>6. Fits(c, m) /\ Own(s, m) => Own(t, m)
  BY <1>1, <1>4, <1>5, StoredKeyRight DEF Own
<1>7. Single(s) => Single(t)
  BY <1>4, <1>5, SameNames
<1> QED
  BY <1>4, <1>5, <1>6, <1>7 DEF t

\* Naming the entries by their places.
LEMMA NumbersGiven ==
  ASSUME NEW s \in Seq(DeviceType), NEW m
  PROVE  LET t == Numbered(s)
         IN /\ t \in Seq(DeviceType) /\ DOMAIN t = DOMAIN s
            /\ \A k \in DOMAIN s : /\ t[k].display = s[k].display /\ t[k].key = s[k].key
                                   /\ t[k].id = k
            /\ Own(s, m) => Own(t, m)
            /\ Single(s) => Single(t)
<1> DEFINE t == Numbered(s)
<1>1. /\ Len(s) \in Nat /\ DOMAIN s = 1 .. Len(s)
      /\ \A k \in DOMAIN s : s[k] \in DeviceType /\ k \in Nat
  BY Entries
<1>2. t = [k \in DOMAIN s |-> [s[k] EXCEPT !.id = k]]
  BY DEF Numbered
<1> HIDE DEF t
<1>3. \A k \in DOMAIN s : /\ t[k] \in DeviceType /\ t[k].id = k
                          /\ t[k].display = s[k].display /\ t[k].key = s[k].key
  <2> TAKE k \in DOMAIN s
  <2> DEFINE d == s[k]
  <2>1. d \in DeviceType /\ k \in Nat /\ t[k] = [d EXCEPT !.id = k]
    BY <1>1, <1>2
  <2> HIDE DEF d
  <2>2. LET e == [d EXCEPT !.id = k]
        IN e \in DeviceType /\ e.display = d.display /\ e.key = d.key /\ e.id = k
    BY <2>1, EntryWith
  <2>3. t[k] \in DeviceType /\ t[k].display = d.display /\ t[k].key = d.key /\ t[k].id = k
    BY <2>1, <2>2
  <2> QED
    BY <2>3 DEF d
<1>4. t \in Seq(DeviceType) /\ DOMAIN t = DOMAIN s
  BY <1>1, <1>2, <1>3
<1>5. (Own(s, m) => Own(t, m)) /\ (Single(s) => Single(t))
  BY <1>3, <1>4, SameNames
<1> QED
  BY <1>3, <1>4, <1>5 DEF t

-----------------------------------------------------------------------------
(* The parts of a step.                                                     *)

\* Nothing is right.
LEMMA NothingRight ==
  /\ Format(Empty) /\ (\A m : Fits(Empty, m)) /\ \A x : ~KeyIn(Empty, x)
  /\ <<>> \in Seq(DeviceType) /\ (\A m : Own(<<>>, m)) /\ Single(<<>>)
  /\ FileRight([state |-> "torn", content |-> Empty])
  /\ FileRight([state |-> "missing", content |-> Empty])
  /\ DaemonRight(Down) /\ Closed \in GuiType
<1>1. <<>> \in Seq(DeviceType)
  OBVIOUS
<1>2. PICK none \in Seq(DeviceType) : none = <<>>
  BY <1>1, Zenon
<1>3. DOMAIN none = {}
  BY <1>2
<1>4. (\A m : Own(none, m)) /\ Single(none)
  BY <1>3 DEF Own, Single
<1>5. Empty = [general |-> none, devices |-> none]
  BY <1>2 DEF Empty
<1>6. Empty.general = none /\ Empty.devices = none
  BY <1>5
<1>7. Format(Empty)
  <2>1. IsFiniteSet(DOMAIN none)
    BY <1>3, FS_EmptySet
  <2>2. Empty = [general |-> Empty.general, devices |-> Empty.devices]
    BY <1>5, <1>6
  <2> QED
    BY <1>3, <1>6, <2>1, <2>2 DEF Format, Typed
<1>8. (\A m : Fits(Empty, m)) /\ \A x : ~KeyIn(Empty, x)
  BY <1>3, <1>6 DEF Fits, KeyIn
<1>9. /\ FileRight([state |-> "torn", content |-> Empty])
      /\ FileRight([state |-> "missing", content |-> Empty])
  BY <1>7 DEF FileRight
<1>10. DaemonRight(Down)
  <2>1. Down = [at |-> "down", devices |-> none, pairing |-> NoPairing]
    BY <1>2 DEF Down
  <2> QED
    BY <2>1, <1>7 DEF DaemonRight, NoPairing
<1>11. Closed \in GuiType
  <2>1. Defaults \in General
    BY DEF Defaults, General
  <2>2. Closed = [at |-> "closed", known |-> FALSE, dirty |-> FALSE, agreed |-> FALSE,
                  general |-> Defaults, devices |-> none]
    BY <1>2 DEF Closed
  <2> QED
    BY <2>1, <2>2 DEF GuiType
<1> QED
  BY <1>1, <1>2, <1>4, <1>7, <1>8, <1>9, <1>10, <1>11

\* Without a clash a step has to keep the rest.
LEMMA StepKeeps ==
  ASSUME Inv, TypeInv', clash' = (clash \/ Clashing'),
         Sound(file, gui, daemon, paired, moved) /\ ~clash /\ Apart(gui', daemon')
           => Sound(file', gui', daemon', paired', moved')
  PROVE  Inv'
<1>1. ~Clashing' => Apart(gui', daemon')
  BY DEF Clashing, Misplaced, Subject, Apart, Chosen, Name
<1> QED
  BY <1>1 DEF Inv

\* A service that starts.
LEMMA RunningRight ==
  ASSUME FileRight(file)
  PROVE  /\ DaemonRight(Running) /\ Running.pairing = NoPairing
         /\ Running.at = "up" => /\ file.state # "torn"
                                 /\ Running.devices = Loaded(file).devices
<1>1. CASE file.state = "torn"
  BY <1>1, NothingRight DEF Running, Down
<1>2. CASE file.state # "torn"
  <2> DEFINE ds == Loaded(file).devices
  <2>1. ds \in Seq(DeviceType)
    BY LoadedRight DEF FileRight
  <2>2. Running = [at |-> "up", devices |-> ds, pairing |-> NoPairing]
    BY <1>2 DEF Running
  <2> HIDE DEF ds
  <2>3. DaemonRight(Running)
    BY <2>1, <2>2, NothingRight DEF DaemonRight, NoPairing
  <2>4. Running.pairing = NoPairing /\ Running.devices = ds
    BY <2>2
  <2> QED
    BY <2>3, <2>4, <1>2 DEF ds
<1> QED
  BY <1>1, <1>2

\* A window that changes and leaves the file alone.
LEMMA WindowOnly ==
  ASSUME NEW f, NEW g, NEW h, NEW d, NEW p, NEW m, NEW n, Sound(f, g, d, p, m), Apart(h, d),
         m \subseteq n, Own(h.devices, n), Single(h.devices), h.at \notin {"read", "cut"},
         Agrees(f, h, d)
  PROVE  Sound(f, h, d, p, n)
<1>1. \A c : Fits(c, m) => Fits(c, n)
  BY DEF Fits
<1> QED
  BY <1>1 DEF Sound, OwnKeys, Safe

\* A daemon that has stopped, or has read the file as it is.
LEMMA DaemonOnly ==
  ASSUME NEW f, NEW g, NEW d, NEW e, NEW p, NEW m, FileRight(f), Sound(f, g, d, p, m),
         e.pairing = NoPairing,
         e.at = "up" => f.state # "torn" /\ e.devices = Loaded(f).devices
  PROVE  Sound(f, g, e, p, m)
<1>1. /\ Apart(g, d) /\ Follows(f, d) /\ OwnKeys(f, g, d, m) /\ Agrees(f, g, d)
      /\ \A x \in p \cap WithMac : Safe(f, g, d, x)
  BY DEF Sound
<1>2. e.pairing.at = "none" /\ e.pairing.copy = Empty
  BY DEF NoPairing
<1>3. Apart(g, e) /\ Follows(f, e) /\ OwnKeys(f, g, e, m)
  BY <1>1, <1>2, NothingRight DEF Apart, Follows, OwnKeys
<1>4. \A x \in p \cap WithMac : Safe(f, g, e, x)
  BY <1>1, <1>2 DEF Safe
<1>5. Agrees(f, g, e)
  <2>1. ASSUME Shown(g), e.at = "up"
        PROVE  WithoutKeys(e.devices) = WithoutKeys(g.devices)
    <3>1. f.state = "whole" /\ f = [state |-> "whole", content |-> f.content]
      BY <2>1, <1>1 DEF FileRight, Agrees, Shown
    <3>2. Matches(f.content, g)
      BY <3>1, <2>1, <1>1 DEF Agrees
    <3>3. WithoutKeys(Loaded(f).devices) = WithoutKeys(g.devices)
      BY <3>1, <3>2 DEF Matches
    <3> QED
      BY <3>3, <2>1
  <2> QED
    BY <2>1, <1>1, <1>2 DEF Agrees
<1> QED
  BY <1>3, <1>4, <1>5 DEF Sound

\* A window that has brought the service up to date, or has not.
LEMMA SyncRight ==
  ASSUME NEW f, NEW g, NEW h, NEW d, NEW p, NEW m, FileRight(f), Sound(f, g, d, p, m),
         g.at = "sync", h.at = "open", h.known = g.known, h.dirty = g.dirty,
         h.general = g.general, h.devices = g.devices,
         h.agreed /\ d.at = "up" => f.state # "torn" /\ d.devices = Loaded(f).devices
  PROVE  Sound(f, h, d, p, m)
<1>1. /\ Apart(g, d) /\ Follows(f, d) /\ OwnKeys(f, g, d, m) /\ Agrees(f, g, d)
      /\ \A x \in p \cap WithMac : Safe(f, g, d, x)
  BY DEF Sound
<1>2. Shown(h) <=> Shown(g)
  BY DEF Shown
<1>3. \A c : Matches(c, g) <=> Matches(c, h)
  BY DEF Matches
<1>4. ASSUME Shown(h), h.agreed, d.at = "up"
      PROVE  WithoutKeys(d.devices) = WithoutKeys(h.devices)
  <2>1. f.state = "whole" /\ f = [state |-> "whole", content |-> f.content]
    BY <1>4, <1>2, <1>1 DEF FileRight, Agrees, Shown
  <2>2. Matches(f.content, g)
    BY <2>1, <1>4, <1>2, <1>1 DEF Agrees
  <2>3. WithoutKeys(Loaded(f).devices) = WithoutKeys(h.devices)
    BY <2>1, <2>2 DEF Matches
  <2> QED
    BY <2>3, <1>4
<1>5. Agrees(f, h, d)
  BY <1>1, <1>2, <1>3, <1>4 DEF Agrees
<1>6. Apart(h, d)
  BY <1>1 DEF Apart
<1> QED
  BY <1>1, <1>5, <1>6, WindowOnly DEF OwnKeys

-----------------------------------------------------------------------------
(* The steps of the window.                                                 *)

LEMMA OpensKeeps ==
  ASSUME Inv, Opens, clash' = (clash \/ Clashing')
  PROVE  Inv'
<1> DEFINE l == Loaded(file)
<1>1. /\ l.general \in General /\ l.devices \in Seq(DeviceType)
      /\ Fits(file.content, moved) => Own(l.devices, moved) /\ Single(l.devices)
  BY LoadedRight DEF Inv, TypeInv, FileRight
<1>2. /\ gui' = [at |-> "open", known |-> file.state = "whole", dirty |-> FALSE,
                 agreed |-> FALSE, general |-> l.general, devices |-> l.devices]
      /\ UNCHANGED <<file, unit, daemon, paired, moved>>
  BY DEF Opens
<1> HIDE DEF l
<1>3. /\ gui'.at = "open" /\ gui'.known = (file.state = "whole") /\ ~gui'.dirty /\ ~gui'.agreed
      /\ gui'.general = l.general /\ gui'.devices = l.devices
  BY <1>2
<1>4. TypeInv'
  <2>1. gui' \in GuiType
    BY <1>1, <1>2 DEF GuiType
  <2> QED
    BY <2>1, <1>2 DEF Inv, TypeInv, Clashing
<1>5. ASSUME Sound(file, gui, daemon, paired, moved), Apart(gui', daemon')
      PROVE  Sound(file', gui', daemon', paired', moved')
  <2>1. /\ Follows(file, daemon) /\ OwnKeys(file, gui, daemon, moved)
    BY <1>5 DEF Sound
  <2>2. file = [state |-> file.state, content |-> file.content]
    BY DEF Inv, TypeInv, FileRight
  <2>3. ASSUME file.state = "whole"
        PROVE  Matches(file.content, gui')
    <3>1. file = [state |-> "whole", content |-> file.content]
      BY <2>2, <2>3
    <3> QED
      BY <3>1, <1>3 DEF Matches, l
  <2>4. daemon.pairing.at # "none" /\ file.state = "whole"
          => daemon.pairing.copy = file.content
    BY <2>1 DEF Follows, Inv, TypeInv, DaemonRight
  <2>5. Agrees(file, gui', daemon)
    BY <2>3, <2>4, <1>3 DEF Agrees, Shown
  <2>6. Own(gui'.devices, moved) /\ Single(gui'.devices)
    BY <2>1, <1>1, <1>3 DEF OwnKeys
  <2> QED
    BY <2>5, <2>6, <1>2, <1>3, <1>5, WindowOnly
<1> QED
  BY <1>4, <1>5, StepKeeps

\* A change of the list or of the settings, which the file does not have yet.
LEMMA ChangeKeeps ==
  ASSUME Inv, clash' = (clash \/ Clashing'), UNCHANGED <<file, unit, daemon, paired>>,
         moved \subseteq moved', moved' \subseteq Displays,
         gui' \in GuiType, gui'.at = "open", gui'.dirty, gui'.known = gui.known,
         gui.at = "open",
         Own(gui.devices, moved) => Own(gui'.devices, moved'),
         Single(gui.devices) => Single(gui'.devices)
  PROVE  Inv'
<1>1. TypeInv'
  BY DEF Inv, TypeInv, Clashing
<1>2. ASSUME Sound(file, gui, daemon, paired, moved), Apart(gui', daemon')
      PROVE  Sound(file', gui', daemon', paired', moved')
  <2>1. Own(gui'.devices, moved') /\ Single(gui'.devices)
    BY <1>2 DEF Sound, OwnKeys
  <2>2. Agrees(file, gui', daemon)
    BY <1>2 DEF Sound, Agrees, Shown
  <2> QED
    BY <2>1, <2>2, <1>2, WindowOnly
<1> QED
  BY <1>1, <1>2, StepKeeps

LEMMA ChangesKeeps ==
  ASSUME Inv, clash' = (clash \/ Clashing'), NEW ds \in Seq(DeviceType), Changes(ds),
         moved \subseteq moved', moved' \subseteq Displays,
         Own(gui.devices, moved) => Own(ds, moved'), Single(gui.devices) => Single(ds)
  PROVE  Inv'
<1>1. /\ gui.at = "open" /\ UNCHANGED <<file, unit, daemon, paired>>
      /\ gui' = [gui EXCEPT !.devices = ds, !.dirty = TRUE]
  BY DEF Changes
<1>2. gui \in GuiType
  BY DEF Inv, TypeInv
<1>3. /\ gui' \in GuiType /\ gui'.at = "open" /\ gui'.dirty /\ gui'.known = gui.known
      /\ gui'.devices = ds
  BY <1>1, <1>2 DEF GuiType
<1> QED
  BY <1>1, <1>3, ChangeKeeps

LEMMA EditKeeps ==
  ASSUME Inv, clash' = (clash \/ Clashing'), Adds \/ Edits \/ Toggles \/ Removes
  PROVE  Inv'
<1>1. gui.devices \in Seq(DeviceType)
  BY DEF Inv, TypeInv, GuiType
<1>2. \A k \in DOMAIN gui.devices : gui.devices[k] \in DeviceType
  BY <1>1, Entries
<1>3. moved \subseteq Displays
  BY DEF Inv, TypeInv
<1>4. CASE Adds
  <2>1. PICK d \in Displays :
          /\ \A k \in DOMAIN gui.devices : gui.devices[k].display # d
          /\ Changes(Append(gui.devices, Device(0, d, NoKey, 1)))
          /\ moved' = moved
    BY <1>4 DEF Adds, Unlisted
  <2> DEFINE e == Device(0, d, NoKey, 1)
  <2>2. e \in DeviceType /\ e.key = NoKey /\ e.display = d
    BY DEF Device, DeviceType, Keys
  <2> HIDE DEF e
  <2>3. /\ Append(gui.devices, e) \in Seq(DeviceType)
        /\ Own(gui.devices, moved) => Own(Append(gui.devices, e), moved)
        /\ Single(gui.devices) => Single(Append(gui.devices, e))
    BY <2>1, <2>2, <1>1, Added
  <2>4. Changes(Append(gui.devices, e))
    BY <2>1 DEF e
  <2> QED
    BY <2>1, <2>3, <2>4, <1>3, ChangesKeeps
<1>5. CASE Edits
  <2>1. PICK k \in DOMAIN gui.devices, wake \in Methods :
          \E display \in Unlisted \cup ({gui.devices[k].display} \ {Nobody}) :
            LET d == Stored(gui.devices[k], display, wake)
            IN /\ Changes([gui.devices EXCEPT ![k] = d])
               /\ moved' = IF OwnKey(d) THEN moved ELSE moved \cup {display}
    BY <1>5, Zenon DEF Edits
  <2> DEFINE e == gui.devices[k]
  <2>2. PICK display \in Unlisted \cup ({e.display} \ {Nobody}) :
          LET d == Stored(e, display, wake)
          IN /\ Changes([gui.devices EXCEPT ![k] = d])
             /\ moved' = IF OwnKey(d) THEN moved ELSE moved \cup {display}
    BY <2>1
  <2> DEFINE d == Stored(e, display, wake)
  <2>3. d = [e EXCEPT !.display = display, !.wake = wake]
    BY DEF Stored
  <2>4. e \in DeviceType /\ display \in Displays /\ wake \in 1 .. 4
    BY <1>2, SettingsAssumption DEF Unlisted, DeviceType
  <2>5. /\ d \in DeviceType /\ d.display = display
        /\ display # e.display => \A j \in DOMAIN gui.devices : gui.devices[j].display # display
    <3>1. display # e.display => \A j \in DOMAIN gui.devices : gui.devices[j].display # display
      BY DEF Unlisted
    <3> HIDE DEF e, d
    <3>2. d \in DeviceType /\ d.display = display
      BY <2>3, <2>4 DEF DeviceType
    <3> QED
      BY <3>1, <3>2
  <2> HIDE DEF d
  <2>6. /\ moved \subseteq moved' /\ moved' \subseteq Displays
        /\ d.key \in {NoKey, d.display} \/ d.display \in moved'
    BY <2>2, <2>4, <2>5, <1>3 DEF OwnKey, d
  <2>7. Single(gui.devices) =>
          \A j \in DOMAIN gui.devices : gui.devices[j].display = d.display => j = k
    BY <2>4, <2>5, SettingsAssumption DEF Single
  <2> DEFINE ds == [gui.devices EXCEPT ![k] = d]
  <2>8. ds \in Seq(DeviceType) /\ (Own(gui.devices, moved) => Own(ds, moved'))
        /\ (Single(gui.devices) => Single(ds))
    BY <2>5, <2>6, <2>7, <1>1, Replaced
  <2> HIDE DEF ds
  <2>9. Changes(ds)
    BY <2>2 DEF ds, d
  <2> QED
    BY <2>6, <2>8, <2>9, ChangesKeeps
<1>6. CASE Toggles
  <2>1. /\ \E k \in DOMAIN gui.devices : Changes([gui.devices EXCEPT ![k].enabled = ~@])
        /\ moved' = moved
    BY <1>6 DEF Toggles
  <2> PICK k \in DOMAIN gui.devices : Changes([gui.devices EXCEPT ![k].enabled = ~@])
    BY <2>1
  <2> DEFINE d == [gui.devices[k] EXCEPT !.enabled = ~@]
  <2>2. d \in DeviceType /\ d.display = gui.devices[k].display /\ d.key = gui.devices[k].key
    <3> DEFINE e == gui.devices[k]
    <3>1. e \in DeviceType
      BY <1>2
    <3> HIDE DEF e
    <3>2. LET a == [e EXCEPT !.enabled = ~@]
          IN a \in DeviceType /\ a.display = e.display /\ a.key = e.key
      BY <3>1, EntryWith
    <3> QED
      BY <3>2 DEF e
  <2>3. [gui.devices EXCEPT ![k].enabled = ~@] = [gui.devices EXCEPT ![k] = d]
    OBVIOUS
  <2> HIDE DEF d
  <2> DEFINE ds == [gui.devices EXCEPT ![k] = d]
  <2>4. ds \in Seq(DeviceType) /\ (Own(gui.devices, moved) => Own(ds, moved))
        /\ (Single(gui.devices) => Single(ds))
    BY <2>2, <1>1, Kept
  <2>5. Changes(ds)
    BY <2>3
  <2> HIDE DEF ds
  <2> QED
    BY <2>1, <2>4, <2>5, <1>3, ChangesKeeps
<1>7. CASE Removes
  <2>1. /\ \E k \in DOMAIN gui.devices : Changes(RemoveAt(gui.devices, k))
        /\ moved' = moved
    BY <1>7 DEF Removes
  <2> PICK k \in DOMAIN gui.devices : Changes(RemoveAt(gui.devices, k))
    BY <2>1
  <2> DEFINE ds == RemoveAt(gui.devices, k)
  <2>2. ds \in Seq(DeviceType) /\ (Own(gui.devices, moved) => Own(ds, moved))
        /\ (Single(gui.devices) => Single(ds))
    BY <1>1, Removed
  <2> HIDE DEF ds
  <2>3. Changes(ds)
    BY DEF ds
  <2> QED
    BY <2>1, <2>2, <2>3, <1>3, ChangesKeeps
<1> QED
  BY <1>4, <1>5, <1>6, <1>7

LEMMA OptionsKeeps ==
  ASSUME Inv, clash' = (clash \/ Clashing'), Options
  PROVE  Inv'
<1>1. PICK t \in {5, 100}, log \in {Offered(gui.general.log), LogLevelDebug} :
        gui' = [gui EXCEPT !.general.timeout = t, !.general.log = log, !.dirty = TRUE]
  BY DEF Options
<1>2. gui.at = "open" /\ UNCHANGED <<file, unit, daemon, paired, moved>>
  BY DEF Options
<1>3. gui \in GuiType
  BY DEF Inv, TypeInv
<1> DEFINE general == [gui.general EXCEPT !.timeout = t, !.log = log]
<1>4. general \in General
  <2>1. gui.general \in General /\ t \in 5 .. 100
    BY <1>3 DEF GuiType
  <2>2. log \in Int
    BY <2>1 DEF General, Offered, LogLevelDebug
  <2> QED
    BY <2>1, <2>2 DEF General
<1>5. gui' = [gui EXCEPT !.general = general, !.dirty = TRUE]
  BY <1>1, <1>3 DEF GuiType
<1> HIDE DEF general
<1>6. /\ gui' \in GuiType /\ gui'.at = "open" /\ gui'.dirty /\ gui'.known = gui.known
      /\ gui'.devices = gui.devices
  BY <1>2, <1>3, <1>4, <1>5 DEF GuiType
<1>7. moved \subseteq Displays
  BY DEF Inv, TypeInv
<1> QED
  BY <1>2, <1>6, <1>7, ChangeKeeps

LEMMA ApplyReadsKeeps ==
  ASSUME Inv, ApplyReads, clash' = (clash \/ Clashing')
  PROVE  Inv'
<1> DEFINE ds == WithStoredKeys(file.content, gui.devices)
<1>1. /\ file.state # "torn" /\ UNCHANGED <<file, unit, daemon, paired, moved>>
      /\ gui' = [gui EXCEPT !.at = "read", !.agreed = FALSE, !.devices = ds]
  BY DEF ApplyReads
<1>2. gui \in GuiType /\ gui.devices \in Seq(DeviceType) /\ Format(file.content)
  BY DEF Inv, TypeInv, GuiType, FileRight
<1>3. /\ ds \in Seq(DeviceType) /\ DOMAIN ds = DOMAIN gui.devices
      /\ \A k \in DOMAIN gui.devices :
           /\ ds[k].display = gui.devices[k].display
           /\ ds[k].key = StoredKey(file.content, gui.devices[k])
      /\ Fits(file.content, moved) /\ Own(gui.devices, moved) => Own(ds, moved)
      /\ Single(gui.devices) => Single(ds)
  BY <1>2, KeysTaken
<1> HIDE DEF ds
<1>4. /\ gui' \in GuiType /\ gui'.at = "read" /\ ~gui'.agreed /\ gui'.devices = ds
  BY <1>1, <1>2, <1>3 DEF GuiType
<1>5. TypeInv'
  BY <1>1, <1>4 DEF Inv, TypeInv, Clashing
<1>6. ASSUME Sound(file, gui, daemon, paired, moved), Apart(gui', daemon')
      PROVE  Sound(file', gui', daemon', paired', moved')
  <2>1. /\ Follows(file, daemon) /\ OwnKeys(file, gui, daemon, moved)
        /\ \A x \in paired \cap WithMac : Safe(file, gui, daemon, x)
    BY <1>6 DEF Sound
  <2>2. OwnKeys(file, gui', daemon, moved)
    BY <2>1, <1>3, <1>4 DEF OwnKeys
  <2>3. ASSUME NEW x \in paired \cap WithMac
        PROVE  Safe(file, gui', daemon, x)
    <3>1. Safe(file, gui, daemon, x) /\ KeyIn(file.content, x)
      BY <2>1, <1>1 DEF Safe
    <3>2. ASSUME NEW k \in DOMAIN ds, ds[k].display = x
          PROVE  ds[k].key = x
      <4>1. gui.devices[k] \in DeviceType /\ gui.devices[k].display = x
        BY <3>2, <1>2, <1>3, Entries
      <4>2. StoredKey(file.content, gui.devices[k]) = x
        BY <4>1, <3>1, <2>1, <1>2, StoredKeyRight DEF OwnKeys
      <4> QED
        BY <4>2, <1>3
    <3> QED
      BY <3>1, <3>2, <1>4 DEF Safe
  <2>4. Agrees(file, gui', daemon)
    BY <1>4 DEF Agrees, Shown
  <2> QED
    BY <2>1, <2>2, <2>3, <2>4, <1>1, <1>6 DEF Sound
<1> QED
  BY <1>5, <1>6, StepKeeps

LEMMA ApplyCutsKeeps ==
  ASSUME Inv, ApplyCuts, clash' = (clash \/ Clashing')
  PROVE  Inv'
<1> DEFINE ds == Numbered(gui.devices)
<1>1. /\ gui.at = "read" /\ UNCHANGED <<unit, daemon, paired, moved>>
      /\ file' = [state |-> "torn", content |-> Empty]
      /\ gui' = [gui EXCEPT !.at = "cut", !.devices = ds]
  BY DEF ApplyCuts, Cut
<1>2. gui \in GuiType /\ gui.devices \in Seq(DeviceType)
  BY DEF Inv, TypeInv, GuiType
<1>3. /\ ds \in Seq(DeviceType) /\ DOMAIN ds = DOMAIN gui.devices
      /\ \A k \in DOMAIN gui.devices :
           ds[k].display = gui.devices[k].display /\ ds[k].key = gui.devices[k].key /\ ds[k].id = k
      /\ Own(gui.devices, moved) => Own(ds, moved)
      /\ Single(gui.devices) => Single(ds)
  BY <1>2, NumbersGiven
<1> HIDE DEF ds
<1>4. /\ gui' \in GuiType /\ gui'.at = "cut" /\ gui'.agreed = gui.agreed /\ gui'.devices = ds
  BY <1>1, <1>2, <1>3 DEF GuiType
<1>5. file'.state = "torn" /\ file'.content = Empty
  BY <1>1
<1>6. TypeInv'
  BY <1>1, <1>4, NothingRight DEF Inv, TypeInv, Clashing
<1>7. ASSUME Sound(file, gui, daemon, paired, moved), Apart(gui', daemon')
      PROVE  Sound(file', gui', daemon', paired', moved')
  <2>1. /\ OwnKeys(file, gui, daemon, moved) /\ Agrees(file, gui, daemon)
        /\ \A x \in paired \cap WithMac : Safe(file, gui, daemon, x)
    BY <1>7 DEF Sound
  <2>2. OwnKeys(file', gui', daemon, moved)
    BY <2>1, <1>3, <1>4, <1>5, NothingRight DEF OwnKeys
  <2>3. \A x \in paired \cap WithMac : Safe(file', gui', daemon, x)
    BY <2>1, <1>1, <1>3, <1>4, <1>5 DEF Safe
  <2>4. daemon.pairing.at = "none"
    BY <1>1, <1>4, <1>7 DEF Apart
  <2>5. Agrees(file', gui', daemon)
    BY <2>1, <1>1, <1>3, <1>4 DEF Agrees, Shown
  <2>6. Follows(file', daemon)
    BY <2>4 DEF Follows
  <2> QED
    BY <2>2, <2>3, <2>5, <2>6, <1>1, <1>7 DEF Sound
<1> QED
  BY <1>6, <1>7, StepKeeps

LEMMA ApplyWritesKeeps ==
  ASSUME Inv, ApplyWrites, clash' = (clash \/ Clashing')
  PROVE  Inv'
<1> DEFINE c == Written(gui)
<1> DEFINE whole == [state |-> "whole", content |-> c]
<1> DEFINE shown == {gui.devices[k].display : k \in DOMAIN gui.devices}
<1>1. /\ gui.at = "cut" /\ UNCHANGED <<unit, daemon, moved>>
      /\ gui' = [gui EXCEPT !.at = "sync", !.dirty = FALSE, !.known = TRUE]
      /\ file' = whole \/ file' = [state |-> "torn", content |-> Empty]
      /\ paired' = paired \cap shown
  BY DEF ApplyWrites, Put, Cut
<1>2. /\ gui \in GuiType /\ gui.general \in General /\ gui.devices \in Seq(DeviceType)
      /\ paired \subseteq Displays
  BY DEF Inv, TypeInv, GuiType
<1>3. whole.state = "whole" /\ whole.content = Written(gui)
  OBVIOUS
<1> HIDE DEF whole
<1>4. /\ Format(c)
      /\ Own(gui.devices, moved) /\ Single(gui.devices) => Fits(c, moved)
      /\ DOMAIN c.devices = DOMAIN gui.devices
      /\ \A k \in DOMAIN gui.devices : /\ Name(c.devices[k]) = gui.devices[k].display
                                       /\ Key(c.devices[k]) = gui.devices[k].key
      /\ Loaded(whole).general = gui.general
      /\ (\A k \in DOMAIN gui.devices : gui.devices[k].id = k)
           => Loaded(whole).devices = gui.devices
  BY <1>2, <1>3, WrittenRight
<1>5. /\ gui' \in GuiType /\ gui'.at = "sync" /\ gui'.agreed = gui.agreed
      /\ gui'.general = gui.general /\ gui'.devices = gui.devices
  BY <1>1, <1>2 DEF GuiType
<1> HIDE DEF c, shown
<1>6. \/ file'.state = "whole" /\ file'.content = c
      \/ file'.state = "torn" /\ file'.content = Empty
  BY <1>1 DEF whole
<1>7. TypeInv'
  <2>1. FileRight(file')
    BY <1>1, <1>4, NothingRight DEF FileRight, whole
  <2> QED
    BY <2>1, <1>1, <1>5, <1>2 DEF Inv, TypeInv, Clashing
<1>8. ASSUME Sound(file, gui, daemon, paired, moved), Apart(gui', daemon')
      PROVE  Sound(file', gui', daemon', paired', moved')
  <2>1. /\ OwnKeys(file, gui, daemon, moved) /\ Agrees(file, gui, daemon) /\ Apart(gui, daemon)
        /\ \A x \in paired \cap WithMac : Safe(file, gui, daemon, x)
    BY <1>8 DEF Sound
  <2>2. daemon.pairing.at = "none"
    BY <2>1, <1>1 DEF Apart
  <2>3. OwnKeys(file', gui', daemon, moved)
    BY <2>1, <1>4, <1>5, <1>6, NothingRight DEF OwnKeys
  <2>4. ASSUME NEW x \in paired' \cap WithMac
        PROVE  Safe(file', gui', daemon, x)
    <3>1. Safe(file, gui, daemon, x) /\ \E k \in DOMAIN gui.devices : gui.devices[k].display = x
      BY <2>1, <1>1 DEF shown
    <3>2. PICK k \in DOMAIN gui.devices : gui.devices[k].display = x /\ gui.devices[k].key = x
      BY <3>1, <1>1 DEF Safe
    <3>3. KeyIn(c, x)
      BY <3>2, <1>4 DEF KeyIn, Name, Key
    <3> QED
      BY <3>3, <2>2, <1>5, <1>6 DEF Safe
  <2>5. Agrees(file', gui', daemon)
    <3>1. ~gui'.agreed
      BY <2>1, <1>1, <1>5 DEF Agrees
    <3>2. Loaded(whole).devices = gui.devices
      BY <2>1, <1>1, <1>4 DEF Agrees
    <3>3. Matches(c, gui')
      BY <3>2, <1>4, <1>5 DEF Matches, whole
    <3> QED
      BY <3>1, <3>3, <2>2, <1>5, <1>6 DEF Agrees
  <2>6. Follows(file', daemon)
    BY <2>2 DEF Follows
  <2> QED
    BY <2>3, <2>4, <2>5, <2>6, <1>1, <1>8 DEF Sound
<1> QED
  BY <1>7, <1>8, StepKeeps

LEMMA ApplyFailsKeeps ==
  ASSUME Inv, ApplyFails, clash' = (clash \/ Clashing')
  PROVE  Inv'
<1> DEFINE ds == Numbered(gui.devices)
<1>1. /\ gui.at = "read" /\ UNCHANGED <<file, unit, daemon, paired, moved>>
      /\ gui' = [gui EXCEPT !.at = "sync", !.devices = ds, !.dirty = FALSE, !.known = FALSE]
  BY DEF ApplyFails
<1>2. gui \in GuiType /\ gui.devices \in Seq(DeviceType)
  BY DEF Inv, TypeInv, GuiType
<1>3. /\ ds \in Seq(DeviceType)
      /\ Own(gui.devices, moved) => Own(ds, moved)
      /\ Single(gui.devices) => Single(ds)
  BY <1>2, NumbersGiven
<1> HIDE DEF ds
<1>4. /\ gui' \in GuiType /\ gui'.at = "sync" /\ ~gui'.known /\ gui'.agreed = gui.agreed
      /\ gui'.devices = ds
  BY <1>1, <1>2, <1>3 DEF GuiType
<1>5. TypeInv'
  BY <1>1, <1>4 DEF Inv, TypeInv, Clashing
<1>6. ASSUME Sound(file, gui, daemon, paired, moved), Apart(gui', daemon')
      PROVE  Sound(file', gui', daemon', paired', moved')
  <2>1. OwnKeys(file, gui, daemon, moved) /\ Agrees(file, gui, daemon)
    BY <1>6 DEF Sound
  <2>2. Own(gui'.devices, moved) /\ Single(gui'.devices)
    BY <2>1, <1>3, <1>4 DEF OwnKeys
  <2>3. Agrees(file, gui', daemon)
    BY <2>1, <1>1, <1>4 DEF Agrees, Shown
  <2> QED
    BY <2>2, <2>3, <1>1, <1>4, <1>6, WindowOnly
<1> QED
  BY <1>5, <1>6, StepKeeps

LEMMA SyncsKeeps ==
  ASSUME Inv, Syncs, clash' = (clash \/ Clashing')
  PROVE  Inv'
<1>1. /\ gui \in GuiType /\ FileRight(file) /\ DaemonRight(daemon) /\ unit \in BOOLEAN
  BY DEF Inv, TypeInv
<1>2. gui.at = "sync" /\ UNCHANGED <<file, paired, moved>>
  BY DEF Syncs, Declines, Installs, Disables, TriesRestart, Synced
<1>3. PICK agreed \in BOOLEAN : gui' = [gui EXCEPT !.at = "open", !.agreed = agreed]
  <2>1. (daemon.at = "down") \in BOOLEAN
    OBVIOUS
  <2> QED
    BY <2>1, Zenon DEF Syncs, Declines, Installs, Disables, TriesRestart, Synced
<1>4. /\ gui' \in GuiType /\ gui'.at = "open" /\ gui'.agreed = agreed
      /\ gui'.known = gui.known /\ gui'.dirty = gui.dirty
      /\ gui'.general = gui.general /\ gui'.devices = gui.devices
  BY <1>1, <1>3 DEF GuiType
<1>5. unit' \in BOOLEAN
  BY <1>1 DEF Syncs, Declines, Installs, Disables, TriesRestart
<1>6. daemon' \in {daemon, Running, Down}
  BY DEF Syncs, Declines, Installs, Disables, TriesRestart
<1>7. gui'.agreed /\ daemon'.at = "up" => daemon' = Running
  <2>1. CASE Declines
    BY <2>1, <1>1 DEF Declines, Synced, GuiType
  <2>2. CASE Installs
    <3>1. gui'.agreed = (daemon.at = "down")
      BY <2>2, <1>1 DEF Installs, Synced, GuiType
    <3> QED
      BY <3>1, <2>2 DEF Installs
  <2>3. CASE Disables
    BY <2>3 DEF Disables, Down
  <2>4. CASE TriesRestart
    BY <2>4 DEF TriesRestart
  <2> QED
    BY <2>1, <2>2, <2>3, <2>4 DEF Syncs
<1>8. /\ DaemonRight(Running) /\ Running.pairing = NoPairing
      /\ Running.at = "up" => file.state # "torn" /\ Running.devices = Loaded(file).devices
  BY <1>1, RunningRight
<1>9. Down.pairing = NoPairing /\ Down.at = "down" /\ DaemonRight(Down)
  BY NothingRight DEF Down
<1>10. TypeInv'
  BY <1>1, <1>2, <1>4, <1>5, <1>6, <1>8, <1>9 DEF Inv, TypeInv, Clashing
<1>11. ASSUME Sound(file, gui, daemon, paired, moved)
       PROVE  Sound(file', gui', daemon', paired', moved')
  <2>1. Sound(file, gui, daemon', paired, moved)
    <3>1. CASE daemon' = daemon
      BY <3>1, <1>11
    <3>2. CASE daemon' = Running
      BY <3>2, <1>1, <1>8, <1>11, DaemonOnly
    <3>3. CASE daemon' = Down
      BY <3>3, <1>1, <1>9, <1>11, DaemonOnly
    <3> QED
      BY <3>1, <3>2, <3>3, <1>6
  <2>2. gui'.agreed /\ daemon'.at = "up"
          => file.state # "torn" /\ daemon'.devices = Loaded(file).devices
    BY <1>7, <1>8
  <2> QED
    BY <2>1, <2>2, <1>1, <1>2, <1>4, SyncRight
<1> QED
  BY <1>10, <1>11, StepKeeps

\* The window is closed, or killed.
LEMMA ClosesKeeps ==
  ASSUME Inv, gui' = Closed, UNCHANGED <<file, unit, daemon, paired, moved>>,
         clash' = (clash \/ Clashing')
  PROVE  Inv'
<1>1. Closed.at = "closed" /\ Own(Closed.devices, moved) /\ Single(Closed.devices)
  BY NothingRight DEF Closed
<1>2. TypeInv'
  BY NothingRight DEF Inv, TypeInv, Clashing
<1>3. ASSUME Sound(file, gui, daemon, paired, moved), Apart(gui', daemon')
      PROVE  Sound(file', gui', daemon', paired', moved')
  <2>1. Agrees(file, Closed, daemon)
    BY <1>1 DEF Agrees, Shown
  <2> QED
    BY <2>1, <1>1, <1>3, WindowOnly
<1> QED
  BY <1>2, <1>3, StepKeeps

-----------------------------------------------------------------------------
(* The steps of the daemon.                                                 *)

\* It starts, stops, or is killed.
LEMMA RunsKeeps ==
  ASSUME Inv, daemon' = Running \/ daemon' = Down, UNCHANGED <<file, gui, unit, paired, moved>>,
         clash' = (clash \/ Clashing')
  PROVE  Inv'
<1>1. FileRight(file)
  BY DEF Inv, TypeInv
<1>2. /\ DaemonRight(Running) /\ Running.pairing = NoPairing
      /\ Running.at = "up" => file.state # "torn" /\ Running.devices = Loaded(file).devices
  BY <1>1, RunningRight
<1>3. Down.pairing = NoPairing /\ Down.at = "down" /\ DaemonRight(Down)
  BY NothingRight DEF Down
<1>4. /\ DaemonRight(daemon') /\ daemon'.pairing = NoPairing
      /\ daemon'.at = "up" => file.state # "torn" /\ daemon'.devices = Loaded(file).devices
  BY <1>2, <1>3
<1>5. TypeInv'
  BY <1>4 DEF Inv, TypeInv, Clashing
<1>6. ASSUME Sound(file, gui, daemon, paired, moved)
      PROVE  Sound(file', gui', daemon', paired', moved')
  BY <1>1, <1>4, <1>6, DaemonOnly
<1> QED
  BY <1>5, <1>6, StepKeeps

LEMMA PairReadsKeeps ==
  ASSUME Inv, PairReads, clash' = (clash \/ Clashing')
  PROVE  Inv'
<1>1. CASE file.state = "torn"
  <2>1. daemon' = Down /\ UNCHANGED <<file, gui, unit, paired, moved>>
    BY <1>1 DEF PairReads
  <2> QED
    BY <2>1, RunsKeeps
<1>2. CASE file.state # "torn"
  <2>1. /\ DaemonRight(daemon) /\ FileRight(file) /\ daemon.devices \in Seq(DeviceType)
        /\ daemon.at = "up" /\ UNCHANGED <<file, gui, unit, paired, moved>>
    BY DEF Inv, TypeInv, DaemonRight, PairReads
  <2>2. PICK k \in DOMAIN daemon.devices :
          /\ daemon.devices[k].display # Nobody
          /\ daemon' = [daemon EXCEPT
                          !.devices[k].key = daemon.devices[k].display,
                          !.pairing = [at |-> "read", index |-> k, copy |-> file.content]]
    BY <1>2 DEF PairReads
  <2> DEFINE d == daemon.devices[k]
  <2> DEFINE e == [d EXCEPT !.key = d.display]
  <2> DEFINE ds == [daemon.devices EXCEPT ![k] = e]
  <2> DEFINE pairing == [at |-> "read", index |-> k, copy |-> file.content]
  <2>3. d \in DeviceType /\ d.display \in Displays /\ d.display \in Keys
    <3>1. d \in DeviceType /\ d.display # Nobody
      BY <2>1, <2>2, Entries
    <3> QED
      BY <3>1 DEF DeviceType, Keys
  <2>4. daemon' = [at |-> "up", devices |-> ds, pairing |-> pairing]
    <3>1. daemon = [at |-> daemon.at, devices |-> daemon.devices, pairing |-> daemon.pairing]
      BY <2>1 DEF DaemonRight
    <3>2. [daemon.devices EXCEPT ![k].key = daemon.devices[k].display] = ds
      OBVIOUS
    <3> HIDE DEF ds, pairing
    <3>3. daemon' = [daemon EXCEPT !.devices = ds, !.pairing = pairing]
      BY <2>2, <3>2 DEF pairing
    <3> QED
      BY <3>1, <3>3, <2>1
  <2> HIDE DEF d
  <2>5. /\ e \in DeviceType /\ e.display = d.display /\ e.id = d.id
        /\ [e EXCEPT !.key = NoKey] = [d EXCEPT !.key = NoKey]
    <3> DEFINE key == d.display
    <3>1. key \in Keys
      BY <2>3
    <3> HIDE DEF key
    <3>2. LET a == [d EXCEPT !.key = key]
          IN /\ a \in DeviceType /\ a.display = d.display /\ a.id = d.id
             /\ [a EXCEPT !.key = NoKey] = [d EXCEPT !.key = NoKey]
      BY <2>3, <3>1, EntryWith
    <3> QED
      BY <3>2 DEF key
  <2> HIDE DEF e
  <2>6. /\ ds \in Seq(DeviceType) /\ DOMAIN ds = DOMAIN daemon.devices /\ ds[k] = e
        /\ WithoutKeys(ds) = WithoutKeys(daemon.devices)
    <3>1. ds \in Seq(DeviceType) /\ DOMAIN ds = DOMAIN daemon.devices
          /\ \A j \in DOMAIN daemon.devices : ds[j] = IF j = k THEN e ELSE daemon.devices[j]
      BY <2>1, <2>5
    <3> HIDE DEF ds
    <3>2. \A j \in DOMAIN daemon.devices :
            [ds[j] EXCEPT !.key = NoKey] = [daemon.devices[j] EXCEPT !.key = NoKey]
      <4> TAKE j \in DOMAIN daemon.devices
      <4>1. CASE j = k
        BY <4>1, <3>1, <2>5 DEF d
      <4>2. CASE j # k
        BY <4>2, <3>1
      <4> QED
        BY <4>1, <4>2
    <3> QED
      BY <3>1, <3>2 DEF WithoutKeys
  <2> HIDE DEF ds
  <2>7. /\ daemon'.at = "up" /\ daemon'.devices = ds /\ daemon'.pairing = pairing
        /\ daemon'.pairing.at = "read" /\ daemon'.pairing.index = k
        /\ daemon'.pairing.copy = file.content
    BY <2>4
  <2>8. DaemonRight(daemon')
    <3>1. Chosen(daemon') = e
      BY <2>6, <2>7 DEF Chosen
    <3>2. Format(file.content)
      BY <2>1 DEF FileRight
    <3> QED
      BY <2>3, <2>4, <2>5, <2>6, <2>7, <3>1, <3>2 DEF DaemonRight
  <2>9. TypeInv'
    BY <2>1, <2>8 DEF Inv, TypeInv, Clashing
  <2>10. ASSUME Sound(file, gui, daemon, paired, moved), Apart(gui', daemon')
         PROVE  Sound(file', gui', daemon', paired', moved')
    <3>1. /\ OwnKeys(file, gui, daemon, moved) /\ Agrees(file, gui, daemon)
          /\ \A x \in paired \cap WithMac : Safe(file, gui, daemon, x)
      BY <2>10 DEF Sound
    <3>2. Follows(file, daemon') /\ OwnKeys(file, gui, daemon', moved)
      BY <3>1, <2>7, <1>2 DEF Follows, OwnKeys
    <3>3. \A x \in paired \cap WithMac : Safe(file, gui, daemon', x)
      BY <3>1, <2>7, <1>2 DEF Safe
    <3>4. Agrees(file, gui, daemon')
      <4>1. Shown(gui) => file.state = "whole"
        BY <3>1, <2>1, <1>2 DEF Shown, Agrees, FileRight
      <4>2. Shown(gui) => Matches(daemon'.pairing.copy, gui)
        BY <4>1, <3>1, <2>7 DEF Agrees
      <4>3. Shown(gui) /\ gui.agreed => WithoutKeys(daemon'.devices) = WithoutKeys(gui.devices)
        BY <3>1, <2>1, <2>6, <2>7 DEF Agrees
      <4> QED
        BY <4>2, <4>3, <3>1 DEF Agrees
    <3> QED
      BY <3>2, <3>3, <3>4, <2>1, <2>10 DEF Sound
  <2> QED
    BY <2>9, <2>10, StepKeeps
<1> QED
  BY <1>1, <1>2

LEMMA PairCutsKeeps ==
  ASSUME Inv, PairCuts, clash' = (clash \/ Clashing')
  PROVE  Inv'
<1>1. /\ daemon.pairing.at = "read" /\ UNCHANGED <<gui, unit, paired, moved>>
      /\ file' = [state |-> "torn", content |-> Empty]
      /\ daemon' = [daemon EXCEPT !.pairing.at = "cut"]
  BY DEF PairCuts, Cut
<1>2. DaemonRight(daemon)
  BY DEF Inv, TypeInv
<1>3. /\ daemon' = [at |-> daemon'.at, devices |-> daemon'.devices, pairing |-> daemon'.pairing]
      /\ daemon'.pairing = [at |-> daemon'.pairing.at, index |-> daemon'.pairing.index,
                            copy |-> daemon'.pairing.copy]
      /\ daemon'.at = daemon.at /\ daemon'.devices = daemon.devices
      /\ daemon'.pairing.at = "cut" /\ daemon'.pairing.index = daemon.pairing.index
      /\ daemon'.pairing.copy = daemon.pairing.copy
  BY <1>1, <1>2 DEF DaemonRight
<1>4. Chosen(daemon') = Chosen(daemon)
  BY <1>3 DEF Chosen
<1>5. DaemonRight(daemon')
  BY <1>1, <1>2, <1>3, <1>4 DEF DaemonRight
<1>6. file'.state = "torn" /\ file'.content = Empty
  BY <1>1
<1>7. TypeInv'
  BY <1>1, <1>5, NothingRight DEF Inv, TypeInv, Clashing
<1>8. ASSUME Sound(file, gui, daemon, paired, moved), Apart(gui', daemon')
      PROVE  Sound(file', gui', daemon', paired', moved')
  <2>1. /\ OwnKeys(file, gui, daemon, moved) /\ Agrees(file, gui, daemon)
        /\ \A x \in paired \cap WithMac : Safe(file, gui, daemon, x)
    BY <1>8 DEF Sound
  <2>2. OwnKeys(file', gui, daemon', moved) /\ Follows(file', daemon')
    BY <2>1, <1>3, <1>6, NothingRight DEF OwnKeys, Follows
  <2>3. \A x \in paired \cap WithMac : Safe(file', gui, daemon', x)
    BY <2>1, <1>1, <1>3, <1>6 DEF Safe
  <2>4. Agrees(file', gui, daemon')
    BY <2>1, <1>1, <1>3, <1>6 DEF Agrees
  <2> QED
    BY <2>2, <2>3, <2>4, <1>1, <1>8 DEF Sound
<1> QED
  BY <1>7, <1>8, StepKeeps

LEMMA PairWritesKeeps ==
  ASSUME Inv, PairWrites, clash' = (clash \/ Clashing')
  PROVE  Inv'
<1> DEFINE copy == daemon.pairing.copy
<1> DEFINE x == Chosen(daemon).display
<1> DEFINE i == Chosen(daemon).id
<1> DEFINE c == Paired(copy, i, x)
<1>1. /\ daemon.pairing.at = "cut" /\ UNCHANGED <<gui, unit, moved>>
      /\ daemon' = [daemon EXCEPT !.pairing = NoPairing]
      /\ paired' = paired \cup {x}
      /\ \/ file' = [state |-> "whole", content |-> c]
         \/ file' = [state |-> "torn", content |-> Empty]
  <2>1. Subject = Chosen(daemon)
    BY DEF Subject, Chosen
  <2> QED
    BY <2>1 DEF PairWrites, Put, Cut, Paired
<1>2. /\ DaemonRight(daemon) /\ Format(copy) /\ Chosen(daemon) \in DeviceType
      /\ x \in Displays /\ i \in Nat
  <2>1. /\ DaemonRight(daemon) /\ Format(copy) /\ daemon.devices \in Seq(DeviceType)
        /\ daemon.pairing.index \in DOMAIN daemon.devices /\ x \in Displays
    BY <1>1 DEF Inv, TypeInv, DaemonRight
  <2>2. Chosen(daemon) \in DeviceType
    BY <2>1, Entries DEF Chosen
  <2> QED
    BY <2>1, <2>2 DEF DeviceType
<1>3. Format(c)
  BY <1>2, PairedFormat
<1>4. /\ daemon' = [at |-> daemon.at, devices |-> daemon.devices, pairing |-> NoPairing]
      /\ daemon'.at = daemon.at /\ daemon'.devices = daemon.devices
      /\ daemon'.pairing.at = "none" /\ daemon'.pairing.copy = Empty
  BY <1>1, <1>2 DEF DaemonRight, NoPairing
<1>5. DaemonRight(daemon')
  BY <1>2, <1>4, NothingRight DEF DaemonRight, NoPairing
<1> HIDE DEF c, x, i
<1>6. \/ file'.state = "whole" /\ file'.content = c
      \/ file'.state = "torn" /\ file'.content = Empty
  BY <1>1
<1>7. TypeInv'
  <2>1. FileRight(file')
    BY <1>1, <1>3, NothingRight DEF FileRight
  <2> QED
    BY <2>1, <1>1, <1>2, <1>5 DEF Inv, TypeInv, Clashing
<1>8. ASSUME Sound(file, gui, daemon, paired, moved), Apart(gui', daemon')
      PROVE  Sound(file', gui', daemon', paired', moved')
  <2>1. /\ OwnKeys(file, gui, daemon, moved) /\ Agrees(file, gui, daemon) /\ Apart(gui, daemon)
        /\ \A y \in paired \cap WithMac : Safe(file, gui, daemon, y)
    BY <1>8 DEF Sound
  <2>2. gui.at \notin {"read", "cut"} /\ i \in DOMAIN copy.devices /\ Name(copy.devices[i]) = x
    BY <2>1, <1>1 DEF Apart, i, x
  <2>3. /\ Fits(copy, moved) => Fits(c, moved)
        /\ KeyIn(c, x)
        /\ \A y \in Displays : KeyIn(copy, y) => KeyIn(c, y)
        /\ \A g : Matches(copy, g) => Matches(c, g)
    BY <2>2, <1>2, PairedRight DEF c
  <2>4. OwnKeys(file', gui, daemon', moved) /\ Follows(file', daemon')
    BY <2>1, <2>3, <1>4, <1>6, NothingRight DEF OwnKeys, Follows
  <2>5. ASSUME NEW y \in paired' \cap WithMac
        PROVE  Safe(file', gui, daemon', y)
    <3>1. KeyIn(c, y)
      <4>1. CASE y = x
        BY <4>1, <2>3
      <4>2. CASE y # x
        <5>1. KeyIn(copy, y) /\ y \in Displays
          BY <4>2, <2>1, <1>1, SettingsAssumption DEF Safe
        <5> QED
          BY <5>1, <2>3
      <4> QED
        BY <4>1, <4>2
    <3> QED
      BY <3>1, <2>2, <1>4, <1>6 DEF Safe
  <2>6. Agrees(file', gui, daemon')
    <3>1. Shown(gui) => Matches(c, gui)
      BY <2>1, <2>3, <1>1 DEF Agrees
    <3>2. gui.agreed /\ Shown(gui) /\ daemon'.at = "up"
            => WithoutKeys(daemon'.devices) = WithoutKeys(gui.devices)
      BY <2>1, <1>4 DEF Agrees
    <3> QED
      BY <3>1, <3>2, <2>1, <2>2, <1>4, <1>6 DEF Agrees
  <2> QED
    BY <2>4, <2>5, <2>6, <1>1, <1>8 DEF Sound
<1> QED
  BY <1>7, <1>8, StepKeeps

LEMMA PairFailsKeeps ==
  ASSUME Inv, PairFails, clash' = (clash \/ Clashing')
  PROVE  Inv'
<1>1. /\ daemon.pairing.at = "read" /\ UNCHANGED <<file, gui, unit, paired, moved>>
      /\ daemon' = [daemon EXCEPT !.pairing = NoPairing]
  BY DEF PairFails
<1>2. DaemonRight(daemon)
  BY DEF Inv, TypeInv
<1>3. /\ daemon' = [at |-> daemon.at, devices |-> daemon.devices, pairing |-> NoPairing]
      /\ daemon'.at = daemon.at /\ daemon'.devices = daemon.devices
      /\ daemon'.pairing.at = "none" /\ daemon'.pairing.copy = Empty
  BY <1>1, <1>2 DEF DaemonRight, NoPairing
<1>4. DaemonRight(daemon')
  BY <1>2, <1>3, NothingRight DEF DaemonRight, NoPairing
<1>5. TypeInv'
  BY <1>1, <1>4 DEF Inv, TypeInv, Clashing
<1>6. ASSUME Sound(file, gui, daemon, paired, moved), Apart(gui', daemon')
      PROVE  Sound(file', gui', daemon', paired', moved')
  <2>1. /\ OwnKeys(file, gui, daemon, moved) /\ Agrees(file, gui, daemon)
        /\ \A x \in paired \cap WithMac : Safe(file, gui, daemon, x)
    BY <1>6 DEF Sound
  <2>2. OwnKeys(file, gui, daemon', moved) /\ Follows(file, daemon')
    BY <2>1, <1>3, NothingRight DEF OwnKeys, Follows
  <2>3. \A x \in paired \cap WithMac : Safe(file, gui, daemon', x)
    BY <2>1, <1>3 DEF Safe
  <2>4. Agrees(file, gui, daemon')
    BY <2>1, <1>3 DEF Agrees
  <2> QED
    BY <2>2, <2>3, <2>4, <1>1, <1>6 DEF Sound
<1> QED
  BY <1>5, <1>6, StepKeeps

-----------------------------------------------------------------------------
(* The theorems.                                                            *)

LEMMA InitRight == Init => Inv
<1> SUFFICES ASSUME Init
             PROVE  Inv
  OBVIOUS
<1>1. /\ gui = Closed /\ daemon = Down /\ unit \in BOOLEAN /\ clash = FALSE
      /\ moved = {} /\ paired = {d \in Displays : KeyIn(file.content, d)}
      /\ \/ \E c \in Files : file = [state |-> "whole", content |-> c]
         \/ file = [state |-> "missing", content |-> Empty]
  BY DEF Init
<1>2. FileRight(file) /\ Fits(file.content, moved)
  <2>1. CASE \E c \in Files : file = [state |-> "whole", content |-> c]
    <3>1. PICK c \in Files : file = [state |-> "whole", content |-> c]
      BY <2>1
    <3>2. Format(c) /\ Fits(c, moved)
      BY FilesAssumption DEF Keyed, Fits, Name, Key
    <3> QED
      BY <3>1, <3>2 DEF FileRight
  <2>2. CASE file = [state |-> "missing", content |-> Empty]
    BY <2>2, NothingRight
  <2> QED
    BY <2>1, <2>2, <1>1
<1>3. TypeInv
  BY <1>1, <1>2, NothingRight DEF TypeInv
<1>4. /\ gui.at = "closed" /\ Own(gui.devices, moved) /\ Single(gui.devices)
      /\ daemon.pairing.at = "none" /\ daemon.pairing.copy = Empty
  BY <1>1, NothingRight DEF Closed, Down, NoPairing
<1>5. Apart(gui, daemon) /\ Follows(file, daemon) /\ OwnKeys(file, gui, daemon, moved)
  BY <1>2, <1>4, NothingRight DEF Apart, Follows, OwnKeys
<1>6. \A x \in paired \cap WithMac : Safe(file, gui, daemon, x)
  BY <1>1, <1>4 DEF Safe
<1>7. Agrees(file, gui, daemon)
  BY <1>4 DEF Agrees, Shown
<1> QED
  BY <1>3, <1>5, <1>6, <1>7 DEF Inv, Sound

LEMMA NextRight == Inv /\ [Next]_vars => Inv'
<1> SUFFICES ASSUME Inv, [Next]_vars
             PROVE  Inv'
  OBVIOUS
<1>1. CASE UNCHANGED vars
  BY <1>1 DEF vars, Inv, TypeInv
<1>2. CASE Next
  <2>1. clash' = (clash \/ Clashing')
    BY <1>2 DEF Next
  <2>2. CASE Window
    <3>1. CASE Closes
      BY <3>1, <2>1, ClosesKeeps DEF Closes
    <3> QED
      BY <2>1, <2>2, <3>1, OpensKeeps, EditKeeps, OptionsKeeps, ApplyReadsKeeps,
         ApplyCutsKeeps, ApplyWritesKeeps, ApplyFailsKeeps, SyncsKeeps DEF Window
  <2>3. CASE Pairs
    <3>1. CASE Starts
      BY <3>1, <2>1, RunsKeeps DEF Starts
    <3>2. CASE Stops
      BY <3>2, <2>1, RunsKeeps DEF Stops
    <3> QED
      BY <2>1, <2>3, <3>1, <3>2, PairReadsKeeps, PairCutsKeeps, PairWritesKeeps,
         PairFailsKeeps DEF Pairs
  <2>4. CASE Dies
    <3>1. CASE gui' = Closed /\ UNCHANGED daemon
      BY <3>1, <2>1, <2>4, ClosesKeeps DEF Dies
    <3>2. CASE daemon' = Down /\ UNCHANGED gui
      BY <3>2, <2>1, <2>4, RunsKeeps DEF Dies
    <3> QED
      BY <2>4, <3>1, <3>2 DEF Dies
  <2> QED
    BY <1>2, <2>2, <2>3, <2>4 DEF Next
<1> QED
  BY <1>1, <1>2

LEMMA Always == Spec => []Inv
  BY InitRight, NextRight, PTL DEF Spec

\* The timeout, the idle delay, and the wake method and input of each display, are within
\* their limits in both programs, whatever numbers the file had and whatever was killed or
\* clashed. The log level, the updater mode and the shutdown timing, which the reader takes
\* as they are, are numbers.
THEOREM SettingsWithinLimits == Spec => []TypeOK
<1>1. Inv => TypeOK
  BY DEF Inv, TypeInv, TypeOK, FileRight, GuiType, DaemonRight
<1> QED
  BY <1>1, Always, PTL

\* No display's entry has the key of another, unless the user made another's entry, with
\* the key in it, that of this display: writeToDisk takes the keys from the file by address,
\* setSessionKey changes the entry that has the display's name.
THEOREM KeysAreOfTheirDisplays == Spec => []KeyOfItsDisplay
<1>1. Inv => KeyOfItsDisplay
  BY DEF Inv, Sound, OwnKeys, Fits, Name, Key, KeyOfItsDisplay
<1> QED
  BY <1>1, Always, PTL

\* The key of a display with a MAC address that the settings still name is in the file,
\* whatever the window showed when it wrote.
THEOREM StoredKeysStay == Spec => []KeysKept
<1>1. Inv => KeysKept
  BY DEF Inv, Sound, Safe, KeysKept
<1> QED
  BY <1>1, Always, PTL

\* What the window has applied is what a daemon that starts reads, and what one that runs
\* has, if the user let the window bring it up to date; unless the file could not be opened,
\* of which the window says nothing.
THEOREM AppliedSettingsAreLoaded == Spec => []AppliedIsLoaded
<1>1. Inv => AppliedIsLoaded
  <2> SUFFICES ASSUME Inv, gui.at \in {"open", "sync"}, gui.known, ~gui.dirty,
                      file.state = "whole", ~clash
               PROVE  /\ Loaded(file).general = gui.general
                      /\ WithoutKeys(Loaded(file).devices) = WithoutKeys(gui.devices)
                      /\ gui.agreed /\ daemon.at = "up"
                           => WithoutKeys(daemon.devices) = WithoutKeys(gui.devices)
    BY DEF AppliedIsLoaded
  <2>1. file = [state |-> "whole", content |-> file.content]
    BY DEF Inv, TypeInv, FileRight
  <2>2. Shown(gui) /\ Agrees(file, gui, daemon)
    BY DEF Inv, Sound, Shown
  <2>3. Matches(file.content, gui)
    BY <2>2 DEF Agrees
  <2> QED
    BY <2>1, <2>2, <2>3 DEF Matches, Agrees
<1> QED
  BY <1>1, Always, PTL

================================================================================
