------------------------------ MODULE MCSettings ------------------------------
(* A small instance of Settings.                                             *)
EXTENDS Settings

CONSTANTS tv1, tv2, tv3

AllDisplays == {tv1, tv2, tv3}

AddressedDisplays == {tv1, tv2}

\* A file of version 2, the settings of which have other names.
OldFile ==
    [general |-> [Version |-> 2, ExtendedLog |-> TRUE, PowerOnTimeOut |-> 1,
                  AutoUpdate |-> TRUE, IdleFullscreen |-> FALSE, TimingPreshutdown |-> TRUE],
     devices |-> <<[Name |-> tv1, HDMIinputcontrol |-> TRUE,
                    OnlyTurnOffIfCurrentHDMIInputNumberIs |-> 3],
                   [Name |-> tv2, SessionKey |-> tv2, SetHDMIInputOnResume |-> TRUE,
                    SetHDMIInputOnResumeToNumber |-> 9]>>]

\* A file of this version, with numbers that are out of range.
NewFile ==
    [general |-> [Version |-> 3, LogLevel |-> 7, PowerOnTimeOut |-> 400, UpdaterMode |-> 2,
                  BlankWhenIdleDelay |-> 0, BlankWhenIdleProcessControl |-> TRUE,
                  TimingShutdown |-> 5],
     devices |-> <<[Name |-> tv1, SessionKey |-> NoKey, WOL |-> 9, SourceHdmiInput |-> 0],
                   [Name |-> tv3, SessionKey |-> NoKey, WOL |-> 2, SourceHdmiInput |-> 2]>>]

\* A file that is not of this program.
ForeignFile == [general |-> <<>>, devices |-> <<>>]

AllFiles == {OldFile, NewFile, ForeignFile}

\* After a clash, or once the file is cut off and nobody is about to write it, no property
\* says anything any more, and neither ends.
Lasting ==
    /\ ~clash
    /\ file.state # "torn" \/ gui.at = "cut" \/ daemon.pairing.at = "cut"
================================================================================
