---------------------------- MODULE MCAlarmQueue ----------------------------
(***************************************************************************)
(* Instances of AlarmQueue for TLC.                                        *)
(***************************************************************************)
EXTENDS AlarmQueue

CONSTANTS f1, f2

MCFuncs == {f1}
MCFuncs2 == {f1, f2}
MCParams == {0, 1}
MCParam == {0}

=============================================================================
