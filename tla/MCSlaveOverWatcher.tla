--------------------------- MODULE MCSlaveOverWatcher ---------------------------
(***************************************************************************)
(* Small contents of the setup file for TLC: each kind of file, and the    *)
(* periods 0 (not positive), 1 and 2.  Some have one size, some another.   *)
(***************************************************************************)
EXTENDS MySQLSlaveOverWatcher

Contents(kind, period, size) == [kind |-> kind, period |-> period, size |-> size]

SmallFiles ==
    {Contents(kind, 0, 1) : kind \in {"gone", "broken", "noDb"}}
        \union {Contents("noPeriod", 0, 2), Contents("period", 0, 2)}
        \union {Contents("period", period, 1) : period \in 1..2}

ShortPeriods == {Contents("period", period, 1) : period \in 1..2}
=============================================================================
