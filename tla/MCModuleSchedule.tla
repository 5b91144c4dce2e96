-------------------------- MODULE MCModuleSchedule --------------------------
(* Instances of ModuleSchedule for TLC. *)
EXTENDS ModuleSchedule

CONSTANTS plain, intensive,   \* modules
          Horizon            \* bound: the time the model looks at

One    == [m \in Mods |-> 1]

\* An intensive_interval that divides the interval, one that does not, and one that
\* is the interval.
SomeIntervals == {<<2, 1>>, <<3, 2>>, <<1, 1>>}

Bounded == run_time <= Horizon
=============================================================================
