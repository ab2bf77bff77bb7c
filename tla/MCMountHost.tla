------------------------------ MODULE MCMountHost ------------------------------
(***************************************************************************)
(* Instances of MountHost for TLC.                                         *)
(***************************************************************************)
EXTENDS MountHost

CONSTANTS h1, h2

TwoHosts == {h1, h2}
OneHost == {h1}
TwoLetters == {1, 2}
NoConsole == {{}}
SomeConsole == {{}, {h2}}

\* Everything a host survives without losing the meaning of the clean flag.
SafeFaults == {"crash", "ctrl_c", "unlock", "unit", "mark_dirty", "state",
               "sync", "refused", "slow_letter", "letter_timeout"}

\* Sessions whose volume gets its letter in time, beside a drive that holds
\* the preferred one.
LiveFaults == {"other", "arrival", "ctrl_c", "refused", "unlock", "unit", "mark_dirty", "dispatcher"}

\* A drive that comes while ours still has no letter.
SlowFaults == {"other", "arrival", "slow_letter", "refused"}

DispatcherFaults == {"crash", "dispatcher"}

HostFaults == {SafeFaults, LiveFaults, SlowFaults}
OneFaults == {DispatcherFaults}

=============================================================================
