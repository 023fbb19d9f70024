-------------------------- MODULE MCConfiguration --------------------------
\* Instances of Configuration for TLC: a number and an optional message, both in
\* the file that is found.
EXTENDS Configuration

CONSTANTS module, config_ui

KindOf    == [timeout |-> "int", ping |-> "optional"]
DefaultOf == [timeout |-> Number("0")]
PlaceOf   == [ping |-> 1, timeout |-> 2]
BeginningsOf == [t \in Texts \cup Words |-> IF t = "10" THEN {"1"} ELSE {}]
OnDisk    == [timeout |-> Number("10"), ping |-> Message]
=============================================================================
