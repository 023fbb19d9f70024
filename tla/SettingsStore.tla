--------------------------- MODULE SettingsStore ---------------------------
(***************************************************************************)
(* What config_manager keeps of the settings of a module: they change by   *)
(* one valid value at a time, from nothing to the defaults, and otherwise  *)
(* stay what they are over restarts, but for a write that fails or is cut  *)
(* off, which may leave the beginning of what it was to write.             *)
(***************************************************************************)
EXTENDS ConfigSchema

CONSTANTS Defaults, Installed

VARIABLES
  config,
  spoilt  \* a write has failed or has been cut off

Init == config = Installed /\ spoilt = FALSE

With(k, v) == [i \in DOMAIN config \cup {k} |-> IF i = k THEN v ELSE config[i]]

Seed == config = Nothing /\ config' = Defaults

Set(k, v) == config' = With(k, v)

SpoilSeed == config = Nothing /\ config' \in Torn(Defaults)

SpoilSet(k, v) == config' \in Torn(With(k, v))

Next ==
  \/ /\ UNCHANGED spoilt
     /\ Seed \/ \E k \in Keys : \E v \in Typed(Kind[k]) : Set(k, v)
  \/ /\ spoilt' = TRUE
     /\ \/ UNCHANGED config \/ SpoilSeed
        \/ \E k \in Keys : \E v \in Typed(Kind[k]) : SpoilSet(k, v)

Spec == Init /\ [][Next]_<<config, spoilt>>
=============================================================================
