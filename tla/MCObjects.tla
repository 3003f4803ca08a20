----------------------------- MODULE MCObjects -----------------------------
(***************************************************************************)
(* Instances of ObjectCache and UnitHealth for TLC: which objects the      *)
(* client knows and where, and which of them it takes for alive.  A        *)
(* behaviour of this module is one of either, chosen initially, while the  *)
(* variables of the other keep their initial values.                       *)
(***************************************************************************)
EXTENDS MCObjectCache, UnitHealth

CONSTANTS hero, wolf

VARIABLE system   \* the module whose behaviour this is

ObjectsInit ==
  /\ system \in {"cache", "health"}
  /\ Init
  /\ HealthInit
  /\ system = "health" => me = 2

CacheStep == system = "cache" /\ Next /\ UNCHANGED <<system, healthVars>>
HealthStep == system = "health" /\ HealthNext /\ UNCHANGED <<system, vars>>

ObjectsSpec == ObjectsInit /\ [][CacheStep \/ HealthStep]_<<system, vars, healthVars>>

==============================================================================
