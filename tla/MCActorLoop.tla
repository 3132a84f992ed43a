---------------------------- MODULE MCActorLoop ------------------------------
EXTENDS ActorLoop

CONSTANTS u, v, t1, t2

\* The root u asks for spawns (Command), cancels (Signal) and reports work, a
\* second holder v and the child t1 send commands of their own.
Kinds == {"spawn", "cancel", "work", "other", "nested"}
Sender == [k \in Kinds |-> CASE k = "other" -> v [] k = "nested" -> t1 [] OTHER -> u]
Level == [k \in Kinds |-> CASE k = "cancel" -> 3 [] k = "work" -> 0 [] OTHER -> 1]
=============================================================================
