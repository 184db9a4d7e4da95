----------------------------- MODULE MCPluginABI -----------------------------
(***************************************************************************)
(* Model-checking instances of PluginABI.                                  *)
(***************************************************************************)
EXTENDS PluginABI, TLC

Blocking    == [onError |-> "block", blockRules |-> FALSE, logged |-> TRUE]
Passthrough == [onError |-> "passthrough", blockRules |-> FALSE, logged |-> TRUE]
BothConfigs == {Blocking, Passthrough}
OnlyBlocking == {Blocking}
OnlyPassthrough == {Passthrough}

Symmetry == Permutations(Threads) \cup Permutations(RequestIDs)
=============================================================================
