----------------------------- MODULE MCApiKeys -----------------------------
(* A key of one slot and one point, and what its owner may change. *)
EXTENDS ApiKeys, TLC

Fresh == [deleted |-> FALSE, enabled |-> TRUE, limit |-> 2, expireAt |-> Never,
          quota |-> 1, used |-> 0]

AChange(column, values) == {[column |-> column, value |-> v] : v \in values}

OwnersChanges ==
  AChange("enabled", BOOLEAN) \cup AChange("quota", {2})
    \cup AChange("expireAt", {1})

Interchangeable ==
  Permutations(Requests) \cup Permutations(Servers) \cup Permutations(Editors)
=============================================================================
