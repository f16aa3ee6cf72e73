--------------------------- MODULE MCServiceModes ---------------------------
(* The constants of ServiceModes for model checking: service 1 is in the   *)
(* namespace "prod", 2 in "dev", and 3 has none.                           *)
EXTENDS ServiceModes, TLC

MCNamespaceOf == [s \in Services |-> CASE s = 1 -> "prod" [] s = 2 -> "dev" [] OTHER -> ""]

Net(v) == [f \in {"policy_mode"} |-> v]
Both(v) == [f \in {"policy_mode", "profile_mode"} |-> v]
Nothing == [f \in {} |-> "Discover"]

Batched(ss, cfg) == [tool |-> "nv_set_service_mode", services |-> ss, config |-> cfg]
Grouped(s, cfg) == [tool |-> "nv_set_group_policy_mode", services |-> {s}, config |-> cfg]

MCRequests ==
    {Batched({1, 2}, Net("Protect")), Batched({1}, Both("Discover")), Grouped(1, Net("Protect"))}

\* Every kind of request, for one call.
MCAllRequests ==
    MCRequests \cup
    {Batched({1, 2}, Nothing), Batched({2, 3}, Both("Protect")), Grouped(3, Net("Protect")),
     Batched({3}, Net("Discover"))}

Symmetry == Permutations(Calls)
=============================================================================
