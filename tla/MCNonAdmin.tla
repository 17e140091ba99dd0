----------------------------- MODULE MCNonAdmin -----------------------------
(* NonAdmin in two namespaces; the configurations differ in one respect at *)
(* a time from an enabled NAC with default velero.args.                    *)
EXTENDS NonAdmin

MCNamespaces == {"a", "b"}

MCConf(e, o, g) == [enable |-> e, other |-> o, args |-> g]

MCConfs ==
    [n \in MCNamespaces |->
        {MCConf("unset", 0, "default"), MCConf("on", 0, "default")} \cup
        IF n = "a" THEN {MCConf("on", 0, "period"), MCConf("on", 1, "none")} ELSE {MCConf("off", 0, "default")}]

=============================================================================
