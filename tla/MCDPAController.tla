-------------------------- MODULE MCDPAController --------------------------
(***************************************************************************)
(* DPAController with one reconcile function of each class: the validator, *)
(* which manages no object; the Velero deployment (labelled, generations); *)
(* the node-agent ConfigMap (labelled, no generations).                    *)
(***************************************************************************)
EXTENDS DPAController

BatchA == <<"Validate", "Velero", "NodeAgentCM">>

(* "full" enables the ConfigMap and changes the Velero deployment. *)
MCDesired(f, s) ==
    CASE f = "Validate" -> "absent"
      [] f = "Velero"   -> IF s = "full" THEN "two" ELSE "one"
      [] OTHER          -> IF s = "full" THEN "one" ELSE "absent"

MCRejects(f, s) == f = "Validate" /\ s = "invalid"
=============================================================================
