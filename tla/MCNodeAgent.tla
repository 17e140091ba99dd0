---------------------------- MODULE MCNodeAgent ----------------------------
(* Specs that enable and disable the agent and change, add and drop the    *)
(* settings of its ConfigMap, the one that the DaemonSet depends on.  The  *)
(* backup repository's is made at the start, the third never asked for.    *)
EXTENDS NodeAgent

SpecOf(on, agent, repository, maintenance) ==
    [on |-> on, agent |-> agent, repository |-> repository, maintenance |-> maintenance]

MCSpecs ==
    {SpecOf(TRUE, "x", "x", "none"), SpecOf(TRUE, "y", "x", "none"),
     SpecOf(TRUE, "none", "x", "none"), SpecOf(FALSE, "x", "x", "none")}
=============================================================================
