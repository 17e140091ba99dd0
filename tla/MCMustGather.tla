---------------------------- MODULE MCMustGather ----------------------------
(***************************************************************************)
(* Clusters for the must-gather tool: one healthy object of every kind (no *)
(* Restore, no DownloadRequest), but for one kind, or for the Backups and *)
(* one of the kinds whose sections or requests depend on them.             *)
(***************************************************************************)
EXTENDS MustGather

MCNames == {<<"x">>, <<"y">>}

\* The phases an object of each kind can have; of the kinds without a section
\* of their own, what the program tells apart.
MCPhases ==
    [k \in Kinds |->
        CASE k \in Tabled -> Phases(k)
          [] k = "ClusterVersion" -> {"4.19", "4.18", "unparsable"}
          [] k = "Infrastructure" -> {"AWS", ""}
          [] k = "Node" -> {"linux"}
          [] k = "ClusterServiceVersion" ->
                 {"OADP Operator", "related", "community", "other"}
          [] OTHER -> {""}]

Extras ==
    [k \in Kinds |->
        CASE k = "ClusterServiceVersion" -> {"", "old"}
          [] k = "DataProtectionApplication" -> {"", "overrides"}
          [] k = "DataProtectionTest" -> {"", "no metadata"}
          [] k = "NonAdminBackupStorageLocation" -> {"", "no approval"}
          [] OTHER -> {""}]

Healthy ==
    [k \in Kinds |->
        LET fine == {"4.19", "AWS", "linux", "OADP Operator", "True", "Complete",
                     "Available", "Completed", "Enabled", "Ready", "Processed",
                     "Approved", "Created"} \cap MCPhases[k]
        IN IF fine = {} THEN "" ELSE CHOOSE p \in fine : TRUE]

Object(n, name, phase, extra) ==
    [ns |-> n, name |-> name, phase |-> phase, extra |-> extra]

\* One healthy object under each of `names` in namespace n1.
Sound(k, names) == {Object("n1", n, Healthy[k], "") : n \in names}

Usual(k) ==
    [listable |-> TRUE, writable |-> TRUE,
     objects |-> CASE k \in {"version", "summary", "Restore", "DownloadRequest"} -> {}
                   [] k = "CustomResourceDefinition" -> Sound(k, MCNames)
                   [] OTHER -> Sound(k, {<<"x">>})]

\* None, one object in any phase, or that object beside a healthy one in the
\* other namespace; a list that fails; a file that cannot be written.
Odd(k, phases) ==
    LET any == {Object("n1", <<"x">>, p, e) : p \in phases, e \in Extras[k]}
        beside == Object("n2", <<"y">>, Healthy[k], "")
    IN [listable : {TRUE}, writable : {TRUE},
        objects : {{}} \cup {{o} : o \in any}
                  \cup (IF k \in Tabled THEN {{o, beside} : o \in any} ELSE {})]
       \cup {[Usual(k) EXCEPT !.listable = FALSE],
             [Usual(k) EXCEPT !.writable = FALSE]}

Base == [k \in Kinds |-> Usual(k)]
Interacting == {"CloudStorage", "DownloadRequest"}

MCCluster ==
    {Base}
    \cup UNION {{[Base EXCEPT ![k] = c] : c \in Odd(k, MCPhases[k])} :
                 k \in Kinds}
    \cup UNION {{[Base EXCEPT ![k] = c, !["Backup"] = d] :
                    c \in Odd(k, MCPhases[k]),
                    d \in Odd("Backup", {"Completed", "Failed"})} :
                 k \in Interacting}
=============================================================================
