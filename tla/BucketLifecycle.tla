-------------------------- MODULE BucketLifecycle --------------------------
(***************************************************************************)
(* What the CloudStorage controller promises, without informers, queues or *)
(* failures: a bucket is made only for a CloudStorage (CR) that holds the  *)
(* bucket-protection finalizer, it is removed only while the CR is being   *)
(* deleted, and such a CR goes only once the bucket is gone.               *)
(***************************************************************************)
VARIABLES
    life,     \* of the CR: "gone", "bare", "protected" or "deleting"
    bucket    \* "none", "foreign" (it was there before) or "ours"

vars == <<life, bucket>>

Init == life = "gone" /\ bucket \in {"none", "foreign"}

Request == life = "gone" /\ life' = "bare" /\ UNCHANGED bucket

(* The finalizer is added. *)
Protect == life = "bare" /\ life' = "protected" /\ UNCHANGED bucket

(* A user deletes the CR; only the finalizer keeps it. *)
Delete ==
    /\ \/ life = "bare" /\ life' = "gone"
       \/ life = "protected" /\ life' = "deleting"
    /\ UNCHANGED bucket

MakeBucket ==
    /\ life \in {"protected", "deleting"}
    /\ bucket = "none" /\ bucket' = "ours"
    /\ UNCHANGED life

RemoveBucket ==
    /\ life = "deleting"
    /\ bucket # "none" /\ bucket' = "none"
    /\ UNCHANGED life

(* The finalizer is removed and the CR goes. *)
Release ==
    /\ life = "deleting" /\ bucket = "none"
    /\ life' = "gone"
    /\ UNCHANGED bucket

Next == Request \/ Protect \/ Delete \/ MakeBucket \/ RemoveBucket \/ Release

Spec == Init /\ [][Next]_vars
=============================================================================
