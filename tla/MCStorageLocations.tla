------------------------- MODULE MCStorageLocations -------------------------
EXTENDS StorageLocations

(* Only a second entry is unnamed; it becomes <dpa>-2. *)
MCDefaultName(i) == "d2"

Velero(n) == [name |-> n, kind |-> "velero"]
Cloud(n) == [name |-> n, kind |-> "cloud"]

(* Two inline locations, in both orders and with default names.  Every     *)
(* list of a DPA's snapshotLocations is of this form.                      *)
InlineLists == {<<Velero("a")>>, <<Velero("a"), Velero("b")>>, <<Velero("b"), Velero("")>>}

(* A location that is replaced by one of a CloudStorage, one that changes  *)
(* its kind, and a name given twice.                                       *)
MixedLists == {<<Velero("a"), Cloud("c")>>, <<Cloud("a"), Velero("b")>>,
               <<Velero("a"), Velero("a")>>}

AnyLists == InlineLists \cup MixedLists
=============================================================================
