----------------------------- MODULE MustGather -----------------------------
(***************************************************************************)
(* The must-gather tool (must-gather/pkg): one sequential program that     *)
(* lists the cluster's resources, turns every list into a section of the   *)
(* summary and writes the summary.  While it runs, the Velero server       *)
(* answers, answers late or expires the DownloadRequests that describing a *)
(* Backup or a Restore creates.                                            *)
(*                                                                         *)
(* A section is the set of the items its text holds: a table row, a "not   *)
(* found" line, a link.  An object is its namespace, its name, its phase   *)
(* and the one further field the program looks at.                         *)
(***************************************************************************)
EXTENDS Naturals, Sequences

CONSTANTS Names,       \* object names
          Cluster      \* the clusters the tool may meet (functions on Kinds)

VARIABLES
    cluster,    \* what the API server and the disk hold, per kind
    requests,   \* the DownloadRequests of the cluster
    gathered,   \* the lists the program holds, per kind
    section,    \* summaryTemplateReplaces
    files,      \* the files written under the output path
    todo,       \* Backups or Restores still to describe
    ns,         \* the namespace whose objects are being described
    at,         \* the function about to be called
    exit        \* "", "ok", "error" or "panic"

runVars == <<cluster, requests, gathered, section, files, todo, ns, at, exit>>

ClusterScoped == {"StorageClass", "VolumeSnapshotClass", "CSIDriver"}

Tabled == {"DataProtectionApplication", "DataProtectionTest", "CloudStorage",
           "BackupStorageLocation", "VolumeSnapshotLocation", "Backup",
           "Restore", "Schedule", "BackupRepository", "DataUpload",
           "DataDownload", "PodVolumeBackup", "PodVolumeRestore",
           "DownloadRequest", "DeleteBackupRequest", "ServerStatusRequest",
           "NonAdminBackupStorageLocationRequest",
           "NonAdminBackupStorageLocation", "NonAdminBackup",
           "NonAdminRestore", "NonAdminDownloadRequest"}

\* The two files that hold no objects stand beside the kinds, so that writing
\* them can fail too.
Kinds == {"ClusterVersion", "Infrastructure", "Node", "ClusterServiceVersion",
          "Subscription", "CustomResourceDefinition", "version", "summary"}
         \cup Tabled \cup ClusterScoped

\* The placeholders of the summary template.
Keys == {"MUST_GATHER_VERSION", "ERRORS", "CLUSTER_ID", "OCP_VERSION", "CLOUD",
         "ARCH", "CLUSTER_VERSION", "OADP_VERSIONS",
         "DATA_PROTECTION_APPLICATIONS", "DATA_PROTECTION_TESTS",
         "CLOUD_STORAGES", "BACKUP_STORAGE_LOCATIONS",
         "VOLUME_SNAPSHOT_LOCATIONS", "BACKUPS", "RESTORES", "SCHEDULES",
         "BACKUPS_REPOSITORIES", "DATA_UPLOADS", "DATA_DOWNLOADS",
         "POD_VOLUME_BACKUPS", "POD_VOLUME_RESTORES", "DOWNLOAD_REQUESTS",
         "DELETE_BACKUP_REQUESTS", "SERVER_STATUS_REQUESTS",
         "NON_ADMIN_BACKUP_STORAGE_LOCATION_REQUESTS",
         "NON_ADMIN_BACKUP_STORAGE_LOCATIONS", "NON_ADMIN_BACKUPS",
         "NON_ADMIN_RESTORES", "NON_ADMIN_DOWNLOAD_REQUESTS",
         "STORAGE_CLASSES", "VOLUME_SNAPSHOT_CLASSES", "CSI_DRIVERS",
         "CUSTOM_RESOURCE_DEFINITION"}

\* The order in which RunE calls the section functions.
Calls == <<"ClusterVersion", "GatherLists", "MustGatherVersion",
           "ClusterInformation", "OADPOperatorInstallation", "DataProtectionApplications",
           "DataProtectionTests", "CloudStorages", "BackupStorageLocations",
           "VolumeSnapshotLocations", "Backups", "Restores",
           "GatherDownloadRequests", "Schedules", "BackupRepositories",
           "DataUploads", "DataDownloads", "PodVolumeBackups",
           "PodVolumeRestores", "DownloadRequests", "DeleteBackupRequests",
           "ServerStatusRequests", "NonAdminBackupStorageLocationRequests",
           "NonAdminBackupStorageLocations", "NonAdminBackups",
           "NonAdminRestores", "NonAdminDownloadRequests", "StorageClasses",
           "VolumeSnapshotClasses", "CSIDrivers", "CustomResourceDefinitions",
           "WriteVersion", "Write", "Done">>

Index(call) == CHOOSE j \in DOMAIN Calls : Calls[j] = call
Following(call) == Calls[Index(call) + 1]

\* The phases the API server accepts for an object of each kind, beside none:
\* the enumerations of the CustomResourceDefinitions.  For a
\* DataProtectionApplication it is the status of a condition, for a
\* DataProtectionTest what its controller sets.
Phases(kind) ==
    {""} \cup
    CASE kind = "DataProtectionApplication" -> {"True", "False", "Unknown"}
      [] kind = "DataProtectionTest" -> {"InProgress", "Complete", "Failed"}
      [] kind \in {"BackupStorageLocation", "VolumeSnapshotLocation"} ->
             {"Available", "Unavailable"}
      [] kind \in {"Backup", "Restore"} ->
             {"New", "FailedValidation", "InProgress", "WaitingForPluginOperations",
              "WaitingForPluginOperationsPartiallyFailed", "Finalizing",
              "FinalizingPartiallyFailed", "Completed", "PartiallyFailed", "Failed",
              "Deleting"}
      [] kind = "Schedule" -> {"New", "Enabled", "FailedValidation"}
      [] kind = "BackupRepository" -> {"New", "Ready", "NotReady"}
      [] kind \in {"DataUpload", "DataDownload"} ->
             {"New", "Accepted", "Prepared", "InProgress", "Canceling", "Canceled",
              "Completed", "Failed"}
      [] kind \in {"PodVolumeBackup", "PodVolumeRestore"} ->
             {"New", "InProgress", "Completed", "Failed"}
      [] kind \in {"DownloadRequest", "ServerStatusRequest"} -> {"New", "Processed"}
      [] kind = "DeleteBackupRequest" -> {"New", "InProgress", "Processed"}
      [] kind = "NonAdminBackupStorageLocationRequest" ->
             {"Pending", "Approved", "Rejected"}
      [] kind \in {"NonAdminBackupStorageLocation", "NonAdminBackup",
                   "NonAdminRestore", "NonAdminDownloadRequest"} ->
             {"New", "BackingOff", "Created", "Deleting"}
      [] OTHER -> {}

\* An object the API server accepts.  Those of a kind without a section of its
\* own have any text for a phase.
Accepted(kind, o) ==
    /\ DOMAIN o = {"ns", "name", "phase", "extra"}
    /\ kind \in Tabled => o.phase \in Phases(kind)

\* Every cluster the tool may meet is one an API server can hold.
ASSUME ClusterAssumption ==
    \A c \in Cluster :
        /\ DOMAIN c = Kinds
        /\ \A k \in Kinds :
            /\ c[k].listable \in BOOLEAN
            /\ c[k].writable \in BOOLEAN
            /\ \A o \in c[k].objects : Accepted(k, o)

RunInit ==
    /\ cluster \in Cluster
    /\ requests = cluster["DownloadRequest"].objects
    /\ gathered = [k \in Kinds |-> {}]
    /\ section = [k \in Keys |-> {}]
    /\ files = {}
    /\ todo = {}
    /\ ns = ""
    /\ at = "ClusterVersion"
    /\ exit = ""

-----------------------------------------------------------------------------
(* Items of a section's text.                                              *)

Row(kind, o) == [item |-> "row", kind |-> kind, ns |-> o.ns, name |-> o.name]
Problem(kind, o) ==
    [item |-> "problem", kind |-> kind, ns |-> o.ns, name |-> o.name]
NotFound(kind) == [item |-> "none", kind |-> kind]
Header(kind) == [item |-> "header", kind |-> kind]
Link(file) == [item |-> "link", file |-> file]
Text(what) == [item |-> "text", what |-> what]

WrittenUnchecked(kind, file) == Link(file)

\* createYAML and createFile: the link they return, or the error they say.
Written(kind, file) ==
    IF cluster[kind].writable THEN Link(file) ELSE Text("unable to write")
FilesOf(kind, written) == IF cluster[kind].writable THEN written ELSE {}

NamespacesOf(objects) == {o.ns : o \in objects}
YAMLs(kind, objects) == {[kind |-> kind, ns |-> n] : n \in NamespacesOf(objects)}

\* AllResources: a list that cannot be read is left empty, the error is only
\* printed.
AllResources(kind) ==
    IF cluster[kind].listable THEN cluster[kind].objects ELSE {}

Call(name) ==
    /\ at = name
    /\ exit = ""

Return(name) ==
    /\ at' = Following(name)
    /\ UNCHANGED exit

Fail(how) ==
    /\ exit' = how
    /\ at' = "Done"

-----------------------------------------------------------------------------
(* The cluster's version, the lists and the cluster-wide sections.          *)

\* Without a readable ClusterVersion the program exits at once.
GatherClusterVersion ==
    /\ Call("ClusterVersion")
    /\ LET found == AllResources("ClusterVersion") IN
       IF found = {} \/ \E v \in found : v.phase = "unparsable"
       THEN /\ Fail("error")
            /\ UNCHANGED gathered
       ELSE /\ Return("ClusterVersion")
            /\ gathered' = [gathered EXCEPT !["ClusterVersion"] = found]
    /\ UNCHANGED <<cluster, requests, section, files, todo, ns>>

\* resourcesToGather does not hold the DownloadRequests: describing the
\* Backups and the Restores creates some first.
GatherLists ==
    /\ Call("GatherLists")
    /\ gathered' = [k \in Kinds |->
           CASE k \in {"ClusterVersion", "DownloadRequest"} -> gathered[k]
             [] k \in {"CustomResourceDefinition", "version", "summary"} -> {}
             [] OTHER -> AllResources(k)]
    /\ Return("GatherLists")
    /\ UNCHANGED <<cluster, requests, section, files, todo, ns>>

SkipDownloadRequests ==
    /\ Call("GatherDownloadRequests")
    /\ Return("GatherDownloadRequests")
    /\ UNCHANGED <<cluster, requests, gathered, section, files, todo, ns>>

GatherDownloadRequests ==
    /\ Call("GatherDownloadRequests")
    /\ gathered' = [gathered EXCEPT !["DownloadRequest"] =
           IF cluster["DownloadRequest"].listable THEN requests ELSE {}]
    /\ Return("GatherDownloadRequests")
    /\ UNCHANGED <<cluster, requests, section, files, todo, ns>>

\* A section function that only rewrites sections and files.
Replace(name, text, written) ==
    /\ Call(name)
    /\ section' = text
    /\ files' = files \cup written
    /\ Return(name)
    /\ UNCHANGED <<cluster, requests, gathered, todo, ns>>

ReplaceMustGatherVersion ==
    Replace("MustGatherVersion",
            [section EXCEPT !["MUST_GATHER_VERSION"] = {Text("version")}], {})

\* The platform of the first Infrastructure is copied as it is, empty or not.
ReplaceClusterInformationSection ==
    LET platforms == {i.phase : i \in gathered["Infrastructure"]}
        yaml == [kind |-> "ClusterVersion", ns |-> ""]
    IN Replace("ClusterInformation",
         [section EXCEPT
            !["CLUSTER_ID"] = {Text("id")},
            !["OCP_VERSION"] = {Text("OpenShift")},
            !["CLUSTER_VERSION"] = {Written("ClusterVersion", yaml)},
            !["CLOUD"] = IF platforms = {} THEN {NotFound("Infrastructure")}
                         ELSE {Text(p) : p \in platforms \ {""}},
            !["ARCH"] = IF gathered["Node"] = {} THEN {NotFound("Node")}
                        ELSE {Text(n.phase) : n \in gathered["Node"]},
            !["ERRORS"] = @ \cup {NotFound(k) : k \in
                {l \in {"Infrastructure", "Node"} : gathered[l] = {}}}],
         FilesOf("ClusterVersion", {yaml}))

\* The ClusterServiceVersions the summary is about, and the Subscriptions that
\* installed them: a Subscription's name is that of its installed CSV.
ImportantCSVs ==
    {c \in gathered["ClusterServiceVersion"] :
        c.phase \in {"OADP Operator", "related", "community"}}
ImportantSubscriptions ==
    {s \in gathered["Subscription"] : \E c \in ImportantCSVs : s.name = c.name}
FoundOADP == \E c \in ImportantCSVs : c.phase = "OADP Operator"
OldOADP ==
    /\ \E c \in ImportantCSVs : c.phase = "OADP Operator" /\ c.extra = "old"
    /\ \E v \in gathered["ClusterVersion"] : v.phase = "4.19"

ReplaceOADPOperatorInstallationSection ==
    LET csvs == YAMLs("ClusterServiceVersion", ImportantCSVs)
        subscriptions == YAMLs("Subscription", ImportantSubscriptions)
        noOADP == IF FoundOADP THEN {} ELSE {NotFound("OADP Operator")}
        links == {Written("ClusterServiceVersion", f) : f \in csvs}
                 \cup {Written("Subscription", f) : f \in subscriptions}
    IN Replace("OADPOperatorInstallation",
         [section EXCEPT
            !["OADP_VERSIONS"] =
                IF ImportantCSVs = {} THEN noOADP
                ELSE @ \cup noOADP \cup links \cup {Text("namespaces")}
                     \cup {Row("ClusterServiceVersion", c) : c \in ImportantCSVs},
            !["ERRORS"] = @ \cup noOADP
                            \cup IF OldOADP THEN {Text("old OADP")} ELSE {}],
         FilesOf("ClusterServiceVersion", csvs)
         \cup FilesOf("Subscription", subscriptions))

-----------------------------------------------------------------------------
(* The sections that tabulate the objects of one kind.  With no object the  *)
(* section is replaced by a line saying so; with some, a header and a row   *)
(* per object are appended, and one file per namespace is written.          *)

\* The text after tabulating `kind` under `key`: the objects in `problems` are
\* listed among the errors, and so is an empty list when `noneReported`.
Tabulate(kind, key, problems, noneReported) ==
    IF gathered[kind] = {}
    THEN [section EXCEPT ![key] = {NotFound(kind)},
                         !["ERRORS"] = IF noneReported THEN @ \cup {NotFound(kind)}
                                       ELSE @]
    ELSE [section EXCEPT ![key] = @ \cup {Header(kind)}
                                    \cup {Row(kind, o) : o \in gathered[kind]},
                         !["ERRORS"] = @ \cup {Problem(kind, o) : o \in problems}]

\* The objects that have no phase yet or one of the phases `failed`.
Troubled(kind, failed) == {o \in gathered[kind] : o.phase \in failed \cup {""}}

Table(name, kind, key, problems, noneReported) ==
    Replace(name, Tabulate(kind, key, problems, noneReported),
            FilesOf(kind, YAMLs(kind, gathered[kind])))

\* An object's phase is here the status of its first condition.
ReplaceDataProtectionApplicationsSection ==
    Table("DataProtectionApplications", "DataProtectionApplication",
          "DATA_PROTECTION_APPLICATIONS",
          {d \in gathered["DataProtectionApplication"] :
              d.phase # "True" \/ d.extra = "overrides"}, TRUE)

\* Status.BucketMetadata is a pointer that is followed unchecked.  No phase of
\* a test is listed among the errors.
ReplaceDataProtectionTestsSection ==
    IF \E d \in gathered["DataProtectionTest"] : d.extra = "no metadata"
    THEN /\ Call("DataProtectionTests")
         /\ Fail("panic")
         /\ UNCHANGED <<cluster, requests, gathered, section, files, todo, ns>>
    ELSE Table("DataProtectionTests", "DataProtectionTest",
               "DATA_PROTECTION_TESTS", {}, TRUE)

\* The header goes to CLOUD_STORAGES, the rows go to BACKUPS.
ReplaceCloudStoragesSection ==
    LET found == gathered["CloudStorage"] IN
    Replace("CloudStorages",
        IF found = {}
        THEN [section EXCEPT !["CLOUD_STORAGES"] = {NotFound("CloudStorage")}]
        ELSE [section EXCEPT
                !["CLOUD_STORAGES"] = @ \cup {Header("CloudStorage")},
                !["BACKUPS"] = @ \cup {Row("CloudStorage", o) : o \in found}],
        FilesOf("CloudStorage", YAMLs("CloudStorage", found)))

ReplaceBackupStorageLocationsSection ==
    Table("BackupStorageLocations", "BackupStorageLocation",
          "BACKUP_STORAGE_LOCATIONS",
          {b \in gathered["BackupStorageLocation"] : b.phase # "Available"}, TRUE)

ReplaceVolumeSnapshotLocationsSection ==
    Table("VolumeSnapshotLocations", "VolumeSnapshotLocation",
          "VOLUME_SNAPSHOT_LOCATIONS", {}, FALSE)

FailedOperation == {"Failed", "PartiallyFailed", "FinalizingPartiallyFailed",
                    "WaitingForPluginOperationsPartiallyFailed",
                    "FailedValidation"}

\* The objects described next: those of the current namespace first.
Upcoming ==
    IF \E o \in todo : o.ns = ns THEN {o \in todo : o.ns = ns} ELSE todo

\* What describing one Backup or Restore leaves behind: the DownloadRequest it
\* creates (one stands for those of the describe text and of the log), answered
\* by the server within the request timeout or not.
Stream(kind, o, answered) ==
    [ns |-> o.ns, name |-> <<kind>> \o o.name, extra |-> "",
     phase |-> IF answered THEN "Processed" ELSE ""]

Cell(kind, o, what, value) ==
    [item |-> "cell", kind |-> kind, ns |-> o.ns, name |-> o.name,
     what |-> what, value |-> value]
FileOf(kind, o, what) == [kind |-> kind, ns |-> o.ns, name |-> o.name, what |-> what]

StartOneNamespace(name, kind, key) ==
    /\ Call(name)
    /\ todo = {}
    /\ section' = IF gathered[kind] = {}
                  THEN [section EXCEPT ![key] = {NotFound(kind)}]
                  ELSE [section EXCEPT ![key] = @ \cup {Header(kind)}]
    /\ todo' = {o \in gathered[kind] : o.ns = (CHOOSE p \in gathered[kind] : TRUE).ns}
    /\ IF gathered[kind] = {} THEN Return(name) ELSE UNCHANGED <<at, exit>>
    /\ UNCHANGED <<cluster, requests, gathered, files, ns>>

\* ReplaceBackupsSection and ReplaceRestoresSection: the first step writes the
\* header, each further step describes one object, and the last object of a
\* namespace is followed by the namespace's file.
StartDescribing(name, kind, key) ==
    /\ Call(name)
    /\ todo = {}
    /\ section' = IF gathered[kind] = {}
                  THEN [section EXCEPT ![key] = {NotFound(kind)}]
                  ELSE [section EXCEPT ![key] = @ \cup {Header(kind)}]
    /\ todo' = gathered[kind]
    /\ IF gathered[kind] = {} THEN Return(name) ELSE UNCHANGED <<at, exit>>
    /\ UNCHANGED <<cluster, requests, gathered, files, ns>>

DescribeOne(name, kind, key) ==
    /\ Call(name)
    /\ \E o \in Upcoming, answered \in BOOLEAN :
        LET describe == FileOf(kind, o, "describe")
            logs == FileOf(kind, o, "logs")
            written == {describe} \cup IF answered THEN {logs} ELSE {}
            last == ~ \E p \in todo \ {o} : p.ns = o.ns
        IN
        /\ requests' = requests \cup {Stream(kind, o, answered)}
        /\ section' = [section EXCEPT
               ![key] = @ \cup {Row(kind, o),
                   Cell(kind, o, "describe", Written(kind, describe)),
                   Cell(kind, o, "logs", IF answered THEN Written(kind, logs)
                                         ELSE Text("timeout"))},
               !["ERRORS"] = @ \cup IF o \in Troubled(kind, FailedOperation)
                                    THEN {Problem(kind, o)} ELSE {}]
        /\ files' = files \cup FilesOf(kind, written
                       \cup IF last THEN YAMLs(kind, {o}) ELSE {})
        /\ ns' = o.ns
        /\ todo' = todo \ {o}
        /\ IF todo = {o} THEN Return(name) ELSE UNCHANGED <<at, exit>>
    /\ UNCHANGED <<cluster, gathered>>

ReplaceBackupsSection ==
    \/ StartDescribing("Backups", "Backup", "BACKUPS")
    \/ DescribeOne("Backups", "Backup", "BACKUPS")

ReplaceRestoresSection ==
    \/ StartDescribing("Restores", "Restore", "RESTORES")
    \/ DescribeOne("Restores", "Restore", "RESTORES")

ReplaceSchedulesSection ==
    Table("Schedules", "Schedule", "SCHEDULES",
          Troubled("Schedule", {"FailedValidation"}), FALSE)

ReplaceBackupRepositoriesSection ==
    Table("BackupRepositories", "BackupRepository", "BACKUPS_REPOSITORIES",
          Troubled("BackupRepository", {"NotReady"}), FALSE)

FailedTransfer == {"Canceling", "Canceled", "Failed"}

DataUploadsBeingCanceled ==
    Table("DataUploads", "DataUpload", "DATA_UPLOADS",
          Troubled("DataUpload", {"Canceled", "Failed"}), FALSE)

ReplaceDataUploadsSection ==
    Table("DataUploads", "DataUpload", "DATA_UPLOADS",
          Troubled("DataUpload", FailedTransfer), FALSE)

DataDownloadsAmongUploads ==
    Table("DataDownloads", "DataDownload", "DATA_UPLOADS",
          Troubled("DataDownload", FailedTransfer), FALSE)

ReplaceDataDownloadsSection ==
    Table("DataDownloads", "DataDownload", "DATA_DOWNLOADS",
          Troubled("DataDownload", FailedTransfer), FALSE)

ReplacePodVolumeBackupsSection ==
    Table("PodVolumeBackups", "PodVolumeBackup", "POD_VOLUME_BACKUPS",
          Troubled("PodVolumeBackup", {"Failed"}), FALSE)

ReplacePodVolumeRestoresSection ==
    Table("PodVolumeRestores", "PodVolumeRestore", "POD_VOLUME_RESTORES",
          Troubled("PodVolumeRestore", {"Failed"}), FALSE)

ReplaceDownloadRequestsSection ==
    Table("DownloadRequests", "DownloadRequest", "DOWNLOAD_REQUESTS",
          Troubled("DownloadRequest", {}), FALSE)

ReplaceDeleteBackupRequestsSection ==
    Table("DeleteBackupRequests", "DeleteBackupRequest", "DELETE_BACKUP_REQUESTS",
          Troubled("DeleteBackupRequest", {}), FALSE)

ReplaceServerStatusRequestsSection ==
    Table("ServerStatusRequests", "ServerStatusRequest", "SERVER_STATUS_REQUESTS",
          Troubled("ServerStatusRequest", {}), FALSE)

ReplaceNonAdminBackupStorageLocationRequestsSection ==
    Table("NonAdminBackupStorageLocationRequests",
          "NonAdminBackupStorageLocationRequest",
          "NON_ADMIN_BACKUP_STORAGE_LOCATION_REQUESTS",
          Troubled("NonAdminBackupStorageLocationRequest", {"Rejected"}), FALSE)

\* A missing approval condition is listed too, a refused one is not.
ReplaceNonAdminBackupStorageLocationsSection ==
    Table("NonAdminBackupStorageLocations", "NonAdminBackupStorageLocation",
          "NON_ADMIN_BACKUP_STORAGE_LOCATIONS",
          Troubled("NonAdminBackupStorageLocation", {"BackingOff"})
          \cup {b \in gathered["NonAdminBackupStorageLocation"] :
                   b.extra = "no approval"}, FALSE)

ReplaceNonAdminBackupsSection ==
    Table("NonAdminBackups", "NonAdminBackup", "NON_ADMIN_BACKUPS",
          Troubled("NonAdminBackup", {"BackingOff"}), FALSE)

ReplaceNonAdminRestoresSection ==
    Table("NonAdminRestores", "NonAdminRestore", "NON_ADMIN_RESTORES",
          Troubled("NonAdminRestore", {"BackingOff"}), FALSE)

ReplaceNonAdminDownloadRequestsSection ==
    Table("NonAdminDownloadRequests", "NonAdminDownloadRequest",
          "NON_ADMIN_DOWNLOAD_REQUESTS",
          Troubled("NonAdminDownloadRequest", {"BackingOff"}), FALSE)

-----------------------------------------------------------------------------
(* Cluster-scoped lists, CustomResourceDefinitions and the summary itself.  *)

\* One file for the whole list; the section is the link to it.
Available(name, kind, key) ==
    LET yaml == [kind |-> kind, ns |-> ""] IN
    IF gathered[kind] = {}
    THEN Replace(name, [section EXCEPT ![key] = {NotFound(kind)},
                                       !["ERRORS"] = @ \cup {NotFound(kind)}], {})
    ELSE Replace(name, [section EXCEPT ![key] = {Written(kind, yaml)}],
                 FilesOf(kind, {yaml}))

ReplaceAvailableStorageClassesSection ==
    Available("StorageClasses", "StorageClass", "STORAGE_CLASSES")

ReplaceAvailableVolumeSnapshotClassesSection ==
    Available("VolumeSnapshotClasses", "VolumeSnapshotClass",
              "VOLUME_SNAPSHOT_CLASSES")

ReplaceAvailableCSIDriversSection ==
    Available("CSIDrivers", "CSIDriver", "CSI_DRIVERS")

\* The program asks for its CustomResourceDefinitions by name, here the names of
\* Names, and lists those it cannot read.  It may also fail to get a client.
ReplaceCustomResourceDefinitionsSection ==
    LET kind == "CustomResourceDefinition"
        found == cluster[kind].objects
        missing == {Problem(kind, [ns |-> "", name |-> n]) :
                       n \in Names \ {o.name : o \in found}}
        noClient == {Text("no client")}
    IN IF ~ cluster[kind].listable
       THEN Replace("CustomResourceDefinitions",
                [section EXCEPT !["CUSTOM_RESOURCE_DEFINITION"] = noClient,
                                !["ERRORS"] = @ \cup noClient], {})
       ELSE Replace("CustomResourceDefinitions",
                [section EXCEPT
                    !["CUSTOM_RESOURCE_DEFINITION"] =
                        @ \cup missing \cup {Text("folder")},
                    !["ERRORS"] = @ \cup missing],
                FilesOf(kind, {[kind |-> kind, ns |-> "", name |-> o.name] :
                                  o \in found}))

WriteVersion ==
    /\ Call("WriteVersion")
    /\ IF cluster["version"].writable THEN Return("WriteVersion") ELSE Fail("error")
    /\ files' = files \cup FilesOf("version", {[kind |-> "version", ns |-> ""]})
    /\ UNCHANGED <<cluster, requests, gathered, section, todo, ns>>

\* One section without text is an error, and then there is no summary at all.
Write ==
    LET text == IF section["ERRORS"] = {}
                THEN [section EXCEPT !["ERRORS"] = {Text("No errors happened")}]
                ELSE section
    IN /\ Call("Write")
       /\ section' = text
       /\ IF (\E k \in Keys : text[k] = {}) \/ ~ cluster["summary"].writable
          THEN Fail("error") /\ UNCHANGED files
          ELSE /\ exit' = "ok"
               /\ at' = "Done"
               /\ files' = files \cup {[kind |-> "summary", ns |-> ""]}
       /\ UNCHANGED <<cluster, requests, gathered, todo, ns>>

-----------------------------------------------------------------------------
(* The Velero server, beside the program.  What it does to the requests     *)
(* once the program has listed them is not followed.                        *)

Unlisted == at \in {"Backups", "Restores", "GatherDownloadRequests"}

\* The server answers a request after the program has given up waiting.
AnswerLate ==
    /\ Unlisted
    /\ \E q \in requests :
        /\ q.phase # "Processed"
        /\ requests' = (requests \ {q}) \cup {[q EXCEPT !.phase = "Processed"]}
    /\ UNCHANGED <<cluster, gathered, section, files, todo, ns, at, exit>>

\* The server removes a processed request once its time to live is over.
Expire ==
    /\ Unlisted
    /\ \E q \in requests :
        /\ q.phase = "Processed"
        /\ requests' = requests \ {q}
    /\ UNCHANGED <<cluster, gathered, section, files, todo, ns, at, exit>>

RunE ==
    \/ GatherClusterVersion
    \/ GatherLists
    \/ ReplaceMustGatherVersion
    \/ ReplaceClusterInformationSection
    \/ ReplaceOADPOperatorInstallationSection
    \/ ReplaceDataProtectionApplicationsSection
    \/ ReplaceDataProtectionTestsSection
    \/ ReplaceCloudStoragesSection
    \/ ReplaceBackupStorageLocationsSection
    \/ ReplaceVolumeSnapshotLocationsSection
    \/ ReplaceBackupsSection
    \/ ReplaceRestoresSection
    \/ GatherDownloadRequests
    \/ ReplaceSchedulesSection
    \/ ReplaceBackupRepositoriesSection
    \/ ReplaceDataUploadsSection
    \/ ReplaceDataDownloadsSection
    \/ ReplacePodVolumeBackupsSection
    \/ ReplacePodVolumeRestoresSection
    \/ ReplaceDownloadRequestsSection
    \/ ReplaceDeleteBackupRequestsSection
    \/ ReplaceServerStatusRequestsSection
    \/ ReplaceNonAdminBackupStorageLocationRequestsSection
    \/ ReplaceNonAdminBackupStorageLocationsSection
    \/ ReplaceNonAdminBackupsSection
    \/ ReplaceNonAdminRestoresSection
    \/ ReplaceNonAdminDownloadRequestsSection
    \/ ReplaceAvailableStorageClassesSection
    \/ ReplaceAvailableVolumeSnapshotClassesSection
    \/ ReplaceAvailableCSIDriversSection
    \/ ReplaceCustomResourceDefinitionsSection
    \/ WriteVersion
    \/ Write

RunNext == RunE \/ AnswerLate \/ Expire

\* The program always runs on; the server may never answer.
RunSpec == RunInit /\ [][RunNext]_runVars /\ WF_runVars(RunE)

-----------------------------------------------------------------------------
(* Properties.                                                              *)

\* The variables have their types, and objects wait to be described only while
\* the Backups or the Restores section is being made, from that section's list.
RunTypeOK ==
    /\ cluster \in Cluster
    /\ DOMAIN gathered = Kinds
    /\ \A k \in Kinds : \A o \in gathered[k] : Accepted(k, o)
    /\ DOMAIN section = Keys
    /\ \A q \in requests : Accepted("DownloadRequest", q)
    /\ at \in {Calls[i] : i \in DOMAIN Calls}
    /\ exit \in {"", "ok", "error", "panic"}
    /\ exit # "" <=> at = "Done"
    /\ \/ todo = {}
       \/ at = "Backups" /\ todo \subseteq gathered["Backup"]
       \/ at = "Restores" /\ todo \subseteq gathered["Restore"]

\* The placeholder of the template under the heading of each kind.
SectionOf ==
    [DataProtectionApplication |-> "DATA_PROTECTION_APPLICATIONS",
     DataProtectionTest |-> "DATA_PROTECTION_TESTS",
     CloudStorage |-> "CLOUD_STORAGES",
     BackupStorageLocation |-> "BACKUP_STORAGE_LOCATIONS",
     VolumeSnapshotLocation |-> "VOLUME_SNAPSHOT_LOCATIONS",
     Backup |-> "BACKUPS",
     Restore |-> "RESTORES",
     Schedule |-> "SCHEDULES",
     BackupRepository |-> "BACKUPS_REPOSITORIES",
     DataUpload |-> "DATA_UPLOADS",
     DataDownload |-> "DATA_DOWNLOADS",
     PodVolumeBackup |-> "POD_VOLUME_BACKUPS",
     PodVolumeRestore |-> "POD_VOLUME_RESTORES",
     DownloadRequest |-> "DOWNLOAD_REQUESTS",
     DeleteBackupRequest |-> "DELETE_BACKUP_REQUESTS",
     ServerStatusRequest |-> "SERVER_STATUS_REQUESTS",
     NonAdminBackupStorageLocationRequest |->
         "NON_ADMIN_BACKUP_STORAGE_LOCATION_REQUESTS",
     NonAdminBackupStorageLocation |-> "NON_ADMIN_BACKUP_STORAGE_LOCATIONS",
     NonAdminBackup |-> "NON_ADMIN_BACKUPS",
     NonAdminRestore |-> "NON_ADMIN_RESTORES",
     NonAdminDownloadRequest |-> "NON_ADMIN_DOWNLOAD_REQUESTS"]

ListedIn(kind) ==
    \A o \in gathered[kind] : Row(kind, o) \in section[SectionOf[kind]]

\* When the summary is written, every object the program gathered has its row
\* in the section of its kind: no later function has overwritten the section,
\* none has put its rows elsewhere.  CloudStorages are the exception.
RowsComplete ==
    exit = "ok" => \A k \in Tabled \ {"CloudStorage"} : ListedIn(k)

\* The phases, of whatever kind, by which a controller says that it failed.
FailurePhases ==
    {"Failed", "PartiallyFailed", "FinalizingPartiallyFailed",
     "WaitingForPluginOperationsPartiallyFailed", "FailedValidation", "Canceling",
     "Canceled", "False", "Unavailable", "NotReady", "Rejected", "BackingOff"}

\* A written summary lists among its errors every gathered object that is in a
\* failure phase or has no phase, whichever section function met it.  Tests
\* are the exception; the kinds without a status have no phase to miss.
ProblemsReported ==
    exit = "ok" =>
        \A k \in Tabled \ {"DataProtectionTest", "CloudStorage",
                            "VolumeSnapshotLocation"} :
            \A o \in gathered[k] :
                o.phase \in FailurePhases \cup {""} =>
                    Problem(k, o) \in section["ERRORS"]

\* A request the server never answered, including those the program made itself
\* to describe the Backups and the Restores, is among the errors of a written
\* summary, unless the DownloadRequests could not be listed.
TimeoutsReported ==
    exit = "ok" /\ cluster["DownloadRequest"].listable =>
        \A q \in requests :
            q.phase = "" => Problem("DownloadRequest", q) \in section["ERRORS"]

\* Whatever cannot be written, the links createYAML and createFile return and
\* the sections show name files that exist.
LinksResolve ==
    \A k \in Keys : \A i \in section[k] :
        /\ i.item = "link" => i.file \in files
        /\ i.item = "cell" /\ i.value.item = "link" => i.value.file \in files

-----------------------------------------------------------------------------
(* The invariant that carries the properties of a written summary through  *)
(* the run.                                                                *)

Reported == Tabled \ {"DataProtectionTest", "CloudStorage", "VolumeSnapshotLocation"}

\* `objects`, some of the objects gathered of a kind, have their rows, and those
\* in trouble are among the errors.
Told(kind, objects) ==
    /\ \A o \in objects : Row(kind, o) \in section[SectionOf[kind]]
    /\ kind \in Reported =>
        \A o \in objects : o.phase \in FailurePhases \cup {""} =>
            Problem(kind, o) \in section["ERRORS"]

\* The function that makes the section of each kind, and whether it has returned.
SectionFunction ==
    [DataProtectionApplication |-> "DataProtectionApplications",
     DataProtectionTest |-> "DataProtectionTests",
     CloudStorage |-> "CloudStorages",
     BackupStorageLocation |-> "BackupStorageLocations",
     VolumeSnapshotLocation |-> "VolumeSnapshotLocations",
     Backup |-> "Backups",
     Restore |-> "Restores",
     Schedule |-> "Schedules",
     BackupRepository |-> "BackupRepositories",
     DataUpload |-> "DataUploads",
     DataDownload |-> "DataDownloads",
     PodVolumeBackup |-> "PodVolumeBackups",
     PodVolumeRestore |-> "PodVolumeRestores",
     DownloadRequest |-> "DownloadRequests",
     DeleteBackupRequest |-> "DeleteBackupRequests",
     ServerStatusRequest |-> "ServerStatusRequests",
     NonAdminBackupStorageLocationRequest |->
         "NonAdminBackupStorageLocationRequests",
     NonAdminBackupStorageLocation |-> "NonAdminBackupStorageLocations",
     NonAdminBackup |-> "NonAdminBackups",
     NonAdminRestore |-> "NonAdminRestores",
     NonAdminDownloadRequest |-> "NonAdminDownloadRequests"]

Returned(kind) == Index(at) > Index(SectionFunction[kind])

\* Unless the run has failed: the kinds whose function has returned are told; of
\* the Backups and the Restores being described, those no longer waiting are;
\* and the list of DownloadRequests, once made, stays the cluster's.
Progress ==
    /\ exit \in {"", "ok"} =>
        /\ \A k \in Tabled \ {"CloudStorage"} : Returned(k) => Told(k, gathered[k])
        /\ Index(at) > Index("GatherDownloadRequests")
            /\ cluster["DownloadRequest"].listable =>
                gathered["DownloadRequest"] = requests
    /\ at = "Backups" /\ todo # {} => Told("Backup", gathered["Backup"] \ todo)
    /\ at = "Restores" /\ todo # {} => Told("Restore", gathered["Restore"] \ todo)

RunInv == RunTypeOK /\ LinksResolve /\ Progress

-----------------------------------------------------------------------------
(* Liveness.                                                               *)

\* What the program needs of the cluster and the disk.
Usable ==
    /\ AllResources("ClusterVersion") # {}
    /\ \A v \in cluster["ClusterVersion"].objects : v.phase # "unparsable"
    /\ \A i \in AllResources("Infrastructure") : i.phase # ""
    /\ \A d \in AllResources("DataProtectionTest") : d.extra # "no metadata"
    /\ cluster["version"].writable
    /\ cluster["summary"].writable

\* On such a cluster the summary is written in the end, whatever lists cannot
\* be read, files cannot be written and requests are never answered: each
\* section function leaves a text in every placeholder it owns.
SummaryWritten == Usable => <>(exit = "ok")

=============================================================================
