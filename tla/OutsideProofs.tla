--------------------------- MODULE OutsideProofs ---------------------------
(***************************************************************************)
(* Proofs about the two parts that stand outside the DPA's batch.  For any *)
(* number of requests, edits, failing calls and restarts the CloudStorage  *)
(* controller implements BucketLifecycle; for any cluster the must-gather  *)
(* tool tells of everything it gathered.                                   *)
(***************************************************************************)
EXTENDS CloudStorage, MustGather, TLAPS

-----------------------------------------------------------------------------
(* The must-gather tool.                                                   *)

\* The places of RunE's calls, written out: the inverse of Calls.
Place ==
    [ClusterVersion |-> 1, GatherLists |-> 2, MustGatherVersion |-> 3,
     ClusterInformation |-> 4, OADPOperatorInstallation |-> 5,
     DataProtectionApplications |-> 6, DataProtectionTests |-> 7,
     CloudStorages |-> 8, BackupStorageLocations |-> 9,
     VolumeSnapshotLocations |-> 10, Backups |-> 11, Restores |-> 12,
     GatherDownloadRequests |-> 13, Schedules |-> 14, BackupRepositories |-> 15,
     DataUploads |-> 16, DataDownloads |-> 17, PodVolumeBackups |-> 18,
     PodVolumeRestores |-> 19, DownloadRequests |-> 20,
     DeleteBackupRequests |-> 21, ServerStatusRequests |-> 22,
     NonAdminBackupStorageLocationRequests |-> 23,
     NonAdminBackupStorageLocations |-> 24, NonAdminBackups |-> 25,
     NonAdminRestores |-> 26, NonAdminDownloadRequests |-> 27,
     StorageClasses |-> 28, VolumeSnapshotClasses |-> 29, CSIDrivers |-> 30,
     CustomResourceDefinitions |-> 31, WriteVersion |-> 32, Write |-> 33,
     Done |-> 34]

CallNames == {Calls[i] : i \in DOMAIN Calls}

\* A call that may return is followed by the next one of the run, or by itself.
LEMMA NextPlace ==
    ASSUME NEW here \in 11..12, NEW next \in {here, here + 1}
    PROVE  here < 34 /\ next \in 11..13 /\ next # 34
OBVIOUS

\* The calls RunE makes are 34, and no two of them are the same function.
LEMMA CallsDistinct ==
    /\ DOMAIN Calls = 1..34
    /\ \A i \in 1..34 : Place[Calls[i]] = i
<1>1. DOMAIN Calls = 1..34
  BY DEF Calls
<1>2. ASSUME NEW i \in 1..34 PROVE Place[Calls[i]] = i
  <2>1. CASE i \in 1..12
    BY <2>1 DEF Calls, Place
  <2>2. CASE i \in 13..24
    BY <2>2 DEF Calls, Place
  <2>3. CASE i \in 25..34
    BY <2>3 DEF Calls, Place
  <2>4. QED
    BY <2>1, <2>2, <2>3
<1>3. QED
  BY <1>1, <1>2

\* So each call has one place in the order.
LEMMA Indexed ==
    /\ \A i \in 1..34 : Index(Calls[i]) = i /\ Calls[i] \in CallNames
    /\ \A c \in CallNames : Index(c) \in 1..34 /\ Calls[Index(c)] = c
<1>1. ASSUME NEW i \in 1..34 PROVE Index(Calls[i]) = i
  <2>1. \E j \in DOMAIN Calls : Calls[j] = Calls[i]
    BY CallsDistinct
  <2>2. Index(Calls[i]) \in DOMAIN Calls /\ Calls[Index(Calls[i])] = Calls[i]
    BY <2>1 DEF Index
  <2>3. QED
    BY <2>2, CallsDistinct
<1>2. QED
  BY <1>1, CallsDistinct DEF CallNames

\* Where the calls the proofs speak of stand.
LEMMA Places ==
    /\ Index("ClusterVersion") = 1
    /\ Index("GatherLists") = 2
    /\ Index("MustGatherVersion") = 3
    /\ Index("ClusterInformation") = 4
    /\ Index("OADPOperatorInstallation") = 5
    /\ Index("CloudStorages") = 8
    /\ Index("Backups") = 11
    /\ Index("Restores") = 12
    /\ Index("GatherDownloadRequests") = 13
    /\ Index("DownloadRequests") = 20
    /\ Index("StorageClasses") = 28
    /\ Index("VolumeSnapshotClasses") = 29
    /\ Index("CSIDrivers") = 30
    /\ Index("CustomResourceDefinitions") = 31
    /\ Index("WriteVersion") = 32
    /\ Index("Write") = 33
    /\ Index("Done") = 34
<1>1. /\ Calls[1] = "ClusterVersion"
      /\ Calls[2] = "GatherLists"
      /\ Calls[3] = "MustGatherVersion"
      /\ Calls[4] = "ClusterInformation"
      /\ Calls[5] = "OADPOperatorInstallation"
      /\ Calls[8] = "CloudStorages"
      /\ Calls[11] = "Backups"
      /\ Calls[12] = "Restores"
      /\ Calls[13] = "GatherDownloadRequests"
      /\ Calls[20] = "DownloadRequests"
      /\ Calls[28] = "StorageClasses"
      /\ Calls[29] = "VolumeSnapshotClasses"
      /\ Calls[30] = "CSIDrivers"
      /\ Calls[31] = "CustomResourceDefinitions"
      /\ Calls[32] = "WriteVersion"
      /\ Calls[33] = "Write"
      /\ Calls[34] = "Done"
  BY DEF Calls
<1>2. QED
  BY <1>1, Indexed

\* The sections of two kinds are never one placeholder, none is the list of
\* errors, and each kind has a function of its own, none before the lists and the
\* three sections about the whole cluster.
LEMMA SectionsApart ==
    /\ \A k \in Tabled : SectionOf[k] \in Keys \ {"ERRORS"}
    /\ \A k \in Tabled : SectionFunction[k] \in CallNames
    /\ \A k \in Tabled : Index(SectionFunction[k]) \in 6..27 \ {13}
    /\ \A k, l \in Tabled : SectionOf[k] = SectionOf[l] => k = l
    /\ \A k, l \in Tabled : SectionFunction[k] = SectionFunction[l] => k = l
<1>1. \A k \in Tabled : SectionOf[k] \in Keys \ {"ERRORS"}
  BY DEF Tabled, SectionOf, Keys
<1>2. \A k, l \in Tabled : SectionOf[k] = SectionOf[l] => k = l
  BY DEF Tabled, SectionOf
<1>3. \A k, l \in Tabled : SectionFunction[k] = SectionFunction[l] => k = l
  BY DEF Tabled, SectionFunction
<1>4. ASSUME NEW k \in Tabled
      PROVE  \E i \in 6..27 \ {13} : SectionFunction[k] = Calls[i]
  BY DEF Tabled, SectionFunction, Calls
<1>5. QED
  BY <1>1, <1>2, <1>3, <1>4, Indexed

\* The run goes on with the next call.
LEMMA NextCall ==
    ASSUME NEW name \in CallNames, Index(name) < 34, Return(name)
    PROVE  /\ at' \in CallNames
           /\ Index(at') = Index(name) + 1
           /\ exit' = exit
<1>1. Index(name) \in 1..33 /\ at' = Calls[Index(name) + 1]
  BY Indexed DEF Return, Following
<1>2. QED
  BY <1>1, Indexed DEF Return

\* What the program may make of a section without unmaking what is told in it.
Kept(key) == section[key] \subseteq section'[key]

\* Rows and problems once told stay told while the placeholders that hold them only
\* grow: the section functions append with +=.
LEMMA ToldStays ==
    ASSUME NEW k \in Tabled, NEW objects, Kept(SectionOf[k]), Kept("ERRORS"),
           Told(k, objects)
    PROVE  Told(k, objects)'
<1>1. \A o : Row(k, o)' = Row(k, o) /\ Problem(k, o)' = Problem(k, o)
  BY DEF Row, Problem
<1>2. QED
  BY DEF Kept, Told, Row, Problem

\* The links of the sections keep naming files that exist: no file is removed, and
\* a new item that is a link names a new file.
Resolved(i) ==
    /\ i.item = "link" => i.file \in files'
    /\ i.item = "cell" /\ i.value.item = "link" => i.value.file \in files'

\* Then LinksResolve stays true.
LEMMA LinksStay ==
    ASSUME LinksResolve, files \subseteq files',
           \A key \in Keys : \A i \in section'[key] : i \in section[key] \/ Resolved(i)
    PROVE  LinksResolve'
BY DEF LinksResolve, Resolved

\* Items that are no links.
LEMMA PlainItems ==
    /\ \A k, o : Resolved(Row(k, o)) /\ Resolved(Problem(k, o))
    /\ \A k : Resolved(NotFound(k)) /\ Resolved(Header(k))
    /\ \A t : Resolved(Text(t))
BY DEF Resolved, Row, Problem, NotFound, Header, Text

\* A section function that tabulates one kind, called where that kind's section is
\* due, under the kind's own placeholder, with every object in trouble among its
\* problems.
Due(name, kind, key) ==
    /\ kind \in Tabled \ {"CloudStorage", "Backup", "Restore"}
    /\ SectionFunction[kind] = name
    /\ SectionOf[kind] = key

InTrouble(kind, problems) ==
    /\ kind \in Reported =>
        \A o \in gathered[kind] : o.phase \in FailurePhases \cup {""} => o \in problems

\* Tabulating a kind tells all its objects, and takes nothing from the sections of
\* the others.
LEMMA TableStep ==
    ASSUME RunInv, NEW name, NEW kind, NEW key, NEW problems, NEW noneReported,
           Due(name, kind, key), InTrouble(kind, problems),
           Table(name, kind, key, problems, noneReported)
    PROVE  RunInv'
<1>1. /\ kind \in Tabled /\ kind \notin {"CloudStorage", "Backup", "Restore"}
      /\ name = SectionFunction[kind] /\ key = SectionOf[kind]
  BY DEF Due
<1>2. name \in CallNames /\ Index(name) \in 6..27 \ {13} /\ key \in Keys /\ key # "ERRORS"
  BY <1>1, SectionsApart
<1>3. /\ at = name /\ exit = "" /\ Return(name)
      /\ section' = Tabulate(kind, key, problems, noneReported)
      /\ files' = files \cup FilesOf(kind, YAMLs(kind, gathered[kind]))
      /\ UNCHANGED <<cluster, requests, gathered, todo, ns>>
  BY DEF Table, Replace, Call
<1>0. name # "Backups" /\ name # "Restores" /\ name # "Done"
  <2>1. /\ SectionFunction["Backup"] = "Backups" /\ "Backup" \in Tabled
        /\ SectionFunction["Restore"] = "Restores" /\ "Restore" \in Tabled
    BY DEF SectionFunction, Tabled
  <2>2. QED
    BY <1>1, <1>2, <2>1, SectionsApart, Places
<1>4. at' \in CallNames /\ Index(at') = Index(name) + 1 /\ exit' = exit
  <2>1. Index(name) < 34
    BY <1>2
  <2>2. QED
    BY <1>2, <1>3, <2>1, NextCall, Zenon
<1>5. /\ DOMAIN section' = Keys
      /\ \A other \in Keys \ {key} : Kept(other)
  BY <1>2, <1>3 DEF Tabulate, Kept, RunInv, RunTypeOK
<1>6. Told(kind, gathered[kind])'
  <2>1. \A o \in gathered[kind] : Row(kind, o) \in section'[key]
    BY <1>2, <1>3 DEF Tabulate, RunInv, RunTypeOK
  <2>2. kind \in Reported =>
          \A o \in gathered[kind] : o.phase \in FailurePhases \cup {""} =>
              Problem(kind, o) \in section'["ERRORS"]
    BY <1>2, <1>3 DEF InTrouble, Tabulate, RunInv, RunTypeOK, Keys
  <2>3. gathered' = gathered
    BY <1>3
  <2>4. QED
    BY <1>1, <2>1, <2>2, <2>3 DEF Told, Row, Problem
<1>7. LinksResolve'
  <2>1. ASSUME NEW other \in Keys, NEW i \in section'[other]
        PROVE  i \in section[other] \/ Resolved(i)
    <3>1. CASE gathered[kind] = {}
      <4>1. i \in section[other] \/ i = NotFound(kind)
        BY <1>2, <1>3, <3>1 DEF Tabulate, RunInv, RunTypeOK
      <4>2. QED
        BY <4>1, PlainItems
    <3>2. CASE gathered[kind] # {}
      <4>1. \/ i \in section[other]
            \/ i = Header(kind)
            \/ \E o : i = Row(kind, o) \/ i = Problem(kind, o)
        BY <1>2, <1>3, <3>2 DEF Tabulate, RunInv, RunTypeOK
      <4>2. QED
        BY <4>1, PlainItems
    <3>3. QED
      BY <3>1, <3>2
  <2>2. QED
    BY <1>3, <2>1, LinksStay DEF RunInv
<1>8. Progress'
  <2>1. ASSUME exit' \in {"", "ok"}, NEW k \in Tabled \ {"CloudStorage"}, Returned(k)'
        PROVE  Told(k, gathered[k])'
    <3>1. CASE k = kind
      BY <1>6, <3>1
    <3>2. CASE k # kind
      <4>1. Index(SectionFunction[k]) < Index(name)
        <5>1. SectionFunction[k] # name /\ SectionFunction[k] \in CallNames
          BY <1>1, <3>2, SectionsApart
        <5>2. Index(SectionFunction[k]) # Index(name)
          BY <1>2, <5>1, Indexed
        <5>3. Index(at') > Index(SectionFunction[k])
          BY <2>1 DEF Returned, Index
        <5>4. QED
          BY <1>2, <1>4, <5>1, <5>2, <5>3, Indexed
      <4>2. Told(k, gathered[k])
        BY <1>3, <4>1 DEF RunInv, Progress, Returned
      <4>3. Kept(SectionOf[k]) /\ Kept("ERRORS")
        BY <1>1, <1>2, <1>5, <3>2, SectionsApart DEF Keys
      <4>4. QED
        BY <1>3, <4>2, <4>3, ToldStays
    <3>3. QED
      BY <3>1, <3>2
  <2>2. /\ exit' \in {"", "ok"}
        /\ Index(at') > Index("GatherDownloadRequests")
        /\ cluster'["DownloadRequest"].listable
        => gathered'["DownloadRequest"] = requests'
    <3>1. Index(at') > Index("GatherDownloadRequests") =>
              Index(at) > Index("GatherDownloadRequests")
      <4>1. Index(at') = Index(at) + 1 /\ Index(at) \in 6..27 /\ Index(at) # 13
        BY <1>2, <1>3, <1>4
      <4>2. Index("GatherDownloadRequests") = 13
        BY Places
      <4>3. QED
        BY <4>1, <4>2
    <3>2. /\ Index(at) > Index("GatherDownloadRequests")
          /\ cluster["DownloadRequest"].listable
          => gathered["DownloadRequest"] = requests
      BY <1>3 DEF RunInv, Progress
    <3>3. QED
      BY <1>3, <3>1, <3>2
  <2>3. todo' = {}
    BY <1>0, <1>3 DEF RunInv, RunTypeOK
  <2>4. QED
    BY <2>1, <2>2, <2>3 DEF Progress, Index
<1>9. RunTypeOK'
  <2>1. todo' = {} /\ at' # "Done"
    <3>1. Index(at') # 34
      BY <1>2, <1>4
    <3>2. QED
      BY <1>0, <1>3, <3>1, Places DEF RunInv, RunTypeOK
  <2>2. QED
    BY <1>3, <1>4, <1>5, <2>1 DEF RunInv, RunTypeOK, CallNames
<1>10. QED
  BY <1>7, <1>8, <1>9 DEF RunInv

\* The calls that make no table of their own.
Elsewhere ==
    {"MustGatherVersion", "ClusterInformation", "OADPOperatorInstallation",
     "CloudStorages", "StorageClasses", "VolumeSnapshotClasses", "CSIDrivers",
     "CustomResourceDefinitions", "WriteVersion"}

\* Where these calls stand in RunE: none is the function of a table.
LEMMA ElsewhereFacts ==
    ASSUME NEW name \in Elsewhere
    PROVE  /\ name \in CallNames
           /\ Index(name) \in {3, 4, 5, 8, 28, 29, 30, 31, 32}
           /\ name # "Backups" /\ name # "Restores" /\ name # "Done"
           /\ \A k \in Tabled \ {"CloudStorage"} : SectionFunction[k] # name
<1>1. \E i \in {3, 4, 5, 8, 28, 29, 30, 31, 32} : name = Calls[i]
  BY DEF Elsewhere, Calls
<1>2. \A k \in Tabled \ {"CloudStorage"} : SectionFunction[k] # name
  BY DEF Elsewhere, Tabled, SectionFunction
<1>3. name # "Backups" /\ name # "Restores" /\ name # "Done"
  BY DEF Elsewhere
<1>4. QED
  BY <1>1, <1>2, <1>3, Indexed

\* Such a call leaves the tables and the errors already there as they are, or adds
\* to them.
LEMMA ElsewhereStep ==
    ASSUME RunInv, NEW name \in Elsewhere, Call(name), Return(name),
           DOMAIN section' = Keys, LinksResolve', Kept("ERRORS"),
           \A k \in Tabled \ {"CloudStorage"} : Kept(SectionOf[k]),
           UNCHANGED <<cluster, requests, gathered, todo>>
    PROVE  RunInv'
<1>1. at = name /\ exit = ""
  BY DEF Call
<1>2. /\ name \in CallNames
      /\ Index(name) \in {3, 4, 5, 8, 28, 29, 30, 31, 32}
      /\ name # "Backups" /\ name # "Restores" /\ name # "Done"
      /\ \A k \in Tabled \ {"CloudStorage"} : SectionFunction[k] # name
  BY ElsewhereFacts
<1>3. at' \in CallNames /\ Index(at') = Index(name) + 1 /\ exit' = exit
  <2>1. Index(name) < 34
    BY <1>2
  <2>2. QED
    BY <1>2, <2>1, NextCall, Zenon
<1>4. ASSUME exit' \in {"", "ok"}, NEW k \in Tabled \ {"CloudStorage"}, Returned(k)'
      PROVE  Told(k, gathered[k])'
  <2>1. SectionFunction[k] # name /\ SectionFunction[k] \in CallNames
    BY <1>2, SectionsApart
  <2>2. Index(SectionFunction[k]) # Index(name)
    BY <1>2, <2>1, Indexed
  <2>3. Index(at') > Index(SectionFunction[k])
    BY <1>4 DEF Returned, Index
  <2>4. Index(SectionFunction[k]) < Index(name)
    BY <1>2, <1>3, <2>1, <2>2, <2>3, Indexed
  <2>5. Told(k, gathered[k])
    BY <1>1, <2>4 DEF RunInv, Progress, Returned
  <2>6. QED
    BY <2>5, ToldStays
<1>5. /\ exit' \in {"", "ok"}
      /\ Index(at') > Index("GatherDownloadRequests")
      /\ cluster'["DownloadRequest"].listable
      => gathered'["DownloadRequest"] = requests'
  <2>1. Index(at') > Index("GatherDownloadRequests") =>
            Index(at) > Index("GatherDownloadRequests")
    <3>1. Index(at') = Index(at) + 1 /\ Index(at) \in {3, 4, 5, 8, 28, 29, 30, 31, 32}
      BY <1>1, <1>2, <1>3
    <3>2. Index("GatherDownloadRequests") = 13
      BY Places
    <3>3. QED
      BY <3>1, <3>2
  <2>2. /\ Index(at) > Index("GatherDownloadRequests")
        /\ cluster["DownloadRequest"].listable
        => gathered["DownloadRequest"] = requests
    BY <1>1 DEF RunInv, Progress
  <2>3. QED
    BY <2>1, <2>2
<1>6. todo' = {}
  BY <1>1, <1>2 DEF RunInv, RunTypeOK
<1>7. at' # "Done"
  <2>1. Index(at') # 34
    BY <1>2, <1>3
  <2>2. QED
    BY <2>1, Places
<1>8. Progress'
  BY <1>4, <1>5, <1>6 DEF Progress, Index
<1>9. RunTypeOK'
  BY <1>1, <1>2, <1>3, <1>6, <1>7 DEF RunInv, RunTypeOK, CallNames
<1>10. QED
  BY <1>8, <1>9 DEF RunInv

\* No table stands under the placeholders of the sections about the cluster.
ClusterKeys ==
    {"MUST_GATHER_VERSION", "CLUSTER_ID", "OCP_VERSION", "CLOUD", "ARCH",
     "CLUSTER_VERSION", "OADP_VERSIONS", "CLOUD_STORAGES", "STORAGE_CLASSES",
     "VOLUME_SNAPSHOT_CLASSES", "CSI_DRIVERS", "CUSTOM_RESOURCE_DEFINITION"}

\* The tables of the kinds have placeholders of their own, apart from those.
LEMMA ClusterKeysApart ==
    \A k \in Tabled \ {"CloudStorage"} : SectionOf[k] \in Keys \ (ClusterKeys \cup {"ERRORS"})
BY DEF Tabled, SectionOf, Keys, ClusterKeys

\* Which placeholders are which.
LEMMA KeyFacts ==
    /\ ClusterKeys \subseteq Keys
    /\ \A key \in {"ERRORS", "BACKUPS"} : key \in Keys /\ key \notin ClusterKeys
    /\ \A key \in {"MUST_GATHER_VERSION", "CLOUD_STORAGES",
                   "CUSTOM_RESOURCE_DEFINITION"} : key \in ClusterKeys
BY DEF Keys, ClusterKeys

\* What a section function of this sort has to respect.
Respects ==
    /\ DOMAIN section' = Keys
    /\ files \subseteq files'
    /\ \A key \in Keys \ ClusterKeys : Kept(key)
    /\ \A key \in Keys : \A i \in section'[key] : i \in section[key] \/ Resolved(i)

\* A section function that writes no table keeps the invariant when it overwrites
\* only its own placeholder and shows no link to a file that is not written.
LEMMA RespectfulStep ==
    ASSUME RunInv, NEW name \in Elsewhere, Call(name), Return(name), Respects,
           UNCHANGED <<cluster, requests, gathered, todo>>
    PROVE  RunInv'
<1>1. LinksResolve'
  BY LinksStay DEF RunInv, Respects
<1>2. Kept("ERRORS") /\ \A k \in Tabled \ {"CloudStorage"} : Kept(SectionOf[k])
  BY ClusterKeysApart DEF Respects, Keys, ClusterKeys
<1>3. QED
  BY <1>1, <1>2, ElsewhereStep DEF Respects

\* createYAML and createFile return a link only to a file they wrote.
LEMMA WrittenResolves ==
    ASSUME NEW kind, NEW file, NEW written, file \in written,
           FilesOf(kind, written) \subseteq files'
    PROVE  Resolved(Written(kind, file))
BY DEF FilesOf, Written, Resolved, Link, Text

\* ReplaceMustGatherVersion keeps the invariant.
LEMMA VersionStep ==
    ASSUME RunInv, ReplaceMustGatherVersion
    PROVE  RunInv'
<1>1. /\ Call("MustGatherVersion") /\ Return("MustGatherVersion")
      /\ section' = [section EXCEPT !["MUST_GATHER_VERSION"] = {Text("version")}]
      /\ files' = files \cup {}
      /\ UNCHANGED <<cluster, requests, gathered, todo, ns>>
  BY DEF ReplaceMustGatherVersion, Replace
<1>2. Respects
  BY <1>1, PlainItems, KeyFacts DEF Respects, RunInv, RunTypeOK, Kept
<1>3. QED
  BY <1>1, <1>2, RespectfulStep DEF Elsewhere

\* ReplaceClusterInformationSection keeps the invariant: it links the ClusterVersion
\* file only when createYAML wrote it.
LEMMA ClusterInformationStep ==
    ASSUME RunInv, ReplaceClusterInformationSection
    PROVE  RunInv'
<1> DEFINE platforms == {i.phase : i \in gathered["Infrastructure"]}
<1> DEFINE yaml == [kind |-> "ClusterVersion", ns |-> ""]
<1> DEFINE cloud == IF platforms = {} THEN {NotFound("Infrastructure")}
                    ELSE {Text(p) : p \in platforms \ {""}}
<1> DEFINE arch == IF gathered["Node"] = {} THEN {NotFound("Node")}
                   ELSE {Text(n.phase) : n \in gathered["Node"]}
<1> DEFINE none == {NotFound(k) : k \in
                       {l \in {"Infrastructure", "Node"} : gathered[l] = {}}}
<1>1. /\ Call("ClusterInformation") /\ Return("ClusterInformation")
      /\ section' = [section EXCEPT
            !["CLUSTER_ID"] = {Text("id")},
            !["OCP_VERSION"] = {Text("OpenShift")},
            !["CLUSTER_VERSION"] = {Written("ClusterVersion", yaml)},
            !["CLOUD"] = cloud,
            !["ARCH"] = arch,
            !["ERRORS"] = @ \cup none]
      /\ files' = files \cup FilesOf("ClusterVersion", {yaml})
      /\ UNCHANGED <<cluster, requests, gathered, todo, ns>>
  BY DEF ReplaceClusterInformationSection, Replace
<1>2. /\ \A i \in cloud \cup arch \cup none : Resolved(i)
      /\ Resolved(Text("id")) /\ Resolved(Text("OpenShift"))
  BY PlainItems
<1>3. Resolved(Written("ClusterVersion", yaml))
  BY <1>1, WrittenResolves
<1> HIDE DEF cloud, arch, none, yaml
<1>4. Respects
  <2>1. DOMAIN section' = Keys /\ files \subseteq files'
    BY <1>1 DEF RunInv, RunTypeOK
  <2>2. \A key \in Keys \ ClusterKeys : Kept(key)
    BY <1>1, ZenonT(30) DEF RunInv, RunTypeOK, Keys, ClusterKeys, Kept
  <2>3. \A key \in Keys : \A i \in section'[key] : i \in section[key] \/ Resolved(i)
    BY <1>1, <1>2, <1>3 DEF RunInv, RunTypeOK
  <2>4. QED
    BY <2>1, <2>2, <2>3 DEF Respects
<1>5. QED
  BY <1>1, <1>4, RespectfulStep DEF Elsewhere

\* ReplaceOADPOperatorInstallationSection keeps the invariant, with one file per
\* namespace of CSVs and of Subscriptions.
LEMMA InstallationStep ==
    ASSUME RunInv, ReplaceOADPOperatorInstallationSection
    PROVE  RunInv'
<1> DEFINE csvs == YAMLs("ClusterServiceVersion", ImportantCSVs)
<1> DEFINE subscriptions == YAMLs("Subscription", ImportantSubscriptions)
<1> DEFINE noOADP == IF FoundOADP THEN {} ELSE {NotFound("OADP Operator")}
<1> DEFINE links == {Written("ClusterServiceVersion", f) : f \in csvs}
                    \cup {Written("Subscription", f) : f \in subscriptions}
<1> DEFINE versions == noOADP \cup links \cup {Text("namespaces")}
                       \cup {Row("ClusterServiceVersion", c) : c \in ImportantCSVs}
<1> DEFINE old == IF OldOADP THEN {Text("old OADP")} ELSE {}
<1>1. /\ Call("OADPOperatorInstallation") /\ Return("OADPOperatorInstallation")
      /\ section' = [section EXCEPT
            !["OADP_VERSIONS"] =
                IF ImportantCSVs = {} THEN noOADP
                ELSE @ \cup noOADP \cup links \cup {Text("namespaces")}
                     \cup {Row("ClusterServiceVersion", c) : c \in ImportantCSVs},
            !["ERRORS"] = @ \cup noOADP \cup old]
      /\ files' = files \cup (FilesOf("ClusterServiceVersion", csvs)
                              \cup FilesOf("Subscription", subscriptions))
      /\ UNCHANGED <<cluster, requests, gathered, todo, ns>>
  BY DEF ReplaceOADPOperatorInstallationSection, Replace
<1>2. \A f \in csvs : Resolved(Written("ClusterServiceVersion", f))
  BY <1>1, WrittenResolves
<1>3. \A f \in subscriptions : Resolved(Written("Subscription", f))
  BY <1>1, WrittenResolves
<1>4. \A i \in versions \cup noOADP \cup old : Resolved(i)
  BY <1>2, <1>3, PlainItems
<1>5. /\ DOMAIN section' = Keys /\ files \subseteq files'
      /\ \A key \in Keys \ {"OADP_VERSIONS", "ERRORS"} : section'[key] = section[key]
      /\ section'["OADP_VERSIONS"] \subseteq section["OADP_VERSIONS"] \cup versions \cup noOADP
      /\ section'["ERRORS"] = section["ERRORS"] \cup noOADP \cup old
  <2> HIDE DEF csvs, subscriptions, old, noOADP, links
  <2>1. DOMAIN section = Keys /\ "OADP_VERSIONS" \in Keys /\ "ERRORS" \in Keys
    BY DEF RunInv, RunTypeOK, Keys
  <2>2. QED
    BY <1>1, <2>1
<1> HIDE DEF csvs, subscriptions, old, noOADP, links, versions
<1>6. Respects
  BY <1>4, <1>5 DEF Respects, Kept, Keys, ClusterKeys
<1>7. QED
  BY <1>1, <1>6, RespectfulStep DEF Elsewhere

\* ReplaceCloudStoragesSection keeps the invariant: the rows it puts under BACKUPS
\* are added to what is there.
LEMMA CloudStoragesStep ==
    ASSUME RunInv, ReplaceCloudStoragesSection
    PROVE  RunInv'
<1> DEFINE found == gathered["CloudStorage"]
<1> DEFINE rows == {Row("CloudStorage", o) : o \in found}
<1>1. /\ Call("CloudStorages") /\ Return("CloudStorages")
      /\ section' = IF found = {}
            THEN [section EXCEPT !["CLOUD_STORAGES"] = {NotFound("CloudStorage")}]
            ELSE [section EXCEPT
                    !["CLOUD_STORAGES"] = @ \cup {Header("CloudStorage")},
                    !["BACKUPS"] = @ \cup rows]
      /\ files' = files \cup FilesOf("CloudStorage", YAMLs("CloudStorage", found))
      /\ UNCHANGED <<cluster, requests, gathered, todo, ns>>
  BY DEF ReplaceCloudStoragesSection, Replace
<1>2. /\ \A i \in rows : Resolved(i)
      /\ Resolved(NotFound("CloudStorage")) /\ Resolved(Header("CloudStorage"))
  BY PlainItems
<1> HIDE DEF rows, found
<1>3. Respects
  BY <1>1, <1>2, KeyFacts DEF Respects, RunInv, RunTypeOK, Kept
<1>4. QED
  BY <1>1, <1>3, RespectfulStep DEF Elsewhere

\* The three functions for cluster-scoped lists keep the invariant.
LEMMA AvailableStep ==
    ASSUME RunInv, NEW name \in Elsewhere, NEW kind, NEW key \in ClusterKeys,
           Available(name, kind, key)
    PROVE  RunInv'
<1> DEFINE yaml == [kind |-> kind, ns |-> ""]
<1>1. key \in Keys /\ key # "ERRORS" /\ "ERRORS" \in Keys /\ "ERRORS" \notin ClusterKeys
      /\ DOMAIN section = Keys
  BY ZenonT(30) DEF Keys, ClusterKeys, RunInv, RunTypeOK
<1>2. CASE gathered[kind] = {}
  <2>1. /\ Call(name) /\ Return(name)
        /\ section' = [section EXCEPT ![key] = {NotFound(kind)},
                                      !["ERRORS"] = @ \cup {NotFound(kind)}]
        /\ files' = files \cup {}
        /\ UNCHANGED <<cluster, requests, gathered, todo, ns>>
    BY <1>2 DEF Available, Replace
  <2>2. Respects
    BY <1>1, <2>1, PlainItems DEF Respects, Kept
  <2>3. QED
    BY <2>1, <2>2, RespectfulStep
<1>3. CASE gathered[kind] # {}
  <2>1. /\ Call(name) /\ Return(name)
        /\ section' = [section EXCEPT ![key] = {Written(kind, yaml)}]
        /\ files' = files \cup FilesOf(kind, {yaml})
        /\ UNCHANGED <<cluster, requests, gathered, todo, ns>>
    BY <1>3 DEF Available, Replace
  <2>2. Resolved(Written(kind, yaml))
    BY <2>1, WrittenResolves
  <2> HIDE DEF yaml
  <2>3. Respects
    BY <1>1, <2>1, <2>2 DEF Respects, Kept
  <2>4. QED
    BY <2>1, <2>3, RespectfulStep
<1>4. QED
  BY <1>2, <1>3

\* ReplaceCustomResourceDefinitionsSection keeps the invariant, with or without a
\* client.
LEMMA CustomResourceDefinitionsStep ==
    ASSUME RunInv, ReplaceCustomResourceDefinitionsSection
    PROVE  RunInv'
<1> DEFINE kind == "CustomResourceDefinition"
<1> DEFINE found == cluster[kind].objects
<1> DEFINE missing == {Problem(kind, [ns |-> "", name |-> n]) :
                          n \in Names \ {o.name : o \in found}}
<1> DEFINE noClient == {Text("no client")}
<1> DEFINE name == "CustomResourceDefinitions"
<1>1. \A i \in missing \cup noClient \cup {Text("folder")} : Resolved(i)
  BY PlainItems
<1>2. CASE ~ cluster[kind].listable
  <2>1. /\ Call(name) /\ Return(name)
        /\ section' = [section EXCEPT !["CUSTOM_RESOURCE_DEFINITION"] = noClient,
                                      !["ERRORS"] = @ \cup noClient]
        /\ files' = files \cup {}
        /\ UNCHANGED <<cluster, requests, gathered, todo, ns>>
    BY <1>2 DEF ReplaceCustomResourceDefinitionsSection, Replace
  <2> HIDE DEF noClient, missing
  <2>2. Respects
    BY <1>1, <2>1, KeyFacts DEF Respects, RunInv, RunTypeOK, Kept
  <2>3. QED
    BY <2>1, <2>2, RespectfulStep DEF Elsewhere
<1>3. CASE cluster[kind].listable
  <2>1. /\ Call(name) /\ Return(name)
        /\ section' = [section EXCEPT
               !["CUSTOM_RESOURCE_DEFINITION"] = @ \cup missing \cup {Text("folder")},
               !["ERRORS"] = @ \cup missing]
        /\ files' = files \cup FilesOf(kind,
               {[kind |-> kind, ns |-> "", name |-> o.name] : o \in found})
        /\ UNCHANGED <<cluster, requests, gathered, todo, ns>>
    BY <1>3, ZenonT(30) DEF ReplaceCustomResourceDefinitionsSection, Replace
  <2> HIDE DEF noClient, missing
  <2>2. Respects
    BY <1>1, <2>1, KeyFacts DEF Respects, RunInv, RunTypeOK, Kept
  <2>3. QED
    BY <2>1, <2>2, RespectfulStep, ZenonT(30) DEF Elsewhere
<1>4. QED
  BY <1>2, <1>3

\* A run that fails promises nothing any more but the links it has shown.
LEMMA FailStep ==
    ASSUME RunInv, NEW how \in {"error", "panic"}, Fail(how), DOMAIN section' = Keys,
           LinksResolve', UNCHANGED <<cluster, requests, gathered, todo>>,
           at # "Backups", at # "Restores"
    PROVE  RunInv'
<1>1. exit' = how /\ at' = "Done" /\ todo' = {}
  BY DEF Fail, RunInv, RunTypeOK
<1>2. "Done" \in CallNames
  BY Indexed DEF Calls
<1>3. RunTypeOK'
  BY <1>1, <1>2 DEF RunInv, RunTypeOK, CallNames
<1>4. Progress'
  BY <1>1 DEF Progress
<1>5. QED
  BY <1>3, <1>4 DEF RunInv

\* Writing the version file keeps the invariant, whether it fails or not.
LEMMA WriteVersionStep ==
    ASSUME RunInv, WriteVersion
    PROVE  RunInv'
<1>1. /\ Call("WriteVersion") /\ files \subseteq files'
      /\ UNCHANGED <<cluster, requests, gathered, section, todo, ns>>
  BY DEF WriteVersion
<1>2. Respects
  BY <1>1 DEF Respects, RunInv, RunTypeOK, Kept
<1>3. CASE Return("WriteVersion")
  BY <1>1, <1>2, <1>3, RespectfulStep DEF Elsewhere
<1>4. CASE Fail("error")
  <2>1. LinksResolve' /\ DOMAIN section' = Keys
    BY <1>2, LinksStay DEF Respects, RunInv
  <2>2. QED
    BY <1>1, <1>4, <2>1, FailStep DEF Call
<1>5. QED
  BY <1>3, <1>4 DEF WriteVersion

\* Write keeps the invariant: the text it puts in an empty list of errors replaces
\* nothing.
LEMMA WriteStep ==
    ASSUME RunInv, Write
    PROVE  RunInv'
<1> DEFINE text == IF section["ERRORS"] = {}
                   THEN [section EXCEPT !["ERRORS"] = {Text("No errors happened")}]
                   ELSE section
<1>1. /\ Call("Write") /\ section' = text /\ files \subseteq files'
      /\ UNCHANGED <<cluster, requests, gathered, todo, ns>>
  BY DEF Write
<1>2. Respects
  BY <1>1, PlainItems DEF Respects, RunInv, RunTypeOK, Kept
<1>3. LinksResolve' /\ DOMAIN section' = Keys
  BY <1>2, LinksStay DEF Respects, RunInv
<1>4. CASE Fail("error")
  BY <1>1, <1>3, <1>4, FailStep DEF Call
<1>5. CASE exit' = "ok" /\ at' = "Done"
  <2>1. at = "Write" /\ exit = "" /\ todo' = {}
    BY <1>1 DEF Call, RunInv, RunTypeOK
  <2>2. ASSUME NEW k \in Tabled \ {"CloudStorage"}
        PROVE  Told(k, gathered[k])'
    <3>1. Index(at) > Index(SectionFunction[k])
      <4>1. Index(at) = 33
        BY <2>1, Places
      <4>2. QED
        BY <4>1, SectionsApart
    <3>2. Told(k, gathered[k])
      BY <2>1, <3>1 DEF RunInv, Progress, Returned
    <3>3. Kept(SectionOf[k]) /\ Kept("ERRORS")
      BY <1>2, ClusterKeysApart DEF Respects, Keys, ClusterKeys
    <3>4. QED
      BY <1>1, <3>2, <3>3, ToldStays
  <2>3. cluster["DownloadRequest"].listable => gathered["DownloadRequest"] = requests
    <3>1. Index(at) > Index("GatherDownloadRequests")
      <4>1. Index(at) = 33 /\ Index("GatherDownloadRequests") = 13
        BY <2>1, Places
      <4>2. QED
        BY <4>1
    <3>2. QED
      BY <2>1, <3>1 DEF RunInv, Progress
  <2>4. Progress'
    BY <1>1, <1>5, <2>1, <2>2, <2>3 DEF Progress
  <2>5. "Done" \in CallNames
    BY Indexed DEF Calls
  <2>6. RunTypeOK'
    BY <1>1, <1>3, <1>5, <2>1, <2>5 DEF RunInv, RunTypeOK, CallNames
  <2>7. QED
    BY <1>3, <2>4, <2>6 DEF RunInv
<1>6. QED
  BY <1>4, <1>5 DEF Write

\* Before the first table is due nothing is promised.
LEMMA EarlyStep ==
    ASSUME RunInv, NEW name \in {"ClusterVersion", "GatherLists"}, Call(name), Return(name),
           DOMAIN gathered' = Kinds,
           \A k \in Kinds : \A o \in gathered'[k] : Accepted(k, o),
           UNCHANGED <<cluster, requests, section, files, todo>>
    PROVE  RunInv'
<1>1. at = name /\ exit = "" /\ todo' = {}
  BY DEF Call, RunInv, RunTypeOK
<1>2. Index(name) \in 1..2 /\ name \in CallNames
  <2>1. name = Calls[1] \/ name = Calls[2]
    BY DEF Calls
  <2>2. QED
    BY <2>1, Indexed
<1>3. at' \in CallNames /\ Index(at') \in 2..3 /\ exit' = exit
  <2>1. Index(name) < 34
    BY <1>2
  <2>2. at' \in CallNames /\ Index(at') = Index(name) + 1 /\ exit' = exit
    BY <1>2, <2>1, NextCall, Zenon
  <2>3. QED
    BY <1>2, <2>2
<1>4. at' # "Done"
  <2>1. Index(at') # 34
    BY <1>3
  <2>2. QED
    BY <2>1, Places
<1>5. \A k \in Tabled : ~ Returned(k)'
  <2>1. \A k \in Tabled : ~ (Index(at') > Index(SectionFunction[k]))
    BY <1>3, SectionsApart
  <2>2. QED
    BY <2>1 DEF Returned, Index
<1>6. ~ (Index(at') > Index("GatherDownloadRequests"))
  <2>1. Index("GatherDownloadRequests") = 13
    BY Places
  <2>2. QED
    BY <1>3, <2>1
<1>7. Progress'
  BY <1>1, <1>5, <1>6 DEF Progress, Index
<1>8. RunTypeOK'
  BY <1>1, <1>3, <1>4 DEF RunInv, RunTypeOK, CallNames
<1>9. LinksResolve'
  BY DEF RunInv, LinksResolve
<1>10. QED
  BY <1>7, <1>8, <1>9 DEF RunInv

\* AllResources returns objects the API server holds.
LEMMA AllResourcesType ==
    ASSUME RunTypeOK, NEW k \in Kinds
    PROVE  \A o \in AllResources(k) : Accepted(k, o)
BY ClusterAssumption DEF RunTypeOK, AllResources

\* Reading the ClusterVersion keeps the invariant, and so does exiting without it.
LEMMA ClusterVersionStep ==
    ASSUME RunInv, GatherClusterVersion
    PROVE  RunInv'
<1> DEFINE found == AllResources("ClusterVersion")
<1>1. /\ Call("ClusterVersion")
      /\ UNCHANGED <<cluster, requests, section, files, todo, ns>>
  BY DEF GatherClusterVersion
<1>2. CASE Fail("error") /\ UNCHANGED gathered
  <2>1. LinksResolve' /\ DOMAIN section' = Keys
    BY <1>1 DEF RunInv, LinksResolve, RunTypeOK
  <2>2. QED
    BY <1>1, <1>2, <2>1, FailStep DEF Call
<1>3. CASE /\ Return("ClusterVersion")
           /\ gathered' = [gathered EXCEPT !["ClusterVersion"] = found]
  <2>1. "ClusterVersion" \in Kinds
    BY DEF Kinds
  <2>2. \A o \in found : Accepted("ClusterVersion", o)
    BY <2>1, AllResourcesType DEF RunInv
  <2> HIDE DEF found
  <2>3. /\ DOMAIN gathered' = Kinds
        /\ \A k \in Kinds : \A o \in gathered'[k] : Accepted(k, o)
    BY <1>3, <2>2 DEF RunInv, RunTypeOK
  <2>4. QED
    BY <1>1, <1>3, <2>3, EarlyStep
<1>4. QED
  BY <1>2, <1>3 DEF GatherClusterVersion

\* Gathering the lists keeps the invariant: AllResources leaves a list it cannot
\* read empty.
LEMMA GatherListsStep ==
    ASSUME RunInv, GatherLists
    PROVE  RunInv'
<1> DEFINE list(k) == CASE k \in {"ClusterVersion", "DownloadRequest"} -> gathered[k]
                        [] k \in {"CustomResourceDefinition", "version", "summary"} -> {}
                        [] OTHER -> AllResources(k)
<1>1. /\ Call("GatherLists") /\ Return("GatherLists")
      /\ gathered' = [k \in Kinds |-> list(k)]
      /\ UNCHANGED <<cluster, requests, section, files, todo, ns>>
  BY DEF GatherLists
<1>2. \A k \in Kinds : \A o \in list(k) : Accepted(k, o)
  <2>1. \A k : list(k) \in {gathered[k], {}, AllResources(k)}
    OBVIOUS
  <2> HIDE DEF list
  <2>2. QED
    BY <2>1, AllResourcesType DEF RunInv, RunTypeOK
<1> HIDE DEF list
<1>3. /\ DOMAIN gathered' = Kinds
      /\ \A k \in Kinds : \A o \in gathered'[k] : Accepted(k, o)
  BY <1>1, <1>2
<1>4. QED
  BY <1>1, <1>3, EarlyStep

\* The DownloadRequests are listed after the last Restore is described; the list is
\* the cluster's at that moment, and its own table is still to come.
LEMMA GatherDownloadRequestsStep ==
    ASSUME RunInv, GatherDownloadRequests
    PROVE  RunInv'
<1> DEFINE list == IF cluster["DownloadRequest"].listable THEN requests ELSE {}
<1>1. /\ at = "GatherDownloadRequests" /\ exit = "" /\ Return("GatherDownloadRequests")
      /\ gathered' = [gathered EXCEPT !["DownloadRequest"] = list]
      /\ UNCHANGED <<cluster, requests, section, files, todo, ns>>
  BY DEF GatherDownloadRequests, Call
<1>2. Index(at) = 13 /\ at \in CallNames
  BY <1>1, Places DEF RunInv, RunTypeOK, CallNames
<1>3. at' \in CallNames /\ Index(at') = 14 /\ exit' = exit
  <2> DEFINE name == "GatherDownloadRequests"
  <2>1. Index(name) < 34 /\ name \in CallNames
    <3>1. Index(name) = 13
      BY Places
    <3>2. Index(name) < 34
      BY <3>1
    <3>3. name \in CallNames
      BY <1>1, <1>2, Zenon
    <3>4. QED
      BY <3>2, <3>3
  <2>2. at' \in CallNames /\ Index(at') = Index(name) + 1 /\ exit' = exit
    BY <1>1, <2>1, NextCall, Zenon
  <2>3. QED
    BY <2>2, Places
<1>4. at' # "Done" /\ todo' = {}
  <2>1. at' # "Done"
    BY <1>3, Places
  <2>2. QED
    BY <1>1, <2>1 DEF RunInv, RunTypeOK
<1>5. DOMAIN gathered = Kinds /\ "DownloadRequest" \in Kinds
  BY DEF RunInv, RunTypeOK, Kinds, Tabled
<1>6. gathered'["DownloadRequest"] = list /\ DOMAIN gathered' = Kinds
      /\ \A k \in Kinds \ {"DownloadRequest"} : gathered'[k] = gathered[k]
  BY <1>1, <1>5
<1>7. \A k \in Kinds : \A o \in gathered'[k] : Accepted(k, o)
  BY <1>6 DEF RunInv, RunTypeOK
<1>8. ASSUME NEW k \in Tabled \ {"CloudStorage"}, Returned(k)'
      PROVE  Told(k, gathered[k])'
  <2>1. Index(at') > Index(SectionFunction[k])
    BY <1>8 DEF Returned, Index
  <2>2. Index(SectionFunction[k]) < 13
    BY <1>3, <2>1, SectionsApart
  <2>3. k # "DownloadRequest" /\ k \in Kinds
    <3>1. SectionFunction["DownloadRequest"] = "DownloadRequests"
      BY DEF SectionFunction
    <3>2. QED
      BY <2>2, <3>1, Places, SMTT(30) DEF Kinds
  <2>4. Told(k, gathered[k])
    <3>1. Index(at) > Index(SectionFunction[k])
      BY <1>2, <2>2
    <3>2. QED
      BY <1>1, <3>1 DEF RunInv, Progress, Returned
  <2>5. gathered'[k] = gathered[k] /\ section' = section
    BY <1>1, <1>6, <2>3
  <2>6. QED
    BY <2>4, <2>5 DEF Told, Row, Problem
<1>9. Progress'
  <2>1. cluster'["DownloadRequest"].listable => gathered'["DownloadRequest"] = requests'
    BY <1>1, <1>6
  <2>2. QED
    BY <1>4, <1>8, <2>1 DEF Progress
<1>10. RunTypeOK'
  BY <1>1, <1>3, <1>4, <1>6, <1>7 DEF RunInv, RunTypeOK, CallNames
<1>11. LinksResolve'
  BY <1>1 DEF RunInv, LinksResolve
<1>12. QED
  BY <1>9, <1>10, <1>11 DEF RunInv

\* The server touches only requests, and only while they are not listed yet.
LEMMA ServerStep ==
    ASSUME RunInv, AnswerLate \/ Expire
    PROVE  RunInv'
<1>1. /\ at \in {"Backups", "Restores", "GatherDownloadRequests"}
      /\ UNCHANGED <<cluster, gathered, section, files, todo, ns, at, exit>>
  BY DEF AnswerLate, Expire, Unlisted
<1>2. \A q \in requests' : Accepted("DownloadRequest", q)
  <2>1. \A q \in requests : Accepted("DownloadRequest", q)
    BY DEF RunInv, RunTypeOK
  <2>2. \A q : Accepted("DownloadRequest", q) =>
            Accepted("DownloadRequest", [q EXCEPT !.phase = "Processed"])
    <3>1. "Processed" \in Phases("DownloadRequest")
      BY DEF Phases
    <3>2. QED
      BY <3>1 DEF Accepted
  <2>3. CASE AnswerLate
    BY <2>1, <2>2, <2>3 DEF AnswerLate
  <2>4. CASE Expire
    BY <2>1, <2>4 DEF Expire
  <2>5. QED
    BY <2>3, <2>4
<1>3. ~ (Index(at') > Index("GatherDownloadRequests"))
  <2>1. Index(at) \in 11..13
    BY <1>1, Places
  <2>2. Index("GatherDownloadRequests") = 13 /\ at' = at
    BY <1>1, Places, SMTT(30)
  <2>3. QED
    BY <2>1, <2>2
<1>4. \A k \in Tabled \ {"CloudStorage"} :
          exit \in {"", "ok"} /\ Returned(k)' => Told(k, gathered[k])'
  BY <1>1, ZenonT(30) DEF RunInv, Progress, Returned, Told, Row, Problem, Index
<1>5. /\ at' = "Backups" /\ todo' # {} => Told("Backup", gathered["Backup"] \ todo)'
      /\ at' = "Restores" /\ todo' # {} => Told("Restore", gathered["Restore"] \ todo)'
  BY <1>1 DEF RunInv, Progress, Told, Row, Problem
<1>6. Progress'
  BY <1>1, <1>3, <1>4, <1>5 DEF Progress, Index
<1>7. RunTypeOK'
  BY <1>1, <1>2 DEF RunInv, RunTypeOK
<1>8. LinksResolve'
  BY <1>1 DEF RunInv, LinksResolve
<1>9. QED
  BY <1>6, <1>7, <1>8 DEF RunInv

-----------------------------------------------------------------------------
(* Describing the Backups and the Restores.                                *)

Described(name, kind, key) ==
    \/ name = "Backups" /\ kind = "Backup" /\ key = "BACKUPS"
    \/ name = "Restores" /\ kind = "Restore" /\ key = "RESTORES"

\* ReplaceBackupsSection and ReplaceRestoresSection fill the section of the kind they
\* describe.
LEMMA DescribedSection ==
    ASSUME NEW name, NEW kind, NEW key, Described(name, kind, key)
    PROVE  /\ kind \in {"Backup", "Restore"} /\ kind \in Tabled
           /\ SectionFunction[kind] = name /\ SectionOf[kind] = key
BY SMTT(30) DEF Described, Tabled, SectionFunction, SectionOf

\* Only the section of the kind being described and the errors change, and the
\* objects not waiting any more are told; then the invariant is kept, both when the
\* function goes on and when it returns.
LEMMA DescribeStep ==
    ASSUME RunInv, NEW name, NEW kind, NEW key, Described(name, kind, key), Call(name),
           \A q \in requests' : Accepted("DownloadRequest", q),
           DOMAIN section' = Keys, LinksResolve',
           \A other \in Keys \ {key} : Kept(other),
           UNCHANGED <<cluster, gathered>>,
           todo' \subseteq gathered[kind],
           Told(kind, gathered[kind] \ todo)',
           \/ todo' # {} /\ UNCHANGED <<at, exit>>
           \/ todo' = {} /\ Return(name)
    PROVE  RunInv'
<1>0. /\ at = name /\ exit = ""
      /\ (name = "Backups" /\ kind = "Backup") \/ (name = "Restores" /\ kind = "Restore")
  BY ZenonT(30) DEF Described, Call
<1>1. kind \in Tabled /\ SectionFunction[kind] = name /\ SectionOf[kind] = key
  BY DescribedSection, ZenonT(30)
<1>a. name \in CallNames
  BY <1>1, SectionsApart, ZenonT(30)
<1>b. Index(name) \in 11..12
  <2>1. Index(name) = 11 \/ Index(name) = 12
    BY <1>0, Places, ZenonT(30)
  <2>2. QED
    BY <2>1
<1>2. /\ at' \in CallNames /\ exit' = exit /\ at' # "Done"
      /\ Index(at') \in {Index(name), Index(name) + 1}
      /\ todo' = {} => Index(at') = Index(name) + 1
      /\ todo' # {} => at' = name
  <2>1. CASE todo' # {} /\ UNCHANGED <<at, exit>>
    BY <1>0, <1>a, <2>1, Places
  <2>2. CASE todo' = {} /\ Return(name)
    <3>1. Index(name) < 34
      BY <1>b, NextPlace, ZenonT(30)
    <3>2. at' \in CallNames /\ Index(at') = Index(name) + 1 /\ exit' = exit
      BY <1>a, <2>2, <3>1, NextCall, Zenon
    <3>3. Index(at') # 34
      BY <1>b, <3>2, NextPlace, ZenonT(30)
    <3>4. at' # "Done"
      BY <3>3, Places
    <3>5. QED
      BY <2>2, <3>2, <3>4, ZenonT(30)
  <2>3. QED
    BY <2>1, <2>2, ZenonT(30)
<1>3. ASSUME NEW k \in Tabled \ {"CloudStorage"}, Returned(k)'
      PROVE  Told(k, gathered[k])'
  <2>1. Index(at') > Index(SectionFunction[k])
    BY <1>3, ZenonT(30) DEF Returned, Index
  <2>2. CASE k = kind
    <3>1. todo' = {}
      <4>1. Index(at') # Index(name)
        BY <1>1, <1>b, <2>1, <2>2
      <4>2. QED
        BY <1>0, <1>2, <4>1, ZenonT(30)
    <3>2. (gathered[kind] \ todo)' = gathered[kind]'
      BY <3>1, ZenonT(30)
    <3>3. QED
      BY <2>2, <3>2 DEF Told
  <2>3. CASE k # kind
    <3>1. SectionFunction[k] # name /\ SectionFunction[k] \in CallNames
      BY <1>1, <2>3, SectionsApart, ZenonT(30)
    <3>2. Index(SectionFunction[k]) # Index(name)
      BY <1>a, <3>1, Indexed, ZenonT(30)
    <3>3. Index(SectionFunction[k]) < Index(name)
      BY <1>b, <1>2, <2>1, <3>1, <3>2, Indexed
    <3>4. Told(k, gathered[k])
      BY <1>0, <3>3, ZenonT(30) DEF RunInv, Progress, Returned
    <3>5. Kept(SectionOf[k]) /\ Kept("ERRORS")
      <4>1. SectionOf[k] \in Keys /\ SectionOf[k] # key
        BY <1>1, <2>3, SectionsApart, ZenonT(30)
      <4>2. "ERRORS" \in Keys /\ "ERRORS" # key
        BY <1>1, SectionsApart, ZenonT(30) DEF Keys
      <4>3. QED
        BY <4>1, <4>2, ZenonT(30)
    <3>6. QED
      BY <3>4, <3>5, ToldStays, ZenonT(30)
  <2>4. QED
    BY <2>2, <2>3
<1>4. ~ (Index(at') > Index("GatherDownloadRequests"))
  <2>1. Index("GatherDownloadRequests") = 13
    BY Places
  <2>2. Index(at') \in 11..13
    BY <1>b, <1>2, NextPlace, ZenonT(30)
  <2>3. QED
    BY <2>1, <2>2
<1>5. Progress'
  <2>1. ~ (Index(at)' > Index("GatherDownloadRequests")')
    BY <1>4 DEF Index
  <2>2. at' = "Backups" /\ todo' # {} => Told("Backup", gathered["Backup"] \ todo)'
    BY <1>0, <1>2
  <2>3. at' = "Restores" /\ todo' # {} => Told("Restore", gathered["Restore"] \ todo)'
    BY <1>0, <1>2
  <2>4. QED
    BY <1>3, <2>1, <2>2, <2>3 DEF Progress
<1>6. RunTypeOK'
  BY <1>0, <1>1, <1>2, ZenonT(30) DEF RunInv, RunTypeOK, CallNames
<1>7. QED
  BY <1>5, <1>6 DEF RunInv

\* ReplaceBackupsSection and ReplaceRestoresSection start with every object of their
\* list waiting.
LEMMA StartStep ==
    ASSUME RunInv, NEW name, NEW kind, NEW key, Described(name, kind, key),
           StartDescribing(name, kind, key)
    PROVE  RunInv'
<1>1. /\ Call(name) /\ todo' = gathered[kind]
      /\ section' = IF gathered[kind] = {}
                    THEN [section EXCEPT ![key] = {NotFound(kind)}]
                    ELSE [section EXCEPT ![key] = @ \cup {Header(kind)}]
      /\ IF gathered[kind] = {} THEN Return(name) ELSE UNCHANGED <<at, exit>>
      /\ UNCHANGED <<cluster, requests, gathered, files, ns>>
  BY Zenon DEF StartDescribing
<1>2. key \in Keys /\ DOMAIN section = Keys
  BY DEF Described, Keys, RunInv, RunTypeOK
<1>3. DOMAIN section' = Keys /\ \A other \in Keys \ {key} : Kept(other)
  BY <1>1, <1>2, ZenonT(30) DEF Kept
<1>4. LinksResolve'
  <2>1. \A other \in Keys : \A i \in section'[other] :
            i \in section[other] \/ Resolved(i)
    BY <1>1, <1>2, PlainItems, ZenonT(30)
  <2>2. QED
    BY <1>1, <2>1, LinksStay, ZenonT(30) DEF RunInv
<1>5. Told(kind, gathered[kind] \ todo)'
  BY <1>1 DEF Told
<1>6. \A q \in requests' : Accepted("DownloadRequest", q)
  BY <1>1, ZenonT(30) DEF RunInv, RunTypeOK
<1>7. \/ todo' # {} /\ UNCHANGED <<at, exit>>
      \/ todo' = {} /\ Return(name)
  BY <1>1
<1>8. QED
  BY <1>1, <1>3, <1>4, <1>5, <1>6, <1>7, DescribeStep, ZenonT(30)

\* The DownloadRequest that describing an object creates is one the API server
\* accepts.
LEMMA StreamAccepted ==
    ASSUME NEW kind, NEW o, NEW answered \in BOOLEAN
    PROVE  Accepted("DownloadRequest", Stream(kind, o, answered))
BY SMTT(30) DEF Accepted, Phases, Stream

\* Describing one object adds its row and, when its phase is a failed one, its line
\* among the errors; the link to its log is shown only when the log was written.
LEMMA DescribeOneStep ==
    ASSUME RunInv, NEW name, NEW kind, NEW key, Described(name, kind, key),
           DescribeOne(name, kind, key)
    PROVE  RunInv'
<1>1. PICK o \in Upcoming, answered \in BOOLEAN :
        LET describe == FileOf(kind, o, "describe")
            logs == FileOf(kind, o, "logs")
            written == {describe} \cup IF answered THEN {logs} ELSE {}
            last == ~ \E p \in todo \ {o} : p.ns = o.ns
        IN
        /\ requests' = requests \cup {Stream(kind, o, answered)}
        /\ section' = [section EXCEPT
               ![key] = @ \cup {Row(kind, o),
                   Cell(kind, o, "describe", Written(kind, describe)),
                   Cell(kind, o, "logs", IF answered THEN Written(kind, logs)
                                         ELSE Text("timeout"))},
               !["ERRORS"] = @ \cup IF o \in Troubled(kind, FailedOperation)
                                    THEN {Problem(kind, o)} ELSE {}]
        /\ files' = files \cup FilesOf(kind, written
                       \cup IF last THEN YAMLs(kind, {o}) ELSE {})
        /\ ns' = o.ns
        /\ todo' = todo \ {o}
        /\ IF todo = {o} THEN Return(name) ELSE UNCHANGED <<at, exit>>
  BY Zenon DEF DescribeOne
<1> DEFINE describe == FileOf(kind, o, "describe")
<1> DEFINE logs == FileOf(kind, o, "logs")
<1> DEFINE yaml == IF ~ \E p \in todo \ {o} : p.ns = o.ns THEN YAMLs(kind, {o}) ELSE {}
<1> DEFINE written == {describe} \cup IF answered THEN {logs} ELSE {}
<1> DEFINE first == Cell(kind, o, "describe", Written(kind, describe))
<1> DEFINE second == Cell(kind, o, "logs", IF answered THEN Written(kind, logs)
                                           ELSE Text("timeout"))
<1> DEFINE trouble == IF o \in Troubled(kind, FailedOperation)
                      THEN {Problem(kind, o)} ELSE {}
<1>2. /\ Call(name) /\ UNCHANGED <<cluster, gathered>>
      /\ requests' = requests \cup {Stream(kind, o, answered)}
      /\ section' = [section EXCEPT ![key] = @ \cup {Row(kind, o), first, second},
                                    !["ERRORS"] = @ \cup trouble]
      /\ files' = files \cup FilesOf(kind, written \cup yaml)
      /\ todo' = todo \ {o}
      /\ IF todo = {o} THEN Return(name) ELSE UNCHANGED <<at, exit>>
  BY <1>1, ZenonT(30) DEF DescribeOne
<1>3. /\ key \in Keys /\ key # "ERRORS" /\ "ERRORS" \in Keys /\ DOMAIN section = Keys
      /\ kind \in {"Backup", "Restore"} /\ SectionOf[kind] = key
  <2>1. key \in Keys /\ key # "ERRORS" /\ "ERRORS" \in Keys
    BY DEF Described, Keys
  <2>2. DOMAIN section = Keys
    BY ZenonT(30) DEF RunInv, RunTypeOK
  <2>3. kind \in {"Backup", "Restore"} /\ SectionOf[kind] = key
    BY DescribedSection, ZenonT(30)
  <2>4. QED
    BY <2>1, <2>2, <2>3
<1>4. o \in todo /\ todo \subseteq gathered[kind] /\ Accepted(kind, o)
  <2>1. o \in todo
    BY ZenonT(30) DEF Upcoming
  <2>2. todo \subseteq gathered[kind]
    BY <1>2, <2>1, ZenonT(30) DEF Described, Call, RunInv, RunTypeOK
  <2>3. kind \in Kinds
    BY <1>3, SMTT(30) DEF Kinds, Tabled
  <2>4. QED
    BY <2>1, <2>2, <2>3 DEF RunInv, RunTypeOK
<1>5. Told(kind, gathered[kind] \ todo)
  BY <1>2, <1>4, Zenon DEF Described, Call, RunInv, Progress
<1>6. Resolved(first) /\ Resolved(second)
  <2>1. FilesOf(kind, written \cup yaml) \subseteq files'
    BY <1>2
  <2>2. Resolved(Written(kind, describe))
    BY <2>1, WrittenResolves, Zenon
  <2>3. answered => Resolved(Written(kind, logs))
    BY <2>1, WrittenResolves, Zenon
  <2>4. \A what, value : Resolved(value) => Resolved(Cell(kind, o, what, value))
    BY Zenon DEF Cell, Resolved
  <2> HIDE DEF describe, logs
  <2>5. QED
    BY <2>2, <2>3, <2>4, PlainItems
<1> HIDE DEF written, yaml
<1>7. \A i \in trouble : Resolved(i)
  BY PlainItems
<1>8. o.phase \in FailurePhases \cup {""} => Problem(kind, o) \in trouble
  <2>1. o.phase \in Phases(kind)
    BY <1>3, <1>4 DEF Accepted, Tabled
  <2>2. Phases(kind) \cap (FailurePhases \cup {""}) \subseteq FailedOperation \cup {""}
    BY <1>3, ZenonT(30) DEF Phases, FailurePhases, FailedOperation
  <2>3. QED
    BY <1>4, <2>1, <2>2 DEF Troubled
<1> HIDE DEF first, second, trouble
<1>9. /\ DOMAIN section' = Keys
      /\ \A other \in Keys : Kept(other)
      /\ section'[key] = section[key] \cup {Row(kind, o), first, second}
      /\ section'["ERRORS"] = section["ERRORS"] \cup trouble
      /\ \A other \in Keys \ {key, "ERRORS"} : section'[other] = section[other]
  BY <1>2, <1>3 DEF Kept
<1>10. LinksResolve'
  <2>1. \A other \in Keys : \A i \in section'[other] :
            i \in section[other] \/ Resolved(i)
    <3>1. Resolved(Row(kind, o))
      BY PlainItems, Zenon
    <3>2. \A i \in section'[key] : i \in section[key] \/ Resolved(i)
      BY <1>6, <1>9, <3>1, Zenon
    <3>3. \A i \in section'["ERRORS"] : i \in section["ERRORS"] \/ Resolved(i)
      BY <1>7, <1>9, Zenon
    <3>4. \A other \in Keys \ {key, "ERRORS"} :
              \A i \in section'[other] : i \in section[other]
      BY <1>9, Zenon
    <3>5. QED
      BY <3>2, <3>3, <3>4, ZenonT(30)
  <2>2. QED
    BY <1>2, <2>1, LinksStay, ZenonT(30) DEF RunInv
<1>11. Told(kind, gathered[kind] \ todo)'
  <2>1. gathered[kind] \ todo' = (gathered[kind] \ todo) \cup {o}
    <3>1. todo' = todo \ {o}
      BY <1>2, Zenon
    <3>2. o \in todo /\ todo \subseteq gathered[kind]
      BY <1>4, Zenon
    <3>3. QED
      BY <3>1, <3>2
  <2>2. \A p \in gathered[kind] \ todo' : Row(kind, p) \in section'[key]
    BY <1>3, <1>5, <1>9, <2>1, Zenon DEF Told
  <2>3. kind \in Reported =>
          \A p \in gathered[kind] \ todo' : p.phase \in FailurePhases \cup {""} =>
              Problem(kind, p) \in section'["ERRORS"]
    BY <1>5, <1>8, <1>9, <2>1, ZenonT(30) DEF Told
  <2>4. QED
    BY <1>2, <1>3, <2>2, <2>3 DEF Told, Row, Problem
<1>12. \A q \in requests' : Accepted("DownloadRequest", q)
  <2>1. Accepted("DownloadRequest", Stream(kind, o, answered))
    BY <1>3, <1>4, StreamAccepted, ZenonT(30)
  <2>2. QED
    BY <1>2, <2>1, Zenon DEF RunInv, RunTypeOK
<1>13. \/ todo' # {} /\ UNCHANGED <<at, exit>>
       \/ todo' = {} /\ Return(name)
  BY <1>2, <1>4, ZenonT(30)
<1>14. todo' \subseteq gathered[kind] /\ UNCHANGED <<cluster, gathered>>
  BY <1>2, <1>4
<1>15. QED
  BY <1>2, <1>9, <1>10, <1>11, <1>12, <1>13, <1>14, DescribeStep, Zenon

-----------------------------------------------------------------------------
(* The tables, one by one.                                                 *)

\* Of the phases an object of a kind can have, those that mean failure are the ones
\* the kind's section function looks for.
LEMMA TroubledSuffices ==
    ASSUME RunInv, NEW kind \in Tabled, NEW failed,
           Phases(kind) \cap FailurePhases \subseteq failed
    PROVE  InTrouble(kind, Troubled(kind, failed))
<1>1. kind \in Kinds
  BY DEF Kinds
<1>2. \A o \in gathered[kind] : o.phase \in Phases(kind)
  BY <1>1 DEF RunInv, RunTypeOK, Accepted
<1>3. QED
  BY <1>2 DEF InTrouble, Troubled

\* The section functions that report no phase of their objects but the failed ones.
LEMMA TroubledTables ==
    ASSUME RunInv,
           \/ ReplaceSchedulesSection
           \/ ReplaceBackupRepositoriesSection
           \/ ReplaceDataUploadsSection
           \/ ReplaceDataDownloadsSection
           \/ ReplacePodVolumeBackupsSection
           \/ ReplacePodVolumeRestoresSection
           \/ ReplaceDownloadRequestsSection
           \/ ReplaceDeleteBackupRequestsSection
           \/ ReplaceServerStatusRequestsSection
           \/ ReplaceNonAdminBackupStorageLocationRequestsSection
           \/ ReplaceNonAdminBackupsSection
           \/ ReplaceNonAdminRestoresSection
           \/ ReplaceNonAdminDownloadRequestsSection
    PROVE  RunInv'
<1>1. CASE ReplaceSchedulesSection
  <2>1. Due("Schedules", "Schedule",
            "SCHEDULES")
    BY DEF Due, Tabled, SectionFunction, SectionOf
  <2>2. Phases("Schedule") \cap FailurePhases \subseteq {"FailedValidation"}
    BY DEF Phases, FailurePhases
  <2>3. InTrouble("Schedule",
                  Troubled("Schedule", {"FailedValidation"}))
    BY <2>2, TroubledSuffices DEF Tabled
  <2>4. QED
    BY <1>1, <2>1, <2>3, TableStep, ZenonT(30) DEF ReplaceSchedulesSection
<1>2. CASE ReplaceBackupRepositoriesSection
  <2>1. Due("BackupRepositories", "BackupRepository",
            "BACKUPS_REPOSITORIES")
    BY DEF Due, Tabled, SectionFunction, SectionOf
  <2>2. Phases("BackupRepository") \cap FailurePhases \subseteq {"NotReady"}
    BY DEF Phases, FailurePhases
  <2>3. InTrouble("BackupRepository",
                  Troubled("BackupRepository", {"NotReady"}))
    BY <2>2, TroubledSuffices DEF Tabled
  <2>4. QED
    BY <1>2, <2>1, <2>3, TableStep, ZenonT(30) DEF ReplaceBackupRepositoriesSection
<1>3. CASE ReplaceDataUploadsSection
  <2>1. Due("DataUploads", "DataUpload",
            "DATA_UPLOADS")
    BY DEF Due, Tabled, SectionFunction, SectionOf
  <2>2. Phases("DataUpload") \cap FailurePhases \subseteq FailedTransfer
    BY DEF Phases, FailurePhases, FailedTransfer
  <2>3. InTrouble("DataUpload",
                  Troubled("DataUpload", FailedTransfer))
    BY <2>2, TroubledSuffices DEF Tabled
  <2>4. QED
    BY <1>3, <2>1, <2>3, TableStep, ZenonT(30) DEF ReplaceDataUploadsSection
<1>4. CASE ReplaceDataDownloadsSection
  <2>1. Due("DataDownloads", "DataDownload",
            "DATA_DOWNLOADS")
    BY DEF Due, Tabled, SectionFunction, SectionOf
  <2>2. Phases("DataDownload") \cap FailurePhases \subseteq FailedTransfer
    BY DEF Phases, FailurePhases, FailedTransfer
  <2>3. InTrouble("DataDownload",
                  Troubled("DataDownload", FailedTransfer))
    BY <2>2, TroubledSuffices DEF Tabled
  <2>4. QED
    BY <1>4, <2>1, <2>3, TableStep, ZenonT(30) DEF ReplaceDataDownloadsSection
<1>5. CASE ReplacePodVolumeBackupsSection
  <2>1. Due("PodVolumeBackups", "PodVolumeBackup",
            "POD_VOLUME_BACKUPS")
    BY DEF Due, Tabled, SectionFunction, SectionOf
  <2>2. Phases("PodVolumeBackup") \cap FailurePhases \subseteq {"Failed"}
    BY DEF Phases, FailurePhases
  <2>3. InTrouble("PodVolumeBackup",
                  Troubled("PodVolumeBackup", {"Failed"}))
    BY <2>2, TroubledSuffices DEF Tabled
  <2>4. QED
    BY <1>5, <2>1, <2>3, TableStep, ZenonT(30) DEF ReplacePodVolumeBackupsSection
<1>6. CASE ReplacePodVolumeRestoresSection
  <2>1. Due("PodVolumeRestores", "PodVolumeRestore",
            "POD_VOLUME_RESTORES")
    BY DEF Due, Tabled, SectionFunction, SectionOf
  <2>2. Phases("PodVolumeRestore") \cap FailurePhases \subseteq {"Failed"}
    BY DEF Phases, FailurePhases
  <2>3. InTrouble("PodVolumeRestore",
                  Troubled("PodVolumeRestore", {"Failed"}))
    BY <2>2, TroubledSuffices DEF Tabled
  <2>4. QED
    BY <1>6, <2>1, <2>3, TableStep, ZenonT(30) DEF ReplacePodVolumeRestoresSection
<1>7. CASE ReplaceDownloadRequestsSection
  <2>1. Due("DownloadRequests", "DownloadRequest",
            "DOWNLOAD_REQUESTS")
    BY DEF Due, Tabled, SectionFunction, SectionOf
  <2>2. Phases("DownloadRequest") \cap FailurePhases \subseteq {}
    BY DEF Phases, FailurePhases
  <2>3. InTrouble("DownloadRequest",
                  Troubled("DownloadRequest", {}))
    BY <2>2, TroubledSuffices DEF Tabled
  <2>4. QED
    BY <1>7, <2>1, <2>3, TableStep, ZenonT(30) DEF ReplaceDownloadRequestsSection
<1>8. CASE ReplaceDeleteBackupRequestsSection
  <2>1. Due("DeleteBackupRequests", "DeleteBackupRequest",
            "DELETE_BACKUP_REQUESTS")
    BY DEF Due, Tabled, SectionFunction, SectionOf
  <2>2. Phases("DeleteBackupRequest") \cap FailurePhases \subseteq {}
    BY DEF Phases, FailurePhases
  <2>3. InTrouble("DeleteBackupRequest",
                  Troubled("DeleteBackupRequest", {}))
    BY <2>2, TroubledSuffices DEF Tabled
  <2>4. QED
    BY <1>8, <2>1, <2>3, TableStep, ZenonT(30) DEF ReplaceDeleteBackupRequestsSection
<1>9. CASE ReplaceServerStatusRequestsSection
  <2>1. Due("ServerStatusRequests", "ServerStatusRequest",
            "SERVER_STATUS_REQUESTS")
    BY DEF Due, Tabled, SectionFunction, SectionOf
  <2>2. Phases("ServerStatusRequest") \cap FailurePhases \subseteq {}
    BY DEF Phases, FailurePhases
  <2>3. InTrouble("ServerStatusRequest",
                  Troubled("ServerStatusRequest", {}))
    BY <2>2, TroubledSuffices DEF Tabled
  <2>4. QED
    BY <1>9, <2>1, <2>3, TableStep, ZenonT(30) DEF ReplaceServerStatusRequestsSection
<1>10. CASE ReplaceNonAdminBackupStorageLocationRequestsSection
  <2>1. Due("NonAdminBackupStorageLocationRequests", "NonAdminBackupStorageLocationRequest",
            "NON_ADMIN_BACKUP_STORAGE_LOCATION_REQUESTS")
    BY DEF Due, Tabled, SectionFunction, SectionOf
  <2>2. Phases("NonAdminBackupStorageLocationRequest") \cap FailurePhases \subseteq {"Rejected"}
    BY DEF Phases, FailurePhases
  <2>3. InTrouble("NonAdminBackupStorageLocationRequest",
                  Troubled("NonAdminBackupStorageLocationRequest", {"Rejected"}))
    BY <2>2, TroubledSuffices DEF Tabled
  <2>4. QED
    BY <1>10, <2>1, <2>3, TableStep, ZenonT(30) DEF ReplaceNonAdminBackupStorageLocationRequestsSection
<1>11. CASE ReplaceNonAdminBackupsSection
  <2>1. Due("NonAdminBackups", "NonAdminBackup",
            "NON_ADMIN_BACKUPS")
    BY DEF Due, Tabled, SectionFunction, SectionOf
  <2>2. Phases("NonAdminBackup") \cap FailurePhases \subseteq {"BackingOff"}
    BY DEF Phases, FailurePhases
  <2>3. InTrouble("NonAdminBackup",
                  Troubled("NonAdminBackup", {"BackingOff"}))
    BY <2>2, TroubledSuffices DEF Tabled
  <2>4. QED
    BY <1>11, <2>1, <2>3, TableStep, ZenonT(30) DEF ReplaceNonAdminBackupsSection
<1>12. CASE ReplaceNonAdminRestoresSection
  <2>1. Due("NonAdminRestores", "NonAdminRestore",
            "NON_ADMIN_RESTORES")
    BY DEF Due, Tabled, SectionFunction, SectionOf
  <2>2. Phases("NonAdminRestore") \cap FailurePhases \subseteq {"BackingOff"}
    BY DEF Phases, FailurePhases
  <2>3. InTrouble("NonAdminRestore",
                  Troubled("NonAdminRestore", {"BackingOff"}))
    BY <2>2, TroubledSuffices DEF Tabled
  <2>4. QED
    BY <1>12, <2>1, <2>3, TableStep, ZenonT(30) DEF ReplaceNonAdminRestoresSection
<1>13. CASE ReplaceNonAdminDownloadRequestsSection
  <2>1. Due("NonAdminDownloadRequests", "NonAdminDownloadRequest",
            "NON_ADMIN_DOWNLOAD_REQUESTS")
    BY DEF Due, Tabled, SectionFunction, SectionOf
  <2>2. Phases("NonAdminDownloadRequest") \cap FailurePhases \subseteq {"BackingOff"}
    BY DEF Phases, FailurePhases
  <2>3. InTrouble("NonAdminDownloadRequest",
                  Troubled("NonAdminDownloadRequest", {"BackingOff"}))
    BY <2>2, TroubledSuffices DEF Tabled
  <2>4. QED
    BY <1>13, <2>1, <2>3, TableStep, ZenonT(30) DEF ReplaceNonAdminDownloadRequestsSection
<1>14. QED
  BY <1>1, <1>2, <1>3, <1>4, <1>5, <1>6, <1>7, <1>8, <1>9, <1>10, <1>11, <1>12, <1>13

\* A DataProtectionApplication is reported unless its condition is True, a location
\* unless it is available; a VolumeSnapshotLocation and a test are not reported, and
\* a test without metadata ends the run.
LEMMA OtherTables ==
    ASSUME RunInv,
           \/ ReplaceDataProtectionApplicationsSection
           \/ ReplaceDataProtectionTestsSection
           \/ ReplaceBackupStorageLocationsSection
           \/ ReplaceVolumeSnapshotLocationsSection
           \/ ReplaceNonAdminBackupStorageLocationsSection
    PROVE  RunInv'
<1>1. CASE ReplaceDataProtectionApplicationsSection
  <2> DEFINE problems == {d \in gathered["DataProtectionApplication"] :
                              d.phase # "True" \/ d.extra = "overrides"}
  <2>1. Due("DataProtectionApplications", "DataProtectionApplication",
            "DATA_PROTECTION_APPLICATIONS")
    BY DEF Due, Tabled, SectionFunction, SectionOf
  <2>2. InTrouble("DataProtectionApplication", problems)
    BY ZenonT(30) DEF InTrouble, FailurePhases
  <2>3. QED
    BY <1>1, <2>1, <2>2, TableStep, ZenonT(30) DEF ReplaceDataProtectionApplicationsSection
<1>2. CASE ReplaceDataProtectionTestsSection
  <2>1. Due("DataProtectionTests", "DataProtectionTest", "DATA_PROTECTION_TESTS")
    BY DEF Due, Tabled, SectionFunction, SectionOf
  <2>2. InTrouble("DataProtectionTest", {})
    BY DEF InTrouble, Reported
  <2>3. CASE /\ Call("DataProtectionTests")
             /\ Fail("panic")
             /\ UNCHANGED <<cluster, requests, gathered, section, files, todo, ns>>
    <3>1. LinksResolve' /\ DOMAIN section' = Keys
      BY <2>3 DEF RunInv, LinksResolve, RunTypeOK
    <3>2. QED
      BY <2>3, <3>1, FailStep, ZenonT(30) DEF Call
  <2>4. CASE Table("DataProtectionTests", "DataProtectionTest",
                   "DATA_PROTECTION_TESTS", {}, TRUE)
    BY <2>1, <2>2, <2>4, TableStep, Zenon
  <2>5. QED
    BY <1>2, <2>3, <2>4, Zenon DEF ReplaceDataProtectionTestsSection
<1>3. CASE ReplaceBackupStorageLocationsSection
  <2> DEFINE problems == {b \in gathered["BackupStorageLocation"] : b.phase # "Available"}
  <2>1. Due("BackupStorageLocations", "BackupStorageLocation", "BACKUP_STORAGE_LOCATIONS")
    BY DEF Due, Tabled, SectionFunction, SectionOf
  <2>2. InTrouble("BackupStorageLocation", problems)
    BY DEF InTrouble, FailurePhases
  <2>3. QED
    BY <1>3, <2>1, <2>2, TableStep, ZenonT(30) DEF ReplaceBackupStorageLocationsSection
<1>4. CASE ReplaceVolumeSnapshotLocationsSection
  <2>1. Due("VolumeSnapshotLocations", "VolumeSnapshotLocation",
            "VOLUME_SNAPSHOT_LOCATIONS")
    BY DEF Due, Tabled, SectionFunction, SectionOf
  <2>2. InTrouble("VolumeSnapshotLocation", {})
    BY DEF InTrouble, Reported
  <2>3. QED
    BY <1>4, <2>1, <2>2, TableStep, ZenonT(30) DEF ReplaceVolumeSnapshotLocationsSection
<1>5. CASE ReplaceNonAdminBackupStorageLocationsSection
  <2> DEFINE kind == "NonAdminBackupStorageLocation"
  <2> DEFINE problems == Troubled("NonAdminBackupStorageLocation", {"BackingOff"})
                         \cup {b \in gathered["NonAdminBackupStorageLocation"] :
                                   b.extra = "no approval"}
  <2>1. Due("NonAdminBackupStorageLocations", "NonAdminBackupStorageLocation",
            "NON_ADMIN_BACKUP_STORAGE_LOCATIONS")
    BY DEF Due, Tabled, SectionFunction, SectionOf
  <2>2. Phases(kind) \cap FailurePhases \subseteq {"BackingOff"}
    BY DEF Phases, FailurePhases
  <2>3. InTrouble(kind, Troubled(kind, {"BackingOff"}))
    BY <2>2, TroubledSuffices DEF Tabled
  <2>4. InTrouble(kind, problems)
    BY <2>3 DEF InTrouble
  <2>5. QED
    BY <1>5, <2>1, <2>4, TableStep, ZenonT(30) DEF ReplaceNonAdminBackupStorageLocationsSection
<1>6. QED
  BY <1>1, <1>2, <1>3, <1>4, <1>5

-----------------------------------------------------------------------------
(* The theorems.                                                           *)

\* The invariant holds when RunE starts.
LEMMA InitInv ==
    ASSUME RunInit
    PROVE  RunInv
<1>1. "ClusterVersion" \in CallNames
  BY Indexed DEF Calls
<1>2. \A q \in requests : Accepted("DownloadRequest", q)
  <2>1. "DownloadRequest" \in Kinds
    BY DEF Kinds, Tabled
  <2>2. QED
    BY <2>1, ClusterAssumption DEF RunInit
<1>3. RunTypeOK
  BY <1>1, <1>2 DEF RunInit, RunTypeOK, CallNames
<1>4. LinksResolve
  BY DEF RunInit, LinksResolve
<1>5. \A k \in Tabled : gathered[k] = {}
  BY DEF RunInit, Kinds
<1>6. Progress
  <2>1. \A k \in Tabled \ {"CloudStorage"} : Told(k, gathered[k])
    BY <1>5 DEF Told
  <2>2. ~ (Index(at) > Index("GatherDownloadRequests"))
    <3>1. Index(at) = 1 /\ Index("GatherDownloadRequests") = 13
      BY Places DEF RunInit
    <3>2. QED
      BY <3>1
  <2>3. QED
    BY <2>1, <2>2 DEF Progress, RunInit
<1>7. QED
  BY <1>3, <1>4, <1>6 DEF RunInv

\* Every call of RunE, and every step of the Velero server beside it, keeps the
\* invariant.
LEMMA NextInv ==
    ASSUME RunInv, [RunNext]_runVars
    PROVE  RunInv'
<1>1. CASE RunE
  <2>1. CASE GatherClusterVersion
    BY <2>1, ClusterVersionStep
  <2>2. CASE GatherLists
    BY <2>2, GatherListsStep
  <2>3. CASE ReplaceMustGatherVersion
    BY <2>3, VersionStep
  <2>4. CASE ReplaceClusterInformationSection
    BY <2>4, ClusterInformationStep
  <2>5. CASE ReplaceOADPOperatorInstallationSection
    BY <2>5, InstallationStep
  <2>6. CASE ReplaceCloudStoragesSection
    BY <2>6, CloudStoragesStep
  <2>7. CASE ReplaceBackupsSection
    BY <2>7, StartStep, DescribeOneStep DEF ReplaceBackupsSection, Described
  <2>8. CASE ReplaceRestoresSection
    BY <2>8, StartStep, DescribeOneStep DEF ReplaceRestoresSection, Described
  <2>9. CASE GatherDownloadRequests
    BY <2>9, GatherDownloadRequestsStep
  <2>10. CASE ReplaceAvailableStorageClassesSection
    BY <2>10, AvailableStep
       DEF ReplaceAvailableStorageClassesSection, Elsewhere, ClusterKeys
  <2>11. CASE ReplaceAvailableVolumeSnapshotClassesSection
    BY <2>11, AvailableStep
       DEF ReplaceAvailableVolumeSnapshotClassesSection, Elsewhere, ClusterKeys
  <2>12. CASE ReplaceAvailableCSIDriversSection
    BY <2>12, AvailableStep
       DEF ReplaceAvailableCSIDriversSection, Elsewhere, ClusterKeys
  <2>13. CASE ReplaceCustomResourceDefinitionsSection
    BY <2>13, CustomResourceDefinitionsStep
  <2>14. CASE WriteVersion
    BY <2>14, WriteVersionStep
  <2>15. CASE Write
    BY <2>15, WriteStep
  <2>16. QED
    BY <1>1, <2>1, <2>2, <2>3, <2>4, <2>5, <2>6, <2>7, <2>8, <2>9, <2>10, <2>11,
       <2>12, <2>13, <2>14, <2>15, TroubledTables, OtherTables, Zenon DEF RunE
<1>2. CASE AnswerLate \/ Expire
  BY <1>2, ServerStep
<1>3. CASE UNCHANGED runVars
  <2>1. UNCHANGED <<cluster, requests, gathered, section, files, todo, at, exit>>
    BY <1>3 DEF runVars
  <2>2. RunTypeOK' /\ LinksResolve'
    BY <2>1, ZenonT(30) DEF RunInv, RunTypeOK, LinksResolve
  <2>3. Progress'
    BY <2>1, ZenonT(30) DEF RunInv, Progress, Returned, Told, Row, Problem, Index
  <2>4. QED
    BY <2>2, <2>3 DEF RunInv
<1>4. QED
  BY <1>1, <1>2, <1>3 DEF RunNext

\* The invariant holds throughout every run of the tool.
LEMMA Invariance == RunSpec => []RunInv
<1>1. RunInit => RunInv
  BY InitInv
<1>2. RunInv /\ [RunNext]_runVars => RunInv'
  BY NextInv
<1>3. QED
  BY <1>1, <1>2, PTL DEF RunSpec

\* Lists, sections and waiting objects have their types in every run of must-gather,
\* and objects wait only in the two functions that describe them.
THEOREM RunTypeCorrect == RunSpec => []RunTypeOK
<1>1. RunInv => RunTypeOK
  BY DEF RunInv
<1>2. QED
  BY <1>1, Invariance, PTL

\* Whatever createYAML and createFile cannot write, no section ever shows a link to
\* a file that is not there.
THEOREM LinksAlwaysResolve == RunSpec => []LinksResolve
<1>1. RunInv => LinksResolve
  BY DEF RunInv
<1>2. QED
  BY <1>1, Invariance, PTL

\* When Write has succeeded every section function has returned.
LEMMA WrittenMeansTold ==
    ASSUME RunInv, exit = "ok", NEW k \in Tabled \ {"CloudStorage"}
    PROVE  Told(k, gathered[k])
<1>1. Index(at) = 34
  BY Places DEF RunInv, RunTypeOK
<1>2. Returned(k)
  BY <1>1, SectionsApart, SMTT(30) DEF Returned
<1>3. QED
  BY <1>2 DEF RunInv, Progress

\* A written summary has a row for every object that was gathered, for any cluster:
\* no section function overwrites the table of another.
THEOREM RowsAreComplete == RunSpec => []RowsComplete
<1>1. RunInv => RowsComplete
  BY WrittenMeansTold DEF RowsComplete, ListedIn, Told
<1>2. QED
  BY <1>1, Invariance, PTL

\* A written summary lists every gathered object in a failure phase, or without a
\* phase, among its errors, for any cluster whose phases its CRDs allow.
THEOREM ProblemsAreReported == RunSpec => []ProblemsReported
<1>1. RunInv => ProblemsReported
  BY WrittenMeansTold DEF ProblemsReported, Told, Reported
<1>2. QED
  BY <1>1, Invariance, PTL

\* A DownloadRequest without a phase, those the tool made itself included, is among
\* the errors of a written summary when DownloadRequests can be listed: RunE lists
\* them after describing, and nothing is described later.
THEOREM TimeoutsAreReported == RunSpec => []TimeoutsReported
<1>1. ASSUME RunInv, exit = "ok", cluster["DownloadRequest"].listable,
             NEW q \in requests, q.phase = ""
      PROVE  Problem("DownloadRequest", q) \in section["ERRORS"]
  <2>1. Index(at) > Index("GatherDownloadRequests")
    <3>1. Index(at) = 34 /\ Index("GatherDownloadRequests") = 13
      BY <1>1, Places DEF RunInv, RunTypeOK
    <3>2. QED
      BY <3>1
  <2>2. gathered["DownloadRequest"] = requests
    BY <1>1, <2>1 DEF RunInv, Progress
  <2>3. "DownloadRequest" \in Tabled \ {"CloudStorage"} /\ "DownloadRequest" \in Reported
    BY DEF Tabled, Reported
  <2>4. Told("DownloadRequest", gathered["DownloadRequest"])
    BY <1>1, <2>3, WrittenMeansTold
  <2>5. QED
    BY <1>1, <2>2, <2>3, <2>4 DEF Told
<1>2. RunInv => TimeoutsReported
  BY <1>1 DEF TimeoutsReported
<1>3. QED
  BY <1>2, Invariance, PTL

-----------------------------------------------------------------------------
(* The CloudStorage controller.                                            *)

Budgets == [requests : Nat, annotates : Nat, edits : Nat, faults : Nat, restarts : Nat]

(* Spending keeps the budget well typed. *)
LEMMA SpendType ==
    ASSUME TypeOK, NEW what \in {"requests", "annotates", "edits", "faults", "restarts"},
           Spend(what)
    PROVE  budget' \in Budgets
  <1>1. budget \in Budgets
    BY DEF TypeOK, Budgets
  <1> QED
    BY <1>1 DEF Spend, Budgets

(* What a write through Update may do. *)
LEMMA UpdateEffect ==
    ASSUME TypeOK, NEW new \in CRs, Update(new)
    PROVE  /\ cr' \in CRs /\ event' \in {"none", "quiet", "wake"} /\ current' \in BOOLEAN
           /\ budget' \in Budgets
           /\ \/ current /\ Store(new, FALSE)
              \/ UNCHANGED <<cr, event, current>>
  <1>1. CASE current /\ Store(new, FALSE) /\ UNCHANGED budget
    BY <1>1, Zenon DEF Store, TypeOK, Budgets
  <1>2. CASE ~current /\ UNCHANGED <<cr, event, current, budget>>
    BY <1>2 DEF TypeOK, Budgets
  <1>3. CASE Spend("faults") /\ UNCHANGED <<cr, event, current>>
    BY <1>3, SpendType DEF TypeOK
  <1> QED
    BY <1>1, <1>2, <1>3, Zenon DEF Update

(* Changing one field of a CR gives a CR. *)
LEMMA CRExcept ==
    ASSUME NEW c \in CRs
    PROVE  /\ \A l \in {"gone", "bare", "protected", "deleting"} :
                 /\ [c EXCEPT !.life = l] \in CRs
                 /\ [c EXCEPT !.life = l].life = l
           /\ \A a \in Anns : [c EXCEPT !.ann = a] \in CRs /\ [c EXCEPT !.ann = a].life = c.life
           /\ [c EXCEPT !.synced = "yes"] \in CRs
           /\ [c EXCEPT !.synced = "yes"].life = c.life
  BY DEF CRs

(* The initial state has the right types. *)
LEMMA TypeInit == Init => TypeOK
  <1> SUFFICES ASSUME Init PROVE TypeOK
    OBVIOUS
  <1>1. cr \in CRs
    BY DEF Init, CRs, Anns
  <1>2. budget \in [requests : Nat, annotates : Nat, edits : Nat, faults : Nat, restarts : Nat]
    BY BoundAssumption DEF Init
  <1> QED
    BY <1>1, <1>2, Zenon DEF Init, TypeOK

(* Every step keeps the types. *)
LEMMA TypeNext == TypeOK /\ [Next]_vars => TypeOK'
  <1> SUFFICES ASSUME TypeOK, [Next]_vars PROVE TypeOK'
    OBVIOUS
  <1>cr. cr \in CRs
    BY DEF TypeOK
  <1>1. ASSUME NEW a \in Anns, UserCreate(a) PROVE TypeOK'
    <2>1. [life |-> "bare", ann |-> a, synced |-> "no"] \in CRs
      BY DEF CRs
    <2> QED
      BY <1>1, <2>1, SpendType, Zenon DEF UserCreate, Store, TypeOK, Budgets
  <1>2. ASSUME NEW a \in Anns, UserAnnotate(a) PROVE TypeOK'
    BY <1>cr, <1>2, CRExcept, SpendType, Zenon DEF UserAnnotate, Store, TypeOK, Budgets
  <1>3. CASE UserEdit
    BY <1>3, SpendType, Zenon DEF UserEdit, Store, TypeOK, Budgets
  <1>4. CASE UserDelete
    <2>1. cr' \in CRs
      BY <1>4, <1>cr DEF UserDelete, Store, CRs
    <2> QED
      BY <1>4, <2>1, Zenon DEF UserDelete, Store, TypeOK
  <1>5. CASE Inform
    BY <1>5 DEF Inform, TypeOK
  <1>6. CASE Start
    BY <1>6, Zenon DEF Start, Requeue, StepFor, TypeOK
  <1>7. CASE AddFinalizer
    BY <1>7, <1>cr, CRExcept, UpdateEffect, Zenon DEF AddFinalizer, Requeue, TypeOK, Budgets
  <1>8. CASE DeleteBucket
    BY <1>8, Zenon DEF DeleteBucket, Requeue, TypeOK
  <1>9. CASE RemoveFinalizer
    BY <1>9, <1>cr, CRExcept, UpdateEffect, Zenon DEF RemoveFinalizer, Requeue, TypeOK, Budgets
  <1>10. CASE BucketExists \/ CreateBucket
    BY <1>10 DEF BucketExists, CreateBucket, TypeOK
  <1>11. CASE ProviderFails
    BY <1>11, SpendType DEF ProviderFails, Requeue, TypeOK, Budgets
  <1>12. CASE UpdateStatus
    BY <1>12, <1>cr, CRExcept, UpdateEffect, ZenonT(30) DEF UpdateStatus, TypeOK, Budgets
  <1>13. CASE Restart
    BY <1>13, SpendType DEF Restart, TypeOK, Budgets
  <1>14. CASE UNCHANGED vars
    BY <1>14 DEF vars, TypeOK
  <1> QED
    BY <1>1, <1>2, <1>3, <1>4, <1>5, <1>6, <1>7, <1>8, <1>9, <1>10, <1>11, <1>12, <1>13, <1>14
    DEF Next, Worker, User

(* The variables always have their types. *)
THEOREM TypeCorrect == Spec => []TypeOK
  BY TypeInit, TypeNext, PTL DEF Spec

-----------------------------------------------------------------------------
(* The invariant holds initially. *)
LEMMA IInvInit == Init => IInv
  <1> SUFFICES ASSUME Init PROVE IInv
    OBVIOUS
  <1>1. cr.life = "gone" /\ cache = cr /\ pc = "idle" /\ event = "none"
    BY DEF Init
  <1>2. CacheLag /\ Knows /\ Settled /\ NoOrphan
    BY <1>1 DEF Init, CacheLag, Knows, Settled, NoOrphan
  <1> QED
    BY <1>2, TypeInit DEF IInv

Parts == CacheLag /\ Knows /\ Settled /\ NoOrphan

(* A user's write leaves worker and cache alone, wakes the worker unless   *)
(* it is an annotation, and never takes a CR with the finalizer away.      *)
LEMMA UserKeeps ==
    ASSUME IInv, TypeOK', UNCHANGED <<cache, queued, pc, read, bucket>>, current' = FALSE,
           event' \in {"quiet", "wake"},
           event = "wake" => event' = "wake",
           cr'.life = cr.life \/ event' = "wake",
           \/ cr'.life = cr.life
           \/ cr.life \in {"gone", "bare"} /\ cr'.life \in {"gone", "bare"}
           \/ cr.life = "protected" /\ cr'.life = "deleting"
    PROVE  Parts'
  <1>1. CacheLag'
    BY DEF IInv, CacheLag, Protected, NoOrphan
  <1>2. Knows'
    BY DEF IInv, Knows, Protected
  <1>3. Settled'
    BY DEF IInv, Settled, Protected
  <1>4. NoOrphan'
    BY DEF IInv, NoOrphan
  <1> QED
    BY <1>1, <1>2, <1>3, <1>4 DEF Parts

(* Every step keeps the invariant. *)
LEMMA IInvNext == IInv /\ [Next]_vars => IInv'
  <1> SUFFICES ASSUME IInv, [Next]_vars PROVE Parts'
    BY TypeNext DEF IInv, Parts
  <1>t. TypeOK /\ TypeOK'
    BY TypeNext DEF IInv
  <1>cr. cr \in CRs
    BY <1>t DEF TypeOK
  <1>1. ASSUME NEW a \in Anns, UserCreate(a) PROVE Parts'
    BY <1>t, <1>1, UserKeeps, Zenon DEF UserCreate, Store, bucketPredicate, TypeOK
  <1>2. ASSUME NEW a \in Anns, UserAnnotate(a) PROVE Parts'
    <2>1. cr'.life = cr.life
      BY <1>2, <1>cr, CRExcept DEF UserAnnotate, Store
    <2> QED
      BY <1>t, <1>2, <2>1, UserKeeps, Zenon DEF UserAnnotate, Store, TypeOK
  <1>3. CASE UserEdit
    BY <1>t, <1>3, UserKeeps, Zenon DEF UserEdit, Store, TypeOK
  <1>4. CASE UserDelete
    <2>1. cr'.life = IF cr.life = "bare" THEN "gone" ELSE "deleting"
      BY <1>4, <1>cr DEF UserDelete, Store, CRs
    <2> QED
      BY <1>t, <1>4, <2>1, UserKeeps, Zenon DEF UserDelete, Store, bucketPredicate, TypeOK
  <1>5. CASE Inform
    <2>1. UNCHANGED <<cr, pc, read, current, bucket>> /\ cache' = cr /\ event' = "none"
          /\ (queued' \/ (~queued /\ event # "wake"))
      BY <1>5, <1>t, Zenon DEF Inform, TypeOK
    <2>2. CacheLag'
      BY <2>1 DEF CacheLag, Protected
    <2>3. Knows' /\ NoOrphan'
      BY <2>1 DEF IInv, Knows, NoOrphan
    <2>4. Settled'
      BY <2>1 DEF IInv, Settled
    <2> QED
      BY <2>2, <2>3, <2>4 DEF Parts
  <1>6. CASE Start
    <2>1. UNCHANGED <<cr, cache, event, bucket>> /\ read' = cache /\ (current' <=> event = "none")
      BY <1>6, Zenon DEF Start
    <2>2. CacheLag' /\ NoOrphan'
      BY <2>1 DEF IInv, CacheLag, NoOrphan
    <2>3. Knows'
      BY <1>6, <1>t, <2>1 DEF Start, StepFor, Requeue, IInv, CacheLag, Knows, Protected, TypeOK, CRs
    <2>4. Settled'
      BY <1>6, <2>1 DEF Start, StepFor, Requeue, IInv, CacheLag, Settled, TypeOK
    <2> QED
      BY <2>2, <2>3, <2>4 DEF Parts
  <1>7. CASE AddFinalizer
    <2>0. pc = "protect" /\ pc' = "idle" /\ queued' /\ UNCHANGED <<cache, read, bucket>>
      BY <1>7 DEF AddFinalizer, Requeue
    <2>1. CASE current /\ Store([cr EXCEPT !.life = "protected"], FALSE)
      <3>1. cr'.life = "protected" /\ event' # "none" /\ cache.life = "bare" /\ cr.life = "bare"
        BY <1>cr, <2>0, <2>1, CRExcept DEF Store, IInv, Knows
      <3> QED
        BY <2>0, <3>1 DEF Parts, CacheLag, Knows, Settled, NoOrphan, Protected
    <2>2. CASE UNCHANGED <<cr, event, current>>
      BY <2>0, <2>2 DEF IInv, Parts, CacheLag, Knows, Settled, NoOrphan
    <2> QED
      BY <1>7, <1>cr, <1>t, <2>1, <2>2, CRExcept, UpdateEffect, Zenon DEF AddFinalizer
  <1>8. CASE DeleteBucket
    <2>1. pc = "delete" /\ UNCHANGED <<cr, cache, event, read, current>>
      BY <1>8 DEF DeleteBucket
    <2>2. CASE bucket = "none" /\ pc' = "idle" /\ queued' /\ bucket' = bucket
      BY <2>1, <2>2 DEF IInv, Parts, CacheLag, Knows, Settled, NoOrphan
    <2>3. CASE bucket # "none" /\ bucket' = "none" /\ pc' = "release"
      BY <2>1, <2>3 DEF IInv, Parts, CacheLag, Knows, Settled, NoOrphan
    <2> QED
      BY <1>8, <2>2, <2>3 DEF DeleteBucket, Requeue
  <1>9. CASE RemoveFinalizer
    <2>0. pc = "release" /\ pc' = "idle" /\ queued' /\ UNCHANGED <<cache, read, bucket>>
      BY <1>9 DEF RemoveFinalizer, Requeue
    <2>1. CASE current /\ Store([cr EXCEPT !.life = "gone"], FALSE)
      <3>1. /\ cr'.life = "gone" /\ event' = "wake" /\ bucket = "none"
            /\ cache.life = "deleting" /\ cache.ann = "delete"
        BY <1>cr, <2>0, <2>1, CRExcept DEF Store, bucketPredicate, IInv, Knows
      <3> QED
        BY <2>0, <3>1 DEF Parts, CacheLag, Knows, Settled, NoOrphan, Protected
    <2>2. CASE UNCHANGED <<cr, event, current>>
      BY <2>0, <2>2 DEF IInv, Parts, CacheLag, Knows, Settled, NoOrphan
    <2> QED
      BY <1>9, <1>cr, <1>t, <2>1, <2>2, CRExcept, UpdateEffect, Zenon DEF RemoveFinalizer
  <1>10. CASE BucketExists
    BY <1>10 DEF BucketExists, IInv, Parts, CacheLag, Knows, Settled, NoOrphan
  <1>11. CASE CreateBucket
    BY <1>11 DEF CreateBucket, IInv, Parts, CacheLag, Knows, Settled, NoOrphan, Protected
  <1>12. CASE ProviderFails
    <2>1. /\ UNCHANGED <<cr, cache, event, read, current>> /\ pc' = "idle" /\ queued'
          /\ bucket' = bucket \/ (pc = "create" /\ bucket' = "ours")
      BY <1>12 DEF ProviderFails, Requeue
    <2> QED
      BY <2>1 DEF IInv, Parts, CacheLag, Knows, Settled, NoOrphan, Protected
  <1>13. CASE UpdateStatus
    <2>0. pc = "status" /\ pc' = "idle" /\ UNCHANGED <<cache, queued, read, bucket>>
      BY <1>13 DEF UpdateStatus
    <2>1. CASE current /\ Store([cr EXCEPT !.synced = "yes"], FALSE)
      <3>1. cr'.life = cr.life /\ event' # "none" /\ (event' # "wake" => event # "wake")
        BY <1>cr, <2>1, CRExcept, Zenon DEF Store
      <3> QED
        BY <2>0, <3>1 DEF IInv, Parts, CacheLag, Knows, Settled, NoOrphan, Protected
    <2>2. CASE UNCHANGED <<cr, event, current>>
      BY <2>0, <2>2 DEF IInv, Parts, CacheLag, Knows, Settled, NoOrphan, Protected
    <2> QED
      BY <1>13, <1>cr, <1>t, <2>1, <2>2, CRExcept, UpdateEffect, Zenon DEF UpdateStatus
  <1>14. CASE Restart
    <2>1. /\ UNCHANGED <<cr, read, current, bucket>> /\ cache' = cr /\ event' = "none"
          /\ pc' = "idle" /\ (queued' <=> cr.life # "gone")
      BY <1>14, Zenon DEF Restart
    <2> QED
      BY <2>1 DEF IInv, Parts, CacheLag, Knows, Settled, NoOrphan, Protected
  <1>15. CASE UNCHANGED vars
    BY <1>15 DEF vars, IInv, Parts, CacheLag, Knows, Settled, NoOrphan
  <1> QED
    BY <1>1, <1>2, <1>3, <1>4, <1>5, <1>6, <1>7, <1>8, <1>9, <1>10, <1>11, <1>12, <1>13,
       <1>14, <1>15
    DEF Next, Worker, User

(* The inductive invariant holds in every reachable state. *)
THEOREM Inductive == Spec => []IInv
  BY IInvInit, IInvNext, PTL DEF Spec

(* No bucket that the controller created is left when its CloudStorage has *)
(* gone, whatever stale copies Reconcile worked on.                        *)
THEOREM NoOrphanEver == Spec => []NoOrphan
  <1>1. IInv => NoOrphan
    BY DEF IInv
  <1> QED
    BY <1>1, Inductive, PTL

(* No wakeup is lost: a CloudStorage at rest has its bucket. *)
THEOREM BucketAlwaysAtRest == Spec => []BucketAtRest
  <1>1. IInv => BucketAtRest
    BY DEF IInv, Settled, BucketAtRest, Quiescent, Protected
  <1> QED
    BY <1>1, Inductive, PTL

-----------------------------------------------------------------------------
(* Each step of the controller is a step of BucketLifecycle, or none. *)
LEMMA StepRefines ==
    ASSUME IInv, [Next]_vars
    PROVE  [Lifecycle!Next]_(Lifecycle!vars)
  <1> USE DEF Lifecycle!Next, Lifecycle!vars
  <1>cr. cr \in CRs /\ TypeOK
    BY DEF IInv, TypeOK
  <1>1. ASSUME NEW a \in Anns, UserCreate(a) PROVE Lifecycle!Request
    BY <1>1 DEF UserCreate, Store, Lifecycle!Request
  <1>2. ASSUME NEW a \in Anns, UserAnnotate(a) PROVE UNCHANGED <<cr.life, bucket>>
    BY <1>2, <1>cr, CRExcept DEF UserAnnotate, Store
  <1>3. CASE UserDelete
    <2>1. cr'.life = IF cr.life = "bare" THEN "gone" ELSE "deleting"
      BY <1>3, <1>cr DEF UserDelete, Store, CRs
    <2>2. Lifecycle!Delete
      BY <1>3, <2>1 DEF UserDelete, Lifecycle!Delete
    <2> QED
      BY <2>2
  <1>4. CASE AddFinalizer
    <2>1. CASE current /\ Store([cr EXCEPT !.life = "protected"], FALSE)
      <3>1. Lifecycle!Protect
        BY <1>4, <1>cr, <2>1, CRExcept DEF AddFinalizer, Store, IInv, Knows, Lifecycle!Protect
      <3> QED
        BY <3>1
    <2>2. CASE UNCHANGED <<cr, event, current>>
      BY <1>4, <2>2 DEF AddFinalizer
    <2> QED
      BY <1>4, <1>cr, <2>1, <2>2, CRExcept, UpdateEffect, Zenon DEF AddFinalizer
  <1>5. CASE DeleteBucket
    <2>1. bucket' # bucket => Lifecycle!RemoveBucket
      BY <1>5 DEF DeleteBucket, IInv, Knows, Lifecycle!RemoveBucket
    <2> QED
      BY <1>5, <2>1 DEF DeleteBucket
  <1>6. CASE RemoveFinalizer
    <2>1. CASE current /\ Store([cr EXCEPT !.life = "gone"], FALSE)
      <3>1. Lifecycle!Release
        BY <1>6, <1>cr, <2>1, CRExcept DEF RemoveFinalizer, Store, IInv, Knows, Lifecycle!Release
      <3> QED
        BY <3>1
    <2>2. CASE UNCHANGED <<cr, event, current>>
      BY <1>6, <2>2 DEF RemoveFinalizer
    <2> QED
      BY <1>6, <1>cr, <2>1, <2>2, CRExcept, UpdateEffect, Zenon DEF RemoveFinalizer
  <1>7. CASE CreateBucket \/ ProviderFails
    <2>1. cr' = cr /\ (bucket' = bucket \/ (pc = "create" /\ bucket' = "ours"))
      BY <1>7 DEF CreateBucket, ProviderFails
    <2>2. bucket' # bucket => Lifecycle!MakeBucket
      BY <2>1 DEF IInv, Knows, Protected, Lifecycle!MakeBucket
    <2> QED
      BY <2>1, <2>2
  <1>8. CASE UpdateStatus
    <2>1. cr'.life = cr.life /\ bucket' = bucket
      BY <1>8, <1>cr, CRExcept, UpdateEffect, Zenon DEF UpdateStatus, Store
    <2> QED
      BY <2>1
  <1>9. CASE UserEdit \/ Inform \/ Start \/ BucketExists \/ Restart \/ UNCHANGED vars
    BY <1>9, Zenon DEF UserEdit, Store, Inform, Start, BucketExists, Restart, vars
  <1> QED
    BY <1>1, <1>2, <1>3, <1>4, <1>5, <1>6, <1>7, <1>8, <1>9 DEF Next, Worker, User

(* The CloudStorage controller implements BucketLifecycle: buckets are     *)
(* made only under the finalizer, removed only during a deletion, and the  *)
(* CloudStorage goes only after its bucket.                                *)
THEOREM PromiseKept == Spec => KeepsPromise
  <1>1. Init => Lifecycle!Init
    BY DEF Init, Lifecycle!Init
  <1>2. IInv /\ [Next]_vars => [Lifecycle!Next]_(Lifecycle!vars)
    BY StepRefines
  <1> QED
    BY <1>1, <1>2, Inductive, PTL DEF Spec, KeepsPromise, Lifecycle!Spec
=============================================================================
