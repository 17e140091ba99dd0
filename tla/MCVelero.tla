------------------------------ MODULE MCVelero ------------------------------
(***************************************************************************)
(* Instances of Velero: a DPA with one AWS location, and specs that differ *)
(* from it in what the code tells apart.                                   *)
(***************************************************************************)
EXTENDS Velero, SequencesExt

L == [kind |-> "velero", provider |-> "aws", prefixed |-> FALSE, cred |-> "none", profile |-> "default",
      default |-> TRUE, named |-> FALSE, prefix |-> TRUE, storage |-> TRUE, slow |-> FALSE]
Base == [plugins |-> {"aws", "openshift"}, bsls |-> <<L>>, vsls |-> <<>>, nonAdmin |-> "unset",
         noDefault |-> FALSE, images |-> FALSE, noSecret |-> FALSE, mtc |-> FALSE, refused |-> FALSE, late |-> FALSE]
V == [provider |-> "aws", cred |-> "none", config |-> TRUE]

With(l) == [Base EXCEPT !.bsls = <<l>>]
Second == [L EXCEPT !.default = FALSE]
Cloud == [L EXCEPT !.kind = "cloud", !.cred = "own"]
Two == [Base EXCEPT !.bsls = <<L, [Second EXCEPT !.cred = "own"]>>]

MCSpecs ==
    { Base,
      [Base EXCEPT !.images = TRUE],
      [Base EXCEPT !.noSecret = TRUE],
      [Base EXCEPT !.late = TRUE],
      [Base EXCEPT !.refused = TRUE],
      With([L EXCEPT !.kind = "both"]),
      With([L EXCEPT !.prefixed = TRUE]),
      [Base EXCEPT !.nonAdmin = "good"],
      With([L EXCEPT !.cred = "own"]),
      With([L EXCEPT !.cred = "file"]),
      [With([L EXCEPT !.cred = "file"]) EXCEPT !.plugins = {"legacy-aws"}],
      With([L EXCEPT !.provider = "azure"]),
      Two,
      [Base EXCEPT !.bsls = <<[L EXCEPT !.default = FALSE, !.provider = "gcp"], L>>, !.plugins = {"aws", "gcp"}],
      With(Cloud),
      [Base EXCEPT !.bsls = <<[Cloud EXCEPT !.default = FALSE], L>>, !.nonAdmin = "good"],
      [With(Cloud) EXCEPT !.vsls = <<V>>],
      [Base EXCEPT !.vsls = <<[V EXCEPT !.cred = "own"]>>],
      [With([L EXCEPT !.cred = "own", !.slow = TRUE]) EXCEPT !.nonAdmin = "good", !.vsls = <<V>>],
      [Base EXCEPT !.noDefault = TRUE, !.bsls = <<>>, !.mtc = TRUE],
      [Base EXCEPT !.noDefault = TRUE, !.bsls = <<>>, !.vsls = <<V>>, !.nonAdmin = "good"] }

MCEdits == {Base, Two, With(Cloud), [Base EXCEPT !.noDefault = TRUE, !.bsls = <<>>, !.mtc = TRUE],
            [Base EXCEPT !.bsls = <<[L EXCEPT !.default = FALSE, !.provider = "gcp"], L>>, !.plugins = {"aws", "gcp"}]}

Id(v) == Line("id", v)
Key(v) == Line("key", v)
Default == Line("profile", "default")
Backup == Line("profile", "backup")
Good == <<Default, Id("a"), Key("b")>>

(* Credentials files of up to three lines, which come in any order, and of *)
(* four lines that begin with a heading.                                   *)
Files ==
    {f \in BoundedSeq({Default, Backup, Id("a"), Id(""), Key("b"), Line("role", "r")}, 4) :
        Len(f) = 4 => IsHeading(f[1])}

MCContents == { <<>>, Good }

(* All specs with good secrets, some with an empty or a missing one, and   *)
(* one event; Two with two events; one with every credentials file.        *)
MCStarts ==
    LET Secrets(names, c) == [n \in SecretNames |-> [there |-> n \in names, labelled |-> FALSE, lines |-> c]]
        At(s, names, c, events) == [spec |-> s, secrets |-> Secrets(names, c), cloud |-> "aws", events |-> events]
    IN  {At(s, {"cloud-credentials", "own"}, Good, IF s = Two THEN 2 ELSE 1) : s \in MCSpecs}
        \cup {At(s, {"cloud-credentials"}, <<>>, 1) : s \in {r \in MCSpecs : r.noSecret \/ r.vsls # <<>>}}
        \cup {At([Base EXCEPT !.images = TRUE], {"cloud-credentials"}, f, 0) : f \in Files}
=============================================================================
