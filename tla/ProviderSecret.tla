--------------------------- MODULE ProviderSecret ---------------------------
(***************************************************************************)
(* How the operator reads the credentials in a provider secret             *)
(* (registry.go): an AWS credentials file, of which it takes one profile,  *)
(* and an Azure file of variables.                                         *)
(*                                                                         *)
(* The value of a secret's key is a sequence of lines.  A line says what   *)
(* the regular expressions take it for, and what getMatchedKeyValue makes  *)
(* of the rest of it: for a heading "[name]" its name, otherwise the text  *)
(* after "=" without spaces and quotes, "" if there is none.               *)
(***************************************************************************)
EXTENDS Naturals, Sequences, FiniteSetsExt

Variables == {"AZURE_STORAGE_ACCOUNT_ACCESS_KEY", "AZURE_SUBSCRIPTION_ID", "AZURE_TENANT_ID",
              "AZURE_CLIENT_ID", "AZURE_CLIENT_SECRET", "AZURE_RESOURCE_GROUP"}

(* "id": aws_access_key_id, "key": aws_secret_access_key, "role": one of   *)
(* the fields of STS credentials                                           *)
Line(is, value) == [is |-> is, value |-> value]

IsHeading(line) == line.is = "profile"

SectionToEnd(lines, i) == SubSeq(lines, i + 1, Len(lines))

(* The lines of the profile whose heading is at i. *)
Section(lines, i) ==
    LET rest == SubSeq(lines, i + 1, Len(lines))
        headings == {j \in DOMAIN rest : IsHeading(rest[j])}
    IN  IF headings = {} THEN rest ELSE SubSeq(rest, 1, Min(headings) - 1)

(* One line of a profile without a role; an empty value is an error. *)
ReadLine(line, got) ==
    IF got.done \/ line.is \notin {"id", "key"} THEN got
    ELSE IF line.value = "" THEN [got EXCEPT !.done = TRUE, !.ok = FALSE]
    ELSE [got EXCEPT ![line.is] = line.value]

(* A role ends the search, with empty keys and no error; otherwise the     *)
(* lines are read in order, the last one last.                             *)
ReadSection(got, section) ==
    IF \E j \in DOMAIN section : section[j].is = "role"
    THEN [found |-> TRUE, done |-> TRUE, ok |-> TRUE, id |-> "", key |-> ""]
    ELSE MapThenFoldSet(ReadLine, [got EXCEPT !.found = TRUE],
                        LAMBDA j : section[j], Max, DOMAIN section)

(* Every section of the profile is read; later keys replace earlier ones.  *)
parseAWSSecret(lines, profile) ==
    LET Read(i, got) ==
            IF got.done \/ lines[i] # Line("profile", profile) THEN got
            ELSE ReadSection(got, Section(lines, i))
        start == [found |-> FALSE, done |-> FALSE, ok |-> TRUE, id |-> "", key |-> ""]
        got == MapThenFoldSet(Read, start, LAMBDA i : i, Max, DOMAIN lines)
    IN  IF got.done THEN got
        ELSE [got EXCEPT !.ok = got.found /\ got.id # "" /\ got.key # ""]

(* Headings and unknown lines are skipped; no variable is required.        *)
parseAzureSecret(lines) ==
    [ok |-> \A i \in DOMAIN lines : lines[i].is \in Variables => lines[i].value # ""]

-----------------------------------------------------------------------------
(* What a profile is: the lines below one of its headings and above the    *)
(* next heading of any name.                                               *)
Own(lines, profile) ==
    {j \in DOMAIN lines :
        \E i \in 1 .. j - 1 :
            /\ lines[i] = Line("profile", profile)
            /\ \A m \in i + 1 .. j : ~IsHeading(lines[m])}

Of(lines, own, is) == {j \in own : lines[j].is = is}

(* A profile written once is usable if it has a role, or both keys and no  *)
(* empty one.                                                              *)
Usable(lines, profile) ==
    LET own == Own(lines, profile)
    IN  \/ Of(lines, own, "role") # {}
        \/ /\ Of(lines, own, "id") # {} /\ Of(lines, own, "key") # {}
           /\ \A j \in Of(lines, own, "id") \cup Of(lines, own, "key") : lines[j].value # ""

Once(lines, profile) ==
    Cardinality({i \in DOMAIN lines : lines[i] = Line("profile", profile)}) <= 1

(* parseAWSSecret accepts a profile that is written once exactly if it is  *)
(* usable, and what it returns always stands in a section of that profile, *)
(* never in another profile's.                                             *)
ReadsOwnProfile(lines, profile) ==
    LET got == parseAWSSecret(lines, profile)
        own == Own(lines, profile)
    IN  /\ Once(lines, profile) => (got.ok <=> Usable(lines, profile))
        /\ got.id # "" => \E j \in Of(lines, own, "id") : lines[j].value = got.id
        /\ got.key # "" => \E j \in Of(lines, own, "key") : lines[j].value = got.key
=============================================================================
