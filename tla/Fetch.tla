------------------------------- MODULE Fetch -------------------------------
(***************************************************************************)
(* HTTPArtifactFetcher.Fetch beside a server on which the release is       *)
(* published again: two requests, one for the checksum's file and one for  *)
(* the artifact.  The hash of an artifact stands for its bytes.            *)
(***************************************************************************)
EXTENDS Integers

CONSTANTS
  MaxPublished,  \* bound: how often the release is published again
  NoHash         \* nothing was downloaded

ASSUME FetchAssumption == MaxPublished \in Nat /\ NoHash \notin Int

VARIABLES
  artifact,  \* the artifact on the server: which publication it is of
  sum,       \* the one its checksum's file is of
  expected,  \* expectedChecksum
  unpacked   \* what Fetch returns, and ExtractTar unpacks

fetchvars == <<artifact, sum, expected, unpacked>>

Cut == -1  \* a body that ended early, or that was changed

FetchTypeOK ==
  /\ artifact \in 0..MaxPublished
  /\ sum \in 0..MaxPublished
  /\ expected \in 0..MaxPublished \cup {NoHash}
  /\ unpacked \in {Cut, NoHash} \cup 0..MaxPublished

FetchInit ==
  /\ artifact = 0 /\ sum = 0
  /\ expected = NoHash
  /\ unpacked = NoHash

\* Another build under the same version: one file after the other, in either
\* order.
Republish ==
  /\ \/ artifact < MaxPublished /\ artifact' = artifact + 1 /\ UNCHANGED sum
     \/ sum < MaxPublished /\ sum' = sum + 1 /\ UNCHANGED artifact
  /\ UNCHANGED <<expected, unpacked>>

\* The checksum's file: its first field, in lower case.
GetChecksum ==
  /\ expected' = sum
  /\ UNCHANGED <<artifact, sum, unpacked>>

Bodies == {artifact, Cut}

\* Variant: the hash is computed and not compared.
GetArtifactUnchecked ==
  /\ \E body \in Bodies : unpacked' = body
  /\ UNCHANGED <<artifact, sum, expected>>

\* The artifact, when its hash is the expected one.
GetArtifact ==
  /\ \E body \in Bodies : body = expected /\ unpacked' = body
  /\ UNCHANGED <<artifact, sum, expected>>
=============================================================================
