----------------------------- MODULE DeployMap -----------------------------
(***************************************************************************)
(* The deploy map: Load with its defaults and its validation.              *)
(*                                                                         *)
(* What a file holds: nothing that can be read ("absent"), nothing that    *)
(* can be parsed ("unparsable"), or a map from names to entries.  Of an    *)
(* entry the model keeps its numbers, whether all required fields are      *)
(* there, and what its templates make of a version.                        *)
(***************************************************************************)
EXTENDS Integers

DefaultKeepReleases == 5
DefaultStartupTimeout == 30
DefaultRollbackTimeout == 30

\* The templates of an artifact's URL: they give one, with a "/" or without,
\* or do not parse.  The checksum's: none, one of those, or a URL of its own.
ArtifactTemplates == {"url", "noSlash", "broken"}
ChecksumTemplates == {"none", "filename", "url", "broken"}

Entry == [complete : BOOLEAN, startup : Int, rollback : Int, keep : Int,
          artifact : ArtifactTemplates, checksum : ChecksumTemplates]

NoConfig == [kind |-> "none"]
Absent == [kind |-> "absent"]
Unparsable == [kind |-> "unparsable"]
Map(entries) == [kind |-> "map", services |-> entries]

OrDefault(n, default) == IF n = 0 THEN default ELSE n

WithDefaults(e) ==
  [e EXCEPT !.keep = OrDefault(@, DefaultKeepReleases),
            !.startup = OrDefault(@, DefaultStartupTimeout),
            !.rollback = OrDefault(@, DefaultRollbackTimeout)]

Validate(services) ==
  /\ DOMAIN services # {}
  /\ \A name \in DOMAIN services : services[name].complete

\* Variant: the defaults are applied to the loop's copy of an entry only.
LoadNoDefaults(file) ==
  IF file.kind = "map" /\ Validate(file.services) THEN file ELSE NoConfig

\* Load(path), where the file holds `file`.
Load(file) ==
  IF file.kind = "map" /\ Validate(file.services)
    THEN Map([name \in DOMAIN file.services |-> WithDefaults(file.services[name])])
    ELSE NoConfig

-----------------------------------------------------------------------------
(* The two URLs of a version                                               *)

BuildArtifactURL(e) == IF e.artifact = "broken" THEN "error" ELSE "built"

\* A filename takes the place of what is behind the last "/" of the
\* artifact's URL, and the slice expression panics where there is none.
BuildChecksumURL(e) ==
  CASE "broken" \in {e.artifact, e.checksum} -> "error"
    [] e.artifact = "noSlash" /\ e.checksum = "filename" -> "panic"
    [] OTHER -> "built"
=============================================================================
