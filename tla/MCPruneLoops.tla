---------------------------- MODULE MCPruneLoops ----------------------------
(***************************************************************************)
(* PruneLoops over nine names of releases, for TLC.                        *)
(***************************************************************************)
EXTENDS PruneLoops

Name(core, rest, name) == [core |-> core, rest |-> rest, name |-> name]

\* 1.9.0, 1.10 and 1.10.0 (which tie), 1.10.1 and 2.0, 1.10-rc10 and
\* 1.10-rc9 in the order of strings, a number that no int holds, and a name
\* that is no version.
VersionsDef ==
  { Name(<<1, 9, 0>>, 0, 6), Name(<<1, 10>>, 0, 1), Name(<<1, 10, 0>>, 0, 4),
    Name(<<1, 10, 1>>, 0, 5), Name(<<2, 0>>, 0, 8),
    Name(<<1, 10>>, 1, 2), Name(<<1, 10>>, 2, 3),
    Name(<<1, MaxInt + 1>>, 0, 7), Name(<<NaN>>, 0, 9) }

\* Bound: a listing has at most four releases, or these six, of which the
\* default number of five lets one go.
SixNames == { v \in Versions : Valid(v) /\ v.rest # 1 }

FewListed == Cardinality(entries) <= 4 \/ entries = SixNames
=============================================================================
