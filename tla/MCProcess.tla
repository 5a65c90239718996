----------------------------- MODULE MCProcess -----------------------------
(***************************************************************************)
(* Process with deploy maps that differ in what the code looks at.         *)
(***************************************************************************)
EXTENDS Process

Good == [complete |-> TRUE, artifact |-> "url", checksum |-> "filename",
         startup |-> 4, rollback |-> 3, keep |-> 2]
Zeros == [Good EXCEPT !.startup = 0, !.rollback = 0, !.keep = 0]
Negative == [Good EXCEPT !.startup = -1, !.rollback = -1, !.keep = -1]
Incomplete == [Good EXCEPT !.complete = FALSE]

Only(e) == Map([name \in {"w"} |-> e])
Both(e, other) == Map([name \in {"w", "other"} |-> IF name = "w" THEN e ELSE other])

FilesDef ==
  { Absent, Unparsable, Map(<<>>), Map([name \in {"other"} |-> Good]),
    Only(Good), Only(Zeros), Only(Negative),
    Only([Good EXCEPT !.checksum = "broken"]), Only([Good EXCEPT !.artifact = "noSlash"]),
    Both(Good, Incomplete) }
=============================================================================
