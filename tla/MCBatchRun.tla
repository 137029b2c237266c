----------------------------- MODULE MCBatchRun -----------------------------
(* Values for the constants of BatchRun that a configuration file cannot write. *)
EXTENDS BatchRun

CONSTANTS c1, c2, c3

\* c1 and c2 have the same size, so only the digest or the time tells them apart.
MCSizeOf == [c \in {c1, c2, c3} |-> IF c = c3 THEN 2 ELSE 1]
MCSizeOfTwo == [c \in {c1, c2} |-> 1]
MCSizeOfOne == [c \in {c1} |-> 1]

OnlyOk == {{"ok"}}
OkOrFail == {{"ok"}, {"ok", "fail"}}
OkOrPartial == {{"ok"}, {"ok", "partial_fail"}}

=============================================================================
