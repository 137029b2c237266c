--------------------------- MODULE AttemptLedger ---------------------------
(***************************************************************************)
(* What the database promises about attempts, whatever happens to the      *)
(* program: a ledger.  Each attempt at a file is a new entry under a       *)
(* number higher than any before.  Facts (a page, a range status, a        *)
(* request outcome) are only ever added, only to the newest entry and only *)
(* while it is open; an entry that was completed or given up never changes *)
(* again, and neither does one that a crash left open once there is a      *)
(* newer one.  BatchRun implements it.                                     *)
(***************************************************************************)
EXTENDS Naturals

CONSTANT Paths

VARIABLE ledger

Standing == {"open", "complete", "given_up"}
Entry == [path : Paths, facts : Nat, standing : Standing]

LedgerOK ==
  /\ DOMAIN ledger \subseteq Nat \ {0}
  /\ ledger \in [DOMAIN ledger -> Entry]

Init == ledger = << >>

Begin(id, path) ==
  /\ id \in Nat /\ \A old \in DOMAIN ledger : old < id
  /\ ledger' = [i \in DOMAIN ledger \cup {id} |->
                  IF i = id THEN [path |-> path, facts |-> 0, standing |-> "open"]
                  ELSE ledger[i]]

NewestOpen(id) ==
  /\ \A other \in DOMAIN ledger : other <= id
  /\ ledger[id].standing = "open"

RecordFact(id) ==
  /\ NewestOpen(id)
  /\ ledger' = [ledger EXCEPT ![id].facts = @ + 1]

Close(id, standing) ==
  /\ NewestOpen(id)
  /\ ledger' = [ledger EXCEPT ![id].standing = standing]

Next ==
  \/ \E id \in DOMAIN ledger' : \E path \in Paths : Begin(id, path)
  \/ \E id \in DOMAIN ledger :
       \/ RecordFact(id)
       \/ \E standing \in Standing \ {"open"} : Close(id, standing)

Spec == Init /\ [][Next]_ledger

=============================================================================
