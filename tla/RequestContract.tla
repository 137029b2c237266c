--------------------------- MODULE RequestContract ---------------------------
(***************************************************************************)
(* What the batch loop relies on when it hands one request to the AI       *)
(* client: the actions Reply, FatalReply and RequestCrashes of BatchRun,   *)
(* seen from one request.  It ends once, with one status; it is called     *)
(* aborted by the user only when the user has pressed Stop; and only       *)
(* answers that were kept as rows can carry a warning.                     *)
(***************************************************************************)
EXTENDS StatusViews

VARIABLES
  stopped,    \* Stop has been pressed
  outcome     \* {} until the request ends, then {its end}

contractVars == <<stopped, outcome>>

ReplyEnd ==
  {end \in [ending : {"reply"}, status : RequestStatuses \ {"not_attempted", "interrupted"},
            flawed : BOOLEAN] :
     end.flawed => end.status \in {"ok", "invalid_json_answer"}}
HaltEnd == [ending |-> "halt", status |-> "network_failure", flawed |-> FALSE]
CrashEnd == [ending |-> "crash", status |-> "none", flawed |-> FALSE]
Ends == ReplyEnd \cup {HaltEnd, CrashEnd}

ContractInit == ~ stopped /\ outcome = {}

PressStop == ~ stopped /\ stopped' = TRUE /\ UNCHANGED outcome

Settle(end) ==
  /\ outcome = {}
  /\ end.status = "aborted_by_user" => stopped
  /\ outcome' = {end}
  /\ UNCHANGED stopped

ContractNext == PressStop \/ \E end \in Ends : Settle(end)

ContractSpec == ContractInit /\ [][ContractNext]_contractVars

=============================================================================
