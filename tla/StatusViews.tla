---------------------------- MODULE StatusViews ----------------------------
(***************************************************************************)
(* The three SQL views that give a recorded attempt its status             *)
(* (src/src/db_controller.py, _VIEW_STATEMENTS).  An attempt is one row of *)
(* file_registry together with the page_log and llm_requests rows that     *)
(* carry its file_id:                                                      *)
(*   pages    how many page rows have each page_to_jpeg_status;            *)
(*   range    range_status, "" until the conversion is recorded.  "ok"     *)
(*            stands for ok, truncated and partial_skip, which the views   *)
(*            do not tell apart;                                           *)
(*   reqs     the llm_requests rows in the order they were committed;      *)
(*            flawed: one of the request's answers has an llm_error;       *)
(*   ai, complete   ai_enabled and processing_complete.                    *)
(***************************************************************************)
EXTENDS Naturals, Sequences

PageStatuses == {"ok", "skipped", "failure"}
RangeStatuses == {"", "ok", "skipped", "failure"}

\* A request whose work was cut short; finalize_file refuses these.
UnfinishedStatuses == {"not_attempted", "aborted_by_user", "interrupted"}
RequestStatuses ==
  {"ok", "encoding_failure", "token_limit_exceeded", "network_failure",
   "provider_reply_parse_error", "invalid_json_answer"} \cup UnfinishedStatuses

OverallResults == {"ok", "partial_fail", "fail", "skipped"}

Usable(a) == a.pages["ok"] + a.pages["skipped"]

file_to_jpegs_status(a) ==
  CASE a.range = "skipped" -> "skipped"
    [] a.range # "skipped" /\ Usable(a) = 0 -> "processing_failure"
    [] a.range # "skipped" /\ Usable(a) > 0
       /\ (a.pages["failure"] > 0 \/ a.range \in {"failure", ""})
       -> "partial_processing_failure"
    [] OTHER -> "ok"

SomeRequestOk(a) == \E i \in DOMAIN a.reqs : a.reqs[i].status = "ok"
EveryRequestOk(a) == \A i \in DOMAIN a.reqs : a.reqs[i].status = "ok"
NoAnswerError(a) == \A i \in DOMAIN a.reqs : ~ a.reqs[i].flawed

file_to_llm_status(a) ==
  LET failed == IF SomeRequestOk(a) THEN "partial_llm_failure" ELSE "llm_failure"
  IN  CASE a.ai /\ ~ a.complete -> failed
        [] (a.ai => a.complete) /\ a.reqs = << >> -> "skipped"
        [] (a.ai => a.complete) /\ a.reqs # << >>
           /\ EveryRequestOk(a) /\ NoAnswerError(a) -> "ok"
        [] OTHER -> failed

overall_result(a) ==
  LET jpegs == file_to_jpegs_status(a)
      converted == jpegs \in {"ok", "partial_processing_failure"}
      answered == file_to_llm_status(a) \in {"ok", "skipped"}
  IN  CASE ~ a.complete -> IF converted THEN "partial_fail" ELSE "fail"
        [] a.complete /\ jpegs = "skipped" -> "skipped"
        [] a.complete /\ jpegs = "processing_failure" -> "fail"
        [] a.complete /\ jpegs = "ok" /\ answered -> "ok"
        [] OTHER -> "partial_fail"

=============================================================================
