------------------------------ MODULE Conversion ------------------------------
(***************************************************************************)
(* The conversion of one source file to JPEGs: evaluate_and_route of       *)
(* src/src/media_classifier.py and the process() generators of             *)
(* src/src/pipelines, from the opening of the file to its FileSummary.     *)
(*                                                                         *)
(* A generator runs between the requests of its caller: each row it yields *)
(* is one step here, and between any two the caller may stop and close it. *)
(* What a decoder does is a choice: at most MaxMishaps times it fails in   *)
(* one of the ways the code handles.                                       *)
(*                                                                         *)
(* A source file is a record:                                              *)
(*   kind      the extension's group, "unknown" or "empty" when it has no  *)
(*             pipeline or no bytes;                                       *)
(*   typed     the range typed for that kind, as in PageRanges;            *)
(*   frames    its pages or pictures in order, each with its scene (what   *)
(*             is_frame_distinct compares), at (pts, or else dts, or else  *)
(*             Absent), timed (it has a pts), counted (it has a dts) and   *)
(*             key (decoding can begin there);                             *)
(*   mode      VIDEO_MODE, "SUMMARY" or "SAMPLING";                        *)
(*   mpo       an MPO photograph, whose other pictures are auxiliary;      *)
(*   picture   what any of its pages is to the JPEG converter;             *)
(*   header    of a video: container and stream durations (Absent if not   *)
(*             known), fps, start_time, time_base, transfer ("" if not HDR)*)
(*             and whether it has a video stream.                          *)
(***************************************************************************)
EXTENDS TimeRanges, JpegConverter

CONSTANTS
  Files,                          \* source files that may be converted
  DOCUMENT_MAX_PAGES,
  ANIMATION_TARGET_TOTAL_FRAMES,
  SCENE_SENSITIVITY,
  MaxMishaps                      \* bound: failures while one file is converted

ASSUME ConversionAssumption ==
  /\ DOCUMENT_MAX_PAGES \in Nat \ {0} /\ ANIMATION_TARGET_TOTAL_FRAMES \in Nat \ {0}
  /\ SCENE_SENSITIVITY \in Nat /\ MaxMishaps \in Nat

\* What a source file is, whatever is in it: the settings refuse a page range that is Refused,
\* a packet with a dts has a time, and the pictures of a video that have a pts come in its order.
ASSUME FilesAssumption ==
  \A f \in Files :
    /\ f.kind \in {"document", "image", "animation", "video", "unknown", "empty"}
    /\ f.frames \in Seq([scene : Int, at : Int, timed : BOOLEAN, counted : BOOLEAN, key : BOOLEAN])
    /\ \A part \in f.typed :
         /\ part \in [from : Nat \cup {Absent}, to : Nat \cup {Absent}, dash : BOOLEAN]
         /\ part.dash \/ part.to = Absent
         /\ f.kind # "video" => ~ Refused(part)
    /\ {f.header.container, f.header.stream, f.header.start_time} \subseteq Int /\ f.header.fps \in Nat
    /\ f.kind = "video" =>
         /\ \A i \in DOMAIN f.frames : f.frames[i].counted => f.frames[i].at # Absent
         /\ \A i, k \in DOMAIN f.frames :
              i < k /\ f.frames[i].timed /\ f.frames[k].timed => f.frames[i].at <= f.frames[k].at

ASSUME PicturesAssumption == \A f \in Files : f.picture \in Picture

VARIABLES
  file,          \* the source file
  stage,         \* "open", "pages", "close"; "ended" with a summary, or "stopped"
  targets,       \* pages, frames or moments to convert, in order
  next,          \* position in targets; for an animation the frame about to be decoded
  rows,          \* the PageResults yielded
  jpegs,         \* the files in the output folder
  last_saved,    \* the frame is_frame_distinct compares with, 0 for none
  tally,         \* ok_count, skipped_count and failed_count
  range_status,
  summary,       \* the FileSummary
  plain,         \* hdr_fallback_active
  retrying,      \* the target is sought again with a fresh decoder
  mishaps

plan == <<targets, range_status>>
made == <<rows, jpegs, last_saved, tally, plain>>
cursor == <<next, retrying>>
conversionVars == <<file, stage, cursor, plan, made, summary, mishaps>>

NoSummary == [range |-> {}, status |-> "", claim |-> ""]

ConversionInit ==
  /\ file \in Files
  /\ stage = "open" /\ targets = << >> /\ next = 1 /\ rows = << >> /\ jpegs = {}
  /\ last_saved = 0 /\ tally = [s \in {"ok", "skipped", "failure"} |-> 0]
  /\ range_status = "" /\ summary = NoSummary /\ plain = FALSE /\ retrying = FALSE
  /\ mishaps = 0

Mishap == mishaps < MaxMishaps /\ mishaps' = mishaps + 1

Total == Len(file.frames)

-----------------------------------------------------------------------------
(* BaseMediaPipeline.                                                      *)

Row(page, status, frame, time, tone) ==
  [page |-> page, status |-> status, frame |-> frame, time |-> time, tone |-> tone]

\* The rows already yielded stay, and a failed page 1 without a file is added.
Abort ==
  /\ rows' = Append(rows, Row(1, "failure", 0, Absent, ""))
  /\ summary' = [range |-> {}, status |-> "failure", claim |-> "error"]
  /\ stage' = "ended"
  /\ UNCHANGED <<file, cursor, plan, jpegs, last_saved, tally, plain>>

\* Mutant: what was expected is taken to be what was seen.
ClaimOfRows ==
  LET expected == Len(rows)
      valid == tally["ok"] + tally["skipped"]
  IN  IF valid = expected /\ tally["skipped"] = 0 THEN "all saved"
      ELSE IF valid = expected THEN "all processed" ELSE "some"

Claim ==
  LET expected == Len(targets)
      valid == tally["ok"] + tally["skipped"]
  IN  CASE expected = 0 -> "nothing extracted"
        [] expected # 0 /\ valid = expected /\ tally["skipped"] = 0 -> "all saved"
        [] expected # 0 /\ valid = expected /\ tally["skipped"] > 0 -> "all processed"
        [] expected # 0 /\ valid # expected /\ valid > 0 -> "some"
        [] OTHER -> "none"

RangeText ==
  IF file.kind = "video" THEN format_time_range(ToSet(targets))
  ELSE format_range_string({page - 1 : page \in ToSet(targets)})

finalize_results ==
  /\ stage = "close" /\ stage' = "ended"
  /\ summary' = [range |-> RangeText, status |-> range_status, claim |-> Claim]
  /\ UNCHANGED <<file, cursor, plan, made, mishaps>>

\* Leaving the with block closes the decoder, which may fail even now.
CloseFails == stage = "close" /\ Mishap /\ Abort

\* The caller saw the abort flag and closes the generator.
Stopped ==
  /\ stage \in {"open", "pages", "close"} /\ stage' = "stopped"
  /\ UNCHANGED <<file, cursor, plan, made, summary, mishaps>>

Begin(selection, status) ==
  /\ targets' = InOrder(selection) /\ range_status' = status
  /\ stage' = IF selection = {} THEN "close" ELSE "pages"
  /\ UNCHANGED <<file, cursor, made, summary>>

\* The step to the next target, or to the next frame, of last of them.
StepOn(last) ==
  /\ next' = next + 1 /\ retrying' = FALSE
  /\ stage' = IF next = last THEN "close" ELSE stage
  /\ UNCHANGED <<file, plan, summary>>

Yield(row) ==
  /\ rows' = Append(rows, row)
  /\ tally' = [tally EXCEPT ![row.status] = @ + 1]

-----------------------------------------------------------------------------
(* process_image and its file, which is written in place.                  *)

Named(page, time) == <<page, time>>

Written(page, time, frame, whole) ==
  LET image == process_image(file.picture)
  IN  {j \in jpegs : j.name # Named(page, time)} \cup
      {[name |-> Named(page, time), frame |-> frame, whole |-> whole,
        width |-> image.width, height |-> image.height,
        quality |-> image.quality, forced |-> image.forced]}

Saved(page, time, frame, tone) ==
  /\ jpegs' = Written(page, time, frame, TRUE)
  /\ Yield(Row(page, "ok", frame, time, tone))
  /\ last_saved' = frame

\* A failure may leave the beginning of the file behind.
NotSaved(page, time, frame) ==
  /\ Mishap
  /\ \/ jpegs' = jpegs
     \/ jpegs' = Written(page, time, frame, FALSE)
  /\ Yield(Row(page, "failure", frame, time, ""))
  /\ UNCHANGED last_saved

Lost(page) ==
  /\ Mishap
  /\ Yield(Row(page, "failure", 0, Absent, ""))
  /\ UNCHANGED <<jpegs, last_saved>>

Distinct(frame) ==
  IF last_saved = 0 \/ SCENE_SENSITIVITY = 0 THEN TRUE
  ELSE LET d == file.frames[frame].scene - file.frames[last_saved].scene
       IN  d * d > SCENE_SENSITIVITY

\* Mutant: the frame left out becomes the one compared with.
StaticMovesOn(page, time, frame) ==
  /\ ~ Distinct(frame)
  /\ Yield(Row(page, "skipped", frame, time, ""))
  /\ last_saved' = frame
  /\ UNCHANGED <<jpegs, mishaps>>

Static(page, time, frame) ==
  /\ ~ Distinct(frame)
  /\ Yield(Row(page, "skipped", frame, time, ""))
  /\ UNCHANGED <<jpegs, last_saved, mishaps>>

-----------------------------------------------------------------------------
(* Routing and opening.                                                    *)

Rejected ==
  /\ stage = "open" /\ file.kind \in {"unknown", "empty"}
  /\ Abort /\ UNCHANGED mishaps

\* The library is missing, or the decoder refuses the file.
OpenFails == stage = "open" /\ file.kind \notin {"unknown", "empty"} /\ Mishap /\ Abort

NoPages ==
  /\ stage = "open" /\ file.kind \in {"document", "image", "animation"} /\ Total = 0
  /\ Abort /\ UNCHANGED mishaps

First(indices, count) == {i \in indices : Cardinality({j \in indices : j < i}) < count}

OpenDocument ==
  LET asked == calculate_indices(Compile(file.typed), Total)
      kept == First(asked.indices, DOCUMENT_MAX_PAGES)
      cut == kept # asked.indices
  IN  /\ stage = "open" /\ file.kind = "document" /\ Total > 0
      /\ Begin({i + 1 : i \in kept},
               IF cut /\ asked.status = "ok" THEN "truncated" ELSE asked.status)
      /\ UNCHANGED mishaps

OpenImage ==
  LET total == IF file.mpo THEN 1 ELSE Total
      asked == IF total = 1 THEN [indices |-> {0}, status |-> "ok"]
               ELSE calculate_indices(Compile(file.typed), total)
  IN  /\ stage = "open" /\ file.kind = "image" /\ Total > 0
      /\ Begin({i + 1 : i \in asked.indices}, asked.status)
      /\ UNCHANGED mishaps

OpenAnimation ==
  LET asked == calculate_indices(Compile(file.typed), Total)
      pool == InOrder(asked.indices)
      chosen == calculate_summary_indices(0, Len(pool), ANIMATION_TARGET_TOTAL_FRAMES)
  IN  /\ stage = "open" /\ file.kind = "animation" /\ Total > 0
      /\ Begin({pool[i + 1] + 1 : i \in chosen}, asked.status)
      /\ UNCHANGED mishaps

-----------------------------------------------------------------------------
(* The pages of a document or of an image.                                 *)

Paged == stage = "pages" /\ file.kind \in {"document", "image"}

PageSaved ==
  /\ Paged /\ Saved(targets[next], Absent, targets[next], "")
  /\ StepOn(Len(targets)) /\ UNCHANGED <<plain, mishaps>>

\* A page of a document that failed to close after it was saved would be counted twice
\* in process(): closing one reports no error.
PageFails ==
  /\ Paged
  /\ Lost(targets[next]) \/ NotSaved(targets[next], Absent, targets[next])
  /\ StepOn(Len(targets)) /\ UNCHANGED plain

-----------------------------------------------------------------------------
(* The frames of an animation, all of which are decoded in turn.           *)

Decoding == stage = "pages" /\ file.kind = "animation"
IsTarget == next \in ToSet(targets)

\* n_frames promised more than there are.
AnimationEndsEarly ==
  /\ Decoding /\ Mishap /\ stage' = "close"
  /\ UNCHANGED <<file, cursor, plan, made, summary>>

FrameCorrupt ==
  /\ Decoding /\ stage' = "close"
  /\ IF IsTarget THEN Lost(next) ELSE Mishap /\ UNCHANGED <<rows, jpegs, last_saved, tally>>
  /\ UNCHANGED <<file, cursor, plan, summary, plain>>

FramePassed ==
  /\ Decoding /\ ~ IsTarget /\ StepOn(Total)
  /\ UNCHANGED <<made, mishaps>>

FrameStatic ==
  /\ Decoding /\ IsTarget /\ Static(next, Absent, next)
  /\ StepOn(Total) /\ UNCHANGED plain

FrameSaved ==
  /\ Decoding /\ IsTarget /\ Distinct(next) /\ Saved(next, Absent, next, "")
  /\ StepOn(Total) /\ UNCHANGED <<plain, mishaps>>

FrameFails ==
  /\ Decoding /\ IsTarget
  /\ Lost(next) \/ (Distinct(next) /\ NotSaved(next, Absent, next))
  /\ StepOn(Total) /\ UNCHANGED plain
=============================================================================
