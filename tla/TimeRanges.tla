----------------------------- MODULE TimeRanges -----------------------------
(***************************************************************************)
(* The moments of a video that a typed time range asks for (VideoSelector  *)
(* and the two samplers of src/src/range_parsers.py).  Times are whole     *)
(* ticks.  A typed part is [from, to, dash] as in PageRanges: without a    *)
(* dash it is a moment, with one an interval, open where a bound is Absent.*)
(* A moment that a sampler computes between two ticks is rounded down, so  *)
(* two samples may coincide, which in the code is a collision of floats.   *)
(***************************************************************************)
EXTENDS PageRanges, FiniteSetsExt

CONSTANTS
  TARGET_TOTAL_FRAMES,      \* moments of a summary
  CaptureStep,              \* 1 / CAPTURE_RATE_FPS
  MAX_FRAMES_BUDGET         \* moments sampled from one segment

ASSUME SamplingAssumption ==
  /\ TARGET_TOTAL_FRAMES \in Nat \ {0} /\ CaptureStep \in Nat \ {0}
  /\ MAX_FRAMES_BUDGET \in Nat \ {0}

TimeSegment(part) ==
  [start |-> IF part.from = Absent THEN 0 ELSE part.from,
   end   |-> IF part.dash THEN part.to ELSE part.from,
   point |-> ~ part.dash]

CompileTimes(typed) ==
  IF typed = {} THEN {[start |-> 0, end |-> Absent, point |-> FALSE]}
  ELSE {TimeSegment(part) : part \in typed \ {Blank}}

calculate_summary_times(start, end, target) ==
  IF target <= 0 \/ start >= end THEN {} ELSE Linspace(start, end, target)

\* Every step from the start, the end included.
Steps(start, end, step) == {start + i * step : i \in 0 .. (end - start) \div step}

calculate_sampling_times(start, end, step, budget) ==
  IF budget <= 0 \/ step <= 0 \/ start >= end THEN [times |-> {}, cut |-> FALSE]
  ELSE LET all == Steps(start, end, step)
       IN  IF Cardinality(all) > budget
           THEN [times |-> {start + i * step : i \in 0 .. budget - 1}, cut |-> TRUE]
           ELSE [times |-> all, cut |-> FALSE]

-----------------------------------------------------------------------------

LastAsked(seg, duration) ==
  IF seg.end = Absent \/ seg.end > duration THEN duration ELSE seg.end

\* Mutant: the end of the sound is taken for the end of the pictures.
GenerationEndNominal(seg, duration, content_end) == LastAsked(seg, duration)

\* Where sampling stops: at the last picture rather than at the nominal end,
\* unless the segment has nothing before the last picture.
GenerationEnd(seg, duration, content_end) ==
  LET cap == IF content_end > 0 /\ content_end < duration THEN content_end ELSE duration
      end == IF LastAsked(seg, duration) < cap THEN LastAsked(seg, duration) ELSE cap
  IN  IF end <= seg.start THEN LastAsked(seg, duration) ELSE end

Sampled(seg, end) == calculate_sampling_times(seg.start, end, CaptureStep, MAX_FRAMES_BUDGET)

TimesOf(seg, mode, end) ==
  CASE seg.point -> {seg.start}
    [] ~ seg.point /\ mode = "SUMMARY"
         -> calculate_summary_times(seg.start, end, TARGET_TOTAL_FRAMES)
    [] OTHER -> Sampled(seg, end).times

get_target_times(segments, duration, mode, content_end) ==
  LET inside == {seg \in segments : ~ Outside(seg, duration)}
      End(seg) == GenerationEnd(seg, duration, content_end)
      times == UNION {TimesOf(seg, mode, End(seg)) : seg \in inside}
      OverBudget(seg) == ~ seg.point /\ mode = "SAMPLING" /\ Sampled(seg, End(seg)).cut
  IN  [times  |-> times,
       status |-> RangeStatus(times # {}, inside # segments,
                    \E seg \in inside : Overlong(seg, duration) \/ OverBudget(seg))]

\* Moments as far apart as the closest two are joined.
format_time_range(times) ==
  IF Cardinality(times) < 2 THEN Joined(1, times)
  ELSE LET gaps == {p[2] - p[1] : p \in {q \in times \X times : q[1] < q[2]}}
       IN  Joined(Min(gaps), times)
=============================================================================
