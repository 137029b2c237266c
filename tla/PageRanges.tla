----------------------------- MODULE PageRanges -----------------------------
(***************************************************************************)
(* What a typed page range selects (PageRangeSelector of                   *)
(* src/src/range_parsers.py), how evenly spread samples are taken from it  *)
(* and how the selection is written for the reader.                        *)
(*                                                                         *)
(* A typed range is the set of the parts between its commas; the order of  *)
(* the parts never matters.  A part "7" is [from 7, to Absent, dash FALSE],*)
(* "3-5" [3, 5, TRUE], "-5" [Absent, 5, TRUE], "3-" [3, Absent, TRUE], and *)
(* the nothing between two commas is Blank.  The spelling of numbers is    *)
(* left out, and with it the parts that are no numbers at all.             *)
(***************************************************************************)
EXTENDS Ordered, Sequences, SequencesExt

Absent == -1
Blank == [from |-> Absent, to |-> Absent, dash |-> FALSE]

-----------------------------------------------------------------------------
(* Segments: indices from 0, the end excluded or Absent.                   *)

Segment(part) ==
  [start |-> IF part.from = Absent THEN 0 ELSE part.from - 1,
   end   |-> IF part.dash THEN part.to ELSE part.from]

\* PageSegmentModel raises, and the setting is refused.
Refused(part) ==
  \/ Segment(part).start < 0
  \/ Segment(part).end # Absent /\ Segment(part).start >= Segment(part).end

\* The empty string asks for the whole file, a string of commas for nothing.
Compile(typed) ==
  IF typed = {} THEN {[start |-> 0, end |-> Absent]}
  ELSE {Segment(part) : part \in typed \ {Blank}}

Outside(seg, total) == seg.start >= total
Overlong(seg, total) == ~ Outside(seg, total) /\ seg.end # Absent /\ seg.end > total

Covered(seg, total) ==
  IF Outside(seg, total) THEN {}
  ELSE seg.start .. (IF seg.end = Absent \/ seg.end > total THEN total ELSE seg.end) - 1

\* The status of a selection: a segment that lies outside outweighs one cut.
RangeStatus(selected, outside, cut) ==
  IF ~ selected THEN "skipped"
  ELSE IF outside THEN "partial_skip"
  ELSE IF cut THEN "truncated" ELSE "ok"

calculate_indices(segments, total) ==
  LET indices == UNION {Covered(seg, total) : seg \in segments}
  IN  [indices |-> indices,
       status  |-> RangeStatus(indices # {},
                               \E seg \in segments : Outside(seg, total),
                               \E seg \in segments : Overlong(seg, total))]

-----------------------------------------------------------------------------
(* Samples.                                                                *)

\* np.linspace with its values rounded down.
Linspace(first, last, count) ==
  IF count = 1 THEN {first}
  ELSE {first + ((last - first) * i) \div (count - 1) : i \in 0 .. count - 1}

calculate_summary_indices(first, past, target) ==
  IF target <= 0 \/ first >= past THEN {}
  ELSE IF past - first <= target THEN first .. past - 1
  ELSE Linspace(first, past - 1, target)

-----------------------------------------------------------------------------
(* Writing a selection.                                                    *)

\* The written range is the set of its spans, as a typed one is: runs of numbers
\* one step apart, where no two numbers are closer than that.
Joined(step, numbers) ==
  LET Run(a, b) ==
        /\ a <= b /\ a - step \notin numbers /\ b + step \notin numbers
        /\ \A n \in numbers : a <= n /\ n < b => n + step \in numbers
  IN  {[from |-> p[1], to |-> p[2]] : p \in {q \in numbers \X numbers : Run(q[1], q[2])}}

format_range_string(indices) == Joined(1, {i + 1 : i \in indices})

\* The parts that somebody who types the written range again has typed.
Retyped(spans) ==
  {[from |-> s.from, to |-> s.to, dash |-> s.from # s.to] : s \in spans}
=============================================================================
