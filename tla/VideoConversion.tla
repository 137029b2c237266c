--------------------------- MODULE VideoConversion ---------------------------
(***************************************************************************)
(* The conversion of a video (src/src/pipelines/video.py) beside the other *)
(* pipelines, and what every conversion promises.                          *)
(*                                                                         *)
(* Each target is sought from the last key frame before it, in the stream's*)
(* own time.  The pictures come out of the decoder in the order of frames. *)
(***************************************************************************)
EXTENDS Conversion

header == file.header

\* Packets counted by _validate_metadata, those that have a time and the last
\* of their times, when its scan of the file reads this many.
Packets(count) == {i \in 1 .. count : file.frames[i].counted}
Timed(count) == {i \in 1 .. count : file.frames[i].at # Absent}
ContentEnd(count) ==
  LET ends == {file.frames[i].at : i \in Timed(count)}
  IN  IF ends = {} THEN Absent ELSE Larger(0, Max(ends) - header.start_time)

\* Frames per tick is what fps stands for here.
Duration(count) ==
  CASE header.container # Absent -> header.container
    [] header.container = Absent /\ header.stream \notin {Absent, 0} -> header.stream
    [] OTHER -> Cardinality(Packets(count)) \div header.fps

Unplayable(count) ==
  \/ ~ header.has_video \/ header.fps = 0 \/ Packets(count) = {}
  \/ Duration(count) <= 0

Asked(count) ==
  get_target_times(CompileTimes(file.typed), Duration(count),
                   file.mode, ContentEnd(count))

OpenVideo ==
  /\ stage = "open" /\ file.kind = "video"
  /\ \E count \in 0 .. Total :
       /\ IF count = Total THEN UNCHANGED mishaps ELSE Mishap
       /\ IF Unplayable(count) \/ (Asked(count).times # {} /\ header.time_base # "fine")
          THEN Abort
          ELSE Begin(Asked(count).times, Asked(count).status)

-----------------------------------------------------------------------------
(* _capture_target_image.                                                  *)

\* The frame decoding starts at after a seek backwards.
Entry(pts) ==
  LET keys == {i \in 1 .. Total : file.frames[i].key /\ file.frames[i].at \in 0 .. pts}
  IN  IF keys = {} THEN 1 ELSE Max(keys)

Decoded(pts) == {i \in Entry(pts) .. Total : file.frames[i].at # Absent}
NotBefore(pts) == {i \in Decoded(pts) : file.frames[i].at >= pts}

\* The first picture not before the target, else the last one of all.
Captured(pts) ==
  IF NotBefore(pts) # {} THEN Min(NotBefore(pts)) ELSE Max(Decoded(pts))

\* frame.time is None for a frame without a pts, which counts as zero.
CaptureSeconds(frame) ==
  Larger(0, (IF file.frames[frame].timed THEN file.frames[frame].at ELSE 0) - header.start_time)

Seeking == stage = "pages" /\ file.kind = "video"
Sought == Captured(targets[next] + header.start_time)

\* What the row says of the tones, given that mapping is off or not.
Tone(off) == IF header.transfer = "" THEN "" ELSE IF off THEN "plain" ELSE "mapped"

\* A picture outside the grid the tone mapping assumes turns it off for good.
MayFallBack(off) ==
  IF off = plain THEN UNCHANGED mishaps
  ELSE off /\ header.transfer # "" /\ Mishap

\* No picture with a time comes out of the decoder, although the scan saw one.
EndOfStream ==
  /\ Seeking /\ Mishap
  /\ Yield(Row(next, "failure", 0, Absent, ""))
  /\ StepOn(Len(targets)) /\ UNCHANGED <<jpegs, last_saved, plain>>

SceneStatic ==
  /\ Seeking /\ ~ Distinct(Sought)
  /\ \E off \in BOOLEAN : plain' = off /\ MayFallBack(off)
  /\ Yield(Row(next, "skipped", Sought, CaptureSeconds(Sought), ""))
  /\ StepOn(Len(targets)) /\ UNCHANGED <<jpegs, last_saved>>

SceneSaved ==
  /\ Seeking /\ Distinct(Sought)
  /\ \E off \in BOOLEAN :
       /\ plain' = off /\ MayFallBack(off)
       /\ Saved(next, CaptureSeconds(Sought), Sought, Tone(off))
  /\ StepOn(Len(targets))

\* InvalidDataError: the first time the target is sought again.
DecoderRejects ==
  /\ Seeking /\ ~ retrying /\ retrying' = TRUE /\ Mishap
  /\ UNCHANGED <<file, stage, next, plan, made, summary>>

\* Rejected a second time, or something unforeseen is raised: then tone mapping
\* may have been given up first.
SceneFails ==
  /\ Seeking
  /\ \/ Lost(next)
     \/ Distinct(Sought) /\ NotSaved(next, CaptureSeconds(Sought), Sought)
  /\ plain' \in {plain, plain \/ header.transfer # ""}
  /\ StepOn(Len(targets))

ConversionNext ==
  \/ Rejected \/ OpenFails \/ NoPages
  \/ OpenDocument \/ OpenImage \/ OpenAnimation \/ OpenVideo
  \/ PageSaved \/ PageFails
  \/ AnimationEndsEarly \/ FrameCorrupt \/ FramePassed \/ FrameStatic \/ FrameSaved \/ FrameFails
  \/ EndOfStream \/ DecoderRejects \/ SceneStatic \/ SceneSaved \/ SceneFails
  \/ finalize_results \/ CloseFails \/ Stopped


-----------------------------------------------------------------------------
(* What a conversion promises.                                             *)

Planned == IF file.kind = "video" THEN [i \in DOMAIN targets |-> i] ELSE targets
Pages == [i \in DOMAIN rows |-> rows[i].page]
Finished == stage = "ended" /\ summary.claim # "error"

\* A page that fails costs no other page its row: every page of the plan is
\* accounted for once and in order, except that the rows of an animation end
\* where its decoding does.  After an abort the rows of the plan are followed
\* by the row of the abort, whose page number may be one of theirs.
RowPerTarget ==
  /\ IsPrefix(IF summary.claim = "error" THEN Front(Pages) ELSE Pages, Planned)
  /\ Finished /\ file.kind # "animation" => Pages = Planned

\* The frame a target stands for.
FrameOf(k) ==
  IF file.kind = "video" THEN Captured(targets[k] + header.start_time) ELSE targets[k]

Holds(jpeg, row) == jpeg.name = Named(row.page, row.time) /\ jpeg.whole /\ jpeg.frame = row.frame

\* "Successfully saved all N requested frames" (base_pipeline.py:68) and the
\* counts beside it are what later reports repeat: each target has a JPEG that
\* is whole and shows that target, or was left out because nothing changed.
ClaimIsTrue ==
  Finished =>
    /\ summary.claim \in {"all saved", "all processed"} =>
         \A k \in DOMAIN targets : \E i \in DOMAIN rows :
           /\ rows[i].page = Planned[k] /\ rows[i].frame = FrameOf(k)
           /\ \/ rows[i].status = "ok" /\ \E j \in jpegs : Holds(j, rows[i])
              \/ rows[i].status = "skipped" /\ summary.claim = "all processed"
    /\ summary.claim = "none" => \A i \in DOMAIN rows : rows[i].status = "failure"

\* A page is sent only when its row says ok: such a row has its own file in the
\* folder, complete, although files are written in place and writing may fail.
SavedRowsHaveTheirPicture ==
  \A i \in DOMAIN rows : rows[i].status = "ok" =>
    /\ Cardinality({j \in jpegs : j.name = Named(rows[i].page, rows[i].time)}) = 1
    /\ \E j \in jpegs : Holds(j, rows[i])

\* The counts of a conversion are those of its rows, the row of an abort apart.
TotalsAddUp ==
  \A s \in DOMAIN tally : tally[s] =
    Cardinality({i \in DOMAIN rows : rows[i].status = s /\ (i = Len(rows) => summary.claim # "error")})

\* Rows, counts, claim and pictures of a conversion tell the same story, whatever failed
\* on the way (finalize_results and the loops of the pipelines).
RowsTellTheConversion ==
  RowPerTarget /\ TotalsAddUp /\ ClaimIsTrue /\ SavedRowsHaveTheirPicture

\* A scene left out as static was saved: it differs little from a picture that
\* is in the folder, however slowly the scene drifts and whatever failed.
NothingNewDropped ==
  \A i \in DOMAIN rows : rows[i].status = "skipped" =>
    \E k \in 1 .. i - 1 :
      /\ rows[k].status = "ok"
      /\ LET d == file.frames[rows[i].frame].scene - file.frames[rows[k].frame].scene
         IN  d * d <= SCENE_SENSITIVITY

\* Pictures of a video follow each other in time, retries and seeks or not.
\* (A frame without a pts is given the time zero and is left out of this.)
FramesInOrder ==
  file.kind = "video" =>
    \A i, k \in DOMAIN rows :
      i < k /\ rows[i].frame # 0 /\ rows[k].frame # 0 =>
        /\ rows[i].frame <= rows[k].frame
        /\ file.frames[rows[i].frame].timed /\ file.frames[rows[k].frame].timed
             => rows[i].time <= rows[k].time

\* Tone mapping that was given up in a file does not come back in it, or
\* pictures of one video would differ in colour at random.
TonesNeverReturn ==
  \A i, k \in DOMAIN rows : i < k /\ rows[i].tone = "plain" => rows[k].tone # "mapped"

\* The pictures of a film show it in its order and in the same tones, and leave out
\* only what hardly changes (is_frame_distinct, _capture_target_image).
ScenesAreKept == NothingNewDropped /\ FramesInOrder /\ TonesNeverReturn

-----------------------------------------------------------------------------
(* Ranges: what was typed, in the words of the one who typed it.           *)

Wants(part, page) ==
  IF part.dash THEN page >= part.from /\ (part.to = Absent \/ page <= part.to)
  ELSE page = part.from

Wanted == {p \in 1 .. Total : file.typed = {} \/ \E part \in file.typed : Wants(part, p)}

\* The last page a part names.
LastNamed(part) == Larger(part.from, part.to)

Selected == stage \in {"pages", "close"} \/ Finished

\* The pages converted are those that were typed, cut at the limit of pages or
\* thinned out evenly from the first to the last; and a range reported as ok
\* left out nothing that was typed.
PagesAreTheRequest ==
  /\ Selected /\ file.kind = "document" =>
       /\ ToSet(targets) = First(Wanted, DOCUMENT_MAX_PAGES)
       /\ range_status = "ok" =>
            ToSet(targets) = Wanted /\ \A part \in file.typed : LastNamed(part) <= Total
  /\ Selected /\ file.kind = "animation" =>
       /\ ToSet(targets) \subseteq Wanted
       /\ Len(targets) = IF Cardinality(Wanted) < ANIMATION_TARGET_TOTAL_FRAMES
                         THEN Cardinality(Wanted) ELSE ANIMATION_TARGET_TOTAL_FRAMES
       /\ Len(targets) > 1 => Min(Wanted) = Head(targets) /\ Max(Wanted) = Last(targets)
  /\ Selected => (range_status = "skipped" <=> targets = << >>)

\* The range written into the registry, typed again, selects the same pages; of
\* a video it covers the moments taken and begins and ends with one.
RangeTextReadsBack ==
  Finished =>
    IF file.kind = "video"
    THEN /\ \A t \in ToSet(targets) : \E s \in summary.range : s.from <= t /\ t <= s.to
         /\ \A s \in summary.range : {s.from, s.to} \subseteq ToSet(targets)
    ELSE targets # << >> =>
           {i + 1 : i \in calculate_indices(Compile(Retyped(summary.range)), Total).indices}
             = ToSet(targets)

\* Moments are only sought where the file has time for them, and moments that
\* are spread by the program not past the last picture, unless the segment
\* begins there: or every video whose sound is longer than its picture would
\* end with the same picture again and again.
TargetsHaveContent ==
  Selected /\ file.kind = "video" =>
    \A t \in ToSet(targets) :
      \E seg \in CompileTimes(file.typed) :
        /\ seg.start <= t /\ (seg.end # Absent => t <= seg.end)
        /\ mishaps = 0 => t <= Duration(Total)
        /\ mishaps = 0 /\ ~ seg.point /\ seg.start < ContentEnd(Total) => t <= ContentEnd(Total)

\* What is converted is what was typed, and what is recorded says so (range_parsers.py).
SelectionIsTheRequest == PagesAreTheRequest /\ RangeTextReadsBack /\ TargetsHaveContent

-----------------------------------------------------------------------------
(* Pictures.                                                               *)

Whole == {j \in jpegs : j.whole}

\* A JPEG is within the largest dimension, and as good as the size limit allows:
\* no better quality fits, and it is too large only when nothing fits.
FitsTheLimits ==
  \A j \in Whole :
    LET Fits(q) == file.picture.kb[q] <= MaxFileSizeKb
    IN  /\ MaxDimension > 0 => {j.width, j.height} \subseteq 1 .. MaxDimension
        /\ Limited =>
             \A q \in LowestQuality .. TargetQuality :
               Fits(q) => ~ j.forced /\ q <= j.quality /\ Fits(j.quality)

\* The picture has the shape it was taken in: sides and densities turn together.
\* Each side is off by a dot at most, beyond the two percent of the height that
\* DENSITY_ASPECT_TOLERANCE lets pass.
ShapeAsIntended ==
  \A j \in Whole :
    LET p == file.picture
        dense == p.across > 0 /\ p.down > 0
        wide == IF dense THEN p.width * p.down ELSE p.width
        high == IF dense THEN p.height * p.across ELSE p.height
        turned == OnItsSide(p) /\ p.exif = "fine"
        w == IF turned THEN high ELSE wide
        h == IF turned THEN wide ELSE high
        off == j.width * h - j.height * w
        most == 50 * (w + h) + j.height * w
    IN  p.exif # "lost" => 50 * off <= most /\ - 50 * off <= most

\* What process_image writes is the picture it was given, made to fit.
PicturesAsIntended == FitsTheLimits /\ ShapeAsIntended

ConversionSpec == ConversionInit /\ [][ConversionNext]_conversionVars
=============================================================================
