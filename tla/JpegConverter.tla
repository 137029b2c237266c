---------------------------- MODULE JpegConverter ----------------------------
(***************************************************************************)
(* What ToJpegConverter.process_image (src/src/to_jpeg_converter.py) makes *)
(* of one picture: it is turned upright, stretched where its dots are not  *)
(* square, shrunk to the largest dimension allowed, and written at the     *)
(* best quality whose file is small enough.                                *)
(*                                                                         *)
(* A picture is a record:                                                  *)
(*   width, height     in dots;                                            *)
(*   across, down      its pixel density, both 0 when there is none;       *)
(*   orientation       the EXIF tag, 0 when there is none;                 *)
(*   exif              "fine"; "lost" when the tags cannot be written back *)
(*                     (tobytes raises); "broken" when turning raises;     *)
(*   rgb               its mode is RGB and it has no profile to apply, so  *)
(*                     that no new picture is made before it is turned;    *)
(*   kb                kb[q]: the size of its JPEG at quality q.           *)
(* Colours are left out.                                                   *)
(***************************************************************************)
EXTENDS Integers

CONSTANTS
  MaxDimension,      \* max_dimension_limit, 0 for none
  MaxFileSizeKb,     \* max_size_kb_limit, 0 for none
  LowestQuality,     \* lowest_quality_limit
  TargetQuality      \* target_quality

ASSUME ConverterAssumption ==
  /\ MaxDimension \in Nat /\ MaxFileSizeKb \in Nat
  /\ LowestQuality \in Nat /\ TargetQuality \in Nat \ {0}
  /\ LowestQuality <= TargetQuality

Picture ==
  [width : Nat \ {0}, height : Nat \ {0}, across : Nat, down : Nat, orientation : Nat,
   exif : {"fine", "lost", "broken"}, rgb : BOOLEAN, kb : [LowestQuality .. TargetQuality -> Nat]]

Larger(a, b) == IF a > b THEN a ELSE b

\* Python's round(a / b): to the nearest, a half to the even neighbour.
Rounded(a, b) ==
  LET q == a \div b
      twice == 2 * (a % b)
  IN  IF twice > b \/ (twice = b /\ q % 2 = 1) THEN q + 1 ELSE q

\* A side scaled by a / b never vanishes.
Scaled(side, a, b) == Larger(1, Rounded(side * a, b))

-----------------------------------------------------------------------------

OnItsSide(p) == p.orientation \in 5 .. 8

\* Mutant: the density stays as it was when the picture turns.
TurnedUnswapped(p) ==
  LET turns == OnItsSide(p) /\ p.exif # "broken" /\ (p.rgb \/ p.exif = "fine")
  IN  [width  |-> IF turns THEN p.height ELSE p.width,
       height |-> IF turns THEN p.width ELSE p.height,
       across |-> p.across, down |-> p.down]

\* A converted picture takes the tags along as bytes; without them nothing
\* tells it to turn, but its density is exchanged all the same.
Turned(p) ==
  LET turns == OnItsSide(p) /\ p.exif # "broken" /\ (p.rgb \/ p.exif = "fine")
      swaps == OnItsSide(p) /\ p.exif # "broken"
  IN  [width  |-> IF turns THEN p.height ELSE p.width,
       height |-> IF turns THEN p.width ELSE p.height,
       across |-> IF swaps THEN p.down ELSE p.across,
       down   |-> IF swaps THEN p.across ELSE p.down]

\* DENSITY_ASPECT_TOLERANCE: two percent.
Uneven(s) ==
  /\ s.across > 0 /\ s.down > 0
  /\ 50 * (s.across - s.down) > s.down \/ 50 * (s.down - s.across) > s.down

Stretched(s) ==
  IF ~ Uneven(s) THEN s
  ELSE IF s.across > s.down
       THEN [s EXCEPT !.height = Scaled(s.height, s.across, s.down)]
       ELSE [s EXCEPT !.width = Scaled(s.width, s.down, s.across)]

Shrunk(s) ==
  LET longest == Larger(s.width, s.height)
  IN  IF MaxDimension = 0 \/ longest <= MaxDimension THEN s
      ELSE [s EXCEPT !.width = Scaled(s.width, MaxDimension, longest),
                     !.height = Scaled(s.height, MaxDimension, longest)]

-----------------------------------------------------------------------------

\* One turn of the binary search for the quality: the one in the middle is probed.
Probed(p, s) ==
  LET mid == (s.low + s.high) \div 2
  IN  IF s.low > s.high THEN s
      ELSE IF p.kb[mid] <= MaxFileSizeKb
           THEN [low |-> mid + 1, high |-> s.high, best |-> mid]
           ELSE [low |-> s.low, high |-> mid - 1, best |-> s.best]

\* Each turn leaves fewer qualities, of which there are no more than TargetQuality;
\* 0 when no probe was small enough.
BestQuality(p) ==
  LET after[n \in Nat] ==
        IF n = 0 THEN [low |-> LowestQuality, high |-> TargetQuality, best |-> 0]
        ELSE Probed(p, after[n - 1])
  IN  after[TargetQuality].best

Limited == MaxFileSizeKb > 0 /\ LowestQuality > 0

\* forced: "Forced to lowest quality" is among the warnings.
Encoded(p) ==
  IF ~ Limited THEN [quality |-> TargetQuality, forced |-> FALSE]
  ELSE IF BestQuality(p) = 0 THEN [quality |-> LowestQuality, forced |-> TRUE]
  ELSE [quality |-> BestQuality(p), forced |-> FALSE]

process_image(p) ==
  LET s == Shrunk(Stretched(Turned(p)))
      e == Encoded(p)
  IN  [width |-> s.width, height |-> s.height, quality |-> e.quality, forced |-> e.forced]
=============================================================================
