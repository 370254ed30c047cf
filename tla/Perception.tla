------------------------------ MODULE Perception ------------------------------
(***************************************************************************)
(* From an image to an aiming error: the letterbox that RGA is told to     *)
(* draw (preprocess_geometry.cpp), the choice of the best grid cell, the   *)
(* decoding of its box and the way back to the source image                *)
(* (yolov8_postprocess.cpp).                                               *)
(*                                                                         *)
(* Floating-point numbers are exact fractions here. The model's output is  *)
(* a score per grid cell -- the quantization of a branch only scales it -- *)
(* and four distances in half cells, which the softmax over the DFL bins   *)
(* yields; both are chosen freely. Coordinates of the model's input are    *)
(* counted in half pixels.                                                 *)
(***************************************************************************)
EXTENDS Integers, Sequences, FiniteSets, FiniteSetsExt

CONSTANTS Sources,        \* source sizes <<width, height>>
          Model,          \* the model's input size
          CellStrides,    \* of the branches, in the order of the outputs
          Levels,         \* bound: scores; 0 is the lowest a cell can have
          Threshold,      \* confidence_threshold
          MinimumArea,    \* minimum_box_area_px, a whole number here
          Boxes           \* bound: decoded distances left, top, right, bottom, in half cells

\* No picture is so narrow that the letterbox has less than half a pixel for it.
ASSUME PerceptionAssumption ==
    /\ Model \in (Nat \ {0}) \X (Nat \ {0}) /\ Sources \subseteq (Nat \ {0}) \X (Nat \ {0})
    /\ \A s \in Sources : s[1] <= 2 * s[2] * Model[1] /\ s[2] <= 2 * s[1] * Model[2]
    /\ CellStrides \in Seq(Nat \ {0}) /\ CellStrides # <<>>
    /\ \A i \in DOMAIN CellStrides : /\ Model[1] % CellStrides[i] = 0
                                     /\ Model[2] % CellStrides[i] = 0
    /\ \A i, j \in DOMAIN CellStrides : i < j => CellStrides[i] < CellStrides[j]
    /\ Levels \subseteq Nat /\ 0 \in Levels /\ Threshold \in Nat /\ MinimumArea \in Nat
    /\ Boxes \subseteq Nat \X Nat \X Nat \X Nat

VARIABLES scene,          \* what the camera and the model deliver for one frame
          result          \* PostprocessResult

perceptionVars == <<scene, result>>

Cells == {c \in (DOMAIN CellStrides) \X (0..Model[1]) \X (0..Model[2]) :
            /\ (c[2] + 1) * CellStrides[c[1]] <= Model[1]
            /\ (c[3] + 1) * CellStrides[c[1]] <= Model[2]}

NoResult == [at |-> "none"]

\* Two cells may stand out of the background; the box is of the cell chosen.
PerceptionInit ==
    /\ scene \in [source : Sources, first : Cells, second : Cells,
                  level : Levels, other : Levels, distances : Boxes]
    /\ result = NoResult

-----------------------------------------------------------------------------
(* ComputeCenteredLetterbox.                                               *)

Clamped(v, low, high) == Max({low, Min({v, high})})

\* lround of a quotient of positive numbers.
Rounded(n, d) == (2 * n + d) \div (2 * d)

\* The smaller of the two ratios, as numerator and denominator.
UniformScale(source) ==
    IF Model[1] * source[2] <= Model[2] * source[1]
    THEN [num |-> Model[1], den |-> source[1]]
    ELSE [num |-> Model[2], den |-> source[2]]

Letterbox(source) ==
    LET scale == UniformScale(source)
        resized == [axis \in 1..2 |->
            Clamped(Rounded(source[axis] * scale.num, scale.den), 1, Model[axis])]
    IN  [scale |-> scale, resized |-> resized,
         before |-> [axis \in 1..2 |-> (Model[axis] - resized[axis]) \div 2],
         after |-> [axis \in 1..2 |-> (Model[axis] - resized[axis])
                                        - (Model[axis] - resized[axis]) \div 2]]

-----------------------------------------------------------------------------
(* Top1Decoder.                                                            *)

Score(c) == CASE c = scene.first -> scene.level
              [] c # scene.first /\ c = scene.second -> scene.other
              [] OTHER -> 0

Columns(branch) == Model[1] \div CellStrides[branch]
Rows(branch) == Model[2] \div CellStrides[branch]

\* The cell at an offset of a branch's score plane.
CellAt(branch, offset) ==
    <<branch, offset % Columns(branch), offset \div Columns(branch)>>

\* A plausible bug: of equal scores the last wins.
FindBranchMaximumLast(branch) ==
    LET best[offset \in 0 .. Columns(branch) * Rows(branch) - 1] ==
            LET cell == CellAt(branch, offset)
                current == best[offset - 1]
            IN  IF offset = 0 \/ Score(cell) >= Score(current) THEN cell ELSE current
    IN  best[Columns(branch) * Rows(branch) - 1]

\* FindBranchMaximum: the first maximum of the plane; offset 0 if none is
\* above the lowest score.
FindBranchMaximum(branch) ==
    LET best[offset \in 0 .. Columns(branch) * Rows(branch) - 1] ==
            LET cell == CellAt(branch, offset)
                current == best[offset - 1]
            IN  IF offset = 0 \/ Score(cell) > Score(current) THEN cell ELSE current
    IN  best[Columns(branch) * Rows(branch) - 1]

\* IsBetter; equal scores are equal here, the code allows for 1e-7.
IsBetter(candidate, current) ==
    \/ Score(candidate) > Score(current)
    \/ /\ Score(candidate) = Score(current)
       /\ CellStrides[candidate[1]] < CellStrides[current[1]]

FindBest ==
    LET best[branch \in DOMAIN CellStrides] ==
            LET candidate == FindBranchMaximum(branch)
                current == best[branch - 1]
            IN  IF branch = 1 \/ IsBetter(candidate, current) THEN candidate ELSE current
        found == best[Len(CellStrides)]
    IN  IF Score(found) < Threshold THEN {} ELSE {found}

\* Decode, in half pixels: low and high edge per axis.
Decode(c) ==
    LET stride == CellStrides[c[1]]
        Side(i) == scene.distances[i]
    IN  [low |-> <<(2 * c[2] + 1 - Side(1)) * stride, (2 * c[3] + 1 - Side(2)) * stride>>,
         high |-> <<(2 * c[2] + 1 + Side(3)) * stride, (2 * c[3] + 1 + Side(4)) * stride>>]

BoxInvalid(box) == \E axis \in 1..2 : box.high[axis] <= box.low[axis]

-----------------------------------------------------------------------------
(* MapToOriginal and CalculateError.                                       *)

\* Twice the scale's numerator times a source coordinate.
ToSource(half, axis, lb) == (half - 2 * lb.before[axis]) * lb.scale.den

MapToOriginal(box, lb) ==
    LET Limit(axis) == 2 * lb.scale.num * (scene.source[axis] - 1)
        Edge(half, axis) == Clamped(ToSource(half, axis, lb), 0, Limit(axis))
    IN  [low |-> [axis \in 1..2 |-> Edge(box.low[axis], axis)],
         high |-> [axis \in 1..2 |-> Edge(box.high[axis], axis)]]

\* The end of MapToOriginal: no box, or one that is too small.
Unusable(mapped, lb) ==
    \/ BoxInvalid(mapped)
    \/ (mapped.high[1] - mapped.low[1]) * (mapped.high[2] - mapped.low[2])
            < MinimumArea * (2 * lb.scale.num) * (2 * lb.scale.num)

\* The sign of the error that the normalized and clamped error keeps: the
\* box's centre against the centre of the source image.
ErrorSign(box, lb) ==
    [axis \in 1..2 |->
        LET d == box.low[axis] + box.high[axis] - 2 * lb.scale.num * scene.source[axis]
        IN  IF d > 0 THEN 1 ELSE IF d < 0 THEN -1 ELSE 0]

\* Process: a frame without a confident cell has no target, a box that does
\* not exist throws, one with no or too little area in the source is
\* INVALID.
Process ==
    /\ result = NoResult
    /\ LET lb == Letterbox(scene.source)
           best == FindBest
       IN  result' =
            IF best = {} THEN [at |-> "NO_TARGET", best |-> best]
            ELSE LET cell == CHOOSE c \in best : TRUE
                     box == Decode(cell)
                     mapped == MapToOriginal(box, lb)
                 IN  IF BoxInvalid(box) THEN [at |-> "throws", best |-> best]
                     ELSE IF Unusable(mapped, lb) THEN [at |-> "INVALID", best |-> best]
                     ELSE [at |-> "DETECTED", best |-> best, box |-> mapped,
                           error |-> ErrorSign(mapped, lb)]
    /\ UNCHANGED scene

PerceptionNext == Process

PerceptionSpec == PerceptionInit /\ [][PerceptionNext]_perceptionVars

-----------------------------------------------------------------------------
(* Properties.                                                             *)

\* The padded image is exactly the model's input, and one axis has no padding
\* to spare: the picture is as large as it can be.
LetterboxFills ==
    \A source \in Sources :
        LET lb == Letterbox(source)
        IN  /\ \A axis \in 1..2 :
                /\ lb.before[axis] + lb.resized[axis] + lb.after[axis] = Model[axis]
                /\ lb.after[axis] - lb.before[axis] \in {0, 1}
            /\ \E axis \in 1..2 : lb.resized[axis] = Model[axis]

\* RGA stretches each axis to a whole number of pixels; postprocessing inverts
\* with the one uniform scale. A source point drawn and mapped back lands
\* within half a model pixel of where it was.
RoundTripClose ==
    \A source \in Sources, axis \in 1..2 :
        LET lb == Letterbox(source)
            drift == lb.resized[axis] * lb.scale.den - source[axis] * lb.scale.num
        IN  2 * Max({drift, -drift}) <= lb.scale.den

\* The scan of the branches finds the best cell of all: no cell has a higher
\* score, and none with an equal score is finer, or as fine and higher up, or
\* in the same row and further left. Without a confident cell there is none.
BestFound ==
    result # NoResult =>
        \/ result.best = {} /\ \A c \in Cells : Score(c) < Threshold
        \/ \E best \in result.best : \A c \in Cells \ {best} :
            \/ Score(c) < Score(best)
            \/ /\ Score(c) = Score(best)
               /\ \/ c[1] > best[1]
                  \/ c[1] = best[1] /\ c[3] > best[3]
                  \/ c[1] = best[1] /\ c[3] = best[3] /\ c[2] > best[2]

\* A box that lies in the padding is no target -- where RGA had to shrink the picture to
\* whole pixels, one that lies there by half a pixel -- and a reported one aims into the
\* half of the source where its letterboxed picture lies.
AimsWhereItSees ==
    result.at \in {"DETECTED", "INVALID"} =>
        LET lb == Letterbox(scene.source)
            box == Decode(CHOOSE c \in result.best : TRUE)
            Shrunk(axis) ==
                lb.resized[axis] * lb.scale.den < scene.source[axis] * lb.scale.num
            Outside(axis) ==
                \/ box.high[axis] <= 2 * lb.before[axis]
                \/ box.low[axis] >= 2 * (Model[axis] - lb.after[axis])
                                     + (IF Shrunk(axis) THEN 1 ELSE 0)
        IN  /\ (\E axis \in 1..2 : Outside(axis)) => result.at = "INVALID"
            /\ result.at = "DETECTED" =>
                \A axis \in 1..2 :
                    box.high[axis] <= 2 * lb.before[axis] + lb.resized[axis]
                        => result.error[axis] <= 0

PerceptionKept == LetterboxFills /\ RoundTripClose /\ BestFound /\ AimsWhereItSees
=============================================================================
