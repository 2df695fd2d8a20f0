------------------------------- MODULE MCRows -------------------------------
(* Instances of what is written and counted row by row: the tally of the   *)
(* table (MCBatchTally), the bytes of a batch (Encoding), the payload's    *)
(* width (Calibration), the figures of a corpus (Figures) and the table's  *)
(* files (Geometry).  They share no state: a behaviour is one of one       *)
(* instance, and what the others would change stays as it begins, or Idle. *)
(*                                                                         *)
(* Bytes: three rows in blocks of one to three, texts with characters of   *)
(* one and of two bytes and the empty one.  Longs: two rows, every pair of *)
(* longs of a word.  Widths: targets on both sides of the widths at which  *)
(* an Avro length takes a second and a third byte.  Sharded: three batches *)
(* in two shards.  Blocks: blocks of two rows at a stride of three.        *)
(* Alone: one shard, which applies the gates itself.  Points: three        *)
(* commits in two ticks around two offsets, clocks that are off.           *)
(* Manifests: four commits of every kind.                                  *)
EXTENDS MCBatchTally, Calibration, Figures, Geometry

CONSTANT Idle   \* what a behaviour does not use; no snapshot, no width yet

VARIABLES
  part, state,
  stream, rowBlock, fill, stored, record       \* Encoding

encodingVars == <<stream, rowBlock, fill, stored, record>>

Bytes == INSTANCE Encoding WITH
  WordBits <- 6, Bits <- 2, Low <- -1, Span <- 1, NKeys <- 2, Texts <- {<<>>, <<1>>, <<1, 9>>},
  BlockBytes <- 2, Width <- 3, Batch <- 1, IdBlock <- 5, P <- 7, BatchBytes <- 20,
  RowBlocks <- {1, 2, 3}, MaxRows <- 3
Longs == INSTANCE Encoding WITH
  WordBits <- 5, Bits <- 2, Low <- -16, Span <- 32, NKeys <- 1, Texts <- {<<9>>},
  BlockBytes <- 2, Width <- 0, Batch <- 1, IdBlock <- 5, P <- 7, BatchBytes <- 8,
  RowBlocks <- {1, 2}, MaxRows <- 2
(* Widths *)
MCGrowths == {64, 8192}
MCOthers  == 0 .. 14
MCTargets == (0 .. 8) \cup (58 .. 75) \cup (8188 .. 8203)

(* Sharded, Blocks and Alone *)
Sharded ==
  [batches |-> 3, shards |-> 2, keys |-> 2, values |-> 3, batchBytes |-> 2, rowBlock |-> 1,
   idBlock |-> 3, modulus |-> 5, sketchSize |-> 2, stride |-> 2, rowsEstimate |-> 1, targetRow |-> 2,
   meanTolerance |-> 5, shareTolerance |-> 3, minColdRows |-> 1]
Blocks ==
  [Sharded EXCEPT !.batches = 2, !.batchBytes = 3, !.rowBlock = 2, !.idBlock = 5, !.stride = 3, !.rowsEstimate = 2]
Alone == [Sharded EXCEPT !.batches = 2, !.shards = 1]
MCPlans == {Sharded, Blocks, Alone}

(* Points and Manifests *)
Points ==
  [offsets |-> <<0, 1>>, epoch |-> 0, skew |-> 1, maxTime |-> 2, maxCommits |-> 3, maxFiles |-> 1]
Manifests ==
  [offsets |-> <<>>, epoch |-> 0, skew |-> 0, maxTime |-> 0, maxCommits |-> 4, maxFiles |-> 1]
MCSurveys == {Points, Manifests}

ASSUME RowsAssumption == Bytes!EncodingAssumption /\ Longs!EncodingAssumption

-----------------------------------------------------------------------------
NoEncoding    == stream = Idle /\ rowBlock = Idle /\ fill = Idle /\ stored = Idle /\ record = Idle
NoFigures     == FiguresInit /\ plan = Sharded
NoCalibration == CalibrationInit /\ others = 0 /\ target = 0
NoGeometry    == GeometryInit /\ survey = Points /\ ~legacy

InitRows ==
  /\ TallyInit
  /\ \/ part = "tally" /\ state = Idle /\ NoEncoding /\ NoCalibration /\ NoFigures /\ NoGeometry
     \/ part = "bytes" /\ Bytes!Init /\ NoCalibration /\ NoFigures /\ NoGeometry
     \/ part = "longs" /\ Longs!Init /\ NoCalibration /\ NoFigures /\ NoGeometry
     \/ part = "figures" /\ FiguresInit /\ state = Idle /\ NoEncoding /\ NoCalibration /\ NoGeometry
     \/ part = "widths" /\ CalibrationInit /\ state = Idle /\ NoEncoding /\ NoFigures /\ NoGeometry
     \/ part = "geometry" /\ GeometryInit /\ state = Idle /\ NoEncoding /\ NoCalibration /\ NoFigures

Here(p) == part = p /\ part' = p

NextRows ==
  \/ /\ Here("tally") /\ TallyNext
     /\ UNCHANGED <<state, encodingVars, calibrationVars, figuresVars, geometryVars>>
  \/ /\ \/ Here("bytes") /\ Bytes!Next
        \/ Here("longs") /\ Longs!Next
     /\ UNCHANGED <<tallyVars, calibrationVars, figuresVars, geometryVars>>
  \/ /\ Here("figures") /\ FiguresNext
     /\ UNCHANGED <<tallyVars, state, encodingVars, calibrationVars, geometryVars>>
  \/ /\ Here("widths") /\ CalibrationNext
     /\ UNCHANGED <<tallyVars, state, encodingVars, figuresVars, geometryVars>>
  \/ /\ Here("geometry") /\ GeometryNext
     /\ UNCHANGED <<tallyVars, state, encodingVars, calibrationVars, figuresVars>>

rowsVars == <<part, state, tallyVars, encodingVars, calibrationVars, figuresVars, geometryVars>>

Rows == InitRows /\ [][NextRows]_rowsVars

(* Shards share nothing before the merge: they are taken in turn.          *)
InTurn ==
  \A s \in ShardNumbers \ {0} :
    filling[s] # s \/ (s \in BatchNumbers /\ drawn[s] # <<>>) => outcome[s - 1] # "generating"

-----------------------------------------------------------------------------
(* What is stored of a batch is what was drawn, for texts and longs at     *)
(* every boundary of their encodings, and none is rejected for its bytes.  *)
StoredIsDrawn ==
  /\ part = "bytes" => Bytes!StoredIsDrawn /\ Bytes!NeverRejected
  /\ part = "longs" => Longs!StoredIsDrawn /\ Longs!NeverRejected
=============================================================================
