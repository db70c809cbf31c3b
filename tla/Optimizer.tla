------------------------------- MODULE Optimizer -------------------------------
(***************************************************************************)
(* Optimizer::Run of src/src/optimize.cc: the passes of the pipeline, one  *)
(* after the other, as far as the optimization level allows.  The three    *)
(* loops of the peephole pass are stages of their own.                     *)
(***************************************************************************)
EXTENDS OptCommentLoop, OptFusionOp, OptPeep, OptDelayPtr, OptMultiplyLoop, OptDoubleGuard

VARIABLES level,  \* the optimization level, 0..3
          stage   \* the stage of the pipeline that runs

optimizerVars == <<stream, iter, offset, level, stage>>

\* The lowest level at which each stage runs.
pipeline == <<1, 1, 2, 2, 2, 2, 3, 3>>

Finished == stage > Len(pipeline)

\* The stage that runs after stage s, if any does.
StageAfter(s) ==
  Min({t \in (s + 1)..Len(pipeline) : pipeline[t] <= level} \cup {Len(pipeline) + 1})

\* Before the first stage.
Idle == stage = 0 /\ offset = 0 /\ iter = nil

NextStage ==
  /\ iter = nil /\ ~Finished
  /\ stage' = StageAfter(stage)
  /\ iter' = (IF stage' > Len(pipeline) THEN nil ELSE Begin(stream))
  /\ offset' = 0 /\ UNCHANGED <<stream, level>>

Rewriting ==
  /\ \/ stage = 1 /\ CommentLoop
     \/ stage = 2 /\ FusionOp
     \/ stage = 3 /\ ReplaceSingleInstructionLoops
     \/ stage = 4 /\ ReplaceFindCellLoops
     \/ stage = 5 /\ MergeSetIncrDecr
     \/ stage = 7 /\ MultiplyLoop
     \/ stage = 8 /\ DoubleGuard
  /\ UNCHANGED <<offset, level, stage>>

DelayingMoves == stage = 6 /\ DelayPtr /\ UNCHANGED <<level, stage>>

Optimize == NextStage \/ Rewriting \/ DelayingMoves
===============================================================================
