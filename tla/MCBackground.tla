---------------------------- MODULE MCBackground ----------------------------
(* The goroutines of the SQLite provider that derive rows from note texts. *)
(* They share no table that one of them writes and another one reads, so   *)
(* that a behaviour follows one of them, the focus, with the writer and    *)
(* the clients it meets.  Where analyses or paragraphs are not in focus,   *)
(* the notes they are made of are deleted, so that none waits for them.    *)
EXTENDS CandidateScorer, Inference, NoteAnalysis, ParagraphRunner

VARIABLE focus

backgroundVars == <<focus, scorerVars, inferVars, analysisVars, paragraphVars>>

MCTitleOf == [w \in Topics |-> "v1"]

MCKin == {<<"k", "k">>, <<"l", "l">>}
MCPlaces == {[project |-> "p1", folder |-> f] : f \in {"f1", None}}
MCFirstPlace == [n \in Notes |-> [project |-> "p1", folder |-> "f1"]]

BackgroundInit ==
  /\ focus \in {"scorer", "inference", "analysis", "paragraphs"}
  /\ ScorerInit /\ InferenceInit /\ AnalysisInit /\ ParagraphInit
  /\ recency = SetToSeq(Notes)
  /\ gone = IF focus = "analysis" THEN {} ELSE Notes
  /\ deleted = [n \in Notes |-> focus # "paragraphs"]

BackgroundNext ==
  /\ UNCHANGED focus
  /\ \/ focus = "scorer" /\ ScorerNext /\ UNCHANGED <<inferVars, analysisVars, paragraphVars>>
     \/ focus = "inference" /\ InferenceNext /\ edits' + 2 * upsets' + today' <= MaxEdits + 2
                            /\ UNCHANGED <<scorerVars, analysisVars, paragraphVars>>
     \/ focus = "analysis" /\ AnalysisNext
                            /\ UNCHANGED <<scorerVars, inferVars, paragraphVars>>
     \/ focus = "paragraphs" /\ ParagraphNext
                            /\ (resets > 0 => faults' = faults) /\ (faults > 0 => resets' = resets)
                            /\ UNCHANGED <<scorerVars, inferVars, analysisVars>>

BackgroundSpec ==
  /\ BackgroundInit /\ [][BackgroundNext]_backgroundVars
  /\ WF_scorerVars(focus = "scorer" /\ SendFromWriter)
  /\ SF_scorerVars(focus = "scorer" /\ WriteScore)
  /\ SF_scorerVars(focus = "scorer" /\ Receive)
  /\ SF_scorerVars(focus = "scorer" /\ Reconcile)
  /\ WF_inferVars(focus = "inference" /\ InferenceRunner)
  /\ WF_analysisVars(focus = "analysis" /\ AnalysisRunner)
  /\ WF_analysisVars(focus = "analysis" /\ CommitHead)
  /\ WF_paragraphVars(focus = "paragraphs" /\ Runner)
  /\ WF_paragraphVars(focus = "paragraphs" /\ StoreHead)
-----------------------------------------------------------------------------
(* The variables of each module keep their types.                          *)
BackgroundTypeOK == ScorerTypeOK /\ InferenceTypeOK /\ AnalysisTypeOK /\ ParagraphTypeOK
=============================================================================
