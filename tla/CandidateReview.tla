-------------------------- MODULE CandidateReview --------------------------
(***************************************************************************)
(* A review session over the candidates of a project: the pages of pending *)
(* candidates that ListCandidates returns, and the promotions and          *)
(* dismissals of one page before the next is asked for by its token.  A    *)
(* page is one SELECT with LIMIT and OFFSET in the order of the scores,    *)
(* which here do not change; nor do new candidates come.                   *)
(***************************************************************************)
EXTENDS Integers, Sequences, SequencesExt

CONSTANTS
  Candidates,
  BatchSize       \* page_size, positive

VARIABLES
  ranked,     \* the stored candidates, best score first
  decided,    \* the candidates that are promoted or dismissed
  offset,     \* what the next page token says
  batch,      \* the candidates of the page in hand
  session,
  shown       \* observation: the candidates the session was given

reviewVars == <<ranked, decided, offset, batch, session, shown>>

ReviewInit ==
  /\ ranked \in {SetToSeq(Candidates), Reverse(SetToSeq(Candidates))}
  /\ decided = {} /\ batch = {} /\ shown = {}
  /\ offset = 0
  /\ session = "fetch"

Pending(c) == c \notin decided

(* ListCandidates with status = pending.                                   *)
CandidatePage == LET pending == SelectSeq(ranked, Pending)
                 IN  SubSeq(pending, offset + 1, Min({offset + BatchSize, Len(pending)}))

FetchBatch ==
  /\ session = "fetch"
  /\ batch' = ToSet(CandidatePage)
  /\ shown' = shown \cup batch'
  /\ IF Len(CandidatePage) = BatchSize
     THEN offset' = offset + BatchSize /\ session' = "act"
     ELSE UNCHANGED offset /\ session' = "last"
  /\ UNCHANGED <<ranked, decided>>

(* PromoteCandidate or DismissCandidate, or an error that is only logged.  *)
Act(c) ==
  /\ c \in batch
  /\ batch' = batch \ {c}
  /\ decided' \in {decided \cup {c}, decided}
  /\ UNCHANGED <<ranked, offset, session, shown>>

EndBatch ==
  /\ session \in {"act", "last"} /\ batch = {}
  /\ session' = IF session = "act" THEN "fetch" ELSE "over"
  /\ UNCHANGED <<ranked, decided, offset, batch, shown>>

ReviewNext == FetchBatch \/ EndBatch \/ \E c \in Candidates : Act(c)

ReviewSpec == ReviewInit /\ [][ReviewNext]_reviewVars
-----------------------------------------------------------------------------
(* When a page comes without a token, the queue is fully processed for     *)
(* this session: every candidate that was pending when it began was shown  *)
(* (docs/NOTX_CONTEXT_CLIENT.md:528).                                      *)
SessionProcessesTheQueue == session = "over" => Candidates \subseteq shown
=============================================================================
