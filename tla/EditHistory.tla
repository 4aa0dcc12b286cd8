----------------------------- MODULE EditHistory -----------------------------
(***************************************************************************)
(* What undo and redo promise: a line of whole documents.  Undo goes back  *)
(* to the document before the last edit, redo forward to the one that was  *)
(* undone, and a new edit starts a new future.  Only the oldest documents  *)
(* of the past may be forgotten.                                           *)
(***************************************************************************)
EXTENDS Sequences, SequencesExt

VARIABLES past, present, future

historyVars == <<past, present, future>>

HistoryInit == past = <<>> /\ future = <<>>

Edit == /\ future' = <<>>
        /\ past' \in Suffixes(Append(past, present)) \ {<<>>}

\* An edit that joins the one before it: one undo is to take back both.
Amend == past # <<>> /\ past' = past /\ future' = <<>>

Undo == /\ past # <<>>
        /\ present' = Last(past)
        /\ past' = Front(past)
        /\ future' = Append(future, present)

Redo == /\ future # <<>>
        /\ present' = Last(future)
        /\ future' = Front(future)
        /\ past' = Append(past, present)

Forget == past' = <<>> /\ future' = <<>>

HistorySpec == HistoryInit /\ [][Edit \/ Amend \/ Undo \/ Redo \/ Forget]_historyVars
=============================================================================
