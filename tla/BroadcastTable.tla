--------------------------- MODULE BroadcastTable ---------------------------
(* The table the L1 broadcaster shares with the writers, as they see it: the
   status of a row, and how the broadcaster may move it on. *)

TxStatuses == {"None", "Unpublished", "Published", "Confirmed", "Finalized", "InvalidInputs"}

Accepted(s) == s \in {"Published", "Confirmed", "Finalized"}

\* The statuses a row may take next, where commit is the status of the commit.
\* A reveal needs its commit, is not deeper than it, and is refused while the
\* node does not have it, or has lost it.
Following(isCommit, commit, s) ==
    CASE ~isCommit /\ commit = "InvalidInputs" /\ s \in {"Published", "Confirmed"} -> {"InvalidInputs"}
      [] s = "Unpublished" -> IF isCommit \/ Accepted(commit) THEN {"Published"}
                              ELSE {"InvalidInputs"}
      [] s = "Published" -> IF isCommit \/ commit \in {"Confirmed", "Finalized"}
                            THEN {"Confirmed"} ELSE {}
      [] s = "Confirmed" -> IF isCommit \/ commit = "Finalized" THEN {"Finalized"} ELSE {}
      [] OTHER -> {}
=============================================================================
