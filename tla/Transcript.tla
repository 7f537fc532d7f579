----------------------------- MODULE Transcript -----------------------------
(***************************************************************************)
(* What a session shows a client that follows the protocol: server_ready,  *)
(* then partial results, each with at least the text confirmed by the one  *)
(* before, then one final result, which also keeps that text, then         *)
(* speech_end.                                                             *)
(***************************************************************************)
EXTENDS SequencesExt

VARIABLES
  stage,  \* the type of the last message
  shown   \* the segments whose text the last result confirmed

vars == <<stage, shown>>

Init ==
  /\ stage = "none"
  /\ shown = <<>>

Ready ==
  /\ stage = "none"
  /\ stage' = "ready"
  /\ UNCHANGED shown

Partial ==
  /\ stage \in {"ready", "partial"}
  /\ stage' = "partial"
  /\ IsPrefix(shown, shown')

Final ==
  /\ stage \in {"ready", "partial"}
  /\ stage' = "final"
  /\ IsPrefix(shown, shown')

End ==
  /\ stage = "final"
  /\ stage' = "end"
  /\ UNCHANGED shown

Next == Ready \/ Partial \/ Final \/ End

Spec == Init /\ [][Next]_vars
=============================================================================
