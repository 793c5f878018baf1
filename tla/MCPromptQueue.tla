--------------------------- MODULE MCPromptQueue ---------------------------
(* Small instance of PromptQueue for TLC: one run the user started, a prompt *)
(* and an interjection, and what may interfere with them.                    *)
EXTENDS PromptQueue

CONSTANTS r0, s1

\* Bounds: of sendNow, remove and list, one comes beside the engines; sendNow
\* comes before the crash, and no second enqueue is half done meanwhile.
OneRequest ==
  /\ \/ listing.at = "idle" /\ removed = {}
     \/ pc[s1] = "idle" /\ removed = {}
     \/ pc[s1] = "idle" /\ listing.at = "idle"
  /\ pc[s1] # "idle" => lives = 0 /\ pushing \subseteq {1}
=============================================================================
