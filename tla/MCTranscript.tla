------------------------------ MODULE MCTranscript -------------------------------
(* Instances of Transcript. *)
EXTENDS Transcript
================================================================================
