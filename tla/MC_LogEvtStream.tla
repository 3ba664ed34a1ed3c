---------------------------- MODULE MC_LogEvtStream ----------------------------
(***************************************************************************)
(* The model values of MC_LogEvt for the stream view of the serializer.   *)
(***************************************************************************)
EXTENDS LogEvtStream, MC_LogEvt

=============================================================================
