----------------------------- MODULE MCSourceUpload -----------------------------
(* Instances of SourceUpload for TLC.                                       *)
EXTENDS SourceUpload, TLC

=============================================================================
