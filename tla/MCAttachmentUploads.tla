------------------------- MODULE MCAttachmentUploads -------------------------
(* AttachmentUploads on small instances for TLC.                           *)
EXTENDS AttachmentUploads

CONSTANT f1

\* Every upload sends the same file.
SameFile == [u \in Uploads |-> f1]
=============================================================================
