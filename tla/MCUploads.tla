------------------------------ MODULE MCUploads ------------------------------
(* Small instances of Uploads. *)
EXTENDS UploadsInv
=============================================================================
