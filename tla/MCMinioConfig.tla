--------------------------- MODULE MCMinioConfig ---------------------------
(* MinioConfig with two required fields standing for the five of the code. *)
EXTENDS MinioConfig

MCRequiredFields == {"host", "secretkey"}
MCRevisions == {"r1"}
=============================================================================
