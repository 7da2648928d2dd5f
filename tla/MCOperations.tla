----------------------------- MODULE MCOperations -----------------------------
(* The environment files of MCEnvironmentFiles, for the scripts together. *)
EXTENDS Operations

Sample == INSTANCE MCEnvironmentFiles WITH Contents <- {}

MCContents == Sample!MCContents
=============================================================================
