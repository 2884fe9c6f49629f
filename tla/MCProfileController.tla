------------------------ MODULE MCProfileController ------------------------
(* apps/pipeline's program with one namespace and a kind of child for each *)
(* way metacontroller treats them: left alone, updated in place, unknown.  *)
EXTENDS ProfileController

MCProgram == Pipelines

MCKinds == {"Secret", "Deployment", "Role"}
=============================================================================
