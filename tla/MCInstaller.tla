---------------------------- MODULE MCInstaller ----------------------------
(* The installer with the packages and dependencies of the repository.     *)
EXTENDS Installer, Manifests

MCSettings == { <<"false", "false">>, <<"true", "true">>, <<"other", "false">> }
=============================================================================
