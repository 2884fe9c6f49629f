---------------------------- MODULE MCHpecpPatch ----------------------------
(* HpecpPatch with an import of somebody else, and one whose name contains  *)
(* the one that is looked for.                                              *)
EXTENDS HpecpPatch

MCNames == {"kf-dashboard", "kf-dashboard-test", "grafana"}
MCAlike == {"kf-dashboard", "kf-dashboard-test"}
=============================================================================
