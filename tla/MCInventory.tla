---------------------------- MODULE MCInventory ----------------------------
(* Inventory with two namespaces: one of the cluster, one of Kubeflow.      *)
EXTENDS Inventory

MCNamespaces == 1 .. 2
=============================================================================
