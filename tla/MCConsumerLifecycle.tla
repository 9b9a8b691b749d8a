-------------------------- MODULE MCConsumerLifecycle --------------------------
(* Instances of ConsumerLifecycle for TLC; the constants are given in the      *)
(* configurations.                                                             *)
EXTENDS ConsumerLifecycle
=============================================================================
