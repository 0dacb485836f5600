---------------------------- MODULE MCPluginMgr ----------------------------
(* Instances of the plugin manager for TLC.                                *)
EXTENDS PluginMgr

CONSTANTS l1, l2, l3

ThreeLibs == {l1, l2, l3}
=============================================================================
