---------------------------- MODULE MCPluginSpans ----------------------------
(* Finite instances of PluginSpans.                                        *)
EXTENDS PluginSpans, TLC
=============================================================================
