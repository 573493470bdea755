-------------------------- MODULE MCScriptDownload --------------------------
(***************************************************************************)
(* Instances of ScriptDownload for TLC.                                    *)
(***************************************************************************)
EXTENDS ScriptDownload, TLC

DownloadSymmetry == Permutations(Downloaders)
=============================================================================
