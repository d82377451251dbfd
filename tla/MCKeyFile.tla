----------------------------- MODULE MCKeyFile -----------------------------
(* Instance of KeyFile for TLC: three programs, keys of 2 or 3 components.  *)
EXTENDS KeyFile
=============================================================================
