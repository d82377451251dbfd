-------------------------- MODULE MCLazyExpansion --------------------------
EXTENDS LazyExpansion

(* batchSize and tasksPerThread: chunks of one, one chunk, and a remainder. *)
MCBatchings == {<<2, 1>>, <<1, 2>>, <<2, 2>>}
=============================================================================
