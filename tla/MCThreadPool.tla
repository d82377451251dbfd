---------------------------- MODULE MCThreadPool ----------------------------
EXTENDS ThreadPool
CONSTANTS c1, w1, w2
=============================================================================
