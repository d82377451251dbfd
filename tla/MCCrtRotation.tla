--------------------------- MODULE MCCrtRotation ---------------------------
(* Instance of CrtRotation for TLC: N = 8, Q = 47 * 43 * 7 * 5, a transform *)
(* modulo 6113, LWE samples of 9 bits, keys of two components.             *)
EXTENDS CrtRotation, TLC

Mix(x) == ((x % 887) * ((x \div 887) + 3) + 1697 * (x % 7919) + 12345) % 786433
MCDraw(tag, j) == Mix(Mix(Mix(Mix(tag + 5) + 1031 * (j + 1))))

MCModuli == (0 :> 47) @@ (1 :> 43) @@ (2 :> 7) @@ (3 :> 5)
MCRingKey == [j \in 0 .. 7 |-> IF j \in {0, 2, 3, 7} THEN 1 ELSE 0]
============================================================================
