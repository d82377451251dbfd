--------------------------- MODULE MCBootstrapping ---------------------------
(* Instance of Bootstrapping for TLC: N = 8, a torus of 15 bits, digits of  *)
(* 3 bits, LWE samples of 10 bits; keys of 2, 3 and 4 components.           *)
EXTENDS Bootstrapping, TLC

Mix(x) == ((x % 887) * ((x \div 887) + 3) + 1697 * (x % 7919) + 12345) % 786433
MCDraw(tag, j) == Mix(Mix(Mix(Mix(tag + 5) + 1031 * (j + 1))))

MCSize == [sc \in {"normal", "mp21", "opt", "preRot", "wwl24", "wwl24Alt", "lazy", "pipe",
                   "pipeAlt", "noFirst"} |-> 2] @@ ("group2" :> 4) @@ ("group3" :> 3)

MCRingKey == [j \in 0 .. 7 |-> IF j \in {0, 2, 3, 7} THEN 1 ELSE 0]

Table(kind, t, value) == [kind |-> kind, t |-> t, value |-> value]
Identity == Table("identity", 0, 0)
MCCases ==
    {<<sc, Identity>> : sc \in DOMAIN MCSize} \cup
    {<<sc, Table("value", 0, 1)>> : sc \in {"normal", "opt", "pipeAlt"}} \cup
    {<<"opt", Table("lt1", 1, 0)>>, <<"opt", Table("leq0", 0, 0)>>, <<"opt", Table("equal", 1, 1)>>}
==============================================================================
