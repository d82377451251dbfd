---------------------------- MODULE SingleFlight ----------------------------
(***************************************************************************)
(* What a shared key cache promises the workers that ask it for keys,      *)
(* whatever its replacement policy: a key is loaded by at most one asker   *)
(* at a time and only while it is not resident; the load that ends well    *)
(* may promise its key to askers that waited for it, which then never load *)
(* it themselves; and an asker is answered from the resident keys, by a    *)
(* promise, or by its own load.                                            *)
(***************************************************************************)
CONSTANTS Threads, Keys, NoKey, NoThread

VARIABLES
  asked,     \* the key each thread is asking for
  loader,    \* the thread loading each key
  resident,  \* the keys the cache holds
  promised   \* the threads a load has promised their key

vars == <<asked, loader, resident, promised>>

Init ==
  /\ asked = [t \in Threads |-> NoKey]
  /\ loader = [k \in Keys |-> NoThread]
  /\ resident = {} /\ promised = {}

Ask(t, k) ==
  /\ asked[t] = NoKey
  /\ asked' = [asked EXCEPT ![t] = k]
  /\ UNCHANGED <<loader, resident, promised>>

StartLoad(t, k) ==
  /\ asked[t] = k /\ loader[k] = NoThread /\ k \notin resident /\ t \notin promised
  /\ loader' = [loader EXCEPT ![k] = t]
  /\ UNCHANGED <<asked, resident, promised>>

EndLoad(t, k) ==
  /\ asked[t] = k /\ loader[k] = t
  /\ asked' = [asked EXCEPT ![t] = NoKey]
  /\ loader' = [loader EXCEPT ![k] = NoThread]
  /\ \/ /\ resident' \subseteq resident \cup {k}
        /\ promised' \in {promised \cup w : w \in SUBSET {u \in Threads : u # t /\ asked[u] = k}}
     \/ UNCHANGED <<resident, promised>>        \* the load has failed

Answer(t, k) ==
  /\ asked[t] = k /\ (k \in resident \/ t \in promised)
  /\ asked' = [asked EXCEPT ![t] = NoKey]
  /\ promised' = promised \ {t}
  /\ UNCHANGED <<loader, resident>>

Next == \E t \in Threads, k \in Keys :
  Ask(t, k) \/ StartLoad(t, k) \/ EndLoad(t, k) \/ Answer(t, k)

Spec == Init /\ [][Next]_vars
=============================================================================
