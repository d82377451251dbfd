------------------------------ MODULE KeyFile ------------------------------
(***************************************************************************)
(* Bootstrapping keys, from their generation on the pool to the file they  *)
(* are kept in and back (bootstrapping.cpp, ya_serializer.cpp).  Programs  *)
(* run one after another on the same file and may be killed at any moment: *)
(*   "cached"  loads the file if there is one, else generates and saves    *)
(*             (firststep_fixedkey.cpp)                                    *)
(*   "fresh"   generates, saves, and loads what it saved (gen_benchkeys,   *)
(*             blindrotate_comp.cpp)                                       *)
(*   "reader"  loads (DiskReader of cache_manager.h)                       *)
(* A program has its own number n of key components; a reader passes it to *)
(* the deserializer, which checks nothing it reads.                        *)
(*                                                                         *)
(* What is stored at a place of a key is known by the generation it is of  *)
(* and by the component (and level) of the secret that it encrypts.        *)
(***************************************************************************)
EXTENDS Integers, Sequences

CONSTANTS
    Schemes,    \* subset of AllSchemes
    Sizes,      \* values of param.n
    Level,      \* param.lApprox, the level of the keys
    Runs,       \* bound on the programs
    Throws      \* bound on the programs whose tasks may throw

AllSchemes == {"ginx", "opt", "wwl24", "wwl24Alt", "lazy", "pipe", "pipeAlt"}

ASSUME KeyFileAssumption ==
    /\ Schemes \subseteq AllSchemes
    /\ Sizes \subseteq Nat \ {0, 1} /\ Level \in Nat \ {0} /\ Runs \in Nat /\ Throws \in Nat

VARIABLES
    scheme,
    runs, mode, n,  \* programs so far; the one that runs, and its param.n
    pc,
    key,            \* [at, n, level]: places and their content, fields
    tasks, threw,   \* tasks of the generation outstanding; those that threw
    file,           \* the records of the file, or NoFile
    written,        \* what the last save has saved, if it returned
    io,             \* the next record of the stream
    bad             \* the stream has failed, or is no longer at a record

vars == <<scheme, runs, mode, n, pc, key, tasks, threw, file, written, io, bad>>

None == [kind |-> "none"]
NoFile == <<None>>
Blank == [gen |-> 0, of |-> << >>]
Junk == [gen |-> -1, of |-> << >>]

\* the first component is encrypted together with the test polynomial
FirstApart == scheme \in {"opt", "lazy", "pipe"}
\* the key holds the rows of the square of the ring key
HasSquare == scheme \in {"wwl24", "wwl24Alt", "pipe", "pipeAlt"}

Comps(m) == [c \in 1 .. m |-> <<"comp", c - 1>>]

\* cells i * level + lvl, in the order of decompIndex
Cells(m, level) == [c \in 1 .. m * level |-> <<"A", c - 1>>]
CellPairs(m, level) ==
    [c \in 1 .. 2 * m * level |-> <<IF c % 2 = 1 THEN "A" ELSE "B", (c - 1) \div 2>>]

Places(m, level) ==
    LET Elements(seq) == {seq[c] : c \in DOMAIN seq}
    IN (IF FirstApart THEN {<<"first">>} ELSE {}) \cup
       (IF HasSquare THEN {<<"square">>} ELSE {}) \cup
       CASE scheme \in {"ginx", "wwl24", "wwl24Alt", "pipeAlt"} -> Elements(Comps(m))
         [] scheme = "opt" -> Elements(Comps(m - 1))
         [] scheme = "lazy" -> Elements(Comps(m - 1)) \cup Elements(Cells(m - 1, level))
         [] scheme = "pipe" -> Elements(CellPairs(m - 1, level))

Constructed(m) == [at |-> [p \in Places(m, Level) |-> Blank], n |-> m, level |-> Level]
Default == [at |-> << >>, n |-> 0, level |-> 0]

(***************************************************************************)
(* A program starts, or is killed.                                         *)
(***************************************************************************)
Init ==
    /\ scheme \in Schemes
    /\ runs = 0 /\ mode = "cached" /\ n = 0 /\ pc = "off"
    /\ key = Default /\ tasks = {} /\ threw = {}
    /\ file = NoFile /\ written = None /\ io = 1 /\ bad = FALSE

Start(m, md) ==
    LET loads == md = "reader" \/ (md = "cached" /\ file # NoFile)
    IN /\ pc = "off" /\ runs < Runs
       /\ runs' = runs + 1 /\ mode' = md /\ n' = m
       /\ pc' = IF loads THEN "open" ELSE "generate"
       /\ key' = IF md = "reader" THEN Default ELSE Constructed(m)
       /\ tasks' = IF loads THEN {} ELSE 0 .. m - 1
       /\ threw' = {}
       /\ UNCHANGED <<scheme, file, written, io, bad>>

Stop ==
    /\ pc \in {"saved", "loaded", "failed"} /\ (pc = "saved" => mode = "cached")
    /\ pc' = "off"
    /\ UNCHANGED <<scheme, runs, mode, n, key, tasks, threw, file, written, io, bad>>

\* what is still in the buffer of a stream does not reach the file
Kill ==
    /\ pc # "off" /\ pc' = "off"
    /\ IF pc = "write" THEN \E m \in 0 .. Len(file) : file' = SubSeq(file, 1, m)
       ELSE file' = file
    /\ UNCHANGED <<scheme, runs, mode, n, key, tasks, threw, written, io, bad>>

(***************************************************************************)
(* Generation: a task for each component of the secret.                    *)
(***************************************************************************)
\* mutant: not shifted by the component that is apart
Secret_Unshifted(i) == i

\* the component of the secret that the i-th task after the first encrypts
Secret(i) == IF FirstApart THEN i + 1 ELSE i

\* the places that the task of component t writes, with the level of each
Fills(t) ==
    IF FirstApart /\ t = 0 THEN {<<"first">>}
    ELSE LET i == IF FirstApart THEN t - 1 ELSE t
             cells == {i * Level + lvl : lvl \in 0 .. Level - 1}
         IN (IF scheme = "pipe" THEN {} ELSE {<<"comp", i>>}) \cup
            (IF scheme \in {"lazy", "pipe"} THEN {<<"A", c>> : c \in cells} ELSE {}) \cup
            (IF scheme = "pipe" THEN {<<"B", c>> : c \in cells} ELSE {})

Content(p) ==
    [gen |-> runs,
     of |-> CASE p = <<"first">> -> <<0>>
              [] p = <<"square">> -> << >>
              [] p[1] = "comp" -> <<Secret(p[2])>>
              [] OTHER -> <<Secret(p[2] \div Level), p[2] % Level>>]

Task(t) ==
    /\ pc = "generate" /\ t \in tasks
    /\ tasks' = tasks \ {t}
    /\ key' = [key EXCEPT !.at = [p \in DOMAIN key.at |->
                                     IF p \in Fills(t) THEN Content(p) ELSE key.at[p]]]
    /\ UNCHANGED <<scheme, runs, mode, n, pc, threw, file, written, io, bad>>

\* f.wait() does not hand on what a task throws
TaskThrows(t) ==
    /\ pc = "generate" /\ t \in tasks /\ runs <= Throws
    /\ tasks' = tasks \ {t} /\ threw' = threw \cup {t}
    /\ UNCHANGED <<scheme, runs, mode, n, pc, key, file, written, io, bad>>

Joined ==
    /\ pc = "generate" /\ tasks = {}
    /\ key' = IF HasSquare THEN [key EXCEPT !.at[<<"square">>] = Content(<<"square">>)] ELSE key
    /\ pc' = "generated"
    /\ UNCHANGED <<scheme, runs, mode, n, tasks, threw, file, written, io, bad>>

(***************************************************************************)
(* Saving.                                                                 *)
(***************************************************************************)
N == <<"n">>
Lvl == <<"level">>
Rest == <<"rest">>      \* group, isHalf, initialized: one constant each

WriteOrder(m, level) ==
    CASE scheme \in {"wwl24", "wwl24Alt"} -> Comps(m) \o << <<"square">>, N, Rest >>
      [] scheme = "ginx" -> Comps(m) \o <<N, Rest>>
      [] scheme = "opt" -> << <<"first">> >> \o Comps(m - 1) \o <<N, Rest>>
      [] scheme = "lazy" -> << <<"first">> >> \o Comps(m - 1) \o Cells(m - 1, level)
                            \o <<N, Lvl, Rest>>
      [] scheme = "pipe" -> <<Lvl, <<"first">>, <<"square">> >> \o CellPairs(m - 1, level)
      [] scheme = "pipeAlt" -> << <<"square">> >> \o Comps(m) \o <<Lvl, Rest>>

RecordOf(p) ==
    [kind |-> p[1],
     value |-> CASE p = N -> key.n [] p = Lvl -> key.level [] p = Rest -> 0
                 [] OTHER -> key.at[p]]

\* mutant: opened for update
Truncated_Not == IF file = NoFile THEN << >> ELSE file

\* openForWrite empties the file
Truncated == << >>

OpenWrite ==
    /\ pc = "generated" /\ pc' = "write"
    /\ file' = Truncated /\ written' = None
    /\ io' = 1 /\ bad' = FALSE
    /\ UNCHANGED <<scheme, runs, mode, n, key, tasks, threw>>

OpenWriteFails ==
    /\ pc = "generated" /\ pc' = "failed"
    /\ UNCHANGED <<scheme, runs, mode, n, key, tasks, threw, file, written, io, bad>>

Write ==
    LET order == WriteOrder(key.n, key.level)
    IN /\ pc = "write" /\ io <= Len(order)
       /\ io' = io + 1
       /\ \/ /\ ~bad /\ bad' = FALSE
             /\ file' = [r \in DOMAIN file \cup {io} |->
                            IF r = io THEN RecordOf(order[io]) ELSE file[r]]
          \/ bad' = TRUE /\ file' = file     \* the disk is full, or was
       /\ UNCHANGED <<scheme, runs, mode, n, pc, key, tasks, threw, written>>

\* mutant: the stream is closed by its destructor
Reported_Never == FALSE

\* closeChecked
Reported == bad

Close ==
    /\ pc = "write" /\ io > Len(WriteOrder(key.n, key.level))
    /\ pc' = IF Reported THEN "failed" ELSE "saved"
    /\ written' = IF Reported THEN None ELSE [kind |-> "file", n |-> n, at |-> key.at]
    /\ UNCHANGED <<scheme, runs, mode, n, key, tasks, threw, file, io, bad>>

(***************************************************************************)
(* Loading, record by record.                                              *)
(***************************************************************************)
\* a program that has saved its key loads it into another object
Reload ==
    /\ pc = "saved" /\ mode = "fresh"
    /\ pc' = "open" /\ key' = Default
    /\ UNCHANGED <<scheme, runs, mode, n, tasks, threw, file, written, io, bad>>

OpenRead ==
    /\ pc = "open"
    /\ pc' = IF file = NoFile THEN "failed" ELSE "read"
    /\ io' = 1 /\ bad' = FALSE
    /\ UNCHANGED <<scheme, runs, mode, n, key, tasks, threw, file, written>>

\* mutant: the fields come before the cells
ReadOrder_FieldsFirst(m, level) ==
    IF scheme = "lazy" THEN << <<"first">> >> \o Comps(m - 1) \o <<N, Lvl, Rest>>
                            \o Cells(m - 1, level)
    ELSE WriteOrder(m, level)

ReadOrder(m, level) ==
    CASE scheme \in {"wwl24", "wwl24Alt"} -> Comps(m) \o << <<"square">>, N, Rest >>
      [] scheme = "ginx" -> Comps(m) \o <<N, Rest>>
      [] scheme = "opt" -> << <<"first">> >> \o Comps(m - 1) \o <<N, Rest>>
      [] scheme = "lazy" -> << <<"first">> >> \o Comps(m - 1) \o Cells(m - 1, level)
                            \o <<N, Lvl, Rest>>
      [] scheme = "pipe" -> <<Lvl, <<"first">>, <<"square">> >> \o CellPairs(m - 1, level)
      [] scheme = "pipeAlt" -> << <<"square">> >> \o Comps(m) \o <<Lvl, Rest>>

\* the level of the key while the cells are read: the one of its first component
\* where no record has told it yet
LevelFrom(p, value) ==
    IF scheme = "lazy" /\ p = <<"comp", 0>> THEN IF value = Junk THEN 0 ELSE Level
    ELSE IF p = Lvl THEN value ELSE key.level

Stored(p, value) ==
    [at |-> IF p \in {N, Lvl, Rest} THEN key.at
            ELSE [q \in DOMAIN key.at \cup {p} |-> IF q = p THEN value ELSE key.at[q]],
     n |-> IF p = N THEN value ELSE IF scheme = "pipeAlt" THEN n ELSE key.n,
     level |-> LevelFrom(p, value)]

Aligned(p) == ~bad /\ io <= Len(file) /\ file[io].kind = p[1]

\* At the end of the file, and where the file holds something else than the
\* reader expects, nothing is checked: a field stays as it is or gets any value,
\* sizes are arbitrary, so that a vector may or may not be allocated.
Read ==
    LET order == ReadOrder(n, key.level)
        p == order[io]
    IN /\ pc = "read" /\ io <= Len(order)
       /\ io' = io + 1
       /\ \/ /\ Aligned(p)
             /\ key' = Stored(p, file[io].value)
             /\ UNCHANGED <<pc, bad>>
          \/ /\ ~Aligned(p) /\ bad' = TRUE
             /\ \/ pc' = pc /\ p \notin {N, Lvl, Rest} /\ key' = Stored(p, Junk)
                \/ pc' = pc /\ p \in {N, Lvl, Rest} /\ key' = key
                \/ pc' = pc /\ p \in {N, Lvl} /\ \E v \in {0, Level + 1} : key' = Stored(p, v)
                \/ pc' = "failed" /\ key' = key
       /\ UNCHANGED <<scheme, runs, mode, n, tasks, threw, file, written>>

Loaded ==
    /\ pc = "read" /\ io > Len(ReadOrder(n, key.level))
    /\ pc' = "loaded"
    /\ key' = [key EXCEPT !.n = IF scheme = "pipeAlt" THEN n ELSE key.n]
    /\ UNCHANGED <<scheme, runs, mode, n, tasks, threw, file, written, io, bad>>

Next ==
    \/ \E m \in Sizes, md \in {"cached", "fresh", "reader"} : Start(m, md)
    \/ Stop \/ Kill
    \/ \E t \in tasks : Task(t) \/ TaskThrows(t)
    \/ Joined
    \/ OpenWrite \/ OpenWriteFails \/ Write \/ Close
    \/ Reload \/ OpenRead \/ Read \/ Loaded

Spec == Init /\ [][Next]_vars

(***************************************************************************)
(* Properties.                                                             *)
(***************************************************************************)
\* When the generation has been joined, every place that a rotation looks at
\* holds the component of the secret that the rotation turns it by, or its
\* task has thrown: tasks leave no gap, and none writes into another's place.
GeneratedWhole ==
    pc \in {"generated", "write"} =>
        \A p \in DOMAIN key.at :
            \/ /\ key.at[p].gen = runs
               /\ p[1] = "comp" => key.at[p].of = <<p[2] + (IF FirstApart THEN 1 ELSE 0)>>
               /\ p[1] \in {"A", "B"} => key.at[p].of = <<p[2] \div Level + 1, p[2] % Level>>
            \/ \E t \in threw : p \in Fills(t)

\* A save that returns has left every part of the key in the file: a write
\* that fails is not lost between the stream's buffer and the close.
SaveReports ==
    pc = "saved" =>
        \A p \in DOMAIN key.at : \E r \in DOMAIN file : file[r] = RecordOf(p)

\* A key loaded by the number of components it was saved with is the one saved,
\* place by place, whichever object it is loaded into and whatever was in the
\* file before; all of its loaders but one restore n as well.
RoundTrip ==
    pc = "loaded" /\ written # None /\ written.n = n =>
        /\ key.at = written.at
        /\ scheme \in {"lazy", "pipe", "pipeAlt"} => key.level = Level
        /\ scheme # "pipe" => key.n = n

\* Whatever was killed or failed, and by whatever n the file is read, a load
\* does not put parts of two keys together.
NoMixture ==
    pc = "loaded" =>
        \A p, q \in DOMAIN key.at :
            key.at[p].gen > 0 /\ key.at[q].gen > 0 => key.at[p].gen = key.at[q].gen

=============================================================================
