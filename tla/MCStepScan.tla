----------------------------- MODULE MCStepScan -----------------------------
(* Files for checking StepScan with TLC: DATA sections made of records,     *)
(* comments and ';', and short files with every section mark.               *)
EXTENDS StepScan

CONSTANT DataBytes  \* bound: bytes after "DATA;" and a first record
SeqsUpTo(S, n) == UNION {[1 .. k -> S] : k \in 0 .. n}
Sections == {h \o d : h \in {<<>>, <<"H", ";", "n", ";">>, <<"n", ";">>},
                      d \in {<<"D", ";", "n", ";", "E", ";", "n", ";">>, <<"D", ";", "n">>,
                             <<"E", ";", "D", ";", "H", ";", "n", ";">>}}
SmallFiles ==
    {<<"D", ";", "n">> \o s : s \in SeqsUpTo({"n", "/", "*", ";"}, DataBytes)}
    \cup Sections
=============================================================================
