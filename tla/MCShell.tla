------------------------------- MODULE MCShell --------------------------------
(* "t" succeeds, "f" fails, "w" writes as much as a pipe holds and "b" more, *)
(* "r" reads; "x" is no program.                                             *)
EXTENDS LisonShell

MCProgram == {"t", "f", "w", "b", "r"}
MCCode    == [w \in MCProgram |-> IF w = "f" THEN 1 ELSE 0]
MCWrites  == [w \in MCProgram |-> CASE w = "w" -> 2 [] w = "b" -> 3 [] OTHER -> 0]

MCScripts == {
    << <<"f", "||", "t">>, <<"t", "&&", "f", "&&", "t">> >>,
    << <<"w", "|", "r", "&&", "f">>, <<"t">> >>,
    << <<"w", "|", "r", "|", "r">> >>,
    << <<"b", "|", "r">> >>,
    << <<"t", "&">>, <<"f", "||", "b">> >>,
    << <<"f", "||", "t", "&">>, <<>>, <<"t">> >>,
    << <<"w", "|", "r", "&", "f">>, <<"t">> >>,
    << <<"w", "|", "r", "&">>, <<"t">> >>,
    << <<"x", "||", "t">>, <<"w", "|", "r">> >>,
    << <<"x", "|", "r">> >> }
===============================================================================
