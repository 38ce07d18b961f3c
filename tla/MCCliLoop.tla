----------------------------- MODULE MCCliLoop ------------------------------
(* Three operators and two slots: ann types a line longer than the buffer, *)
(* which leaves exit of it, has another line behind it and may leave at    *)
(* any time; bob types an empty line; cem only connects.                   *)
EXTENDS CliLoop

CONSTANTS ann, bob, cem

ScriptMC ==
    [c \in Operators |-> CASE c = ann -> <<"exit", "a", "nl", "nl">>
                           [] c = bob -> <<"nl">>
                           [] c = cem -> <<>>]
=============================================================================
