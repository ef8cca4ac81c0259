--------------------------- MODULE MCTopicSelector --------------------------
(* A method of a second group between two of the first.  The first of them *)
(* has any topic of up to two words or one of three longer ones, the other *)
(* one of four topics that overlap with it.                                *)
EXTENDS TopicSelector

CONSTANTS g1, g2

MCSpelling ==
    [w \in {"a", "ab", "a-", "*", "#"} |->
        CASE w = "a" -> <<"a">> [] w = "ab" -> <<"a", "b">> [] w = "a-" -> <<"a", "-">>
          [] w = "*" -> <<"*">> [] w = "#" -> <<"#">>]

MCTopics == UNION {[1 .. n -> {"a", "ab", "*", "#"}] : n \in 1 .. 2}
            \union {<<"a", "*", "a">>, <<"*", "a", "#">>, <<"a", "#", "a">>}

MCSubscribers ==
    {<<[group |-> g1, topic |-> s], [group |-> g2, topic |-> <<"*">>], [group |-> g1, topic |-> t]>>
        : s \in MCTopics, t \in {<<"a", "ab">>, <<"*">>, <<"#">>, <<"a", "#">>}}

MCKeys == UNION {[1 .. n -> {"a", "ab", "a-"}] : n \in 1 .. 2}
          \union [1 .. 3 -> {"a", "ab"}]
=============================================================================
