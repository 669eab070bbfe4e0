------------------------------ MODULE MCEpisode ------------------------------
(***************************************************************************)
(* Worlds of envs/registry.py, of eval/hard_heldout.py and of the curricula*)
(* in replay/counterfactual.py, and some on which the agents run out of    *)
(* steps.                                                                  *)
(***************************************************************************)
EXTENDS EpisodeReplay

Codes(code) == [n \in DOMAIN code |-> Press(code[n])]
Tools(names) == [n \in DOMAIN names |-> Use(names[n])]

Sequence(kind, goal, max, mode) ==
    [kind |-> kind, goal |-> goal, max |-> max, mode |-> mode, doors |-> <<>>,
     present |-> FALSE, active |-> FALSE, hint |-> FALSE]

AMaze(kind, door, max, mode, doors, present, active, hint) ==
    [kind |-> kind, goal |-> <<Move(door)>>, max |-> max, mode |-> mode,
     doors |-> doors, present |-> present, active |-> active, hint |-> hint]

Doors1 == <<"red", "blue", "green">>
Doors2 == <<"green", "blue", "red">>

Registry ==
    {Sequence("lock", Codes(<<1, 2, 3>>), 6, "visible"),
     Sequence("lock", Codes(<<2, 4, 1>>), 7, "visible"),
     Sequence("tool", Tools(<<"search", "read", "summarize">>), 5, "visible"),
     AMaze("maze", "blue", 7, "partial_hidden", Doors1, FALSE, FALSE, FALSE),
     Sequence("trap", Codes(<<2, 4, 1>>), 8, "visible"),
     AMaze("hazard", "green", 7, "visible", Doors1, TRUE, TRUE, TRUE),
     Sequence("precondition", Tools(<<"read", "summarize">>), 6, "visible")}

Heldout ==
    {Sequence("lock", Codes(<<1, 1, 1>>), 7, "visible"),
     Sequence("lock", Codes(<<4, 1, 3, 2>>), 10, "partial_hidden"),
     Sequence("lock", Codes(<<2, 4, 1>>), 9, "hidden"),
     Sequence("tool", Tools(<<"search", "search", "summarize">>), 6, "visible"),
     Sequence("tool", Tools(<<"read", "search", "read", "search", "summarize">>),
              11, "partial_hidden"),
     Sequence("tool", Tools(<<"read", "search", "read", "summarize">>), 11, "hidden"),
     AMaze("maze", "red", 10, "hidden", Doors2, FALSE, FALSE, FALSE),
     Sequence("trap", Codes(<<1, 3, 2, 4>>), 10, "visible"),
     AMaze("hazard", "red", 8, "visible", Doors2, TRUE, TRUE, FALSE),
     AMaze("hazard", "green", 7, "visible", Doors1, TRUE, FALSE, TRUE),
     AMaze("hazard", "blue", 7, "visible", Doors2, FALSE, FALSE, TRUE),
     Sequence("precondition", Tools(<<"read", "read", "summarize">>), 7, "visible")}

\* Worlds with the steps that the generators of counterfactual.py give them.
Generated ==
    {Sequence("lock", Codes(<<3, 1, 3>>), 8, "visible"),
     Sequence("lock", Codes(<<1, 4, 2>>), 8, "hidden"),
     Sequence("lock", Codes(<<2, 3, 1, 1>>), 9, "partial_hidden"),
     Sequence("lock", Codes(<<4, 2, 2, 1>>), 8, "partial_hidden"),
     Sequence("tool", Tools(<<"read", "search", "summarize">>), 6, "visible"),
     Sequence("tool", Tools(<<"search", "search", "summarize">>), 8, "hidden"),
     Sequence("tool", Tools(<<"search", "read", "search", "summarize">>), 9,
              "partial_hidden"),
     AMaze("maze", "blue", 5, "hidden", Doors1, FALSE, FALSE, FALSE),
     AMaze("hazard", "red", 7, "visible", Doors1, FALSE, FALSE, TRUE)}

\* slot_v2 makes hidden chains without a search; a maze can be visible from the
\* start; a hazard can be unknown in a maze that has none; and steps run out.
Others ==
    {Sequence("tool", Tools(<<"read", "read", "summarize">>), 8, "hidden"),
     AMaze("maze", "green", 5, "visible", Doors1, FALSE, FALSE, FALSE),
     AMaze("hazard", "red", 4, "visible", Doors1, FALSE, FALSE, FALSE),
     Sequence("lock", Codes(<<3, 3>>), 3, "hidden"),
     Sequence("trap", Codes(<<4, 2>>), 2, "visible")}

Worlds == Registry \cup Heldout \cup Generated \cup Others
==============================================================================
