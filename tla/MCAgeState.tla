----------------------------- MODULE MCAgeState -----------------------------
(* Instances of AgeState for TLC.                                          *)
EXTENDS AgeState, TLC

CONSTANTS v1, v2

Plain(kind) == [kind |-> kind]
Change(o, version, vs) ==
    [kind |-> "change", obj |-> o, version |-> version, vars |-> vs,
     blob |-> "parsed", do_persist |-> TRUE]
Load(player, data, spawn) ==
    [kind |-> "load", is_player |-> player, data |-> data, spawn |-> spawn]

\* What a game client does in an age, and each way to get it wrong.
AllMessages ==
    {Plain("join"), Plain("request"), Plain("other"), Plain("illegal"),
     Change(Hook, 1, {v1}), Change(Hook, 1, {v2}),
     Change(1, 1, {v1}), Change(2, 1, {v1}),
     [Change(1, 1, {v1}) EXCEPT !.blob = "refused"],
     [Change(1, 1, {v1}) EXCEPT !.blob = "raises"],
     [Change(1, 1, {v1}) EXCEPT !.do_persist = FALSE],
     Load(TRUE, "good", "age"), Load(FALSE, "good", "age"), Load(TRUE, "good", "none"),
     Load(TRUE, "corrupt", "age"),
     [kind |-> "lock", obj |-> 1], [kind |-> "unlock", obj |-> 1]}

Symmetry == Permutations(Conn)
=============================================================================
