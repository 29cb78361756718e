------------------------------ MODULE MCMapper ------------------------------
(* Two applications and a database whose ids share their first eight       *)
(* characters, two containers, a legacy name that ends in the prefix only. *)
EXTENDS MapperProps, TLC

CONSTANTS a1, a2, d1, k, w1, w2, s1, s2, p

MCApps      == {a1, a2}
MCDBs       == {d1}
MCWorkloads == {w1, w2}
MCSources   == {s1, s2}
MCTokens    == {a1, a2, d1, k}
MCPrefix    == [t \in MCTokens |-> p]

Shown  == {{}, {a1}, {a2}, {d1}, {k}}
Mapped == {<<>>, 1 :> 2, 2 :> 2, (1 :> 1) @@ (2 :> 1)}
Links  == {[src |-> (a1 :> s1) @@ (a2 :> s2), usable |-> {s1, s2}],
           [src |-> (a1 :> s1) @@ (a2 :> s2), usable |-> {s1}],
           [src |-> (a1 :> s1) @@ (a2 :> s1), usable |-> {s1}]}

Input(named, legible, scope, bot, l, port, signals, forwards, used) ==
    [named |-> named, legible |-> legible, scope |-> scope \cap (MCApps \cup MCDBs), bot |-> bot,
     src |-> l.src, usable |-> l.usable, dbPort |-> [d \in MCDBs |-> port],
     list |-> <<w1, w2>>, signals |-> signals, forwards |-> forwards, used |-> used]

All    == MCApps \cup MCDBs \cup MCSources
AnyLink == CHOOSE l \in Links : TRUE

MCInputs ==
    {Input(All \ x, TRUE, All, b, l, n, sg, f, u) :
        x \in {{}, {a2}}, b \in {{}, {a1}}, l \in Links, n \in 0 .. 2,
        sg \in [MCWorkloads -> Shown], f \in [MCWorkloads -> Mapped], u \in {{}, {2}}}
    \cup {Input(x, g, sc, {}, AnyLink, 0, sg, [w \in MCWorkloads |-> <<>>], {}) :
        x \in {All, {}, All \ {s1}}, g \in BOOLEAN, sc \in {MCApps \cup MCDBs, {a1, d1}},
        sg \in [MCWorkloads -> Shown]}
=============================================================================
