--------------------------- MODULE MCConfinement ---------------------------
(***************************************************************************)
(* Small instances of Confinement for TLC.                                 *)
(***************************************************************************)
EXTENDS Confinement

OneDefault == << <<1, 3>> >>

Device(allow, type, access, major, minor) ==
    [allow |-> allow, type |-> type, access |-> access, major |-> major, minor |-> minor]

\* Device rules: wildcards, every kind of check, an unknown type, -1 for any
\* number, and a number that is negative as an i32 of four bits.
Wild == { Device(FALSE, None, None, None, None), Device(TRUE, "a", {"r", "w", "m"}, None, None),
          Device(TRUE, "p", None, -1, -1) }
Narrow == { Device(TRUE, "c", {"r", "w"}, 5, -1), Device(FALSE, "u", {"w"}, 5, 7),
            Device(TRUE, "b", {}, 1, None),       Device(None, "p", {"r"}, None, 7) }
Wrapping == Device(TRUE, "c", None, 9, 7)

\* A wildcard alone, before another rule and behind one.
RuleLists ==
    {<<a>> : a \in Wild \cup {Wrapping}}
    \cup {<<a, b>> : a \in Narrow, b \in Narrow \cup Wild \cup {Wrapping}}
    \cup {<<a, b>> : a \in Wild, b \in Narrow}

Given == << Device(None, "b", None, 1, 7), Device(None, "p", None, None, None),
            Device(None, "c", None, 5, None),  Device(None, "u", None, 5, -1) >>

Letters == {{"r"}, {"m"}, {"r", "w"}}
Asked == { [type |-> t, access |-> a, major |-> d[1], minor |-> d[2]] :
             t \in {"b", "c"}, a \in Letters, d \in {<<1, 3>>, <<1, 7>>, <<5, 7>>} }

Table == [read |-> 0, write |-> 1, clone3 |-> 2]
Seccomp(d, e, s) == [default |-> d, errno |-> e, syscalls |-> s]
Naming(names, a, e) == [names |-> names, action |-> a, errno |-> e]
Most == Naming(<<"read", "write">>, "allow", None)
Newer == Naming(<<"clone3">>, "errno", 38)
Logged == Naming(<<"unheard_of", "read">>, "log", None)

\* Errnos of more than 16 bits; the first one turns into the action "allow".
Wide == Naming(<<"read">>, "errno", 32762 * 65536)
Negative == Naming(<<"write">>, None, -1)
Profiles == { Seccomp(d[1], d[2], s) : d \in {<<"allow", None>>, <<None, None>>, <<"errno", 13>>},
                s \in { <<>>, <<Most, Newer>>, <<Wide, Negative>>, <<Most, Logged>>, <<Logged, Most>>,
                       <<Naming(<<>>, None, None), Newer>>, <<Naming(<<"write">>, Unsupported, None)>> } }
SomeCalls == [arch : {1, 2}, nr : 0..3]

Res(limit, swap, reservation, quota, period, shares, pids) ==
    [limit |-> limit, swap |-> swap, reservation |-> reservation, quota |-> quota,
     period |-> period, shares |-> shares, pids |-> pids]
NoRes == Res(None, None, None, None, None, None, None)
Resources ==
    { Res(4, 6, 2, 2000, None, 1024, 5), Res(4, None, None, None, 50000, 1, -1),
      Res(None, 6, None, -1, None, None, None), Res(4, 4, None, None, None, None, 0),
      Res(0, 6, None, None, None, 100000, None) }

Changes == { Res(4, None, None, None, 50000, 1, -1), Res(None, 6, None, -1, None, 2, None) }

Config(d, x, s, r) == [devices |-> d, extra |-> x, seccomp |-> s, res |-> r]
SomeConfigs ==
    { Config(d, Given, None, NoRes) : d \in RuleLists }
    \cup { Config(<<a>>, <<>>, None, Res(4, 6, 2, 2000, None, 1024, 5)) : a \in Wild }
    \cup { Config(<<>>, <<>>, s, NoRes) : s \in Profiles }
    \cup { Config(<<>>, <<>>, None, r) : r \in Resources \cup {NoRes} }

=============================================================================
