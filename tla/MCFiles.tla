------------------------------- MODULE MCFiles -------------------------------
(***************************************************************************)
(* FileRules for TLC: ~/ssh is protected, as is a name relative to the     *)
(* working directory; the links the build makes are in /tmp and one takes   *)
(* the place of a protected name.                                          *)
(***************************************************************************)
EXTENDS FileRules

Abs(comps) == [abs |-> TRUE, comps |-> comps]
Rel(comps) == [abs |-> FALSE, comps |-> comps]

MCNames == {"home", "ssh", "d", "tmp", "l", "cfg", "key", "out", "sub", "nc", "bin", "x", "~", "~x", "homex"}
MCDirs == {<<>>, <<"home">>, <<"home", "ssh">>, <<"home", "ssh", "d">>,
           <<"tmp">>, <<"tmp", "d">>}
MCCwd == <<"home">>
MCCwds == {<<"home">>, <<"tmp">>}
MCLinks == {<<"tmp", "l">>, <<"home", "cfg">>}
MCTargets == {<<"tmp", "d", "key">>, <<"home", "ssh">>, <<"home", "ssh", "key">>, <<"home", "ssh", "d">>}
MCOpened == {Abs(<<"home", "ssh", "key">>), Abs(<<"tmp", "l">>), Abs(<<"tmp", "l", "key">>),
             Abs(<<"tmp", "d", "..", "l", "key">>), Abs(<<"tmp", "l", "..", "key">>),
             Abs(<<"home", "ssh", "..", "out">>), Abs(<<"home", "cfg", "key">>), Abs(<<"tmp", "d", "key">>),
             Abs(<<"tmp", "x", "..", "d", "sub">>), Abs(<<"out">>), Abs(<<"homex">>), Rel(<<"cfg", "key">>), Rel(<<"ssh", "key">>)}
MCExecuted == {Abs(<<"tmp", "d", "nc">>), Abs(<<"tmp", "l", "nc">>), Rel(<<"d", "nc">>),
               Abs(<<"bin">>)}
MCTilde == [n \in {"~", "~x"} |-> IF n = "~" THEN <<"home">> ELSE <<"homex">>]
MCProtected == {Rel(<<"~", "ssh">>), Rel(<<"~x">>), Abs(<<"home", "cfg">>), Abs(<<"home", "out", "sub">>),
                Rel(<<"cfg">>), Abs(<<"tmp", "x", "..", "d", "sub">>), Abs(<<>>), Rel(<<"d", "..">>)}
MCDisallowed == {[kind |-> "name", comps |-> <<"nc">>], [kind |-> "name", comps |-> <<"long">>],
                 [kind |-> "under", comps |-> <<"tmp">>], [kind |-> "is", comps |-> <<"bin">>]}
MCCommOf == [n \in {"nc", "long", "lon", "bin"} |-> IF n = "long" THEN "lon" ELSE n]
MCInitFiles == {<<"tmp", "d", "nc">>, <<"bin">>}
=============================================================================
