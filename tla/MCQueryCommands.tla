-------------------------- MODULE MCQueryCommands --------------------------
(***************************************************************************)
(* Models of QueryCommands for TLC.                                        *)
(***************************************************************************)
EXTENDS QueryCommands

\* Commands whose rows may be late, before ones that may take them for their own, before
\* ones that make another thing, and before ones with rows nobody waits for; of one
\* the late row has a second key.
LateThenOthers == {<<"create", "create", "plain">>, <<"several", "createOther", "plain">>,
                   <<"read", "plain", "create">>, <<"createWide", "plain", "create">>}
=============================================================================
