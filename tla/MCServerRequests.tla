-------------------------- MODULE MCServerRequests --------------------------
(* ServerRequests on a small instance.                                      *)
EXTENDS ServerRequests, TLC

CONSTANTS u1, u2

MCEntryTables == {(u1 :> {"password", "key"}) @@ (u2 :> {}),
                  (u1 :> {"key"}) @@ (u2 :> {"none"})}
MCKnowledge == {{}, {<<u1, "password">>, <<u2, "key">>}, {<<u1, "key">>}}
MCSymmetry == Permutations(Messages) \cup Permutations(Objects)
=============================================================================
