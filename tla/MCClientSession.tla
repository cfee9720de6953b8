-------------------------- MODULE MCClientSession ---------------------------
(* One session that connects twice, used in one of the three ways, or two   *)
(* that connect once and verify at the same time; a host whose key may      *)
(* change.                                                                  *)
EXTENDS ClientSession
CONSTANTS s1, s2, s3
MCUses ==
  {[s \in Sessions |-> IF s = s3 THEN {u} ELSE {}] : u \in {"configure", "verify", "auth"}}
  \cup {[s \in Sessions |-> IF s = s3 THEN {} ELSE {"verify"}]}
MCMaxConnects == [s \in Sessions |-> IF s = s3 THEN 2 ELSE 1]
MCHostKeys == {<<"rsa", 1>>, <<"rsa", 2>>}
MCPins == {<<"rsa", 2>>}
MCWanted == {{}, {"publicKey", "interactive"}}
MCChains == {<<"publicKey">>, InteractiveDefault}
=============================================================================
