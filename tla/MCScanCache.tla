----------------------------- MODULE MCScanCache -----------------------------
(***************************************************************************)
(* Three devices for two slots; reports with the name behind a malformed   *)
(* field, which hides it, and with one that is too long, has a comma and   *)
(* stands behind another field.  The devices are of one type, so that they *)
(* can be exchanged for each other.                                        *)
(***************************************************************************)
EXTENDS ScanCache, TLC

CONSTANTS d1, d2, d3

MCAddrs  == {d1, d2, d3}
MCTypeOf == [a \in MCAddrs |-> "PUBLIC_ID"]

Devices == Permutations(MCAddrs)

Field(type, text) == [type |-> type, text |-> text]

MCAdverts ==
    { <<Field("malformed", <<>>), Field("name", <<"a">>)>>,
      <<Field("flags", <<>>), Field("name", <<"a", ",", "b">>), Field("name", <<"b">>)>> }

MCPrefixes == {<<>>, <<"a">>}

=============================================================================
