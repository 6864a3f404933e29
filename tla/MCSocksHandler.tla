--------------------------- MODULE MCSocksHandler ---------------------------
EXTENDS SocksHandler

\* A name with an address of each family, a name without any, an IPv4 address.
MCLookup == [d \in {"dual", "gone", "ip"} |->
               CASE d = "dual" -> <<"a4", "a6">> [] d = "gone" -> << >> [] d = "ip" -> <<"b4">>]
MCInet6 == {"a6"}
MCGroupsOf == [u \in {"ann", "bob"} |-> IF u = "ann" THEN {"dev"} ELSE {}]
\* ann may do anything through her group, anybody may connect without a name.
MCAllowed == {<<"ann", {"dev"}, p>> : p \in {"tcp", "udp"}} \union {<<"anon", {}, "tcp">>, <<"bob", {}, "udp">>}
=============================================================================
