------------------------------ MODULE SocksAuth ------------------------------
(***************************************************************************)
(* What the handshake computes, without state: the authentication methods  *)
(* of auth/mod.rs, the replies of protocol/parser.rs, the order of         *)
(* server/resolver.rs and the protection levels of auth/gssapi.rs.         *)
(***************************************************************************)
EXTENDS Sequences

CONSTANTS
  Lookup,   \* destination -> the addresses tokio::net::lookup_host finds for it
  Inet6     \* the addresses that are IPv6

\* AuthBackend, built by build_backend from client_method and socks_method.
ClientBackends == {"none", "pam.address"}
SocksBackends  == {"none", "userpass", "pam.address", "pam.username", "gssapi"}

\* AuthMethod: a method byte the server does not know becomes NoAcceptable.
AuthMethods == {"NoAuth", "Gssapi", "UserPass", "NoAcceptable"}

Commands == {"connect", "bind", "udp"}

get_method(backend) ==
  CASE backend \in {"none", "pam.address"} -> "NoAuth"
    [] backend \in {"userpass", "pam.username"} -> "UserPass"
    [] backend = "gssapi" -> "Gssapi"

supports(backend, method) ==
  \/ get_method(backend) = method
  \/ method = "NoAuth" /\ backend \in {"none", "pam.address"}

\* The methods handle_socks5 may answer a greeting with.
SelectMethod(backend, offered) ==
  IF get_method(backend) \in offered THEN get_method(backend)
  ELSE IF "NoAuth" \in offered /\ supports(backend, "NoAuth") THEN "NoAuth"
  ELSE "NoAcceptable"

\* negotiate_protection_level: anything but two wishes for confidentiality.
ProtectionLevels == {"integrity", "confidentiality", "selective"}
ProtectionLevel(client, server) ==
  IF client = "confidentiality" /\ server = "confidentiality" THEN "confidentiality" ELSE "integrity"

\* resolve_address: a stable sort that puts the IPv6 addresses first.
resolve_address(dest) ==
  LET v6(a) == a \in Inet6
      v4(a) == a \notin Inet6
  IN SelectSeq(Lookup[dest], v6) \o SelectSeq(Lookup[dest], v4)

\* handle_connect keeps the IPv4 addresses for a SOCKS4 client.
Candidates(version, dest) ==
  LET v4(a) == a \notin Inet6
  IN IF version = "V4" THEN SelectSeq(resolve_address(dest), v4) ELSE resolve_address(dest)

\* send_socks_response: a SOCKS4 client is only told granted or rejected.
ReplyFor(version, code) ==
  IF version = "V5" THEN code ELSE IF code = "Succeeded" THEN "Granted" ELSE "Rejected"

IsSuccess(reply) == reply \in {"Succeeded", "Granted"}

\* parse_udp_packet: too short, an address type it does not know, a truncated
\* address or port, or a fragment.
ParsesAsUdp(packet) == packet.form = "whole" /\ packet.frag = 0
=============================================================================
