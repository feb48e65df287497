--------------------------- MODULE MCControlPlane ---------------------------
(***************************************************************************)
(* A small instance of ControlPlane: the chain of providers, one operation *)
(* of each kind, keys of each kind, and requests and names of keys that    *)
(* may be exchanged.                                                       *)
(***************************************************************************)
EXTENDS ControlPlane, TLC

MCModes == <<"oidc", "apikey", "basic">>

MCOps == {"createServer", "createFleet", "patchServer", "patchFleet", "deleteServer",
          "sftp", "listServers", "listKeys", "execute", "createKey", "deleteKey"}

\* The operations left out differ from one of these in their path or in the
\* kind of what they read; that the first matching rule is the right one is
\* evaluated for all of them.
ASSUME EveryRouteGuarded ==
    \A op \in DOMAIN Endpoints, role \in {"viewer", "operator", "admin"} :
        RouteGuard(User(role, {}), Endpoints[op]) <=> OpenTo(op, role)

\* " alpha", which matches nothing before it is trimmed, and " ".
MCPadded == ListEntry({}, {{Tenant}}, FALSE)
MCBlank == ListEntry({}, {}, FALSE)

\* A tenant's key with the caller's role, a key with a blank list that is as
\* good as the caller's, and a viewer's without a list that expires.
MCKeyWishes == {<<"", <<MCPadded>>, 0>>, <<"", <<MCBlank>>, 0>>, <<"viewer", <<>>, 1>>}

MCSymmetry == Permutations(Requests) \cup Permutations(KeyNames)
=============================================================================
