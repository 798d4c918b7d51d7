---------------------------- MODULE MCConnections -----------------------------
(***************************************************************************)
(* Connections for TLC: pools of one connection, where any request that    *)
(* holds one and waits for another would wait for itself.  Of the process  *)
(* they are part of, the start-up and the client's address are checked     *)
(* here over small environments and chains of proxies.                     *)
(***************************************************************************)
EXTENDS Connections, Deployment

\* A production process that starts is live: see Deployment.
ASSUME \A env \in Environments({Unset, -1, 0, 2}) : ProductionIsLive(env)

\* Some production process does start.
ASSUME \E env \in Environments({1}) : env.production /\ Starts(env)

Chains(n) == UNION {[1 .. k -> {"a", "b"}] : k \in 0 .. n}

\* A forged entry in front of the chain changes nothing: see Deployment.
ASSUME \A forged, appended \in Chains(3), hops \in -1 .. 3 :
         ForgeryIsIgnored(forged, appended, "d", hops)
=============================================================================
