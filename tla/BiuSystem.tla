----------------------------- MODULE BiuSystem ------------------------------
(***************************************************************************)
(* The bus interface unit with the router in front of its scalar master:   *)
(* an instruction and a data client share the router, the instruction      *)
(* cache has the line master, the data cache its master and the push       *)
(* engine.  The router moves at the processor's clock, between SYSCLK      *)
(* edges; its handshakes with the scalar master happen at an edge.         *)
(***************************************************************************)
EXTENDS Biu, Arbiter

VARIABLE sysclk  \* alternates with SYSCLK: an edge is a step even if nothing else moves

sysVars == <<biuVars, arbVars, sysclk>>

SysInit == BiuInit /\ ArbInit /\ sysclk = 0

\* A client of the router asks, or the router offers a request to the master.
RouterOffer ==
  UNCHANGED <<biuVars, sysclk>> /\ \E side \in Sides, tag \in Tags : Offer(side, tag)
RouterGrant ==
  /\ \E side \in Sides : Grant(side)
  /\ \E ask \in Asks["scalar"] : Ask("scalar", ask)
  /\ UNCHANGED sysclk

CacheAsk ==
  UNCHANGED <<arbVars, sysclk>> /\ \E m \in Masters \ {"scalar"} : \E ask \in Asks[m] : Ask(m, ask)

\* The router at a SYSCLK edge: the master takes its request, or it takes the
\* master's response.
Router(rsp_ready) ==
  IF Takes("scalar") THEN AdapterAccepts
  ELSE IF M["scalar"].rsp # None /\ rsp_ready
    THEN LET error == M["scalar"].rsp = "error"
         IN  Respond(error) \/ (error /\ Fatal)
  ELSE UNCHANGED arbVars

SysEdge(a, d, rsp_ready) ==
  Edge(Pins(a, d), rsp_ready) /\ Router(rsp_ready) /\ sysclk' = 1 - sysclk

SysClock ==
  \E a \in AddressPins, d \in DataPins, rsp_ready \in IF Answering THEN BOOLEAN ELSE {TRUE} :
    SysEdge(a, d, rsp_ready)

SysNext == RouterOffer \/ RouterGrant \/ CacheAsk \/ SysClock

SysSpec == SysInit /\ [][SysNext]_sysVars

\* The clock does not stop, and infinitely many of its edges are helpful.
Helpful == SysEdge(HelpfulAddress, HelpfulData, TRUE)

SysFairSpec == SysSpec /\ WF_sysVars(RouterGrant) /\ []<><<Helpful>>_sysVars

-----------------------------------------------------------------------------
\* The router gives an answer to the client that waits for it, with the tag of
\* that client's access, and once: owner_q and the adapter's request stay
\* together over the whole tenure of the scalar master.
AnswersOwner ==
  given' # given =>
    \A g \in given' : g.side = g.of /\ waits[g.side] = {g.tag} /\ waits'[g.side] = {}

\* The end of a scalar access answers the client that waits for it, or it was
\* a failed instruction fetch and stops the router: no client waits on a router
\* that has moved on, and after the stop nothing is answered and nothing more
\* goes to the adapter.
FatalStops ==
  /\ state = "RESPONSE" /\ state' # "RESPONSE" => (waits'[owner] = {} <=> ~ifetch_error')
  /\ ifetch_error => given' \subseteq given /\ request' = request /\ ifetch_error'

\* Every step of the router answers the right client or stops for good, and
\* what the masters answer it with is the data of the access.
RouterExact == [][ResponseExact' /\ AnswersOwner /\ FatalStops]_sysVars

\* Whatever the others keep asking, an access offered to the router, and one
\* asked of the line or the cache master, is answered: last_grant, the two
\* last_completed bits and grp_yield (the group takes nothing new while the
\* cache's master requests) share the bus.  Only an instruction error or a
\* broken rule excuses.
AccessServed ==
  /\ \A s \in Sides : offers[s] # {} ~> (offers[s] = {} /\ waits[s] = {}) \/ ifetch_error \/ protocol_error
  /\ \A m \in {"line", "cache"} : wants[m] # None ~> M[m].rsp # None \/ protocol_error
=============================================================================
