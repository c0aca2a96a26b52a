------------------------------ MODULE Arbiter -------------------------------
(***************************************************************************)
(* The router from the instruction and data channels of the core to the    *)
(* one scalar 60x adapter (rtl/ppc_bus60x_arbiter.sv).  A request is the   *)
(* tag of its client's access; the adapter answers with the tag it was     *)
(* given and an error flag.                                                *)
(***************************************************************************)
EXTENDS Naturals

CONSTANTS
  RETURN_IFETCH_ERROR,  \* an instruction error is answered, not fatal
  Tags                  \* accesses of a client

ASSUME ArbiterAssumption == RETURN_IFETCH_ERROR \in BOOLEAN /\ Tags # {}

Sides == {"instruction", "data"}
Nothing == [side |-> "none", tag |-> 0]

VARIABLES
  state, owner, last_grant, request, ifetch_error,
  offers,    \* side -> the tags its client offers: one, or none
  waits,    \* side -> the tags it waits for an answer to: one, or none
  adapter,  \* the request the adapter works on
  given     \* what this edge gave to a client: [side, tag, error, of]

arbVars == <<state, owner, last_grant, request, ifetch_error, offers, waits, adapter, given>>

-----------------------------------------------------------------------------
Other(side) == CHOOSE s \in Sides : s # side

\* Faulty variant: data always goes first.
choose_DataFirst(side) ==
  /\ state = "IDLE" /\ ~ifetch_error /\ offers[side] # {}
  /\ offers[Other(side)] = {} \/ side = "data"

choose(side) ==
  /\ state = "IDLE" /\ ~ifetch_error /\ offers[side] # {}
  /\ offers[Other(side)] = {} \/ last_grant = Other(side)

ArbInit ==
  /\ state = "IDLE" /\ owner = "data" /\ last_grant = "data"
  /\ request = Nothing /\ ifetch_error = FALSE
  /\ offers = [s \in Sides |-> {}] /\ waits = [s \in Sides |-> {}]
  /\ adapter = Nothing /\ given = {}

\* A client offers an access; it has one outstanding, and does not withdraw it.
Offer(side, tag) ==
  /\ offers[side] = {} /\ waits[side] = {}
  /\ offers' = [offers EXCEPT ![side] = {tag}]
  /\ given' = {}
  /\ UNCHANGED <<state, owner, last_grant, request, ifetch_error, waits, adapter>>

Grant(side) ==
  /\ choose(side)
  /\ owner' = side /\ last_grant' = side
  /\ request' = [side |-> side, tag |-> CHOOSE t \in offers[side] : TRUE]
  /\ state' = "OFFER"
  /\ waits' = [waits EXCEPT ![side] = offers[side]]
  /\ offers' = [offers EXCEPT ![side] = {}]
  /\ given' = {}
  /\ UNCHANGED <<ifetch_error, adapter>>

AdapterAccepts ==
  /\ state = "OFFER" /\ adapter = Nothing
  /\ adapter' = request /\ state' = "RESPONSE" /\ given' = {}
  /\ UNCHANGED <<owner, last_grant, request, ifetch_error, offers, waits>>

\* Faulty variant: the response goes to whoever asks.
Respond_Asker(error) ==
  /\ state = "RESPONSE" /\ adapter # Nothing
  /\ ~(owner = "instruction" /\ error /\ ~RETURN_IFETCH_ERROR)
  /\ \E side \in Sides :
       /\ offers[side] # {} \/ side = owner
       /\ given' = {[side |-> side, tag |-> adapter.tag, error |-> error, of |-> adapter.side]}
       /\ waits' = [waits EXCEPT ![side] = {}]
  /\ adapter' = Nothing /\ state' = "IDLE"
  /\ UNCHANGED <<owner, last_grant, request, ifetch_error, offers>>

\* The response goes to the owner, who takes it; the error flag of a fetch is
\* passed on only if errors are returned.
Respond(error) ==
  /\ state = "RESPONSE" /\ adapter # Nothing
  /\ ~(owner = "instruction" /\ error /\ ~RETURN_IFETCH_ERROR)
  /\ given' = {[side |-> owner, tag |-> adapter.tag, error |-> error, of |-> adapter.side]}
  /\ waits' = [waits EXCEPT ![owner] = {}]
  /\ adapter' = Nothing /\ state' = "IDLE"
  /\ UNCHANGED <<owner, last_grant, request, ifetch_error, offers>>

\* Faulty variant: the error is consumed and the router goes on.
Fatal_GoesOn ==
  /\ state = "RESPONSE" /\ adapter # Nothing
  /\ owner = "instruction" /\ ~RETURN_IFETCH_ERROR
  /\ adapter' = Nothing /\ state' = "IDLE" /\ given' = {}
  /\ UNCHANGED <<owner, last_grant, request, ifetch_error, offers, waits>>

\* An instruction error stops the router until reset.
Fatal ==
  /\ state = "RESPONSE" /\ adapter # Nothing
  /\ owner = "instruction" /\ ~RETURN_IFETCH_ERROR
  /\ adapter' = Nothing /\ ifetch_error' = TRUE /\ state' = "FATAL" /\ given' = {}
  /\ UNCHANGED <<owner, last_grant, request, offers, waits>>
=============================================================================
