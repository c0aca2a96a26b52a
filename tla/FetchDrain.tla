------------------------------- MODULE FetchDrain -------------------------------
(***************************************************************************)
(* The fetch half of the recovery policy, FetchDrainModel of               *)
(* sim/recovery/model.py: one fetch at a time, an offered request that may *)
(* not be withdrawn once made, and a redirect that waits until the old     *)
(* request has drained.  Addresses are instruction indices modulo          *)
(* AddressCount (pc + 4 is the next one).                                  *)
(***************************************************************************)
EXTENDS Integers, PythonNone

CONSTANTS
  AddressCount,  \* bound: instruction addresses, as 0..AddressCount-1
  ResetPc

ASSUME FetchAssumption ==
  /\ AddressCount \in Nat \ {0}
  /\ ResetPc \in 0..AddressCount-1
  /\ None \notin 0..AddressCount-1

Pc == 0..AddressCount-1

VARIABLES
  pc,        \* the address the next offer will take
  offered,   \* the request promised to memory and not yet accepted, or None
  pending,   \* the request memory is working on, or None
  target,    \* a redirect that waits for the old request to drain, or None
  wanted     \* the address the instruction stream must deliver next
             \* (not in the code: it is what the redirects asked for)

fetchVars == <<pc, offered, pending, target, wanted>>

FetchInit ==
  /\ pc = ResetPc
  /\ offered = None
  /\ pending = None
  /\ target = None
  /\ wanted = ResetPc

(* offer: what step puts on the request wires, and keeps there. *)
Offer ==
  IF pending # None THEN None
  ELSE IF offered = None /\ target = None THEN pc
  ELSE offered

\* Faulty variant: the first redirect to wait keeps its place.
GoalFirst(redirect) == IF target # None THEN target ELSE redirect

(* The newest redirect replaces the one that waits. *)
Goal(redirect) == IF redirect # None THEN redirect ELSE target

(* step.  response says whether memory answers; the packet it would carry is
   the address of the pending request. *)
FetchStep(requestReady, response, packetReady, redirect) ==
  LET request   == Offer
      goal      == Goal(redirect)
      accepted  == request # None /\ requestReady
      consumed  == /\ pending # None
                   /\ response
                   /\ goal # None \/ packetReady
      delivered == consumed /\ goal = None
      \* pending and offered after the request and the response
      pending2  == CASE consumed -> None
                     [] accepted -> request
                     [] OTHER    -> pending
      offered2  == CASE accepted -> None
                     [] pending # None -> offered
                     [] OTHER -> request
      drained   == pending2 = None /\ offered2 = None /\ goal # None
  IN /\ pending' = pending2
     /\ offered' = offered2
     /\ pc' = CASE drained   -> goal
                [] delivered -> (pending + 1) % AddressCount
                [] OTHER     -> pc
     /\ target' = IF drained THEN None ELSE goal
     /\ wanted' = CASE redirect # None -> redirect
                    [] delivered       -> (wanted + 1) % AddressCount
                    [] OTHER           -> wanted

(* reset: the environment cancels the response it owes. *)
FetchReset ==
  /\ pc' = ResetPc /\ wanted' = ResetPc
  /\ offered' = None /\ pending' = None /\ target' = None

FetchNext ==
  \/ \E requestReady, response, packetReady \in BOOLEAN, redirect \in Pc \cup {None} :
       FetchStep(requestReady, response, packetReady, redirect)
  \/ FetchReset

FetchSpec == FetchInit /\ [][FetchNext]_fetchVars

-----------------------------------------------------------------------------
FetchTypeOK ==
  /\ pc \in Pc /\ wanted \in Pc
  /\ offered \in Pc \cup {None}
  /\ pending \in Pc \cup {None}
  /\ target \in Pc \cup {None}

(* A request once offered stays offered, unchanged, until memory accepts it,
   through any number of redirects; only a reset withdraws it. *)
OfferKept ==
  [][offered # None => \/ offered' = offered
                       \/ offered' = None /\ pending' = offered
                       \/ FetchReset]_fetchVars

(* The instruction delivered next is always the one the latest redirect, or
   the instruction before it, asked for: with no redirect waiting, the
   request in flight is the wanted one, and a waiting redirect is the wanted
   one however many replaced it while the old request drained. *)
StreamIsWanted ==
  /\ target # None => target = wanted
  /\ target = None => /\ pending # None => pending = wanted
                      /\ pending = None /\ offered # None => offered = wanted
                      /\ pending = None /\ offered = None => pc = wanted

(* A redirect waits only while there is something to drain. *)
RedirectWaits == target # None => pending # None \/ offered # None

=============================================================================
