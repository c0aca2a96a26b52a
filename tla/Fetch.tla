------------------------------- MODULE Fetch --------------------------------
(***************************************************************************)
(* The fetch unit (rtl/ppc_fetch.sv) between the instruction memory and    *)
(* the instruction queue: one untagged request outstanding, an offer that  *)
(* cannot be withdrawn, a one-packet buffer for words the queue refuses,   *)
(* faults that are fetched again, and redirects, which drain the old       *)
(* request or, when announced a cycle ahead, start the new one at once.    *)
(*                                                                         *)
(* Addresses count words modulo WORDS, so pc[2] is the parity of pc.  The  *)
(* word at an address is the address: a packet is right if its word is     *)
(* that of its pc.  pc_plus8 is always pc_plus4 + 4 (every assignment of   *)
(* one goes with the other's) and is left out.                             *)
(***************************************************************************)
EXTENDS Integers, Sequences

CONSTANTS
  FETCH_WIDTH,  \* words of a response: 1 or 2
  WORDS,        \* words of the address space
  Targets,      \* redirect targets
  QUEUE         \* words the queue holds

ASSUME FetchAssumption == /\ FETCH_WIDTH \in {1, 2}
                          /\ WORDS \in Nat /\ WORDS % 2 = 0 /\ WORDS > 2
                          /\ Targets \subseteq 0 .. WORDS - 1 /\ Targets # {}
                          /\ QUEUE \in Nat /\ QUEUE >= 2

VARIABLES
  pending, request_held, redirect_pending,
  pc, pc_plus4, redirect_target,
  buf_valid, buf_pc, buf_insn, buf_pair, buf_insn1,
  stop_skipped,   \* a word was dropped under stop
  mem,            \* address of the request the memory has accepted, or None
  count,          \* words in the queue
  next_pc,        \* the word the program needs next
  last            \* what this edge did: request, words pushed, inputs that stall

fetchVars == <<pending, request_held, redirect_pending, pc, pc_plus4, redirect_target,
               buf_valid, buf_pc, buf_insn, buf_pair, buf_insn1,
               stop_skipped, mem, count, next_pc, last>>

Addresses == 0 .. WORDS - 1
None == WORDS

Plus(a, k) == (a + k) % WORDS

-----------------------------------------------------------------------------
(* Signals.  in is the record of this edge's inputs:                       *)
(*   stop, redirect, target, early, early_ok, early_target,                *)
(*   req_ready, rsp_valid, fault, pair, ready, room2.                      *)

packet_ready2(in) == in.room2 /\ in.ready

consume(in) == in.rsp_valid /\ pending

live(in) == consume(in) /\ ~in.stop /\ ~redirect_pending

to_buf(in) == live(in) /\ ~in.redirect /\ ~in.ready /\ ~in.fault

replay(in) == live(in) /\ ~in.redirect /\ ~in.ready /\ in.fault

\* Faulty variant: a new request although the queue refuses the word.
offer_IgnoresReady(in) ==
  /\ ~in.stop /\ ~buf_valid
  /\ ~pending \/ (consume(in) /\ ~redirect_pending)

\* Faulty variant: a request only follows a response.
offer_OnlyChained(in) ==
  /\ ~in.stop /\ in.ready /\ ~buf_valid
  /\ consume(in) /\ ~redirect_pending

offer(in) ==
  /\ ~in.stop /\ in.ready /\ ~buf_valid
  /\ ~pending \/ (consume(in) /\ ~redirect_pending)

\* Faulty variant: an announced target replaces a held offer.
early_sel_Held(in) == in.early

early_sel(in) == in.early /\ ~request_held

fast(in) ==
  /\ early_sel(in) /\ in.early_ok /\ in.redirect /\ ~in.stop
  /\ ~pending \/ consume(in)

req_valid(in) == request_held \/ (offer(in) /\ ~in.early) \/ fast(in)

pair(in) ==
  /\ FETCH_WIDTH = 2 /\ live(in) /\ ~in.redirect /\ packet_ready2(in)
  /\ in.pair /\ ~in.fault /\ pc % 2 = 0

pair_next(in) ==
  /\ FETCH_WIDTH = 2 /\ consume(in) /\ ~in.stop /\ ~redirect_pending
  /\ in.room2 /\ in.pair /\ ~in.fault /\ pc % 2 = 0

next_addr(in) == IF pair_next(in) THEN Plus(pc_plus4, 1) ELSE pc_plus4

req_addr(in) == IF early_sel(in) THEN in.early_target
                ELSE IF pending THEN next_addr(in) ELSE pc

accept(in) == req_valid(in) /\ in.req_ready

packet_valid(in) == buf_valid \/ live(in)

\* The packet, as the one or two words [pc, insn] it brings.
packet(in) ==
  IF buf_valid
    THEN <<[pc |-> buf_pc, insn |-> buf_insn]>>
           \o (IF buf_pair /\ packet_ready2(in)
                 THEN <<[pc |-> Plus(buf_pc, 1), insn |-> buf_insn1]>> ELSE <<>>)
    ELSE <<[pc |-> pc, insn |-> mem]>>
           \o (IF pair(in) THEN <<[pc |-> Plus(pc, 1), insn |-> Plus(mem, 1)]>> ELSE <<>>)

Pushed(in) == IF packet_valid(in) /\ in.ready THEN packet(in) ELSE <<>>

-----------------------------------------------------------------------------
(* The registers.                                                          *)

FetchInit ==
  /\ pending = FALSE /\ request_held = FALSE /\ redirect_pending = FALSE
  /\ pc = 0 /\ pc_plus4 = 1 /\ redirect_target = 0
  /\ buf_valid = FALSE /\ buf_pc = 0 /\ buf_insn = 0 /\ buf_pair = FALSE /\ buf_insn1 = 0
  /\ stop_skipped = FALSE
  /\ mem = None /\ count = 0 /\ next_pc = 0
  /\ last = [req_valid |-> FALSE, req_ready |-> FALSE, addr |-> 0, pushed |-> <<>>,
             stalled |-> FALSE]

FastRedirect(in) ==
  /\ fast(in)
  /\ request_held' = ~in.req_ready /\ pending' = in.req_ready
  /\ redirect_pending' = FALSE
  /\ pc' = in.early_target

\* An old request that is held, offered now or pending cannot be withdrawn:
\* its response is drained first.
SlowRedirect(in) ==
  /\ in.redirect /\ ~fast(in)
  /\ IF req_valid(in)
       THEN /\ request_held' = ~in.req_ready /\ pending' = in.req_ready
            /\ redirect_pending' = TRUE
            /\ pc' = IF pending THEN pc_plus4 ELSE pc
     ELSE IF pending /\ ~consume(in)
       THEN redirect_pending' = TRUE /\ UNCHANGED <<request_held, pending, pc>>
     ELSE /\ pending' = FALSE /\ request_held' = FALSE /\ redirect_pending' = FALSE
          /\ pc' = in.target

Stream(in) ==
  /\ ~in.redirect
  /\ redirect_pending' = (redirect_pending /\ ~consume(in))
  /\ pc' = IF ~consume(in) THEN pc
           ELSE IF redirect_pending THEN redirect_target
           ELSE IF replay(in) THEN pc ELSE next_addr(in)
  /\ request_held' = IF req_valid(in) THEN ~in.req_ready ELSE request_held
  /\ pending' = (accept(in) \/ (pending /\ ~consume(in)))

\* Only a pending request uses pc_plus4, so it may trail a redirect.
PcPlus4(in) ==
  pc_plus4' = IF fast(in) THEN Plus(in.early_target, 1)
              ELSE IF ~pending THEN Plus(pc, 1)
              ELSE IF consume(in) /\ ~replay(in) THEN Plus(next_addr(in), 1)
              ELSE pc_plus4

Buffer(in) ==
  LET taken == buf_valid /\ in.ready
  IN  /\ buf_valid' = (to_buf(in) \/
           (buf_valid /\ ~in.redirect /\ ~(taken /\ ~(buf_pair /\ ~packet_ready2(in)))))
      /\ IF to_buf(in)
           THEN /\ buf_pc' = pc /\ buf_insn' = mem
                /\ buf_pair' = pair_next(in) /\ buf_insn1' = Plus(mem, 1)
         ELSE IF taken
           THEN /\ buf_pc' = Plus(buf_pc, 1) /\ buf_insn' = buf_insn1
                /\ buf_pair' = FALSE /\ UNCHANGED buf_insn1
         ELSE UNCHANGED <<buf_pc, buf_insn, buf_pair, buf_insn1>>

\* The memory: it accepts one request at a time and answers it once.
Memory(in) ==
  mem' = IF accept(in) THEN req_addr(in) ELSE IF consume(in) THEN None ELSE mem

Bookkeeping(in, pops) ==
  /\ redirect_target' = IF in.redirect THEN in.target ELSE redirect_target
  /\ stop_skipped' = (~in.redirect /\
       (stop_skipped \/ (consume(in) /\ ~redirect_pending /\ in.stop)))
  /\ count' = IF in.redirect THEN 0 ELSE count - pops + Len(Pushed(in))
  /\ next_pc' = IF in.redirect THEN in.target
                ELSE IF Pushed(in) = <<>> THEN next_pc
                ELSE Plus(next_pc, Len(Pushed(in)))
  /\ last' = [req_valid |-> req_valid(in), req_ready |-> in.req_ready, addr |-> req_addr(in),
              pushed |-> Pushed(in),
              stalled |-> in.stop \/ in.redirect \/ in.early \/ (~in.ready /\ count < QUEUE)]

Edge(in, pops) ==
  /\ FastRedirect(in) \/ SlowRedirect(in) \/ Stream(in)
  /\ PcPlus4(in)
  /\ Buffer(in)
  /\ Memory(in)
  /\ Bookkeeping(in, pops)

-----------------------------------------------------------------------------
(* The inputs.  Decode may refuse a word although the queue has room.  On  *)
(* a redirect edge the queue refuses; a word dropped under                 *)
(* stop is followed by a redirect before fetch resumes; an announced       *)
(* redirect that arrives goes to the announced target (the assertions of   *)
(* the source on its inputs).  A pair is returned for an even address.     *)

Responses ==
  {r \in [rsp_valid : BOOLEAN, fault : BOOLEAN, pair : BOOLEAN] :
     /\ r.rsp_valid => mem # None
     /\ ~r.rsp_valid => ~r.fault /\ ~r.pair
     /\ r.pair => FETCH_WIDTH = 2 /\ ~r.fault /\ mem % 2 = 0}

Rooms ==
  {q \in [ready : BOOLEAN, room2 : BOOLEAN] :
     /\ q.ready => count < QUEUE
     /\ q.room2 <=> count < QUEUE - 1}

NoSteer == [redirect |-> FALSE, target |-> 0, early |-> FALSE, early_ok |-> FALSE,
            early_target |-> 0]

Steers ==
  {NoSteer}
    \cup {[NoSteer EXCEPT !.redirect = TRUE, !.target = t] : t \in Targets}
    \cup {[NoSteer EXCEPT !.early = TRUE, !.early_target = t] : t \in Targets}
    \cup {[redirect |-> TRUE, target |-> t, early |-> TRUE, early_ok |-> TRUE,
           early_target |-> t] : t \in Targets}
    \cup {s \in [redirect : {TRUE}, target : Targets, early : {TRUE}, early_ok : {FALSE},
                 early_target : Targets] : s.target # s.early_target}

Inputs(r, q, s, stop, req_ready) ==
  [rsp_valid |-> r.rsp_valid, fault |-> r.fault, pair |-> r.pair,
   ready |-> q.ready /\ ~s.redirect, room2 |-> q.room2,
   redirect |-> s.redirect, target |-> s.target,
   early |-> s.early, early_ok |-> s.early_ok, early_target |-> s.early_target,
   stop |-> stop, req_ready |-> req_ready]

Pops == {p \in 0 .. 2 : p <= count}

FetchNext ==
  \E r \in Responses, q \in Rooms, s \in Steers, stop \in BOOLEAN, req_ready \in BOOLEAN,
     pops \in Pops :
    /\ stop_skipped => stop \/ s.redirect
    /\ Edge(Inputs(r, q, s, stop, req_ready), pops)

FetchSpec == FetchInit /\ [][FetchNext]_fetchVars

(* Fairness: the memory accepts an offer that stays and answers a request  *)
(* it has accepted, and dispatch empties the queue.                        *)
Undisturbed(r, req_ready, pops) ==
  \E q \in {x \in Rooms : x.ready <=> count < QUEUE} :
    Edge(Inputs(r, q, NoSteer, FALSE, req_ready), pops)

Accepts ==
  /\ mem = None /\ ~stop_skipped
  /\ \E r \in Responses, pops \in Pops : Undisturbed(r, TRUE, pops)
Answers ==
  /\ mem # None /\ ~stop_skipped
  /\ \E r \in {x \in Responses : x.rsp_valid}, req_ready \in BOOLEAN, pops \in Pops :
       Undisturbed(r, req_ready, pops)
Drains ==
  /\ count > 0 /\ ~stop_skipped
  /\ \E r \in Responses, req_ready \in BOOLEAN, pops \in Pops \ {0} :
       Undisturbed(r, req_ready, pops)

FetchFairSpec ==
  FetchSpec /\ WF_fetchVars(Accepts) /\ WF_fetchVars(Answers) /\ WF_fetchVars(Drains)

-----------------------------------------------------------------------------
\* Fetch and memory agree on what is outstanding: the memory never holds a
\* response nobody waits for (it could block the shared translation router),
\* and the buffer never competes with a request (ppc_fetch.sv asserts the
\* last two).
ObligationExact ==
  /\ pending <=> mem # None
  /\ pending /\ ~redirect_pending => mem = pc /\ pc_plus4 = Plus(pc, 1)
  /\ ~(request_held /\ pending)
  /\ ~(buf_valid /\ (pending \/ request_held))

\* The words that enter the queue are the program's: each is the next word,
\* nothing of the old path passes a redirect, and no word is skipped, repeated
\* or paired with the wrong neighbour, whatever the queue, the memory and the
\* redirects do in between.
StreamInOrder ==
  \A k \in DOMAIN last'.pushed :
    last'.pushed[k] = [pc |-> Plus(next_pc, k - 1), insn |-> Plus(next_pc, k - 1)]

\* An offer that has not been accepted is repeated unchanged, through stops,
\* announcements and redirects.
OfferStable ==
  last.req_valid /\ ~last.req_ready => last'.req_valid /\ last'.addr = last.addr

\* Every edge of fetch keeps the instruction stream and its promise to memory.
StreamExact == [][StreamInOrder /\ OfferStable]_fetchVars

\* Once stops, redirects, announcements and refusals cease, words keep arriving: a fault
\* that is fetched again, a buffered pair and a full queue end in progress.
FetchProgress == <>[](~last.stalled) => []<>(last.pushed # <<>>)

=============================================================================
