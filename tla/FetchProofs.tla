----------------------------- MODULE FetchProofs ------------------------------
(***************************************************************************)
(* Proofs about the fetch unit (module Fetch), for every response width,   *)
(* size of the address space, queue and set of redirect targets.           *)
(***************************************************************************)
EXTENDS Fetch, SequenceTheorems, TLAPS

USE FetchAssumption

-----------------------------------------------------------------------------
(* Addresses.                                                              *)

\* Addition wraps, so the sum of an address and a step is an address.
LEMMA PlusAddress ==
  ASSUME NEW a \in Addresses, NEW k \in {1, 2}
  PROVE  Plus(a, k) \in Addresses
BY DEF Plus, Addresses

\* Two steps of one word are a step of two, also across the end of the space.
LEMMA PlusTwice ==
  ASSUME NEW a \in Addresses
  PROVE  Plus(Plus(a, 1), 1) = Plus(a, 2)
<1>1. CASE a + 2 < WORDS
  BY <1>1 DEF Plus, Addresses
<1>2. CASE a + 2 = WORDS
  BY <1>2 DEF Plus, Addresses
<1>3. CASE a + 1 = WORDS
  BY <1>3 DEF Plus, Addresses
<1>4. QED BY <1>1, <1>2, <1>3 DEF Addresses

\* A step of nothing stays.
LEMMA PlusNothing ==
  ASSUME NEW a \in Addresses
  PROVE  Plus(a, 0) = a
BY DEF Plus, Addresses

\* The memory's idle mark is no address.
LEMMA NoneIsNoAddress == None \notin Addresses
BY DEF None, Addresses

-----------------------------------------------------------------------------
(* The inductive invariant.  It adds to ObligationExact where the next     *)
(* word of the program is: at the pc, in the buffer, or behind a redirect. *)

FetchTypes ==
  /\ pending \in BOOLEAN /\ request_held \in BOOLEAN /\ redirect_pending \in BOOLEAN
  /\ buf_valid \in BOOLEAN /\ buf_pair \in BOOLEAN /\ stop_skipped \in BOOLEAN
  /\ pc \in Addresses /\ pc_plus4 \in Addresses /\ redirect_target \in Addresses
  /\ next_pc \in Addresses /\ mem \in Addresses \cup {None}

\* The next word of the program.
PathExact ==
  /\ redirect_pending => redirect_target = next_pc /\ (pending \/ request_held)
  /\ ~redirect_pending /\ ~buf_valid /\ ~stop_skipped => pc = next_pc
  /\ buf_valid => ~redirect_pending /\ ~stop_skipped

\* The buffer holds one or two words of the path, and the pc is behind them.
BufferExact ==
  buf_valid =>
    /\ buf_pc = next_pc /\ buf_insn = buf_pc
    /\ IF buf_pair THEN buf_insn1 = Plus(buf_pc, 1) /\ pc = Plus(buf_pc, 2)
                   ELSE pc = Plus(buf_pc, 1)

\* An offer that was refused is held, and the pc still shows its address.
OfferHeld == last.req_valid /\ ~last.req_ready => request_held /\ last.addr = pc

FetchInv == FetchTypes /\ ObligationExact /\ PathExact /\ BufferExact /\ OfferHeld

\* What the inputs of an edge satisfy (FetchNext and the sets it draws from).
InputOK(in) ==
  /\ in \in [rsp_valid : BOOLEAN, fault : BOOLEAN, pair : BOOLEAN, ready : BOOLEAN,
             room2 : BOOLEAN, redirect : BOOLEAN, target : Addresses, early : BOOLEAN,
             early_ok : BOOLEAN, early_target : Addresses, stop : BOOLEAN,
             req_ready : BOOLEAN]
  /\ in.redirect => ~in.ready
  /\ in.redirect /\ in.early /\ in.early_ok => in.target = in.early_target
  /\ stop_skipped => in.stop \/ in.redirect

-----------------------------------------------------------------------------
\* The inputs that FetchNext offers are well formed and keep the assertions of
\* the source on them.
LEMMA InputsOK ==
  ASSUME NEW r \in Responses, NEW q \in Rooms, NEW s \in Steers, NEW stop \in BOOLEAN,
         NEW req_ready \in BOOLEAN, stop_skipped => stop \/ s.redirect
  PROVE  InputOK(Inputs(r, q, s, stop, req_ready))
<1>1. /\ s.redirect \in BOOLEAN /\ s.early \in BOOLEAN /\ s.early_ok \in BOOLEAN
      /\ s.target \in Addresses /\ s.early_target \in Addresses
      /\ s.redirect /\ s.early /\ s.early_ok => s.target = s.early_target
  <2>1. 0 \in Addresses /\ \A t \in Targets : t \in Addresses
    BY DEF Addresses
  <2>2. CASE s = NoSteer
    BY <2>1, <2>2 DEF NoSteer
  <2>3. CASE s \in {[NoSteer EXCEPT !.redirect = TRUE, !.target = t] : t \in Targets}
    <3>1. PICK t \in Targets : s = [NoSteer EXCEPT !.redirect = TRUE, !.target = t]
      BY <2>3
    <3>2. QED BY <2>1, <3>1 DEF NoSteer
  <2>4. CASE s \in {[NoSteer EXCEPT !.early = TRUE, !.early_target = t] : t \in Targets}
    <3>1. PICK t \in Targets : s = [NoSteer EXCEPT !.early = TRUE, !.early_target = t]
      BY <2>4
    <3>2. QED BY <2>1, <3>1 DEF NoSteer
  <2>5. CASE s \in {[redirect |-> TRUE, target |-> t, early |-> TRUE, early_ok |-> TRUE,
                     early_target |-> t] : t \in Targets}
    <3>1. PICK t \in Targets : s = [redirect |-> TRUE, target |-> t, early |-> TRUE,
                                    early_ok |-> TRUE, early_target |-> t]
      BY <2>5
    <3>2. QED BY <2>1, <3>1
  <2>6. CASE s \in {x \in [redirect : {TRUE}, target : Targets, early : {TRUE},
                           early_ok : {FALSE}, early_target : Targets] :
                      x.target # x.early_target}
    BY <2>1, <2>6
  <2>7. QED BY <2>2, <2>3, <2>4, <2>5, <2>6 DEF Steers
<1>2. /\ r.rsp_valid \in BOOLEAN /\ r.fault \in BOOLEAN /\ r.pair \in BOOLEAN
  BY DEF Responses
<1>3. /\ q.ready \in BOOLEAN /\ q.room2 \in BOOLEAN
  BY DEF Rooms
<1>4. QED BY <1>1, <1>2, <1>3 DEF Inputs, InputOK

-----------------------------------------------------------------------------
(* The address of the next request.                                        *)

\* A response advances the pc by the words it brings.
LEMMA NextAddress ==
  ASSUME FetchInv, NEW in, InputOK(in), pending, ~redirect_pending
  PROVE  /\ next_addr(in) = IF pair_next(in) THEN Plus(pc, 2) ELSE Plus(pc, 1)
         /\ next_addr(in) \in Addresses
<1>1. pc \in Addresses /\ pc_plus4 = Plus(pc, 1)
  BY DEF FetchInv, FetchTypes, ObligationExact
<1>2. QED BY <1>1, PlusTwice, PlusAddress DEF next_addr

\* Whatever is outstanding, the next address is an address.
LEMMA NextInSpace ==
  ASSUME FetchInv, NEW in
  PROVE  next_addr(in) \in Addresses
BY PlusAddress DEF FetchInv, FetchTypes, next_addr

-----------------------------------------------------------------------------
(* One edge.                                                               *)

\* A redirect edge takes no word, so it offers only what is held or announced.
LEMMA RedirectOffers ==
  ASSUME FetchInv, NEW in, InputOK(in), in.redirect
  PROVE  /\ ~offer(in)
         /\ req_valid(in) /\ ~fast(in) => request_held /\ ~pending /\ ~early_sel(in)
         /\ Pushed(in) = <<>>
         /\ ~to_buf(in)
<1>1. ~in.ready
  BY DEF InputOK
<1>2. QED BY <1>1 DEF offer, req_valid, Pushed, to_buf, early_sel, FetchInv, ObligationExact

\* The address of an offer is that of the word the pc reaches with this edge.
LEMMA OfferedAddress ==
  ASSUME FetchInv, NEW in, InputOK(in), ~in.redirect, req_valid(in)
  PROVE  /\ ~early_sel(in)
         /\ ~pending => req_addr(in) = pc
         /\ pending => /\ consume(in) /\ ~redirect_pending /\ ~replay(in) /\ ~request_held
                       /\ req_addr(in) = next_addr(in)
<1>1. ~fast(in)
  BY DEF fast
<1>2. request_held \/ (offer(in) /\ ~in.early)
  BY <1>1 DEF req_valid
<1>3. ~early_sel(in)
  BY <1>2 DEF early_sel
<1>4. pending => consume(in) /\ ~redirect_pending /\ ~replay(in) /\ ~request_held
  BY <1>2 DEF offer, replay, FetchInv, ObligationExact
<1>5. QED BY <1>3, <1>4 DEF req_addr

\* The registers stay in their types.
LEMMA TypesKept ==
  ASSUME FetchInv, NEW in, InputOK(in), NEW pops, Edge(in, pops)
  PROVE  FetchTypes'
<1> USE DEF FetchInv, FetchTypes, InputOK
<1>1. next_addr(in) \in Addresses
  BY NextInSpace
<1>2. /\ pending' \in BOOLEAN /\ request_held' \in BOOLEAN /\ redirect_pending' \in BOOLEAN
      /\ pc' \in Addresses
  <2>1. CASE FastRedirect(in)
    BY <2>1 DEF FastRedirect
  <2>2. CASE SlowRedirect(in)
    BY <2>2 DEF SlowRedirect
  <2>3. CASE Stream(in)
    BY <2>3, <1>1 DEF Stream, accept
  <2>4. QED BY <2>1, <2>2, <2>3 DEF Edge
<1>3. pc_plus4' \in Addresses
  BY <1>1, PlusAddress DEF Edge, PcPlus4
<1>4. buf_valid' \in BOOLEAN /\ buf_pair' \in BOOLEAN
  BY DEF Edge, Buffer, pair_next
<1>5. mem' \in Addresses \cup {None}
  BY <1>1 DEF Edge, Memory, req_addr
<1>6. stop_skipped' \in BOOLEAN /\ redirect_target' \in Addresses
  BY DEF Edge, Bookkeeping
<1>7. Plus(next_pc, 1) \in Addresses /\ Plus(next_pc, 2) \in Addresses
  BY PlusAddress
<1>8. Len(Pushed(in)) \in 0 .. 2 /\ (Pushed(in) # <<>> => Len(Pushed(in)) \in 1 .. 2)
  BY DEF Pushed, packet
<1>9. next_pc' \in Addresses
  <2>1. CASE in.redirect \/ Pushed(in) = <<>>
    BY <2>1 DEF Edge, Bookkeeping
  <2>2. CASE ~in.redirect /\ Pushed(in) # <<>>
    <3>1. next_pc' = Plus(next_pc, Len(Pushed(in)))
      BY <2>2 DEF Edge, Bookkeeping
    <3>2. Len(Pushed(in)) = 1 \/ Len(Pushed(in)) = 2
      BY <1>8, <2>2
    <3>3. QED BY <1>7, <3>1, <3>2
  <2>3. QED BY <2>1, <2>2
<1>10. QED BY <1>2, <1>3, <1>4, <1>5, <1>6, <1>9

\* Fetch and memory go on agreeing on what is outstanding.
LEMMA ObligationKept ==
  ASSUME FetchInv, NEW in, InputOK(in), NEW pops, Edge(in, pops)
  PROVE  ObligationExact'
<1> USE DEF FetchInv, FetchTypes, InputOK, ObligationExact
<1>1. next_addr(in) \in Addresses /\ None \notin Addresses
  BY NextInSpace, NoneIsNoAddress
<1>2. CASE FastRedirect(in)
  <2>1. fast(in) /\ req_valid(in) /\ (~pending \/ consume(in)) /\ early_sel(in)
    BY <1>2 DEF FastRedirect, fast, req_valid
  <2>2. mem' = IF in.req_ready THEN in.early_target ELSE None
    BY <2>1 DEF Edge, Memory, accept, req_addr, consume
  <2>3. pc_plus4' = Plus(in.early_target, 1)
    BY <2>1 DEF Edge, PcPlus4
  <2>4. ~buf_valid'
    BY <1>2, RedirectOffers, <2>1 DEF Edge, Buffer, fast
  <2>5. QED BY <1>1, <1>2, <2>2, <2>3, <2>4 DEF FastRedirect
<1>3. CASE SlowRedirect(in)
  <2>1. ~buf_valid'
    BY <1>3, RedirectOffers DEF Edge, Buffer, SlowRedirect
  <2>2. mem' = IF accept(in) THEN pc ELSE IF consume(in) THEN None ELSE mem
    BY <1>3, RedirectOffers DEF Edge, Memory, req_addr, accept, SlowRedirect
  <2>3. QED BY <1>1, <1>3, <2>1, <2>2, RedirectOffers DEF SlowRedirect, accept, consume
<1>4. CASE Stream(in)
  <2>1. ~in.redirect /\ ~fast(in)
    BY <1>4 DEF Stream, fast
  <2>2. accept(in) => /\ pc' = req_addr(in) /\ pc_plus4' = Plus(pc', 1)
                      /\ req_addr(in) \in Addresses
    BY <1>1, <1>4, <2>1, OfferedAddress DEF Edge, Stream, PcPlus4, accept, consume
  <2>3. pending' <=> mem' # None
    BY <1>1, <1>4, <2>2 DEF Edge, Stream, Memory, consume
  <2>4. pending' /\ ~redirect_pending' => mem' = pc' /\ pc_plus4' = Plus(pc', 1)
    BY <1>1, <1>4, <2>1, <2>2 DEF Edge, Stream, Memory, PcPlus4, consume
  <2>5. ~(request_held' /\ pending')
    BY <1>4, <2>1, OfferedAddress DEF Stream, accept
  <2>6. buf_valid' => ~pending' /\ ~request_held'
    <3>1. CASE to_buf(in)
      BY <1>4, <2>1, <3>1, OfferedAddress DEF Stream, to_buf, live, consume, accept, req_valid, offer
    <3>2. CASE ~to_buf(in)
      BY <1>4, <2>1, <3>2 DEF Edge, Stream, Buffer, accept, req_valid, offer
    <3>3. QED BY <3>1, <3>2
  <2>7. QED BY <2>3, <2>4, <2>5, <2>6
<1>5. QED BY <1>2, <1>3, <1>4 DEF Edge

-----------------------------------------------------------------------------
(* The words of an edge.                                                   *)

\* The word at an address, with its address.
Word(a) == [pc |-> a, insn |-> a]

\* A packet is one word, or two when the second comes with it.
LEMMA OneOrTwo ==
  ASSUME NEW x, NEW y, NEW P \in BOOLEAN
  PROVE  <<x>> \o (IF P THEN <<y>> ELSE <<>>) = IF P THEN <<x, y>> ELSE <<x>>
<1>1. PICK S : x \in S /\ y \in S
  <2>1. x \in {x, y} /\ y \in {x, y}
    OBVIOUS
  <2>2. QED BY <2>1
<1>2. <<x>> \in Seq(S)
  BY <1>1
<1>3. <<x>> \o <<>> = <<x>>
  BY <1>2, ConcatEmptySeq
<1>4. <<x>> \o <<y>> = Append(<<x>>, y)
  BY <1>1, <1>2, AppendIsConcat
<1>5. Append(<<x>>, y) = <<x, y>>
  <2> DEFINE s == Append(<<x>>, y)
             t == <<x, y>>
  <2>1. s \in Seq(S) /\ Len(s) = 2 /\ s[1] = x /\ s[2] = y
    BY <1>1, <1>2, AppendProperties
  <2>2. t \in Seq(S) /\ Len(t) = 2 /\ t[1] = x /\ t[2] = y
    BY <1>1
  <2> HIDE DEF s, t
  <2>3. \A i \in 1 .. Len(s) : s[i] = t[i]
    BY <2>1, <2>2
  <2>4. s = t
    BY <2>1, <2>2, <2>3, SeqEqual
  <2>5. QED BY <2>4 DEF s, t
<1>6. QED BY <1>3, <1>4, <1>5

\* The word needed next moves by the words that enter the queue.
LEMMA NextMoves ==
  ASSUME NEW in, NEW pops, Bookkeeping(in, pops), ~in.redirect, NEW x, NEW y
  PROVE  /\ Pushed(in) = <<x>> => next_pc' = Plus(next_pc, 1)
         /\ Pushed(in) = <<x, y>> => next_pc' = Plus(next_pc, 2)
<1>1. <<x>> # <<>> /\ <<x, y>> # <<>> /\ Len(<<x>>) = 1 /\ Len(<<x, y>>) = 2
  OBVIOUS
<1>2. QED BY <1>1 DEF Bookkeeping

\* The buffer gives the next words of the program.
LEMMA PushedBuffered ==
  ASSUME FetchInv, NEW in, InputOK(in), buf_valid, in.ready
  PROVE  Pushed(in) = IF buf_pair /\ in.room2 THEN <<Word(next_pc), Word(Plus(next_pc, 1))>>
                                              ELSE <<Word(next_pc)>>
<1>1. /\ buf_pc = next_pc /\ buf_insn = next_pc /\ buf_pair \in BOOLEAN /\ in.room2 \in BOOLEAN
      /\ buf_pair => buf_insn1 = Plus(next_pc, 1)
  BY DEF FetchInv, FetchTypes, BufferExact, InputOK
<1>2. Pushed(in) = <<Word(next_pc)>> \o
                     (IF buf_pair /\ in.room2 THEN <<Word(Plus(next_pc, 1))>> ELSE <<>>)
  BY <1>1 DEF Pushed, packet, packet_valid, packet_ready2, Word
<1>3. QED BY <1>1, <1>2, OneOrTwo

\* A response that the queue takes is the next word, or the next two.
LEMMA PushedStreamed ==
  ASSUME FetchInv, NEW in, InputOK(in), live(in), in.ready
  PROVE  /\ ~buf_valid /\ pc = next_pc /\ (pair(in) <=> pair_next(in))
         /\ Pushed(in) = IF pair_next(in) THEN <<Word(next_pc), Word(Plus(next_pc, 1))>>
                                          ELSE <<Word(next_pc)>>
<1>1. ~in.redirect /\ ~in.stop /\ ~stop_skipped /\ consume(in) /\ ~redirect_pending
  BY DEF InputOK, live
<1>2. ~buf_valid /\ mem = pc /\ pc = next_pc
  BY <1>1 DEF FetchInv, ObligationExact, PathExact, consume
<1>3. pair(in) <=> pair_next(in)
  BY <1>1 DEF pair, pair_next, live, packet_ready2
<1>4. Pushed(in) = <<Word(next_pc)>> \o
                     (IF pair_next(in) THEN <<Word(Plus(next_pc, 1))>> ELSE <<>>)
  BY <1>2, <1>3 DEF Pushed, packet, packet_valid, Word
<1>5. pair_next(in) \in BOOLEAN
  BY DEF pair_next
<1>6. QED BY <1>2, <1>3, <1>4, <1>5, OneOrTwo

\* Nothing enters the queue that neither the buffer nor the memory brings.
LEMMA PushedNothing ==
  ASSUME NEW in, ~in.ready \/ (~buf_valid /\ ~live(in))
  PROVE  Pushed(in) = <<>>
BY DEF Pushed, packet_valid

\* The words that enter the queue are the program's next.
LEMMA DeliveredInOrder ==
  ASSUME FetchInv, NEW in, InputOK(in), NEW pops, Edge(in, pops)
  PROVE  StreamInOrder
<1>1. last'.pushed = Pushed(in)
  BY DEF Edge, Bookkeeping
<1>2. next_pc \in Addresses /\ Plus(next_pc, 0) = next_pc
  BY PlusNothing DEF FetchInv, FetchTypes
<1>3. \/ Pushed(in) = <<>>
      \/ Pushed(in) = <<Word(next_pc)>>
      \/ Pushed(in) = <<Word(next_pc), Word(Plus(next_pc, 1))>>
  BY PushedBuffered, PushedStreamed, PushedNothing
<1>4. QED BY <1>1, <1>2, <1>3 DEF StreamInOrder, Word

\* The next word of the program stays where the invariant says it is.
LEMMA PathKept ==
  ASSUME FetchInv, NEW in, InputOK(in), NEW pops, Edge(in, pops)
  PROVE  PathExact' /\ BufferExact'
<1> USE DEF FetchInv, FetchTypes, InputOK
<1>1. CASE in.redirect
  <2>1. next_pc' = in.target /\ redirect_target' = in.target /\ ~stop_skipped' /\ ~buf_valid'
    BY <1>1, RedirectOffers DEF Edge, Bookkeeping, Buffer
  <2>2. CASE FastRedirect(in)
    BY <1>1, <2>1, <2>2 DEF FastRedirect, fast, early_sel, PathExact, BufferExact
  <2>3. CASE SlowRedirect(in)
    BY <1>1, <2>1, <2>3 DEF SlowRedirect, PathExact, BufferExact
  <2>4. QED BY <1>1, <2>2, <2>3 DEF Edge, Stream
<1>2. CASE ~in.redirect /\ buf_valid
  <2>1. /\ ~pending /\ ~request_held /\ ~redirect_pending /\ ~stop_skipped
        /\ ~consume(in) /\ ~to_buf(in)
    BY <1>2 DEF ObligationExact, PathExact, consume, to_buf, live
  <2>2. ~redirect_pending' /\ ~stop_skipped' /\ pc' = pc
    BY <1>2, <2>1 DEF Edge, FastRedirect, fast, SlowRedirect, Stream, Bookkeeping
  <2>3. CASE ~in.ready
    <3>1. next_pc' = next_pc
      BY <1>2, <2>3, PushedNothing DEF Edge, Bookkeeping
    <3>2. /\ buf_valid' /\ buf_pc' = buf_pc /\ buf_insn' = buf_insn
          /\ buf_pair' = buf_pair /\ buf_insn1' = buf_insn1
      BY <1>2, <2>1, <2>3 DEF Edge, Buffer
    <3>3. QED BY <1>2, <2>2, <3>1, <3>2 DEF PathExact, BufferExact
  <2>4. CASE in.ready /\ ~buf_pair
    <3>1. next_pc' = Plus(next_pc, 1)
      BY <1>2, <2>4, PushedBuffered, NextMoves DEF Edge
    <3>2. ~buf_valid'
      BY <1>2, <2>1, <2>4 DEF Edge, Buffer
    <3>3. QED BY <1>2, <2>2, <2>4, <3>1, <3>2 DEF PathExact, BufferExact
  <2>5. CASE in.ready /\ buf_pair /\ in.room2
    <3>1. next_pc' = Plus(next_pc, 2)
      BY <1>2, <2>5, PushedBuffered, NextMoves DEF Edge
    <3>2. ~buf_valid'
      BY <1>2, <2>1, <2>5 DEF Edge, Buffer, packet_ready2
    <3>3. QED BY <1>2, <2>2, <2>5, <3>1, <3>2 DEF PathExact, BufferExact
  <2>6. CASE in.ready /\ buf_pair /\ ~in.room2
    <3>1. next_pc' = Plus(next_pc, 1)
      BY <1>2, <2>6, PushedBuffered, NextMoves DEF Edge
    <3>2. /\ buf_valid' /\ buf_pc' = Plus(buf_pc, 1) /\ buf_insn' = buf_insn1
          /\ buf_pair' = FALSE
      BY <1>2, <2>1, <2>6 DEF Edge, Buffer, packet_ready2
    <3>3. Plus(Plus(next_pc, 1), 1) = Plus(next_pc, 2)
      BY PlusTwice
    <3>4. QED BY <1>2, <2>2, <2>6, <3>1, <3>2, <3>3 DEF PathExact, BufferExact
  <2>7. QED BY <2>3, <2>4, <2>5, <2>6
<1>3. CASE ~in.redirect /\ ~buf_valid /\ ~live(in)
  <2>1. next_pc' = next_pc /\ ~buf_valid'
    BY <1>3, PushedNothing DEF Edge, Bookkeeping, Buffer, to_buf
  <2>2. redirect_target' = redirect_target
    BY <1>3 DEF Edge, Bookkeeping
  <2>3. Stream(in)
    BY <1>3 DEF Edge, FastRedirect, SlowRedirect, fast
  <2>4. CASE ~consume(in)
    BY <1>3, <2>1, <2>2, <2>3, <2>4
       DEF Edge, Stream, Bookkeeping, PathExact, BufferExact, accept
  <2>5. CASE consume(in) /\ redirect_pending
    BY <1>3, <2>1, <2>2, <2>3, <2>5 DEF Edge, Stream, PathExact, BufferExact
  <2>6. CASE consume(in) /\ ~redirect_pending /\ in.stop
    BY <1>3, <2>1, <2>2, <2>3, <2>6 DEF Edge, Stream, Bookkeeping, PathExact, BufferExact
  <2>7. QED BY <1>3, <2>4, <2>5, <2>6 DEF live
<1>4. CASE ~in.redirect /\ ~buf_valid /\ live(in)
  <2>1. Stream(in)
    BY <1>4 DEF Edge, FastRedirect, SlowRedirect, fast
  <2>2. /\ pending /\ consume(in) /\ ~redirect_pending /\ ~in.stop /\ ~stop_skipped
        /\ mem = pc /\ pc = next_pc
    BY <1>4 DEF live, consume, ObligationExact, PathExact
  <2>3. ~redirect_pending' /\ ~stop_skipped'
    BY <1>4, <2>1, <2>2 DEF Edge, Stream, Bookkeeping
  <2>4. next_addr(in) = IF pair_next(in) THEN Plus(pc, 2) ELSE Plus(pc, 1)
    BY <2>2, NextAddress
  <2>5. CASE in.ready
    <3>1. next_pc' = next_addr(in)
      BY <1>4, <2>2, <2>4, <2>5, PushedStreamed, NextMoves DEF Edge
    <3>2. ~buf_valid' /\ pc' = next_addr(in)
      BY <1>4, <2>1, <2>2, <2>5 DEF Edge, Stream, Buffer, to_buf, replay
    <3>3. QED BY <2>3, <3>1, <3>2 DEF PathExact, BufferExact
  <2>6. CASE ~in.ready /\ in.fault
    <3>1. next_pc' = next_pc /\ ~buf_valid' /\ pc' = pc
      BY <1>4, <2>1, <2>2, <2>6, PushedNothing
         DEF Edge, Stream, Buffer, Bookkeeping, to_buf, replay
    <3>2. QED BY <2>2, <2>3, <3>1 DEF PathExact, BufferExact
  <2>7. CASE ~in.ready /\ ~in.fault
    <3>1. next_pc' = next_pc /\ pc' = next_addr(in)
      BY <1>4, <2>1, <2>2, <2>7, PushedNothing DEF Edge, Stream, Bookkeeping, replay
    <3>2. /\ buf_valid' /\ buf_pc' = pc /\ buf_insn' = pc
          /\ buf_pair' = pair_next(in) /\ buf_insn1' = Plus(pc, 1)
      BY <1>4, <2>2, <2>7 DEF Edge, Buffer, to_buf
    <3>3. QED BY <2>2, <2>3, <2>4, <3>1, <3>2 DEF PathExact, BufferExact
  <2>8. QED BY <2>5, <2>6, <2>7
<1>5. QED BY <1>1, <1>2, <1>3, <1>4

\* An offer that was refused is held at its address, and so repeated.
LEMMA OfferKept ==
  ASSUME FetchInv, NEW in, InputOK(in), NEW pops, Edge(in, pops)
  PROVE  OfferHeld' /\ OfferStable
<1> USE DEF FetchInv, FetchTypes, InputOK
<1>1. /\ last'.req_valid = req_valid(in) /\ last'.req_ready = in.req_ready
      /\ last'.addr = req_addr(in)
  BY DEF Edge, Bookkeeping
<1>2. request_held => req_valid(in) /\ req_addr(in) = pc
  BY DEF req_valid, req_addr, early_sel, ObligationExact
<1>3. OfferStable
  BY <1>1, <1>2 DEF OfferStable, OfferHeld
<1>4. ASSUME req_valid(in), ~in.req_ready
      PROVE  request_held' /\ pc' = req_addr(in)
  <2>1. CASE FastRedirect(in)
    BY <1>4, <2>1 DEF FastRedirect, fast, req_addr
  <2>2. CASE SlowRedirect(in)
    BY <1>4, <2>2, RedirectOffers DEF SlowRedirect, req_addr
  <2>3. CASE Stream(in)
    BY <1>4, <2>3, OfferedAddress DEF Stream, consume
  <2>4. QED BY <2>1, <2>2, <2>3 DEF Edge
<1>5. OfferHeld'
  BY <1>1, <1>4 DEF OfferHeld
<1>6. QED BY <1>3, <1>5

-----------------------------------------------------------------------------
(* The specification.                                                      *)

\* The registers come out of reset with nothing outstanding.
LEMMA FetchStarts == FetchInit => FetchInv
<1>1. 0 \in Addresses /\ 1 \in Addresses /\ None \notin Addresses
  BY NoneIsNoAddress DEF Addresses
<1> SUFFICES ASSUME FetchInit PROVE FetchInv
  OBVIOUS
<1>2. FetchTypes /\ ObligationExact
  BY <1>1 DEF FetchInit, FetchTypes, ObligationExact
<1>3. PathExact /\ BufferExact
  BY DEF FetchInit, PathExact, BufferExact
<1>4. ~last.req_valid
  BY DEF FetchInit
<1>5. QED BY <1>2, <1>3, <1>4 DEF FetchInv, OfferHeld

\* Every edge keeps the invariant and moves the stream and the offer as promised.
LEMMA FetchSteps ==
  FetchInv /\ [FetchNext]_fetchVars => FetchInv' /\ [StreamInOrder /\ OfferStable]_fetchVars
<1> SUFFICES ASSUME FetchInv, [FetchNext]_fetchVars
             PROVE  FetchInv' /\ [StreamInOrder /\ OfferStable]_fetchVars
  OBVIOUS
<1>1. CASE FetchNext
  <2>1. PICK r \in Responses, q \in Rooms, s \in Steers, stop \in BOOLEAN,
              req_ready \in BOOLEAN, pops \in Pops :
          /\ stop_skipped => stop \/ s.redirect
          /\ Edge(Inputs(r, q, s, stop, req_ready), pops)
    BY <1>1 DEF FetchNext
  <2> DEFINE in == Inputs(r, q, s, stop, req_ready)
  <2>2. InputOK(in)
    BY <2>1, InputsOK
  <2> HIDE DEF in
  <2>3. Edge(in, pops)
    BY <2>1 DEF in
  <2>4. FetchTypes' /\ ObligationExact' /\ PathExact' /\ BufferExact' /\ OfferHeld'
    BY <2>2, <2>3, TypesKept, ObligationKept, PathKept, OfferKept
  <2>5. StreamInOrder /\ OfferStable
    BY <2>2, <2>3, DeliveredInOrder, OfferKept
  <2>6. QED BY <2>4, <2>5 DEF FetchInv
<1>2. CASE UNCHANGED fetchVars
  BY <1>2 DEF fetchVars, FetchInv, FetchTypes, ObligationExact, PathExact, BufferExact,
              OfferHeld
<1>3. QED BY <1>1, <1>2

\* Fetch and memory always agree on what is outstanding, whatever the widths,
\* the address space, the queue and the redirect targets.
THEOREM FetchAgreesWithMemory == FetchSpec => []ObligationExact
<1>1. FetchInv => ObligationExact
  BY DEF FetchInv
<1>2. QED BY <1>1, FetchStarts, FetchSteps, PTL DEF FetchSpec

\* The queue receives the program's words, each once and in order, and a
\* refused offer is repeated unchanged.
THEOREM FetchDeliversTheStream == FetchSpec => StreamExact
BY FetchStarts, FetchSteps, PTL DEF FetchSpec, StreamExact

=============================================================================
