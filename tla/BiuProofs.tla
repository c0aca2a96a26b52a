------------------------------- MODULE BiuProofs -------------------------------
EXTENDS BiuSystem, TLAPS, SequenceTheorems

-----------------------------------------------------------------------------
(* The registers of one master.                                            *)

AddressStates == {"ADDR_TRANSFER", "ADDR_WAIT", "ADDR_RETRY_SAMPLE", "ADDR_ABORT"}
DataStates == {"DATA_WAIT", "CONFIRM", "REPLACEMENT"}
BeforeData == {"ADDR_REQUEST", "RETRY_GAP", "DATA_REQUEST"} \cup AddressStates
States == {"IDLE", "DATA_RELEASE", "FINISH"} \cup BeforeData \cup DataStates

ReadAsks == {"read", "wrap", "split"}
Kinds == {None, "write", "address"} \cup ReadAsks

RegisterSet ==
  [state : States, ask : Kinds, slot : BOOLEAN, part : 0 .. 1, beat : 0 .. BEATS - 1,
   provisional : Int, got : [0 .. BEATS - 1 -> Int], err : BOOLEAN,
   rsp : {None, "ok", "error"}, addr_release : BOOLEAN, data_release : BOOLEAN,
   final_release : BOOLEAN, release_oe : BOOLEAN, idle : BOOLEAN, tries : Nat]

\* What the client of a master may ask for.
MayAsk(m) == CASE m = "scalar" -> {"read", "write"}
               [] m = "line" -> {"read", "wrap"}
               [] m = "cache" -> {"read", "write", "split", "address"}
               [] m = "push" -> {"write"}

\* The pins a master sees.
SeenSet == [bg : BOOLEAN, aack : BOOLEAN, artry : BOOLEAN, dbg : BOOLEAN,
            ta : BOOLEAN, drtry : BOOLEAN, tea : BOOLEAN, d : Int]

\* The registers of one master agree with its state.
Consistent(m, r) ==
  /\ r.ask \in MayAsk(m) \cup {None}
  /\ r.ask = None => r.rsp = None /\ ~r.err
  /\ r.rsp # None => r.state = "IDLE" /\ ~r.slot
  /\ IF HasSlot(m) THEN r.state # "IDLE" => r.slot ELSE ~r.slot /\ r.state # "FINISH"
  /\ r.state # "IDLE" \/ r.slot => r.ask # None
  /\ r.part = 1 => r.ask = "split"
  /\ r.state \in BeforeData => r.beat = 0 /\ ~r.err
  /\ r.state \in DataStates => r.ask # "address" /\ ~r.err
  /\ r.state = "DATA_REQUEST" => r.ask # "address"
  /\ r.state \in {"CONFIRM", "REPLACEMENT"} => r.ask \in ReadAsks
  /\ r.state = "DATA_RELEASE" /\ r.ask \in ReadAsks => r.err
  /\ r.addr_release <=> r.state \in {"ADDR_RETRY_SAMPLE", "ADDR_ABORT"}
  /\ r.data_release <=> r.state = "DATA_RELEASE" \/ r.release_oe
  /\ r.release_oe => r.state = "CONFIRM" /\ r.final_release

\* The beat of the access; the last one is marked.
Counted(m, r) ==
  r.state \in DataStates =>
    /\ r.beat <= LastBeat(m)
    /\ r.state # "DATA_WAIT" => (r.final_release <=> r.beat = LastBeat(m))

Master(m, r) == r \in RegisterSet /\ Consistent(m, r) /\ Counted(m, r)

-----------------------------------------------------------------------------
(* What an edge does to the registers r of a master that sees the pins s.  *)

\* The access goes on.
Goes(r, n, into) ==
  /\ n.state = into /\ n.ask = r.ask /\ n.slot = r.slot /\ n.part = r.part
  /\ n.rsp = r.rsp /\ n.err = r.err

\* The tenure ends.
Ends(m, r, n, rsp) ==
  /\ n.ask = r.ask /\ n.slot = r.slot /\ n.part = r.part
  /\ IF HasSlot(m) THEN n.state = "FINISH" /\ n.rsp = r.rsp /\ (n.err <=> rsp = "error")
     ELSE n.state = "IDLE" /\ n.rsp = rsp /\ n.err = r.err

\* The tenure is broken off.
Fails(r, n) ==
  /\ n.state = "DATA_RELEASE" /\ n.ask = r.ask /\ n.slot = r.slot /\ n.part = r.part
  /\ n.rsp = r.rsp /\ n.err

AddressMove(m, r, n, s) ==
  /\ r.state = "ADDR_REQUEST" =>
       Goes(r, n, IF s.bg /\ ~s.artry THEN "ADDR_TRANSFER" ELSE "ADDR_REQUEST")
  /\ r.state = "ADDR_TRANSFER" => Goes(r, n, IF s.aack THEN "ADDR_ABORT" ELSE "ADDR_WAIT")
  /\ r.state = "ADDR_WAIT" => Goes(r, n, IF s.aack THEN "ADDR_RETRY_SAMPLE" ELSE "ADDR_WAIT")
  /\ r.state = "ADDR_RETRY_SAMPLE" =>
       IF s.artry THEN Goes(r, n, "RETRY_GAP")
       ELSE IF r.ask = "address" THEN Ends(m, r, n, "ok") ELSE Goes(r, n, "DATA_REQUEST")
  /\ r.state = "ADDR_ABORT" => Ends(m, r, n, "error")
  /\ r.state = "RETRY_GAP" => Goes(r, n, IF HasSlot(m) THEN "IDLE" ELSE "ADDR_REQUEST")
  /\ r.state = "DATA_REQUEST" =>
       Goes(r, n, IF s.dbg /\ ~s.drtry /\ ~s.artry THEN "DATA_WAIT" ELSE "DATA_REQUEST")

\* A doubleword is confirmed.
Fills(m, r, n) == n.got = [r.got EXCEPT ![Slot(m, r.beat)] = r.provisional]

\* The tenure is broken off, or is over if its last beat was.
BreaksOff(m, r, n) ==
  n.got = r.got /\ IF r.final_release THEN Ends(m, r, n, "error") ELSE Fails(r, n)

ReadMove(m, r, n, s) ==
  /\ r.state = "DATA_WAIT" =>
       /\ n.got = r.got
       /\ IF s.tea \/ s.drtry THEN Fails(r, n)
          ELSE n.beat = r.beat /\ Goes(r, n, IF s.ta THEN "CONFIRM" ELSE "DATA_WAIT")
  /\ r.state = "CONFIRM" =>
       IF s.tea THEN BreaksOff(m, r, n)
       ELSE IF s.drtry
         THEN n.got = r.got /\ n.beat = r.beat /\ Goes(r, n, IF s.ta THEN "CONFIRM" ELSE "REPLACEMENT")
       ELSE /\ Fills(m, r, n)
            /\ IF r.beat = LastBeat(m) THEN Ends(m, r, n, "ok")
               ELSE n.beat = r.beat + 1 /\ Goes(r, n, IF s.ta THEN "CONFIRM" ELSE "DATA_WAIT")
  /\ r.state = "REPLACEMENT" =>
       IF s.tea \/ ~s.drtry THEN BreaksOff(m, r, n)
       ELSE n.got = r.got /\ n.beat = r.beat /\ Goes(r, n, IF s.ta THEN "CONFIRM" ELSE "REPLACEMENT")

WriteMove(m, r, n, s) ==
  IF s.tea THEN Fails(r, n)
  ELSE IF ~s.ta THEN Goes(r, n, r.state) /\ n.beat = r.beat
  ELSE IF r.beat = LastBeat(m) THEN Goes(r, n, "DATA_RELEASE")
  ELSE Goes(r, n, r.state) /\ n.beat = r.beat + 1

\* FINISH: the second half of a split single, or the response.
FinishMove(r, n) ==
  /\ n.state = "IDLE" /\ n.ask = r.ask /\ n.err = r.err /\ n.got = r.got
  /\ IF r.ask = "split" /\ r.part = 0 /\ ~r.err THEN n.part = 1 /\ n.rsp = r.rsp
     ELSE n.part = r.part /\ n.rsp = (IF r.err THEN "error" ELSE "ok")

\* An idle master waits, drops a response that was taken, takes a request, or
\* starts the one in its slot.
IdleMove(r, n) ==
  \/ /\ n.state = "IDLE" \/ (n.state = "ADDR_REQUEST" /\ r.slot /\ ~n.err)
     /\ n.ask = r.ask /\ n.slot = r.slot /\ n.part = r.part /\ n.rsp = r.rsp
     /\ (n.err => r.err) /\ n.got = r.got
  \/ /\ n.state \in {"IDLE", "ADDR_REQUEST"}
     /\ n.part = 0 /\ n.rsp = None /\ ~n.err

Move(m, r, n, s) ==
  /\ r.state = "IDLE" => IdleMove(r, n)
  /\ r.state \in BeforeData => AddressMove(m, r, n, s) /\ n.got = r.got /\ n.beat = r.beat
  /\ r.state \in DataStates =>
       IF r.ask \in ReadAsks THEN ReadMove(m, r, n, s) ELSE WriteMove(m, r, n, s)
  /\ r.state = "DATA_RELEASE" =>
       n.got = r.got /\ Ends(m, r, n, IF r.err THEN "error" ELSE "ok")
  /\ r.state = "FINISH" => FinishMove(r, n)

\* The busy pins are let go after the cycle that announces it.
Abb(r) == r.state \in AddressStates
Dbb(r) ==
  \/ r.state \in {"DATA_WAIT", "DATA_RELEASE"}
  \/ r.state \in {"CONFIRM", "REPLACEMENT"} /\ (~r.final_release \/ r.release_oe)
LetsGo(r, n) ==
  /\ Abb(r) => (Abb(n) <=> ~r.addr_release)
  /\ Dbb(r) => (Dbb(n) <=> ~r.data_release)

-----------------------------------------------------------------------------
\* The beats of an access are those of a burst or one.
LEMMA LastBeatRange ==
  ASSUME NEW m \in Masters
  PROVE  LastBeat(m) \in 0 .. BEATS - 1 /\ (M[m].ask \in {"split", "address"} => LastBeat(m) = 0)
BY BiuAssumption DEF LastBeat

\* A line that wraps begins at its last doubleword and goes on from its first.
LEMMA WrappedBeat ==
  ASSUME NEW b \in 0 .. BEATS - 1
  PROVE  (BEATS - 1 + b) % BEATS = IF b = 0 THEN BEATS - 1 ELSE b - 1
<1>1. CASE b = 0
  BY <1>1, BiuAssumption
<1>2. CASE b # 0
  <2>1. BEATS - 1 + b = BEATS + (b - 1) /\ b - 1 \in 0 .. BEATS - 2
    BY <1>2, BiuAssumption
  <2>2. QED BY <1>2, <2>1, BiuAssumption
<1>3. QED BY <1>1, <1>2

\* A master that is not idle goes on with its access.
LEMMA BusyStep ==
  ASSUME NEW m \in Masters, NEW s, NEW rsp_ready, Master(m, M[m]), M[m].state # "IDLE"
  PROVE  /\ ~Takes(m)
         /\ Step(m, s, rsp_ready) =
              LET r == Phase(m, [M[m] EXCEPT !.idle = FALSE], s)
              IN  [r EXCEPT !.provisional = IF s.ta THEN s.d ELSE @]
<1>1. ~Takes(m)
  BY DEF Takes, Consistent, Master, HasSlot, Masters, Outer
<1>2. M[m].rsp = None /\ busy(m)
  BY DEF Consistent, Master, busy
<1>3. [M[m] EXCEPT !.idle = ~busy(m)] = [M[m] EXCEPT !.idle = FALSE]
  BY <1>2
<1>4. QED BY <1>1, <1>2, <1>3 DEF Step

\* A master in its address tenure, or between it and its data tenure.
LEMMA AddressStep ==
  ASSUME NEW m \in Masters, NEW s \in SeenSet, NEW r \in RegisterSet, Consistent(m, r),
         r.state \in BeforeData
  PROVE LET n == AddressPhase(m, r, s) IN
    /\ n \in RegisterSet /\ Consistent(m, n)
    /\ AddressMove(m, r, n, s) /\ n.got = r.got /\ n.beat = r.beat
    /\ LetsGo(r, n)
<1> USE DEF RegisterSet, SeenSet, States, AddressStates, BeforeData, DataStates, Consistent, AddressPhase, AddressMove, Goes, Ends, End, HasSlot,
           LetsGo, Abb, Dbb
<1>1. CASE r.state = "ADDR_REQUEST"
  BY <1>1
<1>2. CASE r.state = "ADDR_TRANSFER"
  BY <1>2
<1>3. CASE r.state = "ADDR_WAIT"
  BY <1>3
<1>4. CASE r.state = "ADDR_RETRY_SAMPLE"
  <2>1. CASE s.artry
    <3>1. AddressPhase(m, r, s) =
            [r EXCEPT !.addr_release = FALSE, !.state = "RETRY_GAP", !.tries = r.tries + 1]
      BY <1>4, <2>1
    <3>2. r.tries + 1 \in Nat
      OBVIOUS
    <3> DEFINE n == AddressPhase(m, r, s)
    <3>3. /\ n.state = "RETRY_GAP" /\ ~n.addr_release /\ n.tries = r.tries + 1
          /\ n.ask = r.ask /\ n.slot = r.slot /\ n.part = r.part /\ n.rsp = r.rsp /\ n.err = r.err
          /\ n.got = r.got /\ n.beat = r.beat /\ n.data_release = r.data_release
          /\ n.final_release = r.final_release /\ n.release_oe = r.release_oe
      <4>1. n = [r EXCEPT !.addr_release = FALSE, !.state = "RETRY_GAP", !.tries = r.tries + 1]
        BY <3>1
      <4> HIDE DEF AddressPhase, n
      <4> QED BY <4>1
    <3>4. n \in RegisterSet
      <4> HIDE DEF AddressPhase
      <4> QED BY <3>1, <3>2
    <3> HIDE DEF AddressPhase, n
    <3>5. Consistent(m, n)
      BY <1>4, <3>3
    <3>6. AddressMove(m, r, n, s) /\ n.got = r.got /\ n.beat = r.beat
      BY <1>4, <2>1, <3>3
    <3>7. LetsGo(r, n)
      BY <1>4, <3>3
    <3>8. QED BY <3>4, <3>5, <3>6, <3>7 DEF n
  <2>2. CASE ~s.artry /\ r.ask = "address"
    BY <1>4, <2>2 DEF MayAsk
  <2>3. CASE ~s.artry /\ r.ask # "address"
    BY <1>4, <2>3
  <2>4. QED BY <2>1, <2>2, <2>3
<1>5. CASE r.state = "ADDR_ABORT"
  <2> DEFINE n == AddressPhase(m, r, s)
  <2>1. n = End(m, [r EXCEPT !.addr_release = FALSE], TRUE)
    BY <1>5
  <2>2. /\ ~n.addr_release /\ n.ask = r.ask /\ n.slot = r.slot /\ n.part = r.part
        /\ n.got = r.got /\ n.beat = r.beat /\ n.data_release = r.data_release
        /\ n.final_release = r.final_release /\ n.release_oe = r.release_oe
        /\ IF HasSlot(m) THEN n.state = "FINISH" /\ n.err /\ n.rsp = r.rsp
           ELSE n.state = "IDLE" /\ n.err = r.err /\ n.rsp = "error"
    <3> HIDE DEF AddressPhase, n
    <3> QED BY <1>5, <2>1
  <2>3. n \in RegisterSet
    <3> HIDE DEF AddressPhase, n
    <3> QED BY <1>5, <2>1
  <2> HIDE DEF AddressPhase, n
  <2>4. Consistent(m, n)
    BY <1>5, <2>2
  <2>5. AddressMove(m, r, n, s) /\ n.got = r.got /\ n.beat = r.beat
    BY <1>5, <2>2
  <2>6. LetsGo(r, n)
    BY <1>5, <2>2
  <2>7. QED BY <2>3, <2>4, <2>5, <2>6 DEF n
<1>6. CASE r.state = "RETRY_GAP"
  BY <1>6
<1>7. CASE r.state = "DATA_REQUEST"
  BY <1>7
<1> QED BY <1>1, <1>2, <1>3, <1>4, <1>5, <1>6, <1>7

\* What becomes of a master in its data tenure is consistent.
Good(m, r, n) == n \in RegisterSet /\ Consistent(m, n) /\ Counted(m, n) /\ LetsGo(r, n)

\* The registers once an announced release of DBB is over.
Quiet(r, g) == [r EXCEPT !.data_release = FALSE, !.release_oe = FALSE, !.got = g]
Waiting(r, g, beat, into, tries) ==
  [r EXCEPT !.data_release = FALSE, !.release_oe = FALSE, !.got = g,
            !.beat = beat, !.state = into, !.tries = tries]

Holding(n, g) == n.got = g

\* The tenure is broken off.
LEMMA Failing ==
  ASSUME NEW m \in Masters, NEW r \in RegisterSet, Consistent(m, r), r.state \in DataStates,
         Dbb(r), ~r.release_oe,
         NEW n, n = [r EXCEPT !.data_release = TRUE, !.release_oe = FALSE,
                              !.state = "DATA_RELEASE", !.err = TRUE]
  PROVE  Good(m, r, n) /\ Fails(r, n) /\ n.got = r.got /\ n.beat = r.beat
<1>1. /\ n \in RegisterSet /\ Fails(r, n) /\ n.got = r.got /\ n.beat = r.beat
      /\ n.data_release /\ ~n.release_oe /\ n.addr_release = r.addr_release
  BY DEF RegisterSet, States, Fails
<1>2. Consistent(m, n)
  BY <1>1 DEF Consistent, Fails, HasSlot, AddressStates, BeforeData, DataStates
<1>3. Counted(m, n) /\ LetsGo(r, n)
  BY <1>1 DEF Counted, Fails, LetsGo, Abb, Dbb, Consistent, DataStates, AddressStates
<1>4. QED BY <1>1, <1>2, <1>3 DEF Good

\* The tenure ends well.
LEMMA EndingWell ==
  ASSUME NEW m \in Masters, NEW r \in RegisterSet, Consistent(m, r), r.state \in DataStates,
         Dbb(r) => r.data_release, NEW g \in [0 .. BEATS - 1 -> Int],
         NEW n, n = End(m, Quiet(r, g), FALSE)
  PROVE  Good(m, r, n) /\ Ends(m, r, n, "ok") /\ Holding(n, g)
<1> DEFINE v == Quiet(r, g)
<1>1. /\ v \in RegisterSet /\ v.ask = r.ask /\ v.slot = r.slot /\ v.part = r.part
      /\ v.rsp = r.rsp /\ v.err = r.err /\ v.got = g
      /\ ~v.data_release /\ ~v.release_oe /\ v.addr_release = r.addr_release
  BY DEF RegisterSet, Quiet
<1>0. n = End(m, v, FALSE)
  OBVIOUS
<1> HIDE DEF v
<1>2. CASE HasSlot(m)
  <2>1. n = [v EXCEPT !.state = "FINISH", !.err = FALSE]
    BY <1>0, <1>2 DEF End
  <2>2. /\ n \in RegisterSet /\ n.state = "FINISH" /\ ~n.err
        /\ n.ask = r.ask /\ n.slot = r.slot /\ n.part = r.part /\ n.rsp = r.rsp /\ n.got = g
        /\ ~n.data_release /\ ~n.release_oe /\ n.addr_release = r.addr_release
    BY <1>1, <2>1 DEF RegisterSet, States
  <2>3. Consistent(m, n)
    BY <1>2, <2>2 DEF Consistent, HasSlot, AddressStates, BeforeData, DataStates
  <2>4. Counted(m, n) /\ LetsGo(r, n)
    BY <2>2 DEF Counted, LetsGo, Abb, Dbb, Consistent, DataStates, AddressStates
  <2>5. Ends(m, r, n, "ok")
    BY <1>2, <2>2 DEF Ends
  <2>6. QED BY <2>2, <2>3, <2>4, <2>5 DEF Good, Holding
<1>3. CASE ~HasSlot(m)
  <2>1. n = [v EXCEPT !.state = "IDLE", !.rsp = "ok"]
    BY <1>0, <1>3 DEF End
  <2>2. /\ n \in RegisterSet /\ n.state = "IDLE" /\ n.rsp = "ok"
        /\ n.ask = r.ask /\ n.slot = r.slot /\ n.part = r.part /\ n.err = r.err /\ n.got = g
        /\ ~n.data_release /\ ~n.release_oe /\ n.addr_release = r.addr_release
    BY <1>1, <2>1 DEF RegisterSet, States
  <2>3. Consistent(m, n)
    BY <1>3, <2>2 DEF Consistent, AddressStates, BeforeData, DataStates
  <2>4. Counted(m, n) /\ LetsGo(r, n)
    BY <2>2 DEF Counted, LetsGo, Abb, Dbb, Consistent, DataStates, AddressStates
  <2>5. Ends(m, r, n, "ok")
    BY <1>3, <2>2 DEF Ends
  <2>6. QED BY <2>2, <2>3, <2>4, <2>5 DEF Good, Holding
<1>4. QED BY <1>2, <1>3

\* The tenure ends with an error.
LEMMA EndingBadly ==
  ASSUME NEW m \in Masters, NEW r \in RegisterSet, Consistent(m, r), r.state \in DataStates,
         Dbb(r) => r.data_release, NEW g \in [0 .. BEATS - 1 -> Int],
         NEW n, n = End(m, Quiet(r, g), TRUE)
  PROVE  Good(m, r, n) /\ Ends(m, r, n, "error") /\ Holding(n, g)
<1> DEFINE v == Quiet(r, g)
<1>1. /\ v \in RegisterSet /\ v.ask = r.ask /\ v.slot = r.slot /\ v.part = r.part
      /\ v.rsp = r.rsp /\ v.err = r.err /\ v.got = g
      /\ ~v.data_release /\ ~v.release_oe /\ v.addr_release = r.addr_release
  BY DEF RegisterSet, Quiet
<1>0. n = End(m, v, TRUE)
  OBVIOUS
<1> HIDE DEF v
<1>2. CASE HasSlot(m)
  <2>1. n = [v EXCEPT !.state = "FINISH", !.err = TRUE]
    BY <1>0, <1>2 DEF End
  <2>2. /\ n \in RegisterSet /\ n.state = "FINISH" /\ n.err
        /\ n.ask = r.ask /\ n.slot = r.slot /\ n.part = r.part /\ n.rsp = r.rsp /\ n.got = g
        /\ ~n.data_release /\ ~n.release_oe /\ n.addr_release = r.addr_release
    BY <1>1, <2>1 DEF RegisterSet, States
  <2>3. Consistent(m, n)
    BY <1>2, <2>2 DEF Consistent, HasSlot, AddressStates, BeforeData, DataStates
  <2>4. Counted(m, n) /\ LetsGo(r, n)
    BY <2>2 DEF Counted, LetsGo, Abb, Dbb, Consistent, DataStates, AddressStates
  <2>5. Ends(m, r, n, "error")
    BY <1>2, <2>2 DEF Ends
  <2>6. QED BY <2>2, <2>3, <2>4, <2>5 DEF Good, Holding
<1>3. CASE ~HasSlot(m)
  <2>1. n = [v EXCEPT !.state = "IDLE", !.rsp = "error"]
    BY <1>0, <1>3 DEF End
  <2>2. /\ n \in RegisterSet /\ n.state = "IDLE" /\ n.rsp = "error"
        /\ n.ask = r.ask /\ n.slot = r.slot /\ n.part = r.part /\ n.err = r.err /\ n.got = g
        /\ ~n.data_release /\ ~n.release_oe /\ n.addr_release = r.addr_release
    BY <1>1, <2>1 DEF RegisterSet, States
  <2>3. Consistent(m, n)
    BY <1>3, <2>2 DEF Consistent, AddressStates, BeforeData, DataStates
  <2>4. Counted(m, n) /\ LetsGo(r, n)
    BY <2>2 DEF Counted, LetsGo, Abb, Dbb, Consistent, DataStates, AddressStates
  <2>5. Ends(m, r, n, "error")
    BY <1>3, <2>2 DEF Ends
  <2>6. QED BY <2>2, <2>3, <2>4, <2>5 DEF Good, Holding
<1>4. QED BY <1>2, <1>3

\* A beat comes, the first one or the one after a confirmed one.
LEMMA Beating ==
  ASSUME NEW m \in Masters, NEW r \in RegisterSet, Consistent(m, r), r.state \in DataStates,
         r.ask \in ReadAsks, Dbb(r), ~r.data_release, NEW g \in [0 .. BEATS - 1 -> Int],
         NEW beat \in 0 .. LastBeat(m), LastBeat(m) \in 0 .. BEATS - 1,
         NEW n, n = Beat(m, Quiet(r, g), beat)
  PROVE  Good(m, r, n) /\ Goes(r, n, "CONFIRM") /\ Holding(n, g) /\ n.beat = beat
<1> DEFINE v == Quiet(r, g)
<1> DEFINE last == beat = LastBeat(m)
<1>1. n = [v EXCEPT !.state = "CONFIRM", !.beat = beat,
                    !.final_release = last, !.release_oe = last, !.data_release = last]
  BY DEF Beat
<1>2. last \in BOOLEAN /\ beat \in 0 .. BEATS - 1
  BY BiuAssumption
<1>3. last <=> beat = LastBeat(m)
  OBVIOUS
<1> HIDE DEF last
<1>4. /\ n \in RegisterSet /\ Goes(r, n, "CONFIRM") /\ n.got = g /\ n.beat = beat
      /\ n.final_release = last /\ n.release_oe = last /\ n.data_release = last
      /\ n.addr_release = r.addr_release
  BY <1>1, <1>2 DEF RegisterSet, States, DataStates, Goes, Quiet
<1>5. Consistent(m, n)
  BY <1>4 DEF Consistent, Goes, HasSlot, AddressStates, BeforeData, DataStates
<1>6. Counted(m, n) /\ LetsGo(r, n)
  BY <1>3, <1>4 DEF Counted, LetsGo, Abb, Dbb, Consistent, Goes, DataStates, AddressStates
<1>7. QED BY <1>4, <1>5, <1>6 DEF Good, Holding

\* The master waits for its next doubleword, or has the cancelled one again.
LEMMA Going ==
  ASSUME NEW m \in Masters, NEW r \in RegisterSet, Consistent(m, r), r.state \in DataStates,
         r.ask \in ReadAsks, NEW g \in [0 .. BEATS - 1 -> Int], NEW beat \in 0 .. LastBeat(m),
         LastBeat(m) \in 0 .. BEATS - 1, NEW into \in DataStates, NEW tries \in Nat,
         into # "DATA_WAIT" => (r.final_release <=> beat = LastBeat(m)),
         Dbb(r) => ~r.data_release <=> (into = "DATA_WAIT" \/ ~r.final_release),
         NEW n, n = Waiting(r, g, beat, into, tries)
  PROVE  Good(m, r, n) /\ Goes(r, n, into) /\ Holding(n, g) /\ n.beat = beat
<1>1. beat \in 0 .. BEATS - 1
  BY BiuAssumption
<1>2. /\ n \in RegisterSet /\ Goes(r, n, into) /\ n.got = g /\ n.beat = beat
      /\ n.final_release = r.final_release /\ ~n.release_oe /\ ~n.data_release
      /\ n.addr_release = r.addr_release
  BY <1>1 DEF RegisterSet, States, DataStates, Goes, Waiting
<1>3. Consistent(m, n)
  BY <1>2 DEF Consistent, Goes, HasSlot, AddressStates, BeforeData, DataStates, ReadAsks
<1>4. Counted(m, n) /\ LetsGo(r, n)
  BY <1>2 DEF Counted, LetsGo, Abb, Dbb, Consistent, Goes, DataStates, AddressStates
<1>5. QED BY <1>2, <1>3, <1>4 DEF Good, Holding

\* A read in its data tenure.
LEMMA ReadStep ==
  ASSUME NEW m \in Masters, NEW s \in SeenSet, NEW r \in RegisterSet, Consistent(m, r),
         Counted(m, r), r.state \in DataStates, r.ask \in ReadAsks,
         Slot(m, r.beat) \in 0 .. BEATS - 1, NEW n, n = ReadPhase(m, r, s)
  PROVE  Good(m, r, n) /\ ReadMove(m, r, n, s)
<1> DEFINE q == [r EXCEPT !.data_release = FALSE, !.release_oe = FALSE]
           filled == [r.got EXCEPT ![Slot(m, r.beat)] = r.provisional]
           failed_r == [r EXCEPT !.data_release = TRUE, !.release_oe = FALSE,
                                 !.state = "DATA_RELEASE", !.err = TRUE]
<1>1. /\ LastBeat(m) \in 0 .. BEATS - 1 /\ BEATS \in Nat
      /\ r.beat \in 0 .. BEATS - 1 /\ r.beat <= LastBeat(m)
      /\ r.got \in [0 .. BEATS - 1 -> Int] /\ r.provisional \in Int /\ r.tries \in Nat
      /\ r.tries + 1 \in Nat
  BY LastBeatRange, BiuAssumption DEF RegisterSet, Counted
<1>2. filled \in [0 .. BEATS - 1 -> Int]
  BY <1>1
<1>12. r.got \in [0 .. BEATS - 1 -> Int]
  BY <1>1
<1>13. LastBeat(m) \in 0 .. BEATS - 1
  BY <1>1
<1>14. r.tries \in Nat
  BY <1>1
<1>15. r.beat \in 0 .. LastBeat(m)
  BY <1>1
<1>3. Release(q) = failed_r
  BY DEF Release
<1>4. q = Quiet(r, r.got)
  BY DEF RegisterSet, Quiet
<1>5. [q EXCEPT !.got[Slot(m, q.beat)] = q.provisional] = Quiet(r, filled)
  BY DEF RegisterSet, Quiet
<1> DEFINE f == [q EXCEPT !.got[Slot(m, q.beat)] = q.provisional]
<1>7. q.beat = r.beat /\ q.final_release = r.final_release /\ q.state = r.state /\ q.tries = r.tries
  BY DEF RegisterSet
<1>8. CASE r.state = "DATA_WAIT"
  <2>1. n = IF s.tea \/ s.drtry THEN Release(q) ELSE IF s.ta THEN Beat(m, q, q.beat) ELSE q
    BY <1>7, <1>8 DEF ReadPhase
  <2>2. Dbb(r) /\ ~r.data_release /\ ~r.release_oe
    BY <1>8 DEF Dbb, Consistent
  <2> HIDE DEF q, failed_r
  <2>3. CASE s.tea \/ s.drtry
    <3>1. n = failed_r
      BY <1>3, <2>1, <2>3
    <3>2. QED BY <1>8, <2>2, <2>3, <3>1, Failing DEF failed_r, ReadMove, BreaksOff
  <2>4. CASE ~s.tea /\ ~s.drtry /\ s.ta
    <3>1. n = Beat(m, Quiet(r, r.got), r.beat)
      BY <1>4, <1>7, <2>1, <2>4
    <3>2. QED BY <1>1, <1>8, <2>2, <2>4, <3>1, Beating DEF ReadMove, BreaksOff, Holding
  <2>5. CASE ~s.tea /\ ~s.drtry /\ ~s.ta
    <3>1. n = q
      BY <2>1, <2>5
    <3>2. n = Waiting(r, r.got, r.beat, "DATA_WAIT", r.tries)
      BY <1>8, <3>1 DEF q, RegisterSet, Waiting
    <3>3. "DATA_WAIT" \in DataStates
      BY DEF DataStates
    <3>4. Good(m, r, n) /\ Goes(r, n, "DATA_WAIT") /\ Holding(n, r.got) /\ n.beat = r.beat
      BY <1>12, <1>13, <1>14, <1>15, <2>2, <3>2, <3>3, Going
    <3>5. QED BY <1>8, <2>5, <3>4 DEF ReadMove, BreaksOff, Holding
  <2>6. QED BY <2>3, <2>4, <2>5
<1>9. CASE r.state = "CONFIRM"
  <2>1. n = Confirm(m, q, s)
    BY <1>9 DEF ReadPhase
  <2>2. /\ r.final_release <=> r.beat = LastBeat(m)
        /\ r.release_oe => r.final_release
        /\ r.data_release <=> r.release_oe
    BY <1>9 DEF Consistent, Counted
  <2>3. n = IF s.tea THEN IF r.final_release THEN End(m, q, TRUE) ELSE Release(q)
            ELSE IF s.drtry THEN [q EXCEPT !.state = IF s.ta THEN "CONFIRM" ELSE "REPLACEMENT", !.tries = @ + 1]
            ELSE IF r.beat = LastBeat(m) THEN End(m, f, FALSE)
            ELSE IF s.ta THEN Beat(m, f, r.beat + 1)
            ELSE [f EXCEPT !.state = "DATA_WAIT", !.beat = r.beat + 1]
    BY <1>7, <2>1 DEF Confirm
  <2>4. CASE s.tea /\ r.final_release
    <3>1. n = End(m, Quiet(r, r.got), TRUE)
      BY <1>4, <2>3, <2>4
    <3>2. Dbb(r) => r.data_release
      BY <1>9, <2>2, <2>4 DEF Dbb
    <3>3. Good(m, r, n) /\ Ends(m, r, n, "error") /\ Holding(n, r.got)
      BY <1>12, <3>1, <3>2, EndingBadly
    <3>4. QED BY <1>9, <2>4, <3>3 DEF ReadMove, BreaksOff, Holding
  <2>5. CASE s.tea /\ ~r.final_release
    <3>1. n = failed_r
      BY <1>3, <2>3, <2>5
    <3>2. Dbb(r) /\ ~r.release_oe
      BY <1>9, <2>2, <2>5 DEF Dbb
    <3> HIDE DEF failed_r
    <3>3. QED BY <1>9, <2>5, <3>1, <3>2, Failing DEF failed_r, ReadMove, BreaksOff
  <2>6. CASE ~s.tea /\ s.drtry
    <3> DEFINE st == IF s.ta THEN "CONFIRM" ELSE "REPLACEMENT"
    <3>1. n = [q EXCEPT !.state = st, !.tries = r.tries + 1]
      BY <1>7, <2>3, <2>6
    <3>2. st \in DataStates /\ st # "DATA_WAIT"
      BY DEF DataStates
    <3>3. n = Waiting(r, r.got, r.beat, st, r.tries + 1)
      BY <3>1 DEF RegisterSet, Waiting
    <3>4. Dbb(r) => ~r.data_release <=> ~r.final_release
      BY <1>9, <2>2 DEF Dbb
    <3> HIDE DEF st
    <3>5. Good(m, r, n) /\ Goes(r, n, st) /\ Holding(n, r.got) /\ n.beat = r.beat
      BY <1>12, <1>13, <1>14, <1>15, <2>2, <3>2, <3>3, <3>4, Going
    <3>6. QED BY <1>9, <2>6, <3>5 DEF ReadMove, BreaksOff, Holding, st
  <2>7. CASE ~s.tea /\ ~s.drtry /\ r.beat = LastBeat(m)
    <3>1. n = End(m, Quiet(r, filled), FALSE)
      BY <1>5, <2>3, <2>7
    <3>2. Dbb(r) => r.data_release
      BY <1>9, <2>2, <2>7 DEF Dbb
    <3> HIDE DEF filled
    <3>3. Good(m, r, n) /\ Ends(m, r, n, "ok") /\ Holding(n, filled)
      BY <1>2, <3>1, <3>2, EndingWell
    <3>4. QED BY <1>9, <2>7, <3>3 DEF ReadMove, BreaksOff, Holding, Fills, filled
  <2>8. CASE ~s.tea /\ ~s.drtry /\ r.beat # LastBeat(m)
    <3> DEFINE next == r.beat + 1
    <3>1. next \in 0 .. LastBeat(m)
      BY <1>1, <2>8
    <3>2. Dbb(r) /\ ~r.final_release /\ ~r.data_release
      BY <1>9, <2>2, <2>8 DEF Dbb
    <3>3. CASE s.ta
      <4>1. n = Beat(m, Quiet(r, filled), next)
        BY <1>5, <2>3, <2>8, <3>3
      <4> HIDE DEF filled, next
      <4>2. Good(m, r, n) /\ Goes(r, n, "CONFIRM") /\ Holding(n, filled) /\ n.beat = next
        BY <1>13, <1>2, <3>1, <3>2, <4>1, Beating
      <4>3. QED BY <1>9, <2>8, <3>3, <4>2 DEF ReadMove, BreaksOff, Holding, Fills, filled, next
    <3>4. CASE ~s.ta
      <4>1. n = [f EXCEPT !.state = "DATA_WAIT", !.beat = r.beat + 1]
        BY <2>3, <2>8, <3>4
      <4>2. n = [Quiet(r, filled) EXCEPT !.state = "DATA_WAIT", !.beat = r.beat + 1]
        BY <1>5, <4>1
      <4>3. n = Waiting(r, filled, next, "DATA_WAIT", r.tries)
        BY <4>2 DEF RegisterSet, Waiting, Quiet
      <4>6. "DATA_WAIT" \in DataStates
        BY DEF DataStates
      <4> HIDE DEF filled, next
      <4>4. Good(m, r, n) /\ Goes(r, n, "DATA_WAIT") /\ Holding(n, filled) /\ n.beat = next
        BY <1>2, <1>13, <1>14, <3>1, <3>2, <4>3, <4>6, Going
      <4>5. QED BY <1>9, <2>8, <3>4, <4>4 DEF ReadMove, BreaksOff, Holding, Fills, filled, next
    <3>5. QED BY <3>3, <3>4
  <2>9. QED BY <2>4, <2>5, <2>6, <2>7, <2>8
<1>10. CASE r.state = "REPLACEMENT"
  <2>1. n = IF s.tea \/ ~s.drtry THEN IF r.final_release THEN End(m, q, TRUE) ELSE Release(q)
            ELSE IF s.ta THEN [q EXCEPT !.state = "CONFIRM"] ELSE q
    BY <1>7, <1>10 DEF ReadPhase
  <2>2. (r.final_release <=> r.beat = LastBeat(m)) /\ ~r.release_oe /\ ~r.data_release
    BY <1>10 DEF Consistent, Counted
  <2>3. CASE (s.tea \/ ~s.drtry) /\ r.final_release
    <3>1. n = End(m, Quiet(r, r.got), TRUE)
      BY <1>4, <2>1, <2>3
    <3>2. ~Dbb(r)
      BY <1>10, <2>2, <2>3 DEF Dbb
    <3>3. Good(m, r, n) /\ Ends(m, r, n, "error") /\ Holding(n, r.got)
      BY <1>12, <3>1, <3>2, EndingBadly
    <3>4. QED BY <1>10, <2>3, <3>3 DEF ReadMove, BreaksOff, Holding
  <2>4. CASE (s.tea \/ ~s.drtry) /\ ~r.final_release
    <3>1. n = failed_r
      BY <1>3, <2>1, <2>4
    <3>2. Dbb(r)
      BY <1>10, <2>4 DEF Dbb
    <3> HIDE DEF failed_r
    <3>3. QED BY <1>10, <2>2, <2>4, <3>1, <3>2, Failing DEF failed_r, ReadMove, BreaksOff
  <2>5. CASE ~s.tea /\ s.drtry
    <3> DEFINE st == IF s.ta THEN "CONFIRM" ELSE "REPLACEMENT"
    <3>1. n = [q EXCEPT !.state = st]
      BY <1>7, <1>10, <2>1, <2>5 DEF RegisterSet
    <3>2. st \in DataStates /\ st # "DATA_WAIT"
      BY DEF DataStates
    <3>3. n = Waiting(r, r.got, r.beat, st, r.tries)
      BY <3>1 DEF RegisterSet, Waiting
    <3>4. Dbb(r) => ~r.data_release <=> ~r.final_release
      BY <1>10, <2>2 DEF Dbb
    <3> HIDE DEF st
    <3>5. Good(m, r, n) /\ Goes(r, n, st) /\ Holding(n, r.got) /\ n.beat = r.beat
      BY <1>12, <1>13, <1>14, <1>15, <2>2, <3>2, <3>3, <3>4, Going
    <3>6. QED BY <1>10, <2>5, <3>5 DEF ReadMove, BreaksOff, Holding, st
  <2>6. QED BY <2>3, <2>4, <2>5
<1>11. QED BY <1>8, <1>9, <1>10 DEF DataStates

\* A write in its data tenure.
LEMMA WriteStep ==
  ASSUME NEW m \in Masters, NEW s \in SeenSet, NEW r \in RegisterSet, Consistent(m, r),
         Counted(m, r), r.state \in DataStates, r.ask \notin ReadAsks,
         NEW n, n = WritePhase(m, r, s)
  PROVE  Good(m, r, n) /\ WriteMove(m, r, n, s)
<1>1. LastBeat(m) \in 0 .. BEATS - 1 /\ r.beat \in 0 .. BEATS - 1 /\ r.beat <= LastBeat(m)
  BY LastBeatRange DEF RegisterSet, Counted
<1>2. r.state = "DATA_WAIT" /\ ~r.release_oe /\ ~r.data_release
  BY DEF Consistent, DataStates
<1>3. CASE s.tea
  <2>1. n = [r EXCEPT !.state = "DATA_RELEASE", !.data_release = TRUE, !.err = TRUE]
    BY <1>3 DEF WritePhase, Release
  <2>2. /\ n \in RegisterSet /\ n.state = "DATA_RELEASE" /\ n.ask = r.ask /\ n.slot = r.slot
        /\ n.part = r.part /\ n.rsp = r.rsp /\ n.err
        /\ n.data_release /\ n.release_oe = r.release_oe /\ n.addr_release = r.addr_release
    BY <2>1 DEF RegisterSet, States
  <2>3. Consistent(m, n)
    BY <1>2, <2>2 DEF Consistent, HasSlot, AddressStates, BeforeData, DataStates
  <2>4. Counted(m, n) /\ LetsGo(r, n)
    BY <1>2, <2>2 DEF Counted, LetsGo, Abb, Dbb, Consistent, DataStates, AddressStates
  <2>5. WriteMove(m, r, n, s)
    BY <1>3, <2>2 DEF WriteMove, Fails
  <2>6. QED BY <2>2, <2>3, <2>4, <2>5 DEF Good
<1>7. CASE ~s.tea /\ s.ta /\ r.beat = LastBeat(m)
  <2>1. n = [r EXCEPT !.state = "DATA_RELEASE", !.data_release = TRUE]
    BY <1>7 DEF WritePhase
  <2>2. /\ n \in RegisterSet /\ n.state = "DATA_RELEASE" /\ n.ask = r.ask /\ n.slot = r.slot
        /\ n.part = r.part /\ n.rsp = r.rsp /\ n.err = r.err
        /\ n.data_release /\ n.release_oe = r.release_oe /\ n.addr_release = r.addr_release
    BY <2>1 DEF RegisterSet, States
  <2>3. Consistent(m, n)
    BY <1>2, <2>2 DEF Consistent, HasSlot, AddressStates, BeforeData, DataStates
  <2>4. Counted(m, n) /\ LetsGo(r, n)
    BY <1>2, <2>2 DEF Counted, LetsGo, Abb, Dbb, Consistent, DataStates, AddressStates
  <2>5. WriteMove(m, r, n, s)
    BY <1>7, <2>2 DEF WriteMove, Goes
  <2>6. QED BY <2>2, <2>3, <2>4, <2>5 DEF Good
<1>4. CASE ~s.tea /\ ~s.ta
  <2>1. n = r
    BY <1>4 DEF WritePhase
  <2>2. LetsGo(r, n)
    BY <1>2, <2>1 DEF LetsGo, Abb, Dbb, AddressStates
  <2>3. WriteMove(m, r, n, s)
    BY <1>4, <2>1 DEF WriteMove, Goes
  <2>4. QED BY <2>1, <2>2, <2>3 DEF Good
<1>5. CASE ~s.tea /\ s.ta /\ r.beat # LastBeat(m)
  <2>1. r.beat + 1 \in 0 .. BEATS - 1 /\ r.beat + 1 <= LastBeat(m)
    BY <1>1, <1>5, BiuAssumption
  <2>2. n = [r EXCEPT !.beat = r.beat + 1]
    BY <1>5 DEF WritePhase
  <2>3. /\ n \in RegisterSet /\ n.state = r.state /\ n.ask = r.ask /\ n.slot = r.slot
        /\ n.part = r.part /\ n.rsp = r.rsp /\ n.err = r.err /\ n.beat = r.beat + 1
        /\ n.data_release = r.data_release /\ n.release_oe = r.release_oe
        /\ n.addr_release = r.addr_release
    BY <2>1, <2>2 DEF RegisterSet
  <2>4. Consistent(m, n)
    BY <1>2, <2>3 DEF Consistent, HasSlot, AddressStates, BeforeData, DataStates
  <2>5. Counted(m, n) /\ LetsGo(r, n)
    BY <1>2, <2>1, <2>3 DEF Counted, LetsGo, Abb, Dbb, AddressStates, DataStates
  <2>6. WriteMove(m, r, n, s)
    BY <1>5, <2>3 DEF WriteMove, Goes
  <2>7. QED BY <2>3, <2>4, <2>5, <2>6 DEF Good
<1>6. QED BY <1>3, <1>4, <1>5, <1>7

\* The release of DBB, and the end of an access.
LEMMA EndStep ==
  ASSUME NEW m \in Masters, NEW r \in RegisterSet, Consistent(m, r), r.state = "DATA_RELEASE",
         NEW n, n = End(m, [r EXCEPT !.data_release = FALSE], r.err)
  PROVE  Good(m, r, n) /\ Ends(m, r, n, IF r.err THEN "error" ELSE "ok") /\ n.got = r.got
<1>1. ~r.release_oe /\ ~r.addr_release
  BY DEF Consistent
<1>2. CASE HasSlot(m)
  <2>0. n = [[r EXCEPT !.data_release = FALSE] EXCEPT !.state = "FINISH", !.err = r.err]
    BY <1>2 DEF End
  <2>1. n = [r EXCEPT !.data_release = FALSE, !.state = "FINISH"]
    BY <2>0 DEF RegisterSet
  <2>7. n \in RegisterSet
    BY <2>1 DEF RegisterSet, States
  <2>2. /\ n.state = "FINISH" /\ (n.err <=> r.err)
        /\ n.ask = r.ask /\ n.slot = r.slot /\ n.part = r.part /\ n.rsp = r.rsp /\ n.got = r.got
        /\ ~n.data_release /\ n.release_oe = r.release_oe /\ n.addr_release = r.addr_release
    BY <2>1 DEF RegisterSet
  <2>3. Consistent(m, n)
    BY <1>1, <1>2, <2>2 DEF Consistent, HasSlot, AddressStates, BeforeData, DataStates
  <2>4. Counted(m, n) /\ LetsGo(r, n)
    BY <1>1, <2>2 DEF Counted, LetsGo, Abb, Dbb, Consistent, DataStates, AddressStates
  <2>5. Ends(m, r, n, IF r.err THEN "error" ELSE "ok")
    BY <1>2, <2>2 DEF Ends
  <2>6. QED BY <2>7, <2>2, <2>3, <2>4, <2>5 DEF Good
<1>3. CASE ~HasSlot(m)
  <2>1. n = [r EXCEPT !.data_release = FALSE, !.state = "IDLE",
                      !.rsp = IF r.err THEN "error" ELSE "ok"]
    BY <1>3 DEF End
  <2>2. /\ n \in RegisterSet /\ n.state = "IDLE" /\ n.rsp = (IF r.err THEN "error" ELSE "ok")
        /\ n.ask = r.ask /\ n.slot = r.slot /\ n.part = r.part /\ n.err = r.err /\ n.got = r.got
        /\ ~n.data_release /\ n.release_oe = r.release_oe /\ n.addr_release = r.addr_release
    BY <2>1 DEF RegisterSet, States
  <2>3. Consistent(m, n)
    BY <1>1, <1>3, <2>2 DEF Consistent, AddressStates, BeforeData, DataStates
  <2>4. Counted(m, n) /\ LetsGo(r, n)
    BY <1>1, <2>2 DEF Counted, LetsGo, Abb, Dbb, Consistent, DataStates, AddressStates
  <2>5. Ends(m, r, n, IF r.err THEN "error" ELSE "ok")
    BY <1>3, <2>2 DEF Ends
  <2>6. QED BY <2>2, <2>3, <2>4, <2>5 DEF Good
<1>4. QED BY <1>2, <1>3

\* FINISH: the second half of a split single, or the response.
LEMMA FinishStep ==
  ASSUME NEW m \in Masters, NEW r \in RegisterSet, Consistent(m, r), r.state = "FINISH",
         NEW n, n = Finish(r)
  PROVE  Good(m, r, n) /\ FinishMove(r, n)
<1>1. HasSlot(m) /\ r.slot /\ ~r.release_oe /\ ~r.data_release /\ ~r.addr_release /\ r.rsp = None
  BY DEF Consistent
<1>2. CASE r.ask = "split" /\ r.part = 0 /\ ~r.err
  <2>1. n = [r EXCEPT !.state = "IDLE", !.part = 1]
    BY <1>2 DEF Finish
  <2>9. 1 \in 0 .. 1 /\ "IDLE" \in States
    BY DEF States
  <2>7. n \in RegisterSet
    BY <2>1, <2>9, Zenon DEF RegisterSet
  <2>8. n.part = 1
    BY <2>1 DEF RegisterSet
  <2>2. /\ n.state = "IDLE" /\ n.err = r.err
        /\ n.ask = r.ask /\ n.slot = r.slot /\ n.rsp = r.rsp /\ n.got = r.got
        /\ n.data_release = r.data_release /\ n.release_oe = r.release_oe
        /\ n.addr_release = r.addr_release
    BY <2>1 DEF RegisterSet, States
  <2>3. Consistent(m, n)
    BY <1>1, <1>2, <2>2, <2>8 DEF Consistent, HasSlot, AddressStates, BeforeData, DataStates
  <2>4. Counted(m, n) /\ LetsGo(r, n)
    BY <1>1, <2>2 DEF Counted, LetsGo, Abb, Dbb, DataStates, AddressStates
  <2>5. FinishMove(r, n)
    BY <1>2, <2>2, <2>8 DEF FinishMove
  <2>6. QED BY <2>7, <2>2, <2>3, <2>4, <2>5 DEF Good
<1>3. CASE ~(r.ask = "split" /\ r.part = 0 /\ ~r.err)
  <2>1. n = [r EXCEPT !.state = "IDLE", !.slot = FALSE, !.rsp = IF r.err THEN "error" ELSE "ok"]
    BY <1>3 DEF Finish
  <2>2. /\ n \in RegisterSet /\ n.state = "IDLE" /\ n.part = r.part /\ n.err = r.err
        /\ n.ask = r.ask /\ ~n.slot /\ n.rsp = (IF r.err THEN "error" ELSE "ok") /\ n.got = r.got
        /\ n.data_release = r.data_release /\ n.release_oe = r.release_oe
        /\ n.addr_release = r.addr_release
    BY <2>1 DEF RegisterSet, States
  <2>3. Consistent(m, n)
    BY <1>1, <2>2 DEF Consistent, HasSlot, AddressStates, BeforeData, DataStates
  <2>4. Counted(m, n) /\ LetsGo(r, n)
    BY <1>1, <2>2 DEF Counted, LetsGo, Abb, Dbb, DataStates, AddressStates
  <2>5. FinishMove(r, n)
    BY <1>3, <2>2 DEF FinishMove
  <2>6. QED BY <2>2, <2>3, <2>4, <2>5 DEF Good
<1>4. QED BY <1>2, <1>3

\* The same but for what no other register looks at.
Alike(a, b) ==
  /\ a.state = b.state /\ a.ask = b.ask /\ a.slot = b.slot /\ a.part = b.part /\ a.beat = b.beat
  /\ a.got = b.got /\ a.err = b.err /\ a.rsp = b.rsp /\ a.addr_release = b.addr_release
  /\ a.data_release = b.data_release /\ a.final_release = b.final_release
  /\ a.release_oe = b.release_oe

\* Nothing of that depends on the doubleword a TA captures.
LEMMA AlikeIsGood ==
  ASSUME NEW m \in Masters, NEW r, NEW r0, Alike(r, r0), NEW q, NEW n \in RegisterSet, Alike(q, n),
         Good(m, r, q)
  PROVE  Good(m, r0, n)
<1>1. Consistent(m, n)
  BY DEF Good, Consistent, Alike
<1>2. Counted(m, n)
  BY DEF Good, Counted, Alike
<1>3. LetsGo(r0, n)
  BY DEF Good, LetsGo, Abb, Dbb, Alike
<1>4. QED BY <1>1, <1>2, <1>3 DEF Good

\* Nor does the move.
LEMMA AlikeMoves ==
  ASSUME NEW m \in Masters, NEW s, NEW r, NEW r0, Alike(r, r0), r.provisional = r0.provisional,
         NEW q, NEW n, Alike(q, n), Move(m, r, q, s)
  PROVE  Move(m, r0, n, s)
<1> DEFINE st == r.state
<1>1. \A into : Goes(r, q, into) => Goes(r0, n, into)
  BY DEF Goes, Alike
<1>2. \A rsp : Ends(m, r, q, rsp) => Ends(m, r0, n, rsp)
  BY DEF Ends, Alike
<1>3. Fails(r, q) => Fails(r0, n)
  BY DEF Fails, Alike
<1>4. Fills(m, r, q) => Fills(m, r0, n)
  BY DEF Fills, Alike
<1>5. ReadMove(m, r, q, s) => ReadMove(m, r0, n, s)
  BY <1>1, <1>2, <1>3, <1>4 DEF ReadMove, BreaksOff, Alike
<1>6. WriteMove(m, r, q, s) => WriteMove(m, r0, n, s)
  BY <1>1, <1>3 DEF WriteMove, Alike
<1>7. AddressMove(m, r, q, s) => AddressMove(m, r0, n, s)
  BY <1>1, <1>2 DEF AddressMove, Alike
<1>8. FinishMove(r, q) => FinishMove(r0, n)
  BY DEF FinishMove, Alike
<1>9. IdleMove(r, q) => IdleMove(r0, n)
  BY DEF IdleMove, Alike
<1>10. r0.state = r.state /\ r0.ask = r.ask /\ r0.err = r.err /\ r0.got = r.got /\ r0.beat = r.beat
       /\ q.got = n.got /\ q.beat = n.beat
  BY DEF Alike
<1>11. QED
  BY <1>2, <1>5, <1>6, <1>7, <1>8, <1>9, <1>10 DEF Move

\* A client asks for what its master can do.
Wants(m) == wants[m] \in MayAsk(m) \cup {None}

\* A client asks for something.
LEMMA KindsOf ==
  ASSUME NEW m \in Masters
  PROVE  MayAsk(m) \subseteq Kinds \ {None}
BY DEF MayAsk, Kinds, ReadAsks, Masters, Outer, None

\* An idle master.
LEMMA IdleStep ==
  ASSUME NEW m \in Masters, NEW s \in SeenSet, NEW rsp_ready \in BOOLEAN, Master(m, M[m]),
         Wants(m), M[m].state = "IDLE", NEW n, n = Step(m, s, rsp_ready)
  PROVE  Good(m, M[m], n) /\ IdleMove(M[m], n)
<1> DEFINE gone == M[m].rsp # None /\ (HasSlot(m) \/ rsp_ready)
           kept == [(IF gone THEN Registers ELSE M[m]) EXCEPT !.idle = ~busy(m)]
           asked == [Registers EXCEPT !.ask = wants[m], !.idle = ~busy(m), !.slot = HasSlot(m)]
           taken == IF Takes(m) THEN asked ELSE kept
           r == IF Takes(m) /\ HasSlot(m) THEN taken ELSE Phase(m, taken, s)
<1>1. n = [r EXCEPT !.provisional = IF s.ta THEN s.d ELSE @]
  BY DEF Step
<1>2. s.d \in Int /\ s.ta \in BOOLEAN /\ busy(m) \in BOOLEAN
  BY DEF SeenSet, busy
<1>3. /\ Registers \in RegisterSet /\ Registers.state = "IDLE" /\ Registers.part = 0
      /\ Registers.rsp = None /\ Registers.ask = None
      /\ ~Registers.slot /\ ~Registers.err /\ ~Registers.addr_release
      /\ ~Registers.data_release /\ ~Registers.release_oe /\ Registers.beat = 0
  BY BiuAssumption DEF Registers, RegisterSet, States, Kinds, Stale, None
<1>4. CASE Takes(m)
  <2>1. wants[m] \in MayAsk(m) /\ wants[m] # None /\ wants[m] \in Kinds
    BY <1>4, KindsOf DEF Takes, Wants
  <2>2. /\ asked \in RegisterSet /\ asked.state = "IDLE" /\ asked.part = 0 /\ asked.rsp = None
        /\ asked.ask = wants[m] /\ (asked.slot <=> HasSlot(m)) /\ ~asked.err
        /\ ~asked.addr_release /\ ~asked.data_release /\ ~asked.release_oe /\ asked.beat = 0
    <3>1. HasSlot(m) \in BOOLEAN
      BY DEF HasSlot
    <3>2. QED BY <1>2, <1>3, <2>1, <3>1 DEF RegisterSet
  <2> HIDE DEF asked
  <2>3. CASE HasSlot(m)
    <3>1. n = [asked EXCEPT !.provisional = IF s.ta THEN s.d ELSE @]
      BY <1>1, <1>4, <2>3
    <3> DEFINE d == IF s.ta THEN s.d ELSE asked.provisional
    <3>2. n = [asked EXCEPT !.provisional = d] /\ d \in Int
      BY <1>2, <2>2, <3>1 DEF RegisterSet
    <3> HIDE DEF d
    <3>3. n \in RegisterSet /\ Alike(asked, n)
      BY <2>2, <3>2 DEF RegisterSet, Alike
    <3>4. Consistent(m, n) /\ Counted(m, n)
      BY <2>1, <2>2, <2>3, <3>3 DEF Consistent, Counted, Alike, DataStates, BeforeData, AddressStates
    <3>5. LetsGo(M[m], n) /\ IdleMove(M[m], n)
      BY <2>2, <3>3 DEF LetsGo, Abb, Dbb, AddressStates, IdleMove, Alike
    <3>6. QED BY <3>3, <3>4, <3>5 DEF Good
  <2>4. CASE ~HasSlot(m)
    <3> DEFINE go == [asked EXCEPT !.state = "ADDR_REQUEST"]
    <3>1. Phase(m, asked, s) = go
      BY <1>4, <2>2, <2>4 DEF Phase, IdlePhase
    <3>2. n = [go EXCEPT !.provisional = IF s.ta THEN s.d ELSE @]
      BY <1>1, <1>4, <2>4, <3>1
    <3>3. /\ go \in RegisterSet /\ go.state = "ADDR_REQUEST" /\ go.part = 0 /\ go.rsp = None
          /\ go.ask = wants[m] /\ ~go.slot /\ ~go.err
          /\ ~go.addr_release /\ ~go.data_release /\ ~go.release_oe /\ go.beat = 0
      BY <2>2, <2>4 DEF RegisterSet, States, BeforeData
    <3> HIDE DEF go
    <3> DEFINE d == IF s.ta THEN s.d ELSE go.provisional
    <3>4. n = [go EXCEPT !.provisional = d] /\ d \in Int
      BY <1>2, <3>2, <3>3 DEF RegisterSet
    <3> HIDE DEF d
    <3>5. n \in RegisterSet /\ Alike(go, n)
      BY <3>3, <3>4 DEF RegisterSet, Alike
    <3>6. Consistent(m, n) /\ Counted(m, n)
      BY <2>1, <2>4, <3>3, <3>5 DEF Consistent, Counted, Alike, DataStates, BeforeData, AddressStates
    <3>7. LetsGo(M[m], n) /\ IdleMove(M[m], n)
      BY <3>3, <3>5 DEF LetsGo, Abb, Dbb, AddressStates, IdleMove, Alike
    <3>8. QED BY <3>5, <3>6, <3>7 DEF Good
  <2>5. QED BY <2>3, <2>4
<1>5. CASE ~Takes(m) /\ ~gone
  <2>1. kept = [M[m] EXCEPT !.idle = ~busy(m)]
    BY <1>5
  <2>2. kept \in RegisterSet /\ Alike(kept, M[m])
    BY <1>2, <2>1 DEF Master, RegisterSet, Alike
  <2>3. n = [Phase(m, kept, s) EXCEPT !.provisional = IF s.ta THEN s.d ELSE @]
    BY <1>1, <1>5
  <2> HIDE DEF kept
  <2>4. CASE HasSlot(m) /\ kept.slot /\ (m = "cache" => ~push_hold /\ ~busy("push"))
    <3> DEFINE go == [kept EXCEPT !.state = "ADDR_REQUEST", !.beat = 0, !.err = FALSE,
                                  !.final_release = FALSE, !.release_oe = FALSE]
    <3>1. Phase(m, kept, s) = go
      BY <2>2, <2>4 DEF Phase, IdlePhase, Alike
    <3>11. 0 \in 0 .. BEATS - 1 /\ "ADDR_REQUEST" \in States
      BY BiuAssumption DEF States, BeforeData
    <3>9. go \in RegisterSet
      BY <2>2, <3>11, Zenon DEF RegisterSet
    <3>2. /\ go.state = "ADDR_REQUEST" /\ go.part = kept.part
          /\ go.rsp = kept.rsp /\ go.ask = kept.ask /\ go.slot = kept.slot /\ ~go.err
          /\ go.addr_release = kept.addr_release /\ go.data_release = kept.data_release
          /\ ~go.release_oe /\ go.beat = 0 /\ go.got = kept.got
      BY <2>2 DEF RegisterSet
    <3>3. n = [go EXCEPT !.provisional = IF s.ta THEN s.d ELSE @]
      BY <2>3, <3>1
    <3> HIDE DEF go
    <3> DEFINE d == IF s.ta THEN s.d ELSE go.provisional
    <3>4. n = [go EXCEPT !.provisional = d] /\ d \in Int
      BY <1>2, <3>3, <3>9 DEF RegisterSet
    <3> HIDE DEF d
    <3>5. n \in RegisterSet /\ Alike(go, n)
      BY <3>4, <3>9 DEF RegisterSet, Alike
    <3>10. /\ kept.ask \in MayAsk(m) /\ kept.ask # None /\ kept.rsp = None /\ HasSlot(m)
           /\ kept.part = 1 => kept.ask = "split"
           /\ ~kept.addr_release /\ ~kept.data_release
      BY <2>2, <2>4 DEF Master, Consistent, Alike
    <3>6. Consistent(m, n) /\ Counted(m, n)
      BY <2>4, <3>2, <3>5, <3>10 DEF Consistent, Counted, Alike, DataStates, BeforeData, AddressStates
    <3>7. LetsGo(M[m], n) /\ IdleMove(M[m], n)
      BY <2>2, <2>4, <3>2, <3>5 DEF LetsGo, Abb, Dbb, AddressStates, IdleMove, Alike
    <3>8. QED BY <3>5, <3>6, <3>7 DEF Good
  <2>5. CASE ~(HasSlot(m) /\ kept.slot /\ (m = "cache" => ~push_hold /\ ~busy("push")))
    <3>1. Phase(m, kept, s) = kept
      BY <1>5, <2>2, <2>5 DEF Phase, IdlePhase, Alike
    <3> DEFINE d == IF s.ta THEN s.d ELSE kept.provisional
    <3>2. n = [kept EXCEPT !.provisional = d] /\ d \in Int
      BY <1>2, <2>2, <2>3, <3>1 DEF RegisterSet
    <3> HIDE DEF d
    <3>3. n \in RegisterSet /\ Alike(kept, n)
      BY <2>2, <3>2 DEF RegisterSet, Alike
    <3>4. Consistent(m, n) /\ Counted(m, n)
      BY <2>2, <3>3 DEF Master, Consistent, Counted, Alike, DataStates, BeforeData, AddressStates
    <3>5. LetsGo(M[m], n) /\ IdleMove(M[m], n)
      BY <2>2, <3>3 DEF LetsGo, Abb, Dbb, AddressStates, IdleMove, Alike
    <3>6. QED BY <3>3, <3>4, <3>5 DEF Good
  <2>6. QED BY <2>4, <2>5
<1>6. CASE ~Takes(m) /\ gone
  <2>1. kept = [Registers EXCEPT !.idle = ~busy(m)]
    BY <1>6
  <2>2. kept \in RegisterSet /\ Alike(kept, Registers)
    BY <1>2, <1>3, <2>1 DEF RegisterSet, Alike
  <2>3. n = [Phase(m, kept, s) EXCEPT !.provisional = IF s.ta THEN s.d ELSE @]
    BY <1>1, <1>6
  <2> HIDE DEF kept
  <2>4. Phase(m, kept, s) = kept
    BY <1>3, <1>6, <2>2 DEF Phase, IdlePhase, Alike
  <2> DEFINE d == IF s.ta THEN s.d ELSE kept.provisional
  <2>5. n = [kept EXCEPT !.provisional = d] /\ d \in Int
    BY <1>2, <2>2, <2>3, <2>4 DEF RegisterSet
  <2> HIDE DEF d
  <2>6. n \in RegisterSet /\ Alike(kept, n)
    BY <2>2, <2>5 DEF RegisterSet, Alike
  <2>7. Consistent(m, n) /\ Counted(m, n)
    BY <1>3, <2>2, <2>6 DEF Consistent, Counted, Alike, DataStates, BeforeData, AddressStates
  <2>8. LetsGo(M[m], n) /\ IdleMove(M[m], n)
    BY <1>3, <2>2, <2>6 DEF LetsGo, Abb, Dbb, AddressStates, IdleMove, Alike
  <2>9. QED BY <2>6, <2>7, <2>8 DEF Good
<1>7. QED BY <1>4, <1>5, <1>6

\* A doubleword has a place in the line.
LEMMA SlotRange ==
  ASSUME NEW m \in Masters, NEW beat \in 0 .. LastBeat(m), M[m].part \in 0 .. 1,
         M[m].part = 1 => M[m].ask = "split"
  PROVE  Slot(m, beat) \in 0 .. BEATS - 1
<1>1. LastBeat(m) \in 0 .. BEATS - 1 /\ BEATS \in Nat /\ BEATS >= 2
  BY LastBeatRange, BiuAssumption
<1>2. beat \in 0 .. BEATS - 1
  BY <1>1
<1>3. CASE M[m].ask = "wrap"
  BY <1>1, <1>2, <1>3, WrappedBeat DEF Slot
<1>4. CASE M[m].ask # "wrap" /\ M[m].part = 0
  BY <1>1, <1>2, <1>4 DEF Slot
<1>5. CASE M[m].part = 1
  BY <1>1, <1>2, <1>5, LastBeatRange DEF Slot
<1>6. QED BY <1>3, <1>4, <1>5

\* An edge, for one master.
LEMMA MasterStep ==
  ASSUME NEW m \in Masters, NEW s \in SeenSet, NEW rsp_ready \in BOOLEAN, Master(m, M[m]),
         Wants(m), NEW n, n = Step(m, s, rsp_ready)
  PROVE  Good(m, M[m], n) /\ Move(m, M[m], n, s) /\ (n.state = "CONFIRM" => n.provisional = s.d)
<1>1. M[m] \in RegisterSet /\ Consistent(m, M[m]) /\ Counted(m, M[m])
  BY DEF Master
<1>2. s.d \in Int /\ s.ta \in BOOLEAN
  BY DEF SeenSet
<1>3. CASE M[m].state = "IDLE"
  <2>1. Good(m, M[m], n) /\ IdleMove(M[m], n)
    BY <1>3, IdleStep
  <2>2. Move(m, M[m], n, s)
    BY <1>3, <2>1 DEF Move, BeforeData, AddressStates, DataStates
  <2>3. n.state # "CONFIRM"
    BY <1>3, <2>1 DEF IdleMove
  <2>4. QED BY <2>1, <2>2, <2>3
<1>4. CASE M[m].state # "IDLE"
  <2> DEFINE r == [M[m] EXCEPT !.idle = FALSE]
             q == Phase(m, r, s)
  <2>1. n = [q EXCEPT !.provisional = IF s.ta THEN s.d ELSE @]
    BY <1>4, BusyStep
  <2>2. r \in RegisterSet /\ Alike(r, M[m]) /\ r.provisional = M[m].provisional
    BY <1>1 DEF RegisterSet, Alike
  <2>3. Consistent(m, r) /\ Counted(m, r)
    BY <1>1, <2>2 DEF Consistent, Counted, Alike
  <2> HIDE DEF r
  <2>4. Good(m, r, q) /\ Move(m, r, q, s)
    <3>1. CASE r.state \in BeforeData
      <4>1. q = AddressPhase(m, r, s)
        BY <3>1 DEF Phase, BeforeData, AddressStates
      <4>2. q \in RegisterSet /\ Consistent(m, q) /\ AddressMove(m, r, q, s) /\ q.got = r.got
            /\ q.beat = r.beat /\ LetsGo(r, q)
        BY <2>2, <2>3, <3>1, <4>1, AddressStep
      <4>3. q.state \notin DataStates \/ (q.state = "DATA_WAIT" /\ q.beat = 0)
        BY <2>3, <3>1, <4>2 DEF AddressMove, Goes, Ends, Consistent, BeforeData, AddressStates, DataStates
      <4>4. Counted(m, q)
        BY <4>3, LastBeatRange DEF Counted
      <4>5. Move(m, r, q, s)
        BY <3>1, <4>2 DEF Move, BeforeData, AddressStates, DataStates
      <4>6. QED BY <4>2, <4>4, <4>5 DEF Good
    <3>2. CASE r.state \in DataStates /\ r.ask \in ReadAsks
      <4>1. q = ReadPhase(m, r, s)
        BY <2>2, <3>2 DEF Phase, DataStates, Reads, ReadAsks, Alike
      <4>2. Slot(m, r.beat) \in 0 .. BEATS - 1
        <5>1. r.beat \in 0 .. LastBeat(m)
          BY <2>2, <2>3, <3>2, LastBeatRange, BiuAssumption DEF RegisterSet, Counted
        <5>2. M[m].part \in 0 .. 1 /\ (M[m].part = 1 => M[m].ask = "split")
          BY <1>1 DEF RegisterSet, Consistent
        <5>3. QED BY <5>1, <5>2, SlotRange
      <4>3. Good(m, r, q) /\ ReadMove(m, r, q, s)
        BY <2>2, <2>3, <3>2, <4>1, <4>2, ReadStep
      <4>4. QED BY <3>2, <4>3 DEF Move, BeforeData, AddressStates, DataStates
    <3>3. CASE r.state \in DataStates /\ r.ask \notin ReadAsks
      <4>1. q = WritePhase(m, r, s)
        BY <2>2, <3>3 DEF Phase, DataStates, Reads, ReadAsks, Alike
      <4>2. Good(m, r, q) /\ WriteMove(m, r, q, s)
        BY <2>2, <2>3, <3>3, <4>1, WriteStep
      <4>3. QED BY <3>3, <4>2 DEF Move, BeforeData, AddressStates, DataStates
    <3>4. CASE r.state = "DATA_RELEASE"
      <4>1. q = End(m, [r EXCEPT !.data_release = FALSE], r.err)
        BY <3>4 DEF Phase
      <4>2. Good(m, r, q) /\ Ends(m, r, q, IF r.err THEN "error" ELSE "ok") /\ q.got = r.got
        BY <2>2, <2>3, <3>4, <4>1, EndStep
      <4>3. QED BY <3>4, <4>2 DEF Move, BeforeData, AddressStates, DataStates
    <3>5. CASE r.state = "FINISH"
      <4>1. q = Finish(r)
        BY <3>5 DEF Phase
      <4>2. Good(m, r, q) /\ FinishMove(r, q)
        BY <2>2, <2>3, <3>5, <4>1, FinishStep
      <4>3. QED BY <3>5, <4>2 DEF Move, BeforeData, AddressStates, DataStates
    <3>6. r.state \in States /\ r.state # "IDLE"
      BY <1>4, <2>2 DEF RegisterSet, Alike
    <3>7. QED BY <3>1, <3>2, <3>3, <3>4, <3>5, <3>6 DEF States
  <2> HIDE DEF q
  <2>5. n \in RegisterSet /\ Alike(q, n) /\ (s.ta => n.provisional = s.d)
    <3> DEFINE d == IF s.ta THEN s.d ELSE q.provisional
    <3>1. n = [q EXCEPT !.provisional = d] /\ d \in Int /\ (s.ta => d = s.d) /\ q \in RegisterSet
      BY <1>2, <2>1, <2>4 DEF Good, RegisterSet
    <3> HIDE DEF d
    <3>2. QED BY <3>1 DEF RegisterSet, Alike
  <2>6. Good(m, M[m], n)
    BY <2>2, <2>4, <2>5, AlikeIsGood
  <2>7. Move(m, M[m], n, s)
    BY <2>2, <2>4, <2>5, AlikeMoves
  <2>8. n.state = "CONFIRM" => s.ta
    <3>1. M[m].state \in DataStates => M[m].state = "DATA_WAIT" \/ M[m].state = "CONFIRM" \/ M[m].state = "REPLACEMENT"
      BY DEF DataStates
    <3>2. M[m].ask \in ReadAsks /\ M[m].state \in DataStates => (n.state = "CONFIRM" => s.ta)
      BY <2>7, <3>1 DEF Move, ReadMove, BreaksOff, Goes, Ends, Fails
    <3>3. M[m].ask \notin ReadAsks /\ M[m].state \in DataStates => n.state # "CONFIRM"
      BY <1>1, <2>7 DEF Move, WriteMove, Goes, Ends, Fails, Consistent, DataStates
    <3>4. M[m].state \notin DataStates => n.state # "CONFIRM"
      BY <1>1, <1>4, <2>7 DEF Move, AddressMove, FinishMove, Goes, Ends, RegisterSet, States, BeforeData, AddressStates
    <3>5. QED BY <3>2, <3>3, <3>4
  <2>9. QED BY <2>5, <2>6, <2>7, <2>8
<1>5. QED BY <1>3, <1>4

-----------------------------------------------------------------------------
(* The unit: types, and what every edge is for every master.               *)

PinSet == [bg : BOOLEAN, aack : BOOLEAN, artry : BOOLEAN, snoop : BOOLEAN, dbg : BOOLEAN,
           dbwo : BOOLEAN, ta : BOOLEAN, drtry : BOOLEAN, tea : BOOLEAN, d : Int]

TargetSet == [m : Masters \cup {None}, beat : Nat, cand : {"none", "good", "bad", "owed"}]

BiuTypes ==
  /\ M \in [Masters -> RegisterSet] /\ wants \in [Masters -> Kinds]
  /\ \A m \in Masters : Master(m, M[m]) /\ Wants(m)
  /\ inner \in {None, "scalar", "line"} /\ outer \in {None, "group", "cache"}
  /\ push_hold \in BOOLEAN /\ aack_q \in BOOLEAN /\ artry_block_q \in BOOLEAN
  /\ outer_owed \in BOOLEAN /\ outer_aack_q \in BOOLEAN /\ outer_dbb_q \in BOOLEAN
  /\ pe_owed \in BOOLEAN /\ pe_aack_q \in BOOLEAN /\ protocol_error \in BOOLEAN
  /\ outer_tt \in [data : BOOLEAN, read : BOOLEAN]
  /\ due \in Seq(Masters) /\ target \in TargetSet

\* The pins are signals and a doubleword.
LEMMA PinsTyped ==
  ASSUME BiuTypes, NEW a \in AddressPins, NEW d \in DataPins
  PROVE  Pins(a, d) \in PinSet
<1>1. /\ a.bg \in BOOLEAN /\ a.aack \in BOOLEAN /\ a.artry \in BOOLEAN /\ a.snoop \in BOOLEAN
      /\ d.dbg \in BOOLEAN /\ d.dbwo \in BOOLEAN /\ d.ta \in BOOLEAN /\ d.drtry \in BOOLEAN
      /\ d.tea \in BOOLEAN
  BY DEF AddressPins, DataPins, Maybe
<1>2. Doubleword(d) \in Int
  <2>1. CASE target.m = None \/ d.wrong
    BY <2>1 DEF Doubleword, Open, Bad, Stale
  <2>2. CASE target.m # None
    <3>1. target.beat \in Int /\ M[target.m].part \in Int
      BY <2>2 DEF BiuTypes, TargetSet, RegisterSet
    <3>2. QED BY <3>1 DEF Doubleword, Bad, Stale
  <2>3. QED BY <2>1, <2>2
<1>3. QED BY <1>1, <1>2 DEF Pins, PinSet

\* What a master sees are signals and a doubleword.
LEMMA SeenTyped ==
  ASSUME NEW m \in Masters, NEW p \in PinSet
  PROVE  Seen(m, p) \in SeenSet
<1>1. PushPins(p) \in SeenSet
  BY DEF PushPins, PinSet, SeenSet
<1>2. OuterPins(p) \in SeenSet
  BY DEF OuterPins, PinSet, SeenSet
<1>3. Negated \in SeenSet
  BY DEF Negated, SeenSet, Bad
<1>4. QED BY <1>1, <1>2, <1>3 DEF Seen

\* What an edge makes of master m.
Edged(m, p) ==
  /\ Good(m, M[m], M'[m]) /\ Move(m, M[m], M'[m], Seen(m, p))
  /\ M'[m].state = "CONFIRM" => M'[m].provisional = Seen(m, p).d

\* An access keeps its kind until its response is taken.
LEMMA AskKept ==
  ASSUME NEW m \in Masters, NEW r \in RegisterSet, NEW n, NEW s, Move(m, r, n, s), r.state # "IDLE"
  PROVE  n.ask = r.ask
BY DEF Move, AddressMove, ReadMove, BreaksOff, WriteMove, FinishMove, Goes, Ends, Fails,
       RegisterSet, States, BeforeData, AddressStates, DataStates

\* Every master makes its move at an edge (ppc_bus60x*.sv, the clocked blocks).
LEMMA EdgeMasters ==
  ASSUME BiuTypes, NEW p \in PinSet, NEW rsp_ready \in BOOLEAN, Edge(p, rsp_ready)
  PROVE  /\ \A m \in Masters : Edged(m, p)
         /\ M' \in [Masters -> RegisterSet] /\ wants' \in [Masters -> Kinds]
         /\ \A m \in Masters : Master(m, M[m])' /\ Wants(m)'
<1>1. ASSUME NEW m \in Masters
      PROVE  Edged(m, p) /\ M'[m] \in RegisterSet
  <2>1. M'[m] = Step(m, Seen(m, p), rsp_ready)
    BY DEF Edge
  <2>2. Seen(m, p) \in SeenSet
    BY SeenTyped
  <2>3. Master(m, M[m]) /\ Wants(m)
    BY DEF BiuTypes
  <2>4. /\ Good(m, M[m], M'[m]) /\ Move(m, M[m], M'[m], Seen(m, p))
        /\ M'[m].state = "CONFIRM" => M'[m].provisional = Seen(m, p).d
    BY <2>1, <2>2, <2>3, MasterStep
  <2>5. QED BY <2>4 DEF Edged, Good
<1>2. M' \in [Masters -> RegisterSet]
  BY <1>1 DEF Edge
<1>3. wants' = [m \in Masters |-> IF Takes(m) THEN None ELSE wants[m]]
  BY DEF Edge
<1>4. wants' \in [Masters -> Kinds]
  BY <1>3 DEF BiuTypes, Kinds
<1>5. ASSUME NEW m \in Masters
      PROVE  Master(m, M[m])' /\ Wants(m)'
  <2>1. wants'[m] \in MayAsk(m) \cup {None}
    BY <1>3 DEF BiuTypes, Wants
  <2>2. Good(m, M[m], M'[m]) /\ Move(m, M[m], M'[m], Seen(m, p)) /\ M[m] \in RegisterSet
    BY <1>1 DEF Edged, BiuTypes
  <2>3. Counted(m, M[m])'
    <3>1. CASE M'[m].state \in DataStates
      <4>1. M[m].state # "IDLE"
        BY <2>2, <3>1 DEF Move, IdleMove, DataStates
      <4>2. M'[m].ask = M[m].ask
        BY <2>2, <4>1, AskKept
      <4>3. LastBeat(m)' = LastBeat(m)
        BY <4>2 DEF LastBeat
      <4>4. QED BY <2>2, <4>3 DEF Good, Counted
    <3>2. CASE M'[m].state \notin DataStates
      BY <3>2 DEF Counted
    <3>3. QED BY <3>1, <3>2
  <2>4. QED BY <1>1, <2>1, <2>2, <2>3 DEF Master, Good, Wants
<1>6. QED BY <1>1, <1>2, <1>4, <1>5

\* The selection, the flip-flops and the target keep to their types.
LEMMA EdgeTypes ==
  ASSUME BiuTypes, NEW p \in PinSet, NEW rsp_ready \in BOOLEAN, Edge(p, rsp_ready)
  PROVE  BiuTypes'
<1>1. /\ M' \in [Masters -> RegisterSet] /\ wants' \in [Masters -> Kinds]
      /\ \A m \in Masters : Master(m, M[m])' /\ Wants(m)'
  BY EdgeMasters
<1>2. inner_selected \in {None, "scalar", "line"} /\ outer_selected \in {None, "group", "cache"}
  BY DEF inner_selected, outer_selected, BiuTypes
<1>3. inner' \in {None, "scalar", "line"} /\ outer' \in {None, "group", "cache"}
  BY <1>2 DEF Edge, InnerSelect, OuterSelect, BiuTypes
<1>4. /\ push_hold' \in BOOLEAN /\ aack_q' \in BOOLEAN /\ artry_block_q' \in BOOLEAN
      /\ outer_owed' \in BOOLEAN /\ outer_aack_q' \in BOOLEAN
      /\ pe_owed' \in BOOLEAN /\ pe_aack_q' \in BOOLEAN
  BY DEF Edge, PushHold, ArtryBlock, Owed, BiuTypes, PinSet
<1>5. outer_dbb_q' \in BOOLEAN /\ protocol_error' \in BOOLEAN
  BY DEF Edge, Owed, OuterDbb, BiuTypes
<1>6. outer_tt' \in [data : BOOLEAN, read : BOOLEAN]
  <2>1. \A m \in Masters : Reads(m) \in BOOLEAN /\ (M[m].ask # "address") \in BOOLEAN
    BY DEF Reads
  <2>2. Selected # None => Selected \in Masters
    BY <1>2 DEF Selected, Masters, Outer
  <2>3. QED BY <2>1, <2>2 DEF Edge, Owed, BiuTypes
<1>7. due # <<>> => Expected(p) \in Masters /\ due[1] \in Masters
  BY DEF Expected, Masters, BiuTypes
<1>8. due' \in Seq(Masters)
  <2> DEFINE acked == {m \in Masters : M[m].state = "ADDR_RETRY_SAMPLE" /\ ~p.artry /\ M[m].ask # "address"}
             left == IF DataStarts = {} \/ due = <<>> THEN due
                     ELSE IF Expected(p) = due[1] THEN Tail(due) ELSE <<due[1]>>
  <2>1. left \in Seq(Masters)
    <3>1. due # <<>> => Tail(due) \in Seq(Masters) /\ <<due[1]>> \in Seq(Masters)
      BY <1>7 DEF BiuTypes
    <3>2. QED BY <3>1 DEF BiuTypes
  <2>2. acked # {} => (CHOOSE m \in acked : TRUE) \in Masters
    OBVIOUS
  <2>3. due' = IF acked = {} THEN left ELSE Append(left, CHOOSE m \in acked : TRUE)
    BY DEF Edge, Target
  <2> HIDE DEF left, acked
  <2>4. QED BY <2>1, <2>2, <2>3
<1>9. target' \in TargetSet
  <2>1. NoTenure \in TargetSet /\ \A m \in Masters \cup {None} : [NoTenure EXCEPT !.m = m] \in TargetSet
    BY DEF NoTenure, TargetSet
  <2>2. Judged(target, p) \in TargetSet
    <3> DEFINE sent == IF p.ta THEN (IF p.d = Bad THEN "bad" ELSE "good") ELSE "none"
               t1 == [target EXCEPT !.beat = @ + 1]
               t2 == [target EXCEPT !.cand = sent]
               t3 == [target EXCEPT !.cand = IF p.ta THEN sent ELSE "owed"]
               t4 == [target EXCEPT !.beat = @ + 1, !.cand = sent]
    <3>1. target.beat + 1 \in Nat /\ sent \in {"none", "good", "bad", "owed"}
      BY DEF BiuTypes, TargetSet
    <3>2. target \in TargetSet
      BY DEF BiuTypes
    <3>3. Judged(target, p) \in {NoTenure, target, t1, t2, t3, t4}
      BY DEF Judged
    <3> HIDE DEF sent
    <3>4. t1 \in TargetSet /\ t2 \in TargetSet /\ t3 \in TargetSet /\ t4 \in TargetSet
      BY <3>1, <3>2 DEF TargetSet
    <3> HIDE DEF t1, t2, t3, t4
    <3>5. QED BY <2>1, <3>2, <3>3, <3>4
  <2>3. target' = IF DataStarts # {} THEN [NoTenure EXCEPT !.m = IF due = <<>> THEN None ELSE Expected(p)]
                  ELSE IF target.m = None THEN target ELSE Judged(target, p)
    BY DEF Edge, Target
  <2>4. QED BY <1>7, <2>1, <2>2, <2>3 DEF BiuTypes
<1>10. QED BY <1>1, <1>3, <1>4, <1>5, <1>6, <1>8, <1>9 DEF BiuTypes

\* After reset every master is idle.
LEMMA InitTypes == BiuInit => BiuTypes
<1> SUFFICES ASSUME BiuInit PROVE BiuTypes
  OBVIOUS
<1>1. /\ Registers \in RegisterSet /\ Registers.state = "IDLE" /\ Registers.part = 0
      /\ Registers.rsp = None /\ Registers.ask = None
      /\ ~Registers.slot /\ ~Registers.err /\ ~Registers.addr_release
      /\ ~Registers.data_release /\ ~Registers.release_oe /\ Registers.beat = 0
  BY BiuAssumption DEF Registers, RegisterSet, States, Kinds, Stale, None
<1>2. \A m \in Masters : Consistent(m, Registers) /\ Counted(m, Registers)
  BY <1>1 DEF Consistent, Counted, DataStates, BeforeData, AddressStates
<1>3. M \in [Masters -> RegisterSet] /\ wants \in [Masters -> Kinds]
      /\ \A m \in Masters : Master(m, M[m]) /\ Wants(m)
  BY <1>1, <1>2 DEF BiuInit, Master, Wants, Kinds
<1>4. target \in TargetSet /\ due \in Seq(Masters)
  BY DEF BiuInit, NoTenure, TargetSet
<1>5. QED BY <1>3, <1>4 DEF BiuInit, BiuTypes

\* A client asks.
LEMMA AskTypes ==
  ASSUME BiuTypes, NEW m \in Masters, NEW ask \in Asks[m], Ask(m, ask)
  PROVE  BiuTypes'
<1>1. ask \in MayAsk(m)
  BY BiuAssumption DEF MayAsk, Masters, Outer
<1>2. wants' = [wants EXCEPT ![m] = ask] /\ wants' \in [Masters -> Kinds]
  BY <1>1, KindsOf DEF Ask, BiuTypes
<1>3. \A k \in Masters : Wants(k)'
  BY <1>1, <1>2 DEF Wants, BiuTypes
<1>4. \A k \in Masters : Master(k, M[k])'
  BY DEF Ask, BiuTypes, Master, Counted, LastBeat
<1>5. QED BY <1>2, <1>3, <1>4 DEF Ask, BiuTypes

\* A step is an edge with some pins, a request, or nothing.
LEMMA Steps ==
  ASSUME BiuTypes, [BiuNext]_biuVars
  PROVE  \/ \E a \in AddressPins, d \in DataPins, rsp_ready \in BOOLEAN :
              Pins(a, d) \in PinSet /\ Edge(Pins(a, d), rsp_ready)
         \/ \E m \in Masters : \E ask \in Asks[m] : Ask(m, ask)
         \/ UNCHANGED biuVars
<1>1. CASE Clock
  BY <1>1, PinsTyped DEF Clock
<1>2. QED BY <1>1 DEF BiuNext

\* BiuTypes is kept by every step.
LEMMA TypesKept == BiuTypes /\ [BiuNext]_biuVars => BiuTypes'
<1> SUFFICES ASSUME BiuTypes, [BiuNext]_biuVars PROVE BiuTypes'
  OBVIOUS
<1>1. CASE UNCHANGED biuVars
  BY <1>1 DEF biuVars, BiuTypes, Master, Counted, LastBeat, Wants
<1>2. QED BY <1>1, Steps, EdgeTypes, AskTypes

\* HandsBack: ABB and DBB are let go exactly after the cycle in which their
\* master announces it.
THEOREM BusyPinsHandedBack == BiuSpec => HandsBack
<1>1. BiuInit => BiuTypes
  BY InitTypes
<1>2. BiuTypes /\ [BiuNext]_biuVars => BiuTypes'
  BY TypesKept
<1>3. BiuTypes /\ [BiuNext]_biuVars =>
        [\A m \in Masters :
           /\ abb_oe(m) => (abb_oe(m)' <=> ~M[m].addr_release)
           /\ dbb_oe(m) => (dbb_oe(m)' <=> ~M[m].data_release)]_M
  <2> SUFFICES ASSUME BiuTypes, [BiuNext]_biuVars, M' # M, NEW m \in Masters
               PROVE  /\ abb_oe(m) => (abb_oe(m)' <=> ~M[m].addr_release)
                      /\ dbb_oe(m) => (dbb_oe(m)' <=> ~M[m].data_release)
    OBVIOUS
  <2>1. PICK p \in PinSet, rsp_ready \in BOOLEAN : Edge(p, rsp_ready)
    BY Steps DEF Ask, biuVars
  <2>2. LetsGo(M[m], M'[m])
    BY <2>1, EdgeMasters DEF Edged, Good
  <2>3. (abb_oe(m) <=> Abb(M[m])) /\ (dbb_oe(m) <=> Dbb(M[m]))
    BY DEF abb_oe, dbb_oe, Abb, Dbb, AddressStates
  <2>4. (abb_oe(m)' <=> Abb(M'[m])) /\ (dbb_oe(m)' <=> Dbb(M'[m]))
    BY DEF abb_oe, dbb_oe, Abb, Dbb, AddressStates
  <2>5. QED BY <2>2, <2>3, <2>4 DEF LetsGo
<1>4. QED BY <1>1, <1>2, <1>3, PTL DEF BiuSpec, HandsBack

-----------------------------------------------------------------------------
(* Who holds the pins.                                                     *)

\* A tenure is under way.
InTenure(r) == r.state \notin {"IDLE", "ADDR_REQUEST", "FINISH"}

Holds(m) == IF m = "cache" THEN outer = "cache" ELSE inner = m /\ outer = "group"

Held == \A m \in Outer : InTenure(M[m]) => Holds(m)

\* A master that holds the pins is the one selected.
LEMMA HolderIsSelected ==
  ASSUME Held, NEW m \in Outer, InTenure(M[m])
  PROVE  Selected = m
BY DEF Held, Holds, Selected, inner_selected, outer_selected, Outer, None

\* A master of the group that sees no pins does not start a tenure.
LEMMA OnlySelectedMoves ==
  ASSUME BiuTypes, Held, NEW p \in PinSet, \A m \in Masters : Edged(m, p),
         NEW m \in Outer, InTenure(M'[m])
  PROVE  /\ m = Selected /\ Seen(m, p) = OuterPins(p)
         /\ InTenure(M[m]) \/ M[m].state = "ADDR_REQUEST"
<1>1. m \in Masters /\ m # "push" /\ Move(m, M[m], M'[m], Seen(m, p)) /\ M[m].state \in States
  BY DEF Edged, Masters, Outer, BiuTypes, RegisterSet
<1>2. InTenure(M[m]) \/ M[m].state = "ADDR_REQUEST"
  BY <1>1 DEF InTenure, Move, IdleMove, FinishMove
<1>3. m = Selected
  <2>1. CASE InTenure(M[m])
    BY <2>1, HolderIsSelected
  <2>2. CASE M[m].state = "ADDR_REQUEST" /\ m # Selected
    <3>1. Seen(m, p) = Negated
      BY <1>1, <2>2 DEF Seen
    <3>2. M'[m].state = "ADDR_REQUEST"
      BY <1>1, <2>2, <3>1 DEF Move, AddressMove, BeforeData, Goes, Negated
    <3>3. QED BY <3>2 DEF InTenure
  <2>3. QED BY <1>2, <2>1, <2>2
<1>4. QED BY <1>1, <1>2, <1>3 DEF Seen

\* Neither level of selection gives the pins of a tenure away.
LEMMA HeldKept ==
  ASSUME BiuTypes, Held, NEW p \in PinSet, NEW rsp_ready \in BOOLEAN, Edge(p, rsp_ready),
         \A m \in Masters : Edged(m, p)
  PROVE  Held'
<1> SUFFICES ASSUME NEW m \in Outer, InTenure(M'[m]) PROVE Holds(m)'
  BY DEF Held
<1>1. m = Selected /\ (InTenure(M[m]) \/ M[m].state = "ADDR_REQUEST")
  BY OnlySelectedMoves
<1>2. busy(m)
  BY <1>1 DEF busy, InTenure
<1>3. InnerSelect /\ OuterSelect
  BY DEF Edge
<1>4. CASE m = "cache"
  <2>1. outer_selected = "cache"
    BY <1>1, <1>4 DEF Selected, inner_selected, BiuTypes, None
  <2>2. QED BY <1>2, <1>3, <1>4, <2>1 DEF OuterSelect, outer_selected, Holds, None
<1>5. CASE m # "cache"
  <2>1. outer_selected = "group" /\ inner_selected = m
    BY <1>1, <1>5 DEF Selected, outer_selected, BiuTypes, Outer, None
  <2>2. group_busy
    BY <1>2, <1>5 DEF group_busy, Outer
  <2>3. inner' = m
    BY <1>2, <1>3, <2>1, <1>5 DEF InnerSelect, inner_selected, Outer, None
  <2>4. outer' = "group"
    BY <1>3, <2>1, <2>2 DEF OuterSelect, outer_selected, None
  <2>5. QED BY <1>5, <2>3, <2>4 DEF Holds
<1>6. QED BY <1>4, <1>5

-----------------------------------------------------------------------------
(* A push and the tenures it overtakes.                                    *)

\* A push and an outer tenure share neither an address nor a data phase.
Apart ==
  \A m \in Outer :
    /\ M[m].state \in AddressStates => M["push"].state \in {"IDLE", "ADDR_REQUEST"}
    /\ M[m].state \in DataStates => M["push"].state \notin {"DATA_WAIT", "DATA_RELEASE"}

\* What the unit remembers of the tenures whose data is owed.
Remembered ==
  /\ \A m \in Outer :
       /\ M[m].state \in {"ADDR_WAIT", "ADDR_RETRY_SAMPLE", "DATA_REQUEST"} =>
            (outer_tt.data <=> M[m].ask # "address") /\ (outer_tt.read <=> Reads(m))
       /\ M[m].state \in AddressStates \cup {"DATA_REQUEST"} => ~outer_dbb_q
       /\ M[m].state = "ADDR_RETRY_SAMPLE" => outer_aack_q
       /\ M[m].state = "DATA_REQUEST" => outer_owed
  /\ M["push"].state = "ADDR_RETRY_SAMPLE" => pe_aack_q
  /\ M["push"].state = "DATA_REQUEST" => pe_owed

\* A push writes: it has no confirmation.
LEMMA PushWrites ==
  ASSUME BiuTypes
  PROVE  /\ M["push"].state \notin {"CONFIRM", "REPLACEMENT"} /\ M["push"].ask \notin ReadAsks
         /\ ~Reads("push")
         /\ dbb_oe("push") <=> M["push"].state \in {"DATA_WAIT", "DATA_RELEASE"}
<1>1. Consistent("push", M["push"]) /\ MayAsk("push") = {"write"}
  BY DEF BiuTypes, Master, Masters, MayAsk
<1>2. M["push"].ask \notin ReadAsks
  BY <1>1 DEF Consistent, ReadAsks, None
<1>3. QED BY <1>1, <1>2 DEF Consistent, ReadAsks, Reads, dbb_oe

\* While an outer master has its data tenure every data pin is its own.
LEMMA OuterSeesItsData ==
  ASSUME BiuTypes, Held, Apart, NEW p \in PinSet, NEW m \in Outer, M[m].state \in DataStates
  PROVE  /\ Selected = m /\ ~dbb_oe("push") /\ Seen(m, p) = OuterPins(p)
         /\ Seen(m, p).ta = p.ta /\ Seen(m, p).drtry = p.drtry
         /\ Seen(m, p).tea = p.tea /\ Seen(m, p).d = p.d
<1>1. Selected = m
  BY HolderIsSelected DEF InTenure, DataStates
<1>2. ~dbb_oe("push")
  BY PushWrites DEF Apart
<1>3. Seen(m, p) = OuterPins(p)
  BY <1>1 DEF Seen, Outer
<1>4. QED BY <1>1, <1>2, <1>3 DEF OuterPins, PinSet

\* An outer master and a push are not in their data tenures together.
LEMMA DataApartKept ==
  ASSUME BiuTypes, Held, Apart, Remembered, NEW p \in PinSet,
         \A m \in Masters : Edged(m, p), NEW m \in Outer, M'[m].state \in DataStates
  PROVE  M'["push"].state \notin {"DATA_WAIT", "DATA_RELEASE"}
<1> SUFFICES ASSUME M'["push"].state \in {"DATA_WAIT", "DATA_RELEASE"} PROVE FALSE
  OBVIOUS
<1> DEFINE q == "push"
<1>1. /\ m = Selected /\ Seen(m, p) = OuterPins(p) /\ m # q /\ m \in Masters /\ q \in Masters
  <2>1. InTenure(M'[m])
    BY DEF InTenure, DataStates
  <2>2. QED BY <2>1, OnlySelectedMoves DEF Masters, Outer
<1>2. /\ Move(m, M[m], M'[m], Seen(m, p)) /\ Move(q, M[q], M'[q], PushPins(p))
      /\ M[m].state \in States /\ M[q].state \in States
  BY <1>1 DEF Edged, Seen, BiuTypes, RegisterSet
<1>3. M[m].state \in DataStates \/ (M[m].state = "DATA_REQUEST" /\ OuterPins(p).dbg)
  BY <1>1, <1>2 DEF Move, IdleMove, FinishMove, AddressMove, Goes, Ends, States, BeforeData,
                    AddressStates, DataStates
<1>4. \/ M[q].state = "DATA_REQUEST" /\ PushPins(p).dbg /\ ~PushPins(p).drtry
      \/ M[q].state = "DATA_WAIT"
  <2>1. M[q].state \notin {"CONFIRM", "REPLACEMENT"} /\ M[q].ask \notin ReadAsks
    BY PushWrites
  <2>2. QED BY <1>2, <2>1 DEF Move, IdleMove, FinishMove, AddressMove, Goes, Ends, HasSlot,
                              States, BeforeData, AddressStates, DataStates
<1>5. CASE M[m].state = "DATA_REQUEST" /\ OuterPins(p).dbg
  <2>1. ~dbb_oe(q) /\ ~dbwo_push(p)
    BY <1>5 DEF OuterPins
  <2>2. M[q].state = "DATA_REQUEST" /\ PushPins(p).dbg
    BY <1>4, <2>1, PushWrites
  <2>3. outer_owed
    BY <1>5 DEF Remembered
  <2>4. QED BY <2>1, <2>2, <2>3 DEF PushPins
<1>6. CASE M[m].state \in DataStates
  <2>1. M[q].state = "DATA_REQUEST" /\ PushPins(p).dbg /\ ~PushPins(p).drtry
    BY <1>4, <1>6 DEF Apart
  <2>2. ~dbb_oe(m) /\ ~p.drtry
    BY <1>1, <2>1 DEF PushPins, OuterDbb, None, Outer
  <2>3. /\ M[m].state \in {"CONFIRM", "REPLACEMENT"} /\ M[m].final_release
    BY <1>6, <2>2 DEF dbb_oe, DataStates
  <2>4. ~Seen(m, p).drtry
    BY <1>6, <2>2, OuterSeesItsData
  <2>5. M[m].ask \in ReadAsks /\ M[m].beat = LastBeat(m)
    BY <1>1, <1>6, <2>3 DEF BiuTypes, Master, Consistent, Counted
  <2>6. ReadMove(m, M[m], M'[m], Seen(m, p))
    BY <1>2, <1>6, <2>5 DEF Move
  <2>7. M'[m].state \in {"IDLE", "FINISH"}
    BY <2>3, <2>4, <2>5, <2>6 DEF ReadMove, BreaksOff, Ends
  <2>8. QED BY <2>7 DEF DataStates
<1>7. QED BY <1>3, <1>5, <1>6

\* Nor in their address tenures.
LEMMA AddressApartKept ==
  ASSUME BiuTypes, Held, Apart, NEW p \in PinSet,
         \A m \in Masters : Edged(m, p), NEW m \in Outer, M'[m].state \in AddressStates
  PROVE  M'["push"].state \in {"IDLE", "ADDR_REQUEST"}
<1> DEFINE q == "push"
<1>1. /\ m = Selected /\ Seen(m, p) = OuterPins(p) /\ m \in Masters /\ q \in Masters
  <2>1. InTenure(M'[m])
    BY DEF InTenure, AddressStates
  <2>2. QED BY <2>1, OnlySelectedMoves DEF Masters, Outer
<1>2. /\ Move(m, M[m], M'[m], Seen(m, p)) /\ Move(q, M[q], M'[q], PushPins(p))
      /\ M[m].state \in States /\ M[q].state \in States
  BY <1>1 DEF Edged, Seen, BiuTypes, RegisterSet
<1>3. M[m].state \in AddressStates \/ (M[m].state = "ADDR_REQUEST" /\ OuterPins(p).bg)
  BY <1>1, <1>2 DEF Move, IdleMove, FinishMove, AddressMove, ReadMove, WriteMove, BreaksOff, Fails,
                    Goes, Ends, States, BeforeData, AddressStates, DataStates
<1>4. CASE M[m].state \in AddressStates
  <2>1. M[q].state \in {"IDLE", "ADDR_REQUEST"}
    BY <1>4 DEF Apart
  <2>2. ~PushPins(p).bg
    BY <1>1, <1>4 DEF PushPins, OuterAbb, abb_oe, AddressStates, None, Outer
  <2>3. QED BY <1>2, <2>1, <2>2 DEF Move, IdleMove, AddressMove, BeforeData, Goes
<1>5. CASE M[m].state = "ADDR_REQUEST" /\ OuterPins(p).bg
  <2>1. M[q].state = "IDLE"
    BY <1>5 DEF OuterPins, busy
  <2>2. QED BY <1>2, <2>1 DEF Move, IdleMove
<1>6. QED BY <1>3, <1>4, <1>5

\* A push and an outer tenure stay apart.
LEMMA ApartKept ==
  ASSUME BiuTypes, Held, Apart, Remembered, NEW p \in PinSet,
         \A m \in Masters : Edged(m, p)
  PROVE  Apart'
BY DataApartKept, AddressApartKept DEF Apart

\* The state from which each state of a tenure is reached.
LEMMA WhenceAddress ==
  ASSUME NEW m \in Masters, NEW r \in RegisterSet, NEW n, NEW s, Move(m, r, n, s)
  PROVE  /\ n.state = "ADDR_TRANSFER" => r.state = "ADDR_REQUEST"
         /\ n.state = "ADDR_WAIT" => r.state = "ADDR_WAIT" \/ r.state = "ADDR_TRANSFER"
         /\ n.state = "ADDR_RETRY_SAMPLE" => r.state = "ADDR_WAIT" /\ s.aack
         /\ n.state = "ADDR_ABORT" => r.state = "ADDR_TRANSFER" /\ s.aack
         /\ n.state = "DATA_REQUEST" =>
              \/ r.state = "DATA_REQUEST"
              \/ r.state = "ADDR_RETRY_SAMPLE" /\ ~s.artry /\ r.ask # "address"
         /\ n.state \in {"ADDR_WAIT", "ADDR_RETRY_SAMPLE", "DATA_REQUEST"} => n.ask = r.ask
BY DEF Move, IdleMove, FinishMove, AddressMove, ReadMove, WriteMove, BreaksOff, Fails,
       Goes, Ends, RegisterSet, States, BeforeData, AddressStates, DataStates

\* What is remembered of the outer tenure.
LEMMA OuterRemembered ==
  ASSUME BiuTypes, Held, Apart, Remembered, NEW p \in PinSet, NEW rsp_ready \in BOOLEAN,
         Edge(p, rsp_ready), \A k \in Masters : Edged(k, p), NEW m \in Outer,
         M'[m].state \in AddressStates \cup {"DATA_REQUEST"}
  PROVE  /\ M'[m].state \in {"ADDR_WAIT", "ADDR_RETRY_SAMPLE", "DATA_REQUEST"} =>
              (outer_tt'.data <=> M'[m].ask # "address") /\ (outer_tt'.read <=> Reads(m)')
         /\ ~outer_dbb_q'
         /\ M'[m].state = "ADDR_RETRY_SAMPLE" => outer_aack_q'
         /\ M'[m].state = "DATA_REQUEST" => outer_owed'
<1>1. /\ m = Selected /\ Seen(m, p) = OuterPins(p) /\ m \in Masters /\ m # None
  <2>1. InTenure(M'[m])
    BY DEF InTenure, AddressStates
  <2>2. QED BY <2>1, OnlySelectedMoves DEF Masters, Outer, None
<1>2. M[m] \in RegisterSet /\ Move(m, M[m], M'[m], OuterPins(p))
  BY <1>1 DEF Edged, BiuTypes
<1>3. /\ M'[m].state = "ADDR_TRANSFER" => M[m].state = "ADDR_REQUEST"
      /\ M'[m].state = "ADDR_WAIT" => M[m].state = "ADDR_WAIT" \/ M[m].state = "ADDR_TRANSFER"
      /\ M'[m].state = "ADDR_RETRY_SAMPLE" => M[m].state = "ADDR_WAIT" /\ OuterPins(p).aack
      /\ M'[m].state = "ADDR_ABORT" => M[m].state = "ADDR_TRANSFER" /\ OuterPins(p).aack
      /\ M'[m].state = "DATA_REQUEST" =>
           \/ M[m].state = "DATA_REQUEST"
           \/ M[m].state = "ADDR_RETRY_SAMPLE" /\ ~OuterPins(p).artry /\ M[m].ask # "address"
      /\ M'[m].state \in {"ADDR_WAIT", "ADDR_RETRY_SAMPLE", "DATA_REQUEST"} => M'[m].ask = M[m].ask
  BY <1>1, <1>2, WhenceAddress
<1>4. Owed(p)
  BY DEF Edge
<1>5. ~outer_dbb_q'
  <2>1. M[m].state \in AddressStates \cup {"ADDR_REQUEST", "DATA_REQUEST"}
    BY <1>3 DEF AddressStates
  <2>2. ~dbb_oe(m)
    BY <2>1 DEF dbb_oe, AddressStates
  <2>3. QED BY <1>1, <1>4, <2>2 DEF Owed, OuterDbb
<1>6. ASSUME M'[m].state \in {"ADDR_WAIT", "ADDR_RETRY_SAMPLE", "DATA_REQUEST"}
      PROVE  (outer_tt'.data <=> M'[m].ask # "address") /\ (outer_tt'.read <=> Reads(m)')
  <2>1. M'[m].ask = M[m].ask /\ (Reads(m)' <=> Reads(m))
    BY <1>3, <1>6 DEF Reads
  <2>2. CASE M[m].state = "ADDR_TRANSFER"
    <3> DEFINE data == (M[m].ask # "address") rd == Reads(m)
    <3>1. outer_tt' = [data |-> data, read |-> rd]
      BY <1>1, <1>4, <2>2 DEF Owed
    <3> HIDE DEF data, rd
    <3>2. outer_tt'.data = data /\ outer_tt'.read = rd
      BY <3>1
    <3>3. QED BY <2>1, <3>2, Zenon DEF data, rd
  <2>3. CASE M[m].state # "ADDR_TRANSFER"
    <3>1. outer_tt' = outer_tt
      BY <1>1, <1>4, <2>3 DEF Owed
    <3>2. M[m].state \in {"ADDR_WAIT", "ADDR_RETRY_SAMPLE", "DATA_REQUEST"}
      BY <1>3, <1>6, <2>3
    <3>3. QED BY <2>1, <3>1, <3>2 DEF Remembered
  <2>4. QED BY <2>2, <2>3
<1>7. M'[m].state = "ADDR_RETRY_SAMPLE" => outer_aack_q'
  BY <1>1, <1>3, <1>4 DEF Owed, OuterPins, OuterAbb, abb_oe
<1>8. ASSUME M'[m].state = "DATA_REQUEST" PROVE outer_owed'
  <2>1. CASE M[m].state = "DATA_REQUEST"
    BY <1>4, <2>1 DEF Owed, Remembered
  <2>2. CASE M[m].state = "ADDR_RETRY_SAMPLE" /\ ~OuterPins(p).artry /\ M[m].ask # "address"
    BY <1>4, <2>2 DEF Owed, Remembered, OuterPins
  <2>3. QED BY <1>3, <1>8, <2>1, <2>2
<1>9. QED BY <1>5, <1>6, <1>7, <1>8

\* The flip-flops of the unit follow the tenures (outer_owed_q, pe_owed_q and the like).
LEMMA RememberedKept ==
  ASSUME BiuTypes, Held, Apart, Remembered, NEW p \in PinSet, NEW rsp_ready \in BOOLEAN,
         Edge(p, rsp_ready), \A k \in Masters : Edged(k, p)
  PROVE  Remembered'
<1>1. ASSUME NEW m \in Outer
      PROVE  /\ M'[m].state \in {"ADDR_WAIT", "ADDR_RETRY_SAMPLE", "DATA_REQUEST"} =>
                  (outer_tt'.data <=> M'[m].ask # "address") /\ (outer_tt'.read <=> Reads(m)')
             /\ M'[m].state \in AddressStates \cup {"DATA_REQUEST"} => ~outer_dbb_q'
             /\ M'[m].state = "ADDR_RETRY_SAMPLE" => outer_aack_q'
             /\ M'[m].state = "DATA_REQUEST" => outer_owed'
  BY OuterRemembered DEF AddressStates
<1>2. (M'["push"].state = "ADDR_RETRY_SAMPLE" => pe_aack_q')
      /\ (M'["push"].state = "DATA_REQUEST" => pe_owed')
  <2>1. "push" \in Masters /\ M["push"] \in RegisterSet
    BY DEF BiuTypes, Masters
  <2>2. Move("push", M["push"], M'["push"], PushPins(p))
    BY <2>1 DEF Edged, Seen
  <2>3. /\ M'["push"].state = "ADDR_RETRY_SAMPLE" => M["push"].state = "ADDR_WAIT" /\ PushPins(p).aack
        /\ M'["push"].state = "DATA_REQUEST" =>
             \/ M["push"].state = "DATA_REQUEST"
             \/ M["push"].state = "ADDR_RETRY_SAMPLE" /\ ~PushPins(p).artry
    BY <2>1, <2>2, WhenceAddress
  <2>4. QED BY <2>3 DEF Edge, Owed, PushPins, abb_oe, dbb_oe, Remembered
<1>3. QED BY <1>1, <1>2 DEF Remembered

-----------------------------------------------------------------------------
(* What the target owes.                                                   *)

Waits(m) == M[m].state = "DATA_REQUEST"

\* Exactly the masters that wait for their data, a push behind at most one
\* outer tenure.
DueExact ==
  \/ due = <<>> /\ \A m \in Masters : ~Waits(m)
  \/ \E k \in Masters : due = <<k>> /\ \A m \in Masters : Waits(m) <=> m = k
  \/ \E o \in Outer : due = <<o, "push">> /\ \A m \in Masters : Waits(m) <=> m \in {o, "push"}

Starts(m) == M[m].state = "DATA_REQUEST" /\ M'[m].state = "DATA_WAIT"

\* The address tenure of m is over and its data is owed.
Acked(m, p) == M[m].state = "ADDR_RETRY_SAMPLE" /\ ~p.artry /\ M[m].ask # "address"

\* An outer master that waits has the pins, and what is remembered is of it.
LEMMA OuterWaits ==
  ASSUME BiuTypes, Held, Remembered, NEW p \in PinSet, NEW o \in Outer, Waits(o)
  PROVE  /\ Selected = o /\ Seen(o, p) = OuterPins(p) /\ outer_owed
         /\ outer_tt.read <=> Reads(o)
<1>1. Selected = o
  BY HolderIsSelected DEF InTenure, Waits
<1>2. QED BY <1>1 DEF Seen, Outer, Remembered, Waits

\* A data tenure starts on a data bus grant.
LEMMA WhoStarts ==
  ASSUME BiuTypes, Held, NEW p \in PinSet, \A k \in Masters : Edged(k, p), NEW m \in Masters, Starts(m)
  PROVE  Seen(m, p).dbg
<1>1. Move(m, M[m], M'[m], Seen(m, p))
  BY DEF Edged
<1>2. QED BY <1>1 DEF Move, AddressMove, Goes, Starts, BeforeData

\* The master that starts its data tenure is the one whose data the target
\* sends next, and no other starts.
LEMMA StarterIsExpected ==
  ASSUME BiuTypes, Held, Remembered, DueExact, NEW p \in PinSet,
         \A k \in Masters : Edged(k, p), NEW m \in Masters, Starts(m)
  PROVE  due # <<>> /\ Expected(p) = m /\ \A k \in Masters : Starts(k) => k = m
<1>1. Waits(m) /\ Seen(m, p).dbg
  BY WhoStarts DEF Starts, Waits
<1>2. due # <<>>
  <2>1. (\A k \in Masters : <<k>> # <<>>) /\ (\A o \in Outer : <<o, "push">> # <<>>)
    OBVIOUS
  <2>2. QED BY <1>1, <2>1, Zenon DEF DueExact
<1>3. CASE \E k \in Masters : due = <<k>> /\ \A j \in Masters : Waits(j) <=> j = k
  <2>1. due = <<m>> /\ \A j \in Masters : Waits(j) => j = m
    BY <1>1, <1>3
  <2>2. Len(due) = 1 /\ due[1] = m
    BY <2>1
  <2>3. QED BY <1>2, <2>1, <2>2 DEF Expected, Starts, Waits
<1>4. CASE \E o \in Outer : due = <<o, "push">> /\ \A j \in Masters : Waits(j) <=> j \in {o, "push"}
  <2>1. PICK o \in Outer : due = <<o, "push">> /\ \A j \in Masters : Waits(j) <=> j \in {o, "push"}
    BY <1>4
  <2>2. /\ o \in Masters /\ "push" \in Masters /\ o # "push" /\ Waits(o) /\ Waits("push")
        /\ Len(due) = 2 /\ due[1] = o /\ due[2] = "push"
    BY <2>1 DEF Masters, Outer
  <2>3. Seen(o, p) = OuterPins(p) /\ outer_owed /\ (outer_tt.read <=> Reads(o))
    BY <2>2, OuterWaits
  <2>4. pe_owed
    BY <2>2 DEF Remembered, Waits
  <2>5. dbwo_push(p) <=> p.dbwo /\ Reads(o)
    BY <2>3, <2>4 DEF dbwo_push
  <2>6. Starts(o) => ~dbwo_push(p)
    <3>1. Starts(o) => Seen(o, p).dbg
      BY <2>2, WhoStarts
    <3>2. OuterPins(p).dbg => ~dbwo_push(p)
      BY DEF OuterPins
    <3>3. QED BY <2>3, <3>1, <3>2
  <2>7. Starts("push") => dbwo_push(p)
    BY <2>2, <2>3, WhoStarts DEF PushPins, Seen
  <2>8. Expected(p) = IF dbwo_push(p) THEN "push" ELSE o
    BY <2>2, <2>5 DEF Expected
  <2>9. m \in {o, "push"} /\ \A k \in Masters : Starts(k) => k \in {o, "push"}
    BY <2>1, <1>1 DEF Starts, Waits
  <2>10. QED BY <1>2, <2>6, <2>7, <2>8, <2>9
<1>5. QED BY <1>1, <1>2, <1>3, <1>4 DEF DueExact

\* Who waits after an edge.
LEMMA WaitsNext ==
  ASSUME BiuTypes, Held, Apart, NEW p \in PinSet, \A k \in Masters : Edged(k, p), NEW m \in Masters
  PROVE  /\ Waits(m)' <=> (Waits(m) /\ ~Starts(m)) \/ Acked(m, p)
         /\ Acked(m, p) /\ m # "push" =>
              M["push"].state \in {"IDLE", "ADDR_REQUEST"} /\ \A k \in Outer : Waits(k) \/ Acked(k, p) => k = m
<1>1. M[m] \in RegisterSet /\ Move(m, M[m], M'[m], Seen(m, p))
  BY DEF Edged, BiuTypes
<1>2. m = "push" \/ m \in Outer
  BY DEF Masters
<1>3. M[m].state = "ADDR_RETRY_SAMPLE" => Seen(m, p).artry = p.artry
  <2>1. CASE m = "push"
    BY <2>1 DEF Seen, PushPins
  <2>2. CASE m \in Outer /\ M[m].state = "ADDR_RETRY_SAMPLE"
    <3>1. Selected = m
      BY <2>2, HolderIsSelected DEF InTenure
    <3>2. ~abb_oe("push")
      BY <2>2 DEF Apart, abb_oe, AddressStates
    <3>3. QED BY <3>1, <3>2, <2>2 DEF Seen, OuterPins, Outer, PinSet
  <2>3. QED BY <1>2, <2>1, <2>2
<1>4. Waits(m)' => Waits(m) \/ (M[m].state = "ADDR_RETRY_SAMPLE" /\ ~Seen(m, p).artry /\ M[m].ask # "address")
  BY <1>1, WhenceAddress DEF Waits
<1>5. M[m].state = "DATA_REQUEST" => M'[m].state \in {"DATA_REQUEST", "DATA_WAIT"}
  BY <1>1 DEF Move, AddressMove, Goes, BeforeData
<1>6. M[m].state = "ADDR_RETRY_SAMPLE" /\ ~Seen(m, p).artry /\ M[m].ask # "address" =>
        M'[m].state = "DATA_REQUEST"
  BY <1>1 DEF Move, AddressMove, Goes, BeforeData, AddressStates
<1>7. Waits(m)' <=> (Waits(m) /\ ~Starts(m)) \/ Acked(m, p)
  BY <1>3, <1>4, <1>5, <1>6 DEF Waits, Starts, Acked
<1>8. ASSUME Acked(m, p), m # "push"
      PROVE  M["push"].state \in {"IDLE", "ADDR_REQUEST"} /\ \A k \in Outer : Waits(k) \/ Acked(k, p) => k = m
  <2>1. m \in Outer /\ M[m].state \in AddressStates /\ Selected = m
    BY <1>2, <1>8, HolderIsSelected DEF Acked, AddressStates, InTenure
  <2>2. \A k \in Outer : Waits(k) \/ Acked(k, p) => Selected = k
    BY HolderIsSelected DEF Waits, Acked, InTenure
  <2>3. QED BY <2>1, <2>2 DEF Apart
<1>9. QED BY <1>7, <1>8

\* A sequence of two.
LEMMA AppendToOne ==
  ASSUME NEW k \in Masters, NEW l \in Masters
  PROVE  Append(<<k>>, l) = <<k, l>>
<1> DEFINE s == Append(<<k>>, l)
           t == <<k, l>>
<1>1. <<k>> \in Seq(Masters) /\ Len(<<k>>) = 1
  OBVIOUS
<1>2. t \in Seq(Masters) /\ Len(t) = 2 /\ t[1] = k /\ t[2] = l
  OBVIOUS
<1>3. s \in Seq(Masters) /\ Len(s) = 2 /\ s[1] = k /\ s[2] = l
  BY <1>1
<1> HIDE DEF s, t
<1>4. \A i \in 1 .. Len(s) : s[i] = t[i]
  BY <1>2, <1>3
<1>5. s = t
  BY <1>2, <1>3, <1>4, SeqEqual
<1>6. QED BY <1>5 DEF s, t

\* The target goes on owing exactly the data that is waited for.
LEMMA DueKept ==
  ASSUME BiuTypes, Held, Apart, Remembered, DueExact, NEW p \in PinSet,
         NEW rsp_ready \in BOOLEAN, Edge(p, rsp_ready), \A k \in Masters : Edged(k, p)
  PROVE  DueExact'
<1> DEFINE acked == {m \in Masters : Acked(m, p)}
           left == IF DataStarts = {} \/ due = <<>> THEN due
                   ELSE IF Expected(p) = due[1] THEN Tail(due) ELSE <<due[1]>>
<1>1. due' = IF acked = {} THEN left ELSE Append(left, CHOOSE m \in acked : TRUE)
  BY DEF Edge, Target, Acked
<1>2. \A m \in Masters : Waits(m)' <=> (Waits(m) /\ ~Starts(m)) \/ Acked(m, p)
  BY WaitsNext
<1>3. \A m \in Masters : Acked(m, p) => ~Waits(m)
  BY DEF Acked, Waits
<1>4. \A m \in Masters : m = "push" \/ m \in Outer
  BY DEF Masters
<1>5. \A m \in Outer : m \in Masters /\ m # "push"
  BY DEF Masters, Outer
<1>6. DataStarts = {m \in Masters : Starts(m)} /\ \A m \in Masters : Starts(m) => Waits(m)
  BY DEF DataStarts, Starts, Waits
\* The starter leaves the line of those that wait.
<1>7. \/ left = <<>> /\ \A m \in Masters : ~(Waits(m) /\ ~Starts(m))
      \/ \E k \in Masters : left = <<k>> /\ \A m \in Masters : (Waits(m) /\ ~Starts(m)) <=> m = k
      \/ \E o \in Outer : left = <<o, "push">>
           /\ \A m \in Masters : (Waits(m) /\ ~Starts(m)) <=> m \in {o, "push"}
  <2>1. CASE DataStarts = {}
    <3>1. left = due /\ \A m \in Masters : ~Starts(m)
      BY <1>6, <2>1
    <3> HIDE DEF left
    <3>2. QED BY <3>1 DEF DueExact
  <2>2. CASE DataStarts # {}
    <3>1. PICK s \in Masters : Starts(s)
      BY <1>6, <2>2
    <3>2. due # <<>> /\ Expected(p) = s /\ \A k \in Masters : Starts(k) => k = s
      BY <3>1, StarterIsExpected
    <3>3. Waits(s)
      BY <1>6, <3>1
    <3>4. CASE \E k \in Masters : due = <<k>> /\ \A m \in Masters : Waits(m) <=> m = k
      <4>1. due = <<s>> /\ \A m \in Masters : Waits(m) => m = s
        BY <3>3, <3>4
      <4>2. due[1] = s /\ Tail(due) = <<>>
        BY <4>1
      <4>3. left = <<>>
        BY <2>2, <3>2, <4>2
      <4>4. QED BY <3>1, <4>1, <4>3
    <3>5. CASE \E o \in Outer : due = <<o, "push">> /\ \A m \in Masters : Waits(m) <=> m \in {o, "push"}
      <4>1. PICK o \in Outer : due = <<o, "push">> /\ \A m \in Masters : Waits(m) <=> m \in {o, "push"}
        BY <3>5
      <4>2. due[1] = o /\ Tail(due) = <<"push">> /\ s \in {o, "push"} /\ o # "push"
            /\ o \in Masters /\ "push" \in Masters
        BY <1>5, <3>3, <4>1 DEF Masters
      <4>3. left = IF s = o THEN <<"push">> ELSE <<o>>
        BY <2>2, <3>2, <4>2
      <4> HIDE DEF left
      <4>4. CASE s = o
        BY <3>1, <3>2, <4>1, <4>2, <4>3, <4>4
      <4>5. CASE s = "push"
        BY <3>1, <3>2, <4>1, <4>2, <4>3, <4>5
      <4>6. QED BY <4>2, <4>4, <4>5
    <3>6. QED BY <3>2, <3>4, <3>5 DEF DueExact
  <2>3. QED BY <2>1, <2>2
<1> HIDE DEF left
<1>8. CASE acked = {}
  <2>1. due' = left /\ \A m \in Masters : Waits(m)' <=> (Waits(m) /\ ~Starts(m))
    BY <1>1, <1>2, <1>8
  <2>2. QED BY <1>7, <2>1 DEF DueExact
\* The one acknowledged joins at the end.
<1>9. CASE acked # {}
  <2>1. PICK a \in Masters : Acked(a, p)
    BY <1>9
  <2>2. \A k \in Masters : Acked(k, p) => k = a
    <3>1. \A k, j \in Masters : Acked(k, p) /\ k # "push" /\ Acked(j, p) => j = k
      <4> SUFFICES ASSUME NEW k \in Masters, NEW j \in Masters, Acked(k, p), k # "push", Acked(j, p)
                   PROVE  j = k
        OBVIOUS
      <4>1. M["push"].state \in {"IDLE", "ADDR_REQUEST"} /\ \A i \in Outer : Acked(i, p) => i = k
        BY WaitsNext
      <4>2. j # "push"
        BY <4>1 DEF Acked
      <4>3. QED BY <1>4, <4>1, <4>2
    <3>2. QED BY <2>1, <3>1
  <2>3. acked = {a} /\ (CHOOSE m \in acked : TRUE) = a
    BY <2>1, <2>2
  <2>4. due' = Append(left, a)
    BY <1>1, <2>3
  <2>5. \A m \in Masters : Waits(m)' <=> (Waits(m) /\ ~Starts(m)) \/ m = a
    BY <1>2, <2>1, <2>2
  <2>6. CASE a # "push"
    <3>1. M["push"].state \in {"IDLE", "ADDR_REQUEST"} /\ \A k \in Outer : Waits(k) \/ Acked(k, p) => k = a
      BY <2>1, <2>6, WaitsNext
    <3>2. \A m \in Masters : ~Waits(m)
      BY <1>3, <1>4, <2>1, <3>1 DEF Waits
    <3>3. left = <<>>
      BY <1>5, <1>7, <3>2 DEF Masters
    <3>4. due' = <<a>> /\ \A m \in Masters : Waits(m)' <=> m = a
      BY <2>4, <2>5, <3>2, <3>3
    <3>5. QED BY <3>4 DEF DueExact
  <2>7. CASE a = "push"
    <3>1. ~Waits("push") /\ "push" \in Masters
      BY <1>3, <2>1, <2>7
    <3>2. CASE left = <<>> /\ \A m \in Masters : ~(Waits(m) /\ ~Starts(m))
      <4>1. due' = <<a>> /\ \A m \in Masters : Waits(m)' <=> m = a
        BY <2>4, <2>5, <3>2
      <4>2. QED BY <4>1 DEF DueExact
    <3>3. CASE \E k \in Masters : left = <<k>> /\ \A m \in Masters : (Waits(m) /\ ~Starts(m)) <=> m = k
      <4>1. PICK k \in Masters : left = <<k>> /\ \A m \in Masters : (Waits(m) /\ ~Starts(m)) <=> m = k
        BY <3>3
      <4>2. k \in Outer
        BY <1>4, <3>1, <4>1
      <4>3. due' = <<k, "push">> /\ \A m \in Masters : Waits(m)' <=> m \in {k, "push"}
        <5>1. Append(<<k>>, "push") = <<k, "push">>
          BY <2>7, AppendToOne
        <5>2. due' = <<k, "push">>
          BY <2>4, <2>7, <4>1, <5>1
        <5>3. \A m \in Masters : Waits(m)' <=> m = k \/ m = "push"
          BY <2>5, <2>7, <4>1
        <5>4. QED BY <5>2, <5>3
      <4>4. QED BY <4>2, <4>3 DEF DueExact
    <3>4. QED BY <1>7, <3>1, <3>2, <3>3
  <2>8. QED BY <2>6, <2>7
<1>10. QED BY <1>8, <1>9

-----------------------------------------------------------------------------
(* The target and the master in its data tenure.                           *)

Matched(m) ==
  M[m].state \in DataStates =>
    /\ target.m = m /\ target.beat = M[m].beat
    /\ M[m].state = "DATA_WAIT" => target.cand = "none"
    /\ M[m].state = "REPLACEMENT" => target.cand = "owed"
    /\ M[m].state = "CONFIRM" =>
         \/ target.cand = "good" /\ M[m].provisional = M[m].beat + M[m].part
         \/ target.cand = "bad"

AllMatched == \A m \in Masters : Matched(m)

\* The doubleword on the pins, and a wrong one is cancelled.
RightPins(p) ==
  target.m # None =>
    /\ target.cand = "bad" => p.drtry \/ p.tea
    /\ Reads(target.m) /\ p.d # Bad =>
         p.d = target.beat + M[target.m].part
                 + (IF target.cand = "good" /\ ~p.drtry THEN 1 ELSE 0)

\* The target cancels a wrong doubleword and sends the right one.
LEMMA PinsAreRight ==
  ASSUME NEW a \in AddressPins, NEW d \in DataPins
  PROVE  RightPins(Pins(a, d))
<1>1. target.m # None /\ target.cand = "bad" => d.drtry \/ d.tea
  BY DEF DataPins, Open
<1>2. target.m # None /\ Reads(target.m) /\ Doubleword(d) # Bad =>
        Doubleword(d) = target.beat + M[target.m].part
                          + (IF target.cand = "good" /\ ~d.drtry THEN 1 ELSE 0)
  BY DEF Doubleword, Open
<1>3. Pins(a, d).drtry = d.drtry /\ Pins(a, d).tea = d.tea /\ Pins(a, d).d = Doubleword(d)
  BY DEF Pins
<1>4. QED BY <1>1, <1>2, <1>3 DEF RightPins

\* A master in its data tenure sees the data pins as they are.
LEMMA SeesItsData ==
  ASSUME BiuTypes, Held, Apart, NEW p \in PinSet, NEW m \in Masters, M[m].state \in DataStates
  PROVE  /\ Seen(m, p).ta = p.ta /\ Seen(m, p).drtry = p.drtry
         /\ Seen(m, p).tea = p.tea /\ Seen(m, p).d = p.d
<1>1. CASE m \in Outer
  BY <1>1, OuterSeesItsData
<1>2. CASE m = "push"
  <2>1. dbb_oe("push")
    BY <1>2, PushWrites DEF DataStates
  <2>2. QED BY <1>2, <2>1 DEF Seen, PushPins, PinSet
<1>3. QED BY <1>1, <1>2 DEF Masters

\* No master starts its data tenure while another goes on with its own.
LEMMA StartsAlone ==
  ASSUME BiuTypes, Held, Apart, Remembered, NEW p \in PinSet, \A k \in Masters : Edged(k, p),
         NEW m \in Masters, M[m].state \in DataStates, M'[m].state \in DataStates,
         NEW k \in Masters
  PROVE  ~Starts(k)
<1> SUFFICES ASSUME Starts(k) PROVE FALSE
  OBVIOUS
<1>1. k # m /\ M'[k].state \in DataStates /\ M'[k].state = "DATA_WAIT"
  BY DEF Starts, DataStates
<1>2. Move(m, M[m], M'[m], Seen(m, p))
  BY DEF Edged
<1>3. CASE k \in Outer /\ m \in Outer
  <2>1. Selected = m
    BY <1>3, HolderIsSelected DEF InTenure, DataStates
  <2>2. Selected = k
    BY <1>3, HolderIsSelected DEF InTenure, Starts
  <2>3. QED BY <1>1, <2>1, <2>2
<1>4. CASE k = "push" /\ m \in Outer
  BY <1>1, <1>4, DataApartKept
<1>5. CASE k \in Outer /\ m = "push"
  <2>1. M[m].state = "DATA_WAIT" /\ M[m].ask \notin ReadAsks
    BY <1>5, PushWrites DEF DataStates
  <2>2. M'[m].state \in {"DATA_WAIT", "DATA_RELEASE"}
    BY <1>2, <2>1 DEF Move, WriteMove, Fails, Goes, DataStates
  <2>3. QED BY <1>1, <1>5, <2>2, DataApartKept
<1>6. QED BY <1>1, <1>3, <1>4, <1>5 DEF Masters

\* A master whose data tenure goes on, and the target with it.
LEMMA BeatsTogether ==
  ASSUME BiuTypes, Held, Apart, Remembered, AllMatched, NEW p \in PinSet, RightPins(p),
         \A k \in Masters : Edged(k, p),
         NEW m \in Masters, M[m].state \in DataStates, M'[m].state \in DataStates,
         target' = Judged(target, p)
  PROVE  Matched(m)'
<1> DEFINE r == M[m]
           n == M'[m]
           s == Seen(m, p)
           sent == IF p.ta THEN (IF p.d = Bad THEN "bad" ELSE "good") ELSE "none"
<1>1. /\ r \in RegisterSet /\ n \in RegisterSet /\ Move(m, r, n, s)
      /\ n.state = "CONFIRM" => n.provisional = s.d
  BY DEF Edged, BiuTypes, Good
<1>2. /\ s.ta = p.ta /\ s.drtry = p.drtry /\ s.tea = p.tea /\ s.d = p.d
  BY SeesItsData
<1>3. /\ target.m = m /\ target.beat = r.beat
      /\ r.state = "DATA_WAIT" => target.cand = "none"
      /\ r.state = "REPLACEMENT" => target.cand = "owed"
      /\ r.state = "CONFIRM" => target.cand \in {"good", "bad"}
  BY DEF AllMatched, Matched
<1>4. /\ target.cand = "bad" => p.drtry \/ p.tea
      /\ Reads(m) /\ p.d # Bad =>
           p.d = r.beat + r.part + (IF target.cand = "good" /\ ~p.drtry THEN 1 ELSE 0)
  BY <1>3 DEF RightPins, Masters, Outer, None
<1>5. m # None /\ target \in TargetSet /\ r.beat \in Nat /\ r.part \in Nat
  <2>1. m # None /\ target \in TargetSet
    BY DEF Masters, Outer, None, BiuTypes
  <2>2. r.beat \in 0 .. BEATS - 1 /\ r.part \in 0 .. 1
    BY <1>1 DEF RegisterSet
  <2>3. QED BY <2>1, <2>2
<1>6. p.ta \in BOOLEAN /\ p.drtry \in BOOLEAN /\ p.tea \in BOOLEAN
  BY DEF PinSet
<1>7. /\ r.state \in {"CONFIRM", "REPLACEMENT"} => r.ask \in ReadAsks
      /\ Reads(m) <=> r.ask \in ReadAsks
      /\ r.beat <= LastBeat(m)
      /\ r.state \in {"CONFIRM", "REPLACEMENT"} => (r.final_release <=> r.beat = LastBeat(m))
  BY DEF BiuTypes, Master, Consistent, Counted, Reads, ReadAsks, DataStates
<1>8. n.ask = r.ask /\ n.part = r.part /\ ~p.tea
  BY <1>1, <1>2, <1>7 DEF Move, ReadMove, WriteMove, BreaksOff, Fails, Goes, Ends, DataStates
<1>9. LastBeat(m) \in Nat /\ sent \in {"none", "good", "bad"}
  BY LastBeatRange, BiuAssumption
<1>10. /\ p.ta /\ p.d # Bad => sent = "good"
       /\ p.ta /\ p.d = Bad => sent = "bad"
       /\ ~p.ta => sent = "none"
  OBVIOUS
<1>11. target' = IF Breaks(target, p) THEN NoTenure
                 ELSE IF ~Reads(m)
                   THEN IF ~p.ta THEN target
                        ELSE IF r.beat < LastBeat(m) THEN [target EXCEPT !.beat = @ + 1] ELSE NoTenure
                 ELSE IF target.cand = "none" THEN [target EXCEPT !.cand = sent]
                 ELSE IF p.drtry THEN [target EXCEPT !.cand = IF p.ta THEN sent ELSE "owed"]
                 ELSE IF r.beat < LastBeat(m)
                   THEN [target EXCEPT !.beat = @ + 1, !.cand = sent] ELSE NoTenure
  BY <1>3, <1>8 DEF Judged
<1>12. Breaks(target, p) <=>
         Reads(m) /\ ((target.cand = "none" /\ p.drtry) \/ (target.cand = "owed" /\ ~p.drtry))
  BY <1>3, <1>8 DEF Breaks
<1>13. r.state \in DataStates /\ n.state \in DataStates
  OBVIOUS
<1> DEFINE Agrees ==
             /\ target'.m = m /\ target'.beat = n.beat
             /\ n.state = "DATA_WAIT" => target'.cand = "none"
             /\ n.state = "REPLACEMENT" => target'.cand = "owed"
             /\ n.state = "CONFIRM" =>
                  \/ target'.cand = "good" /\ n.provisional = n.beat + n.part
                  \/ target'.cand = "bad"
<1> SUFFICES Agrees
  BY DEF Matched
<1> HIDE DEF r, n, s, sent
\* The first doubleword of a beat.
<1>14. CASE r.state = "DATA_WAIT" /\ Reads(m)
  <2>1. ~p.drtry /\ n.beat = r.beat /\ n.state = (IF p.ta THEN "CONFIRM" ELSE "DATA_WAIT")
    BY <1>1, <1>2, <1>7, <1>8, <1>13, <1>14 DEF Move, ReadMove, Fails, Goes, DataStates
  <2>2. target' = [target EXCEPT !.cand = sent]
    BY <1>3, <1>11, <1>12, <1>14, <2>1
  <2>3. target'.m = m /\ target'.beat = n.beat /\ target'.cand = sent
    BY <1>3, <1>5, <2>1, <2>2 DEF TargetSet
  <2>4. n.state = "CONFIRM" /\ p.d # Bad => n.provisional = n.beat + n.part
    BY <1>1, <1>2, <1>3, <1>4, <1>5, <1>8, <1>14, <2>1
  <2>5. QED BY <1>10, <2>1, <2>3, <2>4
\* The beat is cancelled, or stands and the next one comes.
<1>15. CASE r.state = "CONFIRM" /\ p.drtry
  <2>1. n.beat = r.beat /\ n.state = (IF p.ta THEN "CONFIRM" ELSE "REPLACEMENT")
    BY <1>1, <1>2, <1>7, <1>8, <1>13, <1>15 DEF Move, ReadMove, Goes, DataStates
  <2>2. target' = [target EXCEPT !.cand = IF p.ta THEN sent ELSE "owed"]
    BY <1>3, <1>7, <1>11, <1>12, <1>15
  <2>3. target'.m = m /\ target'.beat = n.beat /\ target'.cand = (IF p.ta THEN sent ELSE "owed")
    BY <1>3, <1>5, <2>1, <2>2 DEF TargetSet
  <2>4. n.state = "CONFIRM" /\ p.d # Bad => n.provisional = n.beat + n.part
    BY <1>1, <1>2, <1>3, <1>4, <1>5, <1>7, <1>8, <1>15, <2>1
  <2>5. QED BY <1>10, <2>1, <2>3, <2>4
<1>16. CASE r.state = "CONFIRM" /\ ~p.drtry
  <2>1. target.cand = "good" /\ r.ask \in ReadAsks /\ Reads(m)
    BY <1>3, <1>4, <1>7, <1>8, <1>16
  <2>2. /\ r.beat # LastBeat(m) /\ n.beat = r.beat + 1
        /\ n.state = (IF p.ta THEN "CONFIRM" ELSE "DATA_WAIT")
    BY <1>1, <1>2, <1>8, <1>13, <1>16, <2>1 DEF Move, ReadMove, Ends, Goes, DataStates
  <2>3. r.beat < LastBeat(m)
    BY <1>5, <1>7, <1>9, <2>2
  <2>4. target' = [target EXCEPT !.beat = @ + 1, !.cand = sent]
    BY <1>11, <1>12, <1>16, <2>1, <2>3
  <2>5. target'.m = m /\ target'.beat = n.beat /\ target'.cand = sent
    BY <1>3, <1>5, <2>2, <2>4 DEF TargetSet
  <2>6. n.state = "CONFIRM" /\ p.d # Bad => n.provisional = n.beat + n.part
    BY <1>1, <1>2, <1>3, <1>4, <1>5, <1>8, <1>16, <2>1, <2>2
  <2>7. QED BY <1>10, <2>2, <2>5, <2>6
\* The replacement of a cancelled doubleword.
<1>17. CASE r.state = "REPLACEMENT"
  <2>1. r.ask \in ReadAsks /\ Reads(m) /\ target.cand = "owed"
    BY <1>3, <1>7, <1>17
  <2>2. p.drtry /\ n.beat = r.beat /\ n.state = (IF p.ta THEN "CONFIRM" ELSE "REPLACEMENT")
    BY <1>1, <1>2, <1>8, <1>13, <1>17, <2>1 DEF Move, ReadMove, BreaksOff, Ends, Fails, Goes, DataStates
  <2>3. target' = [target EXCEPT !.cand = IF p.ta THEN sent ELSE "owed"]
    BY <1>11, <1>12, <2>1, <2>2
  <2>4. target'.m = m /\ target'.beat = n.beat /\ target'.cand = (IF p.ta THEN sent ELSE "owed")
    BY <1>3, <1>5, <2>2, <2>3 DEF TargetSet
  <2>5. n.state = "CONFIRM" /\ p.d # Bad => n.provisional = n.beat + n.part
    BY <1>1, <1>2, <1>3, <1>4, <1>5, <1>8, <2>1, <2>2
  <2>6. QED BY <1>10, <2>2, <2>4, <2>5
\* The beats of a write.
<1>18. CASE r.state = "DATA_WAIT" /\ ~Reads(m)
  <2>1. WriteMove(m, r, n, s) /\ target.cand = "none" /\ r.ask \notin ReadAsks
    BY <1>1, <1>3, <1>7, <1>18 DEF Move, DataStates
  <2>2. CASE p.ta
    <3>1. r.beat # LastBeat(m) /\ n.beat = r.beat + 1 /\ n.state = "DATA_WAIT"
      BY <1>2, <1>8, <1>13, <1>18, <2>1, <2>2 DEF WriteMove, Goes, DataStates
    <3>2. target' = [target EXCEPT !.beat = @ + 1]
      BY <1>5, <1>7, <1>9, <1>11, <1>12, <1>18, <2>2, <3>1
    <3>3. target'.m = m /\ target'.beat = n.beat /\ target'.cand = "none"
      BY <1>3, <1>5, <2>1, <3>1, <3>2 DEF TargetSet
    <3>4. QED BY <3>1, <3>3
  <2>3. CASE ~p.ta
    <3>1. n.beat = r.beat /\ n.state = "DATA_WAIT"
      BY <1>2, <1>8, <1>13, <1>18, <2>1, <2>3 DEF WriteMove, Goes, DataStates
    <3>2. target' = target
      BY <1>11, <1>12, <1>18, <2>3
    <3>3. QED BY <1>3, <2>1, <3>1, <3>2
  <2>4. QED BY <2>2, <2>3
<1>19. QED BY <1>13, <1>14, <1>15, <1>16, <1>17, <1>18 DEF DataStates

\* The target and the master in its data tenure stay together.
LEMMA MatchedKept ==
  ASSUME BiuTypes, Held, Apart, Remembered, DueExact, AllMatched,
         NEW p \in PinSet, RightPins(p), NEW rsp_ready \in BOOLEAN, Edge(p, rsp_ready),
         \A k \in Masters : Edged(k, p)
  PROVE  AllMatched'
<1> SUFFICES ASSUME NEW m \in Masters, M'[m].state \in DataStates PROVE Matched(m)'
  BY DEF AllMatched, Matched
<1>1. M[m] \in RegisterSet /\ Move(m, M[m], M'[m], Seen(m, p)) /\ m # None
  BY DEF Edged, BiuTypes, Masters, Outer, None
<1>2. target' = IF DataStarts # {} THEN [NoTenure EXCEPT !.m = IF due = <<>> THEN None ELSE Expected(p)]
                ELSE IF target.m = None THEN target ELSE Judged(target, p)
  BY DEF Edge, Target
<1>3. M[m].state \in DataStates \/ (M[m].state = "DATA_REQUEST" /\ M'[m].state = "DATA_WAIT")
  BY <1>1 DEF Move, IdleMove, FinishMove, AddressMove, Goes, Ends, RegisterSet, States,
              BeforeData, AddressStates, DataStates
<1>4. CASE M[m].state = "DATA_REQUEST" /\ M'[m].state = "DATA_WAIT"
  <2>1. Starts(m) /\ DataStarts # {}
    BY <1>4 DEF Starts, DataStarts
  <2>2. due # <<>> /\ Expected(p) = m
    BY <2>1, StarterIsExpected
  <2>3. target' = [NoTenure EXCEPT !.m = m]
    BY <1>2, <2>1, <2>2
  <2>4. M[m].beat = 0 /\ M'[m].beat = M[m].beat
    BY <1>1, <1>4 DEF BiuTypes, Master, Consistent, Move, BeforeData
  <2>5. target'.m = m /\ target'.beat = 0 /\ target'.cand = "none"
    BY <2>3 DEF NoTenure
  <2>6. QED BY <1>4, <2>4, <2>5 DEF Matched
<1>5. CASE M[m].state \in DataStates
  <2>1. \A k \in Masters : ~Starts(k)
    BY <1>5, StartsAlone
  <2>2. DataStarts = {}
    BY <2>1 DEF DataStarts, Starts
  <2>3. target.m = m
    BY <1>5 DEF AllMatched, Matched
  <2>4. target' = Judged(target, p)
    BY <1>1, <1>2, <2>2, <2>3
  <2>5. QED BY <1>5, <2>4, BeatsTogether
<1>6. QED BY <1>3, <1>4, <1>5

-----------------------------------------------------------------------------
(* What the access has brought.                                            *)

LastOf(m, r) == IF m = "scalar" \/ r.ask \in {"split", "address"} THEN 0 ELSE BEATS - 1

Place(r, b) == IF r.ask = "wrap" THEN (BEATS - 1 + b) % BEATS ELSE b + r.part

\* The first n doublewords are in their places.
Filled(r, n) == \A b \in 0 .. n - 1 : r.got[Place(r, b)] = b + r.part

GotRight(m, r) ==
  r.ask \in ReadAsks =>
    /\ r.state \in DataStates => Filled(r, r.beat)
    /\ r.state = "FINISH" /\ ~r.err => Filled(r, LastOf(m, r) + 1)
    /\ r.rsp = "ok" => Filled(r, LastOf(m, r) + 1)
    /\ r.part = 1 => r.got[0] = 0
    /\ r.rsp = "ok" /\ r.ask = "split" => r.part = 1

AllGot == \A m \in Masters : GotRight(m, M[m])

\* The last beat and the place of a doubleword, told from the registers.
LEMMA AsInTheSource ==
  ASSUME NEW m \in Masters
  PROVE  LastBeat(m) = LastOf(m, M[m]) /\ \A b \in Nat : Slot(m, b) = Place(M[m], b)
BY DEF LastBeat, LastOf, Slot, Place

\* Two beats of an access go to different places.
LEMMA PlacesDiffer ==
  ASSUME NEW m \in Masters, NEW r \in RegisterSet,
         NEW b \in 0 .. LastOf(m, r), NEW c \in 0 .. LastOf(m, r), b # c
  PROVE  Place(r, b) # Place(r, c) /\ Place(r, b) \in Nat
<1>1. LastOf(m, r) \in 0 .. BEATS - 1 /\ BEATS \in Nat /\ BEATS >= 2 /\ r.part \in 0 .. 1
  BY BiuAssumption DEF LastOf, RegisterSet
<1>2. b \in 0 .. BEATS - 1 /\ c \in 0 .. BEATS - 1
  BY <1>1
<1>3. CASE r.ask = "wrap"
  <2>1. \A x \in 0 .. BEATS - 1 : (BEATS - 1 + x) % BEATS = IF x = 0 THEN BEATS - 1 ELSE x - 1
    BY <1>1, WrappedBeat
  <2>2. Place(r, b) = (IF b = 0 THEN BEATS - 1 ELSE b - 1) /\ Place(r, c) = (IF c = 0 THEN BEATS - 1 ELSE c - 1)
    BY <1>2, <1>3, <2>1 DEF Place
  <2>3. QED BY <1>1, <1>2, <2>2
<1>4. CASE r.ask # "wrap"
  BY <1>1, <1>2, <1>4 DEF Place
<1>5. QED BY <1>3, <1>4

\* One more doubleword is in its place.
LEMMA OneMore ==
  ASSUME NEW m \in Masters, NEW r \in RegisterSet, NEW n, n.ask = r.ask, n.part = r.part,
         r.beat <= LastOf(m, r), Place(r, r.beat) \in 0 .. BEATS - 1,
         n.got = [r.got EXCEPT ![Place(r, r.beat)] = r.beat + r.part], Filled(r, r.beat)
  PROVE  Filled(n, r.beat + 1)
<1>1. r.beat \in Nat /\ LastOf(m, r) \in Nat /\ r.got \in [0 .. BEATS - 1 -> Int]
  BY BiuAssumption DEF LastOf, RegisterSet
<1> SUFFICES ASSUME NEW b \in 0 .. r.beat PROVE n.got[Place(n, b)] = b + n.part
  BY <1>1 DEF Filled
<1>2. Place(n, b) = Place(r, b)
  BY DEF Place
<1>3. CASE b = r.beat
  BY <1>1, <1>2, <1>3
<1>4. CASE b # r.beat
  <2>1. b \in 0 .. r.beat - 1
    BY <1>1, <1>4
  <2>2. r.got[Place(r, b)] = b + r.part
    BY <2>1 DEF Filled
  <2>3. Place(r, b) # Place(r, r.beat)
    <3>1. b \in 0 .. LastOf(m, r) /\ r.beat \in 0 .. LastOf(m, r)
      BY <1>1
    <3>2. QED BY <1>4, <3>1, PlacesDiffer
  <2>4. n.got[Place(r, b)] = r.got[Place(r, b)]
    BY <1>1, <2>3
  <2>5. QED BY <1>2, <2>2, <2>4
<1>5. QED BY <1>3, <1>4

\* What an edge of a reading master in its data tenure makes of what it has got.
LEMMA ReadGot ==
  ASSUME BiuTypes, Held, Apart, AllMatched, NEW p \in PinSet, RightPins(p),
         NEW m \in Masters, NEW r, r = M[m], NEW n, Move(m, r, n, Seen(m, p)),
         r.state \in DataStates, r.ask \in ReadAsks, GotRight(m, r)
  PROVE  GotRight(m, n)
<1> DEFINE s == Seen(m, p)
<1>1. r \in RegisterSet /\ Consistent(m, r) /\ Counted(m, r)
  BY DEF BiuTypes, Master
<1>2. ReadMove(m, r, n, s)
  BY DEF Move
<1>3. /\ r.rsp = None /\ ~r.err /\ r.beat \in Nat /\ r.beat <= LastOf(m, r) /\ r.part \in 0 .. 1
      /\ r.part = 1 => r.ask = "split"
      /\ r.beat \in 0 .. LastOf(m, r)
  <2>1. r.beat \in Nat /\ r.part \in 0 .. 1
    BY <1>1, BiuAssumption DEF RegisterSet
  <2>2. r.rsp = None /\ ~r.err /\ (r.part = 1 => r.ask = "split")
    BY <1>1 DEF Consistent, DataStates
  <2>3. r.beat <= LastOf(m, r) /\ LastOf(m, r) \in Nat
    BY <1>1, AsInTheSource, BiuAssumption DEF Counted, LastOf
  <2>4. QED BY <2>1, <2>2, <2>3
<1>4. n.ask = r.ask /\ n.part = r.part /\ LastOf(m, n) = LastOf(m, r)
  BY <1>2 DEF ReadMove, BreaksOff, Fails, Goes, Ends, LastOf, DataStates
<1> HIDE DEF s
\* The beat stands: its doubleword is put in its place.
<1>5. CASE r.state = "CONFIRM" /\ ~s.tea /\ ~s.drtry
  <2>1. ~p.tea /\ ~p.drtry
    BY <1>5, SeesItsData DEF s
  <2>2. target.m = m /\ (target.cand = "good" => r.provisional = r.beat + r.part)
    BY <1>5, Zenon DEF AllMatched, Matched
  <2>3. target.m # None /\ target.cand \in {"good", "bad"}
    BY <1>5, <2>2 DEF AllMatched, Matched, Masters, Outer, None
  <2>4. r.provisional = r.beat + r.part
    BY <2>1, <2>2, <2>3 DEF RightPins
  <2>5. Slot(m, r.beat) = Place(r, r.beat) /\ LastBeat(m) = LastOf(m, r)
    BY <1>3, AsInTheSource
  <2>6. Place(r, r.beat) \in 0 .. BEATS - 1
    BY <1>3, <2>5, SlotRange
  <2>7. n.got = [r.got EXCEPT ![Place(r, r.beat)] = r.beat + r.part]
    BY <1>2, <1>5, <2>4, <2>5 DEF ReadMove, Fills
  <2>8. Filled(r, r.beat)
    BY DEF GotRight
  <2>9. Filled(n, r.beat + 1)
    BY <1>1, <1>3, <1>4, <2>6, <2>7, <2>8, OneMore
  <2>10. r.part = 1 => n.got[0] = 0
    <3> SUFFICES ASSUME r.part = 1 PROVE n.got[0] = 0
      OBVIOUS
    <3>1. r.ask = "split" /\ r.got[0] = 0 /\ r.beat = 0
      BY <1>3 DEF GotRight, LastOf
    <3>2. Place(r, r.beat) = 1
      BY <3>1 DEF Place
    <3>3. QED BY <1>1, <2>7, <3>1, <3>2, BiuAssumption DEF RegisterSet
  <2>11. CASE r.beat = LastBeat(m)
    <3>1. Ends(m, r, n, "ok")
      BY <1>2, <1>5, <2>11 DEF ReadMove
    <3>2. Filled(n, LastOf(m, n) + 1)
      BY <1>4, <2>5, <2>9, <2>11
    <3>3. HasSlot(m) \/ r.ask # "split"
      BY <1>1 DEF Consistent, HasSlot, Masters, Outer, MayAsk, None
    <3>4. n.state \notin DataStates /\ (n.rsp = "ok" => n.ask # "split")
      BY <1>3, <1>4, <3>1, <3>3 DEF Ends, DataStates, None
    <3>5. QED BY <1>4, <2>10, <3>2, <3>4 DEF GotRight
  <2>12. CASE r.beat # LastBeat(m)
    <3>1. n.beat = r.beat + 1 /\ n.state \in {"CONFIRM", "DATA_WAIT"} /\ n.rsp = r.rsp
      BY <1>2, <1>5, <2>12 DEF ReadMove, Goes
    <3>2. Filled(n, n.beat)
      BY <2>9, <3>1
    <3>3. QED BY <1>3, <1>4, <2>10, <3>1, <3>2 DEF GotRight, None
  <2>13. QED BY <2>11, <2>12
<1>6. CASE ~(r.state = "CONFIRM" /\ ~s.tea /\ ~s.drtry)
  <2>1. /\ n.got = r.got /\ n.rsp # "ok"
        /\ n.state \in DataStates => n.beat = r.beat
        /\ n.state = "FINISH" => n.err
    BY <1>2, <1>3, <1>6 DEF ReadMove, BreaksOff, Fails, Goes, Ends, DataStates, None
  <2>2. Filled(n, r.beat)
    <3>1. Filled(r, r.beat)
      BY DEF GotRight
    <3>2. \A b \in 0 .. r.beat - 1 : Place(n, b) = Place(r, b)
      BY <1>4 DEF Place
    <3>3. QED BY <1>4, <2>1, <3>1, <3>2 DEF Filled
  <2>3. n.part = 1 => n.got[0] = 0
    BY <1>4, <2>1 DEF GotRight
  <2>4. n.state \in DataStates => Filled(n, n.beat)
    BY <2>1, <2>2
  <2>5. QED BY <2>1, <2>3, <2>4 DEF GotRight
<1>7. QED BY <1>5, <1>6

\* What is in its place stays there while nothing is put elsewhere.
LEMMA SameGot ==
  ASSUME NEW r, NEW n, NEW k \in Nat, n.got = r.got, n.ask = r.ask, n.part = r.part, Filled(r, k)
  PROVE  Filled(n, k)
<1>1. \A b \in 0 .. k - 1 : Place(n, b) = Place(r, b)
  BY DEF Place
<1>2. QED BY <1>1 DEF Filled

\* What an edge makes of what a master has got.
LEMMA GotNext ==
  ASSUME BiuTypes, Held, Apart, AllMatched, NEW p \in PinSet, RightPins(p),
         NEW m \in Masters, NEW r, r = M[m], NEW n, Move(m, r, n, Seen(m, p)),
         GotRight(m, r)
  PROVE  GotRight(m, n)
<1>1. r \in RegisterSet /\ Consistent(m, r) /\ LastOf(m, r) \in Nat
  BY BiuAssumption DEF BiuTypes, Master, LastOf
<1>2. CASE r.state = "IDLE"
  <2>1. IdleMove(r, n)
    BY <1>2 DEF Move
  <2>2. CASE n.part = 0 /\ n.rsp = None /\ n.state \in {"IDLE", "ADDR_REQUEST"}
    BY <2>2 DEF GotRight, DataStates, None
  <2>3. CASE /\ n.state \in {"IDLE", "ADDR_REQUEST"} /\ n.got = r.got
             /\ n.ask = r.ask /\ n.part = r.part /\ n.rsp = r.rsp
    <3>1. LastOf(m, n) = LastOf(m, r)
      BY <2>3 DEF LastOf
    <3>2. n.ask \in ReadAsks /\ n.rsp = "ok" => Filled(n, LastOf(m, n) + 1)
      BY <1>1, <2>3, <3>1, SameGot DEF GotRight
    <3>3. QED BY <2>3, <3>2 DEF GotRight, DataStates
  <2>4. QED BY <2>1, <2>2, <2>3 DEF IdleMove
<1>3. CASE r.state \in BeforeData
  <2>1. AddressMove(m, r, n, Seen(m, p)) /\ n.got = r.got /\ n.beat = r.beat
    BY <1>3 DEF Move
  <2>2. r.beat = 0 /\ ~r.err /\ r.rsp = None
    BY <1>1, <1>3 DEF Consistent, BeforeData, AddressStates
  <2>3. /\ n.ask = r.ask /\ n.part = r.part
        /\ r.ask \in ReadAsks => n.rsp # "ok" /\ (n.state = "FINISH" => n.err)
    BY <1>3, <2>1, <2>2 DEF AddressMove, Goes, Ends, BeforeData, AddressStates, ReadAsks, None
  <2>4. n.beat = 0 => Filled(n, n.beat)
    BY DEF Filled
  <2>5. QED BY <2>1, <2>2, <2>3, <2>4 DEF GotRight
<1>4. CASE r.state \in DataStates
  <2>1. CASE r.ask \in ReadAsks
    BY <1>4, <2>1, ReadGot
  <2>2. CASE r.ask \notin ReadAsks
    <3>1. n.ask = r.ask
      BY <1>4, <2>2 DEF Move, WriteMove, Fails, Goes
    <3>2. QED BY <2>2, <3>1 DEF GotRight
  <2>3. QED BY <2>1, <2>2
<1>5. CASE r.state = "DATA_RELEASE"
  <2>1. n.got = r.got /\ Ends(m, r, n, IF r.err THEN "error" ELSE "ok")
    BY <1>5 DEF Move
  <2>2. r.ask \in ReadAsks => r.err /\ r.rsp = None
    BY <1>1, <1>5 DEF Consistent
  <2>3. r.ask \in ReadAsks => n.rsp # "ok" /\ (n.state = "FINISH" => n.err) /\ n.state \notin DataStates
    BY <2>1, <2>2 DEF Ends, DataStates, None
  <2>4. n.ask = r.ask /\ n.part = r.part
    BY <2>1 DEF Ends
  <2>5. QED BY <2>1, <2>3, <2>4 DEF GotRight
<1>6. CASE r.state = "FINISH"
  <2>1. FinishMove(r, n)
    BY <1>6 DEF Move
  <2>2. r.rsp = None /\ r.part \in 0 .. 1
    BY <1>1, <1>6 DEF Consistent, RegisterSet
  <2>3. CASE r.ask = "split" /\ r.part = 0 /\ ~r.err
    <3>1. n.state = "IDLE" /\ n.ask = r.ask /\ n.got = r.got /\ n.part = 1 /\ n.rsp = None
      BY <2>1, <2>2, <2>3 DEF FinishMove
    <3>2. Filled(r, 1)
      BY <1>6, <2>3 DEF GotRight, LastOf, ReadAsks
    <3>3. r.got[0] = 0
      BY <2>3, <3>2 DEF Filled, Place
    <3>4. QED BY <3>1, <3>3 DEF GotRight, DataStates, None
  <2>4. CASE ~(r.ask = "split" /\ r.part = 0 /\ ~r.err)
    <3>1. /\ n.state = "IDLE" /\ n.ask = r.ask /\ n.got = r.got /\ n.part = r.part
          /\ n.rsp = (IF r.err THEN "error" ELSE "ok")
      BY <2>1, <2>4 DEF FinishMove
    <3>2. LastOf(m, n) = LastOf(m, r)
      BY <3>1 DEF LastOf
    <3>3. n.ask \in ReadAsks /\ n.rsp = "ok" => Filled(n, LastOf(m, n) + 1)
      BY <1>1, <1>6, <3>1, <3>2, SameGot DEF GotRight
    <3>4. n.rsp = "ok" /\ n.ask = "split" => n.part = 1
      BY <2>2, <2>4, <3>1
    <3>5. QED BY <3>1, <3>3, <3>4 DEF GotRight, DataStates
  <2>5. QED BY <2>3, <2>4
<1>7. QED BY <1>1, <1>2, <1>3, <1>4, <1>5, <1>6 DEF RegisterSet, States

\* What has been confirmed stays right.
LEMMA GotKept ==
  ASSUME BiuTypes, Held, Apart, AllMatched, AllGot, NEW p \in PinSet, RightPins(p),
         \A k \in Masters : Edged(k, p)
  PROVE  AllGot'
<1> SUFFICES ASSUME NEW m \in Masters PROVE GotRight(m, M'[m])
  BY DEF AllGot
<1>1. Move(m, M[m], M'[m], Seen(m, p)) /\ GotRight(m, M[m])
  BY DEF Edged, AllGot
<1>2. QED BY <1>1, GotNext

-----------------------------------------------------------------------------
(* What has gone wrong.                                                    *)

\* An access is on its way to an error response.
Erring(r) == r.state = "ADDR_ABORT" \/ r.err \/ r.rsp = "error"

ErrorsKnown == \A m \in Masters : Erring(M[m]) => protocol_error \/ m \in failed

\* An access goes wrong by TEA or by a broken rule.
LEMMA HowItErrs ==
  ASSUME BiuTypes, Held, Apart, AllMatched, NEW p \in PinSet, NEW m \in Masters,
         Edged(m, p), Erring(M'[m]), ~Erring(M[m])
  PROVE  Illegal(m, Seen(m, p)) \/ (p.tea /\ target.m = m)
<1> DEFINE r == M[m]
           n == M'[m]
           s == Seen(m, p)
<1>1. r \in RegisterSet /\ Consistent(m, r) /\ Move(m, r, n, s)
  BY DEF Edged, BiuTypes, Master
<1>2. ~r.err /\ r.rsp # "error" /\ r.state # "ADDR_ABORT"
  BY DEF Erring
<1>3. Reads(m) <=> r.ask \in ReadAsks
  BY DEF Reads, ReadAsks
<1>4. r.state \in DataStates => target.m = m /\ s.tea = p.tea
  BY SeesItsData DEF AllMatched, Matched
<1>5. CASE r.state \in BeforeData
  <2>1. AddressMove(m, r, n, s)
    BY <1>1, <1>5 DEF Move
  <2>2. r.state = "ADDR_TRANSFER" /\ s.aack
    BY <1>2, <1>5, <2>1 DEF AddressMove, Goes, Ends, Erring, BeforeData, AddressStates
  <2>3. QED BY <2>2 DEF Illegal
<1>6. CASE r.state \in DataStates /\ r.ask \in ReadAsks
  <2>1. ReadMove(m, r, n, s)
    BY <1>1, <1>6 DEF Move
  <2>2. \/ s.tea
        \/ r.state = "DATA_WAIT" /\ s.drtry
        \/ r.state = "REPLACEMENT" /\ ~s.drtry
    BY <1>2, <1>6, <2>1 DEF ReadMove, BreaksOff, Fails, Goes, Ends, Erring, DataStates
  <2>3. QED BY <1>3, <1>4, <1>6, <2>2 DEF Illegal
<1>7. CASE r.state \in DataStates /\ r.ask \notin ReadAsks
  <2>1. WriteMove(m, r, n, s)
    BY <1>1, <1>7 DEF Move
  <2>2. s.tea
    BY <1>2, <1>7, <2>1 DEF WriteMove, Fails, Goes, Erring, DataStates
  <2>3. QED BY <1>4, <1>7, <2>2
<1>8. CASE r.state \in {"IDLE", "DATA_RELEASE", "FINISH"}
  BY <1>1, <1>2, <1>8 DEF Move, IdleMove, FinishMove, Ends, Erring, None, HasSlot
<1>9. QED BY <1>1, <1>5, <1>6, <1>7, <1>8 DEF RegisterSet, States

\* An error comes from a TEA of the target or a broken rule.
LEMMA ErrorsKept ==
  ASSUME BiuTypes, Held, Apart, AllMatched, ErrorsKnown, NEW p \in PinSet,
         NEW rsp_ready \in BOOLEAN, Edge(p, rsp_ready), \A k \in Masters : Edged(k, p)
  PROVE  ErrorsKnown'
<1> SUFFICES ASSUME NEW m \in Masters, Erring(M'[m]) PROVE protocol_error' \/ m \in failed'
  BY DEF ErrorsKnown, Erring
<1>1. protocol_error' = (protocol_error \/ \E k \in Masters : Illegal(k, Seen(k, p)))
  BY DEF Edge
<1>2. failed' = {k \in Masters : (k \in failed \/ (p.tea /\ target.m = k)) /\ M'[k].ask # None}
  BY DEF Edge, Target
<1>3. M'[m].ask # None
  BY DEF Edged, Good, Consistent, Erring, None
<1>4. CASE Erring(M[m])
  <2>1. protocol_error \/ m \in failed
    BY <1>4 DEF ErrorsKnown
  <2>2. QED BY <1>1, <1>2, <1>3, <2>1
<1>5. CASE ~Erring(M[m])
  <2>1. Illegal(m, Seen(m, p)) \/ (p.tea /\ target.m = m)
    BY <1>5, HowItErrs
  <2>2. QED BY <1>1, <1>2, <1>3, <2>1
<1>6. QED BY <1>4, <1>5

-----------------------------------------------------------------------------
(* The invariant of the unit.                                              *)

BusInv ==
  /\ BiuTypes
  /\ Held /\ Apart /\ Remembered
  /\ DueExact /\ AllMatched
  /\ AllGot /\ ErrorsKnown

\* The invariant holds after reset.
LEMMA BusInit == BiuInit => BusInv
<1> SUFFICES ASSUME BiuInit PROVE BusInv
  OBVIOUS
<1>1. BiuTypes
  BY InitTypes
<1>2. \A m \in Masters : M[m] = Registers
  BY DEF BiuInit
<1>3. /\ Registers.state = "IDLE" /\ Registers.ask = None /\ ~Registers.err /\ Registers.rsp = None
  BY DEF Registers
<1>4. Outer \subseteq Masters /\ "push" \in Masters
  BY DEF Masters
<1>5. Held
  BY <1>2, <1>3, <1>4 DEF Held, InTenure
<1>6. Apart
  BY <1>2, <1>3, <1>4 DEF Apart, AddressStates, DataStates
<1>7. Remembered
  BY <1>2, <1>3, <1>4 DEF Remembered, AddressStates
<1>8. DueExact
  BY <1>2, <1>3 DEF DueExact, Waits, BiuInit
<1>9. AllMatched
  BY <1>2, <1>3 DEF AllMatched, Matched, DataStates
<1>10. AllGot
  BY <1>2, <1>3 DEF AllGot, GotRight, ReadAsks, None
<1>11. ErrorsKnown
  BY <1>2, <1>3 DEF ErrorsKnown, Erring, None
<1>12. QED BY <1>1, <1>5, <1>6, <1>7, <1>8, <1>9, <1>10, <1>11 DEF BusInv

\* Nothing but the types depends on what the clients want.
LEMMA BusSame ==
  ASSUME BusInv, BiuTypes',
         UNCHANGED <<M, inner, outer, outer_owed, outer_tt, outer_aack_q, outer_dbb_q, pe_owed,
                     pe_aack_q, protocol_error, due, failed, target>>
  PROVE  BusInv'
<1>1. Held'
  BY DEF BusInv, Held, Holds
<1>2. Apart'
  BY DEF BusInv, Apart
<1>3. Remembered'
  BY DEF BusInv, Remembered, Reads
<1>4. DueExact'
  BY DEF BusInv, DueExact, Waits
<1>5. AllMatched'
  BY DEF BusInv, AllMatched, Matched
<1>6. AllGot' /\ ErrorsKnown'
  BY DEF BusInv, AllGot, ErrorsKnown
<1>7. QED BY <1>1, <1>2, <1>3, <1>4, <1>5, <1>6 DEF BusInv

\* An edge keeps it.
LEMMA BusEdge ==
  ASSUME BusInv, NEW p \in PinSet, RightPins(p), NEW rsp_ready \in BOOLEAN, Edge(p, rsp_ready)
  PROVE  BusInv'
<1>1. BiuTypes /\ Held /\ Apart /\ Remembered /\ DueExact /\ AllMatched /\ AllGot /\ ErrorsKnown
  BY DEF BusInv
<1>2. \A m \in Masters : Edged(m, p)
  BY <1>1, EdgeMasters
<1>3. BiuTypes'
  BY <1>1, EdgeTypes
<1>4. Held' /\ Remembered'
  BY <1>1, <1>2, HeldKept, RememberedKept
<1>5. Apart'
  BY <1>1, <1>2, ApartKept
<1>6. DueExact' /\ AllMatched'
  BY <1>1, <1>2, DueKept, MatchedKept
<1>7. AllGot' /\ ErrorsKnown'
  BY <1>1, <1>2, GotKept, ErrorsKept
<1>8. QED BY <1>3, <1>4, <1>5, <1>6, <1>7 DEF BusInv

\* Every step keeps it.
LEMMA BusKept == BusInv /\ [BiuNext]_biuVars => BusInv'
<1> SUFFICES ASSUME BusInv, [BiuNext]_biuVars PROVE BusInv'
  OBVIOUS
<1>1. BiuTypes /\ BiuTypes'
  BY TypesKept DEF BusInv
<1>2. CASE Clock
  <2>1. PICK a \in AddressPins, d \in DataPins, rsp_ready \in BOOLEAN : Edge(Pins(a, d), rsp_ready)
    BY <1>2 DEF Clock
  <2>2. Pins(a, d) \in PinSet /\ RightPins(Pins(a, d))
    BY <1>1, PinsTyped, PinsAreRight
  <2>3. QED BY <2>1, <2>2, BusEdge
<1>3. CASE \E m \in Masters : \E ask \in Asks[m] : Ask(m, ask)
  BY <1>1, <1>3, BusSame DEF Ask
<1>4. CASE UNCHANGED biuVars
  BY <1>1, <1>4, BusSame DEF biuVars
<1>5. QED BY <1>2, <1>3, <1>4 DEF BiuNext

\* It is an invariant of the unit.
LEMMA BusInvHolds == BiuSpec => []BusInv
BY BusInit, BusKept, PTL DEF BiuSpec

\* InStep and TenureOwned.
LEMMA BusInOrder == BusInv => InStep /\ TenureOwned
<1> SUFFICES ASSUME BusInv PROVE InStep /\ TenureOwned
  OBVIOUS
<1>1. InStep
  BY DEF BusInv, AllMatched, Matched, InStep, DataStates
<1>2. TenureOwned
  BY HolderIsSelected DEF BusInv, TenureOwned, InTenure
<1>3. QED BY <1>1, <1>2

\* ResponseExact: a good response holds what the target stood by.
LEMMA BusAnswers == BusInv => ResponseExact
<1> SUFFICES ASSUME BusInv, NEW m \in Masters
             PROVE  /\ M[m].rsp = "ok" /\ Reads(m) =>
                         \A b \in 0 .. Doublewords(m) - 1 :
                           M[m].got[IF M[m].ask = "wrap" THEN (BEATS - 1 + b) % BEATS ELSE b] = b
                    /\ M[m].rsp = "error" => protocol_error \/ m \in failed
  BY DEF ResponseExact
<1>1. M[m].rsp = "error" => protocol_error \/ m \in failed
  BY DEF BusInv, ErrorsKnown, Erring
<1>2. ASSUME M[m].rsp = "ok", Reads(m), NEW b \in 0 .. Doublewords(m) - 1
      PROVE  M[m].got[IF M[m].ask = "wrap" THEN (BEATS - 1 + b) % BEATS ELSE b] = b
  <2> DEFINE r == M[m]
  <2>1. r \in RegisterSet /\ Consistent(m, r) /\ GotRight(m, r)
    BY DEF BusInv, BiuTypes, Master, AllGot
  <2>2. r.ask \in ReadAsks /\ Filled(r, LastOf(m, r) + 1) /\ (r.part = 1 => r.ask = "split")
        /\ (r.ask = "split" => r.part = 1 /\ r.got[0] = 0)
    BY <1>2, <2>1 DEF GotRight, Reads, ReadAsks, Consistent
  <2>3. r.part \in 0 .. 1 /\ BEATS \in Nat /\ BEATS >= 2
    BY <2>1, BiuAssumption DEF RegisterSet
  <2> HIDE DEF r
  <2>4. CASE r.ask = "split"
    <3>1. m # "scalar"
      BY <2>1, <2>4 DEF Consistent, MayAsk, None
    <3>2. b \in 0 .. 1 /\ r.got[0] = 0
      BY <1>2, <2>2, <2>4, <3>1 DEF Doublewords, r
    <3>3. r.got[1] = 1
      <4>1. 0 \in 0 .. LastOf(m, r) /\ Place(r, 0) = 1
        BY <2>2, <2>4 DEF LastOf, Place
      <4>2. QED BY <2>2, <2>4, <4>1 DEF Filled, LastOf
    <3>4. QED BY <2>4, <3>2, <3>3 DEF r
  <2>5. CASE r.ask # "split"
    <3>1. r.part = 0
      BY <2>2, <2>3, <2>5
    <3>2. LastOf(m, r) = Doublewords(m) - 1
      BY <2>2, <2>3, <2>5 DEF LastOf, Doublewords, ReadAsks, r
    <3>3. b \in 0 .. (LastOf(m, r) + 1) - 1
      BY <1>2, <2>3, <3>2 DEF LastOf
    <3>4. r.got[Place(r, b)] = b
      BY <2>2, <3>1, <3>3 DEF Filled
    <3>5. Place(r, b) = IF r.ask = "wrap" THEN (BEATS - 1 + b) % BEATS ELSE b
      BY <3>1, <3>3 DEF Place
    <3>6. QED BY <3>4, <3>5 DEF r
  <2>6. QED BY <2>4, <2>5
<1>3. QED BY <1>1, <1>2

\* TenuresExact: the masters and the target agree on whose data moves and at
\* which beat, whatever overtakes and is retried; a good response holds what
\* the target stood by; and the pins belong to a tenure until it ends.
THEOREM TenuresAreExact == BiuSpec => []TenuresExact
<1>1. BusInv => TenuresExact
  BY BusInOrder, BusAnswers DEF TenuresExact
<1>2. QED BY <1>1, BusInvHolds, PTL

-----------------------------------------------------------------------------
(* The router in front of the scalar master answers the right client or    *)
(* stops, for every set of tags and requests and with or without the       *)
(* return of fetch errors.  What the masters answer it with is             *)
(* TenuresAreExact: the system's steps are steps of the bus unit.          *)
(* The inductive invariant of the router.                                  *)

ArbTypes ==
  /\ state \in {"IDLE", "OFFER", "RESPONSE", "FATAL"}
  /\ owner \in Sides /\ last_grant \in Sides
  /\ ifetch_error \in BOOLEAN
  /\ offers \in [Sides -> SUBSET Tags] /\ waits \in [Sides -> SUBSET Tags]

\* A client has one access: it offers it, or it waits for it.
OneAccess ==
  \A s \in Sides :
    \/ offers[s] = {}
    \/ waits[s] = {} /\ \E t \in Tags : offers[s] = {t}

\* From the grant to the response the request is the owner's access, and the
\* adapter has exactly that request while its response is awaited.
InHand ==
  /\ state \in {"OFFER", "RESPONSE"} =>
       request.side = owner /\ waits[owner] = {request.tag}
  /\ adapter = IF state = "RESPONSE" THEN request ELSE Nothing

\* The router stops exactly with the recorded error.
StopsWithError == ifetch_error <=> state = "FATAL"

ArbInv == ArbTypes /\ OneAccess /\ InHand /\ StopsWithError

\* A step of the router, whichever edge it belongs to.
ArbStep ==
  \/ \E side \in Sides, tag \in Tags : Offer(side, tag)
  \/ \E side \in Sides : Grant(side)
  \/ AdapterAccepts
  \/ \E error \in BOOLEAN : Respond(error)
  \/ Fatal

LEMMA SystemSteps ==
  /\ SysInit => BiuInit /\ ArbInit
  /\ [SysNext]_sysVars => [BiuNext]_biuVars /\ [ArbStep]_arbVars
<1>1. SysInit => BiuInit /\ ArbInit  BY DEF SysInit
<1>2. RouterOffer => [BiuNext]_biuVars /\ [ArbStep]_arbVars
  BY DEF RouterOffer, ArbStep
<1>3. RouterGrant => [BiuNext]_biuVars /\ [ArbStep]_arbVars
  <2>1. "scalar" \in Masters  BY DEF Masters, Outer
  <2> QED  BY <2>1 DEF RouterGrant, ArbStep, BiuNext
<1>4. CacheAsk => [BiuNext]_biuVars /\ [ArbStep]_arbVars
  BY DEF CacheAsk, BiuNext
<1>5. SysClock => [BiuNext]_biuVars /\ [ArbStep]_arbVars
  <2> SUFFICES ASSUME NEW a \in AddressPins, NEW d \in DataPins,
                      NEW rsp_ready \in IF Answering THEN BOOLEAN ELSE {TRUE},
                      SysEdge(a, d, rsp_ready)
               PROVE  [BiuNext]_biuVars /\ [ArbStep]_arbVars
    BY DEF SysClock
  <2>1. BiuNext  BY DEF SysEdge, BiuNext, Clock
  <2>2. [ArbStep]_arbVars
    <3> DEFINE error == M["scalar"].rsp = "error"
    <3>1. error \in BOOLEAN  OBVIOUS
    <3>2. AdapterAccepts \/ Respond(error) \/ Fatal \/ UNCHANGED arbVars
      BY DEF SysEdge, Router
    <3> HIDE DEF error
    <3> QED  BY <3>1, <3>2 DEF ArbStep
  <2> QED  BY <2>1, <2>2
<1>6. UNCHANGED sysVars => [BiuNext]_biuVars /\ [ArbStep]_arbVars
  BY DEF sysVars
<1> QED  BY <1>1, <1>2, <1>3, <1>4, <1>5, <1>6 DEF SysNext

LEMMA ArbStart == ArbInit => ArbInv
BY DEF ArbInit, ArbInv, ArbTypes, OneAccess, InHand, StopsWithError, Sides, Nothing

\* Each step of the router keeps its invariant, and answers the right client
\* or stops for good.
LEMMA ArbMoves ==
  ASSUME ArbInv, [ArbStep]_arbVars
  PROVE  ArbInv' /\ AnswersOwner /\ FatalStops
<1> USE DEF ArbInv
<1>1. ASSUME NEW side \in Sides, NEW tag \in Tags, Offer(side, tag)
      PROVE  ArbInv' /\ AnswersOwner /\ FatalStops
  <2>1. /\ state' = state /\ owner' = owner /\ last_grant' = last_grant
        /\ request' = request /\ ifetch_error' = ifetch_error
        /\ waits' = waits /\ adapter' = adapter /\ given' = {}
        /\ waits[side] = {}
        /\ offers' = [offers EXCEPT ![side] = {tag}]
    BY <1>1 DEF Offer
  <2>2. offers' \in [Sides -> SUBSET Tags]  BY <2>1 DEF ArbTypes
  <2>3. OneAccess'
    <3> SUFFICES ASSUME NEW s \in Sides
                 PROVE  \/ offers'[s] = {}
                        \/ waits'[s] = {} /\ \E t \in Tags : offers'[s] = {t}
      BY DEF OneAccess
    <3>1. offers'[s] = IF s = side THEN {tag} ELSE offers[s]  BY <2>1 DEF ArbTypes
    <3> QED  BY <2>1, <3>1 DEF OneAccess
  <2>4. ArbTypes' /\ InHand' /\ StopsWithError'
    BY <2>1, <2>2 DEF ArbTypes, InHand, StopsWithError
  <2>5. AnswersOwner  BY <2>1 DEF AnswersOwner
  <2>6. FatalStops  BY <2>1 DEF FatalStops
  <2> QED  BY <2>3, <2>4, <2>5, <2>6
<1>2. ASSUME NEW side \in Sides, Grant(side)
      PROVE  ArbInv' /\ AnswersOwner /\ FatalStops
  <2>1. /\ state = "IDLE" /\ ~ifetch_error /\ offers[side] # {}
        /\ state' = "OFFER" /\ owner' = side /\ last_grant' = side
        /\ request' = [side |-> side, tag |-> CHOOSE t \in offers[side] : TRUE]
        /\ ifetch_error' = ifetch_error /\ adapter' = adapter /\ given' = {}
        /\ waits' = [waits EXCEPT ![side] = offers[side]]
        /\ offers' = [offers EXCEPT ![side] = {}]
    BY <1>2 DEF Grant, choose
  <2>2. PICK t \in Tags : offers[side] = {t}  BY <2>1 DEF OneAccess
  <2>3. request'.side = side /\ request'.tag = t  BY <2>1, <2>2
  <2>4. waits'[side] = {t}  BY <2>1, <2>2 DEF ArbTypes
  <2>5. ArbTypes'  BY <2>1 DEF ArbTypes
  <2>6. OneAccess'
    <3> SUFFICES ASSUME NEW s \in Sides
                 PROVE  \/ offers'[s] = {}
                        \/ waits'[s] = {} /\ \E x \in Tags : offers'[s] = {x}
      BY DEF OneAccess
    <3>1. /\ offers'[s] = IF s = side THEN {} ELSE offers[s]
          /\ waits'[s] = IF s = side THEN offers[side] ELSE waits[s]
      BY <2>1 DEF ArbTypes
    <3> QED  BY <3>1 DEF OneAccess
  <2>7. InHand' /\ StopsWithError'
    BY <2>1, <2>3, <2>4 DEF InHand, StopsWithError
  <2>8. AnswersOwner  BY <2>1 DEF AnswersOwner
  <2>9. FatalStops  BY <2>1 DEF FatalStops
  <2> QED  BY <2>5, <2>6, <2>7, <2>8, <2>9
<1>3. ASSUME AdapterAccepts PROVE ArbInv' /\ AnswersOwner /\ FatalStops
  <2>1. /\ state = "OFFER" /\ state' = "RESPONSE" /\ adapter' = request /\ given' = {}
        /\ owner' = owner /\ last_grant' = last_grant /\ request' = request
        /\ ifetch_error' = ifetch_error /\ offers' = offers /\ waits' = waits
    BY <1>3 DEF AdapterAccepts
  <2>2. ArbTypes' /\ OneAccess' /\ InHand' /\ StopsWithError'
    BY <2>1 DEF ArbTypes, OneAccess, InHand, StopsWithError
  <2>3. AnswersOwner /\ FatalStops
    BY <2>1 DEF AnswersOwner, FatalStops, StopsWithError
  <2> QED  BY <2>2, <2>3
<1>4. ASSUME NEW error \in BOOLEAN, Respond(error)
      PROVE  ArbInv' /\ AnswersOwner /\ FatalStops
  <2>1. /\ state = "RESPONSE" /\ state' = "IDLE" /\ adapter' = Nothing
        /\ given' = {[side |-> owner, tag |-> adapter.tag, error |-> error,
                      of |-> adapter.side]}
        /\ waits' = [waits EXCEPT ![owner] = {}]
        /\ owner' = owner /\ last_grant' = last_grant /\ request' = request
        /\ ifetch_error' = ifetch_error /\ offers' = offers
    BY <1>4 DEF Respond
  <2>2. ~ifetch_error  BY <2>1 DEF StopsWithError
  <2>3. adapter = request /\ request.side = owner /\ waits[owner] = {request.tag}
    BY <2>1 DEF InHand
  <2>4. waits'[owner] = {} /\ \A s \in Sides : waits'[s] = IF s = owner THEN {} ELSE waits[s]
    BY <2>1 DEF ArbTypes
  <2>5. ArbTypes'  BY <2>1 DEF ArbTypes
  <2>6. OneAccess'  BY <2>1, <2>4 DEF OneAccess
  <2>7. InHand' /\ StopsWithError'  BY <2>1, <2>2 DEF InHand, StopsWithError
  <2>8. AnswersOwner
    <3>1. \A g \in given' : /\ g.side = owner /\ g.of = request.side /\ g.tag = request.tag
      BY <2>1, <2>3
    <3> QED  BY <2>3, <2>4, <3>1 DEF AnswersOwner
  <2>9. FatalStops  BY <2>1, <2>2, <2>4 DEF FatalStops
  <2> QED  BY <2>5, <2>6, <2>7, <2>8, <2>9
<1>5. ASSUME Fatal PROVE ArbInv' /\ AnswersOwner /\ FatalStops
  <2>1. /\ state = "RESPONSE" /\ state' = "FATAL" /\ adapter' = Nothing
        /\ given' = {} /\ ifetch_error' = TRUE
        /\ owner' = owner /\ last_grant' = last_grant /\ request' = request
        /\ offers' = offers /\ waits' = waits
    BY <1>5 DEF Fatal
  <2>2. ~ifetch_error  BY <2>1 DEF StopsWithError
  <2>3. waits[owner] # {}  BY <2>1 DEF InHand
  <2>4. ArbTypes' /\ OneAccess' /\ InHand' /\ StopsWithError'
    BY <2>1 DEF ArbTypes, OneAccess, InHand, StopsWithError
  <2>5. AnswersOwner /\ FatalStops
    BY <2>1, <2>2, <2>3 DEF AnswersOwner, FatalStops
  <2> QED  BY <2>4, <2>5
<1>6. ASSUME UNCHANGED arbVars PROVE ArbInv' /\ AnswersOwner /\ FatalStops
  BY <1>6 DEF arbVars, ArbTypes, OneAccess, InHand, StopsWithError, AnswersOwner, FatalStops
<1> QED  BY <1>1, <1>2, <1>3, <1>4, <1>5, <1>6 DEF ArbStep

\* Every response of the router goes to the client whose access it is, with its
\* tag and once, or the router stops for good; and what the masters answer with
\* is the data of the access (rtl/ppc_bus60x_arbiter.sv before rtl/ppc_biu.sv).
THEOREM RouterIsExact == SysSpec => RouterExact
<1>1. SysInit => BiuInit /\ ArbInv  BY SystemSteps, ArbStart
<1>2. [SysNext]_sysVars => [BiuNext]_biuVars  BY SystemSteps
<1>3. ArbInv /\ [SysNext]_sysVars => ArbInv' /\ AnswersOwner /\ FatalStops
  BY SystemSteps, ArbMoves
<1>4. SysSpec => BiuSpec
  BY <1>1, <1>2, PTL DEF SysSpec, BiuSpec
<1>5. SysSpec => []ArbInv
  BY <1>1, <1>3, PTL DEF SysSpec
<1>6. TenuresExact => ResponseExact  BY DEF TenuresExact
<1>7. ResponseExact' /\ ArbInv /\ [SysNext]_sysVars
        => [ResponseExact' /\ AnswersOwner /\ FatalStops]_sysVars
  BY <1>3
<1> QED  BY <1>4, <1>5, <1>6, <1>7, TenuresAreExact, PTL DEF SysSpec, RouterExact
===============================================================================
