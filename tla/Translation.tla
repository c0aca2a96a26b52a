---------------------------- MODULE Translation ----------------------------
(***************************************************************************)
(* The address-translation oracles of the verification tools: the          *)
(* software-loaded page TLB (sim/tools/tlb_vectors.py, class Model), the   *)
(* two block-address oracles (sim/tools/bat_vectors.py, expected and       *)
(* expected_stored) and the stateful BAT service that is predicted with    *)
(* the second (sim/tools/bat_service_vectors.py, class Model).             *)
(*                                                                         *)
(* Addresses are scaled.  A virtual address is a segment and a page; a     *)
(* block address has BlockBits block-number bits over OffsetBits offset    *)
(* bits (15 over 17 in the code) and BL has LengthBits bits (11).  The     *)
(* fields of a register are a record: which bits they occupy is the        *)
(* shift-and-mask of the source.                                           *)
(***************************************************************************)
EXTENDS Integers, Sequences, FiniteSetsExt

CONSTANTS
    Sets,         \* TLB sets (32; 16 on the 602)
    Vsids,        \* virtual segment identifiers
    Pages,        \* page numbers within a segment
    Entries,      \* what a load brings: records [rpn, pp, c, g], g the G bit
    BlockBits,    \* bits of BEPI and BRPN
    LengthBits,   \* bits of BL
    OffsetBits,   \* bits below a block number
    UpperData,    \* values written to an upper BAT register
    LowerData     \* values written to a lower BAT register

ASSUME TranslationAssumption ==
    /\ Sets \in Nat \ {0}
    /\ Pages \subseteq Nat
    /\ {BlockBits, LengthBits, OffsetBits} \subseteq Nat \ {0}

VARIABLES
    slots,   \* Model.slots: a partial function from <<bank, index, way>>
    lru,     \* Model.lru: the least recently used way, by <<bank, index>>
    answer,  \* the response to the last TLB request
    latest,  \* what the TLB owes: the last load of <<bank, vsid, page>>
    touched, \* the way a set last loaded or hit, by <<bank, index>>
    banks,   \* Model.banks of the BAT service: bank -> entry -> <<upper, lower>>
    install, \* how far requests() is with an installation, and of which way
    granted  \* the pair each way was last asked to hold

tlbVars == <<slots, lru, answer, latest, touched>>
batVars == <<banks, install, granted>>
transVars == <<slots, lru, answer, latest, touched, banks, install, granted>>

-----------------------------------------------------------------------------
(* The page TLB *)

Banks == {0, 1}          \* 0 instruction, 1 data
Ways == {0, 1}
BitValue == {0, 1}

(* PERMISSIONS: [key][pp] gives <<read, write>> (PEM Table 7-21). *)
PERMISSIONS ==
    [key \in BitValue |-> [pp \in 0..3 |->
        IF key = 0 THEN <<TRUE, pp # 3>>
        ELSE <<pp # 0, pp = 2>>]]

IndexOf(page) == page % Sets

(* The slots of a bank that hold the virtual page. *)
Matches(bank, vsid, page) ==
    {s \in DOMAIN slots : s[1] = bank /\ slots[s].key = <<vsid, page>>}

Without(f, S) == [x \in DOMAIN f \ S |-> f[x]]

With(f, x, v) == [y \in DOMAIN f \cup {x} |-> IF y = x THEN v ELSE f[y]]

(* The reset state of the recency is way 0. *)
LruOf(where) == IF where \in DOMAIN lru THEN lru[where] ELSE 0

(* The copies of the page that a load into a way drops: none. *)
CopiesKept(bank, vsid, page, way) == {}

(* "A load replaces a matching entry in the other way." *)
Copies(bank, vsid, page, way) == {s \in Matches(bank, vsid, page) : s[3] # way}

(* accept of kind 1 in supervisor mode (tlbld, tlbli): the selected way becomes
   the recently used one. *)
Load(bank, vsid, page, way, entry) ==
    /\ slots' = With(Without(slots, Copies(bank, vsid, page, way)), <<bank, IndexOf(page), way>>,
                     [key |-> <<vsid, page>>, entry |-> entry])
    /\ lru' = With(lru, <<bank, IndexOf(page)>>, 1 - way)
    /\ answer' = [status |-> "done"]
    /\ latest' = With(latest, <<bank, vsid, page>>, entry)
    /\ touched' = With(touched, <<bank, IndexOf(page)>>, way)

(* accept of kind 2 in supervisor mode (tlbie): the indexed set of both banks
   and both ways, whatever the tags.  The recency of the set stays. *)
Invalidate(page) ==
    /\ slots' = Without(slots, {s \in DOMAIN slots : s[2] = IndexOf(page)})
    /\ latest' = Without(latest, {x \in DOMAIN latest : IndexOf(x[3]) = IndexOf(page)})
    /\ answer' = [status |-> "done"]
    /\ UNCHANGED <<lru, touched>>

(* accept of kind 1 or 2 in user mode, or of kind 3: no state changes. *)
Refuse(status) ==
    /\ answer' = [status |-> status]
    /\ UNCHANGED <<slots, lru, latest, touched>>

(* The outcome of a hit on an entry: permission, guarded fetch, change bit,
   in this order. *)
HitOutcome(q, entry) ==
    IF ~PERMISSIONS[IF q.pr = 1 THEN q.kp ELSE q.ks][entry.pp][1 + q.write] THEN "pp_fault"
    ELSE IF q.bank = 0 /\ entry.g = 1 THEN "g_fault"
    ELSE IF q.write = 1 /\ entry.c = 0 THEN "needs_c"
    ELSE "allow"

(* The conditions that answer before the lookup, in the order of the elifs. *)
Early(q) ==
    IF q.bank = 0 /\ q.write = 1 THEN "invalid_input"
    ELSE IF q.t = 1 THEN "t_unsupported"
    ELSE IF q.bank = 0 /\ q.n = 1 THEN "n_fault"
    ELSE "lookup"

(* The recency after a hit, forgotten unless the access is allowed. *)
LruAfterAllowed(q, slot) ==
    IF HitOutcome(q, slots[slot].entry) = "allow"
    THEN With(lru, <<q.bank, IndexOf(q.page)>>, 1 - slot[3])
    ELSE lru

(* A hit makes the other way the one to replace, also when it faults. *)
LruAfter(q, slot) == With(lru, <<q.bank, IndexOf(q.page)>>, 1 - slot[3])

(* accept of kind 0: a translation. *)
Lookup(q) ==
    LET m == Matches(q.bank, q.vsid, q.page)
        slot == CHOOSE s \in m : TRUE
        where == <<q.bank, IndexOf(q.page)>>
    IN  /\ UNCHANGED <<slots, latest>>
        /\ \/ /\ Early(q) # "lookup"
              /\ answer' = [status |-> Early(q)]
              /\ UNCHANGED <<lru, touched>>
           \/ /\ Early(q) = "lookup" /\ m = {}
              /\ answer' = [status |-> "miss", where |-> where, way |-> LruOf(where)]
              /\ UNCHANGED <<lru, touched>>
           \/ /\ Early(q) = "lookup" /\ m # {}
              /\ answer' = [status |-> HitOutcome(q, slots[slot].entry)]
              /\ lru' = LruAfter(q, slot)
              /\ touched' = With(touched, where, slot[3])

TlbInit ==
    /\ slots = [s \in {} |-> 0]
    /\ lru = [s \in {} |-> 0]
    /\ answer = [status |-> "done"]
    /\ latest = [s \in {} |-> 0]
    /\ touched = [s \in {} |-> 0]

(* requests: the generated traffic, with every field free. *)
TlbLoad ==
    \E b \in Banks, v \in Vsids, p \in Pages, w \in Ways, e \in Entries : Load(b, v, p, w, e)

TlbInvalidate == \E p \in Pages : Invalidate(p)

TlbRefuse == \E status \in {"privileged", "unsupported"} : Refuse(status)

TlbLookup ==
    \E q \in [bank : Banks, vsid : Vsids, page : Pages, pr : BitValue, ks : {0}, kp : {1},
              write : BitValue, t : BitValue, n : BitValue] : Lookup(q)

TlbNext == TlbLoad \/ TlbInvalidate \/ TlbRefuse \/ TlbLookup

(* What makes the TLB right: a bank holds a virtual page in at most one way
   (the assertion of Model.accept), and what it holds is what the last load
   of that page brought, no tlbie of its set having come since: a lookup never
   answers from an entry that was replaced in the other way or invalidated. *)
TlbExact ==
    /\ \A s1, s2 \in DOMAIN slots :
          s1[1] = s2[1] /\ slots[s1].key = slots[s2].key => s1 = s2
    /\ \A s \in DOMAIN slots :
          /\ IndexOf(slots[s].key[2]) = s[2]
          /\ <<s[1]>> \o slots[s].key \in DOMAIN latest
          /\ latest[<<s[1]>> \o slots[s].key] = slots[s].entry

(* SRR1[WAY] of a miss names the way that was not the last one loaded or hit in
   the set, so a refill never evicts the page that was just used, across hits,
   refused requests and invalidations in between. *)
MissNamesOldWay ==
    answer.status = "miss" =>
        (answer.where \in DOMAIN touched => answer.way # touched[answer.where])

-----------------------------------------------------------------------------
(* The BAT oracles.  An upper register is [bepi, bl, vs, vp, rsv], a lower one
   [brpn, wimg, pp, rsv]; rsv stands for the reserved bits. *)

BlockSize == 2 ^ OffsetBits
Blocks == 2 ^ BlockBits
Addresses == 0..(Blocks * BlockSize) - 1

(* The bits of x that are set in y too, and those of either, as numbers. *)
BitOf(x, k) == (x \div 2 ^ k) % 2
Masked(x, y) == SumSet({2 ^ k : k \in {j \in 0..BlockBits + LengthBits + OffsetBits :
                                          BitOf(x, j) = 1 /\ BitOf(y, j) = 1}})
Merged(x, y) == x + y - Masked(x, y)

(* The block length is one less than a power of two. *)
LegalLength(bl) == Masked(bl + 1, bl) = 0

Base(upper) == upper.bepi * BlockSize
Size(upper) == (upper.bl + 1) * BlockSize
Physical(lower) == lower.brpn * BlockSize
Enabled(upper) == upper.vs = 1 \/ upper.vp = 1

(* expected: what it calls malformed in an enabled entry. *)
Malformed(instruction, upper, lower) ==
    /\ Enabled(upper)
    /\ \/ ~LegalLength(upper.bl)
       \/ upper.rsv = 1 \/ lower.rsv = 1
       \/ Base(upper) % Size(upper) # 0
       \/ Physical(lower) % Size(upper) # 0
       \/ instruction /\ lower.wimg >= 8

(* Two well-formed entries that a common mode would match. *)
Overlap(instruction, bank) ==
    \E i, j \in DOMAIN bank :
        LET a == bank[i][1]
            b == bank[j][1]
        IN  /\ i < j
            /\ (a.vs = 1 /\ b.vs = 1) \/ (a.vp = 1 /\ b.vp = 1)
            /\ ~Malformed(instruction, a, bank[i][2])
            /\ ~Malformed(instruction, b, bank[j][2])
            /\ Base(a) < Base(b) + Size(b)
            /\ Base(b) < Base(a) + Size(a)

ValidFor(upper, user) == IF user = 1 THEN upper.vp = 1 ELSE upper.vs = 1

(* pp denies, IBATs have no G bit: common to both oracles. *)
Denied(write, lower) == lower.pp = 0 \/ (write = 1 /\ lower.pp # 2)
Attributes(instruction, lower) ==
    IF instruction THEN lower.wimg - (lower.wimg % 2) ELSE lower.wimg

(* The response of a hit; pa is zero unless the access is allowed. *)
Hit(instruction, write, lower, matched, index, pa) ==
    [kind |-> "hit", allow |-> ~Denied(write, lower), matched |-> matched, index |-> index,
     pa |-> IF Denied(write, lower) THEN 0 ELSE pa,
     wimg |-> Attributes(instruction, lower), pp |-> lower.pp]

Bypass(instruction, ea) ==
    [kind |-> "bypass", pa |-> ea, wimg |-> IF instruction THEN 1 ELSE 3]

(* expected: the interval oracle.  q is [instruction, write, on, user, ea], with
   on the IR or DR bit that the access looks at. *)
Expected(q, bank) ==
    LET bad == {i \in DOMAIN bank : Malformed(q.instruction, bank[i][1], bank[i][2])}
        invalid == q.instruction /\ q.write = 1
        matches == {i \in DOMAIN bank :
                      /\ ValidFor(bank[i][1], q.user)
                      /\ Base(bank[i][1]) <= q.ea
                      /\ q.ea < Base(bank[i][1]) + Size(bank[i][1])}
        i == CHOOSE m \in matches : TRUE
    IN  IF bad # {} \/ Overlap(q.instruction, bank) \/ invalid
        THEN [kind |-> "fault", invalid |-> invalid, bad |-> bad]
        ELSE IF q.on = 0 THEN Bypass(q.instruction, q.ea)
        ELSE IF matches = {} THEN [kind |-> "miss"]
        ELSE Hit(q.instruction, q.write, bank[i][2], matches, i,
                 Physical(bank[i][2]) + (q.ea - Base(bank[i][1])))

(* The offset mask of a stored entry: BL masks bit by bit. *)
OffsetMask(upper) == (upper.bl * BlockSize) + BlockSize - 1

(* The tag compare that ignores the block length. *)
MatchesOneBlock(upper, ea) == (ea \div BlockSize) = upper.bepi

(* ea & ~offset = BEPI: a BEPI bit under the mask never matches. *)
MatchesStored(upper, ea) ==
    ea - Masked(ea, OffsetMask(upper)) = Base(upper)

(* expected_stored: the banks as the service stores them, unvalidated; the
   lowest-numbered match wins and BRPN is ORed with the offset. *)
ExpectedStored(q, bank) ==
    LET matched == {i \in DOMAIN bank : ValidFor(bank[i][1], q.user) /\ MatchesStored(bank[i][1], q.ea)}
        i == CHOOSE m \in matched : \A n \in matched : m <= n
        offset == OffsetMask(bank[i][1])
    IN  IF q.instruction /\ q.write = 1 THEN [kind |-> "fault", invalid |-> TRUE, bad |-> {}]
        ELSE IF q.on = 0 THEN Bypass(q.instruction, q.ea)
        ELSE IF matched = {} THEN [kind |-> "miss"]
        ELSE Hit(q.instruction, q.write, bank[i][2], matched, i,
                 Merged(Physical(bank[i][2]), Masked(q.ea, offset)))

(* The inputs a translation varies in. *)
BatQueries ==
    [instruction : BOOLEAN, write : BitValue, on : BitValue, user : BitValue, ea : Addresses]

-----------------------------------------------------------------------------
(* The BAT service *)

NoUpper == [bepi |-> 0, bl |-> 0, vs |-> 0, vp |-> 0, rsv |-> 0]
NoLower == [brpn |-> 0, wimg |-> 0, pp |-> 0, rsv |-> 0]
BatWays == {0, 1}

(* A register stores what is written with the reserved fields cleared. *)
Stored(data) == [data EXCEPT !.rsv = 0]

(* accept of kind 4 in supervisor mode, on an upper or a lower half. *)
WriteUpper(bank, way, data) == banks' = [banks EXCEPT ![bank][way][1] = Stored(data)]
WriteLower(bank, way, data) == banks' = [banks EXCEPT ![bank][way][2] = Stored(data)]

BatInit ==
    /\ banks = [b \in Banks |-> [w \in BatWays |-> <<NoUpper, NoLower>>]]
    /\ granted = [b \in Banks |-> [w \in BatWays |-> <<NoUpper, NoLower>>]]
    /\ install = <<0, 0, 0>>

(* An installation that leaves the old upper half enabled. *)
InstallFirstKeeps(b, w, pair) == WriteLower(b, w, pair[2])

(* requests installs a mapping in three writes: the old upper half is disabled,
   the lower half written, the upper half written.  Translations and reads come
   between any two of them and change no register. *)
InstallFirst(b, w, pair) == WriteUpper(b, w, NoUpper)

Install ==
    \/ /\ install[1] = 0
       /\ \E b \in Banks, w \in BatWays, u \in UpperData, l \in LowerData :
             /\ InstallFirst(b, w, <<u, l>>)
             /\ granted' = [granted EXCEPT ![b][w] = <<u, l>>]
             /\ install' = <<1, b, w>>
    \/ /\ install[1] = 1
       /\ WriteLower(install[2], install[3], granted[install[2]][install[3]][2])
       /\ install' = <<2, install[2], install[3]>>
       /\ UNCHANGED granted
    \/ /\ install[1] = 2
       /\ WriteUpper(install[2], install[3], granted[install[2]][install[3]][1])
       /\ install' = <<0, 0, 0>>
       /\ UNCHANGED granted

(* An access that is refused (an unlisted SPR, user mode) or only reads. *)
BatRefuse == UNCHANGED batVars

TransInit == TlbInit /\ BatInit

TransNext ==
    \/ TlbNext /\ UNCHANGED batVars
    \/ (Install \/ BatRefuse) /\ UNCHANGED tlbVars

TransSpec == TransInit /\ [][TransNext]_transVars

(* The two oracles agree on every access wherever the interval oracle finds the
   bank well formed, at every point of every installation; in particular the
   interval oracle then has one match (its assertion) and BRPN ORed with the
   offset is BRPN plus the offset.  Where they disagree, an entry is malformed
   or two entries of one mode overlap. *)
BatOraclesAgree ==
    \A b \in Banks : \A q \in {x \in BatQueries : x.instruction = (b = 0)} :
        Expected(q, banks[b]).kind # "fault" => Expected(q, banks[b]) = ExpectedStored(q, banks[b])

(* While a mapping is installed the other ways stay live, and no enabled entry
   of any way is half of an old mapping and half of a new one. *)
MappingWhole ==
    \A b \in Banks, w \in BatWays :
        Enabled(banks[b][w][1]) =>
            banks[b][w] = <<Stored(granted[b][w][1]), Stored(granted[b][w][2])>>

(* What software relies on when it manages the translations: tlb_vectors.Model
   answers from the last load only, a miss names the way that was not used last,
   and an installation shows no half mapping. *)
TranslationExact == TlbExact /\ MissNamesOldWay /\ MappingWhole
=============================================================================
