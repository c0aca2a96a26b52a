----------------------------- MODULE BusTables -----------------------------
(***************************************************************************)
(* The two bus-table tools.  sim/tools/bus_address.py decomposes an access *)
(* into bus transfers (MPC603e Tables 8-4 to 8-7) for a 64- and a 32-bit   *)
(* data bus; sim/tools/bus_decode.py decodes the transfer-type and         *)
(* transfer-size pins of sim/spec/bus_encodings.json (Tables 7-1 to 7-5).  *)
(* Both validate their tables against an expansion before they answer.     *)
(*                                                                         *)
(* A table row is a record; three address bits are the number they encode  *)
(* and a TSIZ is the number its pins encode.  The printed lane symbols and *)
(* the recorded conflicts of the manual are the Cells and their            *)
(* normalisations.                                                         *)
(***************************************************************************)
EXTENDS Integers, FiniteSets, Sequences

CONSTANTS
    MaxAddress   \* the last byte of the address space (2^32 - 1 in the code)

ASSUME BusTablesAssumption == MaxAddress \in Nat /\ (MaxAddress + 1) % 32 = 0

VARIABLES
    question,   \* the query put to the tools
    reply       \* their answer

busVars == <<question, reply>>

-----------------------------------------------------------------------------
(* bus_address.py: the tables *)

Lanes(from, count) == {from + k : k \in 0..count - 1}

(* tsiz_by_bytes: three pins, so eight bytes read 000. *)
TsizOf(bytes) == bytes % 8

Only == "only"

(* One transfer of a decomposition. *)
Access(sequence, delta, bytes, a, marks, beats) ==
    [sequence |-> sequence, delta |-> delta, bytes |-> bytes, tsiz |-> TsizOf(bytes),
     a |-> a, marks |-> marks, beats |-> beats]

(* The naturally aligned <<size, offset>> of a doubleword. *)
Aligned(sizes) == {p \in sizes \X (0..7) : p[2] % p[1] = 0}

(* _expected_aligned_rows (Table 8-4): every aligned transfer on eight lanes. *)
AlignedRows64 ==
    {Access(Only, 0, p[1], p[2], Lanes(p[2], p[1]), 1) : p \in Aligned({1, 2, 4, 8})}

(* _expected_aligned_32_rows (Table 8-6): four lanes, a doubleword in two beats
   on the same lanes with the same A and TSIZ. *)
AlignedRows32 ==
    {Access(Only, 0, p[1], p[2], Lanes(p[2] % 4, p[1]), 1) : p \in Aligned({1, 2, 4})}
    \cup {Access(Only, 0, 8, 0, Lanes(0, 4), 2)}

(* Chunks that put the second transfer at the word the first one is in. *)
ChunksSameWord(offset) ==
    LET first == 4 - (offset % 4)
    IN  IF offset % 4 = 0
        THEN <<<<Only, 0, 4, offset>>>>
        ELSE <<<<"first", 0, first, offset>>,
               <<"second", first, 4 - first, (offset \div 4) * 4>>>>

(* The chunks of a four-byte access: <<sequence, delta, bytes, offset>>.  The
   second one starts the next word and wraps within the doubleword. *)
Chunks(offset) ==
    LET first == 4 - (offset % 4)
    IN  IF offset % 4 = 0
        THEN <<<<Only, 0, 4, offset>>>>
        ELSE <<<<"first", 0, first, offset>>,
               <<"second", first, 4 - first, (((offset \div 4) * 4) + 4) % 8>>>>

(* _expected_four_byte_case (Table 8-5) and _expected_four_byte_32_case (8-7). *)
FourByteCase(width, offset) ==
    [k \in DOMAIN Chunks(offset) |->
        LET c == Chunks(offset)[k]
        IN  Access(c[1], c[2], c[3], c[4],
                   Lanes(IF width = 64 THEN c[4] ELSE c[4] % 4, c[3]), 1)]

(* What the manual prints in a cell: A on an active lane, x on a lane the
   32-bit mode does not have, a dash elsewhere; and where it prints another
   symbol (source_conflicts): <<table, start, sequence, lane, symbol>>. *)
Misprints ==
    {<<"8-6", 1, Only, 2, "x">>, <<"8-7", 1, "first", 0, "blank">>, <<"8-7", 2, "second", 3, "x">>}

OrdinaryCell(marks, lane) ==
    IF lane \in marks THEN "A" ELSE IF lane < 4 THEN "dash" ELSE "x"

Cells(table, start, access) ==
    [lane \in 0..7 |->
        LET odd == {m \in Misprints : m[1] = table /\ m[2] = start
                                      /\ m[3] = access.sequence /\ m[4] = lane
                                      /\ (table = "8-7" \/ access.bytes = 1)}
        IN  IF odd # {} THEN (CHOOSE m \in odd : TRUE)[5] ELSE OrdinaryCell(access.marks, lane)]

(* validate: the active marks are the A cells, misprints or not, and every case
   of four bytes transfers four bytes. *)
TablesValid ==
    /\ \A row \in AlignedRows32 :
          row.marks = {l \in 0..7 : Cells("8-6", row.a, row)[l] = "A"}
    /\ \A offset \in 0..7 : \A k \in DOMAIN FourByteCase(32, offset) :
          LET access == FourByteCase(32, offset)[k]
          IN  access.marks = {l \in 0..7 : Cells("8-7", offset, access)[l] = "A"}
    /\ \A width \in {32, 64}, offset \in 0..7 :
          LET case == FourByteCase(width, offset)
          IN  (IF Len(case) = 1 THEN case[1].bytes ELSE case[1].bytes + case[2].bytes) = 4

(* query, after _check_query: the transfers of an access, or why there are
   none.  Only four-byte accesses are decomposed when misaligned. *)
Query(address, size, width) ==
    LET offset == address % 8
        rows == {r \in (IF width = 64 THEN AlignedRows64 ELSE AlignedRows32) :
                    r.bytes = size /\ r.a = offset}
    IN  IF address + size - 1 > MaxAddress THEN [status |-> "wraps", accesses |-> <<>>]
        ELSE IF size = 4 THEN [status |-> "defined", accesses |-> FourByteCase(width, offset)]
        ELSE IF address % size # 0 \/ rows = {} THEN [status |-> "out of scope", accesses |-> <<>>]
        ELSE [status |-> "defined", accesses |-> <<CHOOSE r \in rows : TRUE>>]

(* The boundaries query reports. *)
Crosses(address, size, unit) == address \div unit # (address + size - 1) \div unit

-----------------------------------------------------------------------------
(* bus_decode.py *)

(* Transfer-type rows: the bit patterns (2 is don't care), the command, what
   moves on the bus, the snoop action and the transaction a 603e generates. *)
Row(pattern, command, bus, snoop, master) ==
    [pattern |-> pattern, command |-> command, bus |-> bus, snoop |-> snoop, master |-> master]

AddressOnly == {"address_only"}
Reads == {"single_beat_read", "burst"}
Writes == {"single_beat_write", "burst"}
NotGenerated == "not_applicable"

TtCommands ==
    {Row(<<0,0,0,0,0>>, "clean_block", AddressOnly, "none", NotGenerated),
     Row(<<0,0,1,0,0>>, "flush_block", AddressOnly, "none", NotGenerated),
     Row(<<0,1,0,0,0>>, "sync", AddressOnly, "none", NotGenerated),
     Row(<<0,1,1,0,0>>, "kill_block", AddressOnly, "kill_cancel_reservation", "address_only"),
     Row(<<1,0,0,0,0>>, "eieio", AddressOnly, "none", NotGenerated),
     Row(<<1,0,1,0,0>>, "external_control_word_write", {"single_beat_write"}, "none", "single_beat_write"),
     Row(<<1,1,0,0,0>>, "tlb_invalidate", AddressOnly, "none", NotGenerated),
     Row(<<1,1,1,0,0>>, "external_control_word_read", {"single_beat_read"}, "none", "single_beat_read"),
     Row(<<0,0,0,0,1>>, "lwarx_reservation_set", AddressOnly, "none", NotGenerated),
     Row(<<0,0,1,0,1>>, "reserved", {}, "none", "reserved"),
     Row(<<0,1,0,0,1>>, "tlbsync", AddressOnly, "none", NotGenerated),
     Row(<<0,1,1,0,1>>, "icbi", AddressOnly, "none", NotGenerated),
     Row(<<1,2,2,0,1>>, "reserved", {}, "none", "reserved"),
     Row(<<0,0,0,1,0>>, "write_with_flush", Writes, "flush_cancel_reservation", "single_beat_write"),
     Row(<<0,0,1,1,0>>, "write_with_kill", Writes, "kill_cancel_reservation", "burst"),
     Row(<<0,1,0,1,0>>, "read", Reads, "clean_or_flush", "single_beat_read"),
     Row(<<0,1,1,1,0>>, "read_with_intent_to_modify", {"burst"}, "flush", "burst"),
     Row(<<1,0,0,1,0>>, "write_with_flush_atomic", {"single_beat_write"}, "flush_cancel_reservation", "single_beat_write"),
     Row(<<1,0,1,1,0>>, "reserved", {}, "none", "reserved"),
     Row(<<1,1,0,1,0>>, "read_atomic", Reads, "clean_or_flush", "single_beat_read"),
     Row(<<1,1,1,1,0>>, "read_with_intent_to_modify_atomic", {"burst"}, "flush", "burst"),
     Row(<<0,0,0,1,1>>, "reserved", {}, "none", "reserved"),
     Row(<<0,0,1,1,1>>, "reserved", {}, "none", "reserved"),
     Row(<<0,1,0,1,1>>, "read_with_no_intent_to_cache", Reads, "clean", NotGenerated),
     Row(<<0,1,1,1,1>>, "reserved", {}, "none", "reserved"),
     Row(<<1,2,2,1,1>>, "reserved", {}, "none", "reserved")}

(* pid7v_abe_overrides: what HID0[ABE] makes the PID7v generate. *)
AbeOverrides ==
    {[pattern |-> <<0,0,0,0,0>>, command |-> "clean_block", master |-> "address_only"],
     [pattern |-> <<0,0,1,0,0>>, command |-> "flush_block", master |-> "address_only"],
     [pattern |-> <<0,1,1,0,0>>, command |-> "kill_block", master |-> "address_only"]}

Codes == {<<a, b, c, d, e>> : a \in {0, 1}, b \in {0, 1}, c \in {0, 1}, d \in {0, 1}, e \in {0, 1}}

pattern_matches(pattern, bits) == \A k \in 1..5 : pattern[k] \in {2, bits[k]}

expand_pattern(pattern) == {bits \in Codes : pattern_matches(pattern, bits)}

(* validate: the patterns cover the 32 codes and no two share one, a reserved
   row has no command, an override names the command of its row. *)
EncodingsValid ==
    /\ UNION {expand_pattern(r.pattern) : r \in TtCommands} = Codes
    /\ \A r, s \in TtCommands :
          r # s => expand_pattern(r.pattern) \cap expand_pattern(s.pattern) = {}
    /\ \A o \in AbeOverrides : \E r \in TtCommands :
          o.pattern \in expand_pattern(r.pattern) /\ r.command = o.command /\ r.command # "reserved"

(* decode_tt: the row that matches and, for a master, what it generates. *)
decode_tt(bits, abe) ==
    LET row == CHOOSE r \in TtCommands : pattern_matches(r.pattern, bits)
        over == {o \in AbeOverrides : abe /\ o.pattern = bits}
    IN  [command |-> row.command, bus |-> row.bus, action |-> row.snoop,
         master |-> IF over # {} THEN (CHOOSE o \in over : TRUE).master ELSE row.master]

(* listed_combinations: a burst is TBST asserted with TSIZ 010. *)
SizeOf(burst, tsiz) ==
    IF burst THEN (IF tsiz = 2 THEN 32 ELSE 0) ELSE (IF tsiz = 0 THEN 8 ELSE tsiz)

(* nonburst_beats_by_size of the 32-bit mode; 0 for the sizes it does not list. *)
BeatsBySize == [bytes \in 1..8 |-> IF bytes <= 4 THEN 1 ELSE IF bytes = 8 THEN 2 ELSE 0]

(* decode_size in the memory context. *)
MemorySize(burst, tsiz, width) ==
    LET bytes == SizeOf(burst, tsiz)
    IN  IF bytes = 0 THEN [status |-> "unlisted", bytes |-> 0, beats |-> 0]
        ELSE IF burst THEN [status |-> "defined", bytes |-> bytes, beats |-> IF width = 64 THEN 4 ELSE 8]
        ELSE IF width = 64 THEN [status |-> "defined", bytes |-> bytes, beats |-> 1]
        ELSE [status |-> IF BeatsBySize[bytes] = 0 THEN "unresolved" ELSE "defined",
              bytes |-> bytes, beats |-> BeatsBySize[bytes]]

(* decode_size: outside memory transfers the pins give no size; for eciwx and
   ecowx they are the EAR's resource ID, with TBST active low. *)
decode_size(context, burst, tsiz, width) ==
    CASE context = "address_only" -> [status |-> "not_applicable"]
      [] context = "external_control" ->
            [status |-> "defined_resource_id", resource |-> (IF burst THEN 0 ELSE 8) + tsiz]
      [] OTHER -> MemorySize(burst, tsiz, width)

-----------------------------------------------------------------------------
(* The queries *)

NoQuestion == [kind |-> "none"]

BusInit ==
    /\ question = NoQuestion
    /\ reply = [status |-> "idle"]

AskAddress ==
    /\ question = NoQuestion
    /\ TablesValid
    /\ \E address \in 0..MaxAddress, size \in {1, 2, 4, 8}, width \in {32, 64} :
          /\ question' = [kind |-> "address", address |-> address, size |-> size, width |-> width]
          /\ reply' = Query(address, size, width)

AskType ==
    /\ question = NoQuestion
    /\ EncodingsValid
    /\ \E bits \in Codes, abe \in BOOLEAN :
          /\ question' = [kind |-> "type", bits |-> bits, abe |-> abe]
          /\ reply' = decode_tt(bits, abe)

AskSize ==
    /\ question = NoQuestion
    /\ EncodingsValid
    /\ \E context \in {"memory", "address_only", "external_control"},
          burst \in BOOLEAN, tsiz \in 0..7, width \in {32, 64} :
          /\ question' = [kind |-> "size", context |-> context, burst |-> burst, tsiz |-> tsiz, width |-> width]
          /\ reply' = decode_size(context, burst, tsiz, width)

BusNext == AskAddress \/ AskType \/ AskSize

BusSpec == BusInit /\ [][BusNext]_busVars

-----------------------------------------------------------------------------

(* The bytes of the k-th transfer of an access. *)
BytesOf(address, access) == Lanes(address + access.delta, access.bytes)

(* A decomposition moves every byte of the access once, in ascending order;
   no transfer leaves the bus word it starts in, but for the doubleword on the
   32-bit bus that takes two beats; the marked lanes are the ones the address
   bits select; an access that crosses no word is one transfer. *)
DecompositionExact ==
    (question.kind = "address" /\ reply.status = "defined") =>
        LET q == question
            all == reply.accesses
            word == q.width \div 8
        IN  /\ UNION {BytesOf(q.address, all[k]) : k \in DOMAIN all} = Lanes(q.address, q.size)
            /\ \A k \in DOMAIN all :
                  /\ all[k].a = (q.address + all[k].delta) % 8
                  /\ k > 1 => all[k].delta = all[k - 1].delta + all[k - 1].bytes
                  /\ all[k].beats = 1 =>
                        all[k].marks = {b % word : b \in BytesOf(q.address, all[k])}
                  /\ Crosses(q.address + all[k].delta, all[k].bytes, word) => all[k].beats = 2
            /\ (Len(all) > 1) = Crosses(q.address, q.size, 4) \/ q.size = 8

(* The two tools agree: the TSIZ of every transfer of every decomposition
   decodes, on the same bus width, to the transfer's size and beats. *)
TransferDecodes ==
    (question.kind = "address" /\ reply.status = "defined") =>
        \A k \in DOMAIN reply.accesses :
            LET access == reply.accesses[k]
            IN  decode_size("memory", FALSE, access.tsiz, question.width)
                    = [status |-> "defined", bytes |-> access.bytes, beats |-> access.beats]

(* Each code decodes one way; what a master generates moves on the bus as the
   command of the code allows; and a beat carries no more than the bus. *)
DecodeExact ==
    /\ question.kind = "type" =>
          /\ Cardinality({r \in TtCommands : pattern_matches(r.pattern, question.bits)}) = 1
          /\ reply.master \in {NotGenerated, "reserved"} \cup reply.bus
          /\ (reply.command = "reserved") = (reply.master = "reserved")
    /\ (question.kind = "size" /\ reply.status = "defined") =>
          /\ reply.bytes <= reply.beats * (question.width \div 8)
          /\ reply.bytes > (reply.beats - 1) * (question.width \div 8)

(* What the two tools answer, taken together. *)
BusAnswersExact == DecompositionExact /\ TransferDecodes /\ DecodeExact
=============================================================================
