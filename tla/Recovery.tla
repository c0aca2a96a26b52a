-------------------------------- MODULE Recovery --------------------------------
(***************************************************************************)
(* The recovery policy of sim/recovery/model.py, RecoveryModel: a queue of *)
(* in-flight instructions named by slot and generation, the tokens of the  *)
(* producers still working for them, the register mapping, and redirects   *)
(* that cut the queue at a pivot.  One call of step is one action; it      *)
(* decides everything from the state before the edge, in the order of the  *)
(* code.                                                                   *)
(*                                                                         *)
(* A result's value is modelled by the serial number of the instruction it *)
(* was computed for.  Each token remembers that number, which the code     *)
(* does not keep: it is what lets the properties say that a result reached *)
(* the right instruction.  Serial numbers start at 1, so that 0 is a value *)
(* no instruction computes.                                                *)
(***************************************************************************)
EXTENDS Integers, SequencesExt, PythonNone

CONSTANTS
  Depth,        \* completion slots
  RenameDepth,  \* rename registers
  Generations,  \* 2 ^ generation_bits
  Regs,         \* architectural registers
  MaxSerial     \* bound: instructions allocated in one behaviour

ASSUME DimensionsAssumption ==
  /\ Depth \in Nat \ {0} /\ RenameDepth \in Nat \ {0}
  /\ Generations \in Nat \ {0} /\ MaxSerial \in Nat
  /\ None \notin Regs

Slot == 0..Depth-1
Tag  == [slot : Slot, generation : 0..Generations-1]

VARIABLES
  entries,      \* sequence of Entry records, oldest first
  generations,  \* the generation each slot was last given
  tail,         \* the slot the next allocation takes
  tokens,       \* [tag, kind, serial] of every producer still working
  arch,         \* committed register values
  mapping,      \* youngest writer's tag of each register, or None
  nextSerial,
  retired       \* every commit so far: serial, register and value

recoveryVars ==
  <<entries, generations, tail, tokens, arch, mapping, nextSerial, retired>>

RecoveryInit ==
  /\ entries = <<>>
  /\ generations = [s \in Slot |-> 0]
  /\ tail = 0
  /\ tokens = {}
  /\ arch = [r \in Regs |-> 0]
  /\ mapping = [r \in Regs |-> None]
  /\ nextSerial = 1
  /\ retired = <<>>

-----------------------------------------------------------------------------
TagsOf(s) == {s[i].tag : i \in 1..Len(s)}

Candidate ==
  [slot |-> tail, generation |-> (generations[tail] + 1) % Generations]

(* The dictionary comprehension of step: a later entry overwrites an earlier
   one for the same register. *)
MappingOf(s) ==
  [r \in Regs |->
     LET writers == {i \in 1..Len(s) : s[i].dst = r}
     IN IF writers = {} THEN None
        ELSE s[CHOOSE i \in writers : \A j \in writers : j <= i].tag]

(* How many of the oldest entries a redirect keeps; -1 when its pivot is not
   in flight. *)
CutOf(redirect) ==
  IF redirect.pivot = None THEN 0
  ELSE LET found == {i \in 1..Len(entries) : entries[i].tag = redirect.pivot}
       IN IF found = {} THEN -1
          ELSE (CHOOSE i \in found : TRUE) - (IF redirect.keep THEN 0 ELSE 1)

(* A cut that would take back a finished head is refused: the retirement
   interface cannot withdraw its offer. *)
Accepted(redirect) ==
  /\ redirect # None
  /\ CutOf(redirect) # -1
  /\ ~(CutOf(redirect) = 0 /\ entries # <<>> /\ entries[1].done)

(* Finish: the token must have been there before the edge. *)
Finish(s, result) ==
  [i \in 1..Len(s) |->
     IF result # None /\ s[i].tag = result.tag /\ ~s[i].done
        /\ \E t \in tokens : t.tag = result.tag
     THEN [s[i] EXCEPT !.done = TRUE, !.value = result.serial]
     ELSE s[i]]

Issue(s, issue) ==
  [i \in 1..Len(s) |->
     IF s[i].tag = issue /\ ~s[i].issued /\ ~s[i].done
     THEN [s[i] EXCEPT !.issued = TRUE] ELSE s[i]]

\* Faulty variant: only a local producer holds a tag back.
TagFreeOfLocal(tag) == ~\E t \in tokens : t.tag = tag /\ t.kind = "local"

(* A tag is not given out again while a producer may still answer with it. *)
TagFree(tag) == ~\E t \in tokens : t.tag = tag

FreeRename ==
  (0..RenameDepth-1) \ {entries[i].rename : i \in 1..Len(entries)}

(* step: allocate is None or the destination and fault of a new instruction,
   issue None or a tag and the kind of its producer, result None or a token's
   answer, redirect None or a pivot (None: everything) and keep. *)
RecoveryStep(allocate, issue, result, redirect, retireReady) ==
  LET accepted  == Accepted(redirect)
      survivors == IF accepted THEN SubSeq(entries, 1, CutOf(redirect)) ELSE entries
      killed    == TagsOf(entries) \ TagsOf(survivors)
      cutTail   == IF ~accepted \/ entries = <<>> THEN tail
                   ELSE IF survivors = <<>> THEN entries[1].tag.slot
                   ELSE (Last(survivors).tag.slot + 1) % Depth
      kept      == {t \in tokens : ~(t.tag \in killed /\ t.kind = "local")
                                   /\ (result # None => t.tag # result.tag)}
      afterFinish == Finish(survivors, result)
      retires   == /\ entries # <<>>
                   /\ entries[1].done
                   /\ entries[1].tag \in TagsOf(survivors)
                   /\ retireReady
      afterRetire == IF retires THEN Tail(afterFinish) ELSE afterFinish
      head      == afterFinish[1]
      issued    == \E i \in 1..Len(afterRetire) :
                      /\ issue # None /\ afterRetire[i].tag = issue.tag
                      /\ ~afterRetire[i].issued /\ ~afterRetire[i].done
      afterIssue == IF issued THEN Issue(afterRetire, issue.tag) ELSE afterRetire
      candidate == Candidate
      needsRename == allocate # None /\ allocate.dst # None /\ ~allocate.fault
      allocates == /\ allocate # None
                   /\ ~accepted
                   /\ Len(entries) < Depth
                   /\ needsRename => FreeRename # {}
                   /\ TagFree(candidate)
      new == [tag    |-> candidate, serial |-> nextSerial,
              dst    |-> IF allocate.fault THEN None ELSE allocate.dst,
              rename |-> IF needsRename
                         THEN CHOOSE i \in FreeRename : \A j \in FreeRename : i <= j
                         ELSE None,
              done   |-> allocate.fault, value |-> 0, issued |-> FALSE]
      after == IF allocates THEN Append(afterIssue, new) ELSE afterIssue
  IN /\ entries' = after
     /\ mapping' = MappingOf(after)
     /\ tokens' = IF ~issued THEN kept
                  ELSE {t \in kept : t.tag # issue.tag} \cup
                       {[tag |-> e.tag, kind |-> issue.kind, serial |-> e.serial] :
                          e \in {after[i] : i \in {j \in 1..Len(after) :
                                                    after[j].tag = issue.tag}}}
     /\ arch' = IF retires /\ head.dst # None
                THEN [arch EXCEPT ![head.dst] = head.value] ELSE arch
     /\ retired' = IF retires
                   THEN Append(retired, [serial |-> head.serial, dst |-> head.dst,
                                         value |-> head.value])
                   ELSE retired
     /\ tail' = IF allocates THEN (tail + 1) % Depth ELSE cutTail
     /\ generations' = IF allocates
                       THEN [generations EXCEPT ![tail] = candidate.generation]
                       ELSE generations
     /\ nextSerial' = IF allocates THEN nextSerial + 1 ELSE nextSerial

Allocations == [dst : Regs \cup {None}, fault : BOOLEAN]
Redirects   == [pivot : TagsOf(entries) \cup {Candidate}, keep : BOOLEAN]
                 \cup {[pivot |-> None, keep |-> TRUE]}
Issues      == [tag : Tag, kind : {"local", "external"}]

(* reset: the environment cancels every external token. *)
RecoveryReset ==
  /\ entries' = <<>> /\ tail' = 0 /\ tokens' = {}
  /\ generations' = [s \in Slot |-> 0]
  /\ arch' = [r \in Regs |-> 0]
  /\ mapping' = [r \in Regs |-> None]
  /\ nextSerial' = 1
  /\ retired' = <<>>

(* Producers answer the tokens they hold: a cancelled local producer is
   silent, an external one may answer after its instruction was killed.  An
   issue that names no entry changes nothing and is left out; the candidate's
   tag stands for a pivot that is not in flight. *)
RecoveryNext ==
  \/ \E allocate \in {a \in Allocations : nextSerial <= MaxSerial} \cup {None},
        issue \in {i \in Issues : i.tag \in TagsOf(entries)} \cup {None},
        result \in tokens \cup {None}, redirect \in Redirects \cup {None},
        retireReady \in BOOLEAN :
          RecoveryStep(allocate, issue, result, redirect, retireReady)
  \/ RecoveryReset

RecoverySpec == RecoveryInit /\ [][RecoveryNext]_recoveryVars

-----------------------------------------------------------------------------
(* The assertions RecoveryModel.check_invariants makes after every step: slots
   are the consecutive ones that end before tail, serials rise, no rename
   register is shared, the mapping is the survivors', a token without an entry
   is external, and no finished entry still has a producer. *)
CheckInvariants ==
  /\ Len(entries) <= Depth
  /\ \A i, j \in 1..Len(entries) : i < j =>
       /\ entries[i].serial < entries[j].serial
       /\ entries[i].tag.slot # entries[j].tag.slot
       /\ entries[i].rename # None => entries[i].rename # entries[j].rename
  /\ \A i \in 1..Len(entries)-1 :
       entries[i+1].tag.slot = (entries[i].tag.slot + 1) % Depth
  /\ entries # <<>> => tail = (Last(entries).tag.slot + 1) % Depth
  /\ mapping = MappingOf(entries)
  /\ \A t \in tokens : t.tag \notin TagsOf(entries) => t.kind = "external"
  /\ \A t \in tokens, i \in 1..Len(entries) :
       entries[i].tag = t.tag => ~entries[i].done

(* A result reaches the instruction it was computed for, although tags are
   reused after a redirect and an external producer may answer late: the
   allocation waits while a token with the same slot and generation is out. *)
ResultReachesOwner ==
  /\ \A i \in 1..Len(entries) :
       entries[i].done /\ entries[i].dst # None => entries[i].value = entries[i].serial
  /\ \A i \in 1..Len(retired) :
       retired[i].dst # None => retired[i].value = retired[i].serial

(* What an operand read returns is what the instructions before it wrote: a
   register without a mapped writer holds the last retired value, whatever
   redirects removed in between, and retirement follows program order. *)
ArchIsLastRetired ==
  /\ \A r \in Regs :
       LET writes == {i \in 1..Len(retired) : retired[i].dst = r}
       IN arch[r] = IF writes = {} THEN 0
                    ELSE retired[CHOOSE i \in writes : \A j \in writes : j <= i].serial
  /\ \A i \in 1..Len(retired)-1 : retired[i].serial < retired[i+1].serial
  /\ \A i \in 1..Len(retired), j \in 1..Len(entries) :
       retired[i].serial < entries[j].serial

(* RecoveryModel.step keeps its own assertions, gives every result to the
   instruction it was computed for, and commits in program order. *)
RecoveryExact == CheckInvariants /\ ResultReachesOwner /\ ArchIsLastRetired

=============================================================================
