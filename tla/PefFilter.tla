----------------------------- MODULE PefFilter -----------------------------
(***************************************************************************)
(* The matching rules of the platform event filter: one event message      *)
(* against one entry of the event filter table (pef_action.cpp,            *)
(* pefEveDataMatch and the loop body of eventFilteringProcess).            *)
(*                                                                         *)
(* A byte is the set of its bits that are 1, so that `&' is \cap, `|' is   *)
(* \cup and `~' is complement in Bits.  The code has Bits = 0..7.          *)
(***************************************************************************)
EXTENDS Naturals

CONSTANTS
  Bits,        \* bit positions of a byte
  LowNibble    \* the bits of the mask 0x0F that select an event offset

ASSUME BitsAssumption == Bits # {} /\ LowNibble \subseteq Bits

Byte == SUBSET Bits

ALL_BITS_MATCH_EXACT == Bits
ALL_ZERO_BITS == {}
ALL_ONE_BITS == Bits

\* Mutant: the second compare only looks for a common 1.
pefEveDataMatch_NoZeros(value, andMask, cmp1, cmp2) ==
  /\ value \cap andMask \cap cmp1 = cmp2 \cap cmp1
  /\ cmp1 = ALL_BITS_MATCH_EXACT \/ ((value \cap andMask) \ cmp1) \cap cmp2 # {}

(***************************************************************************)
(* Does one event data byte satisfy the AND mask and the two compare       *)
(* bytes?  `hit' is the branch that clears cmp2Flag.                       *)
(***************************************************************************)
pefEveDataMatch(value, andMask, cmp1, cmp2) ==
  LET temp1 == value \cap andMask
      temp2 == temp1 \ cmp1
      hit   == cmp2 # ALL_ZERO_BITS /\ temp2 \cap cmp2 # {}
      zeros == (Bits \ (temp2 \cup cmp1)) \cap (Bits \ cmp2)
  IN  /\ temp1 \cap cmp1 = cmp2 \cap cmp1
      /\ \/ cmp1 = ALL_BITS_MATCH_EXACT
         \/ hit
         \/ IF cmp2 # ALL_ONE_BITS THEN zeros # {}
                                   ELSE cmp2 = ALL_ZERO_BITS

(***************************************************************************)
(* A header field of the entry accepts a value when it is the wildcard or  *)
(* equal to it.                                                            *)
(***************************************************************************)
ANY == 255

Accepts(field, value) == field = ANY \/ field = value

(***************************************************************************)
(* The tests eventFilteringProcess makes on an enabled entry.  The 16-bit  *)
(* EventData1OffsetMask is the set of low nibbles whose bit is 1.          *)
(***************************************************************************)
EventMatches(entry, msg) ==
  /\ Accepts(entry.GenIDByte1, msg.generatorId1)
  /\ Accepts(entry.GenIDByte2, msg.generatorId2)
  /\ msg.sensorType # 0
  /\ Accepts(entry.SensorType, msg.sensorType)
  /\ Accepts(entry.SensorNum, msg.sensorNum)
  /\ Accepts(entry.EventTrigger, msg.eventType)
  /\ \A i \in 1..3 : pefEveDataMatch(msg.eventData[i], entry.ANDMask[i],
                                     entry.Cmp1[i], entry.Cmp2[i])
  /\ msg.eventData[1] \cap LowNibble \in entry.EventData1OffsetMask

-----------------------------------------------------------------------------
(***************************************************************************)
(* Reference definition of the data match: every bit selected by cmp1      *)
(* equals cmp2, and unless all bits are selected at least one of the       *)
(* others equals cmp2 too.                                                 *)
(***************************************************************************)
SameBit(b, x, y) == (b \in x) <=> (b \in y)

DataMatchReference(value, andMask, cmp1, cmp2) ==
  LET t == value \cap andMask
  IN  /\ \A b \in cmp1 : SameBit(b, t, cmp2)
      /\ cmp1 # Bits => \E b \in Bits \ cmp1 : SameBit(b, t, cmp2)
=============================================================================
