----------------------------- MODULE DataMatch -----------------------------
(***************************************************************************)
(* The bytes pefEveDataMatch looks at: one data byte of an event, and the  *)
(* mask and the two compare bytes of a filter entry.  Clients and event    *)
(* sources set them to anything, here bit by bit, so that every quadruple  *)
(* of bytes is matched.                                                    *)
(***************************************************************************)
EXTENDS PefFilter

VARIABLES value, andMask, cmp1, cmp2

matchVars == <<value, andMask, cmp1, cmp2>>

MatchTypeOK == value \in Byte /\ andMask \in Byte /\ cmp1 \in Byte /\ cmp2 \in Byte

MatchInit == value = {} /\ andMask = {} /\ cmp1 = {} /\ cmp2 = {}

Flip(x, b) == IF b \in x THEN x \ {b} ELSE x \cup {b}

SetBit(b) ==
  \/ value' = Flip(value, b) /\ UNCHANGED <<andMask, cmp1, cmp2>>
  \/ andMask' = Flip(andMask, b) /\ UNCHANGED <<value, cmp1, cmp2>>
  \/ cmp1' = Flip(cmp1, b) /\ UNCHANGED <<value, andMask, cmp2>>
  \/ cmp2' = Flip(cmp2, b) /\ UNCHANGED <<value, andMask, cmp1>>

MatchNext == \E b \in Bits : SetBit(b)

MatchSpec == MatchInit /\ [][MatchNext]_matchVars

-----------------------------------------------------------------------------
\* The branches of pefEveDataMatch (the cmp2Flag dance included) compute the
\* rule of the reference definition: selected bits equal, and one of the
\* others equal unless there is none.
DataMatchCorrect ==
  pefEveDataMatch(value, andMask, cmp1, cmp2)
    <=> DataMatchReference(value, andMask, cmp1, cmp2)
=============================================================================
