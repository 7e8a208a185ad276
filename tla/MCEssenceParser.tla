---------------------------- MODULE MCEssenceParser ----------------------------
(* A buffer of 30 bytes and fields of one to three: room for three inputs or for *)
(* three outputs, not always for the bip32 indices.  Words are modulo 64, amounts *)
(* modulo 8, and the values read include both ends of their range.                 *)
EXTENDS EssenceParser

MCSizeOf == [field \in Fields |->
  CASE field \in {"input", "output"}                 -> 3
    [] field \in {"payload_length", "bip32", "hash"} -> 2
    [] OTHER                                         -> 1]

MCCounts  == {0, 1, 2, 3, 4}
MCLengths == {0, 2, 29, 30, 40, 63}
MCAmounts == {0, 1, 4, 7}
================================================================================
