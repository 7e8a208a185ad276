---------------------------- MODULE MCUnlockBlocks ----------------------------
(* Up to four inputs over three keys, two of which share the address index.     *)
EXTENDS UnlockBlocks

MCKeys == {[bip32_index |-> 8, bip32_change |-> 8], [bip32_index |-> 8, bip32_change |-> 9],
           [bip32_index |-> 9, bip32_change |-> 8]}

MCPath == [coin |-> "iota", account |-> 8, bip32_change |-> 0, bip32_index |-> 0]
================================================================================
