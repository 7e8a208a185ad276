------------------------------ MODULE MCLedgerApp ------------------------------
(* A small device for TLC: one data block, which is enough for every kind of    *)
(* essence; words 0..5, hardened from 3 on; a tick count modulo 3.                *)
EXTENDS LedgerAppProperties, TLC

CONSTANTS zero, transfer, sweep, blind, alice, bob,
          OwnCoin           \* coin of the wallet keys the essences pay to

MCBlocks(d) == [n \in 0..0 |-> d]

Key(change, index) ==
  [coin |-> OwnCoin, account |-> 3, bip32_change |-> change, bip32_index |-> index]

Input(change, index) == [bip32_index |-> index, bip32_change |-> change]

Out(address, amount) == [address |-> address, amount |-> amount]

\* Two outputs to others, the second beyond a display limit of 2, around one to
\* the wallet's own key 3/3; two inputs of one key.
TransferEssence ==
  [inputs |-> <<Input(3, 4), Input(3, 4)>>,
   outputs |-> <<Out(alice, 1), Out(AddressOf(Key(3, 3)), 1), Out(bob, 2)>>,
   length |-> 2, data_length |-> 3, hash |-> transfer]

\* One output, to the key of the input.
SweepEssence ==
  [inputs |-> <<Input(3, 5)>>,
   outputs |-> <<Out(AddressOf(Key(3, 5)), 1)>>,
   length |-> 2, data_length |-> 3, hash |-> sweep]

\* The hash of an essence with two input keys.
BlindEssence ==
  [inputs |-> <<Input(3, 3), Input(4, 3)>>, outputs |-> <<>>,
   length |-> 1, data_length |-> 2, hash |-> blind]

MCDecode ==
  [b \in BOOLEAN |-> [blocks \in Blocks |->
     CASE ~b /\ blocks[0] = transfer  -> TransferEssence
       [] ~b /\ blocks[0] = sweep     -> SweepEssence
       [] b /\ blocks[0] = blind      -> BlindEssence
       [] OTHER                       -> Malformed]]

MCBlockData  == {zero, transfer, sweep, blind}
MCBlockDataSmall == {zero, transfer}
MCHashes     == {zero, transfer, sweep, blind}
MCForeign    == {alice, bob}

\* Mainnet and testnet, claiming, and a mode of the other application.
MCModes      == {1, 2, 3, 131}
MCIotaModes  == {1, 4}
MCIotaDocumented == {0, 1, 128, 129}
MCClaiming   == {2, 130}
MCAccounts   == {0, 3}
MCBip32      == {0, 3, 5}
MCBip32Small == {3, 5}
================================================================================
