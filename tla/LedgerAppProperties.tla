-------------------------- MODULE LedgerAppProperties --------------------------
(* What LedgerApp promises.  The first group holds whatever the host sends and  *)
(* whatever fails; the second group needs the two facts of the environment that  *)
(* Undisturbed names, because the error path of the main loop leaves a review    *)
(* running (see ErrorEndsReview).                                                *)
EXTENDS LedgerApp

\* Type correctness of the context, the screens, the settings and the link.
TypeOK ==
  /\ api \in ApiTypes
  /\ flow \in FlowTypes /\ screen \in Screens /\ timer \in 0..(TimerMod - 1)
  /\ nv \in NvTypes
  /\ io \in [owed : 0..MaxInFlight, stray : BOOLEAN, sw : StatusWords, body : Bodies]
  /\ reviewed \in Subjects \cup {NoSubject}
  /\ approved \in Subjects \cup {NoSubject}

-----------------------------------------------------------------------------
(* Properties of every environment.                                             *)

\* An empty buffer is really empty: no lock, no essence and no addresses are left
\* behind by any clear, reset, error or timeout (api_clear_data, CATCH_OTHER).
\* Host data may be in the blocks, as it is written while the type is EMPTY.
EmptyIsWiped ==
  api.type = "EMPTY" => /\ ~api.flow_locked
                        /\ api.essence = BlankEssence
                        /\ api.addresses = <<>> /\ api.length = 0

\* What was validated stays what it was: as long as the context holds a parsed
\* essence, the buffer its pointers lead into still reads as that essence
\* (api_write_data_block only writes while the type is EMPTY).
EssenceFrozen ==
  api.essence.inputs_count > 0 =>
    /\ LiveEssence # Malformed
    /\ LiveEssence.hash = api.essence.hash
    /\ Len(Inputs) = api.essence.inputs_count
    /\ Len(Outputs) = api.essence.outputs_count

\* Addresses are generated on fully hardened paths only, whatever index and count
\* the host asks for (the wrap-around check of api_generate_address).
AddressesAreHardened ==
  \A i \in DOMAIN api.addresses :
    LET path == api.addresses[i].key
    IN  /\ IsHardened(path.account) /\ IsHardened(path.bip32_index)
        /\ path.bip32_change \in {Hardened, Hardened + 1}

\* A review is over within Timeout ticks also when timer_events wraps around
\* (flow_timer_event compares an unsigned difference).
ReviewAgeBounded ==
  flow.flow_active => (timer - flow.flow_timer_start) % TimerMod < Timeout

\* A screen with review buttons always has the callbacks its buttons call, so a
\* press is never lost and never completes another command.
ReviewHasCallbacks ==
  screen \in ReviewScreens =>
    flow.callbacks = IF screen = "new_address" THEN "address" ELSE "essence"

\* Only the user, in the settings, changes whether blind signing is enabled: no
\* command, error, restart or first start with written memory does.
SettingChangedByUserOnly ==
  [][nv'.blindsigning # nv.blindsigning => screen = "settings"]_vars

-----------------------------------------------------------------------------
(* Properties of an undisturbed environment.                                    *)

\* The transport is half-duplex and no accepted amount is beyond the display.
Undisturbed ==
  /\ MaxInFlight = 1
  /\ \A blocks \in Blocks :
       Decode[FALSE][blocks] # Malformed =>
         \A i \in 1..Len(Decode[FALSE][blocks].outputs) :
           Decode[FALSE][blocks].outputs[i].amount < DisplayLimit

\* The buffer is never in use by one command while another one's review of it
\* runs: a review of an essence sees the essence and account it started with, and
\* a buffer is LOCKED exactly while a new address is reviewed.
ReviewMatchesBuffer ==
  /\ flow.callbacks = "essence" =>
       /\ api.type = "VALIDATED_ESSENCE"
       /\ reviewed = Subject
  /\ api.type = "LOCKED" <=> flow.callbacks = "address"

\* An essence counts as confirmed only if the user approved this very essence for
\* this coin and account, and nothing happened since that would have wiped it.
ConfirmedIsApproved ==
  api.type = "USER_CONFIRMED_ESSENCE" => approved = Subject

\* A signature that leaves the device signs the essence that was approved, with
\* a key of the account it was approved for.
SignatureIsApproved ==
  io.body.kind = "signature" =>
    /\ io.body.hash = approved.hash
    /\ io.body.path.coin = approved.coin
    /\ io.body.path.account = approved.account

\* Every command gets one reply: as long as a review runs one command waits for
\* the reply its callbacks send, and no reply is sent that no command waits for.
OneReplyPerCommand ==
  /\ io.owed = IF flow.flow_active THEN 1 ELSE 0
  /\ ~io.stray

\* api_sign repeats the checks of the validation and says that they cannot fail
\* ("actually data is 100% validated already", api.c:589).
ValidatedPassesChecks ==
  api.type \in {"VALIDATED_ESSENCE", "USER_CONFIRMED_ESSENCE"} => BasicChecksPass

\* The path of an address that belongs to the account of the session.
OwnAddress(address) ==
  \E change, index \in UInt32 :
    address = AddressOf([api.path EXCEPT !.bip32_change = change, !.bip32_index = index])

\* Outputs a review shows on one of its pages.
ShownOutputs ==
  IF screen \in {"transaction", "claiming"}
    THEN { ReadIndex(i, api.essence) : i \in 0..(flow.num_non_remainder_outputs - 1) }
    ELSE {}

\* No coins leave the account unseen: in the review of a transaction each output
\* is shown, or pays a key of the account (get_read_index, StaysInWallet,
\* essence_verify_remainder_address); and every page has an output to show.
NothingLeavesUnseen ==
  screen \in {"transaction", "claiming", "internal_transfer"} =>
    /\ ShownOutputs \subseteq 0..(api.essence.outputs_count - 1)
    /\ \A n \in 0..(api.essence.outputs_count - 1) :
         n \in ShownOutputs \/ OwnAddress(Outputs[n + 1].address)

\* The address on the screen of a new-address review is the one in the buffer,
\* and the path shown below it is the path it was derived from.
NewAddressIsOfShownPath ==
  screen = "new_address" => api.addresses = <<AddressOf(api.path)>>

\* An essence is only confirmed blindly by a user who has enabled blind signing,
\* and outside debug builds by nobody else.
BlindConfirmNeedsSetting ==
  [][(api'.type = "USER_CONFIRMED_ESSENCE" /\ api.type # api'.type
      /\ api.essence.blindsigning /\ ~api.non_interactive_mode)
       => nv.blindsigning]_vars

\* Every command is answered, also when the user walks away from a review.
EveryCommandAnswered == io.owed > 0 ~> io.owed = 0

-----------------------------------------------------------------------------
(* The promise of SigningSession, and how the context keeps it.                 *)

SessionPhase ==
  CASE api.type = "EMPTY"                  -> "empty"
    [] api.type = "VALIDATED_ESSENCE"      -> IF flow.flow_active THEN "reviewing"
                                                                  ELSE "validated"
    [] api.type = "USER_CONFIRMED_ESSENCE" -> "confirmed"
    [] api.type = "LOCKED"                 -> "address_review"
    [] api.type = "GENERATED_ADDRESSES"    -> "addresses"

SessionSubject ==
  IF api.type \in {"VALIDATED_ESSENCE", "USER_CONFIRMED_ESSENCE"}
    THEN Subject ELSE NoSubject

SessionReleased ==
  IF io.body.kind = "signature"
    THEN [hash |-> io.body.hash, coin |-> io.body.path.coin,
          account |-> io.body.path.account]
    ELSE NoSubject

Session == INSTANCE SigningSession WITH
  Things <- Subjects, Nothing <- NoSubject, Unattended <- Debug,
  phase <- SessionPhase, subject <- SessionSubject, released <- SessionReleased

\* The application implements the session: whatever the order of commands, errors,
\* buttons and ticks, only an approved essence is ever signed.
KeepsSession == Session!SafeSpec

\* It does so live: a review ends even if nobody touches the device, because the
\* ticker reaches flow_timer_event.
KeepsLiveSession == Session!Spec

-----------------------------------------------------------------------------
(* Expectations of the repository's comments and documentation the code misses. *)

\* The errors for which the main loop wipes the context (CATCH_OTHER).
ResettingErrors ==
  {"INCORRECT_LENGTH", "INCORRECT_LENGTH_P3", "INS_NOT_SUPPORTED", "INCORRECT_P1P2",
   "COMMAND_INVALID_DATA", "COMMAND_NOT_ALLOWED", "ACCOUNT_NOT_VALID", "UNKNOWN"}

\* "reset states and UI" (main.c:112): after an error that resets the states no
\* review is left running.
ErrorEndsReview == io.sw \in ResettingErrors => ~flow.flow_active

\* "no remainder for claiming shimmer allowed" (api.c:406): neither on the main
\* network nor on its testnet, which api.c:49 lists as a claiming mode too.
ClaimingHasNoRemainder ==
  BaseMode(api.app_mode) = ShimmerClaiming => ~api.essence.has_remainder

\* "Account bip32 index is not hardened" is the documented meaning of
\* SW_ACCOUNT_NOT_VALID (docs/specification.md:127): SET_ACCOUNT answers it for a
\* supported mode and such an account.
UnhardenedAccountStatus ==
  [][\A app_mode \in ModeArgs, account \in AccountArgs :
       /\ BaseMode(app_mode) \in SupportedBaseModes /\ ~IsHardened(account)
       /\ SetAccount(app_mode, account, TRUE)
       => io'.sw = "ACCOUNT_NOT_VALID"]_vars

\* The modes documented for the IOTA application, 0x00 and 0x80 among them as "default,
\* backwards compatible" (docs/specification.md:108), can be selected.
DocumentedModesSelectable ==
  [][\A app_mode \in {0, 128, 1, 129}, account \in AccountArgs :
       /\ App = "IOTA" /\ IsHardened(account)
       /\ SetAccount(app_mode, account, TRUE)
       => io'.sw = "OK"]_vars
================================================================================
