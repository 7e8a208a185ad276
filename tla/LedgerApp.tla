------------------------------- MODULE LedgerApp -------------------------------
(* The IOTA / Shimmer application of a Ledger device: the commands of the host  *)
(* (src/src/api.c, dispatched by iota_io.c), the main loop with its error        *)
(* handling (main.c) and the steps of the user and the ticker (src/src/ui), over *)
(* one API_CTX.  An action is a whole command or event: the firmware runs one    *)
(* thread, and every handler runs to its reply, its exception or the start of a  *)
(* flow before the next event is taken.                                          *)
EXTENDS ApiContext, UserInterface, HostLink, Signing

CONSTANTS
  ModeArgs,          \* app_mode arguments of SET_ACCOUNT
  AccountArgs,       \* account arguments of SET_ACCOUNT
  Bip32Args,         \* index and change arguments
  AddressesMax,      \* API_GENERATE_ADDRESSES_MAX_COUNT
  AddressSize,       \* ADDRESS_WITH_TYPE_SIZE_BYTES
  DisplayLimit       \* amounts from here on have no decimal rendering: 10^18

VARIABLES
  reviewed,          \* what the running review shows the user      (history)
  approved           \* what the user, or debug mode, last approved (history)

ASSUME ArgsAssumption ==
  /\ ModeArgs \subseteq AppModes
  /\ AccountArgs \subseteq UInt32 /\ Bip32Args \subseteq UInt32
  /\ AddressesMax \in 0..Hardened
  /\ DisplayLimit \in Nat
  /\ \A n \in 0..AddressesMax : n * AddressSize \in 0..(BufferSize - 1)

uiVars == <<flow, screen, timer>>
history == <<reviewed, approved>>
vars == <<api, flow, screen, timer, nv, io, reviewed, approved>>

NoSubject == [hash |-> ZeroHash, coin |-> "none", account |-> 0]

\* What a review is about: the essence and the keys it would be signed with.
Subject == [hash |-> api.essence.hash, coin |-> api.path.coin,
            account |-> api.path.account]

Subjects == [hash : Hashes, coin : {"iota", "shimmer", "testnet"}, account : UInt32]

\* Bodies of replies.
Bodies == {NoBody} \cup [kind : {"addresses"}, addresses : Seq(Addresses)]
                  \cup [kind : {"signature"}, hash : Hashes, path : Paths]
                  \cup [kind : {"reference"}, reference : Nat]

-----------------------------------------------------------------------------
(* Starting, and the ways a command ends.                                       *)

ApiStart == ApiInitial(APP_MODE_INIT, 0)

Init ==
  /\ api = ApiStart
  /\ flow = NoFlow /\ screen = "menu" /\ timer = 0
  /\ nv \in { NvInitialized(v) : v \in NvTypes }
  /\ io = LinkInitial
  /\ reviewed = NoSubject /\ approved = NoSubject

\* The command succeeds at once, without a change of screen.
Succeed(a, body) ==
  /\ api' = a
  /\ Answer("OK", body)
  /\ UNCHANGED <<uiVars, nv, history>>

\* Mutant of ResetsStates: the host may correct its data and try again.
ResetsStatesButForData(sw) ==
  sw \notin {"DEVICE_IS_LOCKED", "CLA_NOT_SUPPORTED", "COMMAND_INVALID_DATA"}

\* The errors after which the main loop resets the states.
ResetsStates(sw) == sw \notin {"DEVICE_IS_LOCKED", "CLA_NOT_SUPPORTED"}

\* Mutant of CatchOther: the buffer is released and not wiped.
CatchOtherReleases(a, sw) ==
  /\ api' = IF ResetsStates(sw) THEN [a EXCEPT !.type = "EMPTY"] ELSE a
  /\ UNCHANGED flow

\* The CATCH_OTHER handler of the main loop, over the context a that the handler
\* had reached when it threw: wipe everything, then call ui_reset, which is empty.
CatchOther(a, sw) ==
  /\ api' = IF ResetsStates(sw) THEN ApiStart ELSE a
  /\ UNCHANGED flow

\* A handler throws the status word sw after it has changed the context to a.
ThrowFrom(a, sw) ==
  /\ CatchOther(a, sw)
  /\ Answer(sw, NoBody)
  /\ UNCHANGED <<screen, timer, nv, history>>

\* A handler throws before it changes anything.
Throw(sw) == ThrowFrom(api, sw)

\* A handler that shows a transient screen throws sw.
ThrowBusy(a, sw) ==
  /\ CatchOther(a, sw)
  /\ Answer(sw, NoBody)
  /\ screen' = "busy"
  /\ UNCHANGED <<timer, nv, history>>

\* The buffer while a handler works on it: neither readable nor writable.
Locked == [api EXCEPT !.type = "LOCKED"]

-----------------------------------------------------------------------------
(* Commands on any state.                                                       *)

\* The header is checked before the dispatch: length, class, parameter 3.
HeaderError ==
  /\ CanReceive
  /\ \E sw \in {"INCORRECT_LENGTH", "CLA_NOT_SUPPORTED", "INCORRECT_LENGTH_P3"} :
       Throw(sw)

\* INS_NONE returns without a reply; the host is assumed not to wait for one.
NoOperation ==
  /\ CanReceive
  /\ UNCHANGED vars

\* While the device is locked only five instructions are dispatched.
DeviceIsLocked == CanReceive /\ Throw("DEVICE_IS_LOCKED")

UnknownInstruction == CanReceive /\ Throw("INS_NOT_SUPPORTED")

\* api_get_app_config and api_get_data_buffer_state report version, flags, type
\* and length; only replies with addresses or unlock blocks keep their body here.
GetAppConfig == CanReceive /\ Succeed(api, NoBody)

GetDataBufferState == CanReceive /\ Succeed(api, NoBody)

\* api_show_flow only replies.
ShowFlow == CanReceive /\ Succeed(api, NoBody)

\* api_reset: wipe and forget the account.
Reset == CanReceive /\ Succeed(ApiStart, NoBody)

\* api_clear_data_buffer.
ClearDataBuffer == CanReceive /\ Succeed(ApiCleared(api), NoBody)

\* The checks of api_set_account, then of the switch in api_initialize.
SetAccountStatus(app_mode, account, len_ok) ==
  IF ~len_ok THEN "INCORRECT_LENGTH"
  ELSE IF BaseMode(app_mode) > Shimmer THEN "INCORRECT_P1P2"
  ELSE IF ~IsHardened(account) THEN "COMMAND_INVALID_DATA"
  ELSE IF BaseMode(app_mode) \notin SupportedBaseModes THEN "ACCOUNT_NOT_VALID"
  ELSE "OK"

\* Mutant of AccountSelected: the path changes and the data stays.
AccountSelectedKeepsData(app_mode, account) ==
  [api EXCEPT !.path.coin = Coin(app_mode), !.path.account = account,
              !.app_mode = app_mode]

\* All data is deleted with the change of account.
AccountSelected(app_mode, account) == ApiInitial(app_mode, account)

\* api_set_account.
SetAccount(app_mode, account, len_ok) ==
  /\ CanReceive
  /\ LET sw == SetAccountStatus(app_mode, account, len_ok)
     IN  IF sw = "OK" THEN Succeed(AccountSelected(app_mode, account), NoBody)
                      ELSE Throw(sw)

-----------------------------------------------------------------------------
(* The data buffer.                                                             *)

\* Mutant of WriteDataBlockStatus: the type of the buffer is not checked.
WriteDataBlockAnyType(n, len_ok) ==
  IF ~len_ok THEN "INCORRECT_LENGTH"
  ELSE IF n >= BlockCount THEN "INCORRECT_P1P2" ELSE "OK"

WriteDataBlockStatus(n, len_ok) ==
  IF api.type # "EMPTY" THEN "COMMAND_NOT_ALLOWED"
  ELSE IF ~len_ok THEN "INCORRECT_LENGTH"
  ELSE IF n >= BlockCount THEN "INCORRECT_P1P2"
  ELSE "OK"

\* api_write_data_block.
WriteDataBlock(n, data, len_ok) ==
  /\ CanReceive
  /\ LET sw == WriteDataBlockStatus(n, len_ok)
     IN  IF sw = "OK" THEN Succeed([api EXCEPT !.blocks[n] = data], NoBody)
                      ELSE Throw(sw)

\* Only generated addresses are readable: no code sets the type SIGNATURES.
ReadDataBlockStatus(n) ==
  IF api.type # "GENERATED_ADDRESSES" THEN "COMMAND_NOT_ALLOWED"
  ELSE IF n >= BlockCount THEN "INCORRECT_P1P2"
  ELSE "OK"

\* api_read_data_block.
ReadDataBlock(n) ==
  /\ CanReceive
  /\ LET sw == ReadDataBlockStatus(n)
     IN  IF sw = "OK"
           THEN Succeed(api, [kind |-> "addresses", addresses |-> api.addresses])
           ELSE Throw(sw)

-----------------------------------------------------------------------------
(* Generating addresses.                                                        *)

\* Mutant of RangeIsHardened: the end of the range is not checked.
RangeStartIsHardened(req) == IsHardened(req.bip32_index)

\* The index after the last address has not lost its most significant bit.
RangeIsHardened(req) ==
  IsHardened((req.bip32_index + req.count) % (2 * Hardened))

RequestIsValid(show, req) ==
  /\ req.count <= AddressesMax
  /\ show => req.count = 1
  /\ IsHardened(req.bip32_index) /\ IsHardened(req.bip32_change)
  /\ req.bip32_change \in {Hardened, Hardened + 1}
  /\ RangeIsHardened(req)

GenerateAddressStatus(show, req, len_ok) ==
  IF api.flow_locked THEN "COMMAND_NOT_ALLOWED"
  ELSE IF ~AccountIsSet THEN "ACCOUNT_NOT_VALID"
  ELSE IF api.type # "EMPTY" THEN "COMMAND_NOT_ALLOWED"
  ELSE IF ~len_ok THEN "INCORRECT_LENGTH"
  ELSE IF ~RequestIsValid(show, req) THEN "COMMAND_INVALID_DATA"
  ELSE "OK"

\* The path of the address number i of a request.
RequestPath(req, i) ==
  [api.path EXCEPT !.bip32_index  = (req.bip32_index + i) % (2 * Hardened),
                   !.bip32_change = req.bip32_change]

\* The zeroed buffer with n addresses of the request written over it.
DerivedInto(req, n) ==
  [Locked EXCEPT !.path = RequestPath(req, n), !.blocks = ZeroBlocks,
                 !.addresses = [i \in 1..n |-> AddressOf(RequestPath(req, i - 1))]]

\* The buffer with all of them.
GeneratedInto(req) == [DerivedInto(req, req.count) EXCEPT !.length = req.count * AddressSize]

\* Mutant of ReviewedAddress: the address index stays behind the last address.
ReviewedAddressNextIndex(req) ==
  [GeneratedInto(req) EXCEPT
     !.flow_locked = TRUE, !.essence.outputs_count = 1,
     !.essence.remainder_bip32_index = req.bip32_index,
     !.essence.remainder_bip32_change = req.bip32_change]

\* A new address to acknowledge: the type stays LOCKED, so that the buffer cannot
\* be read before, and the path is the one of the address.
ReviewedAddress(req) ==
  [GeneratedInto(req) EXCEPT
     !.flow_locked = TRUE, !.path = RequestPath(req, 0),
     !.essence.outputs_count = 1, !.essence.remainder_index = 0,
     !.essence.remainder_bip32_index = req.bip32_index,
     !.essence.remainder_bip32_change = req.bip32_change]

\* Without a review (or in non-interactive mode) the addresses can be read.
GenerateSilently(show, req) ==
  /\ ~show \/ api.non_interactive_mode
  /\ api' = [GeneratedInto(req) EXCEPT !.type = "GENERATED_ADDRESSES"]
  /\ Answer("OK", NoBody)
  /\ screen' = IF show THEN screen ELSE "busy"
  /\ UNCHANGED <<flow, timer, nv, history>>

GenerateForReview(show, req) ==
  /\ show /\ ~api.non_interactive_mode
  /\ api' = ReviewedAddress(req)
  /\ Defer
  /\ flow' = FlowStarted("address") /\ screen' = "new_address"
  /\ reviewed' = NoSubject
  /\ UNCHANGED <<timer, nv, approved>>

\* The checks before the buffer is locked, and those after.
ThrowGenerate(sw) ==
  IF sw \in {"COMMAND_NOT_ALLOWED", "ACCOUNT_NOT_VALID"} THEN Throw(sw)
                                                        ELSE ThrowFrom(Locked, sw)

\* api_generate_address; derived: how many keys can be derived before one fails.
GenerateAddress(show, req, len_ok, derived) ==
  /\ CanReceive
  /\ LET sw == GenerateAddressStatus(show, req, len_ok)
         fails == derived < req.count
     IN  CASE sw # "OK" -> ThrowGenerate(sw)
           [] sw = "OK" /\ fails /\ show  -> ThrowFrom(DerivedInto(req, derived), "UNKNOWN")
           [] sw = "OK" /\ fails /\ ~show -> ThrowBusy(DerivedInto(req, derived), "UNKNOWN")
           [] OTHER -> GenerateSilently(show, req) \/ GenerateForReview(show, req)

-----------------------------------------------------------------------------
(* Preparing an essence.                                                        *)

\* A remainder is refused in claiming mode (the mode byte itself, so not on its
\* testnet), unhardened or out of range.
RemainderAccepted(r) ==
  /\ api.app_mode # ShimmerClaiming
  /\ IsHardened(r.bip32_change) /\ IsHardened(r.bip32_index)
  /\ r.index < OutputsMax

\* Reading the essence and verifying the remainder, or failing.
EssenceAccepted(has_remainder, r, derived) ==
  /\ Decode[FALSE][api.blocks] # Malformed
  /\ has_remainder =>
       derived /\ RemainderVerified(api.path, Decode[FALSE][api.blocks], r)

PrepareSigningStatus(has_remainder, r, len_ok, derived) ==
  IF api.type # "EMPTY" THEN "COMMAND_NOT_ALLOWED"
  ELSE IF ~AccountIsSet THEN "ACCOUNT_NOT_VALID"
  ELSE IF ~len_ok THEN "INCORRECT_LENGTH"
  ELSE IF has_remainder /\ ~RemainderAccepted(r) THEN "COMMAND_INVALID_DATA"
  ELSE IF ~EssenceAccepted(has_remainder, r, derived) THEN "COMMAND_INVALID_DATA"
  ELSE "OK"

NoRemainder == [index |-> 0, bip32_index |-> 0, bip32_change |-> 0]

\* The essence when the parser starts, with what the request says of the remainder.
\* How far the parser comes before it fails is left out.
Parsing(has_remainder, r) ==
  [Locked EXCEPT !.essence.has_remainder = has_remainder,
                 !.essence.remainder_index = r.index,
                 !.essence.remainder_bip32_index = r.bip32_index,
                 !.essence.remainder_bip32_change = r.bip32_change]

\* Failing before the buffer is locked, while arguments are checked, or in the parser.
ThrowPrepare(has_remainder, r, sw) ==
  IF sw = "COMMAND_NOT_ALLOWED" THEN Throw(sw)
  ELSE IF sw # "COMMAND_INVALID_DATA" \/ (has_remainder /\ ~RemainderAccepted(r))
         THEN ThrowFrom(Locked, sw)
  ELSE ThrowFrom(Parsing(has_remainder, r), sw)

\* The essence as the parser leaves it.
ParsedEssence(e, blind, has_remainder, r, internal) ==
  [inputs_count |-> Len(e.inputs), outputs_count |-> Len(e.outputs),
   length |-> e.length, blindsigning |-> blind, has_remainder |-> has_remainder,
   remainder_index |-> r.index, remainder_bip32_index |-> r.bip32_index,
   remainder_bip32_change |-> r.bip32_change, is_internal_transfer |-> internal,
   hash |-> e.hash]

Validated(has_remainder, r, internal) ==
  LET e == Decode[FALSE][api.blocks]
  IN  [api EXCEPT !.type = "VALIDATED_ESSENCE", !.length = e.data_length,
                  !.path = IF has_remainder THEN RemainderPath(api.path, r) ELSE @,
                  !.essence = ParsedEssence(e, FALSE, has_remainder, r, internal)]

\* api_prepare_signing; derived: whether the key derivations succeed.  A failed
\* derivation in check_for_internal_transfer only means "not internal".
PrepareSigning(has_remainder, r, len_ok, derived) ==
  /\ CanReceive
  /\ LET sw == PrepareSigningStatus(has_remainder, r, len_ok, derived)
     IN  IF sw = "OK"
           THEN Succeed(Validated(has_remainder, r,
                          derived /\ IsInternalTransfer(api, Decode[FALSE][api.blocks],
                                                        has_remainder)), NoBody)
           ELSE ThrowPrepare(has_remainder, r, sw)

PrepareBlindsigningStatus ==
  IF api.type # "EMPTY" THEN "COMMAND_NOT_ALLOWED"
  ELSE IF api.app_mode = ShimmerClaiming THEN "COMMAND_NOT_ALLOWED"
  ELSE IF ~AccountIsSet THEN "ACCOUNT_NOT_VALID"
  ELSE IF Decode[TRUE][api.blocks] = Malformed THEN "COMMAND_INVALID_DATA"
  ELSE "OK"

ValidatedBlind ==
  LET e == Decode[TRUE][api.blocks]
  IN  [api EXCEPT !.type = "VALIDATED_ESSENCE", !.length = e.data_length,
                  !.essence = ParsedEssence(e, TRUE, FALSE, NoRemainder, FALSE)]

\* The buffer is locked before the account is checked.
ThrowPrepareBlind(sw) ==
  IF sw = "COMMAND_NOT_ALLOWED" THEN Throw(sw)
  ELSE IF sw = "ACCOUNT_NOT_VALID" THEN ThrowFrom(Locked, sw)
  ELSE ThrowFrom([Locked EXCEPT !.essence.blindsigning = TRUE], sw)

\* api_prepare_blindsigning: allowed whatever the setting is.
PrepareBlindsigning ==
  /\ CanReceive
  /\ IF PrepareBlindsigningStatus = "OK" THEN Succeed(ValidatedBlind, NoBody)
                                         ELSE ThrowPrepareBlind(PrepareBlindsigningStatus)

-----------------------------------------------------------------------------
(* Confirming and signing.                                                      *)

\* The basic checks of api_user_confirm_essence and api_sign.
BasicChecksPass ==
  /\ api.length < BufferSize /\ api.essence.length < BufferSize
  /\ api.length >= api.essence.length
  /\ api.essence.inputs_count \in 1..InputsMax

UserConfirmStatus ==
  IF api.flow_locked THEN "COMMAND_NOT_ALLOWED"
  ELSE IF api.type # "VALIDATED_ESSENCE" THEN "COMMAND_NOT_ALLOWED"
  ELSE IF ~AccountIsSet THEN "ACCOUNT_NOT_VALID"
  ELSE IF ~api.essence.blindsigning /\ ~BasicChecksPass THEN "UNKNOWN"
  ELSE "OK"

\* Before a transaction is reviewed the path is set to the remainder's.
ConfirmPath ==
  IF api.essence.blindsigning THEN api.path
  ELSE [api.path EXCEPT !.bip32_index  = api.essence.remainder_bip32_index,
                        !.bip32_change = api.essence.remainder_bip32_change]

\* Debug builds skip the review in non-interactive mode.
ConfirmSilently ==
  /\ api.non_interactive_mode
  /\ api' = [api EXCEPT !.type = "USER_CONFIRMED_ESSENCE", !.path = ConfirmPath]
  /\ Answer("OK", NoBody)
  /\ approved' = Subject
  /\ UNCHANGED <<uiVars, nv, reviewed>>

\* Start the review of the essence, or of its hash when signing blindly.
ConfirmByReview ==
  /\ ~api.non_interactive_mode
  /\ api' = [api EXCEPT !.flow_locked = TRUE, !.path = ConfirmPath]
  /\ Defer
  /\ IF api.essence.blindsigning
       THEN /\ flow' = FlowStarted("essence")
            /\ screen' = BlindsigningScreen(nv.blindsigning)
       ELSE /\ flow' = ReviewStarted(api.essence)
            /\ screen' = TransactionScreen(api.essence, api.app_mode = ShimmerClaiming)
  /\ reviewed' = Subject
  /\ UNCHANGED <<timer, nv, approved>>

\* api_user_confirm_essence.
UserConfirmEssence ==
  /\ CanReceive
  /\ IF UserConfirmStatus = "OK" THEN ConfirmSilently \/ ConfirmByReview
                                 ELSE Throw(UserConfirmStatus)

\* Mutant of SignStatus: a validated essence is enough.
SignStatusUnconfirmed(p1) ==
  IF api.type \notin {"VALIDATED_ESSENCE", "USER_CONFIRMED_ESSENCE"}
    THEN "COMMAND_NOT_ALLOWED"
  ELSE IF ~BasicChecksPass THEN "UNKNOWN"
  ELSE IF p1 >= api.essence.inputs_count THEN "INCORRECT_P1P2"
  ELSE "OK"

SignStatus(p1) ==
  IF api.type # "USER_CONFIRMED_ESSENCE" THEN "COMMAND_NOT_ALLOWED"
  ELSE IF ~BasicChecksPass THEN "UNKNOWN"
  ELSE IF p1 >= api.essence.inputs_count THEN "INCORRECT_P1P2"
  ELSE "OK"

\* The unlock block of input p1, and the path left behind by a signature.
SignedBody(p1) ==
  UnlockBlock(api.essence.hash, api.path, Inputs, p1, api.essence.blindsigning)

PathAfterSign(p1) ==
  IF SignedBody(p1).kind = "signature" THEN SignedBody(p1).path ELSE api.path

\* api_sign; derived: whether the signature can be made.  A reference needs none.
Sign(p1, derived) ==
  /\ CanReceive
  /\ LET sw == SignStatus(p1)
     IN  IF sw # "OK" THEN Throw(sw)
         ELSE IF SignedBody(p1).kind = "signature" /\ ~derived
           THEN ThrowBusy([api EXCEPT !.path = PathAfterSign(p1)], "UNKNOWN")
         ELSE /\ api' = [api EXCEPT !.path = PathAfterSign(p1)]
              /\ Answer("OK", SignedBody(p1))
              /\ screen' = "busy"
              /\ UNCHANGED <<flow, timer, nv, history>>

\* api_set_non_interactive_mode, in debug builds only.
SetNonInteractiveMode(mode) ==
  /\ Debug /\ CanReceive
  /\ IF mode > 1 THEN Throw("INCORRECT_P1P2")
     ELSE Succeed([api EXCEPT !.non_interactive_mode = (mode = 1)], NoBody)

-----------------------------------------------------------------------------
(* Callbacks of the reviews.                                                    *)

\* api_generate_address_accepted and api_user_confirm_essence_accepted.
AcceptCallback ==
  /\ api' = [api EXCEPT !.type = IF flow.callbacks = "address"
                                   THEN "GENERATED_ADDRESSES"
                                   ELSE "USER_CONFIRMED_ESSENCE"]
  /\ AnswerFlow("OK")

\* Mutant of RejectCallback: the reply is sent and the data stays.
RejectCallbackKeepsData ==
  /\ api' = api
  /\ AnswerFlow("DENIED_BY_USER")

\* api_user_confirm_essence_rejected.
RejectCallback ==
  /\ api' = ApiCleared(api)
  /\ AnswerFlow("DENIED_BY_USER")

\* Mutant of TimeoutCallback: the reply is sent and the data stays.
TimeoutCallbackKeepsData ==
  /\ api' = api
  /\ AnswerFlow("COMMAND_TIMEOUT")

\* api_generate_address_timeout and api_user_confirm_essence_timeout.
TimeoutCallback ==
  /\ api' = ApiCleared(api)
  /\ AnswerFlow("COMMAND_TIMEOUT")

-----------------------------------------------------------------------------
(* Steps of the user.                                                           *)

\* Mutant of UserAccept: the flow is stopped first, and with it the callback is gone.
UserAcceptStopsFirst ==
  /\ AcceptOffered
  /\ FlowStop
  /\ reviewed' = NoSubject
  /\ UNCHANGED <<api, io, timer, nv, approved>>

\* The accept or Ok button (cb_accept, cb_bs_accept): the callback of the flow as it
\* is before flow_stop zeroes it, then the main menu.
UserAccept ==
  /\ AcceptOffered
  /\ AcceptCallback /\ FlowStop
  /\ approved' = IF flow.callbacks = "essence" THEN reviewed ELSE approved
  /\ reviewed' = NoSubject
  /\ UNCHANGED <<timer, nv>>

\* The reject or cancel button (cb_reject, cb_bs_reject).
UserReject ==
  /\ screen \in RejectScreens
  /\ RejectCallback /\ FlowStop
  /\ reviewed' = NoSubject
  /\ UNCHANGED <<timer, nv, approved>>

\* cb_continue_claiming: on to the transaction itself.
ContinueClaiming ==
  /\ screen = "claiming"
  /\ screen' = "transaction"
  /\ UNCHANGED <<api, flow, timer, nv, io, history>>

\* cb_next_dataset and cb_prev_dataset.
ChangeOutput ==
  /\ screen = "transaction"
  /\ \E i \in {NextOutput(flow.current), PrevOutput(flow.current)} : ShowOutput(i, api.essence)
  /\ UNCHANGED <<api, screen, timer, nv, io, history>>

\* Rendering the output a review is at (cb_address_preinit, cb_amount_preinit)
\* throws: it is gone, or its amount has no rendering.  The exception leaves the
\* event loop inside io_exchange and is caught by the main loop.
DisplayFails ==
  flow.read_index < api.essence.outputs_count =>
    Outputs[flow.read_index + 1].amount >= DisplayLimit

DisplayError ==
  /\ screen = "transaction"
  /\ DisplayFails
  /\ CatchOther(api, "UNKNOWN")
  /\ AnswerFlow("UNKNOWN")
  /\ UNCHANGED <<screen, timer, nv, history>>

\* The settings of the main menu, where blind signing is switched.
EnterSettings ==
  /\ screen = "menu" /\ screen' = "settings"
  /\ UNCHANGED <<api, flow, timer, nv, io, history>>

ToggleBlindsigning ==
  /\ screen = "settings" /\ nv' = NvToggled(nv)
  /\ UNCHANGED <<api, uiVars, io, history>>

\* Back from the settings, and the end of a transient screen.
BackToMenu ==
  /\ screen \in {"settings", "busy"} /\ screen' = "menu"
  /\ UNCHANGED <<api, flow, timer, nv, io, history>>

-----------------------------------------------------------------------------
(* The ticker, and the end of a session.                                        *)

\* Mutant of Now: a counter that never wraps around.
NowUnwrapped == timer + 1

\* timer_events++ on 32 bits.
Now == (timer + 1) % TimerMod

\* A ticker event: count it, then abandon a flow that is too old.
Tick ==
  /\ timer' = Now
  /\ IF FlowExpired(Now)
       THEN /\ TimeoutCallback /\ FlowStop
            /\ reviewed' = NoSubject
            /\ UNCHANGED <<nv, approved>>
       ELSE UNCHANGED <<api, flow, screen, nv, io, history>>

\* EXCEPTION_IO_RESET, or Quit and a new start: everything but the settings is
\* set up again.
Restart ==
  /\ api' = ApiStart
  /\ flow' = NoFlow /\ screen' = "menu" /\ timer' = 0
  /\ nv' = NvInitialized(nv)
  /\ io' = LinkInitial
  /\ reviewed' = NoSubject /\ approved' = NoSubject

-----------------------------------------------------------------------------

Bip32Requests ==
  [count : 0..(AddressesMax + 1), bip32_index : Bip32Args, bip32_change : Bip32Args]

Remainders == [index : 0..OutputsMax, bip32_index : Bip32Args, bip32_change : Bip32Args]

Command ==
  \/ HeaderError \/ NoOperation \/ DeviceIsLocked \/ UnknownInstruction
  \/ GetAppConfig \/ GetDataBufferState \/ ShowFlow \/ Reset \/ ClearDataBuffer
  \/ \E app_mode \in ModeArgs, account \in AccountArgs, len_ok \in BOOLEAN :
       SetAccount(app_mode, account, len_ok)
  \/ \E n \in 0..BlockCount, data \in BlockData, len_ok \in BOOLEAN :
       WriteDataBlock(n, data, len_ok)
  \/ \E n \in 0..BlockCount : ReadDataBlock(n)
  \/ \E show \in BOOLEAN, req \in Bip32Requests, len_ok \in BOOLEAN,
        derived \in 0..AddressesMax : GenerateAddress(show, req, len_ok, derived)
  \/ \E r \in Remainders, len_ok \in BOOLEAN, derived \in BOOLEAN :
       PrepareSigning(TRUE, r, len_ok, derived)
  \/ \E len_ok \in BOOLEAN, derived \in BOOLEAN :
       PrepareSigning(FALSE, NoRemainder, len_ok, derived)
  \/ PrepareBlindsigning
  \/ UserConfirmEssence
  \/ \E p1 \in 0..InputsMax, derived \in BOOLEAN : Sign(p1, derived)
  \/ \E mode \in 0..2 : SetNonInteractiveMode(mode)

UserStep ==
  \/ UserAccept \/ UserReject \/ ContinueClaiming \/ ChangeOutput \/ DisplayError
  \/ EnterSettings \/ ToggleBlindsigning \/ BackToMenu

Next == Command \/ UserStep \/ Tick \/ Restart

Spec == Init /\ [][Next]_vars

\* The ticker of the device never stops: the MCU sends an event every 100 ms.
FairSpec == Spec /\ WF_vars(Tick)
================================================================================
