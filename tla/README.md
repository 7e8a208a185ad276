# A model of the IOTA / Shimmer application for Ledger devices

The TLA+ modules of this directory specify the application of this repository
(`src/src`): a program for a hardware wallet that derives addresses, reads a
transaction essence from the host, has the user review it on the screen, and signs
it input by input. TLC checks the specification on small devices, TLAPS proves most
of it for devices of every size. Source paths below are relative to `src/src`
unless they name a directory of the repository.

- [The system](#the-system) · [Modules](#modules) · [Runs](#runs) ·
  [Bounds](#bounds) · [Environment and fairness](#environment-and-fairness) ·
  [Proofs](#proofs) · [Disagreements found](#disagreements-found) ·
  [Not modelled](#not-modelled) · [Plan](#plan)

## The system

The firmware runs one thread. `main.c` initialises the settings and enters
`IOTA_main`, a loop around `io_exchange`, which returns a command of the host.
While it waits, `io_exchange` calls `io_event` for buttons, display and ticker, so
the user interface runs *inside* that call, and its callbacks change the context of
the commands. Every handler runs to its end before the next event; what is hard is
the order in which commands, buttons, ticks and errors arrive, and what each of them
leaves behind for the next.

| component | source | state | operations | talks to | what makes it correct |
|---|---|---|---|---|---|
| Command handlers | `api.c`, `api.h` | the global `API_CTX api`: path, mode, data buffer and its type, parsed essence, `flow_locked` | the instructions of `iota_dispatch` | replies by `io_send`; starts flows; gets their callbacks | only an approved essence is signed; what was validated does not change; every wipe is complete |
| Dispatch, main loop | `iota_io.c`, `main.c` | APDU buffer, `timer_events` | header and lock checks, dispatch, `CATCH_OTHER`, ticker, restart | everything | every command gets one reply; after an error nothing of the old state is left |
| Review flows | `ui/nano/flow_user_confirm*.c` | `flow_data`: callbacks, start time, current output; the displayed screen | start, move, accept, reject, expire, stop | reads the live `api`; calls the callbacks of `api.c` | what is shown is what is signed; no output is skipped; a review ends |
| Menu and transient screens | `ui/nano/flow_main_menu.c`, `flow_signing.c`, `flow_generating_addresses.c`, `ui/ui.c` | the displayed screen | enter settings, toggle, back, time out | settings | a transient screen does not end a review |
| Settings | `nv_mem.c` | blind signing enabled, initialised | initialise, toggle | flows | only the user changes them, restarts keep them |
| Essence parsers | `iota/essence_stardust.c`, `iota/blindsigning_stardust.c` | cursor, counts, lengths, total | one pass over the buffer | called by `PREPARE_*` | reads stay in the buffer; counts, lengths and amounts are right |
| Wallet checks | `iota/internal_transfer.c`, `iota/address.c`, `iota/abstraction.c` | – | remainder address, internal transfer | called by the parsers | an output not shown belongs to the wallet |
| Signing | `iota/signing.c` | the shared path | signature or reference for an input | called by `SIGN_SINGLE` | references lead to signatures, with the right keys |
| Text of the screens | `ui/ui_common.c` | the screen's buffer | format amounts and paths | called by the flows | what is read is what is stored |
| Bech32 and base32 | `iota/bech32.c`, `iota/abstraction.c` | the screen's buffer | text of an address | called by the flows | a wallet that reads it gets the same address on the same network |
| Public keys | `iota/ed25519.c` | – | bytes of a point | called by addresses and signing | different keys have different bytes |

How they interact: *calls* from the dispatcher to the handlers and on to parsers and
signing; *callbacks* from the flows to the handlers (`accept_cb`, `reject_cb`,
`timeout_cb`); *shared state*: flows and signing read the live `api`, all commands
share one derivation path; *exceptions* (`THROW`) out of any of these into
`CATCH_OTHER`. The behaviours that are hard to test:

- the interleaving of commands with a review that waits for the user;
- errors half way through a handler, and errors while a page is displayed;
- the timeout against the buttons, and the wrap-around of the tick count;
- long legal sequences over two accounts, two essences and a blind-signing setting
  that changes in between;
- indices and sums at the ends of their range.

Each is an entry of `hazards` in `PROJECT.json`, with its line and its properties.

## Modules

| module | models | state |
|---|---|---|
| `Signing` | `iota/signing.c`: which unlock block an input gets | none (operators) |
| `UnlockBlocks` | the blocks a host collects with `SIGN_SINGLE` in any order | inputs, path, blocks |
| `ApiContext` | `API_CTX`, its initialisation and wiping, addresses, essences, wallet checks | `api` |
| `UserInterface` | `flow_data`, screens, ticker, settings, which outputs a review shows | `flow screen timer nv` |
| `HostLink` | the APDU exchange: commands owed a reply, status word, body | `io` |
| `LedgerApp` | **the application**: composes the three above and `Signing`; one action per command, button, tick, restart | all of these, and the history `reviewed`, `approved` |
| `LedgerAppProperties` | what the application promises | – |
| `SigningSession` | the abstract specification: phases of the buffer, subject, released signature | `phase subject released` |
| `Review` | the abstract review: which decisions are possible on which screen, at which output | screen, flow, decision |
| `ReviewPages` | the pages, buttons and moves of every review; implements `Review` | page, what has been seen |
| `AmountText` | `format_u64`, `format_value_full_decimals`: the text of an amount | digits, text |
| `PathText` | `format_bip32`, `format_bip32_with_line_breaks`: a path on three lines | buffer, line, room |
| `Base32` | `base32_encode`, bit by bit | word, waiting bits, symbols |
| `Bech32` | `address_encode_bech32` on top of `Base32`, and a wallet that reads the text | checksum, text |
| `PublicKey` | `ed25519_public_key_to_bytes` | bytes |
| `Digits`, `ScreenBuffer`, `Conversions` | the digits of a number, the buffer's size; composes `AmountText`, `PathText` and `PublicKey`, one of which runs | which one |
| `EssenceParser` | both parsers on words of a given width | cursor, counts, lengths, amounts |
| `MC*` | constants for TLC | – |
| `*Proofs` | theorems and proofs | – |

**State.** `api` is the C struct, field by field, with these abstractions: `path`
has the coin, account, change and index elements; the bytes of the buffer are
`blocks`, the host's part, a function from block numbers to contents, and
`addresses`, the sequence the device wrote over it. `Inputs` and `Outputs` are, like
the pointers of `ESSENCE`, views of the *live* buffer, while counts, lengths and hash
are copies made when it was parsed: that they agree is a property (`EssenceFrozen`),
not an assumption. What the parser makes of a buffer is the constant `Decode`;
what it may be is `DecodeAssumption`, which is what `EssenceParser` establishes
(`WellFormedResult`). A 32-bit word keeps its most significant bit only: a word is a
number below `2 * Hardened`, its bit is set from `Hardened` on, and sums wrap around.
Key derivation is external: `AddressOf` is injective, and each command that derives
keys chooses whether that succeeds.

**Actions.** An action is a whole handler with everything it calls: the checks are a
status operator (`SignStatus`, `PrepareSigningStatus`, ...) that lists the conditions
in the order of the code; `Succeed` or `Defer` is the normal end. A `THROW` is not
folded into a reset: `Throw`, `ThrowFrom` and `ThrowBusy` hand `CATCH_OTHER` the
context *as the handler has left it* half way, with the type `LOCKED`, some of the
addresses derived, the remainder of an essence not yet read, or the path of a signature. It
is `CatchOther` that wipes this context for all but two status words (`ResetsStates`)
and leaves flow and screen alone, because `ui_reset` is empty (`ui/ui.c:11`); a wipe
that is not complete, or not done for a status word, breaks `EmptyIsWiped` and
`ReviewMatchesBuffer`. The callbacks (`AcceptCallback`, `RejectCallback`,
`TimeoutCallback`) are parts of the actions of the buttons and of the ticker. Each of
them runs first and `FlowStop` after it, as in the code: what a callback finds of
the flow is the flow before it is zeroed.

**Screens.** `screen` is the flow the UX library displays. A button exists only on
its screen; `AcceptOffered` says where the accept button is. `LedgerApp` leaves the
pages out: `Review` states its user steps without the callbacks, on the same operators
of `UserInterface`, and `ReviewPages` has the pages, the buttons and the steps without
a page that run a callback and move on, and is shown to implement `Review`
(`KeepsReview`). `"busy"` is one of the transient screens that fall back to the menu
by themselves.

**Texts.** What a page says is made by four small machines, one action per turn of a
loop: characters are digits or codes, the buffer is what its terminator leaves of it.
Their properties are stated from the reader's side: the text read back is the amount,
the path or the address. `Bech32` has a wallet that divides the text, as a polynomial
over 32 elements, by the generator of the standard; the code computes the same checksum
by table constants on 30-bit words, which under exclusive ors are sets of bits. `PublicKey` justifies, up to the curve, that
`AddressOf` in `ApiContext` is injective.

**History.** `reviewed` is what the running review is about and `approved` what was
last approved, by the user or by the debug build's non-interactive mode; no guard
reads them.

Operators commented `Mutant of X` are plausible mistakes in `X` (a dropped check, a
missing reset, an index off by one). Nothing uses them: `PROJECT.json` names, for
every property, one or more with which TLC finds the property violated when they
replace `X`.

## Runs

| run | states | question |
|---|---|---|
| `undisturbed` | 51 204 | Shimmer debug build; half-duplex host, displayable amounts. What is reviewed is what is in the buffer, what is confirmed was approved, what is signed was approved for these keys, one reply per command, the checks of `api_sign` never fail, no output leaves unseen, blind confirmation needs the setting; and the application implements `SigningSession!SafeSpec` |
| `any_environment` | 135 588 | IOTA release build; a second command may come in during a review, an amount may have no rendering. Wiping is complete, the essence stays frozen, addresses are hardened, reviews end in time, buttons have their callbacks, settings are the user's |
| `liveness` | 26 202 | Shimmer release build with the ticker as the only fairness: every command is answered, and `SigningSession!Spec` with its liveness is implemented |
| `unlock_blocks` | 4 596 | unlock blocks requested in any order, repeatedly |
| `review_pages` | 37 507 | every walk through the pages of every review: nothing is skipped on the way to the accept button, moves can be undone, outputs are numbered as shown, `Review` is implemented |
| `address_text` | 6 272 | addresses with every prefix: the symbols hold the bits and no others, the text is made, reads back, and has a right checksum |
| `conversions` | 30 300 | amounts at every place where the text changes its form, and above the limit; paths with elements of every length; all keys of a small curve: each reads back and fits |
| `essence_parser` | 1 981 | every content of the fields of both parsers, both ends of every range |
| `error_ui`, `claiming_testnet`, `account_status`, `documented_modes` | – | the four disagreements below |

`any_environment` asks only what survives *every* environment. The properties of
`undisturbed` are false there, and not by an accident of the model: a command that
fails during a review wipes what is under review and does not end it (the first
disagreement below), so they are stated for the environment `Undisturbed` names.

Deadlock is checked in the runs of `LedgerApp` and `UnlockBlocks`. The other systems
really stop: a review ends with a button, a parser, an encoder or a text with its
result.

## Bounds

| constant | value | in C | why it is enough |
|---|---|---|---|
| `Hardened` | 3 | 2^31 | words 0..5: zero, hardened and the last one, so that an index one or two later loses its bit |
| `BlockCount` | 1 | 6 or 32 | a block holds any of the essences; writing several blocks differs only in needing more commands; the parser's view of the buffer is in `EssenceParser` |
| `BufferSize`, `AddressSize` | 5, 2 | 1506 or 8032, 33 | lengths below, at and above the essence's |
| `InputsMax`, `OutputsMax` | 2, 3 | 128 | a reference unlock block; outputs before and after a remainder, and each of them as the remainder's index; one index beyond |
| `Bip32Args` | 3, 5; in `liveness` also 0 | any word | the first and the last hardened index or change, of which 5 is not a valid change and 5 + 1 wraps around; 0 is refused wherever it is given, so it adds no states |
| `AddressesMax` | 1 or 2 | 45 or 243 | a refused count, a single one, and two (`any_environment`), where the second wraps around |
| `TimerMod`, `Timeout` | 3, 2 | 2^32, 1000 | a review before, at and across the wrap-around |
| `MaxInFlight` | 1 or 2 | transport | see below |
| essences | a transfer with a remainder and two inputs of one key, a sweep to the input's address, a blind hash with two keys | any | each kind of review screen is reached; in `claiming_testnet` the claiming modes |
| `InputsBound` (`UnlockBlocks`) | 4 | 128 | three keys, two with the same index; two inputs between a key and its repetition |
| `Essences` (`ReviewPages`) | up to 4 outputs | 128 | first, inner and last output with the remainder at every position |
| `Inputs`, `OutMax`, `WordMod` (`Bech32`) | 7 addresses, 53, 2^20 | 33 bytes, 53, 2^32 | the real sizes, with the ends of the range, single bits and mixed ones; every other address, length and width of the word is left to the theorems of `Base32Proofs` and `Bech32Proofs` |
| `Amounts` | 131 pairs | 2^64 | both sides of 10^6, 2^32, 10^9, 10^18, with and without zeros in the low part; high parts up to the largest number TLC has, the theorems have every amount |
| `Paths` | 1 536 paths | any | elements of one, two and four to eight digits at every place, three coin types |
| `Room` | 81 | 81 | `scratch` of `flowdata_t` |
| `Points`, `ByteMod`, `KeySize` (`PublicKey`) | modulo 29, 4, 3 | 2^255 - 19, 2^8, 32 | a curve of the same form; more than one byte of x and y, and a free top bit |
| `WordMod`, `AmountMod`, `BufferSize` (`EssenceParser`) | 64, 8, 30 | 2^32, 2^64, as above | lengths and amounts that wrap around once; room for three inputs or three outputs but not always for the rest |

Nothing else bounds the runs: there are no state constraints, and the counters
(`timer`, `io.owed`) are bounded by the code or by the link itself.

The widths matter little: the theorems below hold for all of them.

## Environment and fairness

`MaxInFlight` is the number of commands the transport lets the host have unanswered.
The device's transports are half-duplex (a host that has not got its reply does not
send the next command), which is `MaxInFlight = 1`; the code itself does not rely on
it and checks `flow_locked`, so `any_environment` has 2. `Undisturbed` is
`MaxInFlight = 1` together with: every amount of an essence the parser accepts can be
rendered (is below `DisplayLimit`, 10^18 in `ui/ui_common.c:53`). `INS_NONE` gets no
reply at all (`iota_io.c:60`); the host is taken not to wait for one.

The only fairness is `WF_vars(Tick)`. `Tick` is always enabled, and the
microcontroller sends a ticker event every 100 ms as long as the device has power,
also while nobody touches it. Nothing is assumed of the host or of the user: no
command, button or error has to happen.

Restarts (`Restart`) happen at any time, for an I/O reset or for Quit and a new
start, and keep the settings only.

## Proofs

All proofs are for arbitrary constants under the named assumptions of the modules
(`ApiAssumption`, `DecodeAssumption`, `TimerAssumption`, `LinkAssumption`,
`ArgsAssumption`, `UnlockAssumption`, `ParserAssumption`, `EssencesAssumption`,
`Base32Assumption`, `Bech32Assumption`, `RoomAssumption`, `AmountAssumption`,
`PathAssumption`, `PointsAssumption`), which say of sizes and tables what the code
computes or is built with. Every safety and action property a passing run checks is
a theorem.

- **`LedgerAppProofs`** (every environment). The inductive invariant is type
  correctness together with a group of facts about `api` alone (`Sound`): an empty
  buffer is wiped and a frozen essence reads as it was validated need each other,
  since writing to the buffer is harmless only because an empty buffer has no essence,
  and a buffer is parsed only when it is empty. That a throw half way through a handler
  leaves no more than one at its start is a lemma, `ResetForgets`. The callbacks of a screen and the age
  of a review need the flow's activity and its start time.
  Theorems: `LedgerAppTypeOK`, `LedgerAppWipes`, `LedgerAppFreezesEssence`,
  `LedgerAppHardensAddresses`, `LedgerAppBoundsReviews`,
  `LedgerAppReviewsHaveCallbacks`, and the action property `LedgerAppKeepsSetting`.
- **`LedgerAppProofs`, second part** (`ASSUME Undisturbed`). On top of it the invariant relates
  the review, the buffer, the debt of the link and the history: while a review runs
  exactly one command is unanswered, so no command is received; a review of an essence
  is a review of the essence in the buffer, for the account in the path, with an output
  index that exists; an approval stays attached to the confirmed essence until it is
  wiped. No conjunct of it is inductive by itself: that a callback finds the buffer it
  was started for needs that no command came in between, which needs the debt, which
  needs that the screen has its callbacks. Theorems: `LedgerAppReviewsBuffer`,
  `LedgerAppConfirmsApproved`, `LedgerAppSignsApproved`, `LedgerAppRepliesOnce`,
  `LedgerAppPassesChecks`, `LedgerAppShowsAll`, `LedgerAppShowsAddress`, and the action
  property `LedgerAppConfirmsBlindly`. Under the
  same invariant each action of `LedgerApp` is a step of `SigningSession` or leaves its
  variables alone, which is the refinement `LedgerAppKeepsSession`.
- **`SigningProofs`, `UnlockBlocksProofs`**: the first earlier input with the same key
  is itself no reference, by minimality; hence the three properties of `UnlockBlocks`
  for every number of inputs up to 255.
- **`EssenceParserProofs`**: the cursor equals the number of bytes consumed and stays
  below the buffer size, the overflow check of the amounts is exact, an accepted
  essence is well formed, for every buffer size up to half the range of a word. That the
  inputs of an accepted transaction are all different (`ParserFindsDuplicates`) needs
  that as many were read as counted.
- **`ReviewProofs`** (essences of any number of outputs). `PagesInv` ties the page to
  its screen and the output to the essence; the accept and reject pages of a transaction
  are at its last output only. From it follow that moves are inverse
  (`EveryMoveCanBeUndone`), that outputs are numbered as they are shown, the set of
  reviewed outputs up to the current one having one element more than its index
  (`OutputsAreNumbered`), and the refinement (`PagesImplementReview`). `SeenInv` says what
  a user who only moves to the right has seen so far (`NothingIsSkipped`).
- **`Base32Proofs`**: of the bits of the input before the cursor, those before the
  waiting ones are in the symbols and the waiting ones in the low bits of the word;
  taking a byte and writing a symbol keep that for every word of at least 13 bits
  (`Base32IsLossless`, `Base32NeedsItsRoom`).
- **`Bech32Proofs`** (addresses of any bytes and length that fit their buffers).
  The algebra comes first: the symbols of the five constants of `bech32_polymod_step`
  are the divisor and its products with a, a^2, a^3 and a^4, so that a step on 30 bits
  is, symbol by symbol, a step of the division (`StepDivides`). The invariant says how
  far the checksum has come (`Taking`) by naming the checksums of all beginnings of the
  text: the wallet's remainder after k values is the device's checksum after k values,
  except for the symbols of the checksum that have arrived, which were zeros when the
  device went over them (`Reading`). At the end only the 1 is left that
  `bech32_encode` has added (`ChecksumsAreRemainders`). Together with the symbols of
  `Base32Proofs`: `AddressesAreShown`, `AddressTextsDecode`.
- **`ConversionsProofs`**. The digits of a number in any base determine it, and a
  number below the power p has at most p of them; both are shown by induction (see
  below). For amounts, `AmountInv` ties what is copied to the digits written
  (`AmountsReadBack`, `AmountsThrowFromLimitOn`), for amounts of any size: those from
  10^18 on, which the parser accepts too, throw. For paths, `PathInv` names the layout
  of the whole path in advance, a function from elements to the line, the column and the
  text before them; the buffer holds the text of the elements gone to, behind it a zero,
  and the counters are those of the layout. That the counters agree with the characters
  `snprintf` prints needs the length of a number and the length of its text to be
  one (`PathsReadBack`, `PathLinesFit`, `PathRoomIsCounted`). For keys, the bytes
  determine y and the parity of x, and two points with the same y and parity would have
  x values that add up to an odd prime (`KeysAreNamed`).

Induction over numbers is done where these proofs need it. The library's theorem takes
an operator, which the provers cannot instantiate; `LeastNumber` and `SetInduction` of
`ConversionsProofs` are the same with a set, from the well-foundedness of `<`, and
recursive functions are taken from the existence of their finite beginnings
(`PowersExist`).

Model-checked only: liveness (`EveryCommandAnswered` and the liveness part of
`KeepsLiveSession`), which the prover cannot do: it needs `ENABLED` for the fairness
of `Tick`. That `AddressOf` is injective (beyond `PublicKey`, for the hash), that a hash
stands for its essence, and what the device's SDK does are assumptions.

## Disagreements found

1. `error_ui` (code): after an error the main loop is to "reset states and UI"
   (`main.c:112`), but `ui_reset` is empty. A review during which an error happens
   goes on, over a context that was wiped. Without a second command in flight this takes
   an amount that cannot be rendered, which the parser does not refuse. The user can then
   still accept, which sends a reply no command waits for and marks as confirmed
   whatever the context holds by then. If that is nothing, `api_sign` refuses it by its
   repeated checks, of which the comment says that they cannot fail. But the wipe has
   also unlocked the context, so the host may have written and prepared *another* essence
   under the old review; accepting confirms that one, which the user has not seen,
   and nothing in `api_sign` refuses it. `ConfirmedIsApproved` and `SignatureIsApproved`
   are therefore stated for `Undisturbed`, whose second part excludes such amounts.
2. `claiming_testnet` (code): "no remainder for claiming shimmer allowed"
   (`api.c:406`) compares the whole mode byte and is not applied in mode `0x82`.
3. `account_status` (specification): an unhardened account is answered with
   `SW_COMMAND_INVALID_DATA`, not with `SW_ACCOUNT_NOT_VALID`
   (`docs/specification.md:127`).
4. `documented_modes` (specification): modes `0x00` and `0x80`
   (`docs/specification.md:108`) are refused.

`SHOW_FLOW` is also documented to switch screens (`docs/specification.md:242-265`)
while `api_show_flow` only replies; there is nothing to check in that. An address takes
63 or 64 characters (`Encodable` with `AddressTextDecodes`), not the "62/63" of the
comment at `iota/constants.h:105`; the buffers are computed from the constants and
large enough.

## Not modelled

- the headings of the pages and the digits of the hash in a blind-signing review, which
  are copied character by character;
- the functions of `ui/ui_common.c` that are never called (`format_value_full`,
  `format_value_short`, `str_add_commas`, `string_insert_chars_each`) and the step
  `ux_step_remainder` with its `cb_bip32_preinit`
  (`ui/nano/flow_user_confirm_transaction.c`), which is in no flow;
- cryptography, hashing and the libraries of the device:
  external; their failures are modelled, their results are abstract, except for the bytes
  of a public key;
- the contents of the replies to `GET_APP_CONFIG` and `GET_DATA_BUFFER_STATE`, the
  debug output and `DUMP_MEMORY`: they change nothing;
- how far a parser came in an essence it refuses (the wipe that follows makes no
  difference between them, `EssenceParser` has its steps), and why: a failure of the
  hash is answered like a malformed essence;
- tests, fuzzing harness and build.

## Plan

Done, in this order: `Signing` and `UnlockBlocks`; `ApiContext`, `UserInterface`,
`HostLink` and their composition `LedgerApp` with its properties and runs;
`SigningSession` and the refinement; `EssenceParser`; the texts (`Base32`, `Bech32`,
`AmountText`, `PathText`) and `PublicKey`; `Review` and `ReviewPages`; the proofs.

Could follow:

1. essences that span several data blocks in a run, with the fields of the parser placed
   in them; the theorems already hold for every number of blocks and every `Decode`;
2. the headings of the pages.
