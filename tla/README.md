# TLA+ models of the CoW Protocol settlement program for Solana

This directory holds a formal model of the settlement program
(`programs/settlement`), of the wire format and client code around it
(`interface`, `client`) and of the operator's and trader's tool (`test-cli`), which
acts on what it read earlier. TLC checks the models on small instances; TLAPS proves
the central properties for every value of the constants.

Paths below are relative to the repository. G1 ... G13 are the guarantees of
`SECURITY_DESIGN.md`.

## 1. The system

A user signs an *intent* (sell this much of one token, buy at least that much of
another, until a time). The intent becomes an *order account* whose address is
derived from the intent's hash. An approved *solver* submits a transaction with a
`BeginSettle`, which pulls the sell tokens of each order under the user's
delegation to the program, and a `FinalizeSettle`, which pushes the buy tokens out
of the program's *buffers*. Whatever happens in between is the solver's business.

| Component | State it keeps | Operations | What makes it correct |
|---|---|---|---|
| Order lifecycle (`processor/{create_order, create_settlement_owned_order, cancel_order, reclaim_order}.rs`, `processor/utils/pda.rs`, `interface/src/data/order.rs`) | order accounts: cancelled flag, fill, `created_by`; their lamports | create by owner, sponsor or program; cancel, also before creation; reclaim | signed amounts and price are respected over all fills and recreations; cancellation sticks; rent goes back |
| Intents and fill arithmetic (`interface/src/data/intent.rs`, `processor/utils/intent.rs`, parts of `begin_settle.rs`) | none | limit price, totals, fill progress, expiry | bounds hold although only one side of the total is checked |
| Settlement pairing (`begin_settle.rs`, `finalize_settle.rs`, `utils/settle.rs`) | none: both halves read the transaction by introspection | find and validate the counterpart, refuse nesting and calls by other programs | no pull without its push, no push nobody validated |
| Settlement execution (`begin_settle.rs`, `finalize_settle.rs`, `withdraw_native_sol.rs`, `utils/{token, lamports}.rs`) | token accounts, buffers, native SOL buffer, fills | pull, record, push, pay native SOL, withdraw | tokens move only for the owner's own orders; what is recorded is paid; the native SOL buffer survives |
| State account (`interface/src/data/state.rs`, `processor/{initialize, add_solver, remove_solver, transfer_authority}.rs`) | four role holders, sorted solver list, the account's rent | initialize, add, remove, transfer | the list is a set; roles do not leak; the account stays rent exempt |
| Canonical addresses (`programs/settlement/src/pda/buffer.rs`, `interface/src/pda`) | a table built at compile time | derive, look up, validate | an account passes as the buffer of a mint only if it was derived for that mint |
| Buffers (`processor/{create_buffer, reclaim_buffer}.rs`) | token accounts owned by the program | create and reclaim, in batches | burning stays within what the operator granted |
| Settlement wire format (`interface/src/instruction/settle/*.rs`, `client/src/instruction/*_settle.rs`) | bytes and account lists | build, parse, parse the counterpart | what is built is read as meant; both readers agree |
| The other eleven instructions (`interface/src/instruction/*.rs`, `client/src/instruction/*.rs`) | bytes and account lists | build, tell apart, parse | what is built is read as meant, with the privileges that are used; no byte is overlooked |
| Encodings of intents and orders (`interface/src/data/{intent, order}.rs`) | bytes | encode, decode, write a slot in place | one encoding, hence one address, per intent; slots do not disturb each other |
| Tool: administration (`test-cli/src/cmd/{initialize, solver, authority, buffer}`, `cmd/mod.rs`) | a command and what it built | choose payers and signers, send or propose, report | signatures match; the report is true; late execution does no harm |
| Tool: trading (`test-cli/src/cmd/{create_order, settle, reclaim}.rs`, `utils/token.rs`) | what it read of mints, orders and buffers | resolve, tally, build, simulate or send | what it builds works unless something changed, and never spends what the buffers hold |
| Squads bindings (`test-cli/src/utils/squads`) | the multisig that was read | compact the message, stage, propose, approve | what is staged is what was built, and nobody approves anything else |

How they interact: every instruction takes effect atomically with its
transaction; the order account is shared by all operations on an intent; the two
halves of a settlement communicate through the transaction only; the solver list
and roles are read by every privileged instruction; the tool and the chain
interleave freely.

What is hard here: signed creations that a sponsor holds back and submits after
cancel and reclaim; rounding and overflow over many partial fills; account data
that changed since the intent was signed; settlements nested, reordered or
imitated within one transaction; amounts recorded in one instruction and paid in
another; in-place shifting of a sorted list; lamports that anybody can send
anywhere; transactions that land after the tool has given up on them; proposals that two
members make for the same index.
`PROJECT.json` lists these hazards at their lines with the properties that cover
them.

## 2. The modules

Every action is one committed instruction, or one step of one. A rejected
instruction reverts its transaction, so it is no step; the guards of an action are
the checks of its handler. Data is abstracted: addresses, mints and wallets are
model values or numbers, a hash or derived address stands for what it was derived
from, and an error code is a step that is not enabled.

| Module | Models | Notes |
|---|---|---|
| `OrderIntent` | fill arithmetic | pure operators, used by `Orders`, `Settlement` and `Trading` |
| `Orders` | order lifecycle | proved in `OrdersProofs` |
| `SettleTx` | settlement pairing | proved in `SettleProofs` |
| `KnownBuffers` | table of known buffers, validation of a buffer's address | proved in `SettlementProofs` |
| `Settlement` | settlement execution | composes `OrderIntent` and `KnownBuffers`; proved in `SettlementProofs` |
| `SolverRegistry` | abstract: a set of solvers, one holder per role | |
| `StateAccount` | state account | implements `SolverRegistry`; proved in `StateAccountProofs` |
| `SettleCodec` | wire format of settlements | over `ByteLayout`; proved in `SettleProofs` |
| `ByteLayout` | little-endian numbers, chunks and slots | pure operators |
| `OrderBytes` | encodings of intents and order accounts | pure operators over `ByteLayout` |
| `Instructions` | builders, client calls and parsers of the other instructions | pure operators over `OrderBytes` |
| `InstructionCodec` | a call on its way from the client to an order account's bytes | composes the three above; proved in `CallProofs` |
| `Buffers` | buffers and the tool's `buffer reclaim` | proved in `CallProofs` |
| `Squads` | messages and instructions for the multisig | pure operators over `Instructions` |
| `Submission` | administrative commands, the multisig, late transactions | composes `Instructions` and `Squads`; proved in `SubmissionProofs` |
| `Trading` | `sell`, `buy`, `settle`, `reclaim` against a changing chain | uses `OrderIntent`; proved in `TradingProofs` |
| `SharedLemmas` | induction, sums, digits of numbers, parts of sequences | lemmas that the proofs share |
| `MC*` | instances of the above for TLC | |

**Orders.** `orders`, `lamports` are the accounts at each intent's address,
`permits` the signed creations somebody holds. `SignCreation` is the user's
signature; `CreateOrder` and `CreateSettlementOwnedOrder` submit it, once;
`CancelOrder` and `CancelNewOrder` are the two branches of `process_cancel_order`;
`SettleOrders` is a committed settlement over a set of orders (addresses must
increase, so an order occurs once); `ReclaimOrder` closes. `Donate` and
`Shortfall` model prefunding. `TransferAuthority` is unconstrained here: who may
transfer is `StateAccount`'s subject. `opened`, `pulled`, `paid` and `revoked` are
history, read by no action. `revoked` is set by the owner's cancellation and
reset when the owner acts again, that is, signs a creation or a reclaim.

**SettleTx.** The transaction is any function from indices to instructions;
`BeginSettle` and `FinalizeSettle` check exactly what the handlers see through the
instructions sysvar. `Revert` covers every other reason to fail, a cross-program call among
them: the model has no instruction that another program runs, so nothing is shown of what
would happen if `is_cpi_call` did not refuse one.

**Settlement.** `phase` walks through one settlement: `orders` and `pulls` are the
two loops of `process_begin_settle` and `process_order`, `between` is other
instructions, `tokens` and `native` the two loops of `push_funds`. Users transfer,
approve, hand over and recreate their accounts whenever no settlement instruction
runs. A failing transaction takes no further step, and every property is about
`phase = "idle"`, so that what it did is never counted.

**StateAccount.** `region` is the array of slots after the header.
`InsertSolver` and `RemoveSlot` shift it as the code does, `BinarySearch` follows
`slice::binary_search`, as a function of the ranges that are left. `Trusted` and `Guarded` state the trust model of G9 and
G12: trusted signers hand guarded roles to trusted addresses only, all others do
as they please. `ImplementsRegistry` maps the abstract set to
`{s : IsSolver(s)}`, what the program would answer, rather than to what the slots
contain.

**SettleCodec.** Data are sequences of digits below `Byte`; a `u64` has `Word` of
them. The client sorts, lays out and narrows counts with `% Byte`; `BeginParses`,
`SettledOrders`, `FinalizeParses`, `Pushes` and `PairedPushes` are the three
readers. `EditBegin` and `EditFinalize` insert and remove anywhere, as a solver
may submit any bytes.

**KnownBuffers.** `KeyOf`, `SlotCount`, `SlotWidth` and `Multipliers` make the hash a
parameter: a wrapping product of which the top bits are the slot.
`FindSlotMultiplier` is the search at compile time, `KNOWN_BUFFER_SLOTS` the loop that fills
the table, `KnownBuffer` the lookup and `ValidateBufferPda` what `Settlement` asks of every
push and pull. `Derived` stands for `create_program_address`.

**OrderBytes, Instructions, InstructionCodec.** `EncodeIntent`, `CheckBytes` and
`DecodeIntent` are the three views of an intent's bytes, `InitializeOrder`, `SetCancelled` and
`SetAmounts` the writes to an order account, `DecodeOrder` what a client reads. `Build*` are the
interface's builders with the privileges they ask for, `Client` the calls of the client
library, which fills in the addresses, `Parse*` the parsers and `NeedsOf` what the handlers make
of each account. In `InstructionCodec` a call is built (`Build`), possibly changed
in one place (`EditData`, `EditAccounts`: the sender is not our client), and executed on the
bytes of order accounts (`ProcessCreateOrder`, `ProcessCancelOrder`, ...). `meant` follows what
the calls meant; the properties compare it with the bytes. Addresses are one byte, so
that the uid of an intent is its encoding.

**Squads, Submission.** `Message` compiles instructions for a payer, with its keys in four kinds and those of a
kind in any order, `TransactionMessage` packs
it the way the multisig wants it, `Unpack` is what the multisig makes of that when it executes.
`Propose` returns the instructions that stage, propose and, if the member may
vote, approve. `Submission` runs several commands at once: `Start` looks and builds (`Run*` is
one command each, `Ready` its early errors), `SubmitDirectly` and `SubmitProposal` sign and
send, `Land` and `Refuse` are the answer, `GiveUp` the end of waiting, after which a
transaction may still land. `Vote`, `ExecuteProposal` and `ChangeMember` are the other members. `ExecuteSettlement` keeps
which accounts the administrative instructions create; it does not check the roles of who signed, which are `StateAccount`'s subject.

**Trading.** `RunOrder` resolves amounts and tokens, and submits the creation of missing
accounts, the wrapping of SOL, the approval and the order; `RunSettle` reads the orders and
their mints, `PrepareSettlement` tallies, decides which buffers to create and submits, or has
the transaction simulated; `RunReclaim` submits reclaims of the orders it is given. Each of
these looks at the chain in one step and its transaction runs in another (`Land`), so
others can act in between (`CancelOrder`, `SettleElsewhere`, `CloseAccount`, `Reopen`, `Tick`).
`SettleElsewhere` is another solver's settlement, of any of the amounts in `OtherFills` that
`process_order` accepts: in full, a part of a partially fillable order, more than the limit price asks for, or
nothing withdrawn from an order that is full. `settled` counts only what the tool landed: others may settle an
order any number of times.
`unanswered` are mints whose buffer the tool could not ask for. `Execute` runs one
instruction after the other on a copy of the chain and gives up at the first that
fails. `fresh` says that nothing happened since a command looked.

**Buffers.** `CreateBuffer` and `ReclaimBuffer` act on batches. What a reclaim asks for
(`Batch`) is a burn limit for each buffer it names: the tool drops repeated mints (`FirstOnly`)
before it looks. The tool's command
goes through `looked`, `sent` and `reported`; `Propose` and `TimeOut` leave a
transaction in `pending` that `Execute` may run at any later time, once.

Modelled from their use, as they are not in the repository: the token programs
(`Transfer` in `Settlement`, `Move` in `Trading`, deposits and spending in `Buffers`), the system
program's `CreateAccountAllowPrefund`, the runtime's rent rule (`Commit`), the
clock, and the Squads multisig (`Unpack`, `ExecuteSquads`, `Vote`, `ExecuteProposal` in
`Submission`; `Propose` and `Execute` in `Buffers`).

## 3. What TLC checks

| Run | Question | Properties |
|---|---|---|
| `orders_book` | Can partial fills, at prices that do not divide and at the top of `u64`, take more than was signed, also through closing and recreating? Does cancellation stick while signed creations are held back and anybody reclaims? Can a live order be closed? | `TypeOK`, `UserNeverOverpays`, `EachCreationSellsOnce`, `CancellationSticks`, `BookIsSafe` |
| `orders_rent` | Where does rent go when addresses are prefunded and donated to, and is it ever locked in? | `RentGoesToCreator`, `RentIsRecovered` |
| `settle_tx` | All transactions of up to 4 instructions: does every pull have its push and every push its validation? | `PushesWereValidated`, `OneOpenSettlement`, `PullsArePaid` |
| `settlement` | Whose tokens move, and is what was recorded really paid, with buffers validated through the table? | `TypeOK`, `FundsMoveForOwnOrders`, `RecordedIsPaid`, `NativeBufferLives` |
| `state_account` | Is the sorted list a set, does its account stay rent exempt, do roles leak? | `TypeOK`, `SlotsAreSolvers`, `StaysRentExempt`, `NoEscalation`, `ImplementsRegistry` |
| `settle_codec` | Is what the client builds read as meant, and any accepted bytes read completely and alike? | `NothingLeftOver`, `ViewsAgree`, `BuiltIsMeant` |
| `buffers` | Do late, repeated or partial reclaims burn more than granted or report what is not so? | `TypeOK`, `BurnsAreGranted`, `BuffersAreFunded`, `ReportIsTrue` |
| `instructions` | Does every other instruction mean what its caller meant, ask for the privileges its handler uses, and leave no byte unread? Does a stored order read back as what was done to it? | `ArrivesAsMeant`, `PrivilegesMatch`, `OnePayloadPerMeaning`, `OneAddressPerIntent`, `StoredAsMeant` |
| `submission` | Several people run commands and propose at once, and transactions land late: are reports true, approvals informed, staged messages executable? | `ReportedIsHeld`, `ApprovalsAreInformed`, `StagedIsBuilt`, `SignaturesMatch` |
| `trading` | Does what the tool builds work if nothing changed, and do no harm if something did? | `FreshSettlementsSucceed`, `SettledOncePerCreation`, `BuffersAreNotDrained`, `FreshOrdersAreReady` |

Each property has a mutant, an operator defined just before the one it replaces,
that changes the model the way a plausible bug would; TLC finds the property
violated under each.

### Bounds

- `orders_book`: `U64Max = 3`, so that sums overflow; prices 2:1 and 3:2 do not
  divide; an order of a user and one of the program, two creations per intent, times
  0 and 1 around `valid_to = 0`; an intent with a zero amount, which creation
  must refuse (without that check its owner gets nothing). One user is enough, as
  a sponsor only holds permits and the proofs remove the bound.
- `orders_rent`: `Rent = 2` with donations of one lamport, so that an address can be
  partly and fully prefunded. One creation per intent: the rent of a second one
  is like that of the first.
- `settle_tx`: four instructions are two settlements, the least in which nesting,
  overlap, sharing and swapping occur; the proofs remove the bound.
- `settlement`: amounts are 1, with `U64Max = 2` so that two pulls are at the limit; two
  mints, an order of a user and two of the program, one of which buys into the
  very buffer it is paid from and one is paid in lamports; two pushes per
  settlement, so a push can be missing, left over or swapped; settlements repeat
  until orders are filled or funds are used up. The table has one known mint and one that
  is not known but meets its slot.
- `state_account`: five addresses make the binary search three levels deep; three
  holders, of whom one is not trusted and has a place in the middle of the list;
  donations of two slots' rent.
- `settle_codec`: `Byte = 3`, so that three orders or three pulls outgrow a count;
  `Word = 2` so that amounts are not single digits; two edits, so that one can
  compensate for the other.
- `buffers`: two mints of one token program and one of another, batches of two, two
  commands, burn limits 0 and 1 with two tokens, `Rent = 2` with donations of one
  lamport. Lamports for two buffers at once, the second one only if its
  address was prefunded.
- `instructions`: `Byte = 16`, enough to tell instructions, roles and addresses apart;
  amounts have `Word = 2` bytes, so that a limit can be cut short; every call of the client,
  with an order of a user that is paid in native SOL and one of the program. One edit, anywhere,
  to any byte; two would make the instance several hundred times larger, and an
  edit that compensates for another one is `settle_codec`'s subject, where counts exist.
- `submission`: two commands out of eight, by two members and somebody else, with three
  members of whom one may not vote and one may not initiate; a threshold of two; one
  change of a member. Two commands are enough for a race for an index.
- `trading`: two commands out of ten and two changes by others, so that each
  command can be overtaken, or one of them twice; a partially fillable order that others settle in two parts, or
  pay before they pull from it, and full orders that they settle again; the first settlement has the funds to land
  twice, so that only the fill stops it; three mints of two token programs and with
  different decimals, one of them wrapped SOL; one buffer missing and one that
  already holds something; `MaxTime = 1` around `valid_to = 0`.

Deadlock is checked except where a transaction ends or fails (`settle_tx`,
`settlement`), editing is over (`settle_codec`) or all commands have ended (`submission`,
`trading`).

### Fairness

Only `orders_rent` needs fairness. `WF(Tick)`: the clock advances.
`WF(ReclaimOrder(NoSigner, ...))`: whoever is owed rent keeps submitting
`ReclaimOrder`, which needs nobody's signature once an order is filled or expired.
Nothing is assumed of owners, so the property also covers the program's own
cancelled orders, whose owner, a derived address, cannot sign. Solana itself
dropping transactions forever is excluded, and the program promises no more
(`SECURITY_DESIGN.md`, "Explicitly not guaranteed").

### Where documents and code disagree

Two runs state what a document or comment says, and are violated.

- `orders_undone`: "a cancellation can't be undone" (`SECURITY_DESIGN.md:32`). A
  *completely filled* order that was cancelled can be closed by anybody
  (`reclaim_order.rs:66` asks for the fill first) and a creation the owner signed
  earlier opens it again. For every other order `CancellationSticks` holds, and
  `interface/src/instruction/mod.rs:52` states that limit.
- `orders_once`: "An order can only be settled once (fill-or-kill)"
  (`SECURITY_DESIGN.md:31`). A filled fill-or-kill order passes `process_order` again
  with a settlement that withdraws nothing (`begin_settle.rs:434`). Its owner loses
  nothing by it: `UserNeverOverpays`.

Met while modelling, and worth knowing without a run of their own:

- "a single settlement must consume the full sell amount" (`interface/src/data/intent.rs:51`): a
  fill-or-kill *buy* order is complete at its `buy_amount` and may give less
  (`begin_settle.rs:430`).
- "`BeginSettle` (which the counterpart check above guarantees ran)"
  (`finalize_settle.rs:48`): that check compares no positions (`finalize_settle.rs:38`). Placed
  first, `FinalizeSettle` pushes before anything ran, and only the failure of the
  `BeginSettle` after it undoes that. What matters, `PushesWereValidated`, holds of every
  transaction that takes effect.
- "every other byte combination attaches" (`processor/utils/intent.rs:25`): zero amounts are
  refused as well, as the type's own comment says (`:16`). `OneAddressPerIntent` holds with that check.
- `test-cli/src/cmd/settle.rs:339` says that a settlement that spends what the buffers hold "is
  rejected here rather than silently draining them". That is so, except when a buy token account was open for
  another mint at the time the tool looked and is back when the transaction lands, and
  for what the program's own orders sell out of a buffer, where the pull moves the
  buffer's tokens onto itself and is counted as income. `BuffersAreNotDrained` exempts exactly these two.
- `sell` and `buy` approve the amount of one order, which replaces the delegation an
  earlier order from the same account relied on. `FreshOrdersAreReady` is about the new order only.
- `reclaim` says that nothing was reclaimed also when its transaction lands after it
  stopped waiting.

## 4. What is proved

`tlapm` checks every step of the seven `*Proofs` modules of components (`OrdersProofs`, `SettleProofs`,
`SettlementProofs`, `StateAccountProofs`, `CallProofs`, `SubmissionProofs`, `TradingProofs`) and of
`SharedLemmas`. The theorems hold for any set of users, intents, mints, members and command lines, any rent,
any `U64Max`, any clock bound, any number of outstanding signatures, commands and settlements, any
length of a transaction, any orders, bytes and accounts of an instruction, any number of values of a byte and bytes of a
word, any list of known mints and any hash. They assume what the `ASSUME`s of
the modules say:

- constants have their types; orders, mints and parties are finitely many; the program's address is
  no wallet, and markers such as `NoOrder` are no accounts;
- `DerivedAssumption`: an address is derived for one mint only, the native SOL buffer has an address of
  its own, and an account at a derived address belongs to the program and to that mint;
- `BuildAssumption`: some multiplier keeps the known buffers apart, as the program builds;
- `CodecAssumption`: the fields of an order are addresses, `u64`s and lists of these, its mint has a buffer and a bump that is a
  byte, and an inserted account is an account; a byte has at least two values;
- `WireAssumption`: the arguments of a client's call have the types of the client's interface: addresses of `KeyWidth` bytes,
  amounts that are `u64`s, an asset whose mint is not the system program (`IsCall`); mints and their buffers are addresses, bumps are bytes, and settlements record `u64`s;
- in `StateAccount`, the trust model of G9 and G12: `Guarded` includes the manager, who hands out roles, and
  the solver authority, who approves solvers;
- in `Submission`, the settlement program is not the multisig's, commands are the five that are modelled, and
  addresses, given on the command line or derived, are `KeyWidth` bytes each;
- in `Trading`, buffers of different mints have different addresses, what is at the address of a buffer at the start
  is one, and the arguments of a command and the intents at the start are well formed: amounts are in
  `1..U64Max`, an order is for selling or for buying, and the associated token accounts of whoever places one are no buffers.
  Other solvers settle any set of pairs of `u64`s (`OtherFills \subseteq FillAmounts`), the largest of which is all of them.

| Theorem | States |
|---|---|
| `TypesAreKept` | `Spec => []TypeOK` of `Orders`: no fill outgrows a `u64`, no balance is negative |
| `OrdersKeepTheirPrice` | `Spec => []UserNeverOverpays` |
| `OneSellPerCreation` | `Spec => []EachCreationSellsOnce` |
| `CancelledStaysCancelled` | `Spec => CancellationSticks` |
| `BookStaysSafe` | `Spec => BookIsSafe`: a settleable order is not closed, keeps its creator, and its fill never shrinks |
| `RentReturnsToCreator` | `Spec => RentGoesToCreator` |
| `FinalizeIsValidated` | `Spec => []PushesWereValidated` of `SettleTx` |
| `NoOverlap` | `Spec => []OneOpenSettlement` |
| `EveryPullIsPaid` | `Spec => []PullsArePaid` |
| `BuiltIsRead` | `CodecSpec => []BuiltIsMeant` of `SettleCodec` |
| `BeginIsUsedUp` | `CodecSpec => []NothingLeftOver` |
| `FinalizeIsSeenAsItRuns` | `CodecSpec => []ViewsAgree` |
| `NumbersFit` | `Spec => []TypeOK` of `Settlement`: no fill and no sum of pulls outgrows a `u64`, no balance is negative |
| `NativeBufferSurvives` | `Spec => []NativeBufferLives` |
| `FundsMove` | `Spec => []FundsMoveForOwnOrders`: G1, for every owner and mint |
| `RecordedPaid` | `Spec => []RecordedIsPaid`: what is recorded as received was paid, exactly |
| `SearchIsExact` | on a sorted list `BinarySearch` finds what is there, and otherwise where it belongs |
| `TypesAreKept` | `Spec => []TypeOK` of `StateAccount` |
| `SlotsAreFound` | `Spec => []SlotsAreSolvers`: the list stays in order, and every slot is found |
| `Refinement` | `Spec => ImplementsRegistry`: the sorted list, shifted in place, is a set |
| `RentIsKept` | `Spec => []StaysRentExempt` of `StateAccount` |
| `RolesDoNotLeak` | `Spec => []NoEscalation` |
| `CallsArriveAsMeant` | `WireSpec => []ArrivesAsMeant` of `InstructionCodec`: what a client calls for is what is read |
| `PrivilegesAreNeeded` | `WireSpec => []PrivilegesMatch` |
| `NoByteOverlooked` | `WireSpec => []OnePayloadPerMeaning`, however bytes and accounts were changed |
| `OneAddressPerOrder` | `WireSpec => []OneAddressPerIntent` |
| `OrdersStoredAsMeant` | `WireSpec => []StoredAsMeant`, after any sequence of writes to the bytes of an order |
| `TypesAreKept` | `Spec => []TypeOK` of `Buffers` |
| `GrantsAreKept` | `Spec => []BurnsAreGranted` |
| `LamportsAreKept` | `Spec => []BuffersAreFunded`: buffers are rent exempt, no lamport is lost |
| `ReportsAreTrue` | `Spec => []ReportIsTrue` |
| `ApprovalsInformed` | `Spec => []ApprovalsAreInformed` of `Submission` |
| `ReportsAreHeld` | `Spec => []ReportedIsHeld` |
| `SignaturesAreExact` | `Spec => []SignaturesMatch` |
| `StagedIsWhatWasBuilt` | `Spec => []StagedIsBuilt` |
| `UnpackBack` | a packed message is read back as it was, whatever its keys, instructions and data |
| `RoundTrip` | a number that fits is read back from its bytes |
| `InvariantHolds` | `Spec => []IInv` of `Trading` |
| `OrdersAreSettledOnce` | `Spec => []SettledOncePerCreation` |
| `SettlementsSucceed` | `Spec => []FreshSettlementsSucceed` |
| `CommandsKeepBuffers` | `Spec => BuffersAreNotDrained` |
| `CreatedOrdersAreReady` | `Spec => FreshOrdersAreReady` |
| `LookupIsExact` | the table of `KnownBuffers` finds the buffer of every known mint, and nothing for any other |
| `OnlyBuffersPass` | what passes `ValidateBufferPda` was derived for that mint, and native SOL has its own buffer alone; the canonical buffer always passes |

**SharedLemmas.** Totals are sums over finite sets. The library's induction theorems take a
predicate, which the provers cannot instantiate; `NumbersInduction` and `SubsetsInduction` say the same of a
*set* of numbers or of subsets, from the well-foundedness of the natural numbers, and the predicate
becomes the set of what has it. From these follow the facts that the components use: one more term
(`SumFirst`), a change of one term (`SumChange`, `SumRaised`), a term and its sum (`TermAtMostSum`). For bytes there are the digits of a
number, which add up to it and are the only ones that do (`DigitsBack`, `DigitsUnique`), and the parts of a
concatenation: where each begins and that it is found there (`FlattenParts`, `HoldsParts`, `FlattenAt`), and that parts which
are found one after the other are the whole (`HoldsFlatten`, `HoldsWhole`).

**Orders.** None of the properties is inductive by itself. The invariant is
`IInv == TypeOK /\ FillsWithinLimits /\ CreationsCover /\ RevokedIsDead /\ RentIsThere`:

- `FillsWithinLimits` is what the program does check: both amounts of an open order
  are positive, the side it fixes is within its amount and the totals respect the
  limit price. That the *other* side stays within `sell_amount` is the lemma
  `SellIsBounded`: for a buy order, `withdrawn * buy_amount <= received * sell_amount <=
  buy_amount * sell_amount`, and `buy_amount > 0` cancels. This is where
  `check_bytes` refusing zero amounts is needed, and that prices add up is the lemma
  `ProcessOrderKeepsLimits`.
- `CreationsCover` splits `pulled` into what the open account has on its fill and what its
  predecessors took: a closed account took `sell_amount` at most, and the open one is
  the last of `opened`.
- `RevokedIsDead` says what protects a cancelled intent: either its
  account is there, cancelled and not completely filled, so that only the owner's
  signature (which ends the revocation) can close it, or the order has expired and can
  never be settled again.
- `RentIsThere`: the address holds at least what `created_by` paid.

Each action has a lemma of its own (`CancelOrderStep`, `SettleOrdersStep`, ...), and
`NextKeepsIInv` puts them together.

**SettleTx.** The transaction never changes, so the invariant says which of its
instructions ran (`Ran`), what each that succeeded has checked (`Checked`), and that a
commit comes at the end (`Complete`). `SettlementsAreOrdered` then shows by arithmetic on
positions that of two begun settlements one is finalized before the other begins.

**SettleCodec.** `CodecInv` says little: the two instructions are bytes and accounts whatever was inserted or removed, and until
then they are what the client builds. The work is in reading them.

- `ViewsOfOne`: if the number of accounts fits the number of pushes, the places where BeginSettle looks for destinations are as many
  as the pushes, and are theirs.
- `AccountsTaken`, `AmountsTaken`: the k-th order of an accepted BeginSettle starts where the lengths of those before it add up to
  (`OrderPlace`), so its accounts and the bytes of its amounts follow on theirs; the counts add up to the number of transfers,
  so nothing is left behind the last. That amounts which were read are written as the same bytes again is `NumberBack`.
- `Sorting`: the ranks of n orders are 1 to n, so sorting loses none; stability makes them distinct for equal addresses.
- `BeginBody`, `FinalizeLayout`: where the parts of the built data are. `OrderIsRead`, `FinalizeIsRead`: what is read there.
- `ParsedIsCounted`, `ParsedFits`: a count that was narrowed is refused. If e orders too few were read, the accounts would have `3 * e` transfers more
  than there are and the bytes `e / Word` more, hence `e = 0`; and counts of pulls that are at most the real ones and add up to the
  same number are the real ones (`SumDominated`).

**KnownBuffers.** The loop that fills the table lets a later buffer overwrite an earlier
one. The multiplier was chosen so that known mints have distinct slots, hence what is last in a
slot is the only one there (`LookupIsExact`), and a mint that is not known is told apart by the
comparison with the entry's own mint. Assumed: the search finds a multiplier (`Attempts # {}`);
otherwise the program does not build. That the first of several multipliers exists is the
well-foundedness of the natural numbers, from the library.

**Settlement.** A fill is only typed while the order being processed and the push at `next` are
there (`CurrentOrder`). `NativeAlive` says when the native SOL buffer may be empty at all: only in the
second loop of a `FinalizeSettle` that pays native SOL, before the check that ends it.
Everywhere else something is left, a withdrawal never goes below the rent, and a commit accepts no
balance between zero and the rent.

Neither of the two accounting properties holds in the middle of a settlement. `PullsInv`, for
`FundsMoveForOwnOrders`, adds what is pulled and not yet recorded (`Underway`), and that while the
pulls of an order run its sell account stays what `process_order` found, and that a buffer
remains one, so that what a pull takes out of a buffer is an order's of the program. `PushesInv`, for
`RecordedIsPaid`, is an equation at every moment: what is recorded equals what was paid plus the pushes that
are recorded and not yet paid (`PendingInto`). Which those are depends on the loop: before
`FinalizeSettle` all that were paired with an order, in its first loop the rest and the native ones that it passes
over, in its second loop the native ones that remain. That a push counts for one asset only is `OnlyBuffersPass`.

**StateAccount.** The invariant says that the list is in order. `SearchIsExact` shows
by induction on the length of the range, from the step of the search alone, that `BinarySearch` is then right about
presence and place; hence `InsertSolver` and `RemoveSlot`, which shift the slots, keep the order and
add or remove exactly one address, which is also what the abstract registry does. Whoever may transfer a
guarded role holds one, because the manager's role is guarded too.

**Buffers.** `BurnsInv` treats grants as a budget: what was burnt, what the pending transactions may
still burn (`Owed`, a sum over them) and what the running command is about to ask for
(`Asked`) is within what was granted. A late execution moves its share from the second to the first, and
gives the rest up. `ReportInv` covers the command before its report: what it wants to close
is open or was closed since it looked.

**Submission.** `SubmissionInv` ties every transaction in flight to its command: it calls the settlement
program only, or is the very proposal that the command remembers (`IsSent`). Indices are given out one by one and staged
before they are proposed (`IndicesInv`), so a proposal that was overtaken fails as a whole
(`ProposalLands`): its transaction's address is derived from an index that is taken. What the multisig holds stays
(`Grows`), hence what a command knows when its transaction lands is still so when it reports.

`SignaturesInv` adds that what a command built, and has not sent, is signed by the keypairs it has
(`UnsentSigned`). For each of the five commands that is shown from the client's builders (`RequestSigned`): who signs
is read off their account lists, also through `FlattenSeq` for any number of buffers. The instructions
for the multisig ask for its member's signature only (`BuiltSigned`).

`StagedIsBuilt` needs the bytes. `PackedInv` says that what is staged, or is on its way to be, is the packed message of what its
command built (`IsPacked`), and that only the vault signs it. What such bytes unpack to is shown from below:

- `RoundTrip`: a number that fits is read back from its bytes, as its digits add up to it;
- `UnpackBack`: `Unpack` finds each instruction where the one before it ends. Its positions are a recursive function;
  the offsets of the layout satisfy the same equations, and there is only one such function;
- `KeyListIs`, `PlaceIs`, `PlaceGrants`, `MessageIs`: every key has one place, and whether its index is below the number of signers, of
  writable signers or of writable others is whether some instruction asked for that, in whatever order the keys of
  a kind come;
- `RequestTyped`: what each of the five commands builds is a list of instructions over addresses.

**Trading.** `IInv` says that accounts and orders are well formed (`AccountsOK`, `OrdersOK`), that what is at a buffer's
address is that buffer (`BuffersOK`), that what a command is to send is what it means, and, while nothing
happened since it looked, fits the chain (`CommandsOK`), and that an order that is not completely filled was settled by the tool
less often than it was created (`CountsOK`). The fill itself may be any pair of `u64`s: others fill orders in parts. The tool
settles in full, which fits only an order of which nothing was filled on the side that counts, and
completes it (`FillsOnce`); what others add never makes an order less filled (`FillsGrow`). `SettledOncePerCreation`
follows at once.

The other three are about whole transactions. What the accounts are after `k` instructions, `j` pulls or `j` pushes is a function
(`IsRun`), and the proofs follow it: creations of buffers keep what is there, pulls move exactly what the orders sell (`Sold`,
`Pulling`), pushes exactly what they buy (`Pushing`, `Bought`), and both are sums over the orders that name a mint. The tally of
`PrepareSettlement` compares these sums, hence pushes never exceed what was pulled (`CommandsKeepBuffers`); for
`SettlementsSucceed` the argument goes forward, from the chain that the tool saw: each check of each instruction holds
because the ones before it succeeded.

**InstructionCodec.** `WireInv` says that what is sent are bytes, and accounts of the call or inserted ones, whatever was
changed, and that order accounts are stored as they were meant (`Books`): each field is at its place, as the bytes it is encoded as (`IsStored`).
The rest is about reading.

- `IntentForth`, `IntentBack`: an intent's widths add up to `IntentSize`, each field is found at its slot, and the flags byte
  has no spare value that is accepted, so what decodes to an intent is its encoding (`AddressOfBytes`).
- `StoredDecodes`, and one lemma for each write: a slot is replaced in place, the others stay what they were.
- `PayloadIsAll`: each of the parsers is inverted. What it read of the data, written again, is all of the data; for burn limits
  this takes that as many were read as there are buffers (`LimitsMatch`).
- `CallsArriveAsMeant` and `PrivilegesAreNeeded` follow the calls one by one: what the client's account list is, position by position,
  what the parser finds there, and which of these its handler signs with or writes. Callers may coincide, so privileges are
  compared as sets of accounts with what is asked for.

**Only model-checked.** Liveness (`RentIsRecovered`), as the prover does not reason about fairness.

## 5. What is not modelled

- Derivation of addresses (SHA-256 and the off-curve test): canonical addresses are taken to
  be distinct and out of anybody else's reach. The hash of an intent is taken to be injective.
- Token-2022 fees and transfer hooks: fees are explicitly not guaranteed; a hook that
  re-enters meets a borrowed account, a mechanism of the runtime. The buffer
  of the wrapped SOL mint, whose balance is lamports.
- Error codes, logging, compute limits. In the models a failing instruction is a
  step that is not enabled.
- The generated builders for calling the multisig from another program, which nothing uses, and
  the CPI caller used by tests. That settlements refuse to run by CPI is one of the reasons for `Revert` in
  `SettleTx`, not something its properties check.
- `settle`, `sell`, `buy` and `reclaim` proposed to a multisig instead of sent: `Submission` stages the administrative commands,
  and `Trading` sends directly.
- The tool's listing commands, argument syntax and output, and the RPC protocol, of which only
  answers, failed requests and lost confirmations are modelled.

## 6. Plan

Done: all components with their runs; proofs of every safety property of the order lifecycle, settlement pairing and
execution, both wire formats, the state account and its refinement, the table of known buffers, buffers, and
both parts of the tool.

Left, in this order:

1. `Settlement` shown to implement `Orders`' `SettleOrders`, so that what is proved of
   fills holds of the pull-by-pull settlement.
2. The buffer of the wrapped SOL mint, whose tokens are its lamports.

## 7. Running

    tlc -workers 2 -config orders_book.cfg MCOrders
    tlapm OrdersProofs.tla      # and the other *Proofs modules

`PROJECT.json` names the module and configuration of every run, the source lines behind
every definition, and the mutants.
