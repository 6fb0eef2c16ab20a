-------------------------------- MODULE Trading --------------------------------
(***************************************************************************)
(* The commands of the tool that traders and solvers run: `sell` and       *)
(* `buy`, which create an order and the accounts it needs, `settle`, which *)
(* matches orders against each other, and `reclaim`, which closes them.    *)
(* Each looks at the chain, builds one transaction from what it saw, and   *)
(* sends it; the transaction lands later, or never, whether or not the     *)
(* tool still waits for it (Submission has the ways of sending it).  A     *)
(* command that fails takes no further step.                               *)
(*                                                                         *)
(* Token accounts and orders are partial functions of their address, an    *)
(* order's address being its intent.  Rent is left out: see Orders.        *)
(***************************************************************************)
EXTENDS OrderIntent, SequencesExt

CONSTANTS
    StatePda,       \* owner of the buffers, delegate of the users
    Solvers,        \* registered solvers
    Mints,          \* mint accounts
    NativeMint,     \* the mint of wrapped SOL
    NativeSol,      \* the marker of orders that buy lamports
    Programs,       \* the token program of each mint
    Decimals,       \* the decimals of each mint
    Symbols,        \* the mints of well-known symbols, known_token
    Numerals,       \* decimal numbers: digits, and how many of them are a fraction
    Ata,            \* associated token account, by owner and mint
    Buffer,         \* buffer, by mint
    Requests,       \* command lines, a set of records
    OtherFills,     \* amounts that other solvers pull and push at once
    InitAccounts,   \* token accounts at the start
    InitOrders,     \* intents of the orders at the start
    InitSol,        \* lamports of the users at the start
    MaxCommands,    \* bound: commands that are run
    MaxChanges,     \* bound: steps of everybody else
    MaxTime         \* bound: the clock

VARIABLES
    accounts,       \* the token accounts
    orders,         \* the order accounts
    sol,            \* the lamports of the users
    now,            \* the clock
    commands,       \* the commands, in the order they were started
    flight,         \* transactions that were sent and have not landed
    changes,        \* steps of everybody else so far
    \* history, read by the properties only
    created,        \* creations of each intent
    settled         \* settlements of each intent that the tool landed

(* An account of any owner, one that is the buffer of a mint, an intent    *)
(* that check_bytes accepts, and what the command line can say, of users   *)
(* whose associated accounts are another program's addresses than the      *)
(* buffers.                                                                *)
IsAccount(a) == a \in [owner: {a.owner}, mint: Mints, amount: Nat, delegated: Nat]

IsBufferOf(a, m) == a.owner = StatePda /\ a.mint = m

IsIntent(i) ==
    /\ i.sell_amount \in 1..U64Max
    /\ i.buy_amount \in 1..U64Max
    /\ i.kind \in OrderKind

IsRequest(r) ==
    /\ r.command \in {"order", "settle", "reclaim"}
    /\ r.command = "order" => /\ r.kind \in OrderKind
                              /\ \A m1, m2 \in Mints : Ata[<<r.payer, m1>>] # Buffer[m2]
    /\ r.command # "order" => r.orders \in Seq(Range(r.orders))

ASSUME TradingAssumption ==
    /\ NativeMint \in Mints
    /\ \A m1, m2 \in Mints : Buffer[m1] = Buffer[m2] => m1 = m2
    /\ \A symbol \in DOMAIN Symbols : Symbols[symbol] \in Mints
    /\ InitAccounts = [a \in DOMAIN InitAccounts |-> InitAccounts[a]]
    /\ \A a \in DOMAIN InitAccounts : IsAccount(InitAccounts[a])
    /\ \A m \in Mints : Buffer[m] \in DOMAIN InitAccounts => IsBufferOf(InitAccounts[Buffer[m]], m)
    /\ \A i \in InitOrders : IsIntent(i)
    /\ \A r \in Requests : IsRequest(r)
    /\ OtherFills \subseteq FillAmounts

chain == <<accounts, orders, sol>>
vars == <<chain, now, commands, flight, changes, created, settled>>

NewOrder(created_by) == [fill |-> NoFill, cancelled |-> FALSE, created_by |-> created_by]
NewAccount(owner, mint) == [owner |-> owner, mint |-> mint, amount |-> 0, delegated |-> 0]

(* One more for every i in S. *)
Count(counts, S) ==
    [i \in DOMAIN counts \cup S |->
        (IF i \in DOMAIN counts THEN counts[i] ELSE 0) + (IF i \in S THEN 1 ELSE 0)]

Init ==
    /\ accounts = InitAccounts
    /\ orders = [i \in InitOrders |-> NewOrder(i.owner)]
    /\ sol = InitSol
    /\ now = 0
    /\ commands = <<>>
    /\ flight = {}
    /\ changes = 0
    /\ created = Count(<<>>, InitOrders)
    /\ settled = <<>>

-----------------------------------------------------------------------------
(* utils::token: what a term of the command line stands for. *)

(* resolve_from_mint: an associated account, to be created if missing. *)
ResolveFromMint(owner, mint) ==
    [account |-> Ata[<<owner, mint>>], mint |-> mint,
     create_ata |-> Ata[<<owner, mint>>] \notin DOMAIN accounts]

(* interpret_token_from_user_input, given a token account. *)
ResolveFromAccount(account) ==
    [account |-> account, mint |-> accounts[account].mint, create_ata |-> FALSE]

IsSol(token) == token \in {"SOL", "WSOL"}

CanResolve(token) ==
    IsSol(token) \/ token \in DOMAIN accounts \cup Mints \cup DOMAIN Symbols

ResolveToken(owner, token) ==
    IF IsSol(token) THEN ResolveFromMint(owner, NativeMint)
    ELSE IF token \in DOMAIN accounts THEN ResolveFromAccount(token)
    ELSE ResolveFromMint(owner, IF token \in Mints THEN token ELSE Symbols[token])

Omitted == "omitted"

(* resolve_amount: an amount that is left out is the smallest one. *)
ResolveAmount(amount, decimals) ==
    IF amount = Omitted THEN 1
    ELSE Numerals[amount].digits * 10 ^ (decimals - Numerals[amount].fraction)

CanResolveAmount(amount, decimals) ==
    \/ amount = Omitted
    \/ /\ amount \in DOMAIN Numerals
       /\ Numerals[amount].fraction <= decimals
       /\ ResolveAmount(amount, decimals) \in 1..U64Max

(* The terms after the first amount and token: the other token, SOL if it  *)
(* is implied, with its amount; <<>> if they cannot be interpreted.        *)
Counter(rest) ==
    LET words == IF Len(rest) > 1 /\ rest[1] \in {"for", "with"} THEN Tail(rest) ELSE rest
    IN  CASE Len(words) = 0 -> <<"SOL", Omitted>>
          [] Len(words) = 1 -> <<words[1], Omitted>>
          [] Len(words) = 2 -> <<words[2], words[1]>>
          [] OTHER -> <<>>

(* The terms in the order sell, buy; the first amount is the exact side. *)
Sides(kind, terms) ==
    LET a == <<terms[2], terms[1]>>
        b == Counter(SubSeq(terms, 3, Len(terms)))
    IN  IF kind = "Sell" THEN [sell |-> a, buy |-> b] ELSE [sell |-> b, buy |-> a]

CanParse(r) ==
    /\ Counter(SubSeq(r.terms, 3, Len(r.terms))) # <<>>
    /\ \A side \in {"sell", "buy"} :
           LET term == Sides(r.kind, r.terms)[side] IN
           /\ CanResolve(term[1])
           /\ CanResolveAmount(term[2], Decimals[ResolveToken(r.payer, term[1]).mint])

ParseOrder(r) ==
    LET sides == Sides(r.kind, r.terms)
        sell == ResolveToken(r.payer, sides.sell[1])
        buy == ResolveToken(r.payer, sides.buy[1])
    IN  [sell |-> sell, sell_is_sol |-> sides.sell[1] = "SOL",
         sell_amount |-> ResolveAmount(sides.sell[2], Decimals[sell.mint]),
         buy |-> buy, buy_amount |-> ResolveAmount(sides.buy[2], Decimals[buy.mint])]

OrderOf(r, parsed) ==
    [owner |-> r.payer,
     sell_token_account |-> parsed.sell.account, sell_mint |-> parsed.sell.mint,
     buy_token_account |-> parsed.buy.account, buy_mint |-> parsed.buy.mint,
     sell_amount |-> parsed.sell_amount, buy_amount |-> parsed.buy_amount,
     valid_to |-> r.valid_to, kind |-> r.kind, partially_fillable |-> r.partially_fillable]

-----------------------------------------------------------------------------
(* The instructions the commands are made of. *)

(* Mutant of CreateAtaIx: the account is left to somebody else. *)
NoAta(payer, token) == <<>>

CreateAtaIx(payer, token) ==
    IF token.create_ata
    THEN <<[op |-> "create_ata", account |-> token.account, owner |-> payer, mint |-> token.mint]>>
    ELSE <<>>

WrapSol(payer, amount) ==
    LET wsol == ResolveToken(payer, "WSOL")
    IN  CreateAtaIx(payer, wsol)
        \o <<[op |-> "wrap", from |-> payer, account |-> wsol.account, amount |-> amount]>>

Approve(token, owner, amount) ==
    <<[op |-> "approve", account |-> token.account, owner |-> owner, amount |-> amount]>>

(* create_order::execute *)
ExecuteOrder(r, parsed) ==
    (IF parsed.sell_is_sol THEN WrapSol(r.payer, parsed.sell_amount) ELSE <<>>)
    \o CreateAtaIx(r.payer, parsed.buy)
    \o Approve(parsed.sell, r.payer, parsed.sell_amount)
    \o <<[op |-> "create_order", owner |-> r.payer, created_by |-> r.payer,
          intent |-> OrderOf(r, parsed)]>>

Command(r, step, ixs) ==
    [request |-> r, step |-> step, ixs |-> ixs, resolved |-> <<>>, fresh |-> TRUE]

Begin(c) ==
    /\ Len(commands) < MaxCommands
    /\ commands' = Append(commands, c)
    /\ UNCHANGED <<chain, now, changes, created, settled>>

(* Context::submit, which looks at nothing else: command c is on its way. *)
Submit(c) == flight' = flight \cup {c}

(* The commands `sell` and `buy`. *)
RunOrder(r) ==
    /\ r.command = "order"
    /\ CanParse(r)
    /\ Begin(Command(r, "sent", ExecuteOrder(r, ParseOrder(r))))
    /\ Submit(Len(commands) + 1)

(* The command `reclaim`: what each order says of its recipient. *)
RunReclaim(r) ==
    /\ r.command = "reclaim"
    /\ Range(r.orders) \subseteq DOMAIN orders
    /\ Begin(Command(r, "sent",
             [k \in DOMAIN r.orders |->
                 [op |-> "reclaim", intent |-> r.orders[k], owner |-> r.payer,
                  recipient |-> orders[r.orders[k]].created_by]]))
    /\ Submit(Len(commands) + 1)

(* resolve_intents: the intents, which an address fixes, and the mints     *)
(* that the accounts of each have by now.                                  *)
ResolveIntents(list) ==
    [k \in DOMAIN list |->
        [intent |-> list[k], sell |-> accounts[list[k].sell_token_account].mint,
         buy |-> accounts[list[k].buy_token_account].mint]]

(* The command `settle`, up to where it looks at the buffers. *)
RunSettle(r) ==
    /\ r.command = "settle"
    /\ \A i \in Range(r.orders) :
           /\ i \in DOMAIN orders
           /\ i.buy_mint # NativeSol
           /\ {i.sell_token_account, i.buy_token_account} \subseteq DOMAIN accounts
    /\ Begin([Command(r, "prepare", <<>>) EXCEPT !.resolved = ResolveIntents(r.orders)])
    /\ UNCHANGED flight

-----------------------------------------------------------------------------
(* What all the resolved orders sell of a mint, and what they buy of it. *)
SellTally(resolved, mint) ==
    SumFunctionOnSet([k \in DOMAIN resolved |-> resolved[k].intent.sell_amount],
                     {k \in DOMAIN resolved : resolved[k].sell = mint})
BuyTally(resolved, mint) ==
    SumFunctionOnSet([k \in DOMAIN resolved |-> resolved[k].intent.buy_amount],
                     {k \in DOMAIN resolved : resolved[k].buy = mint})

TalliesFit(resolved) ==
    \A m \in Mints : SellTally(resolved, m) <= U64Max /\ BuyTally(resolved, m) <= U64Max

(* Mutant of EnsureCowBalance: the buffers may pay what they hold. *)
CountBalances(resolved) ==
    \A r \in Range(resolved) :
        LET held == IF Buffer[r.buy] \in DOMAIN accounts THEN accounts[Buffer[r.buy]].amount ELSE 0
        IN  SellTally(resolved, r.buy) + held >= BuyTally(resolved, r.buy)

EnsureCowBalance(resolved) ==
    \A r \in Range(resolved) : SellTally(resolved, r.buy) >= BuyTally(resolved, r.buy)

(* Mutant of MintsToCreate: a failed request is taken for a buffer. *)
AnsweredMintsToCreate(resolved, unanswered) ==
    {m \in UNION {{r.sell, r.buy} : r \in Range(resolved)} :
        Buffer[m] \notin DOMAIN accounts /\ m \notin unanswered}

(* The mints of either tally whose buffer is not there, as far as the tool *)
(* can tell: a request that fails is taken for a buffer that is missing.   *)
MintsToCreate(resolved, unanswered) ==
    {m \in UNION {{r.sell, r.buy} : r \in Range(resolved)} :
        Buffer[m] \notin DOMAIN accounts \/ m \in unanswered}

(* One instruction for each token program. *)
SetupIxs(missing) ==
    LET programs == SetToSeq({Programs[m] : m \in missing})
    IN  [k \in DOMAIN programs |->
            [op |-> "create_buffers", mints |-> {m \in missing : Programs[m] = programs[k]}]]

(* compute_pulls: the full sell amount, into the buffer of the mint seen. *)
ComputePulls(resolved) ==
    [k \in DOMAIN resolved |->
        [intent |-> resolved[k].intent, destination |-> Buffer[resolved[k].sell],
         amount |-> resolved[k].intent.sell_amount]]

(* Exactly the buy amounts, out of the buffers of the mints of the intents. *)
ComputePushes(resolved) ==
    [k \in DOMAIN resolved |->
        [source |-> Buffer[resolved[k].intent.buy_mint],
         destination |-> resolved[k].intent.buy_token_account,
         amount |-> resolved[k].intent.buy_amount]]

(* The settlement, behind what it needs. *)
SettlementIxs(payer, setup, resolved) ==
    setup \o <<[op |-> "begin", solver |-> payer, finalize_ix_index |-> Len(setup) + 1,
                pulls |-> ComputePulls(resolved)],
               [op |-> "finalize", begin_ix_index |-> Len(setup),
                pushes |-> ComputePushes(resolved)]>>

(* prepare_setup_ixs, and the transaction. *)
PrepareSettlement(c, unanswered) ==
    LET resolved == commands[c].resolved
        setup == SetupIxs(MintsToCreate(resolved, unanswered))
        dry_run == commands[c].request.dry_run
    IN  /\ commands[c].step = "prepare"
        /\ TalliesFit(resolved)
        /\ EnsureCowBalance(resolved)
        /\ commands' = [commands EXCEPT
              ![c].step = IF dry_run THEN "simulate" ELSE "sent",
              ![c].ixs = SettlementIxs(commands[c].request.payer, setup, resolved)]
        /\ IF dry_run THEN UNCHANGED flight ELSE Submit(c)
        /\ UNCHANGED <<chain, now, changes, created, settled>>

-----------------------------------------------------------------------------
(* The programs.  An instruction takes a state s of the chain to another,  *)
(* or fails; the token program and the order of events are those of        *)
(* Settlement, which has every transfer as a step.                         *)
Failed(s) == [s EXCEPT !.result = "failed"]
Succeeds(s) == s.result = "ok"

CanMove(s, from, to, amount) ==
    /\ {from, to} \subseteq DOMAIN s.accounts
    /\ s.accounts[from].mint = s.accounts[to].mint
    /\ s.accounts[from].amount >= amount
    /\ s.accounts[from].owner = StatePda \/ s.accounts[from].delegated >= amount

Move(s, from, to, amount) ==
    IF ~CanMove(s, from, to, amount) THEN Failed(s)
    ELSE IF from = to THEN s
    ELSE [s EXCEPT !.accounts[from].amount = @ - amount,
                   !.accounts[from].delegated =
                       IF s.accounts[from].owner = StatePda THEN @ ELSE @ - amount,
                   !.accounts[to].amount = @ + amount]

(* Mutant of FillFits: the fill so far is not looked at. *)
FirstFillFits(s, i, amounts) == ValidatedFinalAmounts(i, NoFill, amounts)

FillFits(s, i, amounts) == ValidatedFinalAmounts(i, s.orders[i].fill, amounts)

(* process_order for a pull and its push. *)
CanProcess(s, pull, push) ==
    LET i == pull.intent
        amounts == [withdrawn |-> pull.amount, received |-> push.amount]
    IN  /\ i \in DOMAIN s.orders
        /\ ~s.orders[i].cancelled
        /\ ~Expired(i, now)
        /\ push.destination = i.buy_token_account
        /\ push.source = Buffer[i.buy_mint]
        /\ push.source # push.destination
        /\ i.sell_token_account \in DOMAIN s.accounts
        /\ s.accounts[i.sell_token_account].owner = i.owner
        /\ s.accounts[i.sell_token_account].mint = i.sell_mint
        /\ ValidateLimitPrice(i, amounts)
        /\ FillFits(s, i, amounts)

Process(s, pull, push) ==
    IF ~CanProcess(s, pull, push) THEN Failed(s)
    ELSE [Move(s, pull.intent.sell_token_account, pull.destination, pull.amount) EXCEPT
             !.orders[pull.intent].fill =
                 AddFills(@, [withdrawn |-> pull.amount, received |-> push.amount])]

(* Each pull, with its push, and each push: one after the other, until one *)
(* fails.                                                                  *)
ProcessAll(s, pulls, pushes) ==
    LET after[j \in 0..Len(pulls)] ==
            IF j = 0 THEN s
            ELSE IF Succeeds(after[j - 1]) THEN Process(after[j - 1], pulls[j], pushes[j])
            ELSE after[j - 1]
    IN  after[Len(pulls)]

Push(s, push) == Move(s, push.source, push.destination, push.amount)

PushFunds(s, pushes) ==
    LET after[j \in 0..Len(pushes)] ==
            IF j = 0 THEN s
            ELSE IF Succeeds(after[j - 1]) THEN Push(after[j - 1], pushes[j])
            ELSE after[j - 1]
    IN  after[Len(pushes)]

(* Each half must name the other, and no order comes twice. *)
CanBegin(ixs, k) ==
    LET at == ixs[k].finalize_ix_index + 1
    IN  /\ ixs[k].solver \in Solvers
        /\ at \in k + 1..Len(ixs)
        /\ ixs[at].op = "finalize" /\ ixs[at].begin_ix_index = k - 1
        /\ \A a, b \in DOMAIN ixs[k].pulls :
               ixs[k].pulls[a].intent = ixs[k].pulls[b].intent => a = b

ExecuteBegin(s, ixs, k) ==
    IF CanBegin(ixs, k)
    THEN ProcessAll(s, ixs[k].pulls, ixs[ixs[k].finalize_ix_index + 1].pushes)
    ELSE Failed(s)

(* f, and g where f is not defined. *)
Joined(f, g) == [x \in DOMAIN f \cup DOMAIN g |-> IF x \in DOMAIN f THEN f[x] ELSE g[x]]

CanCreateAta(s, ix) ==
    ix.account \in DOMAIN s.accounts => s.accounts[ix.account].owner = ix.owner

IsReclaimable(s, ix) ==
    /\ ix.intent \in DOMAIN s.orders
    /\ ix.recipient = s.orders[ix.intent].created_by
    /\ \/ FullyFilled(ix.intent, s.orders[ix.intent].fill)
       \/ Expired(ix.intent, now)
       \/ s.orders[ix.intent].cancelled /\ ix.owner = ix.intent.owner

Execute(s, ixs, k) ==
    LET ix == ixs[k] IN
    CASE ix.op = "create_ata" /\ CanCreateAta(s, ix) ->
           [s EXCEPT !.accounts = Joined(@, [a \in {ix.account} |-> NewAccount(ix.owner, ix.mint)])]
      [] ix.op = "wrap" /\ s.sol[ix.from] >= ix.amount /\ ix.account \in DOMAIN s.accounts ->
           [s EXCEPT !.sol[ix.from] = @ - ix.amount, !.accounts[ix.account].amount = @ + ix.amount]
      [] ix.op = "approve" /\ ix.account \in DOMAIN s.accounts
         /\ s.accounts[ix.account].owner = ix.owner ->
           [s EXCEPT !.accounts[ix.account].delegated = ix.amount]
      [] ix.op = "create_order" /\ ix.intent \notin DOMAIN s.orders /\ CheckBytes(ix.intent) ->
           [s EXCEPT !.orders = Joined(@, [i \in {ix.intent} |-> NewOrder(ix.created_by)])]
      [] ix.op = "create_buffers" ->
           [s EXCEPT !.accounts = Joined(@, [b \in {Buffer[m] : m \in ix.mints} |->
               NewAccount(StatePda, CHOOSE m \in ix.mints : Buffer[m] = b)])]
      [] ix.op = "reclaim" /\ IsReclaimable(s, ix) ->
           [s EXCEPT !.orders = [i \in DOMAIN @ \ {ix.intent} |-> @[i]]]
      [] ix.op = "begin" -> ExecuteBegin(s, ixs, k)
      [] ix.op = "finalize" -> PushFunds(s, ix.pushes)
      [] OTHER -> Failed(s)

Chain == [result |-> "ok", accounts |-> accounts, orders |-> orders, sol |-> sol]

(* One instruction after the other, until one fails. *)
ExecuteAll(ixs) ==
    LET after[k \in 0..Len(ixs)] ==
            IF k = 0 THEN Chain
            ELSE IF Succeeds(after[k - 1]) THEN Execute(after[k - 1], ixs, k)
            ELSE after[k - 1]
    IN  after[Len(ixs)]

-----------------------------------------------------------------------------
(* settle --dry-run: a simulation that fails is reported as one. *)
Simulate(c) ==
    /\ commands[c].step = "simulate"
    /\ commands' = [commands EXCEPT
          ![c].step = IF Succeeds(ExecuteAll(commands[c].ixs)) THEN "simulated" ELSE "simulation failed"]
    /\ UNCHANGED <<chain, now, flight, changes, created, settled>>

(* What any command has seen of the chain is no longer all true. *)
Outdated(cs) == [c \in DOMAIN cs |-> [cs[c] EXCEPT !.fresh = FALSE]]

(* The transaction of command c lands. *)
Land(c) ==
    LET s == ExecuteAll(commands[c].ixs)
        ops(op) == {ix \in Range(commands[c].ixs) : ix.op = op}
    IN  /\ Succeeds(s)
        /\ accounts' = s.accounts
        /\ orders' = s.orders
        /\ sol' = s.sol
        /\ flight' = flight \ {c}
        /\ commands' = Outdated(commands)
        /\ created' = Count(created, {ix.intent : ix \in ops("create_order")})
        /\ settled' = Count(settled, UNION {{p.intent : p \in Range(ix.pulls)} : ix \in ops("begin")})
        /\ UNCHANGED <<now, changes>>

-----------------------------------------------------------------------------
(* What everybody else does meanwhile. *)
Meanwhile ==
    /\ changes < MaxChanges
    /\ changes' = changes + 1
    /\ commands' = Outdated(commands)
    /\ UNCHANGED <<sol, flight, created, settled>>

CancelOrder(i) ==
    /\ Meanwhile
    /\ ~orders[i].cancelled
    /\ orders' = [orders EXCEPT ![i].cancelled = TRUE]
    /\ UNCHANGED <<accounts, now>>

(* Another solver settles an order, with tokens of its own: all of it, a   *)
(* part of one that is partially fillable, or nothing of one that is full. *)
SettleElsewhere(i, amounts) ==
    LET pull == [intent |-> i, amount |-> amounts.withdrawn]
        push == [source |-> Buffer[i.buy_mint], destination |-> i.buy_token_account,
                 amount |-> amounts.received]
        from == i.sell_token_account
        s == [accounts |-> accounts, orders |-> orders]
        pulled == [accounts EXCEPT
                      ![from].amount = @ - pull.amount,
                      ![from].delegated = IF i.owner = StatePda THEN @ ELSE @ - pull.amount]
    IN  /\ Meanwhile
        /\ i.buy_mint \in Mints /\ push.destination \in DOMAIN accounts
        /\ accounts[push.destination].mint = i.buy_mint
        /\ CanProcess(s, pull, push)
        /\ CanMove(s, from, from, pull.amount)
        /\ accounts' = [pulled EXCEPT ![push.destination].amount = @ + push.amount]
        /\ orders' = [orders EXCEPT ![i].fill = AddFills(@, amounts)]
        /\ UNCHANGED now

(* An empty account is closed; a buffer by ReclaimBuffer. *)
CloseAccount(a) ==
    /\ Meanwhile
    /\ accounts[a].amount = 0
    /\ accounts' = [b \in DOMAIN accounts \ {a} |-> accounts[b]]
    /\ UNCHANGED <<orders, now>>

(* One that is not an associated account can be opened for another mint. *)
Reopen(a, mint) ==
    /\ Meanwhile
    /\ accounts[a].amount = 0
    /\ accounts[a].owner # StatePda
    /\ \A key \in DOMAIN Ata : a # Ata[key]
    /\ accounts' = [accounts EXCEPT ![a].mint = mint, ![a].delegated = 0]
    /\ UNCHANGED <<orders, now>>

Tick ==
    /\ now < MaxTime
    /\ Meanwhile
    /\ now' = now + 1
    /\ UNCHANGED <<accounts, orders>>

Next ==
    \/ \E r \in Requests : RunOrder(r) \/ RunSettle(r) \/ RunReclaim(r)
    \/ \E c \in DOMAIN commands :
          \/ \E unanswered \in {{}, Mints} : PrepareSettlement(c, unanswered)
          \/ Simulate(c)
    \/ \E c \in flight : Land(c)
    \/ \E i \in DOMAIN orders :
          CancelOrder(i) \/ \E amounts \in OtherFills : SettleElsewhere(i, amounts)
    \/ \E a \in DOMAIN accounts : CloseAccount(a) \/ \E m \in Mints : Reopen(a, m)
    \/ Tick

Spec == Init /\ [][Next]_vars
-----------------------------------------------------------------------------
(* Every order c settles still buys the mint its account had when c looked. *)
SawItsMints(c) == \A r \in Range(commands[c].resolved) : r.buy = r.intent.buy_mint

(* What the orders of the program itself, settled by c, sell out of the    *)
(* buffer of m.                                                            *)
OwnSales(c, m) ==
    LET own == {k \in DOMAIN commands[c].resolved :
                   commands[c].resolved[k].intent.sell_token_account = Buffer[m]}
    IN  SumFunctionOnSet([k \in own |-> commands[c].resolved[k].intent.sell_amount], own)

Held(m) == IF Buffer[m] \in DOMAIN accounts THEN accounts[Buffer[m]].amount ELSE 0

(* The settle command never spends what the buffers already held, however  *)
(* late its transaction lands and whatever others did meanwhile, but for   *)
(* what the program's own orders sell out of them.                         *)
BuffersAreNotDrained ==
    [][\A c \in flight \ flight' :
          SawItsMints(c) => \A m \in Mints : Held(m)' >= Held(m) - OwnSales(c, m)]_vars

(* The orders of c are open, and the accounts they sell from and buy into  *)
(* are as the intents say and hold and delegate enough for all of them.    *)
Settleable(c) ==
    LET list == commands[c].request.orders
        sells(a) == SumFunctionOnSet([i \in Range(list) |-> i.sell_amount],
                                     {i \in Range(list) : i.sell_token_account = a})
    IN  /\ commands[c].request.payer \in Solvers
        /\ IsInjective(list)
        /\ \A i \in Range(list) :
             LET sell == accounts[i.sell_token_account]
                 buy == accounts[i.buy_token_account]
             IN  /\ orders[i] = [orders[i] EXCEPT !.fill = NoFill, !.cancelled = FALSE]
                 /\ ~Expired(i, now)
                 /\ sell.owner = i.owner /\ sell.mint = i.sell_mint /\ buy.mint = i.buy_mint
                 /\ i.buy_token_account # Buffer[i.buy_mint]
                 /\ sells(i.sell_token_account) <= sell.amount
                 /\ i.owner # StatePda => sells(i.sell_token_account) <= sell.delegated

(* A settlement that the tool sent or is to simulate succeeds if its       *)
(* orders can be settled and nothing happened since it looked: the buffers *)
(* are there or created first, also when the tool was not told of one,     *)
(* they hold what is pushed, and the indices are right.                    *)
FreshSettlementsSucceed ==
    \A c \in DOMAIN commands :
        /\ commands[c].request.command = "settle"
        /\ c \in flight \/ commands[c].step = "simulate"
        /\ commands[c].fresh
        /\ Settleable(c)
        => Succeeds(ExecuteAll(commands[c].ixs))

(* An order that `sell` or `buy` created can be settled at once if nothing *)
(* happened since the tool looked: both its accounts are there, and all    *)
(* that it sells is delegated, and wrapped if it is SOL.                   *)
FreshOrdersAreReady ==
    [][\A c \in flight \ flight' :
          commands[c].request.command = "order" /\ commands[c].fresh =>
             LET i == Last(commands[c].ixs).intent IN
             /\ i \in DOMAIN orders'
             /\ {i.sell_token_account, i.buy_token_account} \subseteq DOMAIN accounts'
             /\ accounts'[i.sell_token_account].delegated >= i.sell_amount
             /\ (\E ix \in Range(commands[c].ixs) : ix.op = "wrap") =>
                    accounts'[i.sell_token_account].amount >= i.sell_amount]_vars

(* However often a settlement is repeated after the tool gave up on it,    *)
(* and in however many parts others settle meanwhile, the tool settles an  *)
(* order at most once for each time it was created.                        *)
SettledOncePerCreation == \A i \in DOMAIN settled : settled[i] <= created[i]
===============================================================================
