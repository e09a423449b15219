# TLA+ models of wallet-manager

Specifications of wallet-manager's state: nonces and Bitcoin outpoints, the
withdrawals that use them, balances and funding, the audit outbox, receive
addresses and keys, the two stores, and the construction of transactions. TLC
checks small instances. TLAPS proves every safety property the passing runs check
for all instances; liveness is model-checked only.

## The system

| Part | Code | Here |
| --- | --- | --- |
| Withdrawal saga | `internal/withdrawal/withdrawal.go` | `Withdrawal`, `WithdrawalLifecycle` |
| Transaction builders, key resolver, blockhash fetcher | `internal/withdrawal/{txbuilder,resolver,solana_rpc}.go` | `TxBuilder`, `Rlp` |
| Address derivation and its cache | `internal/{deriver,cache}` | `Deriver` |
| Nonce service, Redis lock | `internal/{nonce,lock}` | `NonceService`, `NonceAllocator` |
| UTXO service | `internal/utxo` | `UtxoService`, `CoinSelection`, `Sums` |
| Balance and funding service | `internal/{balance,funding}` | `Ledger`, `BalanceBook`, `Sums` |
| Audit outbox | `internal/audit` | `AuditOutbox` |
| Wallet service, address rotation | `internal/wallet` | `AddressRotation`, `WalletService` |
| Key mapping | `internal/keymapping` | `KeyMapping` |
| PostgreSQL store | `internal/storage/postgres` | `SqlStore`, `SpendStore` |
| In-memory store (unit tests) | `internal/storage/memstore` | `MemStore`, `Stores` |
| gRPC handlers | `internal/api/grpc` | as the calls they make, in `Ledger`, `Withdrawal`, `KeyMapping` |
| Policy, signing and gateway clients | `internal/{policy,clients,grpcclient}` | their outcomes, in `Withdrawal`, `TxBuilder` |

`PROJECT.json` lists every part with its status, the code lines behind each
definition, and the hazards the properties are aimed at.

The REST API calls `Create`, `DeriveAddress`, `ManualRequest` and `ReserveNonce`. The
gRPC server receives the Blockchain Gateway's confirmations and reorgs and passes
them to the balance service and to the saga. `ConstructAndSign`, `Broadcast`,
`Fail`, `SetState`, `TrackUTXO`, `PruneFinalized`, `AddLocked`, `ReleaseLocked`, the
treasury callbacks, `Bind`, `Rotate` and `ExpireCooling` have no caller in the repository but tests. Which of them are
called, and when, is therefore a constant of the models and not a fact of the
code.

## Modules

A step is one call of the store, of Redis or of another service. A store method
is atomic: it is one statement or one transaction. Nothing between two calls is.

**SpendStore** has the statements on nonce rows and outpoints in the form the
next three modules need.

**NonceService** follows `ReserveNonce` call by call: acquire, increment,
and `Release` as its two Redis calls. The lock may expire at any time, Redis and
database replies may be lost, and a caller may die anywhere. A caller gives its
nonce up once. **NonceAllocator** is what the service promises: a nonce belongs
to one caller, and one that was sent is never handed out again.

**CoinSelection** defines the set of results the greedy loop may return, since
`sort.Slice` leaves the order of equal values open; **Sums** has the sum over a set
that it shares with the ledger. **UtxoService** lists and
locks in two steps, and updates rows one at a time in `Unlock`, `MarkSpent` and
`RestoreOnReorg`, whose loops may stop midway.

**Withdrawal** composes the two with the saga. The guard is evaluated on the row
read first. `ReserveNonce` is a single step, which the refinement of
`NonceAllocator` justifies. Every operation that writes a state does so last, so
one action (`SaveState`) models all those writes, including the unique index
that can refuse them. **WithdrawalLifecycle** is the abstract state machine. The
variable `setting` never changes. It names what is assumed in a behaviour: the
chain, whether at most one operation at a time runs on a withdrawal (`serial`),
the states in which the unguarded `Fail` is called (`failFrom`), and the faults.

**Ledger** has the balance row, the funding requests and the audit outbox of one
hot wallet that is not retired. `InTx` is serializable: a step takes the snapshot,
and the commit fails if a row that was read has been written since. **BalanceBook**
is what the comments promise of the row: an event is booked once, value moves from
pending to confirmed when its transaction meets the threshold, and a reorg demotes
the value of its block. The code departs from the book in two steps, which
`Departs` names; `ImplementsBook` is the refinement apart from those.
**AuditOutbox** has the sequence counter, the rows and the drainers of several
processes.

**StoreResult**, **SqlStore** and **MemStore** have one operator per method of the
`Store` interface, from tables to tables and a reply. **Stores** makes the same
call on both. A behaviour stays within one group of methods or within a
transaction, and ends when one store accepts what the other refuses. An amount is a
text, which a NUMERIC(38,18) column refuses or returns in its own spelling
(`Canonical`). That is modelled for withdrawals and for balances, whose one `amount`
stands for `confirmed`, `pending` and `locked`; the values of outpoints and the
amounts of funding requests, columns of the same type, are left out and differ in
the same way.

**AddressRotation** runs `DeriveAddress` and `SetState` over `SqlStore`.
All wallets of a chain share one xpub, so that an address is known by its index.
**KeyMapping** has the keys of one wallet. **WalletService** puts them together.

**Rlp** encodes byte by byte, and has a decoder of its own to compare with.
**Deriver** keeps paths, indices and caching; hashes and curve points are
constructors. **TxBuilder** runs `ConstructAndSign`'s build on all kinds of chain,
with a clock for the blockhash cache.

The `MC*` modules hold the instances. A definition marked "Mutant" is not part
of a specification; it is a plausible bug that a property must detect.

## Runs that pass

| Run | Instance | Shows |
| --- | --- | --- |
| `nonce_service` | 3 callers, 2 lock attempts, 3 nonces | distinct nonces, sent ones never reissued, ordered counters, refinement of the allocator; every `ReserveNonce` returns |
| `utxo_service` | 2 callers, 4 outpoints, two of equal value | exclusive locks, no spent coin offered, fewest inputs |
| `withdrawal` | five settings, up to 3 requests (two for one payment) and 3 workers | no shared nonce or outpoint, rows describe their transactions, no orphaned lock, one payout at a time, nothing unapproved proceeds, the life cycle is followed |
| `ledger` | 2 handlers, 3 events of 2 transactions and 2 blocks, 2 requests, 2 drainers, 1 fault | balances lose and repeat nothing and, but for the named departures, are the documented book; each event is audited once and reaches the log; one open request, and a low wallet gets one |
| `stores` | 2 ids, 2 spellings of an amount and a text that is none, limits from -1 to 2, 10 groups of calls | the rows of both stores agree; replies differ only as listed below |
| `wallet` | 2 callers, up to 2 wallets, six scenarios | returned addresses are usable, races keep an active address, a lone call recovers from any state left behind; one current key, and cooling keys resolve; every call returns |
| `txbuilder` | amounts of both signs and nonces around byte boundaries, 9 signatures, 2 Solana builds | what is sent is what was signed, with the v, r and s of the signature; blockhashes are valid, addresses belong to the keys that sign |

How far the results reach:

- `NoSharedResource`, `OnePayout` and `NoOrphanLock` hold in orderly settings:
  operations on a withdrawal do not overlap, nothing crashes, the store does not
  fail and a gateway error means the transaction was not accepted. `Fail` stays
  clear of the departures below. `RowDescribesTx` and `FollowsLifecycle` need only
  the first of these, apart from store failures on EVM; `FollowsLifecycle` also
  assumes that `Fail` is not called on a withdrawal that was sent. `PolicyGate`
  needs none.
- `utxo_service` assumes that each chain event is applied once.
- `ImplementsBook` says nothing of the steps that `Departs` names (see below).
- `LowIsRequested` speaks of behaviours without faults and reorgs. A reorg lowers
  the confirmed balance as well and evaluates nothing. It counts a request as made
  when it is recorded; after a failed treasury call nothing repeats it.
- `KeepsAddress` is about a wallet alone on its chain. Two wallets of a chain may
  compute the same index, and the loser has deprecated its address by then.
- `DeliveredIsPublished` assumes a sink. In development mode without Kafka, `Drain`
  marks events that go nowhere.
- `BlockhashFresh` takes a blockhash as valid for the 50 s that the comment on the
  cache's lifetime gives (`solana_rpc.go:23`), and a node as at most 10 s behind the
  chain when it is asked (`NodeLag`). Nothing in the code bounds that lag.
- `Provisioned` says whether the balance row exists. Nothing in the repository
  creates it on PostgreSQL: the service would insert an empty `locked`, which the
  numeric column refuses. Both cases are explored.

Bounds. Three callers or requests let a resource be given up, taken by a second
and wanted by a third, which is what reuse needs. Two lock attempts cover both
outcomes of a retry loop. In `ledger` two handlers and two drainers give every
race of two transactions or batches, one event is older and decreases the balance,
and a fault may hit any step. A behaviour has only the events and calls of one
workload, chosen so that each pair that shares a row meets. In `wallet` the two callers
rotate up to `MaxIndex` times with the lock expiring at any point. In `txbuilder`
the clock counts in tens of seconds, and the amounts cover zero, one byte below
and above 0x80, several bytes and a negative one; amounts and nonces stay below 2^31, so that the
64-bit limits are not reached. Deadlock is checked where a system never stops
(nonces, outpoints, ledger); the other specifications end when all requests,
ids or indices are used up.

Fairness. Weak fairness of the own steps of a running call, in `nonce_service`,
`ledger` and `wallet`: every sleep, lock and network call is bounded in time. Weak
fairness of the drainers in `ledger`, in the workloads with a drain: the ticker of
`Start` calls `Drain` every five seconds. Nothing is assumed of clients, the gateway, the treasury or faults.

## Runs that show a disagreement

Each checks one statement of a comment or of `PROJECT_PLAN.md` that the code does
not keep.

| Run | Statement | What happens |
| --- | --- | --- |
| `utxo_redelivery` | plan 259, never the same outpoint | a second restoration frees a locked outpoint; one `OnReorg` request with both ids restores twice |
| `withdrawal_nonce_reuse` | `nonce.go:31` "distinct values" | build failure, then `Fail`, roll one nonce back twice |
| `ledger_lost_event` | `balance.go:85` "already applied" | an event is recorded, its transaction fails to serialize, and the redelivery is acknowledged unapplied |
| `wallet_solana` | `rotation.go:144` "if it already exists, return it" | the only address is deprecated and cannot be inserted again |
| `txbuilder_leading_zero` | `secp.go:9` "(0x04 \|\| X \|\| Y)" | a coordinate with a leading zero byte is shifted, and the address belongs to no key |

## Known departures

These follow from the models as well. The properties above exclude them, and
`PROJECT.json` lists them as hazards with a note.

- `Fail` on a SIGNED Bitcoin withdrawal leaves its outpoints locked
  (`withdrawal.go:340`).
- A `ConstructAndSign` that read WHITELISTED revives a withdrawal that failed
  meanwhile (`withdrawal.go:245`).
- A withdrawal demoted by a reorg is in BROADCAST, which `Broadcast` refuses
  (`withdrawal.go:264`, comment at 364).
- A reorg moves the whole confirmed balance to pending, not the value of its block
  (`balance.go:158`; the comment at 145 says "for the reorged block",
  `PROJECT_PLAN.md:216` "the affected block's confirmed value").
- An event that meets the threshold is added to confirmed and leaves what earlier
  events of its transaction added to pending (`balance.go:105`; the comment at 74 and
  `PROJECT_PLAN.md:196` speak of moving value from pending to confirmed).
- Nothing refuses an amount below zero on the way to an EVM build, and both
  encodings drop its sign (`txbuilder.go:122`, 321, 349). `EvmSignsWhatItSends` says so:
  it compares with the magnitude.
- A write of the nonce that fails is ignored on EVM (`withdrawal.go:196`), and so the
  row may not name the nonce of its transaction.
- After a gateway timeout, or a crash between a rollback and the write of FAILED, a
  nonce or an outpoint may be used again while the first transaction is out
  (`withdrawal.go:277`).
- Two concurrent `SetState` calls can un-retire a wallet (`service.go:97`).
- PostgreSQL returns amounts with 18 decimals, which the EVM and Solana builders do
  not parse (`txbuilder.go:122`).
- Without an active address, Bitcoin and Solana builds use a placeholder key
  (`resolver.go:34`).
- While a key cools, the oldest key that resolves signs, and nothing calls
  `ExpireCooling` (`keymapping.go:72`).

Two behaviours of the nonce code are modelled but not claimed against, because
comments in the code concede them: `Release` may delete a lock that changed hands
after the comparison, and a rollback below a higher reservation leaves a gap.

Where the two stores differ, as `KnownDifferences` and `SameRows` state it:

- updates of a missing row fail in memory and do nothing in PostgreSQL;
- several uniqueness constraints exist in PostgreSQL only, and a duplicate that
  both refuse has an error value of its own in memory only;
- the in-memory in-flight set is not filled again by a demotion to BROADCAST;
- the in-memory store compares and returns amounts as text, of withdrawals and of
  balances, and takes any text; PostgreSQL has numbers, which it returns with 18
  decimals;
- `ListUndeliveredAuditEvents` with a limit of zero or less returns everything in
  memory; PostgreSQL returns nothing for zero and refuses less;
- a nonce row's version counts rollbacks in memory only, and a commit creates a
  missing row in memory only;
- `LockUTXOs` with a repeated outpoint succeeds in memory only;
- a transaction that goes on after a failed statement commits in memory only.

## Proofs

`NonceServiceProofs`, for any callers and bounds: `TypeOK`,
`DistinctReservations`, `SentNeverReissued`, `BroadcastBehindPending`,
`BroadcastMonotone`, and the refinement `ImplementsAllocator`. The inductive
invariant adds that every nonce held or sent is below `pending_nonce`, that
`broadcast_nonce` is zero or one above a sent nonce, and where a caller may hold
a nonce. Distinctness needs the first of these: a rollback frees a nonce only if
it is the highest one. The lock plays no part in the argument.

`UtxoServiceProofs`, for any callers, outpoints and amounts, from
`Redelivery = FALSE`: `TypeOK`, `ExclusiveHold` and `NoDoubleSpend`. The
invariant adds that held outpoints are neither free nor absent, that an outpoint
awaiting its reorg event is not free, held or on chain, and that `Unlock` works
on the caller's own outpoints. `FewestInputs` needs no assumption on redelivery, only
that finitely many rows exist at any time, which is part of its invariant. It is the
theorem `GreedyIsFewest` about the operators of `CoinSelection`: without a smallest
one of the outpoints it took, the loop had not covered the amount, and no set of that
size is worth more (`TopTotal`, taking outpoints away from both sets in pairs).

`WithdrawalProofs`, for any requests, workers and settings, with every fault.
`TypeOK` and `PolicyGate` do not assume `serial`. A handler works on a copy of the
row, so the gate is not inductive as it stands: the invariant `IInv` adds that a
handler past the guard of its operation works on an approved request, and that so
does every row that is about to be written. `RowDescribesTx` and the refinement
`FollowsLifecycle` speak of operations that do not overlap on a withdrawal. They
rest on `Order`: the row is still in the state that the guard of the running
operation read (`Fits`), and names what the operation has reserved (`Agrees`).

`WithdrawalResourceProofs`, for any requests, workers and outpoints:
`NoOrphanLock`, `OnePayout` and `NoSharedResource`. The invariant `Resources` gives
every nonce and outpoint an owner: the operation that works on a withdrawal, its
SIGNED row while none does, or its transaction on the network. No resource has two
owners, one with an owner is not free, and every locked outpoint has an owner that
is not on the network. `OnePayout` is proved where `Fail` is not called on a
withdrawal that was sent (`Regular`), `NoSharedResource` where on EVM `Fail` is called
in PENDING and SIGNED only (`FailsOnce`). The run `withdrawal_nonce_reuse` shows why
the second is needed; after `Fail` on a sent withdrawal the payment may be requested
again while the first transaction is out.

`WalletProofs`, for any wallets, callers, keys, retries and faults: `OneCurrentKey`,
`CoolingKept`, `ReturnsUsable`, `KeepsAddress` and `LoneCallSucceeds`. For keys, `KeyInv`
ties `active_to` to the last moment a key was current. For addresses, `RotationInv`
has the table (`Table`: at most one active address of a wallet), what each call knows
(`Known`), where a call without company is (`Lone`), and for `KeepsAddress` the
argument that needs it (`Keeps`): while no address is active, some call is about to
insert one and will succeed, because the one that fails was overtaken by another.

`TxBuilderProofs`, for any builds, amounts, signatures, indices and instants:
`BlockhashFresh` and `KeyOwnsAddress`. `BlockhashInv` bounds the age of the hash in the
cache when it was stored, by the client's timeout and the lag of the node; the age
when it is used is at most that and the cache's lifetime. `KeyInv` says that the address cache
holds what the derivers compute, so that it does not matter what is evicted.

`EvmSignsWhatItSends` is there too, for any nonces, amounts and signatures. The RLP
lemmas lead to `ListRoundTrip`: the decoder gives back the elements of every list the
builder can encode, on both sides of the 55-byte boundary. With that, `EvmInv` says
that the nine elements of the signed and of the sent list are what the build and the
signer gave; the numbers among them are `BigUint`s, which are minimal and read back as
the number. `WordOfTrim` and `Halves` say that r and s, padded to 32 bytes, are what
follows the header of the signer's reply; the header gives v, also when it says that
the key is compressed. `BuildAssumption` keeps the lists within one length byte: a
nonce is an int64, a recipient has 20 bytes, and an amount of either sign has at most
55 bytes; the numeric column allows 9 before the point.

`StoresProofs`, for any ids, amounts and bounds: `SameRows`, `KnownDifferences` and
`InflightIsInFlight`. `StoreInv` relates the stores table by table, inside and outside
a transaction: nonce rows agree up to the version, withdrawals and balances up to the
spelling of amounts, and the other tables are equal. Two facts about the in-memory store by
itself are needed. A payment in its in-flight set has a row in flight, so that
PostgreSQL refuses what it refuses as a duplicate; a cooling key has an end, so
that both expire the same keys. There is a lemma for each method: the replies
agree, or differ in a listed way.

`LedgerProofs`, for any handlers, events, requests and bounds, from the typing
assumptions of `Ledger` and `AuditOutbox` alone: `TypeOK`, `Conservation`, `ImplementsBook`,
`BlockSeenMonotone`, `DistinctSeqs`, `AuditedOnce`, `DeliveredIsPublished` and
`OneOpenRequest`. The refinement and the monotone block rest on `EventInv`: an
event being applied is recorded, is applied by one handler only and not applied
yet, and a snapshot that may still be committed equals the row. So does
`Conservation`, together with the finiteness of the set of applied events: the commit
of an event adds its amount to the row and the event to the sum. The refinement
also needs the columns one by one: `confirmed` is the sum of the settled events and
`pending` that of the other applied ones (`SumInv`). The audit
properties rest on `SeqInv` (numbers handed out are at most the counter, and no two
of them are equal, whether in a row or in a call that has yet to append)
and `AuditInv`; delivery on `DrainInv` (a batch that is being marked has been
published); the requests on `FundInv`.

The assumptions are the ones the modules name. Besides typing, they are: `None` is
not a number, caller or transaction (`NoneAssumption`, `RequestAssumption`); cooling
periods are not negative (`CoolingAssumption`); the canonical spelling of a canonical
spelling is itself, as for a value read back from a numeric column
(`CanonicalAssumption`); and the bytes of a coordinate are as many as the curve says
(`CoordinateAssumption`), and `BuildAssumption` above.

Sums over sets and recursion over bytes call for induction over data. The
induction theorems of the library cannot be used here, so such lemmas take a minimal
counterexample instead: a least number, by well-foundedness of the naturals, or a
smallest set, by that of strict inclusion among the subsets of a finite set. `Total`
adds its elements in an order that `CHOOSE` picks. `AdditiveExists` shows that there is
a function that allows any element to be taken first, and `TotalIsAdditive` that
`Total` is that function. These few lemmas are in both `UtxoServiceProofs` and
`LedgerProofs`.

Only model-checked are the liveness properties `ReserveReturns`, `LowIsRequested`,
`AuditReachesLog` and `CallReturns`: the prover does not handle fairness.

## Not modelled

- REST routing and decoding, authentication, migrations, configuration, start-up
  and tracing: they hold no state that an operation of the services reads back.
- HTTP and gRPC transport of the clients. Their outcomes are modelled, including
  an acceptance whose reply is lost.
- Elliptic curves, hashes, base58, bech32, EIP-55 and Bitcoin scripts and
  sighashes: pure computations, out of TLC's reach. The equal shares that stand for
  the values of Bitcoin inputs (`txbuilder.go:186`) belong to these.
- Parsing of recipients and outpoints; they are well formed in the models.
- `MemLocker` and `MemCache`, test doubles of one map and a mutex each.
- Generated code.
