------------------------------- MODULE Ledger -------------------------------
(***************************************************************************)
(* Packages balance and funding over the audit outbox: confirmation and    *)
(* reorg events of the Blockchain Gateway, the locked portion of a         *)
(* balance, and funding requests to the treasury, for one hot wallet and   *)
(* one asset, over the PostgreSQL store.                                   *)
(*                                                                         *)
(* A handler is a goroutine that runs one call.  It takes one step per     *)
(* statement; a serializable transaction is a step that reads a snapshot   *)
(* and a step that commits, and it cannot commit once a row it read has    *)
(* been written.  The gateway delivers an event as often as it likes.      *)
(***************************************************************************)
EXTENDS AuditOutbox, Sums

CONSTANTS Handlers,
          Events,            \* confirmation events; an event is its dedup key
          Info,              \* what each event says
          Asset,
          ConfirmationsEVM, ConfirmationsBTC,
          HotWalletMinBalance,
          Requests,          \* funding requests; an id is a fresh UUID
          LockAmount,        \* what AddLocked and ReleaseLocked are asked for
          MaxLocked,         \* bound of the model on the locked amount
          MaxReorgs,         \* bound of the model on the number of reorgs
          Provisioned,       \* whether the balance row exists from the start
          Workloads,         \* sets of the events and calls of one behaviour
          Empty, None

FundingStates == {"ABSENT", "REQUESTED", "APPROVED", "SETTLED", "REJECTED"}

ASSUME EventAssumption ==
  /\ Info \in [Events -> [tx : Nat, amount : Int, confirmations : Nat,
                          finalized : BOOLEAN, block : Nat]]
  /\ Empty \notin Int
  /\ None \notin Events \cup Requests
  /\ Events \cap (Requests \cup {"reorg"}) = {}
  /\ LockAmount \in Nat /\ MaxLocked \in Nat /\ MaxReorgs \in Nat
  /\ Provisioned \subseteq BOOLEAN /\ HotWalletMinBalance \in Int
  /\ Workloads \subseteq SUBSET (Events \cup {"reorg", "lock", "release", "fund",
                                            "callback", "drain"})

VARIABLES
  bal,       \* the (wallet, asset) row of table balances
  recorded,  \* table balance_events
  funding,   \* table funding_requests
  treasury,  \* requests Treasury Orchestration has accepted
  h,         \* what each handler is doing
  applied,   \* events whose amount was committed to the row
  settled,   \* those whose amount the confirmed column holds
  locks,     \* what AddLocked and ReleaseLocked add up to
  reorgs,    \* reorg events so far
  calls      \* the events and calls of this behaviour, never changed

ledgerVars == <<bal, recorded, funding, treasury, h, applied, settled,
                locks, reorgs, calls>>
vars == <<ledgerVars, outboxVars>>

(* Locked is Empty ("") in the row the service makes up when none exists.  *)
Balance == [exists : BOOLEAN, confirmed : Int, pending : Int,
            locked : Nat \cup {Empty}, block : Nat]

NoBalance == [exists |-> FALSE, confirmed |-> 0, pending |-> 0,
              locked |-> Empty, block |-> 0]

Ops == {"confirm", "reorg", "lock", "release", "fund"}

PC == {"idle", "record", "begin", "commit", "restore", "check", "open",
       "insert", "treasury", "seq", "append"}

Subjects == Events \cup Requests \cup {"reorg"}

(* Locals: the snapshot of its transaction and whether it can still commit,*)
(* its funding request, the sequence number and subject of its audit event.*)
Handler == [pc : PC, op : Ops \cup {None}, ev : Events \cup {None}, block : Nat,
            row : Balance, fresh : BOOLEAN, req : Requests \cup {None}, n : Nat,
            what : Subjects \cup {None}]

Idle == [pc |-> "idle", op |-> None, ev |-> None, block |-> 0, row |-> NoBalance,
         fresh |-> FALSE, req |-> None, n |-> 0, what |-> None]

TypeOK ==
  /\ bal \in Balance
  /\ recorded \subseteq Events
  /\ funding \in [Requests -> FundingStates]
  /\ treasury \subseteq Requests
  /\ h \in [Handlers -> Handler]
  /\ applied \subseteq Events /\ settled \subseteq applied
  /\ locks \in Nat
  /\ reorgs \in 0..MaxReorgs
  /\ calls \in Workloads
  /\ OutboxTypeOK(Subjects)

Init ==
  /\ \E p \in Provisioned :
       bal = IF p THEN [NoBalance EXCEPT !.exists = TRUE, !.locked = 0] ELSE NoBalance
  /\ recorded = {} /\ treasury = {} /\ applied = {} /\ settled = {}
  /\ funding = [f \in Requests |-> "ABSENT"]
  /\ h = [w \in Handlers |-> Idle]
  /\ locks = 0 /\ reorgs = 0
  /\ calls \in Workloads
  /\ OutboxInit

-----------------------------------------------------------------------------
ChainOfAsset(asset) ==
  IF asset \in {"btc", "bitcoin"} THEN "bitcoin"
  ELSE IF asset \in {"sol", "solana"} THEN "solana" ELSE "ethereum"

Threshold(chain) ==
  IF chain = "bitcoin" THEN ConfirmationsBTC
  ELSE IF chain = "solana" THEN 1 ELSE ConfirmationsEVM

IsConfirmed(e) ==
  LET chain == ChainOfAsset(Asset)
  IN  IF chain = "solana" THEN Info[e].finalized
      ELSE Info[e].confirmations >= Threshold(chain)

(* Empty strings read as zero.                                             *)
ParseDec(x) == IF x = Empty THEN 0 ELSE x

Max64(a, b) == IF a > b THEN a ELSE b

(* What the three read-modify-writes make of the row they read.            *)
ApplyConfirmation(row, e) ==
  [exists |-> TRUE,
   confirmed |-> row.confirmed + (IF IsConfirmed(e) THEN Info[e].amount ELSE 0),
   pending |-> row.pending + (IF IsConfirmed(e) THEN 0 ELSE Info[e].amount),
   locked |-> row.locked,
   block |-> Max64(row.block, Info[e].block)]

ApplyReorg(row) == [row EXCEPT !.confirmed = 0, !.pending = row.pending + row.confirmed]

AddLocked(x) == ParseDec(x) + LockAmount

(* Mutant: the locked amount may fall below zero.                          *)
ReleaseUnclamped(x) == ParseDec(x) - LockAmount

ReleaseLocked(x) == Max64(ParseDec(x) - LockAmount, 0)

Updated(r) ==
  CASE r.op = "confirm" -> ApplyConfirmation(r.row, r.ev)
    [] r.op = "reorg"   -> ApplyReorg(r.row)
    [] r.op = "lock"    -> [r.row EXCEPT !.locked = AddLocked(@)]
    [] OTHER            -> [r.row EXCEPT !.locked = ReleaseLocked(@)]

-----------------------------------------------------------------------------
At(w, label) == h[w].pc = label

Become(w, handler) == h' = [h EXCEPT ![w] = handler]

Goto(w, label) == Become(w, [h[w] EXCEPT !.pc = label])

Return(w) == Become(w, Idle)

(* Handler w moves on to r; open transactions that read what it wrote can  *)
(* no longer commit.                                                       *)
BecomeAndSpoil(w, r, Reads(_)) ==
  h' = [v \in Handlers |-> IF v = w THEN r
                           ELSE IF Reads(h[v]) THEN [h[v] EXCEPT !.fresh = FALSE]
                           ELSE h[v]]

(* OnConfirmation, for an event that names a wallet.                       *)
OnConfirmation(w, e) ==
  /\ At(w, "idle") /\ e \in calls
  /\ Become(w, [Idle EXCEPT !.pc = "record", !.op = "confirm", !.ev = e])
  /\ UNCHANGED <<bal, recorded, funding, treasury, applied, settled, locks, reorgs, calls,
                 outboxVars>>

(* Mutant: the duplicate is not reported, and the event applied again.     *)
RecordDuplicate(w) ==
  /\ At(w, "record")
  /\ recorded' = recorded \cup {h[w].ev}
  /\ Goto(w, "begin")
  /\ UNCHANGED <<bal, funding, treasury, applied, settled, locks, reorgs, calls,
                 outboxVars>>

(* RecordBalanceEvent; a duplicate ends the call with success.             *)
RecordEvent(w) ==
  /\ At(w, "record")
  /\ recorded' = recorded \cup {h[w].ev}
  /\ IF h[w].ev \in recorded THEN Return(w) ELSE Goto(w, "begin")
  /\ UNCHANGED <<bal, funding, treasury, applied, settled, locks, reorgs, calls,
                 outboxVars>>

(* Its second statement, the check for a duplicate, fails.                 *)
RecordEventFails(w) ==
  /\ At(w, "record") /\ Fault
  /\ recorded' = recorded \cup {h[w].ev}
  /\ Return(w)
  /\ UNCHANGED <<bal, funding, treasury, applied, settled, locks, reorgs, calls,
                 seq, outbox, delivered, published, drain>>

(* OnReorg, for an event that names a wallet; it is not deduplicated.      *)
OnReorg(w, block) ==
  /\ At(w, "idle") /\ "reorg" \in calls /\ reorgs < MaxReorgs
  /\ reorgs' = reorgs + 1
  /\ Become(w, [Idle EXCEPT !.pc = "begin", !.op = "reorg", !.block = block])
  /\ UNCHANGED <<bal, recorded, funding, treasury, applied, settled, locks, calls,
                 outboxVars>>

(* AddLocked and ReleaseLocked.                                            *)
Lock(w, op) ==
  /\ At(w, "idle") /\ op \in calls
  /\ op = "lock" => locks + LockAmount <= MaxLocked
  /\ Become(w, [Idle EXCEPT !.pc = "begin", !.op = op])
  /\ UNCHANGED <<bal, recorded, funding, treasury, applied, settled, locks, reorgs, calls,
                 outboxVars>>

(* GetBalance inside the transaction.  Without a row a confirmation starts *)
(* from an empty one, a reorg has nothing to demote and goes on, and the   *)
(* other two fail.                                                         *)
BeginTx(w) ==
  /\ At(w, "begin")
  /\ IF bal.exists \/ h[w].op = "confirm"
     THEN Become(w, [h[w] EXCEPT !.pc = "commit", !.row = bal, !.fresh = TRUE])
     ELSE IF h[w].op = "reorg" THEN Goto(w, "restore") ELSE Return(w)
  /\ UNCHANGED <<bal, recorded, funding, treasury, applied, settled, locks, reorgs, calls,
                 outboxVars>>

(* Mutant: OnConfirmedDecrease is not wired.                               *)
AfterCommitQuiet(r) ==
  IF r.op = "reorg" THEN [Idle EXCEPT !.pc = "restore", !.op = "reorg"] ELSE Idle

(* A confirmed event with a negative amount calls OnConfirmedDecrease.     *)
Decreases(e) == IsConfirmed(e) /\ Info[e].amount < 0

(* What follows the commit: a confirmed decrease starts the evaluation of  *)
(* a top-up in a goroutine of its own, a reorg goes on.                    *)
AfterCommit(r) ==
  CASE r.op = "confirm" /\ Decreases(r.ev) ->
         [Idle EXCEPT !.pc = "check", !.op = "fund"]
    [] r.op = "reorg" -> [Idle EXCEPT !.pc = "restore", !.op = "reorg"]
    [] OTHER -> Idle

(* UpsertBalance, Emit for a confirmation, and the commit.  The numeric    *)
(* column refuses an empty locked amount.                                  *)
CommitGuarded(w, serializable) ==
  /\ At(w, "commit") /\ serializable
  /\ Updated(h[w]).locked # Empty
  /\ bal' = Updated(h[w])
  /\ locks' = CASE h[w].op = "lock"    -> AddLocked(locks)
                [] h[w].op = "release" -> ReleaseLocked(locks)
                [] OTHER -> locks
  /\ settled' = CASE h[w].op = "reorg" -> {}
                  [] h[w].op = "confirm" /\ IsConfirmed(h[w].ev) -> settled \cup {h[w].ev}
                  [] OTHER -> settled
  /\ IF h[w].op = "confirm"
     THEN /\ applied' = applied \cup {h[w].ev}
          /\ seq' = NextAuditSeq
          /\ outbox' = outbox \cup {AuditRow(NextAuditSeq, h[w].ev)}
     ELSE UNCHANGED <<applied, seq, outbox>>
  /\ BecomeAndSpoil(w, AfterCommit(h[w]), LAMBDA r : r.pc = "commit")
  /\ UNCHANGED <<recorded, funding, treasury, reorgs, calls, delivered, published, drain, faults>>

(* Mutant: the transaction is read committed, and overwrites what other    *)
(* transactions wrote since it read the row.                               *)
CommitReadCommitted(w) == CommitGuarded(w, TRUE)

Commit(w) == CommitGuarded(w, h[w].fresh)

(* A serialization failure, an empty locked amount, or any statement of    *)
(* the transaction failing, the ones of Emit included: nothing is written. *)
Abort(w) ==
  /\ At(w, "commit")
  /\ \/ (~h[w].fresh \/ Updated(h[w]).locked = Empty) /\ UNCHANGED faults
     \/ Fault
  /\ Return(w)
  /\ UNCHANGED <<bal, recorded, funding, treasury, applied, settled, locks, reorgs, calls,
                 seq, outbox, delivered, published, drain>>

(* UTXORestore of the event's outpoints (UtxoService); its error is        *)
(* returned before the audit event is emitted.                             *)
Restore(w) ==
  /\ At(w, "restore")
  /\ \/ UNCHANGED faults /\ Become(w, [h[w] EXCEPT !.pc = "seq", !.what = "reorg"])
     \/ Fault /\ Return(w)
  /\ UNCHANGED <<bal, recorded, funding, treasury, applied, settled, locks, reorgs, calls,
                 seq, outbox, delivered, published, drain>>

-----------------------------------------------------------------------------
(* EvaluateAndRequest of a hot wallet: GetBalance and the threshold.       *)
CheckBalance(w) ==
  /\ At(w, "check")
  /\ IF bal.confirmed >= HotWalletMinBalance THEN Return(w) ELSE Goto(w, "open")
  /\ UNCHANGED <<bal, recorded, funding, treasury, applied, settled, locks, reorgs, calls,
                 outboxVars>>

(* ManualRequest, of an operator or of POST /funding-request.              *)
ManualRequest(w) ==
  /\ At(w, "idle") /\ "fund" \in calls
  /\ Become(w, [Idle EXCEPT !.pc = "open", !.op = "fund"])
  /\ UNCHANGED <<bal, recorded, funding, treasury, applied, settled, locks, reorgs, calls,
                 outboxVars>>

OpenRequests == {f \in Requests : funding[f] = "REQUESTED"}

(* GetOpenFundingRequest.                                                  *)
GetOpenRequest(w) ==
  /\ At(w, "open")
  /\ IF OpenRequests # {} THEN Return(w) ELSE Goto(w, "insert")
  /\ UNCHANGED <<bal, recorded, funding, treasury, applied, settled, locks, reorgs, calls,
                 outboxVars>>

(* Mutant: the partial unique index funding_open_dedup is missing.         *)
InsertUnchecked(w, f) ==
  /\ At(w, "insert") /\ funding[f] = "ABSENT"
  /\ funding' = [funding EXCEPT ![f] = "REQUESTED"]
  /\ Become(w, [h[w] EXCEPT !.pc = "treasury", !.req = f])
  /\ UNCHANGED <<bal, recorded, treasury, applied, settled, locks, reorgs, calls,
                 outboxVars>>

(* CreateFundingRequest inserts the row or fails on funding_open_dedup.    *)
InsertRequest(w, f) ==
  /\ At(w, "insert") /\ funding[f] = "ABSENT"
  /\ IF OpenRequests = {}
     THEN /\ funding' = [funding EXCEPT ![f] = "REQUESTED"]
          /\ Become(w, [h[w] EXCEPT !.pc = "treasury", !.req = f])
     ELSE UNCHANGED funding /\ Return(w)
  /\ UNCHANGED <<bal, recorded, treasury, applied, settled, locks, reorgs, calls,
                 outboxVars>>

(* RequestFunding; after an error, which may hide an acceptance, the       *)
(* request is left as it is and no audit event is emitted.                 *)
RequestFunding(w) ==
  /\ At(w, "treasury")
  /\ \/ /\ treasury' = treasury \cup {h[w].req}
        /\ Become(w, [h[w] EXCEPT !.pc = "seq", !.what = h[w].req])
        /\ UNCHANGED faults
     \/ /\ Fault
        /\ treasury' \in {treasury, treasury \cup {h[w].req}}
        /\ Return(w)
  /\ UNCHANGED <<bal, recorded, funding, applied, settled, locks, reorgs, calls,
                 seq, outbox, delivered, published, drain>>

(* MarkApproved, MarkSettled and MarkRejected have no guard.               *)
TreasuryCallback(f, s) ==
  /\ "callback" \in calls /\ f \in treasury
  /\ s \in {"APPROVED", "SETTLED", "REJECTED"}
  /\ funding' = [funding EXCEPT ![f] = s]
  /\ UNCHANGED <<bal, recorded, treasury, h, applied, settled, locks, reorgs, calls,
                 outboxVars>>

-----------------------------------------------------------------------------
(* Emit outside a transaction: NextAuditSeq, then AppendAuditEvent.  Open  *)
(* transactions that will emit can no longer commit.                       *)
EmitSeq(w) ==
  /\ At(w, "seq")
  /\ seq' = NextAuditSeq
  /\ BecomeAndSpoil(w, [h[w] EXCEPT !.pc = "append", !.n = NextAuditSeq],
                    LAMBDA r : r.pc = "commit" /\ r.op = "confirm")
  /\ UNCHANGED <<bal, recorded, funding, treasury, applied, settled, locks, reorgs, calls,
                 outbox, delivered, published, drain, faults>>

EmitAppend(w) ==
  /\ At(w, "append")
  /\ outbox' = outbox \cup {AuditRow(h[w].n, h[w].what)}
  /\ Return(w)
  /\ UNCHANGED <<bal, recorded, funding, treasury, applied, settled, locks, reorgs, calls,
                 seq, delivered, published, drain, faults>>

(* Any other call fails, or the process stops or dies between two calls.   *)
Crash(w) ==
  /\ ~At(w, "idle") /\ Fault
  /\ Return(w)
  /\ UNCHANGED <<bal, recorded, funding, treasury, applied, settled, locks, reorgs, calls,
                 seq, outbox, delivered, published, drain>>

(* A step of a call that runs.                                             *)
Step(w) ==
  \/ RecordEvent(w) \/ BeginTx(w) \/ Commit(w) \/ Abort(w) \/ Restore(w)
  \/ CheckBalance(w) \/ GetOpenRequest(w) \/ RequestFunding(w)
  \/ EmitSeq(w) \/ EmitAppend(w)
  \/ \E f \in Requests : InsertRequest(w, f)

Next ==
  \/ \E w \in Handlers :
       \/ Step(w) \/ RecordEventFails(w) \/ ManualRequest(w) \/ Crash(w)
       \/ \E e \in Events : OnConfirmation(w, e) \/ OnReorg(w, Info[e].block)
       \/ \E op \in {"lock", "release"} : Lock(w, op)
  \/ \E f \in Requests, s \in FundingStates : TreasuryCallback(f, s)
  \/ "drain" \in calls /\ DrainNext /\ UNCHANGED ledgerVars

Spec == Init /\ [][Next]_vars

(* A call that runs goes on, since every call it makes has a timeout; the  *)
(* drainers' tickers fire.                                                 *)
Fairness ==
  /\ \A w \in Handlers : WF_vars(Step(w))
  /\ \A d \in Drainers :
       WF_vars("drain" \in calls /\ DrainStep(d) /\ UNCHANGED ledgerVars)

FairSpec == Spec /\ Fairness

-----------------------------------------------------------------------------
(* ApplyConfirmationEvent, ApplyReorgEvent, AddLocked and ReleaseLocked    *)
(* "do not lose updates", and no event is applied twice: the row is the    *)
(* sum of the committed events and locks, however calls interleave, fail   *)
(* and are repeated.                                                       *)
Conservation ==
  /\ bal.confirmed + bal.pending = Total([e \in Events |-> Info[e].amount], applied)
  /\ ParseDec(bal.locked) = locks

(* Every committed event has exactly one audit row and no other event has  *)
(* one, although ApplyConfirmationEvent ignores the error of Emit.         *)
AuditedOnce ==
  \A e \in Events :
    Cardinality({r \in outbox : r.what = e}) = IF e \in applied THEN 1 ELSE 0

(* last_block_seen never goes back, also when events arrive out of order   *)
(* or a slow transaction commits after a faster one.                       *)
BlockSeenMonotone == [][bal'.block >= bal.block]_vars

(* Concurrent evaluations and manual requests leave at most one open       *)
(* request, and the treasury hears of none that is not recorded.           *)
OneOpenRequest ==
  /\ Cardinality(OpenRequests) <= 1
  /\ \A f \in treasury : funding[f] # "ABSENT"

Book == INSTANCE BalanceBook
          WITH Amount <- [e \in Events |-> Info[e].amount],
               Final <- [e \in Events |-> IsConfirmed(e)],
               Tx <- [e \in Events |-> Info[e].tx],
               Block <- [e \in Events |-> Info[e].block],
               confirmed <- bal.confirmed, pending <- bal.pending,
               booked <- applied, waiting <- applied \ settled

(* The two steps in which the code is known to depart from the book: a     *)
(* reorg also demotes the confirmed value of other blocks, and an event    *)
(* that meets its threshold leaves what earlier events of its transaction  *)
(* added to pending where it is.                                           *)
Departs(w) ==
  /\ At(w, "commit")
  /\ \/ h[w].op = "reorg" /\ \E e \in settled : Info[e].block # h[w].block
     \/ /\ h[w].op = "confirm" /\ IsConfirmed(h[w].ev)
        /\ \E e \in applied \ settled : Info[e].tx = Info[h[w].ev].tx

(* Apart from these the row is the documented book: whatever calls overlap,*)
(* fail and repeat, each event and each reorg is entered at once, in full  *)
(* and once, in the column the book says, and nothing else moves value.    *)
ImplementsBook ==
  /\ Book!Init
  /\ [][Book!Next \/ \E w \in Handlers : Departs(w) /\ Commit(w)]_(Book!bookVars)

(* A wallet that a confirmed decrease left below the minimum gets a        *)
(* request or recovers, unless a call failed: the asynchronous evaluation  *)
(* reads the row later and competes with others, but is not lost.  A reorg *)
(* lowers the confirmed balance too and evaluates nothing.                 *)
LowIsRequested ==
  (\E e \in applied : Decreases(e)) /\ bal.confirmed < HotWalletMinBalance
    ~> \/ \E f \in Requests : funding[f] # "ABSENT"
       \/ bal.confirmed >= HotWalletMinBalance
       \/ faults > 0 \/ reorgs > 0

(* Where drainers run, audit rows are delivered in the end                 *)
(* (EventuallyDelivered), the ones emitted outside transactions included.  *)
AuditReachesLog ==
  "drain" \in calls => \A n \in 1..Cardinality(Subjects) : EventuallyDelivered(n)

(* A duplicate event is "already applied" when ApplyConfirmationEvent      *)
(* acknowledges it, or is being applied by another call.                   *)
DuplicateIsApplied ==
  \A e \in recorded \ applied :
    \E w \in Handlers : h[w].ev = e /\ h[w].pc \in {"begin", "commit"}
=============================================================================
