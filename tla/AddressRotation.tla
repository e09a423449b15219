-------------------------- MODULE AddressRotation --------------------------
(***************************************************************************)
(* The wallet service of package wallet: wallets, their state, and the     *)
(* current receive address of each, which is derived on first use and      *)
(* rotated when due or on demand, under a Redis lock per wallet.           *)
(*                                                                         *)
(* The wallets are on one chain, whose addresses share one xpub: the index *)
(* of an address is the address.  A caller runs one call of the service at *)
(* a time, with one step per call of the store or the lock.  A step may    *)
(* fail, a caller may die, and a lock may expire before it is released.    *)
(***************************************************************************)
EXTENDS SqlStore

CONSTANTS Wallets, Callers,
          Scenarios,      \* chains, wallets, operations and faults considered
          Retries,        \* attempts of deriveNewLocked (20)
          MaxIndex,       \* bound of the model on the address index
          None

ASSUME NoneAssumption == None \notin Nat \cup Callers

VARIABLES
  scenario, \* the chain, the wallets there may be, the operations called and
            \* the number of failed steps and crashes; never changed
  wallets,  \* table wallets
  addrs,    \* table addresses
  due,      \* addresses that are too old, or have received often enough
  lock,     \* Redis key lock:addr:<wallet>: None or the token's owner
  call,     \* the call each caller runs, with its locals
  faults

rotationVars == <<scenario, wallets, addrs, due, lock, call, faults>>

AllOperations == {"current", "force", "pause", "activate", "retire"}

(* Between Acquire and Release.                                            *)
Locked == {"recheck", "deprecate", "index", "solana", "insert"}

NoReply == [s |-> "ok", a |-> None]

(* A call's locals: pc is "done" when it has returned, old the address it   *)
(* read first, idx the one it derives, ret what it returns.  The last       *)
(* three are history: the addresses there were when the call began, those   *)
(* of them that were deprecated, and whether no other call has run since.   *)
IdleCall == [pc |-> "idle", op |-> None, w |-> None, old |-> None, idx |-> 0,
             tries |-> 0, ret |-> NoReply, seen |-> {}, dead |-> {}, alone |-> TRUE]

RotationInit ==
  /\ scenario \in Scenarios
  /\ wallets = <<>> /\ addrs = <<>> /\ due = {}
  /\ lock = [w \in Wallets |-> None]
  /\ call = [c \in Callers |-> IdleCall]
  /\ faults = 0

-----------------------------------------------------------------------------
At(c, label) == call[c].pc = label

Goto(c, label) == call' = [call EXCEPT ![c].pc = label]

(* The call is over and returns a reply, or still has a lock to release.   *)
Finish(c, reply) ==
  call' = [call EXCEPT ![c].ret = reply,
                       ![c].pc = IF @ \in Locked THEN "release" ELSE "done"]

Reply(s) == [s |-> s, a |-> None]

Running == {c \in Callers : call[c].pc \notin {"idle", "done"}}

(* Addresses that are no longer given out.                                 *)
Deprecated == {a \in DOMAIN addrs : addrs[a].state = "DEPRECATED"}

(* Mutant: the address derived last, in whatever state.                    *)
LatestAddress(w) ==
  {a \in DOMAIN addrs : addrs[a].wallet = w
                        /\ \A b \in DOMAIN addrs : addrs[b].wallet = w => b <= a}

ActiveAddress(w) == {r.index : r \in GetActiveAddress(addrs, w).r.v}

(* Address and index that DeriveAt gives for the index it is asked for.    *)
DeriveAt(i) == IF scenario.chain = "solana" THEN 0 ELSE i

-----------------------------------------------------------------------------
(* Create, with a key of its own; the arguments are valid.                 *)
Create(w) ==
  /\ w \in scenario.wallets \ DOMAIN wallets
  /\ wallets' = CreateWallet(wallets, w, [key |-> w, state |-> "ACTIVE"]).t
  /\ UNCHANGED <<scenario, addrs, due, lock, call, faults>>

(* DeriveAddress(force) and SetState begin.                                *)
Begin(c, w, op) ==
  /\ call[c].pc \in {"idle", "done"} /\ w \in DOMAIN wallets /\ op \in scenario.ops
  /\ \A i \in DOMAIN addrs : i + Cardinality(Running) < MaxIndex
  /\ call' = [x \in Callers |->
       IF x = c THEN [IdleCall EXCEPT !.pc = "wallet", !.op = op, !.w = w,
                        !.seen = DOMAIN addrs, !.dead = Deprecated,
                        !.alone = Running = {} /\ lock[w] = None]
       ELSE IF At(x, "done") THEN IdleCall ELSE [call[x] EXCEPT !.alone = FALSE]]
  /\ UNCHANGED <<scenario, wallets, addrs, due, lock, faults>>

(* GetWallet and the test on its state.                                    *)
ReadWallet(c) ==
  LET state == wallets[call[c].w].state  op == call[c].op IN
  /\ At(c, "wallet")
  /\ \/ op \in {"current", "force"} /\ state # "RETIRED" /\ Goto(c, "active")
     \/ op \in {"current", "force"} /\ state = "RETIRED" /\ Finish(c, Reply("retired"))
     \/ op \in {"pause", "activate"} /\ state = "RETIRED" /\ Finish(c, Reply("error"))
     \/ op = "retire" /\ Goto(c, "update")
     \/ op \in {"pause", "activate"} /\ state # "RETIRED" /\ Goto(c, "update")
  /\ UNCHANGED <<scenario, wallets, addrs, due, lock, faults>>

UpdateState(c) ==
  LET state == CASE call[c].op = "retire" -> "RETIRED" [] call[c].op = "pause" -> "PAUSED"
                 [] OTHER -> "ACTIVE" IN
  /\ At(c, "update")
  /\ wallets' = UpdateWalletState(wallets, call[c].w, state).t
  /\ Finish(c, NoReply)
  /\ UNCHANGED <<scenario, addrs, due, lock, faults>>

(* Mutant: a wallet without an active address is an error.                 *)
ReadActiveStrict(c) ==
  LET force == call[c].op = "force"  active == ActiveAddress(call[c].w) IN
  /\ At(c, "active")
  /\ \/ active = {} /\ IF force THEN Finish(c, Reply("error")) ELSE Goto(c, "spin")
     \/ \E a \in active :
          \/ /\ force \/ a \in due
             /\ call' = [call EXCEPT ![c].pc = "rotate", ![c].old = a]
          \/ ~force /\ a \notin due /\ Finish(c, [s |-> "ok", a |-> a])
  /\ UNCHANGED <<scenario, wallets, addrs, due, lock, faults>>

(* CurrentOrRotate and ForceRotate: GetActiveAddress, shouldRotate.        *)
ReadActive(c) ==
  LET force == call[c].op = "force"  active == ActiveAddress(call[c].w) IN
  /\ At(c, "active")
  /\ \/ active = {} /\ Goto(c, IF force THEN "first" ELSE "spin")
     \/ \E a \in active :
          \/ /\ force \/ a \in due
             /\ call' = [call EXCEPT ![c].pc = "rotate", ![c].old = a]
          \/ ~force /\ a \notin due /\ Finish(c, [s |-> "ok", a |-> a])
  /\ UNCHANGED <<scenario, wallets, addrs, due, lock, faults>>

(* Acquire: rotate and ForceRotate give up when it fails, deriveNewLocked  *)
(* looks again for an address and retries.                                 *)
AcquireOk(c) ==
  /\ call[c].pc \in {"rotate", "first", "spin"} /\ lock[call[c].w] = None
  /\ lock' = [lock EXCEPT ![call[c].w] = c]
  /\ Goto(c, CASE At(c, "rotate") -> "deprecate" [] At(c, "first") -> "index"
               [] OTHER -> "recheck")
  /\ UNCHANGED <<scenario, wallets, addrs, due, faults>>

AcquireBusy(c) ==
  /\ call[c].pc \in {"rotate", "first", "spin"} /\ lock[call[c].w] # None
  /\ IF At(c, "spin") THEN Goto(c, "peek") ELSE Finish(c, Reply("busy"))
  /\ UNCHANGED <<scenario, wallets, addrs, due, lock, faults>>

(* Mutant: the attempts are not counted.                                   *)
PeekForever(c) ==
  LET active == ActiveAddress(call[c].w) IN
  /\ At(c, "peek")
  /\ \/ \E a \in active : Finish(c, [s |-> "ok", a |-> a])
     \/ active = {} /\ Goto(c, "spin")
  /\ UNCHANGED <<scenario, wallets, addrs, due, lock, faults>>

Peek(c) ==
  LET active == ActiveAddress(call[c].w)  n == call[c].tries + 1 IN
  /\ At(c, "peek")
  /\ \/ \E a \in active : Finish(c, [s |-> "ok", a |-> a])
     \/ /\ active = {} /\ n < Retries
        /\ call' = [call EXCEPT ![c].pc = "spin", ![c].tries = n]
     \/ active = {} /\ n = Retries /\ Finish(c, Reply("busy"))
  /\ UNCHANGED <<scenario, wallets, addrs, due, lock, faults>>

Recheck(c) ==
  LET active == ActiveAddress(call[c].w) IN
  /\ At(c, "recheck")
  /\ \/ \E a \in active : Finish(c, [s |-> "ok", a |-> a])
     \/ active = {} /\ Goto(c, "index")
  /\ UNCHANGED <<scenario, wallets, addrs, due, lock, faults>>

(* rotate deprecates the address that was read before the lock was taken.  *)
Deprecate(c) ==
  /\ At(c, "deprecate")
  /\ addrs' = DeprecateAddress(addrs, call[c].old).t
  /\ Goto(c, "index")
  /\ UNCHANGED <<scenario, wallets, due, lock, faults>>

NextIndex(c) ==
  /\ At(c, "index")
  /\ \E i \in NextAddressIndex(addrs).r.v :
       call' = [call EXCEPT ![c].idx = DeriveAt(i),
                            ![c].pc = IF scenario.chain = "solana" THEN "solana" ELSE "insert"]
  /\ UNCHANGED <<scenario, wallets, addrs, due, lock, faults>>

(* Solana: ListAddresses, and DeprecateAddress on the first of them.       *)
DeprecateSolana(c) ==
  LET mine == {a \in DOMAIN addrs : addrs[a].wallet = call[c].w} IN
  /\ At(c, "solana")
  /\ addrs' = IF mine = {} THEN addrs ELSE DeprecateAddress(addrs, Min(mine)).t
  /\ Goto(c, "insert")
  /\ UNCHANGED <<scenario, wallets, due, lock, faults>>

(* The row's id is a fresh UUID; the address serves for it here, since no  *)
(* two rows have the same address.                                         *)
InsertRow(c) ==
  LET i == call[c].idx
      r == InsertAddress(addrs, i, [wallet |-> call[c].w, index |-> i, address |-> i,
                                        state |-> "ACTIVE", receives |-> 0]) IN
  /\ At(c, "insert")
  /\ addrs' = r.t
  /\ Finish(c, IF r.r.s = "ok" THEN [s |-> "ok", a |-> i] ELSE Reply("error"))
  /\ UNCHANGED <<scenario, wallets, due, lock, faults>>

(* Release: GET and compare, then DEL.                                     *)
ReleaseGet(c) ==
  /\ At(c, "release")
  /\ Goto(c, IF lock[call[c].w] = c THEN "delete" ELSE "done")
  /\ UNCHANGED <<scenario, wallets, addrs, due, lock, faults>>

ReleaseDel(c) ==
  /\ At(c, "delete")
  /\ lock' = [lock EXCEPT ![call[c].w] = None]
  /\ Goto(c, "done")
  /\ UNCHANGED <<scenario, wallets, addrs, due, faults>>

-----------------------------------------------------------------------------
(* A call of the store, the lock or the deriver fails; an error of Release *)
(* is ignored.                                                             *)
StepFails(c) ==
  /\ c \in Running /\ faults < scenario.faults
  /\ faults' = faults + 1
  /\ call' = [call EXCEPT ![c].alone = FALSE,
                ![c].ret = IF call[c].pc \in {"release", "delete"} THEN @ ELSE Reply("error"),
                ![c].pc = IF @ \in Locked THEN "release" ELSE "done"]
  /\ UNCHANGED <<scenario, wallets, addrs, due, lock>>

Crash(c) ==
  /\ c \in Running /\ faults < scenario.faults
  /\ faults' = faults + 1
  /\ call' = [call EXCEPT ![c] = IdleCall]
  /\ UNCHANGED <<scenario, wallets, addrs, due, lock>>

(* The TTL of ten seconds ends.                                            *)
LockExpires(w) ==
  /\ lock[w] # None
  /\ lock' = [lock EXCEPT ![w] = None]
  /\ UNCHANGED <<scenario, wallets, addrs, due, call, faults>>

(* An address passes its age or its number of receives.                    *)
BecomesDue(a) ==
  /\ "current" \in scenario.ops /\ a \notin due /\ a \in DOMAIN addrs /\ addrs[a].state = "ACTIVE"
  /\ due' = due \cup {a}
  /\ UNCHANGED <<scenario, wallets, addrs, lock, call, faults>>

Step(c) ==
  \/ ReadWallet(c) \/ UpdateState(c) \/ ReadActive(c) \/ AcquireOk(c) \/ AcquireBusy(c)
  \/ Peek(c) \/ Recheck(c) \/ Deprecate(c) \/ NextIndex(c) \/ DeprecateSolana(c)
  \/ InsertRow(c) \/ ReleaseGet(c) \/ ReleaseDel(c)

RotationNext ==
  \/ \E c \in Callers : \/ Step(c) \/ StepFails(c) \/ Crash(c)
                        \/ \E w \in Wallets, op \in AllOperations : Begin(c, w, op)
  \/ \E w \in Wallets : Create(w) \/ LockExpires(w)
  \/ \E a \in 0..MaxIndex : BecomesDue(a)

-----------------------------------------------------------------------------
Returned(c) == At(c, "done") /\ call[c].ret.a # None

(* A call returns an address of its wallet that nobody had deprecated when *)
(* the call began, whatever rotations ran meanwhile; one that was forced   *)
(* returns an address that did not exist then.                             *)
ReturnsUsable ==
  \A c \in Callers : Returned(c) =>
    LET x == call[c] IN
    /\ addrs[x.ret.a].wallet = x.w /\ x.ret.a \notin x.dead
    /\ x.op = "force" => x.ret.a \notin x.seen

(* A wallet that has its chain to itself keeps an active address through   *)
(* every race of rotations, expired locks included: without failed steps,  *)
(* it is without one only while a rotation runs.  (Two wallets may compute *)
(* the same index, and the loser has deprecated its address by then.)      *)
KeepsAddress ==
  \A w \in Wallets :
    (DOMAIN wallets = {w} /\ scenario.chain # "solana" /\ faults = 0
       /\ DOMAIN addrs # {} /\ Running = {})
    => ActiveAddress(w) # {}

(* Whatever earlier calls, crashes and failures have left behind, a call   *)
(* that has the wallet to itself succeeds on a wallet that is not retired. *)
LoneCallSucceeds ==
  \A c \in Callers :
    LET x == call[c] IN
    (At(c, "done") /\ x.op \in {"current", "force"} /\ x.alone
       /\ scenario.chain # "solana")
    => x.ret.s \in {"ok", "retired"}

(* deriveNew's comment on Solana: "if it already exists, return it".  A    *)
(* call that has the wallet to itself returns the address it already has.  *)
SolanaReturnsIt ==
  \A c \in Callers :
    LET x == call[c] IN
    (At(c, "done") /\ x.op \in {"current", "force"} /\ x.alone
       /\ scenario.chain = "solana" /\ x.seen = {0} /\ addrs[0].wallet = x.w)
    => x.ret = [s |-> "ok", a |-> 0]

(* Every call of the service returns.                                      *)
CallReturns == \A c \in Callers : c \in Running ~> c \notin Running
=============================================================================
