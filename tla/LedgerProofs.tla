---------------------------- MODULE LedgerProofs ----------------------------
(***************************************************************************)
(* For any handlers, drainers, events, requests, amounts and faults: the   *)
(* balance row implements the book but for the departures the module       *)
(* names, last_block_seen never goes back, every committed event is audited*)
(* once, sequence numbers are distinct, what is marked delivered was       *)
(* published, and at most one funding request is open.                     *)
(***************************************************************************)
EXTENDS Ledger, FiniteSetTheorems, TLAPS

USE EventAssumption, OutboxAssumption

(* Where a call can be, and the locals it has set by then.                 *)
OpOK(r) ==
  /\ r.pc = "record" => r.op = "confirm"
  /\ r.pc \in {"begin", "commit"} => r.op \in {"confirm", "reorg", "lock", "release"}
  /\ r.pc \in {"record", "begin", "commit"} /\ r.op = "confirm" => r.ev \in Events
  /\ r.pc = "treasury" => r.req \in Requests
  /\ r.pc \in {"seq", "append"} => r.what \in Requests \cup {"reorg"}

TypeInv == TypeOK /\ \A w \in Handlers : OpOK(h[w])

(* Handler w goes on as r, and all that may happen to another one is that  *)
(* its transaction can no longer commit.                                   *)
Moves(w, r) ==
  /\ h' \in [Handlers -> Handler]
  /\ h'[w] = r
  /\ \A v \in Handlers \ {w} : h'[v] \in {h[v], [h[v] EXCEPT !.fresh = FALSE]}

LEMMA IdleOK == Idle \in Handler /\ OpOK(Idle) /\ Idle.pc = "idle"
  BY DEF Idle, Handler, PC, NoBalance, Balance, OpOK

(* Assignments to the locals of a call.                                    *)
LEMMA Locals ==
  ASSUME NEW r \in Handler
  PROVE  /\ \A l \in PC : [r EXCEPT !.pc = l] \in Handler
         /\ \A b \in Balance : [r EXCEPT !.row = b] \in Handler
         /\ \A f \in BOOLEAN : [r EXCEPT !.fresh = f] \in Handler
         /\ \A f \in Requests : [r EXCEPT !.req = f] \in Handler
         /\ \A n \in Nat : [r EXCEPT !.n = n] \in Handler
         /\ \A x \in Subjects : [r EXCEPT !.what = x] \in Handler
  BY DEF Handler

LEMMA BecomeMoves ==
  ASSUME TypeOK, NEW w \in Handlers, NEW r \in Handler, Become(w, r)
  PROVE  Moves(w, r)
  BY DEF TypeOK, Become, Moves

LEMMA Others ==
  ASSUME TypeOK, NEW w \in Handlers, NEW r, Moves(w, r), NEW v \in Handlers \ {w}
  PROVE  /\ h'[v].pc = h[v].pc /\ h'[v].op = h[v].op /\ h'[v].ev = h[v].ev
         /\ h'[v].row = h[v].row /\ h'[v].req = h[v].req /\ h'[v].n = h[v].n
         /\ h'[v].what = h[v].what /\ (h'[v].fresh => h[v].fresh)
<1>1. h[v] \in Handler
  BY DEF TypeOK
<1>2. QED
  BY <1>1 DEF Moves, Handler

LEMMA TypePreserve ==
  ASSUME TypeInv, NEW w \in Handlers, NEW r \in Handler, OpOK(r), Moves(w, r),
         bal' \in Balance, recorded' \subseteq Events,
         funding' \in [Requests -> FundingStates], treasury' \subseteq Requests,
         applied' \subseteq Events, settled' \subseteq applied', locks' \in Nat, reorgs' \in 0..MaxReorgs,
         calls' = calls, OutboxTypeOK(Subjects)'
  PROVE  TypeInv'
<1>1. TypeOK'
  BY DEF TypeInv, TypeOK, Moves
<1>2. ASSUME NEW v \in Handlers PROVE OpOK(h'[v])
  <2>1. CASE v = w
    BY <2>1 DEF Moves
  <2>2. CASE v # w
    BY <2>2, Others DEF TypeInv, OpOK
  <2>3. QED
    BY <2>1, <2>2
<1>3. QED
  BY <1>1, <1>2 DEF TypeInv

(* The amounts the three read-modify-writes produce are well formed.       *)
LEMMA UpdatedType ==
  ASSUME NEW r \in Handler, OpOK(r), r.pc = "commit"
  PROVE  Updated(r) \in Balance
<1>1. r.row \in Balance
  BY DEF Handler
<1>2. CASE r.op = "confirm"
  <2>1. r.ev \in Events
    BY <1>2 DEF OpOK
  <2>2. Info[r.ev].amount \in Int /\ Info[r.ev].block \in Nat
    BY <2>1
  <2>3. ApplyConfirmation(r.row, r.ev) \in Balance
    BY <1>1, <2>2 DEF ApplyConfirmation, Balance, Max64
  <2>4. QED
    BY <1>2, <2>3 DEF Updated
<1>3. CASE r.op = "reorg"
  <2>1. ApplyReorg(r.row) \in Balance
    <3>1. r.row.pending + r.row.confirmed \in Int
      BY <1>1 DEF Balance
    <3>2. [r.row EXCEPT !.confirmed = 0] \in Balance
      BY <1>1 DEF Balance
    <3>3. ASSUME NEW b \in Balance, NEW x \in Int
          PROVE  [b EXCEPT !.pending = x] \in Balance
      BY DEF Balance
    <3>4. QED
      BY <3>1, <3>2, <3>3, ZenonT(30) DEF ApplyReorg
  <2>2. QED
    BY <1>3, <2>1 DEF Updated
<1>4. CASE r.op = "lock"
  <2>1. AddLocked(r.row.locked) \in Nat
    BY <1>1 DEF AddLocked, ParseDec, Balance
  <2>2. QED
    BY <1>1, <1>4, <2>1 DEF Updated, Balance
<1>5. CASE r.op = "release"
  <2>1. ReleaseLocked(r.row.locked) \in Nat
    BY <1>1 DEF ReleaseLocked, ParseDec, Max64, Balance
  <2>2. QED
    BY <1>1, <1>5, <2>1 DEF Updated, Balance
<1>6. QED
  BY <1>2, <1>3, <1>4, <1>5 DEF OpOK

-----------------------------------------------------------------------------
(* Facts about a handler and the tables, from the type invariant.          *)
LEMMA Typed ==
  ASSUME TypeInv, NEW w \in Handlers
  PROVE  /\ h[w] \in Handler /\ OpOK(h[w])
         /\ bal \in Balance /\ recorded \subseteq Events
         /\ funding \in [Requests -> FundingStates] /\ treasury \subseteq Requests
         /\ applied \subseteq Events /\ settled \subseteq applied
         /\ locks \in Nat /\ reorgs \in 0..MaxReorgs
         /\ seq \in Nat /\ outbox \subseteq [seq : Nat, what : Subjects]
         /\ faults \in 0..MaxFaults
  BY DEF TypeInv, TypeOK, OutboxTypeOK

(* The outbox when only its counter, its rows and the faults move.         *)
LEMMA OutboxPreserve ==
  ASSUME TypeInv, UNCHANGED <<delivered, published, drain>>, seq' \in Nat,
         outbox' \subseteq [seq : Nat, what : Subjects],
         faults' = faults \/ Fault
  PROVE  OutboxTypeOK(Subjects)'
  BY DEF TypeInv, TypeOK, OutboxTypeOK, Fault

(* The calls that start.                                                   *)
LEMMA StartTypes ==
  ASSUME TypeInv, NEW w \in Handlers,
         \/ \E e \in Events : OnConfirmation(w, e) \/ OnReorg(w, Info[e].block)
         \/ ManualRequest(w)
         \/ \E op \in {"lock", "release"} : Lock(w, op)
  PROVE  TypeInv'
<1> USE Typed
<1>0. outboxVars' = outboxVars => OutboxTypeOK(Subjects)'
  BY OutboxPreserve DEF outboxVars
<1>1. ASSUME NEW e \in Events, OnConfirmation(w, e) PROVE TypeInv'
  <2> DEFINE r == [Idle EXCEPT !.pc = "record", !.op = "confirm", !.ev = e]
  <2>1. r \in Handler /\ OpOK(r)
    BY IdleOK, ZenonT(30) DEF Handler, PC, Ops, OpOK
  <2>2. QED
    BY <1>0, <1>1, <2>1, BecomeMoves, TypePreserve, ZenonT(30) DEF OnConfirmation, TypeInv
<1>2. ASSUME NEW e \in Events, OnReorg(w, Info[e].block) PROVE TypeInv'
  <2> DEFINE r == [Idle EXCEPT !.pc = "begin", !.op = "reorg", !.block = Info[e].block]
  <2>1. r \in Handler /\ OpOK(r)
    BY IdleOK, ZenonT(30) DEF Handler, PC, Ops, OpOK
  <2>2. reorgs' \in 0..MaxReorgs
    <3>1. reorgs < MaxReorgs /\ reorgs' = reorgs + 1
      BY <1>2, Zenon DEF OnReorg
    <3>2. QED
      BY <3>1
  <2>3. QED
    BY <1>0, <1>2, <2>1, <2>2, BecomeMoves, TypePreserve, ZenonT(30) DEF OnReorg, TypeInv
<1>3. CASE ManualRequest(w)
  <2> DEFINE r == [Idle EXCEPT !.pc = "open", !.op = "fund"]
  <2>1. r \in Handler /\ OpOK(r)
    BY IdleOK, ZenonT(30) DEF Handler, PC, Ops, OpOK
  <2>2. QED
    BY <1>0, <1>3, <2>1, BecomeMoves, TypePreserve DEF ManualRequest, TypeInv
<1>4. ASSUME NEW op \in {"lock", "release"}, Lock(w, op) PROVE TypeInv'
  <2> DEFINE r == [Idle EXCEPT !.pc = "begin", !.op = op]
  <2>1. r \in Handler /\ OpOK(r)
    BY IdleOK, ZenonT(30) DEF Handler, PC, Ops, OpOK
  <2>2. QED
    BY <1>0, <1>4, <2>1, BecomeMoves, TypePreserve DEF Lock, TypeInv
<1>5. QED
  BY <1>1, <1>2, <1>3, <1>4

(* The steps that write neither the balance row nor the outbox.            *)
LEMMA PlainTypes ==
  ASSUME TypeInv, NEW w \in Handlers,
         \/ RecordEvent(w) \/ RecordEventFails(w) \/ BeginTx(w) \/ Abort(w)
         \/ Restore(w) \/ CheckBalance(w) \/ GetOpenRequest(w) \/ RequestFunding(w)
         \/ Crash(w) \/ \E f \in Requests : InsertRequest(w, f)
  PROVE  TypeInv'
<1> USE Typed
<1>0. /\ UNCHANGED <<seq, outbox, delivered, published, drain>>
      /\ faults' = faults \/ Fault
      /\ UNCHANGED <<bal, applied, settled, locks, reorgs, calls>>
  BY ZenonT(30) DEF RecordEvent, RecordEventFails, BeginTx, Abort, Restore, CheckBalance,
         GetOpenRequest, RequestFunding, Crash, InsertRequest, outboxVars
<1>1. OutboxTypeOK(Subjects)'
  BY <1>0, OutboxPreserve
<1>2. /\ recorded' \subseteq Events /\ treasury' \subseteq Requests
      /\ funding' \in [Requests -> FundingStates]
  <2>1. At(w, "record") => h[w].ev \in Events
    BY DEF At, OpOK
  <2>2. At(w, "treasury") => h[w].req \in Requests
    BY DEF At, OpOK
  <2>3. "REQUESTED" \in FundingStates
    BY DEF FundingStates
  <2>4. QED
    <3>1. CASE RecordEvent(w) \/ RecordEventFails(w)
      BY <2>1, <3>1 DEF RecordEvent, RecordEventFails
    <3>2. CASE RequestFunding(w)
      BY <2>2, <3>2 DEF RequestFunding
    <3>3. CASE \E f \in Requests : InsertRequest(w, f)
      <4>1. PICK f \in Requests : InsertRequest(w, f)
        BY <3>3
      <4>2. funding' \in {funding, [funding EXCEPT ![f] = "REQUESTED"]}
        BY <4>1, ZenonT(30) DEF InsertRequest
      <4>3. funding' \in [Requests -> FundingStates]
        BY <2>3, <4>2
      <4>4. QED
        BY <4>1, <4>3, ZenonT(30) DEF InsertRequest
    <3>4. QED
      BY <3>1, <3>2, <3>3
      DEF BeginTx, Abort, Restore, CheckBalance, GetOpenRequest, Crash
<1>3. \E r \in Handler : OpOK(r) /\ Become(w, r)
  <2>1. CASE Return(w)
    BY <2>1, IdleOK DEF Return
  <2>2. ASSUME NEW l \in {"begin", "restore", "open", "insert"}, Goto(w, l),
               l = "begin" => At(w, "record")
        PROVE  \E r \in Handler : OpOK(r) /\ Become(w, r)
    <3> DEFINE r == [h[w] EXCEPT !.pc = l]
    <3>1. r \in Handler /\ OpOK(r)
      BY <2>2 DEF Handler, PC, OpOK, At
    <3>2. QED
      BY <2>2, <3>1 DEF Goto
  <2>3. CASE BeginTx(w) /\ (bal.exists \/ h[w].op = "confirm")
    <3> DEFINE r == [h[w] EXCEPT !.pc = "commit", !.row = bal, !.fresh = TRUE]
    <3>1. r \in Handler
      <4>1. [h[w] EXCEPT !.pc = "commit"] \in Handler
        BY Locals, ZenonT(30) DEF PC
      <4>2. [[h[w] EXCEPT !.pc = "commit"] EXCEPT !.row = bal] \in Handler
        BY <4>1, Locals, ZenonT(30)
      <4>3. QED
        BY <4>2, Locals, ZenonT(30)
    <3>2. OpOK(r)
      BY <2>3 DEF BeginTx, OpOK, At, Handler
    <3>3. QED
      BY <2>3, <3>1, <3>2 DEF BeginTx
  <2>4. ASSUME NEW x \in Requests \cup {"reorg"},
               Become(w, [h[w] EXCEPT !.pc = "seq", !.what = x])
        PROVE  \E r \in Handler : OpOK(r) /\ Become(w, r)
    <3> DEFINE r == [h[w] EXCEPT !.pc = "seq", !.what = x]
    <3>1. r \in Handler
      <4>1. [h[w] EXCEPT !.pc = "seq"] \in Handler
        BY Locals, ZenonT(30) DEF PC
      <4>2. QED
        BY <4>1, Locals, ZenonT(30) DEF Subjects
    <3>2. OpOK(r)
      BY DEF OpOK, Handler
    <3>3. QED
      BY <2>4, <3>1, <3>2
  <2>5. ASSUME NEW f \in Requests, Become(w, [h[w] EXCEPT !.pc = "treasury", !.req = f])
        PROVE  \E r \in Handler : OpOK(r) /\ Become(w, r)
    <3> DEFINE r == [h[w] EXCEPT !.pc = "treasury", !.req = f]
    <3>1. r \in Handler
      <4>1. [h[w] EXCEPT !.pc = "treasury"] \in Handler
        BY Locals, ZenonT(30) DEF PC
      <4>2. QED
        BY <4>1, Locals, ZenonT(30)
    <3>2. OpOK(r)
      BY DEF OpOK, Handler
    <3>3. QED
      BY <2>5, <3>1, <3>2
  <2>6. CASE RequestFunding(w) /\ ~Return(w)
    <3>1. h[w].req \in Requests
      BY <2>6 DEF RequestFunding, At, OpOK
    <3>2. QED
      BY <2>4, <2>6, <3>1, ZenonT(30) DEF RequestFunding
  <2>7. QED
    BY <2>1, <2>2, <2>3, <2>4, <2>5, <2>6, ZenonT(30)
    DEF RecordEvent, RecordEventFails, BeginTx, Abort, Restore, CheckBalance,
        GetOpenRequest, RequestFunding, Crash, InsertRequest
<1>4. QED
  BY <1>0, <1>1, <1>2, <1>3, BecomeMoves, TypePreserve DEF TypeInv

(* A step that spoils open transactions.                                   *)
LEMMA SpoilMoves ==
  ASSUME TypeOK, NEW w \in Handlers, NEW r \in Handler, NEW g, h' = [v \in Handlers |-> g[v]],
         g[w] = r,
         \A v \in Handlers \ {w} : g[v] \in {h[v], [h[v] EXCEPT !.fresh = FALSE]}
  PROVE  Moves(w, r)
<1>1. \A v \in Handlers : h[v] \in Handler /\ [h[v] EXCEPT !.fresh = FALSE] \in Handler
  BY Locals, ZenonT(30) DEF TypeOK
<1>2. QED
  BY <1>1, ZenonT(30) DEF Moves

LEMMA AfterCommitOK ==
  ASSUME NEW r
  PROVE  /\ AfterCommit(r) \in Handler /\ OpOK(AfterCommit(r))
         /\ AfterCommit(r).pc \in {"check", "restore", "idle"}
<1>1. [Idle EXCEPT !.pc = "check", !.op = "fund"] \in Handler
  BY IdleOK, ZenonT(30) DEF Handler, PC, Ops
<1>2. [Idle EXCEPT !.pc = "restore", !.op = "reorg"] \in Handler
  BY IdleOK, ZenonT(30) DEF Handler, PC, Ops
<1>3. /\ AfterCommit(r) \in {Idle, [Idle EXCEPT !.pc = "check", !.op = "fund"],
                             [Idle EXCEPT !.pc = "restore", !.op = "reorg"]}
  BY DEF AfterCommit
<1>4. /\ [Idle EXCEPT !.pc = "check", !.op = "fund"].pc = "check"
      /\ [Idle EXCEPT !.pc = "restore", !.op = "reorg"].pc = "restore"
  BY DEF Idle
<1>5. QED
  BY <1>1, <1>2, <1>3, <1>4, IdleOK, ZenonT(30) DEF OpOK

LEMMA CommitMoves ==
  ASSUME TypeInv, NEW w \in Handlers, Commit(w)
  PROVE  Moves(w, AfterCommit(h[w]))
<1> DEFINE r == AfterCommit(h[w])
<1>1. /\ h' = [v \in Handlers |-> h'[v]] /\ h'[w] = r
      /\ \A v \in Handlers \ {w} : h'[v] \in {h[v], [h[v] EXCEPT !.fresh = FALSE]}
  <2> HIDE DEF r
  <2> QED
    BY DEF Commit, CommitGuarded, BecomeAndSpoil, r
<1>2. r \in Handler /\ TypeOK
  BY AfterCommitOK DEF TypeInv
<1>3. QED
  BY <1>1, <1>2, SpoilMoves

LEMMA EmitSeqMoves ==
  ASSUME TypeInv, NEW w \in Handlers, EmitSeq(w)
  PROVE  /\ [h[w] EXCEPT !.pc = "append", !.n = NextAuditSeq] \in Handler
         /\ Moves(w, [h[w] EXCEPT !.pc = "append", !.n = NextAuditSeq])
<1> DEFINE r == [h[w] EXCEPT !.pc = "append", !.n = NextAuditSeq]
<1>1. r \in Handler
  <2>1. [h[w] EXCEPT !.pc = "append"] \in Handler
    BY Typed, Locals, ZenonT(30) DEF PC
  <2>2. NextAuditSeq \in Nat
    BY Typed DEF NextAuditSeq
  <2>3. QED
    BY <2>1, <2>2, Locals, ZenonT(30)
<1>2. /\ h' = [v \in Handlers |-> h'[v]] /\ h'[w] = r
      /\ \A v \in Handlers \ {w} : h'[v] \in {h[v], [h[v] EXCEPT !.fresh = FALSE]}
  BY DEF EmitSeq, BecomeAndSpoil
<1>3. TypeOK
  BY DEF TypeInv
<1>4. Moves(w, r)
  <2> HIDE DEF r
  <2> QED
    BY <1>1, <1>2, <1>3, SpoilMoves
<1>5. QED
  BY <1>1, <1>4

(* The steps that write the balance row or the outbox.                     *)
LEMMA WriteTypes ==
  ASSUME TypeInv, NEW w \in Handlers, Commit(w) \/ EmitSeq(w) \/ EmitAppend(w)
  PROVE  TypeInv'
<1> USE Typed
<1>0. UNCHANGED <<delivered, published, drain, faults>>
  BY DEF Commit, CommitGuarded, EmitSeq, EmitAppend
<1>1. CASE Commit(w)
  <2>1. At(w, "commit") /\ bal' = Updated(h[w])
    BY <1>1 DEF Commit, CommitGuarded
  <2>2. bal' \in Balance
    BY <2>1, UpdatedType DEF At
  <2>3. locks' \in Nat
    <3>1. AddLocked(locks) \in Nat /\ ReleaseLocked(locks) \in Nat
      BY DEF AddLocked, ReleaseLocked, ParseDec, Max64
    <3>2. QED
      BY <1>1, <3>1 DEF Commit, CommitGuarded
  <2>4. /\ applied' \subseteq Events /\ settled' \subseteq applied' /\ seq' \in Nat
        /\ outbox' \subseteq [seq : Nat, what : Subjects]
    <3>1. h[w].op = "confirm" => h[w].ev \in Events
      BY <2>1 DEF At, OpOK
    <3>2. NextAuditSeq \in Nat
      BY DEF NextAuditSeq
    <3>3. QED
      BY <1>1, <3>1, <3>2 DEF Commit, CommitGuarded, AuditRow, Subjects
  <2>5. OutboxTypeOK(Subjects)'
    BY <1>0, <2>4, OutboxPreserve
  <2>6. UNCHANGED <<recorded, funding, treasury, reorgs, calls>>
    BY <1>1 DEF Commit, CommitGuarded
  <2>7. QED
    BY <1>1, <2>2, <2>3, <2>4, <2>5, <2>6, CommitMoves, AfterCommitOK, TypePreserve
<1>2. CASE EmitSeq(w)
  <2> DEFINE r == [h[w] EXCEPT !.pc = "append", !.n = NextAuditSeq]
  <2>1. r \in Handler /\ Moves(w, r)
    BY <1>2, EmitSeqMoves, ZenonT(30)
  <2>2. OpOK(r)
    BY <1>2 DEF EmitSeq, At, OpOK, Handler
  <2>3. /\ seq' \in Nat /\ outbox' = outbox
        /\ UNCHANGED <<bal, recorded, funding, treasury, applied, settled, locks, reorgs, calls>>
    BY <1>2 DEF EmitSeq, NextAuditSeq
  <2>4. OutboxTypeOK(Subjects)'
    BY <1>0, <2>3, OutboxPreserve
  <2> HIDE DEF r
  <2>5. QED
    BY <2>1, <2>2, <2>3, <2>4, TypePreserve
<1>3. CASE EmitAppend(w)
  <2>1. h[w].n \in Nat /\ h[w].what \in Subjects
    BY <1>3 DEF EmitAppend, At, OpOK, Handler, Subjects
  <2>2. outbox' \subseteq [seq : Nat, what : Subjects]
    BY <1>3, <2>1 DEF EmitAppend, AuditRow
  <2>3. seq' = seq /\ Become(w, Idle)
        /\ UNCHANGED <<bal, recorded, funding, treasury, applied, settled, locks, reorgs, calls>>
    BY <1>3 DEF EmitAppend, Return
  <2>4. OutboxTypeOK(Subjects)'
    BY <1>0, <2>2, <2>3, OutboxPreserve
  <2>5. QED
    BY <2>3, <2>4, IdleOK, BecomeMoves, TypePreserve DEF TypeInv
<1>4. QED
  BY <1>1, <1>2, <1>3

(* Rows and numbers that the drainers work on.                             *)
LEMMA DrainTypes ==
  ASSUME TypeInv, DrainNext, UNCHANGED ledgerVars
  PROVE  TypeInv'
<1>1. UNCHANGED <<seq, outbox>>
  BY DEF DrainNext, DrainStep, DrainList, DrainDeliver, DrainMark, DrainDeliverFails,
         DrainStops
<1>2. OutboxTypeOK(Subjects)'
  <2> USE DEF TypeInv, TypeOK, OutboxTypeOK
  <2>1. PICK d \in Drainers : DrainStep(d) \/ DrainDeliverFails(d) \/ DrainStops(d)
    BY DEF DrainNext
  <2>2. Seqs \subseteq Nat
    BY DEF Seqs
  <2>3. Resting \in [pc : {"wait", "deliver", "mark"}, batch : SUBSET Nat]
    BY DEF Resting
  <2>4. CASE DrainList(d)
    BY <1>1, <2>2, <2>4, ZenonT(30) DEF DrainList, ListUndelivered
  <2>5. CASE DrainDeliver(d)
    <3>1. drain[d].batch \subseteq Nat
      OBVIOUS
    <3>2. [drain[d] EXCEPT !.pc = "mark"]
             \in [pc : {"wait", "deliver", "mark"}, batch : SUBSET Nat]
      OBVIOUS
    <3>3. drain' \in [Drainers -> [pc : {"wait", "deliver", "mark"}, batch : SUBSET Nat]]
      BY <2>5, <3>2 DEF DrainDeliver
    <3>4. QED
      BY <1>1, <2>5, <3>1, <3>3 DEF DrainDeliver
  <2>6. CASE DrainMark(d)
    <3>1. PICK n \in drain[d].batch :
            /\ delivered' = delivered \cup {n}
            /\ drain' = [drain EXCEPT ![d] =
                           IF drain[d].batch = {n} THEN Resting
                           ELSE [pc |-> "mark", batch |-> drain[d].batch \ {n}]]
      BY <2>6, ZenonT(30) DEF DrainMark
    <3>2. n \in Nat /\ drain[d].batch \ {n} \subseteq Nat
      OBVIOUS
    <3>3. drain' \in [Drainers -> [pc : {"wait", "deliver", "mark"}, batch : SUBSET Nat]]
      BY <2>3, <3>1, <3>2
    <3>4. QED
      BY <1>1, <2>6, <3>1, <3>2, <3>3 DEF DrainMark
  <2>7. CASE DrainDeliverFails(d) \/ DrainStops(d)
    <3>1. drain' = [drain EXCEPT ![d] = Resting] /\ faults' \in 0..MaxFaults
      BY <2>7 DEF DrainDeliverFails, DrainStops, Fault
    <3>2. published' \subseteq published \cup drain[d].batch /\ delivered' = delivered
      BY <2>7, ZenonT(30) DEF DrainDeliverFails, DrainStops
    <3>3. QED
      BY <1>1, <2>3, <3>1, <3>2
  <2>8. QED
    BY <2>1, <2>4, <2>5, <2>6, <2>7 DEF DrainStep
<1>3. QED
  BY <1>2 DEF TypeInv, TypeOK, ledgerVars, OpOK

LEMMA InitTypes == Init => TypeInv
<1> SUFFICES ASSUME Init PROVE TypeInv
  OBVIOUS
<1>1. bal \in Balance
  <2>1. NoBalance \in Balance
    BY DEF NoBalance, Balance
  <2>2. [NoBalance EXCEPT !.exists = TRUE] \in Balance
    BY <2>1, ZenonT(30) DEF Balance
  <2>3. [[NoBalance EXCEPT !.exists = TRUE] EXCEPT !.locked = 0] \in Balance
    BY <2>2, ZenonT(30) DEF Balance
  <2>4. QED
    BY <2>1, <2>3 DEF Init
<1>2. OutboxTypeOK(Subjects)
  BY DEF Init, OutboxInit, OutboxTypeOK, Resting
<1>3. QED
  BY <1>1, <1>2, IdleOK DEF Init, TypeInv, TypeOK, FundingStates

LEMMA NextTypes == TypeInv /\ [Next]_vars => TypeInv'
<1> SUFFICES ASSUME TypeInv, [Next]_vars PROVE TypeInv'
  OBVIOUS
<1>1. CASE UNCHANGED vars
  BY <1>1 DEF vars, ledgerVars, outboxVars, TypeInv, TypeOK, OutboxTypeOK, OpOK
<1>2. ASSUME NEW w \in Handlers, Step(w) PROVE TypeInv'
  BY <1>2, PlainTypes, WriteTypes DEF Step
<1>3. ASSUME NEW f \in Requests, NEW s \in FundingStates, TreasuryCallback(f, s)
      PROVE  TypeInv'
  <2>1. funding' \in [Requests -> FundingStates]
    BY <1>3 DEF TreasuryCallback, TypeInv, TypeOK
  <2>2. QED
    BY <1>3, <2>1 DEF TreasuryCallback, outboxVars, TypeInv, TypeOK, OutboxTypeOK, OpOK
<1>4. QED
  BY <1>1, <1>2, <1>3, StartTypes, PlainTypes, DrainTypes DEF Next

-----------------------------------------------------------------------------
(* A handler that neither books an event nor holds a snapshot, a sequence  *)
(* number or a request.                                                    *)
Booking(r) == r.pc \in {"begin", "commit"} /\ r.op = "confirm"

Calm(r) == r.pc \notin {"commit", "append", "treasury"} /\ ~Booking(r)

LEMMA CalmSteps ==
  ASSUME TypeInv, NEW w \in Handlers,
         \/ \E e \in Events : OnConfirmation(w, e) \/ OnReorg(w, Info[e].block)
         \/ ManualRequest(w)
         \/ \E op \in {"lock", "release"} : Lock(w, op)
         \/ RecordEvent(w) /\ h[w].ev \in recorded
         \/ RecordEventFails(w)
         \/ BeginTx(w) /\ ~(bal.exists \/ h[w].op = "confirm")
         \/ Commit(w) \/ Abort(w) \/ Restore(w) \/ CheckBalance(w) \/ GetOpenRequest(w)
         \/ RequestFunding(w) \/ EmitAppend(w) \/ Crash(w)
         \/ \E f \in Requests : InsertRequest(w, f) /\ OpenRequests # {}
  PROVE  \E r \in Handler : Moves(w, r) /\ Calm(r)
<1> USE Typed
<1>0. TypeOK
  BY DEF TypeInv
<1>1. ASSUME NEW r \in Handler, Become(w, r), Calm(r)
      PROVE  \E q \in Handler : Moves(w, q) /\ Calm(q)
  BY <1>0, <1>1, BecomeMoves
<1>2. CASE Return(w)
  BY <1>1, <1>2, IdleOK DEF Return, Calm, Booking
<1>3. ASSUME NEW e \in Events, OnConfirmation(w, e)
      PROVE  \E q \in Handler : Moves(w, q) /\ Calm(q)
  <2> DEFINE r == [Idle EXCEPT !.pc = "record", !.op = "confirm", !.ev = e]
  <2>1. r \in Handler /\ Calm(r)
    BY IdleOK, ZenonT(30) DEF Handler, PC, Ops, Calm, Booking
  <2>2. QED
    BY <1>1, <1>3, <2>1, ZenonT(30) DEF OnConfirmation
<1>4. ASSUME NEW l \in {"begin", "open"}, NEW op \in {"fund", "lock", "release"},
             Become(w, [Idle EXCEPT !.pc = l, !.op = op])
      PROVE  \E q \in Handler : Moves(w, q) /\ Calm(q)
  <2> DEFINE r == [Idle EXCEPT !.pc = l, !.op = op]
  <2>1. r \in Handler /\ Calm(r)
    BY IdleOK, ZenonT(30) DEF Handler, PC, Ops, Calm, Booking
  <2>2. QED
    BY <1>1, <1>4, <2>1
<1>5. ASSUME NEW l \in {"restore", "open", "insert"}, Goto(w, l)
      PROVE  \E q \in Handler : Moves(w, q) /\ Calm(q)
  <2> DEFINE r == [h[w] EXCEPT !.pc = l]
  <2>1. r \in Handler /\ Calm(r)
    BY DEF Handler, PC, Calm, Booking
  <2>2. QED
    BY <1>1, <1>5, <2>1 DEF Goto
<1>6. ASSUME NEW x \in Subjects, Become(w, [h[w] EXCEPT !.pc = "seq", !.what = x])
      PROVE  \E q \in Handler : Moves(w, q) /\ Calm(q)
  <2> DEFINE r == [h[w] EXCEPT !.pc = "seq", !.what = x]
  <2>1. [h[w] EXCEPT !.pc = "seq"] \in Handler
    BY Locals, ZenonT(30) DEF PC
  <2>2. r \in Handler
    BY <2>1, Locals, ZenonT(30)
  <2>3. Calm(r)
    BY DEF Handler, Calm, Booking
  <2>4. QED
    BY <1>1, <1>6, <2>2, <2>3
<1>7. CASE Commit(w)
  <2>1. AfterCommit(h[w]) \in Handler /\ Calm(AfterCommit(h[w]))
    BY AfterCommitOK DEF Calm, Booking
  <2>2. QED
    BY <1>7, <2>1, CommitMoves
<1>8. CASE RequestFunding(w)
  <2>1. h[w].req \in Subjects
    BY <1>8 DEF RequestFunding, At, OpOK, Subjects
  <2>2. QED
    BY <1>2, <1>6, <1>8, <2>1, ZenonT(30) DEF RequestFunding
<1>9. CASE Restore(w)
  BY <1>2, <1>6, <1>9, ZenonT(30) DEF Restore, Subjects
<1>10. CASE \/ ManualRequest(w)
            \/ \E op \in {"lock", "release"} : Lock(w, op)
  BY <1>4, <1>10 DEF ManualRequest, Lock
<1>11. ASSUME NEW e \in Events, OnReorg(w, Info[e].block)
       PROVE  \E q \in Handler : Moves(w, q) /\ Calm(q)
  <2> DEFINE r == [Idle EXCEPT !.pc = "begin", !.op = "reorg", !.block = Info[e].block]
  <2>1. r \in Handler /\ Calm(r)
    BY IdleOK, ZenonT(30) DEF Handler, PC, Ops, Calm, Booking
  <2>2. QED
    BY <1>1, <1>11, <2>1, ZenonT(30) DEF OnReorg
<1>12. QED
  BY <1>2, <1>3, <1>5, <1>7, <1>8, <1>9, <1>10, <1>11, ZenonT(30)
  DEF RecordEvent, RecordEventFails, BeginTx, Abort, CheckBalance, GetOpenRequest,
      EmitAppend, Crash, InsertRequest

LEMMA InsertMoves ==
  ASSUME TypeInv, NEW w \in Handlers, NEW f \in Requests, InsertRequest(w, f),
         OpenRequests = {}
  PROVE  /\ [h[w] EXCEPT !.pc = "treasury", !.req = f] \in Handler
         /\ Moves(w, [h[w] EXCEPT !.pc = "treasury", !.req = f])
<1> DEFINE r == [h[w] EXCEPT !.pc = "treasury", !.req = f]
<1>1. [h[w] EXCEPT !.pc = "treasury"] \in Handler
  BY Typed, Locals, ZenonT(30) DEF PC
<1>2. r \in Handler
  BY <1>1, Locals, ZenonT(30)
<1>3. QED
  BY <1>2, BecomeMoves DEF InsertRequest, TypeInv

-----------------------------------------------------------------------------
(* An event is booked at most once: one that is being booked is recorded   *)
(* and not applied, and only one call books it.  A transaction that can    *)
(* still commit has read the current row.                                  *)
EventInv ==
  /\ applied \subseteq recorded
  /\ \A w \in Handlers : Booking(h[w]) => h[w].ev \in recorded \ applied
  /\ \A w, v \in Handlers :
       w # v /\ Booking(h[w]) /\ Booking(h[v]) => h[w].ev # h[v].ev
  /\ \A w \in Handlers : h[w].pc = "commit" /\ h[w].fresh => h[w].row = bal

LEMMA InitEvents == Init => EventInv
  BY DEF Init, EventInv, Idle, Booking

(* A step of w that commits nothing.                                       *)
LEMMA EventPreserve ==
  ASSUME TypeInv, EventInv, NEW w \in Handlers, NEW r, Moves(w, r),
         bal' = bal, applied' = applied, recorded \subseteq recorded',
         Booking(r) => /\ r.ev \in recorded' \ applied
                       /\ \A v \in Handlers \ {w} : Booking(h[v]) => h[v].ev # r.ev,
         r.pc = "commit" /\ r.fresh => r.row = bal
  PROVE  EventInv'
<1>1. h'[w] = r
  BY DEF Moves
<1>2. \A v \in Handlers \ {w} :
        /\ Booking(h'[v]) <=> Booking(h[v])
        /\ h'[v].ev = h[v].ev /\ h'[v].row = h[v].row /\ h'[v].pc = h[v].pc
        /\ h'[v].fresh => h[v].fresh
  BY Others DEF TypeInv, Booking
<1>3. \A v \in Handlers : Booking(h'[v]) => h'[v].ev \in recorded' \ applied'
  BY <1>1, <1>2 DEF EventInv
<1>4. ASSUME NEW u \in Handlers, NEW v \in Handlers, u # v,
             Booking(h'[u]), Booking(h'[v])
      PROVE  h'[u].ev # h'[v].ev
  BY <1>1, <1>2, <1>4 DEF EventInv
<1>5. \A v \in Handlers : h'[v].pc = "commit" /\ h'[v].fresh => h'[v].row = bal'
  BY <1>1, <1>2 DEF EventInv
<1>6. QED
  BY <1>3, <1>4, <1>5 DEF EventInv, Booking

LEMMA CommitEvents ==
  ASSUME TypeInv, EventInv, NEW w \in Handlers, Commit(w)
  PROVE  EventInv'
<1>1. PICK r \in Handler : Moves(w, r) /\ Calm(r)
  BY CalmSteps
<1>2. h'[w] = r
  BY <1>1 DEF Moves
<1>3. recorded' = recorded /\ applied' = IF h[w].op = "confirm" THEN applied \cup {h[w].ev} ELSE applied
  BY DEF Commit, CommitGuarded
<1>4. h[w].op = "confirm" => Booking(h[w])
  BY DEF Commit, CommitGuarded, At, Booking
<1>5. \A v \in Handlers \ {w} :
        /\ Booking(h'[v]) <=> Booking(h[v])
        /\ h'[v].ev = h[v].ev /\ h'[v].pc = h[v].pc
  <2>1. \A v \in Handlers \ {w} :
          h'[v].pc = h[v].pc /\ h'[v].op = h[v].op /\ h'[v].ev = h[v].ev
    BY <1>1, Others DEF TypeInv
  <2>2. QED
    BY <2>1 DEF Booking
<1>6. \A v \in Handlers \ {w} : h[v].pc = "commit" => ~h'[v].fresh
  <2>1. SUFFICES ASSUME NEW v \in Handlers \ {w}, h[v].pc = "commit" PROVE ~h'[v].fresh
    OBVIOUS
  <2>2. h'[v] = [h[v] EXCEPT !.fresh = FALSE]
    BY <2>1 DEF Commit, CommitGuarded, BecomeAndSpoil
  <2>3. QED
    BY <2>2, Typed DEF Handler
<1>7. ~Booking(h'[w]) /\ h'[w].pc # "commit"
  BY <1>1, <1>2 DEF Calm
<1>8. applied' \subseteq recorded'
  BY <1>3, <1>4 DEF EventInv
<1>9. \A v \in Handlers : Booking(h'[v]) => h'[v].ev \in recorded' \ applied'
  BY <1>3, <1>4, <1>5, <1>7 DEF EventInv
<1>10. \A u, v \in Handlers :
         u # v /\ Booking(h'[u]) /\ Booking(h'[v]) => h'[u].ev # h'[v].ev
  BY <1>5, <1>7 DEF EventInv
<1>11. QED
  BY <1>5, <1>6, <1>7, <1>8, <1>9, <1>10 DEF EventInv, Booking

LEMMA NextEvents == TypeInv /\ EventInv /\ [Next]_vars => EventInv'
<1> SUFFICES ASSUME TypeInv, EventInv, [Next]_vars PROVE EventInv'
  OBVIOUS
<1>1. CASE UNCHANGED <<bal, recorded, applied, h>>
  BY <1>1 DEF EventInv, Booking
<1>2. ASSUME NEW w \in Handlers, RecordEvent(w), h[w].ev \notin recorded PROVE EventInv'
  <2> DEFINE r == [h[w] EXCEPT !.pc = "begin"]
  <2>1. r \in Handler /\ r.ev = h[w].ev /\ r.pc = "begin"
    BY Typed DEF Handler, PC
  <2>2. Moves(w, r)
    BY <1>2, <2>1, BecomeMoves DEF RecordEvent, Goto, TypeInv
  <2>3. r.ev \in recorded' \ applied
    BY <1>2, <2>1 DEF RecordEvent, EventInv
  <2>4. \A v \in Handlers : Booking(h[v]) => h[v].ev # r.ev
    BY <1>2, <2>1 DEF EventInv
  <2> HIDE DEF r
  <2>5. QED
    BY <1>2, <2>1, <2>2, <2>3, <2>4, EventPreserve DEF RecordEvent
<1>3. ASSUME NEW w \in Handlers, BeginTx(w), bal.exists \/ h[w].op = "confirm"
      PROVE  EventInv'
  <2> DEFINE r == [h[w] EXCEPT !.pc = "commit", !.row = bal, !.fresh = TRUE]
  <2>1. r \in Handler
    <3>1. [h[w] EXCEPT !.pc = "commit"] \in Handler
      BY Typed, Locals, ZenonT(30) DEF PC
    <3>2. [[h[w] EXCEPT !.pc = "commit"] EXCEPT !.row = bal] \in Handler
      BY <3>1, Typed, Locals, ZenonT(30)
    <3>3. QED
      BY <3>2, Locals, ZenonT(30)
  <2>2. r.ev = h[w].ev /\ r.op = h[w].op /\ r.row = bal
    BY Typed DEF Handler
  <2>3. Moves(w, r)
    BY <1>3, <2>1, BecomeMoves DEF BeginTx, TypeInv
  <2>4. Booking(r) => Booking(h[w])
    BY <1>3, <2>2 DEF BeginTx, At, Booking
  <2> HIDE DEF r
  <2>5. UNCHANGED <<bal, applied, recorded>>
    BY <1>3 DEF BeginTx
  <2>6. Booking(r) => /\ r.ev \in recorded' \ applied
                      /\ \A v \in Handlers \ {w} : Booking(h[v]) => h[v].ev # r.ev
    BY <2>2, <2>4, <2>5 DEF EventInv
  <2>7. QED
    BY <2>2, <2>3, <2>5, <2>6, EventPreserve
<1>4. ASSUME NEW w \in Handlers, NEW r, Moves(w, r), ~Booking(r), r.pc # "commit",
             UNCHANGED <<bal, applied>>, recorded \subseteq recorded'
      PROVE  EventInv'
  BY <1>4, EventPreserve
<1>5. ASSUME NEW w \in Handlers, EmitSeq(w) PROVE EventInv'
  <2> DEFINE r == [h[w] EXCEPT !.pc = "append", !.n = NextAuditSeq]
  <2>1. Moves(w, r)
    BY <1>5, EmitSeqMoves, ZenonT(30)
  <2>2. r.pc = "append"
    BY Typed DEF Handler
  <2> HIDE DEF r
  <2>3. QED
    BY <1>4, <1>5, <2>1, <2>2 DEF EmitSeq, Booking
<1>6. ASSUME NEW w \in Handlers, NEW f \in Requests, InsertRequest(w, f), OpenRequests = {}
      PROVE  EventInv'
  <2> DEFINE r == [h[w] EXCEPT !.pc = "treasury", !.req = f]
  <2>1. r \in Handler /\ Moves(w, r)
    BY <1>6, InsertMoves, ZenonT(30)
  <2>2. r.pc = "treasury"
    BY Typed DEF Handler
  <2> HIDE DEF r
  <2>3. QED
    BY <1>4, <1>6, <2>1, <2>2 DEF InsertRequest, Booking
<1>7. ASSUME NEW w \in Handlers, NEW r, Moves(w, r), Calm(r),
             UNCHANGED <<bal, applied>>, recorded \subseteq recorded'
      PROVE  EventInv'
  BY <1>4, <1>7 DEF Calm
<1>8. ASSUME NEW w \in Handlers, RecordEvent(w) PROVE EventInv'
  BY <1>2, <1>7, <1>8, CalmSteps DEF RecordEvent
<1>9. ASSUME NEW w \in Handlers, BeginTx(w) PROVE EventInv'
  BY <1>3, <1>7, <1>9, CalmSteps, ZenonT(30) DEF BeginTx
<1>10. ASSUME NEW w \in Handlers, NEW f \in Requests, InsertRequest(w, f) PROVE EventInv'
  BY <1>6, <1>7, <1>10, CalmSteps, ZenonT(30) DEF InsertRequest
<1>11. ASSUME NEW w \in Handlers,
              \/ \E e \in Events : OnConfirmation(w, e) \/ OnReorg(w, Info[e].block)
              \/ ManualRequest(w)
              \/ \E op \in {"lock", "release"} : Lock(w, op)
              \/ RecordEventFails(w) \/ Abort(w) \/ Restore(w) \/ CheckBalance(w)
              \/ GetOpenRequest(w) \/ RequestFunding(w) \/ EmitAppend(w) \/ Crash(w)
       PROVE  EventInv'
  <2>1. PICK r \in Handler : Moves(w, r) /\ Calm(r)
    BY <1>11, CalmSteps
  <2>2. UNCHANGED <<bal, applied>> /\ recorded \subseteq recorded'
    BY <1>11, ZenonT(30) DEF OnConfirmation, OnReorg, ManualRequest, Lock, RecordEventFails, Abort,
       Restore, CheckBalance, GetOpenRequest, RequestFunding, EmitAppend, Crash
  <2>3. QED
    BY <1>7, <2>1, <2>2
<1>12. CASE UNCHANGED vars
  BY <1>1, <1>12 DEF vars, ledgerVars
<1>13. CASE \/ \E f \in Requests, s \in FundingStates : TreasuryCallback(f, s)
            \/ UNCHANGED ledgerVars
  BY <1>1, <1>13 DEF TreasuryCallback, ledgerVars
<1>14. ASSUME NEW w \in Handlers, Step(w) PROVE EventInv'
  BY <1>5, <1>8, <1>9, <1>10, <1>11, <1>14, CommitEvents DEF Step
<1>15. QED
  BY <1>11, <1>12, <1>13, <1>14 DEF Next

-----------------------------------------------------------------------------
(* The balance row moves by commits alone, and a commit is an entry in the *)
(* book, the demotion of a reorg, or a change of the locked amount.        *)
LEMMA OnlyCommits ==
  ASSUME [Next]_vars, ~\E w \in Handlers : Commit(w)
  PROVE  UNCHANGED <<bal, applied, settled, locks>>
<1>1. CASE UNCHANGED vars \/ UNCHANGED ledgerVars
  BY <1>1 DEF vars, ledgerVars
<1>2. ASSUME NEW w \in Handlers, Step(w) PROVE UNCHANGED <<bal, applied, settled, locks>>
  BY <1>2, ZenonT(30) DEF Step, RecordEvent, BeginTx, Abort, Restore, CheckBalance, GetOpenRequest,
     RequestFunding, EmitSeq, EmitAppend, InsertRequest
<1>3. ASSUME NEW w \in Handlers,
             \/ RecordEventFails(w) \/ ManualRequest(w) \/ Crash(w)
             \/ \E e \in Events : OnConfirmation(w, e) \/ OnReorg(w, Info[e].block)
             \/ \E op \in {"lock", "release"} : Lock(w, op)
      PROVE  UNCHANGED <<bal, applied, settled, locks>>
  BY <1>3, ZenonT(30) DEF RecordEventFails, OnReorg, ManualRequest, Crash, OnConfirmation, Lock
<1>4. QED
  BY <1>1, <1>2, <1>3 DEF Next, TreasuryCallback

(* A commit writes a row made from the row it replaces.                    *)
LEMMA CommitWrites ==
  ASSUME TypeInv, EventInv, NEW w \in Handlers, Commit(w)
  PROVE  /\ h[w].pc = "commit" /\ h[w].row = bal /\ bal' = Updated(h[w])
         /\ h[w].op \in {"confirm", "reorg", "lock", "release"}
         /\ h[w].op = "confirm" => h[w].ev \in Events \ applied
         /\ applied' = IF h[w].op = "confirm" THEN applied \cup {h[w].ev} ELSE applied
         /\ settled' = CASE h[w].op = "reorg" -> {}
                         [] h[w].op = "confirm" /\ IsConfirmed(h[w].ev) ->
                              settled \cup {h[w].ev}
                         [] OTHER -> settled
         /\ bal'.block >= bal.block
<1>1. /\ h[w].pc = "commit" /\ h[w].row = bal /\ bal' = Updated(h[w])
      /\ applied' = IF h[w].op = "confirm" THEN applied \cup {h[w].ev} ELSE applied
  BY DEF Commit, CommitGuarded, At, EventInv
<1>2. settled' = CASE h[w].op = "reorg" -> {}
                   [] h[w].op = "confirm" /\ IsConfirmed(h[w].ev) -> settled \cup {h[w].ev}
                   [] OTHER -> settled
  BY DEF Commit, CommitGuarded
<1>3. h[w].op \in {"confirm", "reorg", "lock", "release"}
  BY <1>1, Typed DEF OpOK
<1>4. h[w].op = "confirm" => h[w].ev \in Events \ applied
  BY <1>1, Typed DEF OpOK, EventInv, Booking
<1>5. bal'.block >= bal.block
  <2>1. bal \in Balance
    BY Typed
  <2>2. CASE h[w].op = "confirm"
    <3>1. bal' = ApplyConfirmation(bal, h[w].ev)
      BY <1>1, <2>2 DEF Updated
    <3>2. Info[h[w].ev].block \in Nat
      BY <1>4, <2>2
    <3>3. QED
      BY <2>1, <3>1, <3>2 DEF ApplyConfirmation, Max64, Balance
  <2>3. CASE h[w].op = "reorg"
    <3>1. bal' = [[bal EXCEPT !.confirmed = 0] EXCEPT !.pending = bal.pending + bal.confirmed]
      BY <1>1, <2>3 DEF Updated, ApplyReorg
    <3>2. QED
      BY <2>1, <3>1 DEF Balance
  <2>4. CASE h[w].op \in {"lock", "release"}
    <3>1. PICK x : bal' = [bal EXCEPT !.locked = x]
      BY <1>1, <2>4, ZenonT(30) DEF Updated
    <3>2. QED
      BY <2>1, <3>1 DEF Balance
  <2>5. QED
    BY <1>3, <2>2, <2>3, <2>4
<1>6. QED
  BY <1>1, <1>2, <1>3, <1>4, <1>5

(* last_block_seen never goes back: a transaction that commits has read    *)
(* the row it overwrites.                                                  *)
THEOREM BlockNeverGoesBack == Spec => BlockSeenMonotone
<1>1. TypeInv /\ EventInv /\ [Next]_vars => [bal'.block >= bal.block]_vars
  <2> SUFFICES ASSUME TypeInv, EventInv, [Next]_vars PROVE bal'.block >= bal.block
    OBVIOUS
  <2>1. CASE \E w \in Handlers : Commit(w)
    BY <2>1, CommitWrites
  <2>2. CASE ~\E w \in Handlers : Commit(w)
    BY <2>2, OnlyCommits DEF TypeInv, TypeOK, Balance
  <2>3. QED
    BY <2>1, <2>2
<1>2. QED
  BY <1>1, InitTypes, NextTypes, InitEvents, NextEvents, PTL DEF Spec, BlockSeenMonotone

-----------------------------------------------------------------------------
(* Sums over finite sets, as in UtxoServiceProofs.  MapThenSumSet, and     *)
(* with it Total, adds the elements in the order in which CHOOSE picks     *)
(* them.  A function that may take any element off first exists for every  *)
(* finite set, and Total is that function.                                 *)
Additive(v, S, g) ==
  /\ g \in [SUBSET S -> Int] /\ g[{}] = 0
  /\ \A s \in SUBSET S : \A x \in s : g[s] = v[x] + g[s \ {x}]

(* A nonempty family of subsets of a finite set has a minimal member.      *)
LEMMA Smallest ==
  ASSUME NEW S, IsFiniteSet(S), NEW T \in SUBSET SUBSET S, T # {}
  PROVE  \E s \in T : \A t \in SUBSET s : t # s => t \notin T
<1>1. IsWellFoundedOn(StrictSubsetOrdering(S), SUBSET S)
  <2>1. IsWellFoundedOn(StrictSubsetOrdering(S), FiniteSubsetsOf(S))
    BY FS_StrictSubsetOrderingWellFounded
  <2>2. FiniteSubsetsOf(S) = SUBSET S
    BY FS_FiniteSubsetsOfFinite
  <2>3. QED
    BY <2>1, <2>2
<1>2. PICK s \in T : \A t \in T : <<t, s>> \notin StrictSubsetOrdering(S)
  BY <1>1, WFMin
<1>3. ASSUME NEW t \in SUBSET s, t # s PROVE t \notin T
  BY <1>2, <1>3, ZenonT(30) DEF StrictSubsetOrdering
<1>4. QED
  BY <1>3

LEMMA AdditiveExists ==
  ASSUME NEW D, NEW v \in [D -> Int], NEW S \in SUBSET D, IsFiniteSet(S)
  PROVE  \E g : Additive(v, S, g)
<1> DEFINE T == {U \in SUBSET S : ~\E g : Additive(v, U, g)}
<1>1. SUFFICES ASSUME T # {} PROVE FALSE
  BY ZenonT(30)
<1>2. T \in SUBSET SUBSET S
  OBVIOUS
<1>3. PICK U \in T : \A W \in SUBSET U : W # U => W \notin T
  <2> HIDE DEF T
  <2>1. QED
    BY <1>1, <1>2, Smallest
<1>4. U # {}
  <2>1. Additive(v, {}, [s \in SUBSET {} |-> 0])
    BY DEF Additive
  <2>2. ~\E g : Additive(v, U, g)
    BY <1>3
  <2>3. SUFFICES ASSUME U = {} PROVE FALSE
    OBVIOUS
  <2>4. QED
    BY <2>1, <2>2, <2>3, Zenon
<1>5. PICK x \in U : TRUE
  BY <1>4
<1> DEFINE W == U \ {x}
<1>6. W \in SUBSET U /\ W # U /\ W \in SUBSET S
  OBVIOUS
<1>7. PICK g : Additive(v, W, g)
  BY <1>3, <1>6, ZenonT(30)
<1> DEFINE k == [s \in SUBSET U |-> IF x \in s THEN v[x] + g[s \ {x}] ELSE g[s]]
<1>8. \A s \in SUBSET W : g[s] \in Int /\ \A y \in s : g[s] = v[y] + g[s \ {y}]
  BY <1>7 DEF Additive
<1>9. \A y \in U : v[y] \in Int
  OBVIOUS
<1>10. k \in [SUBSET U -> Int] /\ k[{}] = 0
  BY <1>7, <1>8, <1>9 DEF Additive
<1>11. ASSUME NEW s \in SUBSET U, NEW y \in s PROVE k[s] = v[y] + k[s \ {y}]
  <2>1. CASE x \notin s
    <3>1. s \in SUBSET W /\ x \notin s \ {y} /\ s \ {y} \in SUBSET U
      BY <2>1
    <3>2. k[s] = g[s] /\ k[s \ {y}] = g[s \ {y}]
      BY <2>1, <3>1
    <3>3. QED
      BY <1>8, <3>1, <3>2
  <2>2. CASE x \in s /\ y = x
    BY <2>2
  <2>3. CASE x \in s /\ y # x
    <3>1. /\ s \ {x} \in SUBSET W /\ y \in s \ {x} /\ x \in s \ {y} /\ s \ {y} \in SUBSET U
          /\ (s \ {x}) \ {y} = (s \ {y}) \ {x} /\ (s \ {x}) \ {y} \in SUBSET W
      BY <2>3
    <3> DEFINE rest == g[(s \ {x}) \ {y}]
    <3>2. k[s] = v[x] + g[s \ {x}] /\ k[s \ {y}] = v[x] + rest
      BY <2>3, <3>1, ZenonT(30)
    <3>3. g[s \ {x}] = v[y] + rest /\ rest \in Int /\ v[x] \in Int /\ v[y] \in Int
      BY <1>8, <1>9, <3>1, ZenonT(30)
    <3> HIDE DEF rest, k
    <3>4. \A a, b, c \in Int : a + (b + c) = b + (a + c)
      OBVIOUS
    <3>5. QED
      BY <3>2, <3>3, <3>4
  <2>4. QED
    BY <2>1, <2>2, <2>3
<1>12. Additive(v, U, k)
  BY <1>10, <1>11, ZenonT(30) DEF Additive
<1>13. QED
  BY <1>12

(* The recursion inside MapThenSumSet.                                     *)
Pick(s) == CHOOSE x \in s : TRUE
IsSumOn(v, S, g) ==
  g = [s \in SUBSET S |-> IF s = {} THEN 0 ELSE v[Pick(s)] + g[s \ {Pick(s)}]]

LEMMA TotalIsAdditive ==
  ASSUME NEW v, NEW S, IsFiniteSet(S), NEW g, Additive(v, S, g), NEW U \in SUBSET S
  PROVE  Total(v, U) = g[U]
<1> DEFINE f == CHOOSE f : IsSumOn(v, U, f)
           r == [s \in SUBSET U |-> g[s]]
           T == {s \in SUBSET U : f[s] # g[s]}
<1>1. Total(v, U) = f[U]
  BY DEF Total, MapThenSumSet, MapThenFoldSet, IsSumOn, Pick
<1>2. \A s \in SUBSET U : s # {} => Pick(s) \in s
  BY DEF Pick
<1>3. \A s \in SUBSET U : g[s] = IF s = {} THEN 0 ELSE v[Pick(s)] + g[s \ {Pick(s)}]
  BY <1>2, ZenonT(30) DEF Additive
<1>4. IsSumOn(v, U, r)
  BY <1>2, <1>3 DEF IsSumOn
<1>5. IsSumOn(v, U, f)
  BY <1>4
<1> HIDE DEF f
<1>6. \A s \in SUBSET U : f[s] = IF s = {} THEN 0 ELSE v[Pick(s)] + f[s \ {Pick(s)}]
  BY <1>5, ZenonT(30) DEF IsSumOn
<1>7. ASSUME T # {} PROVE FALSE
  <2>1. T \in SUBSET SUBSET S
    OBVIOUS
  <2>2. PICK s \in T : \A t \in SUBSET s : t # s => t \notin T
    <3> HIDE DEF T
    <3>1. QED
      BY <1>7, <2>1, Smallest
  <2>3. s \ {Pick(s)} \notin T
    BY <1>2, <1>3, <1>6, <2>2
  <2>4. QED
    BY <1>3, <1>6, <2>3, ZenonT(30)
<1>8. QED
  BY <1>1, <1>7

(* Total is zero for no elements, an integer for integers, and any element *)
(* may be split off.                                                       *)
LEMMA TotalWithout ==
  ASSUME NEW D, NEW v \in [D -> Int], NEW S \in SUBSET D, IsFiniteSet(S)
  PROVE  /\ Total(v, {}) = 0 /\ Total(v, S) \in Int
         /\ \A x \in S : Total(v, S) = v[x] + Total(v, S \ {x})
<1>1. PICK g : Additive(v, S, g)
  BY AdditiveExists
<1>2. \A U \in SUBSET S : Total(v, U) = g[U]
  BY <1>1, TotalIsAdditive
<1>3. QED
  BY <1>1, <1>2 DEF Additive

(* An element that is added adds its value.                                *)
LEMMA TotalWith ==
  ASSUME NEW D, NEW v \in [D -> Int], NEW S \in SUBSET D, IsFiniteSet(S), NEW x \in D \ S
  PROVE  Total(v, S \cup {x}) = Total(v, S) + v[x]
<1> DEFINE U == S \cup {x}
<1>1. IsFiniteSet(U)
  BY FS_AddElement
<1>2. U \in SUBSET D /\ x \in U /\ U \ {x} = S
  OBVIOUS
<1> HIDE DEF U
<1>3. Total(v, U) = v[x] + Total(v, S)
  BY <1>1, <1>2, TotalWithout
<1>4. v[x] \in Int /\ Total(v, S) \in Int
  BY TotalWithout
<1>5. QED
  BY <1>3, <1>4 DEF U

-----------------------------------------------------------------------------
(* Conservation, with what it and the book rest on: finitely many events   *)
(* are applied, and each column is the sum of the events it holds.         *)
Amounts == [e \in Events |-> Info[e].amount]

SumInv ==
  /\ Conservation /\ IsFiniteSet(applied)
  /\ bal.confirmed = Total(Amounts, settled)
  /\ bal.pending = Total(Amounts, applied \ settled)

LEMMA AmountsType == Amounts \in [Events -> Int] /\ \A e \in Events : Amounts[e] = Info[e].amount
  BY DEF Amounts

LEMMA InitSum == Init => SumInv
<1> SUFFICES ASSUME Init PROVE SumInv
  OBVIOUS
<1>1. applied = {} /\ settled = {} /\ applied \ settled = {} /\ IsFiniteSet(applied)
  BY FS_EmptySet DEF Init
<1>2. Total(Amounts, {}) = 0
  BY <1>1, AmountsType, TotalWithout
<1>3. bal.confirmed = 0 /\ bal.pending = 0 /\ ParseDec(bal.locked) = 0 /\ locks = 0
  BY DEF Init, NoBalance, ParseDec
<1>4. QED
  BY <1>1, <1>2, <1>3 DEF SumInv, Conservation, Amounts

(* The sums are integers, and an event that is added adds its amount.      *)
LEMMA AmountAdded ==
  ASSUME NEW S \in SUBSET Events, IsFiniteSet(S), NEW e \in Events \ S
  PROVE  /\ Info[e].amount \in Int
         /\ Total(Amounts, S \cup {e}) = Total(Amounts, S) + Info[e].amount
         /\ IsFiniteSet(S \cup {e})
  BY AmountsType, TotalWith, FS_AddElement

(* A commit enters the amount of an event that was not applied before,     *)
(* moves the confirmed amount to the pending one, or changes the locked    *)
(* amount of the row as it is.                                             *)
LEMMA CommitSum ==
  ASSUME TypeInv, EventInv, SumInv, NEW w \in Handlers, Commit(w)
  PROVE  SumInv'
<1> DEFINE op == h[w].op
           e == h[w].ev
<1>1. /\ h[w].row = bal /\ bal' = Updated(h[w])
      /\ op \in {"confirm", "reorg", "lock", "release"}
      /\ op = "confirm" => e \in Events \ applied
      /\ applied' = IF op = "confirm" THEN applied \cup {e} ELSE applied
      /\ settled' = CASE op = "reorg" -> {}
                      [] op = "confirm" /\ IsConfirmed(e) -> settled \cup {e}
                      [] OTHER -> settled
  BY CommitWrites
<1>2. locks' = CASE op = "lock"    -> AddLocked(locks)
                 [] op = "release" -> ReleaseLocked(locks)
                 [] OTHER -> locks
  BY DEF Commit, CommitGuarded
<1>3. /\ bal \in Balance /\ locks \in Nat
      /\ applied \in SUBSET Events /\ settled \in SUBSET applied
  BY Typed
<1>4. /\ bal.confirmed \in Int /\ bal.pending \in Int
      /\ bal.locked \in Nat \cup {Empty}
  BY <1>3 DEF Balance
<1>5. /\ bal.confirmed + bal.pending = Total(Amounts, applied)
      /\ bal.confirmed = Total(Amounts, settled)
      /\ bal.pending = Total(Amounts, applied \ settled)
      /\ ParseDec(bal.locked) = locks /\ IsFiniteSet(applied)
  BY DEF SumInv, Conservation, Amounts
<1>6. SUFFICES /\ bal'.confirmed + bal'.pending = Total(Amounts, applied')
               /\ bal'.confirmed = Total(Amounts, settled')
               /\ bal'.pending = Total(Amounts, applied' \ settled')
               /\ ParseDec(bal'.locked) = locks' /\ IsFiniteSet(applied')
  BY DEF SumInv, Conservation, Amounts
<1>7. CASE op = "confirm"
  <2>1. e \in Events \ applied
    BY <1>1, <1>7
  <2>2. /\ bal'.confirmed = bal.confirmed + (IF IsConfirmed(e) THEN Info[e].amount ELSE 0)
        /\ bal'.pending = bal.pending + (IF IsConfirmed(e) THEN 0 ELSE Info[e].amount)
        /\ bal'.locked = bal.locked
    BY <1>1, <1>7 DEF Updated, ApplyConfirmation
  <2>3. /\ applied' = applied \cup {e} /\ locks' = locks
        /\ settled' = IF IsConfirmed(e) THEN settled \cup {e} ELSE settled
    BY <1>1, <1>2, <1>7
  <2> HIDE DEF e
  <2>4. /\ Info[e].amount \in Int /\ IsFiniteSet(applied')
        /\ Total(Amounts, applied \cup {e}) = Total(Amounts, applied) + Info[e].amount
    BY <1>3, <1>5, <2>1, <2>3, AmountAdded
  <2>5. bal'.confirmed + bal'.pending = bal.confirmed + bal.pending + Info[e].amount
    BY <1>4, <2>2, <2>4
  <2>6. IsFiniteSet(settled) /\ IsFiniteSet(applied \ settled)
    BY <1>3, <1>5, FS_Subset
  <2>7. CASE IsConfirmed(e)
    <3>1. settled' = settled \cup {e} /\ applied' \ settled' = applied \ settled
      BY <2>1, <2>3, <2>7
    <3>2. Total(Amounts, settled \cup {e}) = Total(Amounts, settled) + Info[e].amount
      <4>1. settled \in SUBSET Events /\ e \in Events \ settled
        BY <1>3, <2>1
      <4>2. QED
        BY <2>6, <4>1, AmountAdded
    <3>3. bal'.confirmed = bal.confirmed + Info[e].amount /\ bal'.pending = bal.pending
      BY <1>4, <2>2, <2>7
    <3>4. QED
      BY Zenon, <1>5, <2>2, <2>3, <2>4, <2>5, <3>1, <3>2, <3>3
  <2>8. CASE ~IsConfirmed(e)
    <3>1. settled' = settled /\ applied' \ settled' = (applied \ settled) \cup {e}
      BY <1>3, <2>1, <2>3, <2>8
    <3>2. Total(Amounts, (applied \ settled) \cup {e})
            = Total(Amounts, applied \ settled) + Info[e].amount
      <4>1. applied \ settled \in SUBSET Events /\ e \in Events \ (applied \ settled)
        BY <1>3, <2>1
      <4>2. QED
        BY Zenon, <2>6, <4>1, AmountAdded
    <3>3. bal'.confirmed = bal.confirmed /\ bal'.pending = bal.pending + Info[e].amount
      BY <1>4, <2>2, <2>8
    <3>4. QED
      BY Zenon, <1>5, <2>2, <2>3, <2>4, <2>5, <3>1, <3>2, <3>3
  <2>9. QED
    BY <2>7, <2>8
<1>8. CASE op = "reorg"
  <2>1. bal' = [[bal EXCEPT !.confirmed = 0] EXCEPT !.pending = bal.pending + bal.confirmed]
    BY <1>1, <1>8 DEF Updated, ApplyReorg
  <2>2. /\ bal'.confirmed = 0 /\ bal'.pending = bal.pending + bal.confirmed
        /\ bal'.locked = bal.locked
    BY <1>3, <2>1 DEF Balance
  <2>3. applied' = applied /\ settled' = {} /\ locks' = locks
    BY <1>1, <1>2, <1>8
  <2>4. bal'.pending = Total(Amounts, applied) /\ applied' \ settled' = applied
    BY <1>4, <1>5, <2>2, <2>3
  <2>5. Total(Amounts, {}) = 0 /\ Total(Amounts, applied) \in Int
    BY <1>3, <1>5, AmountsType, TotalWithout
  <2>6. QED
    BY <1>5, <2>2, <2>3, <2>4, <2>5
<1>9. CASE op \in {"lock", "release"}
  <2> DEFINE x == IF op = "lock" THEN AddLocked(bal.locked) ELSE ReleaseLocked(bal.locked)
  <2>1. bal' = [bal EXCEPT !.locked = x]
    BY <1>1, <1>9 DEF Updated
  <2>2. /\ bal'.confirmed = bal.confirmed /\ bal'.pending = bal.pending
        /\ bal'.locked = x /\ applied' = applied /\ settled' = settled
    BY <1>1, <1>3, <1>9, <2>1 DEF Balance
  <2>3. ParseDec(locks) = locks
    BY <1>3 DEF ParseDec
  <2>4. x = locks' /\ x \in Nat
    BY <1>2, <1>3, <1>5, <1>9, <2>3 DEF AddLocked, ReleaseLocked, Max64
  <2>5. QED
    BY <1>5, <2>2, <2>4 DEF ParseDec
<1>10. QED
  BY <1>1, <1>7, <1>8, <1>9

LEMMA NextSum == TypeInv /\ EventInv /\ SumInv /\ [Next]_vars => SumInv'
<1> SUFFICES ASSUME TypeInv, EventInv, SumInv, [Next]_vars PROVE SumInv'
  OBVIOUS
<1>1. CASE \E w \in Handlers : Commit(w)
  BY <1>1, CommitSum
<1>2. CASE ~\E w \in Handlers : Commit(w)
  BY Zenon, <1>2, OnlyCommits DEF SumInv, Conservation
<1>3. QED
  BY <1>1, <1>2

(* No update of the balance row is lost and no event is applied twice: the *)
(* row is the sum of the committed events and of the committed locks.      *)
THEOREM BalanceConserved == Spec => []Conservation
<1>1. SumInv => Conservation
  BY DEF SumInv
<1>2. QED
  BY <1>1, InitTypes, NextTypes, InitEvents, NextEvents, InitSum, NextSum, PTL DEF Spec

-----------------------------------------------------------------------------
(* The book and the ledger add up amounts in the same way.                 *)
LEMMA BookTotal == \A v, S : Book!Total(v, S) = Total(v, S)
  BY DEF Book!Total, Total, Book!MapThenSumSet, MapThenSumSet, Book!MapThenFoldSet,
         MapThenFoldSet

(* A commit is an entry in the book, the demotion of the reorged block, a  *)
(* change of the locked amount, or one of the known departures.            *)
LEMMA CommitBooks ==
  ASSUME TypeInv, EventInv, SumInv, NEW w \in Handlers, Commit(w), ~Departs(w)
  PROVE  [Book!Next]_(Book!bookVars)
<1> DEFINE op == h[w].op
           e == h[w].ev
           sums == /\ bal'.confirmed = Book!Total(Amounts, settled')
                   /\ bal'.pending = Book!Total(Amounts, applied' \ settled')
<1>1. /\ h[w].pc = "commit" /\ h[w].row = bal /\ bal' = Updated(h[w])
      /\ op \in {"confirm", "reorg", "lock", "release"}
      /\ op = "confirm" => e \in Events \ applied
      /\ applied' = IF op = "confirm" THEN applied \cup {e} ELSE applied
      /\ settled' = CASE op = "reorg" -> {}
                      [] op = "confirm" /\ IsConfirmed(e) -> settled \cup {e}
                      [] OTHER -> settled
  BY CommitWrites
<1>2. bal \in Balance /\ applied \in SUBSET Events /\ settled \in SUBSET applied
  BY Typed
<1>3. sums
  BY CommitSum, BookTotal DEF SumInv, Amounts
<1>4. /\ op = "reorg" => \A f \in settled : Info[f].block = h[w].block
      /\ op = "confirm" /\ IsConfirmed(e) =>
           \A f \in applied \ settled : Info[f].tx # Info[e].tx
  BY <1>1 DEF Departs, At
<1>5. CASE op = "confirm"
  <2>1. e \in Events \ applied /\ applied' = applied \cup {e}
        /\ settled' = IF IsConfirmed(e) THEN settled \cup {e} ELSE settled
    BY <1>1, <1>5
  <2>2. Book!Observe(e)
    <3> HIDE DEF e
    <3>1. CASE IsConfirmed(e)
      <4>1. applied' \ settled' = applied \ settled
        BY <2>1, <3>1
      <4>2. applied \ settled
              = {f \in applied \ settled : [x \in Events |-> Info[x].tx][f]
                                             # [x \in Events |-> Info[x].tx][e]}
        BY <1>2, <1>4, <1>5, <2>1, <3>1
      <4>3. QED
        BY <2>1, <3>1, <4>1, <4>2 DEF Book!Observe
    <3>2. CASE ~IsConfirmed(e)
      <4>1. applied' \ settled' = (applied \ settled) \cup {e}
        BY <1>2, <2>1, <3>2
      <4>2. QED
        BY <2>1, <3>2, <4>1 DEF Book!Observe
    <3>3. QED
      BY <3>1, <3>2
  <2> HIDE DEF e
  <2>3. QED
    BY <1>3, <2>1, <2>2 DEF Book!Next, Amounts
<1>6. CASE op = "reorg" /\ settled # {}
  <2>1. PICK f \in settled : TRUE
    BY <1>6
  <2>2. f \in Events /\ applied' = applied /\ settled' = {}
    BY <1>1, <1>2, <1>6
  <2>3. \A g \in settled : [x \in Events |-> Info[x].block][g] = [x \in Events |-> Info[x].block][f]
    BY <1>2, <1>4, <1>6, <2>1, <2>2
  <2>4. Book!Demote([x \in Events |-> Info[x].block][f])
    <3>1. {g \in settled : [x \in Events |-> Info[x].block][g]
                             = [x \in Events |-> Info[x].block][f]} = settled
      BY Zenon, <2>3
    <3>2. applied' \ settled' = (applied \ settled) \cup settled
      BY <1>2, <2>2
    <3>3. QED
      BY <2>2, <3>1, <3>2 DEF Book!Demote
  <2>5. QED
    BY <1>3, <2>2, <2>4 DEF Book!Next, Amounts
<1>7. CASE op \in {"lock", "release"} \/ (op = "reorg" /\ settled = {})
  <2>1. applied' = applied /\ settled' = settled
    BY <1>1, <1>7
  <2>2. bal.confirmed = Total(Amounts, settled) /\ bal.pending = Total(Amounts, applied \ settled)
    BY DEF SumInv
  <2>3. bal'.confirmed = bal.confirmed /\ bal'.pending = bal.pending
    BY <1>3, <2>1, <2>2, BookTotal
  <2>4. QED
    BY <2>1, <2>3 DEF Book!bookVars
<1>8. QED
  BY <1>1, <1>5, <1>6, <1>7

(* The balance row implements the documented book but for the two known    *)
(* departures: every confirmation event is entered at most once, whole and *)
(* on the current row, and a reorg demotes the value of its block, however *)
(* often events are delivered and whatever fails in between.               *)
THEOREM BookRefined == Spec => ImplementsBook
<1> DEFINE Enters == Book!Next \/ \E w \in Handlers : Departs(w) /\ Commit(w)
<1>1. Init => Book!Init
  BY DEF Init, Book!Init, NoBalance
<1>2. TypeInv /\ EventInv /\ SumInv /\ [Next]_vars => [Enters]_(Book!bookVars)
  <2> SUFFICES ASSUME TypeInv, EventInv, SumInv, [Next]_vars
               PROVE  [Enters]_(Book!bookVars)
    OBVIOUS
  <2>1. ASSUME NEW w \in Handlers, Commit(w) PROVE [Enters]_(Book!bookVars)
    <3>1. CASE Departs(w)
      BY <2>1, <3>1
    <3>2. CASE ~Departs(w)
      <4>1. [Book!Next]_(Book!bookVars)
        BY <2>1, <3>2, CommitBooks
      <4>2. QED
        BY <4>1
    <3>3. QED
      BY <3>1, <3>2
  <2>2. CASE ~\E w \in Handlers : Commit(w)
    BY <2>2, OnlyCommits DEF Book!bookVars
  <2>3. QED
    BY <2>1, <2>2
<1>3. QED
  BY <1>1, <1>2, InitTypes, NextTypes, InitEvents, NextEvents, InitSum, NextSum, PTL
  DEF Spec, ImplementsBook

-----------------------------------------------------------------------------
(* The tables of the balance and funding services stay well formed; no     *)
(* locked amount goes below zero.                                          *)
THEOREM LedgerTypes == Spec => []TypeOK
<1>1. TypeInv => TypeOK
  BY DEF TypeInv
<1>2. QED
  BY <1>1, InitTypes, NextTypes, PTL DEF Spec

-----------------------------------------------------------------------------
(* The outbox: a number that was handed out and not yet used is below the  *)
(* counter, in no row, and in the hands of one call; an event has a row    *)
(* exactly when it is applied.                                             *)
SeqInv ==
  /\ \A r \in outbox : r.seq <= seq
  /\ \A w \in Handlers : h[w].pc = "append" =>
       h[w].n <= seq /\ \A r \in outbox : r.seq # h[w].n
  /\ \A w, v \in Handlers :
       w # v /\ h[w].pc = "append" /\ h[v].pc = "append" => h[w].n # h[v].n
  /\ DistinctSeqs

AuditInv ==
  /\ \A r \in outbox : r.what \in Events => r.what \in applied
  /\ \A e \in applied : \E r \in outbox : r.what = e
  /\ \A r, s \in outbox : r.what \in Events /\ r.what = s.what => r = s

OutboxInv == SeqInv /\ AuditInv

LEMMA InitOutbox == Init => OutboxInv
  BY DEF Init, OutboxInit, OutboxInv, SeqInv, AuditInv, DistinctSeqs, Idle

(* A step of w that leaves the outbox alone.                               *)
LEMMA OutboxQuiet ==
  ASSUME TypeInv, OutboxInv, NEW w \in Handlers, NEW r, Moves(w, r), r.pc # "append",
         UNCHANGED <<seq, outbox, applied>>
  PROVE  OutboxInv'
<1>1. h'[w] = r
  BY DEF Moves
<1>2. \A v \in Handlers \ {w} : h'[v].pc = h[v].pc /\ h'[v].n = h[v].n
  BY Others DEF TypeInv
<1>3. QED
  BY <1>1, <1>2 DEF OutboxInv, SeqInv, AuditInv, DistinctSeqs

(* Emit inside the transaction of a confirmation.                          *)
LEMMA CommitOutbox ==
  ASSUME TypeInv, EventInv, OutboxInv, NEW w \in Handlers, Commit(w), h[w].op = "confirm"
  PROVE  OutboxInv'
<1> DEFINE new == [seq |-> seq + 1, what |-> h[w].ev]
<1>1. PICK q \in Handler : Moves(w, q) /\ Calm(q)
  BY CalmSteps
<1>2. /\ outbox' = outbox \cup {new} /\ seq' = seq + 1
      /\ applied' = applied \cup {h[w].ev}
  BY DEF Commit, CommitGuarded, NextAuditSeq, AuditRow
<1>3. h[w].ev \in Events /\ h[w].ev \notin applied
  BY Typed DEF Commit, CommitGuarded, At, OpOK, EventInv, Booking
<1>4. seq \in Nat /\ \A r \in outbox : r.seq \in Nat
  BY Typed
<1>5. \A v \in Handlers : h'[v].pc = "append" => v # w /\ h[v].pc = "append"
                                                 /\ h'[v].n = h[v].n
  BY <1>1, Others DEF TypeInv, Moves, Calm
<1>6. \A v \in Handlers : h[v].n \in Nat
  BY Typed DEF Handler
<1>7. SeqInv'
  <2>1. \A r \in outbox' : r.seq <= seq'
    BY <1>2, <1>4 DEF OutboxInv, SeqInv
  <2>2. \A v \in Handlers : h'[v].pc = "append" =>
          h'[v].n <= seq' /\ \A r \in outbox' : r.seq # h'[v].n
    BY <1>2, <1>4, <1>5, <1>6 DEF OutboxInv, SeqInv
  <2>3. DistinctSeqs'
    BY <1>2, <1>4 DEF OutboxInv, SeqInv, DistinctSeqs
  <2>4. QED
    BY <1>5, <2>1, <2>2, <2>3 DEF OutboxInv, SeqInv
<1>8. AuditInv'
  <2>1. new.what = h[w].ev /\ \A r \in outbox : r.what # h[w].ev
    BY <1>3 DEF OutboxInv, AuditInv
  <2> HIDE DEF new
  <2>2. \A r \in outbox' : r.what \in Events => r.what \in applied'
    BY <1>2, <2>1 DEF OutboxInv, AuditInv
  <2>3. \A e \in applied' : \E r \in outbox' : r.what = e
    BY <1>2, <2>1 DEF OutboxInv, AuditInv
  <2>4. \A r, s \in outbox' : r.what \in Events /\ r.what = s.what => r = s
    BY <1>2, <2>1 DEF OutboxInv, AuditInv
  <2>5. QED
    BY <2>2, <2>3, <2>4 DEF AuditInv
<1>9. QED
  BY <1>7, <1>8 DEF OutboxInv

(* Emit outside a transaction.                                             *)
LEMMA EmitOutbox ==
  ASSUME TypeInv, OutboxInv, NEW w \in Handlers, EmitSeq(w) \/ EmitAppend(w)
  PROVE  OutboxInv'
<1>1. /\ seq \in Nat /\ \A r \in outbox : r.seq \in Nat
      /\ \A v \in Handlers : h[v].n \in Nat
  <2>1. seq \in Nat /\ \A r \in outbox : r.seq \in Nat
    BY Typed
  <2>2. \A v \in Handlers : h[v].n \in Nat
    BY Typed DEF Handler
  <2>3. QED
    BY <2>1, <2>2
<1>2. CASE EmitSeq(w)
  <2> DEFINE r == [h[w] EXCEPT !.pc = "append", !.n = NextAuditSeq]
  <2>1. Moves(w, r)
    BY <1>2, EmitSeqMoves, ZenonT(30)
  <2>2. h'[w].n = seq + 1
    BY <2>1, Typed DEF Moves, Handler, NextAuditSeq
  <2> HIDE DEF r
  <2>3. \A v \in Handlers \ {w} : h'[v].pc = h[v].pc /\ h'[v].n = h[v].n
    BY <2>1, Others DEF TypeInv
  <2>4. seq' = seq + 1 /\ outbox' = outbox /\ applied' = applied
    BY <1>2 DEF EmitSeq, NextAuditSeq
  <2>5. SeqInv'
    <3>1. /\ \A v \in Handlers : h[v].pc = "append" => h[v].n < h'[w].n
          /\ \A q \in outbox : q.seq < h'[w].n
      BY <1>1, <2>2 DEF OutboxInv, SeqInv
    <3>2. \A q \in outbox' : q.seq <= seq'
      BY <1>1, <2>4 DEF OutboxInv, SeqInv
    <3>3. ASSUME NEW v \in Handlers, h'[v].pc = "append"
          PROVE  h'[v].n <= seq' /\ \A q \in outbox' : q.seq # h'[v].n
      <4>1. CASE v = w
        BY <1>1, <2>2, <2>4, <3>1, <4>1
      <4>2. CASE v # w
        BY <1>1, <2>3, <2>4, <3>3, <4>2 DEF OutboxInv, SeqInv
      <4>3. QED
        BY <4>1, <4>2
    <3>4. ASSUME NEW u \in Handlers, NEW v \in Handlers, u # v,
                 h'[u].pc = "append", h'[v].pc = "append"
          PROVE  h'[u].n # h'[v].n
      <4>1. CASE u = w
        BY <1>1, <2>2, <2>3, <3>1, <3>4, <4>1
      <4>2. CASE v = w
        BY <1>1, <2>2, <2>3, <3>1, <3>4, <4>2
      <4>3. CASE u # w /\ v # w
        BY <2>3, <3>4, <4>3 DEF OutboxInv, SeqInv
      <4>4. QED
        BY <4>1, <4>2, <4>3
    <3>5. DistinctSeqs'
      BY <2>4 DEF OutboxInv, SeqInv, DistinctSeqs
    <3>6. QED
      BY <3>2, <3>3, <3>4, <3>5 DEF SeqInv
  <2>6. QED
    BY <2>4, <2>5 DEF OutboxInv, AuditInv
<1>3. CASE EmitAppend(w)
  <2> DEFINE new == [seq |-> h[w].n, what |-> h[w].what]
  <2>1. /\ outbox' = outbox \cup {new} /\ seq' = seq /\ applied' = applied
        /\ h[w].pc = "append"
    BY <1>3 DEF EmitAppend, AuditRow, At
  <2>2. h[w].what \notin Events
    BY <2>1, Typed DEF OpOK
  <2>3. PICK q \in Handler : Moves(w, q) /\ Calm(q)
    BY <1>3, CalmSteps, ZenonT(30)
  <2>4. \A v \in Handlers : h'[v].pc = "append" => v # w /\ h[v].pc = "append"
                                                   /\ h'[v].n = h[v].n
    BY <2>3, Others DEF TypeInv, Moves, Calm
  <2>5. SeqInv'
    <3>1. \A r \in outbox' : r.seq <= seq'
      BY <2>1 DEF OutboxInv, SeqInv
    <3>2. \A v \in Handlers : h'[v].pc = "append" =>
            h'[v].n <= seq' /\ \A r \in outbox' : r.seq # h'[v].n
      <4>1. SUFFICES ASSUME NEW v \in Handlers, h'[v].pc = "append"
                     PROVE  h'[v].n <= seq' /\ \A r \in outbox' : r.seq # h'[v].n
        OBVIOUS
      <4>2. v # w /\ h[v].pc = "append" /\ h'[v].n = h[v].n
        BY <2>4, <4>1
      <4>3. h[v].n <= seq /\ h[v].n # h[w].n /\ \A r \in outbox : r.seq # h[v].n
        BY <2>1, <4>2 DEF OutboxInv, SeqInv
      <4>4. QED
        BY <2>1, <4>2, <4>3
    <3>3. DistinctSeqs'
      BY <2>1 DEF OutboxInv, SeqInv, DistinctSeqs
    <3>4. ASSUME NEW u \in Handlers, NEW v \in Handlers, u # v,
                 h'[u].pc = "append", h'[v].pc = "append"
          PROVE  h'[u].n # h'[v].n
      BY <2>4, <3>4 DEF OutboxInv, SeqInv
    <3>5. QED
      BY <3>1, <3>2, <3>3, <3>4 DEF SeqInv
  <2>6. AuditInv'
    <3>1. new.what \notin Events
      BY <2>2
    <3> HIDE DEF new
    <3>2. \A r \in outbox' : r.what \in Events => r.what \in applied'
      BY <2>1, <3>1 DEF OutboxInv, AuditInv
    <3>3. \A e \in applied' : \E r \in outbox' : r.what = e
      BY <2>1 DEF OutboxInv, AuditInv
    <3>4. ASSUME NEW r \in outbox', NEW s \in outbox', r.what \in Events, r.what = s.what
          PROVE  r = s
      <4>1. r \in outbox /\ s \in outbox
        BY <2>1, <3>1, <3>4
      <4>2. QED
        BY <3>4, <4>1 DEF OutboxInv, AuditInv
    <3>5. QED
      BY <3>2, <3>3, <3>4 DEF AuditInv
  <2>7. QED
    BY <2>5, <2>6 DEF OutboxInv
<1>4. QED
  BY <1>2, <1>3

LEMMA BookMoves ==
  ASSUME TypeInv, NEW w \in Handlers, RecordEvent(w) \/ BeginTx(w)
  PROVE  \E r : Moves(w, r) /\ r.pc \notin {"append", "treasury"}
<1>1. CASE RecordEvent(w) /\ h[w].ev \notin recorded
  <2> DEFINE r == [h[w] EXCEPT !.pc = "begin"]
  <2>1. r \in Handler /\ r.pc = "begin"
    BY Typed DEF Handler, PC
  <2>2. Moves(w, r)
    BY <1>1, <2>1, BecomeMoves DEF RecordEvent, Goto, TypeInv
  <2>3. QED
    BY <2>1, <2>2, ZenonT(30)
<1>2. CASE BeginTx(w) /\ (bal.exists \/ h[w].op = "confirm")
  <2> DEFINE r == [h[w] EXCEPT !.pc = "commit", !.row = bal, !.fresh = TRUE]
  <2>1. r \in Handler
    <3>1. [h[w] EXCEPT !.pc = "commit"] \in Handler
      BY Typed, Locals, ZenonT(30) DEF PC
    <3>2. [[h[w] EXCEPT !.pc = "commit"] EXCEPT !.row = bal] \in Handler
      BY <3>1, Typed, Locals, ZenonT(30)
    <3>3. QED
      BY <3>2, Locals, ZenonT(30)
  <2>2. r.pc = "commit"
    BY Typed DEF Handler
  <2>3. Moves(w, r)
    BY <1>2, <2>1, BecomeMoves DEF BeginTx, TypeInv
  <2>4. QED
    BY <2>2, <2>3, ZenonT(30)
<1>3. CASE \E r \in Handler : Moves(w, r) /\ Calm(r)
  BY <1>3 DEF Calm
<1>4. QED
  BY <1>1, <1>2, <1>3, CalmSteps, ZenonT(30)

(* The other steps of a handler.                                           *)
LEMMA QuietSteps ==
  ASSUME TypeInv, NEW w \in Handlers,
         \/ \E e \in Events : OnConfirmation(w, e) \/ OnReorg(w, Info[e].block)
         \/ ManualRequest(w)
         \/ \E op \in {"lock", "release"} : Lock(w, op)
         \/ RecordEvent(w) \/ RecordEventFails(w) \/ BeginTx(w) \/ Abort(w) \/ Restore(w)
         \/ CheckBalance(w) \/ GetOpenRequest(w) \/ RequestFunding(w) \/ Crash(w)
         \/ \E f \in Requests : InsertRequest(w, f)
  PROVE  /\ \E r : Moves(w, r) /\ r.pc # "append"
         /\ UNCHANGED <<seq, outbox, applied, delivered, published, drain>>
<1>1. UNCHANGED <<seq, outbox, applied, delivered, published, drain>>
  BY ZenonT(30) DEF OnConfirmation, OnReorg, ManualRequest, Lock, RecordEvent, RecordEventFails,
     BeginTx, Abort, Restore, CheckBalance, GetOpenRequest, RequestFunding, Crash,
     InsertRequest, outboxVars
<1>2. CASE \E r \in Handler : Moves(w, r) /\ Calm(r)
  BY <1>1, <1>2, ZenonT(30) DEF Calm
<1>3. ASSUME NEW f \in Requests, InsertRequest(w, f), OpenRequests = {}
      PROVE  \E r : Moves(w, r) /\ r.pc # "append"
  <2> DEFINE r == [h[w] EXCEPT !.pc = "treasury", !.req = f]
  <2>1. r.pc = "treasury"
    BY Typed DEF Handler
  <2>2. Moves(w, r)
    BY <1>3, InsertMoves, ZenonT(30)
  <2> HIDE DEF r
  <2>3. QED
    BY <2>1, <2>2, ZenonT(30)
<1>4. CASE RecordEvent(w) \/ BeginTx(w)
  BY <1>1, <1>4, BookMoves
<1>5. CASE \E f \in Requests : InsertRequest(w, f)
  <2>1. PICK f \in Requests : InsertRequest(w, f)
    BY <1>5
  <2>2. CASE OpenRequests = {}
    BY <1>1, <1>3, <2>1, <2>2, ZenonT(30)
  <2>3. CASE OpenRequests # {}
    <3>1. \E r \in Handler : Moves(w, r) /\ Calm(r)
      BY <2>1, <2>3, CalmSteps, ZenonT(30)
    <3>2. QED
      BY <1>2, <3>1
  <2>4. QED
    BY <2>2, <2>3, ZenonT(30)
<1>6. QED
  BY <1>2, <1>4, <1>5, CalmSteps, ZenonT(30)

LEMMA NextOutbox == TypeInv /\ EventInv /\ OutboxInv /\ [Next]_vars => OutboxInv'
<1> SUFFICES ASSUME TypeInv, EventInv, OutboxInv, [Next]_vars PROVE OutboxInv'
  OBVIOUS
<1>1. CASE UNCHANGED <<seq, outbox, applied, h>>
  BY <1>1 DEF OutboxInv, SeqInv, AuditInv, DistinctSeqs
<1>2. ASSUME NEW w \in Handlers, Commit(w) PROVE OutboxInv'
  <2>1. CASE h[w].op = "confirm"
    BY <1>2, <2>1, CommitOutbox
  <2>2. CASE h[w].op # "confirm"
    <3>1. UNCHANGED <<seq, outbox, applied>>
      BY <1>2, <2>2 DEF Commit, CommitGuarded
    <3>2. QED
      BY <1>2, <3>1, CalmSteps, OutboxQuiet, ZenonT(30) DEF Calm
  <2>3. QED
    BY <2>1, <2>2
<1>3. ASSUME NEW w \in Handlers, Step(w) PROVE OutboxInv'
  BY <1>2, <1>3, EmitOutbox, QuietSteps, OutboxQuiet, ZenonT(30) DEF Step
<1>4. ASSUME NEW w \in Handlers,
             \/ RecordEventFails(w) \/ ManualRequest(w) \/ Crash(w)
             \/ \E e \in Events : OnConfirmation(w, e) \/ OnReorg(w, Info[e].block)
             \/ \E op \in {"lock", "release"} : Lock(w, op)
      PROVE  OutboxInv'
  BY <1>4, QuietSteps, OutboxQuiet, ZenonT(30)
<1>5. CASE UNCHANGED vars
  BY <1>1, <1>5, ZenonT(30) DEF vars, ledgerVars, outboxVars
<1>6. CASE \E f \in Requests, s \in FundingStates : TreasuryCallback(f, s)
  BY <1>1, <1>6, ZenonT(30) DEF TreasuryCallback, outboxVars
<1>7. CASE DrainNext /\ UNCHANGED ledgerVars
  BY <1>1, <1>7 DEF DrainNext, DrainStep, DrainList, DrainDeliver, DrainMark,
     DrainDeliverFails, DrainStops, ledgerVars
<1>8. QED
  BY <1>3, <1>4, <1>5, <1>6, <1>7, ZenonT(30) DEF Next

(* Sequence numbers of the wallet's audit rows are distinct: EmitSeq and   *)
(* EmitAppend of two calls and transactions that emit may interleave.      *)
THEOREM SeqsDistinct == Spec => []DistinctSeqs
<1>1. OutboxInv => DistinctSeqs
  BY DEF OutboxInv, SeqInv
<1>2. QED
  BY <1>1, InitTypes, NextTypes, InitEvents, NextEvents, InitOutbox, NextOutbox, PTL DEF Spec

(* Every event that ApplyConfirmationEvent commits has one audit row, and  *)
(* no other event has any.                                                 *)
THEOREM EventsAudited == Spec => []AuditedOnce
<1>1. OutboxInv => AuditedOnce
  <2> SUFFICES ASSUME OutboxInv, NEW e \in Events
               PROVE  Cardinality({r \in outbox : r.what = e}) = IF e \in applied THEN 1 ELSE 0
    BY DEF AuditedOnce
  <2> DEFINE S == {r \in outbox : r.what = e}
  <2>1. CASE e \in applied
    <3>1. PICK r \in outbox : r.what = e
      BY <2>1 DEF OutboxInv, AuditInv
    <3>2. S = {r}
      BY <3>1 DEF OutboxInv, AuditInv
    <3>3. QED
      BY <2>1, <3>2, FS_Singleton, ZenonT(30)
  <2>2. CASE e \notin applied
    <3>1. S = {}
      BY <2>2 DEF OutboxInv, AuditInv
    <3>2. QED
      BY <2>2, <3>1, FS_EmptySet, ZenonT(30)
  <2>3. QED
    BY <2>1, <2>2
<1>2. QED
  BY <1>1, InitTypes, NextTypes, InitEvents, NextEvents, InitOutbox, NextOutbox, PTL DEF Spec

-----------------------------------------------------------------------------
(* The drainers: a batch holds rows of the outbox, and what a drainer      *)
(* marks it has published.                                                 *)
DrainInv ==
  /\ \A d \in Drainers : /\ drain[d].batch \subseteq Seqs
                         /\ drain[d].pc = "mark" => drain[d].batch \subseteq published
  /\ DeliveredIsPublished

LEMMA InitDrain == Init => DrainInv
  BY DEF Init, OutboxInit, DrainInv, DeliveredIsPublished, Resting

LEMMA DrainSteps == TypeInv /\ DrainInv /\ DrainNext => DrainInv'
<1> SUFFICES ASSUME TypeInv, DrainInv, NEW d \in Drainers,
                    DrainStep(d) \/ DrainDeliverFails(d) \/ DrainStops(d)
             PROVE  DrainInv'
  BY DEF DrainNext
<1>0. drain \in [Drainers -> [pc : {"wait", "deliver", "mark"}, batch : SUBSET Nat]]
  BY DEF TypeInv, TypeOK, OutboxTypeOK
<1>1. outbox' = outbox
  BY DEF DrainStep, DrainList, DrainDeliver, DrainMark, DrainDeliverFails, DrainStops
<1>2. Seqs' = Seqs
  BY <1>1 DEF Seqs
<1>3. ASSUME NEW q, drain' = [drain EXCEPT ![d] = q], q.batch \subseteq Seqs,
             q.pc = "mark" => q.batch \subseteq published',
             published \subseteq published', published' \subseteq Seqs,
             delivered' \subseteq published'
      PROVE  DrainInv'
  BY <1>0, <1>2, <1>3 DEF DrainInv, DeliveredIsPublished
<1>4. Resting.batch = {} /\ Resting.pc = "wait"
  BY DEF Resting
<1>5. CASE DrainList(d)
  <2> DEFINE q == [pc |-> "deliver", batch |-> ListUndelivered]
  <2>1. drain' = [drain EXCEPT ![d] = q] /\ UNCHANGED <<delivered, published>>
    BY <1>5 DEF DrainList
  <2>2. q.pc = "deliver" /\ q.batch \subseteq Seqs
    BY DEF ListUndelivered
  <2> HIDE DEF q
  <2>3. delivered' \subseteq published' /\ published' \subseteq Seqs
    BY <2>1 DEF DrainInv, DeliveredIsPublished
  <2>4. QED
    BY <1>3, <2>1, <2>2, <2>3, ZenonT(30)
<1>6. CASE DrainDeliver(d)
  <2> DEFINE q == [drain[d] EXCEPT !.pc = "mark"]
  <2>1. drain' = [drain EXCEPT ![d] = q] /\ q.batch = drain[d].batch
    BY <1>0, <1>6 DEF DrainDeliver
  <2> HIDE DEF q
  <2>2. published' = published \cup drain[d].batch /\ delivered' = delivered
    BY <1>6 DEF DrainDeliver
  <2>3. /\ drain[d].batch \subseteq Seqs
        /\ delivered' \subseteq published' /\ published' \subseteq Seqs
    BY <2>2 DEF DrainInv, DeliveredIsPublished
  <2>4. QED
    BY <1>3, <2>1, <2>2, <2>3, ZenonT(30)
<1>7. CASE DrainMark(d)
  <2>1. PICK n \in drain[d].batch :
          /\ delivered' = delivered \cup {n}
          /\ drain' = [drain EXCEPT ![d] =
                         IF drain[d].batch = {n} THEN Resting
                         ELSE [pc |-> "mark", batch |-> drain[d].batch \ {n}]]
    BY <1>7, ZenonT(30) DEF DrainMark
  <2> DEFINE q == IF drain[d].batch = {n} THEN Resting
                  ELSE [pc |-> "mark", batch |-> drain[d].batch \ {n}]
  <2>2. q.batch \subseteq drain[d].batch
    BY <1>4
  <2>3. drain' = [drain EXCEPT ![d] = q] /\ delivered' = delivered \cup {n}
    BY <2>1
  <2> HIDE DEF q
  <2>4. drain[d].batch \subseteq published /\ drain[d].batch \subseteq Seqs
    BY <1>7 DEF DrainMark, DrainInv
  <2>5. published' = published /\ published \subseteq Seqs /\ delivered' \subseteq published'
    BY <1>7, <2>3, <2>4 DEF DrainMark, DrainInv, DeliveredIsPublished
  <2>6. QED
    BY <1>3, <2>2, <2>3, <2>4, <2>5, ZenonT(30)
<1>8. CASE DrainDeliverFails(d) \/ DrainStops(d)
  <2>1. /\ drain' = [drain EXCEPT ![d] = Resting] /\ delivered' = delivered
        /\ published \subseteq published' /\ published' \subseteq published \cup drain[d].batch
    BY <1>8 DEF DrainDeliverFails, DrainStops
  <2>2. QED
    BY <1>3, <1>4, <2>1, ZenonT(30) DEF DrainInv, DeliveredIsPublished
<1>9. QED
  BY <1>5, <1>6, <1>7, <1>8 DEF DrainStep

LEMMA NextDrain == TypeInv /\ DrainInv /\ [Next]_vars => DrainInv'
<1> SUFFICES ASSUME TypeInv, DrainInv, [Next]_vars PROVE DrainInv'
  OBVIOUS
<1>1. CASE UNCHANGED <<delivered, published, drain>> /\ outbox \subseteq outbox'
  <2>1. Seqs \subseteq Seqs'
    BY <1>1 DEF Seqs
  <2>2. QED
    BY <1>1, <2>1 DEF DrainInv, DeliveredIsPublished
<1>2. ASSUME NEW w \in Handlers, Step(w) PROVE DrainInv'
  <2>1. CASE Commit(w) \/ EmitSeq(w) \/ EmitAppend(w)
    BY <1>1, <2>1 DEF Commit, CommitGuarded, EmitSeq, EmitAppend
  <2>2. QED
    BY <1>1, <1>2, <2>1, QuietSteps, ZenonT(30) DEF Step
<1>3. ASSUME NEW w \in Handlers,
             \/ RecordEventFails(w) \/ ManualRequest(w) \/ Crash(w)
             \/ \E e \in Events : OnConfirmation(w, e) \/ OnReorg(w, Info[e].block)
             \/ \E op \in {"lock", "release"} : Lock(w, op)
      PROVE  DrainInv'
  BY <1>1, <1>3, QuietSteps, ZenonT(30)
<1>4. CASE UNCHANGED vars
  BY <1>1, <1>4 DEF vars, outboxVars
<1>5. CASE \E f \in Requests, s \in FundingStates : TreasuryCallback(f, s)
  BY <1>1, <1>5 DEF TreasuryCallback, outboxVars
<1>6. QED
  BY <1>2, <1>3, <1>4, <1>5, DrainSteps DEF Next

(* A row that is marked delivered was published, whatever fails between    *)
(* Deliver and MarkAuditDelivered of any number of replicas.               *)
THEOREM DeliveredWasPublished == Spec => []DeliveredIsPublished
<1>1. DrainInv => DeliveredIsPublished
  BY DEF DrainInv
<1>2. QED
  BY <1>1, InitTypes, NextTypes, InitDrain, NextDrain, PTL DEF Spec

-----------------------------------------------------------------------------
(* Funding: any two open requests are the same, and one the treasury has   *)
(* heard of, or is about to, is recorded.                                  *)
FundInv ==
  /\ \A f, g \in OpenRequests : f = g
  /\ \A w \in Handlers : h[w].pc = "treasury" => funding[h[w].req] # "ABSENT"
  /\ \A f \in treasury : funding[f] # "ABSENT"

LEMMA InitFund == Init => FundInv
  BY DEF Init, FundInv, OpenRequests, Idle

LEMMA FundQuiet ==
  ASSUME TypeInv, FundInv, NEW w \in Handlers, NEW r, Moves(w, r), r.pc # "treasury",
         UNCHANGED <<funding, treasury>>
  PROVE  FundInv'
<1>1. h'[w] = r
  BY DEF Moves
<1>2. \A v \in Handlers \ {w} : h'[v].pc = h[v].pc /\ h'[v].req = h[v].req
  BY Others DEF TypeInv
<1>3. QED
  BY <1>1, <1>2 DEF FundInv, OpenRequests

LEMMA FundSteps ==
  ASSUME TypeInv, FundInv, NEW w \in Handlers,
         RequestFunding(w) \/ \E f \in Requests : InsertRequest(w, f)
  PROVE  FundInv'
<1>1. CASE RequestFunding(w)
  <2>1. PICK r \in Handler : Moves(w, r) /\ Calm(r)
    BY <1>1, CalmSteps, ZenonT(30)
  <2>2. /\ funding' = funding /\ treasury' \subseteq treasury \cup {h[w].req}
        /\ funding[h[w].req] # "ABSENT"
    BY <1>1 DEF RequestFunding, At, FundInv
  <2>3. h'[w] = r /\ r.pc # "treasury"
    BY <2>1 DEF Moves, Calm
  <2>4. \A v \in Handlers \ {w} : h'[v].pc = h[v].pc /\ h'[v].req = h[v].req
    BY <2>1, Others, ZenonT(30) DEF TypeInv
  <2>5. QED
    BY <2>2, <2>3, <2>4 DEF FundInv, OpenRequests
<1>2. ASSUME NEW f \in Requests, InsertRequest(w, f) PROVE FundInv'
  <2>1. CASE OpenRequests # {}
    <3>1. UNCHANGED <<funding, treasury>>
      BY <1>2, <2>1, ZenonT(30) DEF InsertRequest
    <3>2. QED
      BY <1>2, <2>1, <3>1, CalmSteps, FundQuiet, ZenonT(30) DEF Calm
  <2>2. CASE OpenRequests = {}
    <3> DEFINE r == [h[w] EXCEPT !.pc = "treasury", !.req = f]
    <3>1. Moves(w, r)
      BY <1>2, <2>2, InsertMoves, ZenonT(30)
    <3>2. h'[w] = r /\ r.req = f
      BY <3>1, Typed DEF Moves, Handler
    <3> HIDE DEF r
    <3>3. \A v \in Handlers \ {w} : h'[v].pc = h[v].pc /\ h'[v].req = h[v].req
      BY <3>1, Others DEF TypeInv
    <3>4. /\ funding' = [funding EXCEPT ![f] = "REQUESTED"] /\ treasury' = treasury
          /\ funding \in [Requests -> FundingStates] /\ treasury \subseteq Requests
      BY <1>2, <2>2, Typed, ZenonT(30) DEF InsertRequest
    <3>5. OpenRequests' \subseteq {f}
      BY <2>2, <3>4 DEF OpenRequests
    <3>6. \A g \in Requests : funding[g] # "ABSENT" => funding'[g] # "ABSENT"
      BY <3>4
    <3>7. \A v \in Handlers : h[v].pc = "treasury" => h[v].req \in Requests
      BY Typed DEF OpOK
    <3>8. \A v \in Handlers : h'[v].pc = "treasury" => funding'[h'[v].req] # "ABSENT"
      BY <3>2, <3>3, <3>4, <3>6, <3>7 DEF FundInv
    <3>9. QED
      BY <3>4, <3>5, <3>6, <3>8 DEF FundInv
  <2>3. QED
    BY <2>1, <2>2
<1>3. QED
  BY <1>1, <1>2

LEMMA NextFund == TypeInv /\ FundInv /\ [Next]_vars => FundInv'
<1> SUFFICES ASSUME TypeInv, FundInv, [Next]_vars PROVE FundInv'
  OBVIOUS
<1>1. CASE UNCHANGED <<funding, treasury, h>>
  BY <1>1 DEF FundInv, OpenRequests
<1>2. ASSUME NEW w \in Handlers,
             \/ RecordEventFails(w) \/ ManualRequest(w) \/ Crash(w)
             \/ \E e \in Events : OnConfirmation(w, e) \/ OnReorg(w, Info[e].block)
             \/ \E op \in {"lock", "release"} : Lock(w, op)
             \/ Commit(w) \/ Abort(w) \/ Restore(w) \/ CheckBalance(w) \/ GetOpenRequest(w)
             \/ EmitAppend(w)
      PROVE  FundInv'
  <2>1. UNCHANGED <<funding, treasury>>
    BY <1>2, ZenonT(30) DEF RecordEventFails, OnReorg, ManualRequest, Crash, OnConfirmation, Lock,
       Commit, CommitGuarded, Abort, Restore, CheckBalance, GetOpenRequest, EmitAppend
  <2>2. QED
    BY <1>2, <2>1, CalmSteps, FundQuiet, ZenonT(30) DEF Calm
<1>3. ASSUME NEW w \in Handlers, RecordEvent(w) \/ BeginTx(w) PROVE FundInv'
  <2>1. UNCHANGED <<funding, treasury>>
    BY <1>3 DEF RecordEvent, BeginTx
  <2>2. QED
    BY <1>3, <2>1, BookMoves, FundQuiet, ZenonT(30)
<1>4. ASSUME NEW w \in Handlers, EmitSeq(w) PROVE FundInv'
  <2> DEFINE r == [h[w] EXCEPT !.pc = "append", !.n = NextAuditSeq]
  <2>1. Moves(w, r)
    BY <1>4, EmitSeqMoves, ZenonT(30)
  <2>2. r.pc = "append"
    BY Typed DEF Handler
  <2> HIDE DEF r
  <2>3. QED
    BY <1>4, <2>1, <2>2, FundQuiet DEF EmitSeq
<1>5. ASSUME NEW f \in Requests, NEW s \in FundingStates, TreasuryCallback(f, s)
      PROVE  FundInv'
  <2>1. /\ funding \in [Requests -> FundingStates] /\ treasury \subseteq Requests
        /\ funding' = [funding EXCEPT ![f] = s] /\ s \notin {"ABSENT", "REQUESTED"}
        /\ UNCHANGED <<treasury, h>>
    BY <1>5 DEF TypeInv, TypeOK, TreasuryCallback
  <2>2. OpenRequests' \subseteq OpenRequests
    BY <2>1 DEF OpenRequests
  <2>3. \A g \in Requests : funding[g] # "ABSENT" => funding'[g] # "ABSENT"
    BY <2>1
  <2>4. \A w \in Handlers : h[w].pc = "treasury" => h[w].req \in Requests
    BY DEF TypeInv, OpOK
  <2>5. QED
    BY <2>1, <2>2, <2>3, <2>4 DEF FundInv
<1>6. ASSUME NEW w \in Handlers, Step(w) PROVE FundInv'
  BY <1>2, <1>3, <1>4, <1>6, FundSteps, ZenonT(30) DEF Step
<1>7. CASE UNCHANGED vars \/ UNCHANGED ledgerVars
  BY <1>1, <1>7 DEF vars, ledgerVars
<1>8. QED
  BY <1>2, <1>5, <1>6, <1>7, ZenonT(30) DEF Next

(* At most one request is open, however many evaluations and manual        *)
(* requests race, and the treasury hears of recorded requests only.        *)
THEOREM OneRequestOpen == Spec => []OneOpenRequest
<1>1. FundInv => OneOpenRequest
  <2> SUFFICES ASSUME FundInv PROVE Cardinality(OpenRequests) <= 1
    BY DEF OneOpenRequest, FundInv
  <2>1. CASE OpenRequests = {}
    BY <2>1, FS_EmptySet
  <2>2. CASE OpenRequests # {}
    <3>1. PICK f : OpenRequests = {f}
      BY <2>2 DEF FundInv
    <3>2. Cardinality({f}) = 1
      BY FS_Singleton
    <3>3. QED
      BY <3>1, <3>2
  <2>3. QED
    BY <2>1, <2>2
<1>2. QED
  BY <1>1, InitTypes, NextTypes, InitFund, NextFund, PTL DEF Spec
=============================================================================
