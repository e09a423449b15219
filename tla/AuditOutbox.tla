---------------------------- MODULE AuditOutbox ----------------------------
(***************************************************************************)
(* Package audit: the outbox of one wallet and the workers that drain it   *)
(* to the audit log.  An emitter takes a sequence number and inserts a row *)
(* in two statements; every replica of the service runs a drainer, which   *)
(* lists a batch, publishes it and marks its rows one by one.              *)
(***************************************************************************)
EXTENDS Integers, FiniteSets, FiniteSetsExt

CONSTANTS Drainers,   \* one background worker per replica
          BatchSize,  \* rows per Drain, 100 in the code
          MaxFaults   \* bound of the model on the number of faults

ASSUME OutboxAssumption == BatchSize \in Nat \ {0} /\ MaxFaults \in Nat

VARIABLES
  seq,        \* the wallet's counter in table audit_seq
  outbox,     \* rows of table audit_outbox: sequence number and subject
  delivered,  \* sequence numbers of the rows with delivered = true
  published,  \* sequence numbers the audit log has received
  drain,      \* drain[d]: where Drain is, and the rows left in its batch
  faults      \* faults so far

outboxVars == <<seq, outbox, delivered, published, drain, faults>>

Seqs == {r.seq : r \in outbox}

Resting == [pc |-> "wait", batch |-> {}]

OutboxTypeOK(Subjects) ==
  /\ seq \in Nat
  /\ outbox \subseteq [seq : Nat, what : Subjects]
  /\ delivered \subseteq Nat /\ published \subseteq Nat
  /\ drain \in [Drainers -> [pc : {"wait", "deliver", "mark"}, batch : SUBSET Nat]]
  /\ faults \in 0..MaxFaults

OutboxInit ==
  /\ seq = 0 /\ faults = 0
  /\ outbox = {} /\ delivered = {} /\ published = {}
  /\ drain = [d \in Drainers |-> Resting]

(* A call fails, a reply is lost, or a process dies.                       *)
Fault == faults < MaxFaults /\ faults' = faults + 1

(* Mutant: the number is MAX(seq) + 1 over the rows of the outbox.         *)
MaxSeqPlusOne == Max(Seqs \cup {0}) + 1

(* The number NextAuditSeq hands out; the counter moves to it.             *)
NextAuditSeq == seq + 1

(* The row AppendAuditEvent inserts, not delivered.                        *)
AuditRow(n, what) == [seq |-> n, what |-> what]

(* ListUndeliveredAuditEvents: the lowest undelivered rows.                *)
ListUndelivered ==
  LET open == Seqs \ delivered
  IN  {n \in open : Cardinality({m \in open : m < n}) < BatchSize}

-----------------------------------------------------------------------------
(* A tick of the background worker calls Drain, which lists a batch.       *)
DrainList(d) ==
  /\ drain[d].pc = "wait" /\ ListUndelivered # {}
  /\ drain' = [drain EXCEPT ![d] = [pc |-> "deliver", batch |-> ListUndelivered]]
  /\ UNCHANGED <<seq, outbox, delivered, published, faults>>

(* The sink takes the batch.                                               *)
DrainDeliver(d) ==
  /\ drain[d].pc = "deliver"
  /\ published' = published \cup drain[d].batch
  /\ drain' = [drain EXCEPT ![d].pc = "mark"]
  /\ UNCHANGED <<seq, outbox, delivered, faults>>

(* The sink reports an error; it may have taken part of the batch.         *)
DrainDeliverFails(d) ==
  /\ drain[d].pc = "deliver" /\ Fault
  /\ \E some \in SUBSET drain[d].batch : published' = published \cup some
  /\ drain' = [drain EXCEPT ![d] = Resting]
  /\ UNCHANGED <<seq, outbox, delivered>>

(* Mutant: rows are marked before they are published.                      *)
DrainMarksFirst(d) ==
  /\ drain[d].pc \in {"deliver", "mark"}
  /\ \E n \in drain[d].batch :
       /\ \A m \in drain[d].batch : n <= m
       /\ delivered' = delivered \cup {n}
       /\ drain' = [drain EXCEPT ![d] = IF @.batch = {n} THEN Resting
                                        ELSE [@ EXCEPT !.batch = @ \ {n}]]
  /\ UNCHANGED <<seq, outbox, published, faults>>

(* Mutant: the loop ends after its first row, and the worker hangs.        *)
DrainMarkStops(d) ==
  /\ drain[d].pc = "mark"
  /\ delivered' = delivered \cup {Min(drain[d].batch)}
  /\ UNCHANGED <<seq, outbox, published, drain, faults>>

(* MarkAuditDelivered of the next row of the batch.                        *)
DrainMark(d) ==
  /\ drain[d].pc = "mark"
  /\ \E n \in drain[d].batch :
       /\ \A m \in drain[d].batch : n <= m
       /\ delivered' = delivered \cup {n}
       /\ drain' = [drain EXCEPT ![d] = IF @.batch = {n} THEN Resting
                         ELSE [pc |-> "mark", batch |-> @.batch \ {n}]]
  /\ UNCHANGED <<seq, outbox, published, faults>>

(* An update fails, or the process stops or dies between two calls.        *)
DrainStops(d) ==
  /\ drain[d].pc # "wait" /\ Fault
  /\ drain' = [drain EXCEPT ![d] = Resting]
  /\ UNCHANGED <<seq, outbox, delivered, published>>

DrainStep(d) == DrainList(d) \/ DrainDeliver(d) \/ DrainMark(d)

DrainNext == \E d \in Drainers :
               DrainStep(d) \/ DrainDeliverFails(d) \/ DrainStops(d)

-----------------------------------------------------------------------------
(* A row counts as delivered only once the audit log has it, whatever      *)
(* fails between Deliver and MarkAuditDelivered: at-least-once delivery.   *)
DeliveredIsPublished == delivered \subseteq published /\ published \subseteq Seqs

(* Two events of a wallet never share a sequence number, although          *)
(* NextAuditSeq and AppendAuditEvent are two calls.                        *)
DistinctSeqs == \A r, s \in outbox : r.seq = s.seq => r = s

(* A row that reached the outbox is delivered in the end: failed and       *)
(* interrupted drains are repeated by the next tick.                       *)
EventuallyDelivered(n) == (n \in Seqs) ~> (n \in delivered)
=============================================================================
