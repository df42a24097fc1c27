--------------------------- MODULE PostingJobsProofs ---------------------------
(***************************************************************************)
(* Theorems about CreditPostingJobs for any batches, pages, runs and       *)
(* faults.  Whatever is confirmed, an event carries and a run works for is *)
(* linked to the import or cancelled; a batch once POSTED stays so; and a  *)
(* run that holds the job's lease works for the job's own confirmation.    *)
(***************************************************************************)
EXTENDS CreditPostingJobs, FiniteSetTheorems, WellFoundedInduction, TLAPS

JobRows == [st : JobStatuses \cup {"NONE"}, fp : SUBSET Batches, resume : BOOLEAN,
            pause : BOOLEAN, holder : Runs \cup {None}, live : BOOLEAN]
BatchRows == [st : BatchStatuses, n : Nat, posted : Nat, beat : BOOLEAN]
Receipts == [pc : {"idle", "read", "trigger", "uncertain"}, fp : SUBSET Batches,
             state : {"POSTING", "PARTIAL_FAILED", "COMPLETE", "READY"}, posted : Nat]
RunRecords == [pc : {"idle", "claim", "check", "process", "begin", "step", "total",
                     "close", "result", "finish", "release", "report"},
               direct : BOOLEAN, fp : SUBSET Batches, left : Nat, resume : BOOLEAN,
               b : Batches \cup {None}, at : Nat, ok : BOOLEAN, seen : Nat, count : Nat,
               out : JobStatuses]

Gone(b) == batch[b].st = "CANCELLED"
\* What a preview names has all its entries, or is none of the import's any more; and it never ceases to be so.
Done(b) == Size[b] = 0 \/ batch[b].st = "POSTED" \/ Gone(b)
Known(fp) == \A b \in fp : b \in linked \/ Gone(b)

BatchOK(b) ==
    /\ batch[b].n <= Size[b]
    /\ batch[b].st \in {"NONE", "CANCELLED"} => batch[b].n = 0
    /\ batch[b].st \notin {"NONE", "CANCELLED"} => b \in linked
    /\ batch[b].st = "POSTED" => batch[b].n = Size[b]
    /\ batch[b].st = "DRY_RUN" /\ batch[b].posted = 0 => batch[b].n = 0

ClientOK(C) ==
    /\ Known(C.fp)
    /\ C.pc = "read" /\ C.state = "COMPLETE" => \A b \in C.fp : Done(b)

\* The steps of a run between its claim and its release.
Claimed == {"check", "process", "begin", "step", "total", "close", "result", "finish", "release"}

\* A step that succeeded has posted an item, and the total that was read afterwards counts one at least.
RunOK(R) ==
    /\ Known(R.fp)
    /\ R.pc \in {"begin", "step", "total", "close"} => R.b \in Batches
    /\ R.pc \in Claimed /\ ~R.direct => R.left > 0
    /\ R.pc = "total" /\ R.ok => batch[R.b].n > 0
    /\ R.pc = "close" => R.count <= batch[R.b].n /\ (R.ok => R.count > 0)
    /\ R.pc \in {"claim", "check", "finish", "release"} => ~R.direct
    /\ R.pc \in {"finish", "release"} /\ R.out = "SUCCEEDED" => \A b \in R.fp : Done(b)

LeaseOK(r) == run[r].pc \in Claimed /\ ~run[r].direct /\ Holds(r) => job.fp = run[r].fp

JobOK == job.st = "SUCCEEDED" => \A b \in job.fp : Done(b)

JobsInv ==
    /\ job \in JobRows /\ linked \subseteq Batches /\ events \subseteq SUBSET Batches
    /\ batch \in [Batches -> BatchRows] /\ client \in [Clients -> Receipts] /\ run \in [Runs -> RunRecords]
    /\ \A b \in Batches : BatchOK(b)
    /\ \A c \in Clients : ClientOK(client[c])
    /\ \A r \in Runs : RunOK(run[r]) /\ LeaseOK(r)
    /\ \A e \in events : Known(e)
    /\ JobOK

LEMMA JobsStart == Init => JobsInv
<1> SUFFICES ASSUME Init PROVE JobsInv
  OBVIOUS
<1>1. NoJob \in JobRows /\ NoJob.st = "NONE"
  BY DEF NoJob, JobRows, JobStatuses
<1>2. Away \in Receipts /\ Away.pc = "idle" /\ Away.fp = {}
  BY DEF Away, Receipts
<1>3. Idle \in RunRecords /\ Idle.pc = "idle" /\ Idle.fp = {}
  BY DEF Idle, RunRecords, JobStatuses
<1>4. batch \in [Batches -> BatchRows] /\ linked \subseteq Batches
  BY BatchAssumption DEF Init, BatchRows, BatchStatuses
<1>5. \A b \in Batches : BatchOK(b)
  BY SizeAssumption DEF Init, BatchOK
<1>6. \A c \in Clients : ClientOK(client[c])
  BY <1>2 DEF Init, ClientOK, Known
<1>7. \A r \in Runs : RunOK(run[r]) /\ LeaseOK(r)
  BY <1>3 DEF Init, RunOK, Known, LeaseOK, Claimed
<1>8. JobOK
  BY <1>1 DEF Init, JobOK
<1> QED BY <1>1, <1>2, <1>3, <1>4, <1>5, <1>6, <1>7, <1>8 DEF Init, JobsInv

(***************************************************************************)
(* What a step of the batches leaves as it was.                            *)
(***************************************************************************)
Forward ==
    /\ batch' \in [Batches -> BatchRows] /\ linked' \subseteq Batches
    /\ \A b \in Batches :
         /\ batch[b].st \in {"CANCELLED", "POSTED"} => batch'[b].st = batch[b].st
         /\ batch[b].n <= batch'[b].n
         /\ b \in linked => b \in linked' \/ batch'[b].st = "CANCELLED"
         /\ BatchOK(b)'

LEMMA StandsStill == JobsInv /\ UNCHANGED <<batch, linked>> => Forward
BY DEF JobsInv, Forward, BatchOK, BatchRows

LEMMA Carries ==
    ASSUME JobsInv, Forward
    PROVE  /\ \A b \in Batches : Done(b) => Done(b)'
           /\ \A fp \in SUBSET Batches : Known(fp) => Known(fp)'
           /\ \A C \in Receipts : ClientOK(C) => ClientOK(C)'
           /\ \A R \in RunRecords : RunOK(R) => RunOK(R)'
<1>1. \A b \in Batches : Done(b) => Done(b)'
  BY DEF Forward, Done, Gone
<1>2. \A fp \in SUBSET Batches : Known(fp) => Known(fp)'
  BY DEF Forward, Known, Gone
<1>3. ASSUME NEW C \in Receipts, ClientOK(C) PROVE ClientOK(C)'
  <2>1. C.fp \in SUBSET Batches
    BY DEF Receipts
  <2> QED BY <1>1, <1>2, <1>3, <2>1 DEF ClientOK
<1>4. ASSUME NEW R \in RunRecords, RunOK(R) PROVE RunOK(R)'
  <2>1. R.fp \in SUBSET Batches /\ R.count \in Nat
    BY DEF RunRecords
  <2>2. \A b \in Batches : batch[b].n \in Nat /\ batch'[b].n \in Nat /\ batch[b].n <= batch'[b].n
    BY DEF Forward, JobsInv, BatchRows
  <2> QED BY <1>1, <1>2, <1>4, <2>1, <2>2 DEF RunOK
<1> QED BY <1>1, <1>2, <1>3, <1>4

\* A step of one run: what it does to the job concerns nobody else who holds it.
LEMMA RunMoves ==
    ASSUME JobsInv, Forward, NEW r \in Runs, NEW R \in RunRecords, run' = [run EXCEPT ![r] = R], RunOK(R)', client' = client,
           events' \subseteq SUBSET Batches, \A e \in events' : Known(e)',
           job' \in JobRows, JobOK',
           \A q \in Runs : Holds(q)' => q = r \/ (Holds(q) /\ job'.fp = job.fp),
           R.pc \in Claimed /\ ~R.direct /\ Holds(r)' => job'.fp = R.fp
    PROVE  JobsInv'
<1>1. run' \in [Runs -> RunRecords] /\ \A q \in Runs : run'[q] = IF q = r THEN R ELSE run[q]
  BY DEF JobsInv
<1>2. \A q \in Runs : run[q] \in RunRecords /\ RunOK(run[q]) /\ LeaseOK(q)
  BY DEF JobsInv
<1>3. ASSUME NEW q \in Runs PROVE RunOK(run[q])' /\ LeaseOK(q)'
  <2>1. CASE q = r
    BY <1>1, <2>1 DEF LeaseOK
  <2>2. CASE q # r
    <3>1. RunOK(run[q])'
      BY <1>1, <1>2, <2>2, Carries
    <3>2. LeaseOK(q)'
      BY <1>1, <1>2, <2>2 DEF LeaseOK
    <3> QED BY <3>1, <3>2
  <2> QED BY <2>1, <2>2
<1>4. \A c \in Clients : client[c] \in Receipts /\ ClientOK(client[c])
  BY DEF JobsInv
<1>5. \A c \in Clients : ClientOK(client[c])'
  BY <1>4, Carries
<1> QED BY <1>1, <1>3, <1>5 DEF JobsInv, Forward

\* A step of one page, of which no run is the object.
LEMMA ClientMoves ==
    ASSUME JobsInv, Forward, NEW c \in Clients, NEW C \in Receipts, client' = [client EXCEPT ![c] = C], ClientOK(C)', run' = run,
           events' \subseteq SUBSET Batches, \A e \in events' : Known(e)',
           job' \in JobRows, JobOK', \A q \in Runs : Holds(q)' => Holds(q) /\ job'.fp = job.fp
    PROVE  JobsInv'
<1>1. client' \in [Clients -> Receipts] /\ \A d \in Clients : client'[d] = IF d = c THEN C ELSE client[d]
  BY DEF JobsInv
<1>2. \A d \in Clients : client[d] \in Receipts /\ ClientOK(client[d])
  BY DEF JobsInv
<1>3. \A d \in Clients : ClientOK(client[d])'
  BY <1>1, <1>2, Carries
<1>4. \A q \in Runs : run[q] \in RunRecords /\ RunOK(run[q]) /\ LeaseOK(q)
  BY DEF JobsInv
<1>5. \A q \in Runs : RunOK(run[q])' /\ LeaseOK(q)'
  BY <1>4, Carries DEF LeaseOK
<1> QED BY <1>1, <1>3, <1>5 DEF JobsInv, Forward

\* A step of neither.
LEMMA OthersMove ==
    ASSUME JobsInv, Forward, UNCHANGED <<client, run, events>>,
           job' \in JobRows, JobOK', \A q \in Runs : Holds(q)' => Holds(q) /\ job'.fp = job.fp
    PROVE  JobsInv'
<1>2. \A d \in Clients : client[d] \in Receipts /\ ClientOK(client[d])
  BY DEF JobsInv
<1>3. \A d \in Clients : ClientOK(client[d])'
  BY <1>2, Carries
<1>4. \A q \in Runs : run[q] \in RunRecords /\ RunOK(run[q]) /\ LeaseOK(q)
  BY DEF JobsInv
<1>5. \A q \in Runs : RunOK(run[q])' /\ LeaseOK(q)'
  BY <1>4, Carries DEF LeaseOK
<1>6. \A e \in events' : Known(e)'
  BY Carries DEF JobsInv
<1> QED BY <1>3, <1>5, <1>6 DEF JobsInv, Forward

(***************************************************************************)
(* The receipt of an import.                                               *)
(***************************************************************************)
LEMMA ReceiptIsTyped == JobsInv => PostedEntries \in Nat /\ Progress \in {"POSTING", "PARTIAL_FAILED", "COMPLETE", "READY"}
<1> SUFFICES ASSUME JobsInv PROVE PostedEntries \in Nat /\ Progress \in {"POSTING", "PARTIAL_FAILED", "COMPLETE", "READY"}
  OBVIOUS
<1>1. IsFiniteSet(Active) /\ Active \subseteq Batches
  BY BatchAssumption, FS_Subset DEF JobsInv, Active
<1>2. ASSUME NEW b \in Active PROVE IsFiniteSet({b} \X (1 .. Shown(b)))
  <2>1. PICK n \in Int : n = Shown(b)
    BY <1>1 DEF JobsInv, Shown, BatchRows
  <2>2. IsFiniteSet(1 .. n)
    BY FS_Interval
  <2>3. IsFiniteSet({b})
    BY FS_Singleton
  <2> QED BY <2>1, <2>2, <2>3, FS_Product
<1>3. PICK f : f = [b \in Active |-> {b} \X (1 .. Shown(b))]
  OBVIOUS
<1>4. PICK T : T = {{b} \X (1 .. Shown(b)) : b \in Active}
  OBVIOUS
<1>5. f \in Surjection(Active, T)
  BY <1>3, <1>4 DEF Surjection
<1>6. IsFiniteSet(T)
  BY <1>1, <1>5, FS_Surjection
<1>7. \A X \in T : IsFiniteSet(X)
  BY <1>2, <1>4
<1>8. IsFiniteSet(UNION T)
  BY <1>6, <1>7, FS_UNION
<1>9. PostedEntries = Cardinality(UNION T)
  BY <1>4 DEF PostedEntries
<1>10. PostedEntries \in Nat
  BY <1>8, <1>9, FS_CardinalityType
<1>11. Progress \in {"POSTING", "PARTIAL_FAILED", "COMPLETE", "READY"}
  BY DEF Progress
<1> QED BY <1>10, <1>11

LEMMA CompleteIsDone ==
    ASSUME JobsInv, Progress = "COMPLETE", NEW fp \in SUBSET Batches, Known(fp)
    PROVE  \A b \in fp : Done(b)
<1>1. \A b \in Active : batch[b].st = "POSTED"
  BY DEF Progress
<1>2. ASSUME NEW b \in fp, b \in linked PROVE Done(b)
  <2>1. Size[b] \in Nat
    BY SizeAssumption
  <2> QED BY <1>1, <1>2, <2>1 DEF Done, Active
<1> QED BY <1>2 DEF Known, Done

\* A set of batches that is not empty has a first one.
LEMMA FirstExists ==
    ASSUME NEW S \in SUBSET Nat, S # {}
    PROVE  \E b \in S : \A c \in S : b <= c
<1> DEFINE Smaller == {ss \in Nat \X Nat : ss[1] < ss[2]}
<1>1. IsWellFoundedOn(Smaller, Nat)
  BY NatLessThanWellFounded DEF OpToRel
<1>2. PICK b \in S : \A c \in S : ~(<<c, b>> \in Smaller)
  BY <1>1, WFMin
<1>3. ASSUME NEW c \in S PROVE b <= c
  <2>1. b \in Nat /\ c \in Nat
    OBVIOUS
  <2>2. <<c, b>> \in Smaller <=> c < b
    BY <2>1
  <2> QED BY <1>2, <2>1, <2>2
<1> QED BY <1>3

LEMMA NextIsUnposted == JobsInv /\ Unposted # {} => NextBatch \in Unposted /\ NextBatch \in Batches
<1> SUFFICES ASSUME JobsInv, Unposted # {} PROVE NextBatch \in Unposted
  BY DEF JobsInv, Unposted, Active
<1>0. Unposted \subseteq Nat
  BY BatchAssumption DEF JobsInv, Unposted, Active
<1>1. PICK U : U = Unposted
  OBVIOUS
<1>3. U # {} /\ U \in SUBSET Nat
  BY <1>0, <1>1
<1>2. \E b \in U : \A c \in U : b <= c
  BY <1>3, FirstExists
<1> QED BY <1>1, <1>2 DEF NextBatch

LEMMA JobStays ==
    ASSUME JobsInv, Forward, job' = job
    PROVE  job' \in JobRows /\ JobOK' /\ \A q \in Runs : Holds(q)' => Holds(q) /\ job'.fp = job.fp
<1>1. \A b \in Batches : Done(b) => Done(b)'
  BY Carries
<1> QED BY <1>1 DEF JobsInv, JobOK, JobRows, Holds

LEMMA EventsStay ==
    ASSUME JobsInv, Forward, NEW fp \in SUBSET Batches, Known(fp), events' \subseteq events \cup {fp}
    PROVE  events' \subseteq SUBSET Batches /\ \A e \in events' : Known(e)'
<1>1. \A e \in SUBSET Batches : Known(e) => Known(e)'
  BY Carries
<1> QED BY <1>1 DEF JobsInv

(***************************************************************************)
(* The pages.                                                              *)
(***************************************************************************)
LEMMA ClientStep ==
    ASSUME JobsInv, NEW c \in Clients,
           \/ ReadReceipt(c) \/ LeaveReceipt(c) \/ \E resume \in BOOLEAN : Submit(c, resume)
           \/ Trigger(c) \/ TriggerUncertain(c) \/ DispatchUncertain(c)
    PROVE  JobsInv'
<1>0. UNCHANGED <<batch, linked, run>> /\ Forward
  BY StandsStill DEF ReadReceipt, LeaveReceipt, Submit, Trigger, TriggerUncertain, DispatchUncertain
<1>1. Away \in Receipts /\ ClientOK(Away)'
  BY DEF Away, Receipts, ClientOK, Known
<1>2. PICK C \in Receipts : C = client[c] /\ ClientOK(C) /\ ClientOK(C)' /\ C.fp \in SUBSET Batches /\ Known(C.fp)
  <2>1. client[c] \in Receipts /\ ClientOK(client[c])
    BY DEF JobsInv
  <2> QED BY <1>0, <2>1, Carries DEF Receipts, ClientOK
<1>3. CASE ReadReceipt(c)
  <2>1. PICK D : D = [pc |-> "read", fp |-> linked, state |-> Progress, posted |-> PostedEntries]
    OBVIOUS
  <2>2. client' = [client EXCEPT ![c] = D] /\ UNCHANGED <<job, events>>
    BY <1>3, <2>1 DEF ReadReceipt
  <2>3. D \in Receipts /\ D.fp = linked /\ D.state = Progress
    BY <2>1, ReceiptIsTyped DEF JobsInv, Receipts
  <2>4. linked \in SUBSET Batches /\ Known(linked)
    BY DEF JobsInv, Known
  <2>5. ClientOK(D)
    BY <2>3, <2>4, CompleteIsDone DEF ClientOK
  <2>6. ClientOK(D)'
    BY <1>0, <2>3, <2>5, Carries
  <2>7. events' \subseteq SUBSET Batches /\ \A e \in events' : Known(e)'
    BY <1>0, <2>2, <2>4, EventsStay
  <2> QED BY <1>0, <2>2, <2>3, <2>6, <2>7, JobStays, ClientMoves
<1>4. CASE LeaveReceipt(c)
  <2>1. client' = [client EXCEPT ![c] = Away] /\ UNCHANGED <<job, events>>
    BY <1>4 DEF LeaveReceipt
  <2>2. events' \subseteq SUBSET Batches /\ \A e \in events' : Known(e)'
    BY <1>0, <1>2, <2>1, EventsStay
  <2> QED BY <1>0, <1>1, <2>1, <2>2, JobStays, ClientMoves
<1>5. ASSUME NEW resume \in BOOLEAN, Submit(c, resume) PROVE JobsInv'
  <2>1. PICK D : D = IF job'.st = "PENDING" THEN [Away EXCEPT !.pc = "trigger", !.fp = C.fp] ELSE Away
    OBVIOUS
  <2>2. client' = [client EXCEPT ![c] = D] /\ UNCHANGED events /\ C.pc = "read"
    BY <1>2, <1>5, <2>1 DEF Submit
  <2>3. D \in Receipts /\ D.pc # "read" /\ (D.fp = C.fp \/ D.fp = {})
    BY <2>1 DEF Away, Receipts
  <2>4. ClientOK(D)'
    BY <1>2, <2>3 DEF ClientOK, Known
  <2>5. events' \subseteq SUBSET Batches /\ \A e \in events' : Known(e)'
    BY <1>0, <1>2, <2>2, EventsStay
  <2>6. job' \in JobRows /\ JobOK' /\ \A q \in Runs : Holds(q)' => Holds(q) /\ job'.fp = job.fp
    <3>1. CASE job' = job
      BY <1>0, <3>1, JobStays
    <3>2. CASE job' # job
      <4>1. PICK st : st = IF C.state = "COMPLETE" THEN "SUCCEEDED" ELSE "PENDING"
        OBVIOUS
      <4>2. job' = [NoJob EXCEPT !.st = st, !.fp = C.fp, !.resume = resume]
        BY <1>2, <1>5, <3>2, <4>1 DEF Submit
      <4>3. job' \in JobRows /\ job'.st = st /\ job'.fp = C.fp
        BY <1>2, <4>1, <4>2 DEF NoJob, JobRows, JobStatuses
      <4>4. JobOK'
        BY <1>2, <2>2, <4>1, <4>3 DEF JobOK, ClientOK
      <4> QED BY <4>1, <4>3, <4>4 DEF Holds
    <3> QED BY <3>1, <3>2
  <2> QED BY <1>0, <2>2, <2>3, <2>4, <2>5, <2>6, ClientMoves
<1>6. CASE Trigger(c) \/ TriggerUncertain(c)
  <2>1. PICK D : D = IF Trigger(c) THEN Away ELSE [C EXCEPT !.pc = "uncertain"]
    OBVIOUS
  <2>2. client' = [client EXCEPT ![c] = D] /\ events' \subseteq events \cup {C.fp} /\ UNCHANGED job
    BY <1>2, <1>6, <2>1 DEF Trigger, TriggerUncertain, JobsInv
  <2>3. D \in Receipts /\ ClientOK(D)'
    BY <1>1, <1>2, <2>1 DEF Receipts, ClientOK
  <2>4. events' \subseteq SUBSET Batches /\ \A e \in events' : Known(e)'
    BY <1>0, <1>2, <2>2, EventsStay
  <2> QED BY <1>0, <2>2, <2>3, <2>4, JobStays, ClientMoves
<1>7. CASE DispatchUncertain(c)
  <2>1. client' = [client EXCEPT ![c] = Away] /\ UNCHANGED events
    BY <1>7 DEF DispatchUncertain
  <2>2. events' \subseteq SUBSET Batches /\ \A e \in events' : Known(e)'
    BY <1>0, <1>2, <2>1, EventsStay
  <2>3. CASE job' = job
    BY <1>0, <1>1, <2>1, <2>2, <2>3, JobStays, ClientMoves
  <2>4. CASE job' # job
    <3>1. job' = [job EXCEPT !.st = "NEEDS_REVIEW"]
      BY <1>7, <2>4 DEF DispatchUncertain
    <3>2. job' \in JobRows /\ job'.st = "NEEDS_REVIEW"
      BY <3>1 DEF JobsInv, JobRows, JobStatuses
    <3> QED BY <1>0, <1>1, <2>1, <2>2, <3>2, ClientMoves DEF JobOK, Holds
  <2> QED BY <2>3, <2>4
<1> QED BY <1>3, <1>4, <1>5, <1>6, <1>7

\* What a preview replaces has no entry, and what it adds is linked.
LEMMA PreviewStep ==
    ASSUME JobsInv, NEW c \in Clients, NEW new \in SUBSET Batches, CreateBatches(c, new)
    PROVE  JobsInv'
<1>1. PICK C \in Receipts : C = client[c] /\ ClientOK(C) /\ C.fp \in SUBSET Batches
  <2>1. client[c] \in Receipts /\ ClientOK(client[c])
    BY DEF JobsInv
  <2> QED BY <2>1 DEF Receipts
<1>2. PICK old : old = C.fp \ new
  OBVIOUS
<1>3. /\ \A b \in old : batch[b].st = "DRY_RUN" /\ batch[b].posted = 0
      /\ linked' = (linked \cup new) \ old
      /\ client' = [client EXCEPT ![c] = Away]
      /\ UNCHANGED <<job, events, run>>
      /\ batch' = [b \in Batches |->
                     [batch[b] EXCEPT !.st = IF b \in old THEN "CANCELLED"
                                             ELSE IF b \in new /\ @ = "NONE" THEN "DRY_RUN" ELSE @]]
  BY <1>1, <1>2 DEF CreateBatches, Replaceable
<1>4. \A b \in Batches : batch[b] \in BatchRows /\ BatchOK(b)
  BY DEF JobsInv
<1>5. ASSUME NEW b \in Batches
      PROVE  /\ batch'[b] \in BatchRows
             /\ batch[b].st \in {"CANCELLED", "POSTED"} => batch'[b].st = batch[b].st
             /\ batch[b].n <= batch'[b].n
             /\ b \in linked => b \in linked' \/ batch'[b].st = "CANCELLED"
             /\ BatchOK(b)'
  <2>1. PICK st : st = IF b \in old THEN "CANCELLED"
                       ELSE IF b \in new /\ batch[b].st = "NONE" THEN "DRY_RUN" ELSE batch[b].st
    OBVIOUS
  <2>2. batch'[b] = [batch[b] EXCEPT !.st = st]
    BY <1>3, <2>1
  <2>3. st \in BatchStatuses
    BY <1>4, <2>1 DEF BatchRows, BatchStatuses
  <2>4. /\ batch'[b] \in BatchRows
        /\ batch'[b].st = st /\ batch'[b].n = batch[b].n /\ batch'[b].posted = batch[b].posted
    BY <1>4, <2>2, <2>3 DEF BatchRows
  <2>5. batch[b].n \in Nat
    BY <1>4 DEF BatchRows
  <2>6. b \in old => batch[b].st = "DRY_RUN" /\ batch[b].n = 0
    BY <1>3, <1>4 DEF BatchOK
  <2>7. st \notin {"NONE", "CANCELLED"} => b \in linked'
    BY <1>3, <1>4, <1>2, <2>1 DEF BatchOK
  <2> QED BY <1>3, <1>4, <2>1, <2>4, <2>5, <2>6, <2>7 DEF BatchOK
<1>6. batch' \in [Batches -> BatchRows]
  BY <1>3, <1>5
<1>7. linked' \subseteq Batches
  BY <1>3 DEF JobsInv
<1>8. Forward
  BY <1>5, <1>6, <1>7 DEF Forward
<1>9. Away \in Receipts /\ ClientOK(Away)'
  BY DEF Away, Receipts, ClientOK, Known
<1>10. events' \subseteq SUBSET Batches /\ \A e \in events' : Known(e)'
  BY <1>3, <1>8, Carries DEF JobsInv
<1> QED BY <1>3, <1>8, <1>9, <1>10, JobStays, ClientMoves

(***************************************************************************)
(* The runs.                                                               *)
(***************************************************************************)
\* A run that goes on, or ends with an error or a result, with the confirmation it has.
LEMMA RunGoesOn ==
    ASSUME JobsInv, Forward, NEW r \in Runs, NEW R \in RunRecords, run' = [run EXCEPT ![r] = R], RunOK(R)',
           UNCHANGED <<job, client, events>>, run[r].pc \in Claimed, R.fp = run[r].fp, R.direct = run[r].direct
    PROVE  JobsInv'
<1>1. LeaseOK(r)
  BY DEF JobsInv
<1>2. events' \subseteq SUBSET Batches /\ \A e \in events' : Known(e)'
  BY Carries DEF JobsInv
<1>3. /\ job' \in JobRows /\ JobOK'
      /\ \A q \in Runs : Holds(q)' => Holds(q) /\ job'.fp = job.fp
  BY JobStays
<1>4. R.pc \in Claimed /\ ~R.direct /\ Holds(r)' => job'.fp = R.fp
  BY <1>1, <1>3 DEF LeaseOK
<1> QED BY <1>2, <1>3, <1>4, RunMoves

LEMMA RunRests ==
    ASSUME JobsInv, Forward, NEW r \in Runs, run' = [run EXCEPT ![r] = Idle], UNCHANGED <<job, client>>,
           events' \subseteq SUBSET Batches, \A e \in events' : Known(e)'
    PROVE  JobsInv'
<1>1. Idle \in RunRecords /\ Idle.pc = "idle" /\ Idle.fp = {}
  BY DEF Idle, RunRecords, JobStatuses
<1>2. RunOK(Idle)'
  BY <1>1 DEF RunOK, Known, Claimed
<1>3. Idle.pc \notin Claimed
  BY <1>1 DEF Claimed
<1> QED BY <1>1, <1>2, <1>3, JobStays, RunMoves

LEMMA RunStops ==
    ASSUME JobsInv, Forward, NEW r \in Runs, UNCHANGED <<job, client, events>>, run[r].pc \in Claimed,
           \/ Fail(r) \/ ToResult(r)
           \/ \E out \in JobStatuses : /\ Finish(r, out) /\ ~run[r].direct
                                       /\ out = "SUCCEEDED" => \A b \in run[r].fp : Done(b)
    PROVE  JobsInv'
<1>1. PICK P \in RunRecords : P = run[r] /\ RunOK(P) /\ RunOK(P)' /\ P.fp \in SUBSET Batches
  <2>1. run[r] \in RunRecords /\ RunOK(run[r])
    BY DEF JobsInv
  <2>2. \A R \in RunRecords : RunOK(R) => RunOK(R)'
    BY Carries
  <2>3. run[r].fp \in SUBSET Batches
    BY <2>1 DEF RunRecords
  <2> QED BY <2>1, <2>2, <2>3
<1>2. \A b \in Batches : Done(b) => Done(b)'
  BY Carries
<1>3. \A e \in events : Known(e)'
  BY Carries DEF JobsInv
<1>4. ASSUME NEW out \in JobStatuses, Finish(r, out), ~P.direct, out = "SUCCEEDED" => \A b \in P.fp : Done(b)
      PROVE  JobsInv'
  <2>1. PICK R : R = [Idle EXCEPT !.pc = "finish", !.fp = P.fp, !.left = P.left, !.out = out]
    OBVIOUS
  <2>2. /\ R \in RunRecords /\ R.pc = "finish" /\ R.fp = P.fp /\ ~R.direct /\ R.left = P.left /\ R.out = out
    BY <2>1 DEF Idle, RunRecords
  <2>3. RunOK(R)'
    BY <1>1, <1>2, <1>4, <2>2 DEF RunOK, Claimed
  <2>4. run' = [run EXCEPT ![r] = R]
    BY <1>1, <1>4, <2>1 DEF Finish, Set
  <2> QED BY <1>1, <1>4, <2>2, <2>3, <2>4, RunGoesOn DEF RunRecords
<1>5. CASE ToResult(r)
  <2>1. PICK R : R = [Idle EXCEPT !.pc = "result", !.direct = P.direct, !.fp = P.fp, !.left = P.left, !.seen = P.seen]
    OBVIOUS
  <2>2. R \in RunRecords /\ R.pc = "result" /\ R.fp = P.fp /\ R.direct = P.direct /\ R.left = P.left
    BY <2>1 DEF Idle, RunRecords, JobStatuses
  <2>3. RunOK(R)'
    BY <1>1, <2>2 DEF RunOK, Claimed
  <2>4. run' = [run EXCEPT ![r] = R]
    BY <1>1, <1>5, <2>1 DEF ToResult, Set
  <2> QED BY <1>1, <2>2, <2>3, <2>4, RunGoesOn
<1>6. CASE Fail(r)
  <2>1. CASE P.direct
    <3>1. run' = [run EXCEPT ![r] = Idle]
      BY <1>1, <1>6, <2>1 DEF Fail, Set
    <3> QED BY <1>3, <3>1, RunRests DEF JobsInv
  <2>2. CASE ~P.direct
    <3>1. Finish(r, "NEEDS_REVIEW")
      BY <1>1, <1>6, <2>2 DEF Fail
    <3> QED BY <1>4, <2>2, <3>1 DEF JobStatuses
  <2> QED BY <2>1, <2>2
<1> QED BY <1>1, <1>4, <1>5, <1>6

\* The steps of a run that leave the batches as they are.
LEMMA ReadingStep ==
    ASSUME JobsInv, NEW r \in Runs, Check(r) \/ Process(r) \/ ReadTotal(r) \/ Result(r) \/ ReadPause(r)
    PROVE  JobsInv'
<1>1. UNCHANGED <<batch, linked, job, client, events>> /\ Forward
  BY StandsStill DEF Check, Process, ReadTotal, Result, ReadPause
<1>2. run[r].pc \in Claimed
  BY DEF Check, Process, ReadTotal, Result, ReadPause, Claimed
<1>3. PICK P \in RunRecords : P = run[r] /\ RunOK(P)
  BY DEF JobsInv
<1>4. \A R \in RunRecords : RunOK(R) => RunOK(R)'
  BY <1>1, Carries
<1>5. ASSUME NEW R \in RunRecords, run' = [run EXCEPT ![r] = R], RunOK(R), R.fp = P.fp, R.direct = P.direct
      PROVE  JobsInv'
  BY <1>1, <1>2, <1>3, <1>4, <1>5, RunGoesOn
<1>6. ASSUME NEW out \in JobStatuses, Finish(r, out), ~P.direct, out = "SUCCEEDED" => \A b \in P.fp : Done(b)
      PROVE  JobsInv'
  BY <1>1, <1>2, <1>3, <1>6, RunStops
<1>7. Fail(r) \/ ToResult(r) => JobsInv'
  BY <1>1, <1>2, RunStops
<1>8. CASE Check(r)
  <2>1. P.pc = "check"
    BY <1>3, <1>8 DEF Check
  <2>2. CASE Set(r, [run[r] EXCEPT !.pc = "process", !.seen = PostedEntries])
    <3>1. PICK n \in Nat : n = PostedEntries
      BY ReceiptIsTyped
    <3>2. PICK R : R = [P EXCEPT !.pc = "process", !.seen = n]
      OBVIOUS
    <3>3. R \in RunRecords /\ R.pc = "process" /\ R.fp = P.fp /\ R.direct = P.direct /\ R.left = P.left
      BY <3>2 DEF RunRecords
    <3>4. RunOK(R)
      BY <1>3, <2>1, <3>3 DEF RunOK, Claimed
    <3>5. run' = [run EXCEPT ![r] = R]
      BY <1>3, <2>2, <3>1, <3>2 DEF Set
    <3> QED BY <1>5, <3>3, <3>4, <3>5
  <2>3. CASE Finish(r, "PAUSED") \/ Finish(r, "NEEDS_REVIEW")
    <3>1. CASE ~P.direct
      BY <1>6, <2>3, <3>1 DEF JobStatuses
    <3>2. CASE P.direct
      BY <1>3, <2>1, <3>2 DEF RunOK
    <3> QED BY <3>1, <3>2
  <2> QED BY <1>8, <2>2, <2>3 DEF Check
<1>9. CASE Process(r)
  <2>1. P.pc = "process"
    BY <1>3, <1>9 DEF Process
  <2>2. CASE Fail(r) \/ ToResult(r)
    BY <1>7, <2>2
  <2>3. CASE Unposted # {} /\ Set(r, [run[r] EXCEPT !.pc = "begin", !.b = NextBatch])
    <3>1. PICK b \in Batches : b = NextBatch
      BY <2>3, NextIsUnposted
    <3>2. PICK R : R = [P EXCEPT !.pc = "begin", !.b = b]
      OBVIOUS
    <3>3. R \in RunRecords /\ R.pc = "begin" /\ R.b = b /\ R.fp = P.fp /\ R.direct = P.direct /\ R.left = P.left
      BY <3>2 DEF RunRecords
    <3>4. RunOK(R)
      BY <1>3, <2>1, <3>3 DEF RunOK, Claimed
    <3>5. run' = [run EXCEPT ![r] = R]
      BY <1>3, <2>3, <3>1, <3>2 DEF Set
    <3> QED BY <1>5, <3>3, <3>4, <3>5
  <2> QED BY <1>9, <2>2, <2>3 DEF Process
<1>10. CASE ReadTotal(r)
  <2>1. P.pc = "total" /\ P.b \in Batches /\ (P.ok => batch[P.b].n > 0) /\ P.ok \in BOOLEAN
    BY <1>3, <1>10 DEF ReadTotal, RunOK, RunRecords
  <2>2. CASE Fail(r)
    BY <1>7, <2>2
  <2>3. CASE Set(r, [run[r] EXCEPT !.pc = "close", !.count = batch[run[r].b].n])
    <3>1. PICK n \in Nat : n = batch[P.b].n
      BY <2>1 DEF JobsInv, BatchRows
    <3>2. PICK R : R = [P EXCEPT !.pc = "close", !.count = n]
      OBVIOUS
    <3>3. /\ R \in RunRecords /\ R.pc = "close" /\ R.b = P.b /\ R.fp = P.fp /\ R.direct = P.direct /\ R.left = P.left
          /\ R.count = n /\ R.ok = P.ok
      BY <3>2 DEF RunRecords
    <3>4. RunOK(R)
      BY <1>3, <2>1, <3>1, <3>3 DEF RunOK, Claimed
    <3>5. run' = [run EXCEPT ![r] = R]
      BY <1>3, <2>3, <3>1, <3>2 DEF Set
    <3> QED BY <1>5, <3>3, <3>4, <3>5
  <2> QED BY <1>10, <2>2, <2>3 DEF ReadTotal
<1>11. CASE Result(r)
  <2>1. P.pc = "result" /\ P.fp \in SUBSET Batches
    BY <1>3, <1>11 DEF Result, RunRecords
  <2>2. CASE P.direct
    <3>1. run' = [run EXCEPT ![r] = Idle]
      BY <1>3, <1>11, <2>2 DEF Result, Set
    <3>2. events' \subseteq SUBSET Batches /\ \A e \in events' : Known(e)'
      BY <1>1, Carries DEF JobsInv
    <3> QED BY <1>1, <3>1, <3>2, RunRests
  <2>3. CASE ~P.direct
    <3>1. PICK out : out = Outcome(r)
      OBVIOUS
    <3>2. out \in JobStatuses
      BY <3>1 DEF Outcome, JobStatuses
    <3>3. out = "SUCCEEDED" => Progress = "COMPLETE"
      BY <3>1 DEF Outcome, Completed
    <3>4. Known(P.fp)
      BY <1>3 DEF RunOK
    <3>5. out = "SUCCEEDED" => \A b \in P.fp : Done(b)
      BY <2>1, <3>3, <3>4, CompleteIsDone
    <3>6. Finish(r, out)
      BY <1>3, <1>11, <2>3, <3>1 DEF Result
    <3> QED BY <1>6, <2>3, <3>2, <3>5, <3>6
  <2> QED BY <2>2, <2>3
<1>12. CASE ReadPause(r)
  <2>1. P.pc = "finish"
    BY <1>3, <1>12 DEF ReadPause
  <2>2. PICK out : out = IF P.out = "PENDING" /\ job.pause THEN "PAUSED" ELSE P.out
    OBVIOUS
  <2>3. PICK R : R = [P EXCEPT !.pc = "release", !.out = out]
    OBVIOUS
  <2>4. out \in JobStatuses /\ (out = "SUCCEEDED" => P.out = "SUCCEEDED")
    BY <2>2 DEF RunRecords, JobStatuses
  <2>5. R \in RunRecords /\ R.pc = "release" /\ R.fp = P.fp /\ R.direct = P.direct /\ R.left = P.left /\ R.out = out
    BY <2>3, <2>4 DEF RunRecords
  <2>6. RunOK(R)
    BY <1>3, <2>1, <2>4, <2>5 DEF RunOK, Claimed
  <2>7. run' = [run EXCEPT ![r] = R]
    BY <1>3, <1>12, <2>2, <2>3 DEF ReadPause, Set
  <2> QED BY <1>5, <2>5, <2>6, <2>7
<1> QED BY <1>8, <1>9, <1>10, <1>11, <1>12

\* The steps of a run that post.
LEMMA PostingStep ==
    ASSUME JobsInv, NEW r \in Runs, BeginBatch(r) \/ Step(r) \/ CloseStep(r)
    PROVE  JobsInv'
<1>1. UNCHANGED <<linked, job, client, events>> /\ run[r].pc \in {"begin", "step", "close"} /\ run[r].pc \in Claimed
  BY DEF BeginBatch, Step, CloseStep, Claimed
<1>2. PICK P \in RunRecords : P = run[r] /\ RunOK(P)
  BY DEF JobsInv
<1>3. PICK b \in Batches : b = P.b
  BY <1>1, <1>2 DEF RunOK
<1>4. batch[b] \in BatchRows /\ BatchOK(b) /\ Size[b] \in Nat /\ P.at \in Nat /\ P.count \in Nat
  BY <1>2, SizeAssumption DEF JobsInv, RunRecords
<1>5. ASSUME NEW B \in BatchRows, batch' = [batch EXCEPT ![b] = B], batch[b].st \notin {"CANCELLED", "POSTED"},
             batch[b].n <= B.n, B.n <= Size[b], B.st \notin {"NONE", "CANCELLED"}, b \in linked,
             B.st = "POSTED" => B.n = Size[b], B.st = "DRY_RUN" /\ B.posted = 0 => B.n = 0
      PROVE  Forward /\ batch'[b] = B
  <2>1. \A a \in Batches : batch'[a] = IF a = b THEN B ELSE batch[a]
    BY <1>5 DEF JobsInv
  <2>2. ASSUME NEW a \in Batches
        PROVE  /\ batch[a].st \in {"CANCELLED", "POSTED"} => batch'[a].st = batch[a].st
               /\ batch[a].n <= batch'[a].n
               /\ a \in linked => a \in linked' \/ batch'[a].st = "CANCELLED"
               /\ BatchOK(a)'
    <3>1. batch[a] \in BatchRows /\ BatchOK(a)
      BY DEF JobsInv
    <3>2. CASE a = b
      BY <1>1, <1>5, <2>1, <3>2 DEF BatchOK
    <3>3. CASE a # b
      BY <1>1, <2>1, <3>1, <3>3 DEF BatchOK, BatchRows
    <3> QED BY <3>2, <3>3
  <2>3. batch' \in [Batches -> BatchRows] /\ linked' \subseteq Batches
    BY <1>1, <1>5 DEF JobsInv
  <2> QED BY <2>1, <2>2, <2>3 DEF Forward
<1>6. ASSUME Forward, Fail(r) \/ ToResult(r) PROVE JobsInv'
  BY <1>1, <1>6, RunStops
<1>7. ASSUME Forward, NEW R \in RunRecords, run' = [run EXCEPT ![r] = R], RunOK(R)', R.fp = P.fp, R.direct = P.direct
      PROVE  JobsInv'
  BY <1>1, <1>2, <1>7, RunGoesOn
<1>8. Known(P.fp)' \/ ~Forward
  <2>1. P.fp \in SUBSET Batches /\ Known(P.fp)
    BY <1>2 DEF RunRecords, RunOK
  <2> QED BY <2>1, Carries
<1>9. ASSUME UNCHANGED batch, Fail(r) \/ ToResult(r) PROVE JobsInv'
  BY <1>1, <1>6, <1>9, StandsStill
<1>10. CASE BeginBatch(r)
  <2>1. CASE UNCHANGED batch /\ (Fail(r) \/ ToResult(r))
    BY <1>9, <2>1
  <2>2. CASE /\ Postable(r) /\ batch' = [batch EXCEPT ![b].st = "POSTING", ![b].beat = TRUE]
             /\ Set(r, [run[r] EXCEPT !.pc = "step", !.at = batch[b].n, !.resume = FALSE])
    <3>1. PICK B : B = [batch[b] EXCEPT !.st = "POSTING", !.beat = TRUE]
      OBVIOUS
    <3>2. B \in BatchRows /\ B.st = "POSTING" /\ B.n = batch[b].n
      BY <1>4, <3>1 DEF BatchRows, BatchStatuses
    <3>3. b \in linked /\ batch[b].st \notin {"CANCELLED", "POSTED"}
      BY <1>2, <1>3, <2>2 DEF Postable
    <3>4. batch' = [batch EXCEPT ![b] = B]
      BY <2>2, <3>1 DEF JobsInv
    <3>5. B.n <= Size[b] /\ batch[b].n <= B.n
      BY <1>4, <3>2 DEF BatchOK, BatchRows
    <3>6. Forward
      BY <1>5, <3>2, <3>3, <3>4, <3>5
    <3>7. PICK n \in Nat : n = batch[b].n
      BY <1>4 DEF BatchRows
    <3>8. PICK R : R = [P EXCEPT !.pc = "step", !.at = n, !.resume = FALSE]
      OBVIOUS
    <3>9. R \in RunRecords /\ R.pc = "step" /\ R.b = b /\ R.fp = P.fp /\ R.direct = P.direct /\ R.left = P.left
      BY <1>3, <3>8 DEF RunRecords
    <3>10. RunOK(R)'
      BY <1>1, <1>2, <1>8, <3>6, <3>9 DEF RunOK, Claimed
    <3>11. run' = [run EXCEPT ![r] = R]
      BY <1>2, <2>2, <3>7, <3>8 DEF Set
    <3> QED BY <1>7, <3>6, <3>9, <3>10, <3>11
  <2> QED BY <1>2, <1>3, <1>10, <2>1, <2>2 DEF BeginBatch
<1>11. CASE Step(r)
  <2>1. PICK p \in BOOLEAN : p <=> StepPosts(r) /\ P.at < Size[b] /\ batch' = [batch EXCEPT ![b].n = @ + 1, ![b].beat = TRUE]
    OBVIOUS
  <2>2. PICK R : R = IF p THEN [P EXCEPT !.pc = "total", !.at = 0] ELSE [P EXCEPT !.pc = "total", !.at = 0, !.ok = FALSE]
    OBVIOUS
  <2>3. /\ R \in RunRecords /\ R.pc = "total" /\ R.b = b /\ R.fp = P.fp /\ R.direct = P.direct /\ R.left = P.left
        /\ ~p => ~R.ok
    BY <1>3, <2>2 DEF RunRecords
  <2>4. CASE p /\ Set(r, [run[r] EXCEPT !.pc = "total", !.at = 0])
    <3>1. batch[b].st = "POSTING" /\ batch[b].n < Size[b]
      BY <1>2, <1>3, <2>1, <2>4 DEF StepPosts
    <3>0. PICK n \in Nat : n = batch[b].n + 1
      BY <1>4 DEF BatchRows
    <3>2. PICK B : B = [batch[b] EXCEPT !.n = n, !.beat = TRUE]
      OBVIOUS
    <3>3. B \in BatchRows /\ B.st = "POSTING" /\ B.n = batch[b].n + 1
      BY <1>4, <3>0, <3>1, <3>2 DEF BatchRows
    <3>4. batch' = [batch EXCEPT ![b] = B]
      BY <2>1, <2>4, <3>0, <3>2 DEF JobsInv
    <3>5. B.n <= Size[b] /\ batch[b].n <= B.n /\ b \in linked /\ B.n > 0
      BY <1>4, <3>1, <3>3 DEF BatchOK, BatchRows
    <3>6. Forward /\ batch'[b] = B
      BY <1>5, <3>1, <3>3, <3>4, <3>5
    <3>7. RunOK(R)'
      BY <1>1, <1>2, <1>8, <2>3, <3>5, <3>6 DEF RunOK, Claimed
    <3>8. run' = [run EXCEPT ![r] = R]
      BY <1>2, <2>2, <2>4 DEF Set
    <3> QED BY <1>7, <2>3, <3>6, <3>7, <3>8
  <2>5. CASE /\ batch' = [batch EXCEPT ![b].beat = @ \/ batch[b].st = "POSTING"]
             /\ Set(r, [run[r] EXCEPT !.pc = "total", !.at = 0, !.ok = FALSE])
    <3>1. PICK T : T = [P EXCEPT !.pc = "total", !.at = 0, !.ok = FALSE]
      OBVIOUS
    <3>2. T \in RunRecords /\ T.pc = "total" /\ T.b = b /\ T.fp = P.fp /\ T.direct = P.direct /\ T.left = P.left /\ ~T.ok
      BY <1>3, <3>1 DEF RunRecords
    <3>3. PICK beat \in BOOLEAN : beat = (batch[b].beat \/ batch[b].st = "POSTING")
      OBVIOUS
    <3>4. PICK B : B = [batch[b] EXCEPT !.beat = beat]
      OBVIOUS
    <3>5. B \in BatchRows /\ B.st = batch[b].st /\ B.n = batch[b].n /\ B.posted = batch[b].posted
      BY <1>4, <3>4 DEF BatchRows
    <3>6. batch' = [batch EXCEPT ![b] = B]
      BY <2>5, <3>3, <3>4 DEF JobsInv
    <3>7. Forward
      <4>1. \A a \in Batches : batch'[a] = IF a = b THEN B ELSE batch[a]
        BY <3>6 DEF JobsInv
      <4>2. batch' \in [Batches -> BatchRows] /\ linked' \subseteq Batches
        BY <1>1, <3>5, <3>6 DEF JobsInv
      <4>3. \A a \in Batches : batch[a] \in BatchRows /\ BatchOK(a) /\ batch'[a].st = batch[a].st
                               /\ batch'[a].n = batch[a].n /\ batch'[a].posted = batch[a].posted
        BY <3>5, <4>1 DEF JobsInv
      <4> QED BY <1>1, <4>2, <4>3 DEF Forward, BatchOK, BatchRows
    <3>8. RunOK(T)'
      BY <1>1, <1>2, <1>8, <3>2, <3>7 DEF RunOK, Claimed
    <3>9. run' = [run EXCEPT ![r] = T]
      BY <1>2, <2>5, <3>1 DEF Set
    <3> QED BY <1>7, <3>2, <3>7, <3>8, <3>9
  <2> QED BY <1>2, <1>3, <1>11, <2>1, <2>4, <2>5 DEF Step
<1>12. CASE CloseStep(r)
  <2>1. P.pc = "close" /\ P.count <= batch[b].n /\ (P.ok => P.count > 0)
    BY <1>2, <1>3, <1>12 DEF CloseStep, RunOK
  <2>2. CASE UNCHANGED batch /\ Fail(r)
    BY <1>9, <2>2
  <2>3. CASE batch[b].st = "POSTING" /\ (Fail(r) \/ ToResult(r))
             /\ batch' = [batch EXCEPT ![b].st = FinalStatus(r), ![b].posted = run[r].count, ![b].beat = FALSE]
    <3>1. PICK st : st = FinalStatus(r)
      OBVIOUS
    <3>2. PICK B : B = [batch[b] EXCEPT !.st = st, !.posted = P.count, !.beat = FALSE]
      OBVIOUS
    <3>3. /\ st \in {"POSTED", "DRY_RUN", "PARTIAL_FAILED"}
          /\ st = "POSTED" => P.count = Size[b]
          /\ st = "DRY_RUN" => P.ok
      BY <1>2, <1>3, <3>1 DEF FinalStatus
    <3>4. B \in BatchRows /\ B.st = st /\ B.n = batch[b].n /\ B.posted = P.count
      BY <1>4, <3>2, <3>3 DEF BatchRows, BatchStatuses
    <3>5. batch' = [batch EXCEPT ![b] = B]
      BY <1>2, <2>3, <3>1, <3>2 DEF JobsInv
    <3>6. B.n <= Size[b] /\ batch[b].n <= B.n /\ b \in linked /\ batch[b].n \in Nat
      BY <1>4, <2>3, <3>4 DEF BatchOK, BatchRows
    <3>7. st = "POSTED" => B.n = Size[b]
      BY <1>4, <2>1, <3>3, <3>4, <3>6
    <3>8. B.st = "DRY_RUN" => B.posted # 0
      BY <1>4, <2>1, <3>3, <3>4
    <3>10. B.st \notin {"NONE", "CANCELLED"} /\ batch[b].st \notin {"CANCELLED", "POSTED"}
      BY <2>3, <3>3, <3>4
    <3>9. Forward
      BY <1>5, <3>4, <3>5, <3>6, <3>7, <3>8, <3>10
    <3> QED BY <1>6, <2>3, <3>9
  <2> QED BY <1>2, <1>3, <1>12, <2>2, <2>3 DEF CloseStep
<1> QED BY <1>10, <1>11, <1>12

\* The steps of a run that concern the job.
LEMMA HoldingStep ==
    ASSUME JobsInv, NEW r \in Runs,
           (\E e \in events : Deliver(r, e)) \/ Claim(r) \/ StartDirect(r) \/ Release(r) \/ Report(r) \/ Crash(r)
    PROVE  JobsInv'
<1>1. UNCHANGED <<batch, linked, client>> /\ Forward
  BY StandsStill DEF Deliver, Claim, StartDirect, Release, Report, Crash
<1>2. PICK P \in RunRecords : P = run[r] /\ RunOK(P) /\ P.fp \in SUBSET Batches /\ Known(P.fp)
  <2>1. run[r] \in RunRecords /\ RunOK(run[r])
    BY DEF JobsInv
  <2> QED BY <2>1 DEF RunRecords, RunOK
<1>3. \A R \in RunRecords : RunOK(R) => RunOK(R)'
  BY <1>1, Carries
<1>4. events' \subseteq events => events' \subseteq SUBSET Batches /\ \A e \in events' : Known(e)'
  BY <1>1, Carries DEF JobsInv
<1>5. ASSUME NEW R \in RunRecords, run' = [run EXCEPT ![r] = R], RunOK(R), R.pc \notin Claimed \/ R.direct,
             UNCHANGED job, events' \subseteq events
      PROVE  JobsInv'
  BY <1>1, <1>3, <1>4, <1>5, JobStays, RunMoves
<1>6. CASE \E e \in events : Deliver(r, e)
  <2>1. PICK e \in events : Deliver(r, e)
    BY <1>6
  <2>2. e \in SUBSET Batches /\ Known(e)
    BY DEF JobsInv
  <2>3. PICK R : R = [Idle EXCEPT !.pc = "claim", !.fp = e, !.left = 2]
    OBVIOUS
  <2>4. R \in RunRecords /\ R.pc = "claim" /\ R.fp = e /\ ~R.direct
    BY <2>2, <2>3 DEF Idle, RunRecords, JobStatuses
  <2>5. RunOK(R) /\ R.pc \notin Claimed
    BY <2>2, <2>4 DEF RunOK, Claimed
  <2>6. run' = [run EXCEPT ![r] = R] /\ UNCHANGED job /\ events' \subseteq events
    BY <2>1, <2>3 DEF Deliver, Set
  <2> QED BY <1>5, <2>4, <2>5, <2>6
<1>7. CASE Claim(r)
  <2>1. P.pc = "claim" /\ ~P.direct /\ P.left > 0 /\ UNCHANGED events
    BY <1>2, <1>7 DEF Claim, RunOK
  <2>2. CASE /\ Claimable(r) /\ job' = [job EXCEPT !.st = "RUNNING", !.holder = r, !.live = TRUE]
             /\ Set(r, [run[r] EXCEPT !.pc = "check", !.resume = job.resume])
    <3>1. PICK resume \in BOOLEAN : resume = job.resume
      BY DEF JobsInv, JobRows
    <3>2. PICK R : R = [P EXCEPT !.pc = "check", !.resume = resume]
      OBVIOUS
    <3>3. R \in RunRecords /\ R.pc = "check" /\ R.fp = P.fp /\ R.direct = P.direct /\ R.left = P.left
      BY <3>2 DEF RunRecords
    <3>4. RunOK(R)'
      BY <1>2, <1>3, <2>1, <3>3 DEF RunOK, Claimed
    <3>5. job' \in JobRows /\ job'.st = "RUNNING" /\ job'.holder = r /\ job'.fp = job.fp /\ job.fp = P.fp
      BY <1>2, <2>2 DEF JobsInv, JobRows, JobStatuses, Claimable
    <3>6. run' = [run EXCEPT ![r] = R]
      BY <1>2, <2>2, <3>1, <3>2 DEF Set
    <3>7. JobOK' /\ \A q \in Runs : Holds(q)' => q = r
      BY <3>5 DEF JobOK, Holds
    <3> QED BY <1>1, <1>4, <2>1, <3>3, <3>4, <3>5, <3>6, <3>7, RunMoves
  <2>3. CASE /\ job' = IF Expired /\ job.fp = run[r].fp THEN Stopped("NEEDS_REVIEW") ELSE job
             /\ Set(r, [run[r] EXCEPT !.pc = "report"])
    <3>1. PICK R : R = [P EXCEPT !.pc = "report"]
      OBVIOUS
    <3>2. R \in RunRecords /\ R.pc = "report" /\ R.fp = P.fp
      BY <3>1 DEF RunRecords
    <3>3. RunOK(R) /\ R.pc \notin Claimed
      BY <1>2, <3>2 DEF RunOK, Claimed
    <3>4. run' = [run EXCEPT ![r] = R]
      BY <1>2, <2>3, <3>1 DEF Set
    <3>5. CASE job' = job
      BY <1>5, <2>1, <3>2, <3>3, <3>4, <3>5
    <3>6. CASE job' = Stopped("NEEDS_REVIEW")
      <4>1. job' \in JobRows /\ job'.st = "NEEDS_REVIEW"
        BY <3>6 DEF JobsInv, JobRows, JobStatuses, Stopped
      <4>2. JobOK' /\ \A q \in Runs : ~Holds(q)'
        BY <4>1 DEF JobOK, Holds
      <4> QED BY <1>1, <1>3, <1>4, <2>1, <3>2, <3>3, <3>4, <4>1, <4>2, RunMoves
    <3> QED BY <2>3, <3>5, <3>6
  <2> QED BY <1>7, <2>2, <2>3 DEF Claim
<1>8. CASE StartDirect(r)
  <2>1. PICK resume \in BOOLEAN :
          Set(r, [Idle EXCEPT !.pc = "process", !.direct = TRUE, !.fp = linked, !.resume = resume])
    BY <1>8 DEF StartDirect
  <2>2. PICK R : R = [Idle EXCEPT !.pc = "process", !.direct = TRUE, !.fp = linked, !.resume = resume]
    OBVIOUS
  <2>3. R \in RunRecords /\ R.pc = "process" /\ R.fp = linked /\ R.direct
    BY <2>2 DEF Idle, RunRecords, JobStatuses, JobsInv
  <2>4. RunOK(R)
    BY <2>3 DEF RunOK, Known
  <2>5. run' = [run EXCEPT ![r] = R] /\ UNCHANGED <<job, events>>
    BY <1>8, <2>1, <2>2 DEF StartDirect, Set
  <2> QED BY <1>5, <2>3, <2>4, <2>5
<1>9. CASE Release(r)
  <2>1. P.pc = "release" /\ ~P.direct /\ P.left > 0 /\ (P.out = "SUCCEEDED" => \A b \in P.fp : Done(b)) /\ P.out \in JobStatuses
    BY <1>2, <1>9 DEF Release, RunOK, Claimed, RunRecords
  <2>2. PICK left \in Nat : left = P.left - 1
    BY <2>1 DEF RunRecords
  <2>3. PICK R : R = [Idle EXCEPT !.pc = "claim", !.fp = P.fp, !.left = left]
    OBVIOUS
  <2>4. R \in RunRecords /\ R.pc = "claim" /\ R.fp = P.fp /\ ~R.direct
    BY <1>2, <2>3 DEF Idle, RunRecords, JobStatuses
  <2>5. RunOK(R) /\ R.pc \notin Claimed
    BY <1>2, <2>4 DEF RunOK, Claimed
  <2>6. run' = [run EXCEPT ![r] = R] /\ UNCHANGED events
    BY <1>2, <1>9, <2>2, <2>3 DEF Release, Set
  <2>7. CASE job' = job
    BY <1>5, <2>4, <2>5, <2>6, <2>7
  <2>8. CASE Holds(r) /\ job' = Stopped(P.out)
    <3>1. job.fp = P.fp
      BY <1>2, <2>1, <2>8 DEF JobsInv, LeaseOK, Claimed
    <3>2. job' \in JobRows /\ job'.st = P.out /\ job'.fp = job.fp /\ job'.holder = None
      BY <2>1, <2>8 DEF JobsInv, JobRows, JobStatuses, Stopped
    <3>3. JobOK'
      BY <1>1, <1>2, <2>1, <3>1, <3>2 DEF JobOK, Done, Gone
    <3>4. \A q \in Runs : ~Holds(q)'
      BY <3>2, NoneAssumption DEF Holds
    <3> QED BY <1>1, <1>3, <1>4, <2>4, <2>5, <2>6, <3>2, <3>3, <3>4, RunMoves
  <2> QED BY <1>2, <1>9, <2>7, <2>8 DEF Release
<1>10. CASE Report(r) \/ Crash(r)
  <2>1. run' = [run EXCEPT ![r] = Idle] /\ UNCHANGED job /\ events' \subseteq events \cup {P.fp}
    BY <1>2, <1>10 DEF Report, Crash, Set
  <2>2. events' \subseteq SUBSET Batches /\ \A e \in events' : Known(e)'
    BY <1>1, <1>2, <2>1, EventsStay
  <2> QED BY <1>1, <2>1, <2>2, RunRests
<1> QED BY <1>6, <1>7, <1>8, <1>9, <1>10

(***************************************************************************)
(* The pause, the reconciliation and the time.                             *)
(***************************************************************************)
LEMMA OtherStep ==
    ASSUME JobsInv, Pause \/ LeaseExpires \/ \E b \in Batches : HeartbeatAges(b) \/ Reconcile(b)
    PROVE  JobsInv'
<1>1. CASE Pause \/ LeaseExpires
  <2>1. UNCHANGED <<batch, linked, client, run, events>> /\ Forward
    BY <1>1, StandsStill DEF Pause, LeaseExpires
  <2>2. /\ job' \in JobRows /\ job'.st # "SUCCEEDED" /\ job'.fp = job.fp /\ job'.holder = job.holder
        /\ job'.st = "RUNNING" => job.st = "RUNNING"
    BY <1>1 DEF Pause, LeaseExpires, JobsInv, JobRows, JobStatuses, Working
  <2>3. JobOK' /\ \A q \in Runs : Holds(q)' => Holds(q) /\ job'.fp = job.fp
    BY <2>2 DEF JobOK, Holds
  <2> QED BY <2>1, <2>2, <2>3, OthersMove
<1>2. ASSUME NEW b \in Batches, HeartbeatAges(b) \/ Reconcile(b) PROVE JobsInv'
  <2>1. UNCHANGED <<linked, client, run, events, job>>
    BY <1>2 DEF HeartbeatAges, Reconcile
  <2>2. batch[b] \in BatchRows /\ BatchOK(b) /\ batch[b].st = "POSTING"
    BY <1>2 DEF JobsInv, HeartbeatAges, Reconcile
  <2>3. PICK st : st = IF HeartbeatAges(b) THEN "POSTING"
                       ELSE IF batch[b].n = Size[b] THEN "POSTED" ELSE "PARTIAL_FAILED"
    OBVIOUS
  <2>4. PICK B : B = IF HeartbeatAges(b) THEN [batch[b] EXCEPT !.beat = FALSE]
                     ELSE [batch[b] EXCEPT !.st = st, !.posted = batch[b].n]
    OBVIOUS
  <2>5. B \in BatchRows /\ B.st = st /\ B.n = batch[b].n
    BY <2>2, <2>3, <2>4 DEF BatchRows, BatchStatuses
  <2>6. batch' = [batch EXCEPT ![b] = B]
    BY <1>2, <2>3, <2>4 DEF HeartbeatAges, Reconcile, JobsInv
  <2>7. \A a \in Batches : batch'[a] = IF a = b THEN B ELSE batch[a]
    BY <2>6 DEF JobsInv
  <2>8. st \in {"POSTING", "POSTED", "PARTIAL_FAILED"} /\ (st = "POSTED" => B.n = Size[b])
    BY <2>3, <2>5
  <2>9. batch' \in [Batches -> BatchRows] /\ linked' \subseteq Batches
    BY <2>1, <2>5, <2>6 DEF JobsInv
  <2>10. ASSUME NEW a \in Batches
         PROVE  /\ batch[a].st \in {"CANCELLED", "POSTED"} => batch'[a].st = batch[a].st
                /\ batch[a].n <= batch'[a].n
                /\ a \in linked => a \in linked' \/ batch'[a].st = "CANCELLED"
                /\ BatchOK(a)'
    <3>1. batch[a] \in BatchRows /\ BatchOK(a)
      BY DEF JobsInv
    <3>2. CASE a = b
      BY <2>1, <2>2, <2>5, <2>7, <2>8, <3>2 DEF BatchOK, BatchRows
    <3>3. CASE a # b
      BY <2>1, <2>7, <3>1, <3>3 DEF BatchOK, BatchRows
    <3> QED BY <3>2, <3>3
  <2>11. Forward
    BY <2>9, <2>10 DEF Forward
  <2> QED BY <2>1, <2>11, JobStays, OthersMove
<1> QED BY <1>1, <1>2

LEMMA JobsStep == JobsInv /\ [Next]_vars => JobsInv'
<1> SUFFICES ASSUME JobsInv, [Next]_vars PROVE JobsInv'
  OBVIOUS
<1>1. ASSUME NEW c \in Clients, Request(c) \/ Dispatch(c) PROVE JobsInv'
  <2>1. CASE \E new \in SUBSET Batches : CreateBatches(c, new)
    BY <2>1, PreviewStep
  <2>2. CASE \/ ReadReceipt(c) \/ LeaveReceipt(c) \/ \E resume \in BOOLEAN : Submit(c, resume)
             \/ Trigger(c) \/ TriggerUncertain(c) \/ DispatchUncertain(c)
    BY <2>2, ClientStep
  <2> QED BY <1>1, <2>1, <2>2 DEF Request, Dispatch
<1>2. ASSUME NEW r \in Runs, Start(r) \/ Execute(r) \/ StartDirect(r) \/ Crash(r) PROVE JobsInv'
  BY <1>2, ReadingStep, PostingStep, HoldingStep DEF Start, Execute
<1>3. CASE Pause \/ LeaseExpires \/ \E b \in Batches : HeartbeatAges(b) \/ Reconcile(b)
  BY <1>3, OtherStep
<1>4. CASE UNCHANGED vars
  <2>1. UNCHANGED <<batch, linked, client, run, events, job>>
    BY <1>4 DEF vars
  <2> QED BY <2>1, StandsStill, JobStays, OthersMove
<1> QED BY <1>1, <1>2, <1>3, <1>4 DEF Next

(***************************************************************************)
(* What the import and its job promise.                                    *)
(***************************************************************************)
LEMMA JobsInvIsSafe == JobsInv => JobsSafe
<1> SUFFICES ASSUME JobsInv PROVE JobsSafe
  OBVIOUS
<1>1. TypeOK
  BY DEF JobsInv, TypeOK, JobRows, BatchRows, Receipts, RunRecords
<1>2. ASSUME NEW b \in Batches PROVE Done(b) => batch[b].n = Size[b] \/ batch[b].st = "CANCELLED"
  <2>1. BatchOK(b) /\ batch[b].n \in Nat /\ Size[b] \in Nat
    BY SizeAssumption DEF JobsInv, BatchRows
  <2> QED BY <2>1 DEF BatchOK, Done, Gone
<1>3. job.fp \subseteq Batches
  BY DEF JobsInv, JobRows
<1>4. SuccessIsPosted
  BY <1>2, <1>3 DEF JobsInv, JobOK, SuccessIsPosted
<1>5. PostedStaysLinked
  <2>1. \A b \in Batches : BatchOK(b)
    BY DEF JobsInv
  <2> QED BY <2>1 DEF BatchOK, PostedStaysLinked
<1> QED BY <1>1, <1>4, <1>5 DEF JobsSafe

\* The invariant: whatever a confirmation names is linked or cancelled, a batch keeps
\* its entries, and a run that holds the lease works for the job's own confirmation.
THEOREM JobsInvariant == Spec => []JobsInv
BY JobsStart, JobsStep, PTL DEF Spec

\* A job that reports success has every entry of the preview its user confirmed, and no
\* batch with entries leaves the import, for any pages, runs, crashes, losses and expired
\* leases (run_job, _finish, process and create_batches).
THEOREM JobsAreSafe == Spec => []JobsSafe
<1>1. JobsInv => JobsSafe
  BY JobsInvIsSafe
<1> QED BY <1>1, JobsInvariant, PTL

\* What has stopped starts again only by submit, for a user who has read the receipt and
\* with the confirmation that user read: no run, event or retry does it.
THEOREM StoppedStaysStopped == Spec => StartsByConfirmation
<1> DEFINE Restart == job.st \in {"NONE", "PAUSED", "SUCCEEDED", "NEEDS_REVIEW"} /\ job' # job =>
              \E c \in Clients : client[c].pc = "read" /\ client'[c].pc # "read" /\ job'.fp = client[c].fp
<1>1. JobsInv /\ [Next]_vars => [Restart]_vars
  <2> SUFFICES ASSUME JobsInv, Next, job.st \in {"NONE", "PAUSED", "SUCCEEDED", "NEEDS_REVIEW"}, job' # job
               PROVE  \E c \in Clients : client[c].pc = "read" /\ client'[c].pc # "read" /\ job'.fp = client[c].fp
    OBVIOUS
  <2>1. ASSUME NEW c \in Clients, NEW resume \in BOOLEAN, Submit(c, resume)
        PROVE  client[c].pc = "read" /\ client'[c].pc # "read" /\ job'.fp = client[c].fp
    <3>1. ~Working(ShownStatus)
      BY DEF Working, ShownStatus, Expired
    <3>2. client[c].pc = "read"
      BY <2>1 DEF Submit
    <3>3. client'[c].pc \in {"idle", "trigger"}
      BY <2>1 DEF Submit, JobsInv, Away
    <3>4. job'.fp = client[c].fp
      BY <2>1, <3>1 DEF Submit, NoJob
    <3> QED BY <3>2, <3>3, <3>4
  <2>2. ASSUME NEW r \in Runs, Claim(r) \/ Release(r) PROVE FALSE
    BY <2>2 DEF Claim, Release, Claimable, Expired, Holds
  <2>3. ASSUME NEW c \in Clients, DispatchUncertain(c) PROVE FALSE
    BY <2>3 DEF DispatchUncertain
  <2>4. ~Pause /\ ~LeaseExpires
    BY DEF Pause, LeaseExpires, Working
  <2>5. ASSUME NEW c \in Clients, Request(c) \/ Dispatch(c) PROVE \E resume \in BOOLEAN : Submit(c, resume)
    BY <2>3, <2>5 DEF Request, Dispatch, ReadReceipt, LeaveReceipt, CreateBatches, Trigger, TriggerUncertain
  <2>6. ASSUME NEW r \in Runs, Start(r) \/ Execute(r) \/ StartDirect(r) \/ Crash(r) PROVE FALSE
    BY <2>2, <2>6 DEF Start, Execute, Deliver, Check, StartDirect, Process, BeginBatch, Step, ReadTotal, CloseStep,
                      Result, ReadPause, Report, Crash
  <2>7. ASSUME NEW b \in Batches, HeartbeatAges(b) \/ Reconcile(b) PROVE FALSE
    BY <2>7 DEF HeartbeatAges, Reconcile
  <2> QED BY <2>1, <2>4, <2>5, <2>6, <2>7 DEF Next
<1>2. Spec => [][Restart]_vars
  BY <1>1, JobsInvariant, PTL DEF Spec
<1> QED BY <1>2 DEF StartsByConfirmation
=============================================================================
