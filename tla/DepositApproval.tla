-------------------------- MODULE DepositApproval ---------------------------
(***************************************************************************)
(* Review and approval of submitted deposits on one payment rail           *)
(* (backend/src/deposits): blockchain verification, the two approval modes *)
(* and the worker that approves by itself.                                 *)
(*                                                                         *)
(* Unlike a ledger posting this is not one transaction.  A task - an       *)
(* administrator's request or the worker - reads, awaits the blockchain,   *)
(* writes evidence, reads the policy, reads the deposit, asks the guard    *)
(* and only then commits the approval, each with a query of its own; other *)
(* tasks run in between, and a restart loses what a task has in hand.      *)
(*                                                                         *)
(* What follows an approval (accounting, activation) is in Subscriptions.  *)
(***************************************************************************)
EXTENDS Naturals, FiniteSets

CONSTANTS
  Deposits,         \* submitted deposits of the rail
  Age,              \* deposit -> its place in the order of submission
  Admins,           \* request handlers of administrators
  Worker,           \* the automatic approval worker
  BatchLimit,       \* deposits the worker takes in one run
  OperationsModes,  \* modes administrators may set for the platform
  MaxRequests,      \* bound: verification requests of administrators
  MaxRestarts       \* bound: restarts of the backend

VARIABLES
  status,           \* deposit -> review status
  approvedBy,       \* deposit -> who approved it, as its review note says
  evidence,         \* deposit -> the persisted verification status
  due,              \* deposit -> its last check is longer ago than the cadence
  verificationMode, \* of the rail
  approvalMode,     \* of the rail
  actorActive,      \* who set the approval mode is still an active SUPER_ADMIN
  operations,       \* of the platform
  task,             \* task -> what it is doing
  batch,            \* deposits the worker's run still has to look at
  chain,            \* deposit -> what the blockchain says of its transaction
  requests,
  restarts

reviewVars == <<status, approvedBy>>
evidenceVars == <<evidence, due>>
configVars == <<verificationMode, approvalMode, actorActive, operations>>
counters == <<requests, restarts>>
approvalVars ==
  <<reviewVars, evidenceVars, configVars, task, batch, chain, counters>>

Tasks == Admins \union {Worker}

OpenDeposit == {"PENDING_REVIEW", "READY_FOR_APPROVAL"}

Statuses == OpenDeposit \union {"APPROVED", "REJECTED"}

Evidence == {"NONE", "PENDING", "UNAVAILABLE", "FAILED", "VERIFIED"}

ASSUME ApprovalAssumption ==
  /\ Age \in [Deposits -> Nat]
  /\ Worker \notin Admins
  /\ BatchLimit \in Nat \ {0}
  /\ OperationsModes \subseteq {"AUTOMATIC", "CONTROLLED_MANUAL"}
  /\ MaxRequests \in Nat
  /\ MaxRestarts \in Nat

Idle == [step |-> "IDLE"]

\* "result" is the evidence a task works with, "seen" the deposit status it
\* read, "source" on whose behalf it approves.
Doings ==
  {Idle, [step |-> "REFUSED"]}
    \union [step : {"OBSERVE"}, deposit : Deposits]
    \union [step : {"PERSIST", "POLICY"}, deposit : Deposits, result : Evidence]
    \union [step : {"APPROVE"}, deposit : Deposits, source : {"MANUAL", "AUTO"}]
    \union [step : {"GUARD", "COMMIT"}, deposit : Deposits,
            source : {"MANUAL", "AUTO"}, seen : Statuses]

ApprovalTypeOK ==
  /\ status \in [Deposits -> Statuses]
  /\ approvedBy \in [Deposits -> {"NOBODY", "MANUAL", "AUTO"}]
  /\ evidence \in [Deposits -> Evidence]
  /\ due \in [Deposits -> BOOLEAN]
  /\ verificationMode \in {"OFF", "VERIFY_ONLY"}
  /\ approvalMode \in {"MANUAL", "AUTO"}
  /\ actorActive \in BOOLEAN
  /\ operations \in {"AUTOMATIC", "CONTROLLED_MANUAL"}
  /\ task \in [Tasks -> Doings]
  /\ batch \subseteq Deposits
  /\ chain \in [Deposits -> {"UNSEEN", "MINED", "CONFIRMED", "INVALID"}]
  /\ requests \in 0..MaxRequests
  /\ restarts \in 0..MaxRestarts

ApprovalInit ==
  /\ status = [d \in Deposits |-> "PENDING_REVIEW"]
  /\ approvedBy = [d \in Deposits |-> "NOBODY"]
  /\ evidence = [d \in Deposits |-> "NONE"]
  /\ due = [d \in Deposits |-> TRUE]
  /\ verificationMode = "OFF"
  /\ approvalMode = "MANUAL"
  /\ actorActive = TRUE
  /\ operations = "AUTOMATIC"
  /\ task = [t \in Tasks |-> Idle]
  /\ batch = {}
  /\ chain = [d \in Deposits |-> "UNSEEN"]
  /\ requests = 0
  /\ restarts = 0

Free(t) == task[t].step \in {"IDLE", "REFUSED"}

Doing(t, step) == task[t].step = step

-----------------------------------------------------------------------------
(* Verification.                                                            *)

(* A deposit that has verified evidence is not looked up again.             *)
StartVerification(t, d) ==
  /\ verificationMode = "VERIFY_ONLY"
  /\ task' = [task EXCEPT ![t] =
       IF evidence[d] = "VERIFIED"
       THEN [step |-> "POLICY", deposit |-> d, result |-> "VERIFIED"]
       ELSE [step |-> "OBSERVE", deposit |-> d]]

AskVerification(t, d) ==
  /\ Free(t)
  /\ requests < MaxRequests
  /\ requests' = requests + 1
  /\ StartVerification(t, d)
  /\ UNCHANGED <<reviewVars, evidenceVars, configVars, batch, chain, restarts>>

\* Mutant of Finding: a mined transaction counts, confirmed or not.
FindingWithoutConfirmations(d) ==
  CASE chain[d] \in {"MINED", "CONFIRMED"} -> "VERIFIED"
    [] chain[d] = "INVALID" -> "FAILED"
    [] OTHER -> "PENDING"

(* What the blockchain proves of a deposit right now.                       *)
Finding(d) ==
  CASE chain[d] = "CONFIRMED" -> "VERIFIED"
    [] chain[d] = "INVALID" -> "FAILED"
    [] OTHER -> "PENDING"

Found(t, result) ==
  /\ Doing(t, "OBSERVE")
  /\ task' = [task EXCEPT ![t] =
       [step |-> "PERSIST", deposit |-> task[t].deposit, result |-> result]]
  /\ UNCHANGED <<reviewVars, evidenceVars, configVars, batch, chain, counters>>

Observe(t) == Found(t, Finding(task[t].deposit))

RpcUnavailable(t) == Found(t, "UNAVAILABLE")

(* The result replaces whatever evidence is stored by now.                  *)
Persist(t) ==
  LET d == task[t].deposit
  IN /\ Doing(t, "PERSIST")
     /\ evidence' = [evidence EXCEPT ![d] = task[t].result]
     /\ due' = [due EXCEPT ![d] = FALSE]
     /\ task' = [task EXCEPT ![t].step = "POLICY"]
     /\ UNCHANGED <<reviewVars, configVars, batch, chain, counters>>

(* The administrator in whose name deposits are approved automatically.     *)
AutomaticActor == approvalMode = "AUTO" /\ actorActive

(* Under AUTO a task that holds verified evidence goes on to approve; the   *)
(* worker has looked its actor up before it began.                          *)
ApplyPolicy(t) ==
  /\ Doing(t, "POLICY")
  /\ task' = [task EXCEPT ![t] =
       IF /\ approvalMode = "AUTO"
          /\ task[t].result = "VERIFIED"
          /\ t = Worker \/ AutomaticActor
       THEN [step |-> "APPROVE", deposit |-> task[t].deposit, source |-> "AUTO"]
       ELSE Idle]
  /\ UNCHANGED <<reviewVars, evidenceVars, configVars, batch, chain, counters>>

-----------------------------------------------------------------------------
(* Approval.                                                                *)

AskApproval(t, d) ==
  /\ Free(t)
  /\ task' = [task EXCEPT ![t] =
       [step |-> "APPROVE", deposit |-> d, source |-> "MANUAL"]]
  /\ UNCHANGED <<reviewVars, evidenceVars, configVars, batch, chain, counters>>

(* The guard is skipped for a deposit that was seen approved.               *)
ReadDeposit(t) ==
  LET d == task[t].deposit
  IN /\ Doing(t, "APPROVE")
     /\ task' = [task EXCEPT ![t] =
          [step |-> IF status[d] = "APPROVED" THEN "COMMIT" ELSE "GUARD",
           deposit |-> d, source |-> task[t].source, seen |-> status[d]]]
     /\ UNCHANGED <<reviewVars, evidenceVars, configVars, batch, chain, counters>>

Allowed(source, d) ==
  \/ status[d] = "APPROVED"
  \/ /\ source = "AUTO"
     /\ approvalMode = "AUTO"
     /\ verificationMode = "VERIFY_ONLY"
     /\ evidence[d] = "VERIFIED"
  \/ /\ source = "MANUAL"
     /\ approvalMode = "MANUAL"
     /\ verificationMode = "VERIFY_ONLY" => evidence[d] = "VERIFIED"

AskGuard(t) ==
  /\ Doing(t, "GUARD")
  /\ task' = [task EXCEPT ![t] =
       IF Allowed(task[t].source, task[t].deposit)
       THEN [task[t] EXCEPT !.step = "COMMIT"]
       ELSE [step |-> "REFUSED"]]
  /\ UNCHANGED <<reviewVars, evidenceVars, configVars, batch, chain, counters>>

\* Mutant of Commit: the transaction trusts the status that was read earlier.
CommitSeen(t) ==
  LET d == task[t].deposit
  IN /\ Doing(t, "COMMIT")
     /\ IF task[t].seen \in OpenDeposit
        THEN /\ status' = [status EXCEPT ![d] = "APPROVED"]
             /\ approvedBy' = [approvedBy EXCEPT ![d] = task[t].source]
        ELSE UNCHANGED reviewVars
     /\ task' = [task EXCEPT ![t] = Idle]
     /\ UNCHANGED <<evidenceVars, configVars, batch, chain, counters>>

(* A deposit seen in PENDING_REVIEW is approved directly, any other by the  *)
(* final review; both transactions check the status again, and neither the  *)
(* mode nor the evidence.                                                   *)
Commit(t) ==
  LET d == task[t].deposit
  IN /\ Doing(t, "COMMIT")
     /\ IF task[t].seen \in OpenDeposit /\ status[d] = task[t].seen
        THEN /\ status' = [status EXCEPT ![d] = "APPROVED"]
             /\ approvedBy' = [approvedBy EXCEPT ![d] = task[t].source]
        ELSE UNCHANGED reviewVars
     /\ task' = [task EXCEPT ![t] = Idle]
     /\ UNCHANGED <<evidenceVars, configVars, batch, chain, counters>>

MarkReadyForApproval(d) ==
  /\ status[d] = "PENDING_REVIEW"
  /\ status' = [status EXCEPT ![d] = "READY_FOR_APPROVAL"]
  /\ UNCHANGED <<approvedBy, evidenceVars, configVars, task, batch, chain, counters>>

RejectDeposit(d) ==
  /\ status[d] \in OpenDeposit
  /\ status' = [status EXCEPT ![d] = "REJECTED"]
  /\ UNCHANGED <<approvedBy, evidenceVars, configVars, task, batch, chain, counters>>

-----------------------------------------------------------------------------
(* The worker.                                                              *)

Candidates ==
  {d \in Deposits :
     /\ approvalMode = "AUTO"
     /\ verificationMode = "VERIFY_ONLY"
     /\ status[d] \in OpenDeposit
     /\ evidence[d] # "FAILED"
     /\ due[d] \/ evidence[d] = "VERIFIED"}

Oldest(S, n) == {d \in S : Cardinality({e \in S : Age[e] < Age[d]}) < n}

WorkerRun ==
  /\ Free(Worker)
  /\ batch = {}
  /\ operations = "AUTOMATIC"
  /\ Candidates # {}
  /\ batch' = Oldest(Candidates, BatchLimit)
  /\ UNCHANGED <<reviewVars, evidenceVars, configVars, task, chain, counters>>

\* Mutant of WorkerTakes: evidence that is already verified is skipped.
WorkerTakesUnverified(d) ==
  /\ Free(Worker)
  /\ d \in Oldest(batch, 1)
  /\ batch' = batch \ {d}
  /\ IF /\ AutomaticActor
        /\ verificationMode = "VERIFY_ONLY"
        /\ evidence[d] # "VERIFIED"
     THEN StartVerification(Worker, d)
     ELSE task' = [task EXCEPT ![Worker] = Idle]
  /\ UNCHANGED <<reviewVars, evidenceVars, configVars, chain, counters>>

(* A deposit whose rail left AUTO or verification meanwhile, or has no      *)
(* administrator to act for, is passed over as it is.                       *)
WorkerTakes(d) ==
  /\ Free(Worker)
  /\ d \in Oldest(batch, 1)
  /\ batch' = batch \ {d}
  /\ IF AutomaticActor /\ verificationMode = "VERIFY_ONLY"
     THEN StartVerification(Worker, d)
     ELSE task' = [task EXCEPT ![Worker] = Idle]
  /\ UNCHANGED <<reviewVars, evidenceVars, configVars, chain, counters>>

CadenceElapses(d) ==
  /\ ~ due[d]
  /\ due' = [due EXCEPT ![d] = TRUE]
  /\ UNCHANGED <<reviewVars, evidence, configVars, task, batch, chain, counters>>

-----------------------------------------------------------------------------
(* Administration, the backend's restarts and the blockchain.               *)

ConfigureVerification(mode) ==
  /\ verificationMode' = mode
  /\ UNCHANGED <<reviewVars, evidenceVars, approvalMode, actorActive, operations,
                 task, batch, chain, counters>>

(* Only an active SUPER_ADMIN sets the mode, and is the actor from then on. *)
ConfigureApprovalMode(mode) ==
  /\ mode = "AUTO" => verificationMode = "VERIFY_ONLY"
  /\ approvalMode' = mode
  /\ actorActive' = TRUE
  /\ UNCHANGED <<reviewVars, evidenceVars, verificationMode, operations, task, batch,
                 chain, counters>>

(* The actor loses or regains the role or the account; nobody looks at it   *)
(* while the mode is MANUAL.                                                *)
ActorChanges ==
  /\ approvalMode = "AUTO"
  /\ actorActive' = ~ actorActive
  /\ UNCHANGED <<reviewVars, evidenceVars, verificationMode, approvalMode, operations,
                 task, batch, chain, counters>>

ConfigureOperations(mode) ==
  /\ operations' = mode
  /\ UNCHANGED <<reviewVars, evidenceVars, verificationMode, approvalMode, actorActive,
                 task, batch, chain, counters>>

(* What tasks have in hand is lost, what they wrote stays.                  *)
Restart ==
  /\ restarts < MaxRestarts
  /\ restarts' = restarts + 1
  /\ task' = [t \in Tasks |-> Idle]
  /\ batch' = {}
  /\ UNCHANGED <<reviewVars, evidenceVars, configVars, chain, requests>>

(* A mined transaction may still be dropped until it is confirmed; one that *)
(* reverted or paid something else never becomes the payment.               *)
BlockchainMoves(d) ==
  /\ \/ chain[d] = "UNSEEN" /\ chain' = [chain EXCEPT ![d] = "MINED"]
     \/ chain[d] = "UNSEEN" /\ chain' = [chain EXCEPT ![d] = "INVALID"]
     \/ chain[d] = "MINED" /\ chain' = [chain EXCEPT ![d] = "UNSEEN"]
     \/ chain[d] = "MINED" /\ chain' = [chain EXCEPT ![d] = "CONFIRMED"]
  /\ UNCHANGED <<reviewVars, evidenceVars, configVars, task, batch, counters>>

-----------------------------------------------------------------------------

TaskStep(t) ==
  \/ Observe(t)
  \/ Persist(t)
  \/ ApplyPolicy(t)
  \/ ReadDeposit(t)
  \/ AskGuard(t)
  \/ Commit(t)

ApprovalNext ==
  \/ \E t \in Tasks : TaskStep(t)
  \/ \E t \in Tasks : RpcUnavailable(t)
  \/ \E t \in Admins, d \in Deposits : AskVerification(t, d)
  \/ \E t \in Admins, d \in Deposits : AskApproval(t, d)
  \/ \E d \in Deposits : MarkReadyForApproval(d)
  \/ \E d \in Deposits : RejectDeposit(d)
  \/ WorkerRun
  \/ \E d \in Deposits : WorkerTakes(d)
  \/ \E d \in Deposits : CadenceElapses(d)
  \/ \E mode \in {"OFF", "VERIFY_ONLY"} : ConfigureVerification(mode)
  \/ \E mode \in {"MANUAL", "AUTO"} : ConfigureApprovalMode(mode)
  \/ ActorChanges
  \/ \E mode \in OperationsModes : ConfigureOperations(mode)
  \/ Restart
  \/ \E d \in Deposits : BlockchainMoves(d)

ApprovalSpec == ApprovalInit /\ [][ApprovalNext]_approvalVars

ObserveDeposit(t, d) == Observe(t) /\ task[t].deposit = d

(* The timer starts a run again and again, a run goes through its batch,    *)
(* the cadence is an interval of time, and the RPC, asked about a deposit   *)
(* again and again, answers in the end.                                     *)
FairApprovalSpec ==
  /\ ApprovalSpec
  /\ \A t \in Tasks : WF_approvalVars(TaskStep(t))
  /\ \A t \in Tasks, d \in Deposits : SF_approvalVars(ObserveDeposit(t, d))
  /\ WF_approvalVars(WorkerRun)
  /\ WF_approvalVars(\E d \in Deposits : WorkerTakes(d))
  /\ \A d \in Deposits : WF_approvalVars(CadenceElapses(d))

-----------------------------------------------------------------------------
(* Properties.                                                              *)

\* An automatic approval is only ever given to a deposit whose payment is
\* confirmed on the blockchain, however stale what the tasks read had become.
AutomaticApprovalIsPaid ==
  \A d \in Deposits : approvedBy[d] = "AUTO" => chain[d] = "CONFIRMED"

\* Approval and rejection are final: no task that read the deposit before it
\* was reviewed undoes or repeats the review.
ReviewIsFinal ==
  [][\A d \in Deposits :
       status[d] \notin OpenDeposit =>
         /\ status'[d] = status[d]
         /\ approvedBy'[d] = approvedBy[d]]_reviewVars

\* The worker is in charge of the rail from some time on, in the name of an
\* administrator who stays one: the documents make automation fail closed
\* when the configured actor is no longer an active SUPER_ADMIN.
AutomaticForGood ==
  <>[](/\ operations = "AUTOMATIC"
       /\ AutomaticActor
       /\ verificationMode = "VERIFY_ONLY")

\* On a rail that stays automatic every confirmed payment is reviewed in the
\* end, through outages of the RPC, a restart and stale tasks of others.  The
\* documents promise this "eventual processing" of the worker; it is kept
\* while a run has room for every open deposit, and broken beyond.
PaidDepositsAreProcessed ==
  AutomaticForGood =>
    \A d \in Deposits : chain[d] = "CONFIRMED" ~> status[d] \notin OpenDeposit

-----------------------------------------------------------------------------
(* What the documents promise and the code does not keep.                   *)

\* Verified evidence is monotonic: nothing downgrades it.  The upsert of a
\* slower verification does.
VerifiedIsMonotonic ==
  [][\A d \in Deposits :
       evidence[d] = "VERIFIED" => evidence'[d] = "VERIFIED"]_evidenceVars

\* Evidence that is pending, unavailable or failed does not enter automatic
\* approval.  The guard looks at it, the approval commits later.
NoAutomaticApprovalWithoutEvidence ==
  [][\A d \in Deposits :
       approvedBy[d] # "AUTO" /\ approvedBy'[d] = "AUTO"
         => evidence[d] = "VERIFIED"]_reviewVars

\* In MANUAL mode the blockchain evidence does not block the approval of an
\* open deposit by hand.  The guard refuses it.
ManualModeNeverBlocks ==
  [][\A t \in Tasks :
       /\ Doing(t, "GUARD")
       /\ task[t].source = "MANUAL"
       /\ approvalMode = "MANUAL"
       => task'[t].step # "REFUSED"]_task
=============================================================================
