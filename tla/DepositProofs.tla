--------------------------- MODULE DepositProofs ----------------------------
(***************************************************************************)
(* Proofs about deposits: their submission, for every number of users,     *)
(* packages, wallets and transactions, and their approval, for every set   *)
(* of deposits, of concurrent administrators' requests and every bound.    *)
(* The two components have no state in common; neither half uses the       *)
(* other.                                                                  *)
(***************************************************************************)
EXTENDS DepositApproval, DepositSubmission,
        FiniteSetTheorems, FunctionTheorems, SequenceTheorems, TLAPS

-----------------------------------------------------------------------------
(* Approval.                                                                *)

\* The deposit a task is busy with is paid as far as the task claims: verified
\* evidence in its hands, and an automatic approval under way, were earned on
\* a confirmed transaction, and a confirmed transaction stays confirmed.
ClaimIsPaid(t) ==
  /\ task[t].step \in {"PERSIST", "POLICY"} /\ task[t].result = "VERIFIED"
       => chain[task[t].deposit] = "CONFIRMED"
  /\ task[t].step \in {"APPROVE", "GUARD", "COMMIT"} /\ task[t].source = "AUTO"
       => chain[task[t].deposit] = "CONFIRMED"

ApprovalInv ==
  /\ ApprovalTypeOK
  /\ \A d \in Deposits : evidence[d] = "VERIFIED" => chain[d] = "CONFIRMED"
  /\ \A t \in Tasks : ClaimIsPaid(t)
  /\ AutomaticApprovalIsPaid

\* What a task is doing tells which fields its record has.
LEMMA DoingFields ==
  ASSUME NEW r \in Doings
  PROVE  /\ r.step = "OBSERVE" => r.deposit \in Deposits
         /\ r.step \in {"PERSIST", "POLICY"} =>
              /\ r.deposit \in Deposits
              /\ r.result \in Evidence
              /\ r = [step |-> r.step, deposit |-> r.deposit, result |-> r.result]
         /\ r.step = "APPROVE" =>
              r.deposit \in Deposits /\ r.source \in {"MANUAL", "AUTO"}
         /\ r.step \in {"GUARD", "COMMIT"} =>
              /\ r.deposit \in Deposits
              /\ r.source \in {"MANUAL", "AUTO"}
              /\ r.seen \in Statuses
              /\ r = [step |-> r.step, deposit |-> r.deposit, source |-> r.source,
                      seen |-> r.seen]
BY DEF Doings, Idle

\* The invariant holds when the backend starts.
LEMMA ApprovalInvInit == ApprovalInit => ApprovalInv
<1> SUFFICES ASSUME ApprovalInit PROVE ApprovalInv
  OBVIOUS
<1>1. Idle \in Doings
  BY DEF Doings
<1>2. ApprovalTypeOK
  BY <1>1, ApprovalAssumption
     DEF ApprovalInit, ApprovalTypeOK, Statuses, OpenDeposit, Evidence
<1>3. \A t \in Tasks : ClaimIsPaid(t)
  BY DEF ApprovalInit, Idle, ClaimIsPaid
<1> QED BY <1>2, <1>3 DEF ApprovalInit, ApprovalInv, AutomaticApprovalIsPaid

\* Each task's own claim is all a step of that task has to account for.
LEMMA OtherClaimsKept ==
  ASSUME ApprovalInv, NEW t \in Tasks, NEW r \in Doings,
         task' = [task EXCEPT ![t] = r],
         UNCHANGED chain, ClaimIsPaid(t)'
  PROVE  \A u \in Tasks : ClaimIsPaid(u)'
BY DEF ApprovalInv, ApprovalTypeOK, ClaimIsPaid

\* A task that starts to verify claims only what the evidence says.
LEMMA StartEffect ==
  ASSUME ApprovalInv, NEW t \in Tasks, NEW d \in Deposits, StartVerification(t, d),
         UNCHANGED chain
  PROVE  /\ task' \in [Tasks -> Doings]
         /\ \A u \in Tasks : ClaimIsPaid(u)'
<1> DEFINE r == IF evidence[d] = "VERIFIED"
                THEN [step |-> "POLICY", deposit |-> d, result |-> "VERIFIED"]
                ELSE [step |-> "OBSERVE", deposit |-> d]
<1>1. task' = [task EXCEPT ![t] = r]
  BY DEF StartVerification
<1>2. r \in Doings
  BY DEF Doings, Evidence
<1>3. ClaimIsPaid(t)'
  BY <1>1 DEF ApprovalInv, ApprovalTypeOK, ClaimIsPaid
<1> HIDE DEF r
<1>4. \A u \in Tasks : ClaimIsPaid(u)'
  BY <1>1, <1>2, <1>3, OtherClaimsKept
<1> QED BY <1>1, <1>2, <1>4 DEF ApprovalInv, ApprovalTypeOK

\* Every step of a task keeps the invariant.
LEMMA TaskStepKeeps ==
  ASSUME ApprovalInv, NEW t \in Tasks, TaskStep(t) \/ RpcUnavailable(t)
  PROVE  ApprovalInv'
<1> DEFINE d == task[t].deposit
<1>0. task[t] \in Doings
  BY DEF ApprovalInv, ApprovalTypeOK
<1>1. ASSUME NEW result \in Evidence, Found(t, result),
             result = "VERIFIED" => chain[d] = "CONFIRMED"
      PROVE  ApprovalInv'
  <2> DEFINE r == [step |-> "PERSIST", deposit |-> d, result |-> result]
  <2>1. d \in Deposits
    BY <1>0, <1>1, DoingFields DEF Found, Doing
  <2>2. /\ task' = [task EXCEPT ![t] = r]
        /\ UNCHANGED <<reviewVars, evidenceVars, configVars, batch, chain, counters>>
    BY <1>1 DEF Found
  <2>3. r \in Doings
    BY <2>1 DEF Doings
  <2>4. ClaimIsPaid(t)'
    BY <1>1, <2>2 DEF ApprovalInv, ApprovalTypeOK, ClaimIsPaid
  <2> HIDE DEF r
  <2>5. \A u \in Tasks : ClaimIsPaid(u)'
    BY <2>2, <2>3, <2>4, OtherClaimsKept
  <2> QED BY <2>2, <2>3, <2>5 DEF ApprovalInv, ApprovalTypeOK, AutomaticApprovalIsPaid,
             reviewVars, evidenceVars, configVars, counters
<1>2. CASE Observe(t)
  <2>1. d \in Deposits
    BY <1>0, <1>2, DoingFields DEF Observe, Found, Doing
  <2>2. Finding(d) \in Evidence /\ (Finding(d) = "VERIFIED" => chain[d] = "CONFIRMED")
    BY <2>1 DEF Finding, Evidence
  <2> QED BY <1>1, <1>2, <2>2 DEF Observe
<1>3. CASE RpcUnavailable(t)
  BY <1>1, <1>3 DEF RpcUnavailable, Evidence
<1>4. CASE Persist(t)
  <2> DEFINE r == [task[t] EXCEPT !.step = "POLICY"]
  <2>1. /\ d \in Deposits /\ task[t].result \in Evidence
        /\ task[t].result = "VERIFIED" => chain[d] = "CONFIRMED"
        /\ r = [step |-> "POLICY", deposit |-> d, result |-> task[t].result]
    BY <1>0, <1>4, DoingFields DEF Persist, Doing, ApprovalInv, ClaimIsPaid
  <2>2. /\ task' = [task EXCEPT ![t] = r]
        /\ evidence' = [evidence EXCEPT ![d] = task[t].result]
        /\ due' = [due EXCEPT ![d] = FALSE]
        /\ UNCHANGED <<reviewVars, configVars, batch, chain, counters>>
    BY <1>4 DEF Persist
  <2>3. r \in Doings
    BY <2>1 DEF Doings
  <2>4. ClaimIsPaid(t)'
    BY <2>1, <2>2 DEF ApprovalInv, ApprovalTypeOK, ClaimIsPaid
  <2>5. \A u \in Tasks : ClaimIsPaid(u)'
    <3> HIDE DEF r
    <3> QED BY <2>2, <2>3, <2>4, OtherClaimsKept
  <2> HIDE DEF r
  <2>6. ApprovalTypeOK'
    BY <2>1, <2>2, <2>3 DEF ApprovalInv, ApprovalTypeOK, reviewVars, configVars, counters
  <2>7. \A e \in Deposits : evidence'[e] = "VERIFIED" => chain'[e] = "CONFIRMED"
    BY <2>1, <2>2 DEF ApprovalInv, ApprovalTypeOK
  <2> QED BY <2>2, <2>5, <2>6, <2>7 DEF ApprovalInv, AutomaticApprovalIsPaid, reviewVars
<1>5. CASE ApplyPolicy(t)
  <2> DEFINE r == IF /\ approvalMode = "AUTO"
                     /\ task[t].result = "VERIFIED"
                     /\ t = Worker \/ AutomaticActor
                  THEN [step |-> "APPROVE", deposit |-> d, source |-> "AUTO"]
                  ELSE Idle
  <2>1. /\ d \in Deposits
        /\ task[t].result = "VERIFIED" => chain[d] = "CONFIRMED"
    BY <1>0, <1>5, DoingFields DEF ApplyPolicy, Doing, ApprovalInv, ClaimIsPaid
  <2>2. /\ task' = [task EXCEPT ![t] = r]
        /\ UNCHANGED <<reviewVars, evidenceVars, configVars, batch, chain, counters>>
    BY <1>5 DEF ApplyPolicy
  <2>3. r \in Doings
    BY <2>1 DEF Doings
  <2>4. ClaimIsPaid(t)'
    BY <2>1, <2>2 DEF ApprovalInv, ApprovalTypeOK, ClaimIsPaid, Idle
  <2> HIDE DEF r
  <2>5. \A u \in Tasks : ClaimIsPaid(u)'
    BY <2>2, <2>3, <2>4, OtherClaimsKept
  <2> QED BY <2>2, <2>3, <2>5 DEF ApprovalInv, ApprovalTypeOK, AutomaticApprovalIsPaid,
             reviewVars, evidenceVars, configVars, counters
<1>6. CASE ReadDeposit(t)
  <2> DEFINE r == [step |-> IF status[d] = "APPROVED" THEN "COMMIT" ELSE "GUARD",
                   deposit |-> d, source |-> task[t].source, seen |-> status[d]]
  <2>1. /\ d \in Deposits /\ task[t].source \in {"MANUAL", "AUTO"}
        /\ task[t].source = "AUTO" => chain[d] = "CONFIRMED"
        /\ status[d] \in Statuses
    BY <1>0, <1>6, DoingFields
       DEF ReadDeposit, Doing, ApprovalInv, ApprovalTypeOK, ClaimIsPaid
  <2>2. /\ task' = [task EXCEPT ![t] = r]
        /\ UNCHANGED <<reviewVars, evidenceVars, configVars, batch, chain, counters>>
    BY <1>6 DEF ReadDeposit
  <2>3. r \in Doings
    BY <2>1 DEF Doings
  <2>4. ClaimIsPaid(t)'
    BY <2>1, <2>2 DEF ApprovalInv, ApprovalTypeOK, ClaimIsPaid
  <2> HIDE DEF r
  <2>5. \A u \in Tasks : ClaimIsPaid(u)'
    BY <2>2, <2>3, <2>4, OtherClaimsKept
  <2> QED BY <2>2, <2>3, <2>5 DEF ApprovalInv, ApprovalTypeOK, AutomaticApprovalIsPaid,
             reviewVars, evidenceVars, configVars, counters
<1>7. CASE AskGuard(t)
  <2> DEFINE r == IF Allowed(task[t].source, d)
                  THEN [task[t] EXCEPT !.step = "COMMIT"] ELSE [step |-> "REFUSED"]
             c == [step |-> "COMMIT", deposit |-> d, source |-> task[t].source,
                   seen |-> task[t].seen]
  <2>1. /\ d \in Deposits /\ task[t].source \in {"MANUAL", "AUTO"}
        /\ task[t].source = "AUTO" => chain[d] = "CONFIRMED"
        /\ task[t].seen \in Statuses
        /\ [task[t] EXCEPT !.step = "COMMIT"] = c
    BY <1>0, <1>7, DoingFields DEF AskGuard, Doing, ApprovalInv, ClaimIsPaid
  <2>2. /\ task' = [task EXCEPT ![t] = r]
        /\ UNCHANGED <<reviewVars, evidenceVars, configVars, batch, chain, counters>>
    BY <1>7 DEF AskGuard
  <2>3. r \in {c, [step |-> "REFUSED"]}
    BY <2>1
  <2>4. r \in Doings
    BY <2>1, <2>3 DEF Doings
  <2>5. ClaimIsPaid(t)'
    <3> HIDE DEF r
    <3> QED BY <2>1, <2>2, <2>3 DEF ApprovalInv, ApprovalTypeOK, ClaimIsPaid
  <2> HIDE DEF r
  <2>6. \A u \in Tasks : ClaimIsPaid(u)'
    BY <2>2, <2>4, <2>5, OtherClaimsKept
  <2> QED BY <2>2, <2>4, <2>6 DEF ApprovalInv, ApprovalTypeOK, AutomaticApprovalIsPaid,
             reviewVars, evidenceVars, configVars, counters
<1>8. CASE Commit(t)
  <2>1. /\ d \in Deposits /\ task[t].source \in {"MANUAL", "AUTO"}
        /\ task[t].source = "AUTO" => chain[d] = "CONFIRMED"
    BY <1>0, <1>8, DoingFields DEF Commit, Doing, ApprovalInv, ClaimIsPaid
  <2>2. /\ task' = [task EXCEPT ![t] = Idle]
        /\ UNCHANGED <<evidenceVars, configVars, batch, chain, counters>>
    BY <1>8 DEF Commit
  <2>3. \/ UNCHANGED reviewVars
        \/ /\ status' = [status EXCEPT ![d] = "APPROVED"]
           /\ approvedBy' = [approvedBy EXCEPT ![d] = task[t].source]
    BY <1>8 DEF Commit
  <2>4. Idle \in Doings
    BY DEF Doings
  <2>5. ClaimIsPaid(t)'
    BY <2>2 DEF ApprovalInv, ApprovalTypeOK, ClaimIsPaid, Idle
  <2>6. \A u \in Tasks : ClaimIsPaid(u)'
    BY <2>2, <2>4, <2>5, OtherClaimsKept
  <2>7. ApprovalTypeOK'
    BY <2>1, <2>2, <2>3, <2>4 DEF ApprovalInv, ApprovalTypeOK, Statuses, reviewVars,
       evidenceVars, configVars, counters
  <2>8. AutomaticApprovalIsPaid'
    BY <2>1, <2>2, <2>3
       DEF ApprovalInv, ApprovalTypeOK, AutomaticApprovalIsPaid, reviewVars
  <2> QED BY <2>2, <2>6, <2>7, <2>8 DEF ApprovalInv, evidenceVars
<1> QED BY <1>2, <1>3, <1>4, <1>5, <1>6, <1>7, <1>8 DEF TaskStep

\* Requests, the worker's timer, administration, restarts and the blockchain
\* keep the invariant: none of them earns a claim or takes a confirmation back.
LEMMA EnvironmentKeeps ==
  ASSUME ApprovalInv, ApprovalNext,
         ~ \E t \in Tasks : TaskStep(t) \/ RpcUnavailable(t)
  PROVE  ApprovalInv'
<1> USE DEF ApprovalInv, ApprovalTypeOK, AutomaticApprovalIsPaid, reviewVars,
        evidenceVars, configVars, counters
<1>0. Worker \in Tasks /\ Admins \subseteq Tasks /\ Idle \in Doings
  BY DEF Tasks, Doings
<1>1. ASSUME NEW t \in Admins, NEW d \in Deposits, AskVerification(t, d)
      PROVE  ApprovalInv'
  <2>1. task' \in [Tasks -> Doings] /\ \A u \in Tasks : ClaimIsPaid(u)'
    BY <1>0, <1>1, StartEffect DEF AskVerification
  <2>2. requests' \in 0..MaxRequests
    BY <1>1, ApprovalAssumption DEF AskVerification
  <2> QED BY <1>1, <2>1, <2>2 DEF AskVerification
<1>2. ASSUME NEW t \in Admins, NEW d \in Deposits, AskApproval(t, d)
      PROVE  ApprovalInv'
  <2> DEFINE r == [step |-> "APPROVE", deposit |-> d, source |-> "MANUAL"]
  <2>1. r \in Doings
    BY DEF Doings
  <2>2. task' = [task EXCEPT ![t] = r] /\ UNCHANGED chain
    BY <1>2 DEF AskApproval
  <2>3. ClaimIsPaid(t)'
    BY <1>0, <2>2 DEF ClaimIsPaid
  <2> HIDE DEF r
  <2>4. \A u \in Tasks : ClaimIsPaid(u)'
    BY <1>0, <2>1, <2>2, <2>3, OtherClaimsKept
  <2>5. task' \in [Tasks -> Doings]
    BY <2>1, <2>2
  <2>6. UNCHANGED <<reviewVars, evidenceVars, configVars, batch, chain, counters>>
    BY <1>2 DEF AskApproval
  <2> QED BY <2>4, <2>5, <2>6
<1>3. ASSUME NEW d \in Deposits, MarkReadyForApproval(d) \/ RejectDeposit(d)
      PROVE  ApprovalInv'
  BY <1>3 DEF MarkReadyForApproval, RejectDeposit, ClaimIsPaid, Statuses, OpenDeposit
<1>4. CASE WorkerRun
  BY <1>4 DEF WorkerRun, ClaimIsPaid, Oldest, Candidates
<1>5. ASSUME NEW d \in Deposits, WorkerTakes(d)
      PROVE  ApprovalInv'
  <2>1. CASE StartVerification(Worker, d)
    <3>1. task' \in [Tasks -> Doings] /\ \A u \in Tasks : ClaimIsPaid(u)'
      BY <1>0, <1>5, <2>1, StartEffect DEF WorkerTakes
    <3> QED BY <1>5, <3>1 DEF WorkerTakes
  <2>2. CASE task' = [task EXCEPT ![Worker] = Idle]
    <3>1. ClaimIsPaid(Worker)'
      BY <1>0, <2>2 DEF ClaimIsPaid, Idle
    <3>2. \A u \in Tasks : ClaimIsPaid(u)'
      BY <1>0, <1>5, <2>2, <3>1, OtherClaimsKept DEF WorkerTakes
    <3> QED BY <1>0, <1>5, <2>2, <3>2 DEF WorkerTakes
  <2> QED BY <1>5, <2>1, <2>2 DEF WorkerTakes
<1>6. ASSUME NEW d \in Deposits, CadenceElapses(d)
      PROVE  ApprovalInv'
  BY <1>6 DEF CadenceElapses, ClaimIsPaid
<1>7. ASSUME NEW mode \in {"OFF", "VERIFY_ONLY"}, ConfigureVerification(mode)
      PROVE  ApprovalInv'
  BY <1>7 DEF ConfigureVerification, ClaimIsPaid
<1>8. ASSUME NEW mode \in {"MANUAL", "AUTO"}, ConfigureApprovalMode(mode)
      PROVE  ApprovalInv'
  BY <1>8 DEF ConfigureApprovalMode, ClaimIsPaid
<1>9. ASSUME NEW mode \in OperationsModes, ConfigureOperations(mode)
      PROVE  ApprovalInv'
  BY <1>9, ApprovalAssumption DEF ConfigureOperations, ClaimIsPaid
<1>10. CASE Restart
  <2>1. restarts' \in 0..MaxRestarts
    BY <1>10, ApprovalAssumption DEF Restart
  <2>2. task' \in [Tasks -> Doings] /\ \A u \in Tasks : ClaimIsPaid(u)'
    BY <1>0, <1>10 DEF Restart, ClaimIsPaid, Idle
  <2> QED BY <1>10, <2>1, <2>2 DEF Restart
<1>11. ASSUME NEW d \in Deposits, BlockchainMoves(d)
       PROVE  ApprovalInv'
  <2>1. chain' \in [Deposits -> {"UNSEEN", "MINED", "CONFIRMED", "INVALID"}]
    BY <1>11 DEF BlockchainMoves
  <2>2. \A e \in Deposits : chain[e] = "CONFIRMED" => chain'[e] = "CONFIRMED"
    BY <1>11 DEF BlockchainMoves
  <2>3. /\ UNCHANGED <<reviewVars, evidenceVars, configVars, task, batch, counters>>
    BY <1>11 DEF BlockchainMoves
  <2>4. \A t \in Tasks : ClaimIsPaid(t)'
    <3> SUFFICES ASSUME NEW t \in Tasks PROVE ClaimIsPaid(t)'
      OBVIOUS
    <3>1. task[t] \in Doings
      OBVIOUS
    <3> QED BY <2>2, <2>3, <3>1, DoingFields DEF ClaimIsPaid
  <2> QED BY <2>1, <2>2, <2>3, <2>4
<1>12. CASE ActorChanges
  BY <1>12 DEF ActorChanges, ClaimIsPaid
<1> QED BY <1>1, <1>2, <1>3, <1>4, <1>5, <1>6, <1>7, <1>8, <1>9, <1>10, <1>11, <1>12
        DEF ApprovalNext

\* The inductive invariant of deposit approval.
THEOREM ApprovalInvariant == ApprovalSpec => []ApprovalInv
<1>1. ApprovalInv /\ [ApprovalNext]_approvalVars => ApprovalInv'
  <2> SUFFICES ASSUME ApprovalInv, [ApprovalNext]_approvalVars PROVE ApprovalInv'
    OBVIOUS
  <2>1. CASE ApprovalNext
    BY <2>1, TaskStepKeeps, EnvironmentKeeps
  <2>2. CASE UNCHANGED approvalVars
    BY <2>2 DEF ApprovalInv, ApprovalTypeOK, AutomaticApprovalIsPaid, ClaimIsPaid,
       approvalVars, reviewVars, evidenceVars, configVars, counters
  <2> QED BY <2>1, <2>2
<1> QED BY ApprovalInvInit, <1>1, PTL DEF ApprovalSpec

\* Every variable of deposit approval keeps its type.
THEOREM ApprovalTyped == ApprovalSpec => []ApprovalTypeOK
BY ApprovalInvariant, PTL DEF ApprovalInv

\* However tasks, reconfiguration, RPC failures and restarts interleave, only
\* confirmed payments are ever approved automatically.
THEOREM AutomaticApprovalsArePaid == ApprovalSpec => []AutomaticApprovalIsPaid
BY ApprovalInvariant, PTL DEF ApprovalInv

\* No interleaving of reviews undoes or repeats an approval or a rejection.
THEOREM ReviewsAreFinal == ApprovalSpec => ReviewIsFinal
<1> DEFINE Final == \A d \in Deposits :
                      status[d] \notin OpenDeposit =>
                        /\ status'[d] = status[d]
                        /\ approvedBy'[d] = approvedBy[d]
<1>1. ApprovalInv /\ [ApprovalNext]_approvalVars => [Final]_reviewVars
  <2> SUFFICES ASSUME ApprovalInv, [ApprovalNext]_approvalVars
               PROVE  UNCHANGED reviewVars \/ Final
    OBVIOUS
  <2>1. ASSUME NEW t \in Tasks, Commit(t)
        PROVE  UNCHANGED reviewVars \/ Final
    <3> DEFINE e == task[t].deposit
    <3>1. CASE status[e] \in OpenDeposit
      <4>1. \/ UNCHANGED reviewVars
            \/ /\ status' = [status EXCEPT ![e] = "APPROVED"]
               /\ approvedBy' = [approvedBy EXCEPT ![e] = task[t].source]
        BY <2>1 DEF Commit
      <4> QED BY <3>1, <4>1 DEF ApprovalInv, ApprovalTypeOK
    <3>2. CASE status[e] \notin OpenDeposit
      BY <2>1, <3>2 DEF Commit
    <3> QED BY <3>1, <3>2
  <2>2. ASSUME NEW d \in Deposits, MarkReadyForApproval(d) \/ RejectDeposit(d)
        PROVE  Final
    BY <2>2 DEF MarkReadyForApproval, RejectDeposit, OpenDeposit, ApprovalInv,
       ApprovalTypeOK
  <2>3. CASE UNCHANGED approvalVars
    BY <2>3 DEF approvalVars
  <2>4. CASE ApprovalNext
    BY <2>1, <2>2, <2>4
       DEF ApprovalNext, TaskStep, Observe, RpcUnavailable, Found, Persist, ApplyPolicy,
           ReadDeposit, AskGuard, AskVerification, AskApproval, WorkerRun, WorkerTakes,
           CadenceElapses, ConfigureVerification, ConfigureApprovalMode,
           ActorChanges, ConfigureOperations, Restart, BlockchainMoves
  <2> QED BY <2>3, <2>4
<1>2. ApprovalSpec => [][Final]_reviewVars
  BY ApprovalInvariant, <1>1, PTL DEF ApprovalSpec
<1> QED BY <1>2 DEF ReviewIsFinal

-----------------------------------------------------------------------------
(* Submission.  The properties count sessions and deposits; the invariant   *)
(* they rest on compares them in pairs, and remembers of a payment when it  *)
(* was mined with respect to the session it could be entered with.          *)

\* Two holders have different users and different wallets.
Apart(r, s) == r.user # s.user /\ WalletOf(r.account) # WalletOf(s.account)

Waits(d) == d.status \in Open

\* All that hold a wallet, sessions and deposits, are pairwise apart.
HoldersApart ==
  /\ \A i, j \in DOMAIN sessions :
       i # j /\ Unexpired(sessions[i]) /\ Unexpired(sessions[j]) => Apart(sessions[i], sessions[j])
  /\ \A i, j \in DOMAIN deposits :
       i # j /\ Waits(deposits[i]) /\ Waits(deposits[j]) => Apart(deposits[i], deposits[j])
  /\ \A i \in DOMAIN sessions, j \in DOMAIN deposits :
       Unexpired(sessions[i]) /\ Waits(deposits[j]) => Apart(sessions[i], deposits[j])

\* The deposits and the consumed sessions on the same terms.
DepositsOn(t) == {i \in DOMAIN deposits : /\ deposits[i].checkpoint # NoCheckpoint
                                          /\ Terms(deposits[i]) = t}
SessionsOn(t) == {i \in DOMAIN sessions : /\ sessions[i].state = "CONSUMED"
                                          /\ Terms(sessions[i]) = t}

\* They are as many.
TakenOnce == \A t : Cardinality(DepositsOn(t)) = Cardinality(SessionsOn(t))

\* Somebody paid to the wallet of r while holding it.
PaidTo(r, x) == /\ transfer[x] # NoTransfer
                /\ transfer[x].held /\ transfer[x].wallet = WalletOf(r.account)

MinedByNow == \A x \in Transfers : transfer[x] # NoTransfer => transfer[x].second <= Second(now)

\* What others paid to the wallet of a session was mined by its checkpoint.
PaidBeforeSession ==
  \A i \in DOMAIN sessions, x \in Transfers :
    Unexpired(sessions[i]) /\ PaidTo(sessions[i], x) /\ Sender[x] # sessions[i].user
      => transfer[x].second <= Second(sessions[i].checkpoint)

\* Nobody else has paid to the wallet of an old deposit that waits for its
\* transaction.
OwnBeforeTxid ==
  \A i \in DOMAIN deposits, x \in Transfers :
    deposits[i].status = "AWAITING_TXID" /\ PaidTo(deposits[i], x) => Sender[x] = deposits[i].user

\* The transaction of somebody else had been mined when it was entered, and if
\* it was paid by a holder of the wallet, by the checkpoint of the deposit.
OthersEnteredMined ==
  \A i \in DOMAIN deposits :
    LET d == deposits[i]
    IN  d.txid # NoTransfer /\ Sender[d.txid] # d.user =>
          /\ transfer[d.txid] # NoTransfer
          /\ PaidTo(d, d.txid) => /\ d.checkpoint # NoCheckpoint
                                  /\ transfer[d.txid].second <= Second(d.checkpoint)

SubmissionInv ==
  /\ SubmissionTypeOK /\ HoldersApart /\ TakenOnce /\ MinedByNow
  /\ PaidBeforeSession /\ OwnBeforeTxid /\ OthersEnteredMined

-----------------------------------------------------------------------------
(* Instants, sets of one element, and the rows of the tables.               *)

\* Seconds follow instants.
LEMMA SecondsOrdered ==
  ASSUME NEW t \in Nat, NEW n \in Nat, t <= n
  PROVE  Second(t) \in Nat /\ Second(n) \in Nat /\ Second(t) <= Second(n)
<1>1. PerSecond \in Nat /\ PerSecond > 0
  BY SubmissionAssumption
<1> DEFINE a == t \div PerSecond
           b == n \div PerSecond
<1>2. /\ a \in Int /\ PerSecond * a <= t /\ t < PerSecond * a + PerSecond
      /\ b \in Int /\ PerSecond * b <= n /\ n < PerSecond * b + PerSecond
  BY <1>1, Z3
<1> HIDE DEF a, b
<1>3. ASSUME NEW p \in Int, NEW q \in Int, p >= q + 1
      PROVE  PerSecond * p >= PerSecond * q + PerSecond
  BY <1>1, <1>3, Z3
<1>4. a <= b
  <2> SUFFICES ASSUME a >= b + 1 PROVE FALSE
    BY <1>2
  <2> HIDE DEF a, b
  <2>1. PerSecond * a >= PerSecond * b + PerSecond
    BY <1>2, <1>3
  <2>2. PerSecond * a \in Int /\ PerSecond * b \in Int
    BY <1>1, <1>2
  <2> QED BY <1>1, <1>2, <2>1, <2>2
<1>5. a >= 0 /\ b >= 0
  <2>1. ASSUME NEW p \in Int, p < 0 PROVE PerSecond * p + PerSecond <= 0
    BY <1>1, <2>1, Z3
  <2>2. PerSecond * a \in Int /\ PerSecond * b \in Int
    BY <1>1, <1>2
  <2> QED BY <1>1, <1>2, <2>1, <2>2
<1> QED BY <1>2, <1>4, <1>5 DEF a, b, Second

\* A set in which any two elements are equal has at most one.
LEMMA AtMostOne ==
  ASSUME NEW S, \A x, y \in S : x = y
  PROVE  /\ IsFiniteSet(S) /\ Cardinality(S) \in {0, 1}
         /\ Cardinality(S) = 1 => S # {}
<1>1. CASE S = {}
  BY <1>1, FS_EmptySet
<1>2. CASE S # {}
  <2>1. PICK x : S = {x}
    BY <1>2
  <2> QED BY <2>1, FS_Singleton
<1> QED BY <1>1, <1>2

\* Rows are numbered from 1 and have their type.
LEMMA RowsTyped ==
  ASSUME SubmissionTypeOK
  PROVE  /\ Len(sessions) \in Nat /\ DOMAIN sessions = 1..Len(sessions)
         /\ \A i \in DOMAIN sessions : sessions[i] \in Session
         /\ sessions = [i \in 1..Len(sessions) |-> sessions[i]]
         /\ Len(deposits) \in Nat /\ DOMAIN deposits = 1..Len(deposits)
         /\ \A i \in DOMAIN deposits : deposits[i] \in Deposit
         /\ deposits = [i \in 1..Len(deposits) |-> deposits[i]]
<1>1. sessions \in Seq(Session) /\ deposits \in Seq(Deposit)
  BY DEF SubmissionTypeOK
<1> QED BY <1>1, LenProperties, ElementOfSeq

\* A function on 1..n is a sequence.
LEMMA RowsMade ==
  ASSUME NEW S, NEW n \in Nat, NEW f, f = [i \in 1..n |-> f[i]], \A i \in 1..n : f[i] \in S
  PROVE  f \in Seq(S)
<1>1. f \in [1..n -> S]
  OBVIOUS
<1> QED BY <1>1, SeqDef

\* The deposits on the same terms are finitely many.
LEMMA FiniteRows ==
  ASSUME SubmissionTypeOK, NEW t
  PROVE  IsFiniteSet(DepositsOn(t)) /\ IsFiniteSet(SessionsOn(t))
<1>1. Len(deposits) \in Int /\ Len(sessions) \in Int
  BY RowsTyped
<1>2. DepositsOn(t) \subseteq 1..Len(deposits) /\ SessionsOn(t) \subseteq 1..Len(sessions)
  BY RowsTyped DEF DepositsOn, SessionsOn
<1>3. IsFiniteSet(1..Len(deposits)) /\ IsFiniteSet(1..Len(sessions))
  BY <1>1, FS_Interval
<1> QED BY <1>2, <1>3, FS_Subset

\* Releasing the expired sessions touches none that holds a wallet or is used.
LEMMA Released ==
  ASSUME SubmissionTypeOK
  PROVE  LET released == ReleaseExpired(sessions)
         IN  /\ released \in Seq(Session) /\ Len(released) = Len(sessions)
             /\ DOMAIN released = DOMAIN sessions
             /\ \A i \in DOMAIN sessions :
                  /\ Terms(released[i]) = Terms(sessions[i])
                  /\ Unexpired(sessions[i]) => released[i] = sessions[i]
                  /\ Unexpired(released[i]) => Unexpired(sessions[i])
                  /\ released[i].state = "CONSUMED" <=> sessions[i].state = "CONSUMED"
<1> DEFINE released == ReleaseExpired(sessions)
<1>1. /\ Len(sessions) \in Nat /\ DOMAIN sessions = 1..Len(sessions)
      /\ \A i \in DOMAIN sessions : sessions[i] \in Session
      /\ now \in Nat
  BY RowsTyped DEF SubmissionTypeOK
<1>2. /\ DOMAIN released = DOMAIN sessions
      /\ released = [i \in DOMAIN sessions |-> released[i]]
      /\ \A i \in DOMAIN sessions :
           IF sessions[i].state = "ACTIVE" /\ sessions[i].expires <= now
           THEN released[i] = [sessions[i] EXCEPT !.state = "RELEASED"]
           ELSE released[i] = sessions[i]
  BY DEF ReleaseExpired
<1> HIDE DEF released
<1>3. ASSUME NEW i \in DOMAIN sessions
      PROVE  /\ released[i] \in Session
             /\ Terms(released[i]) = Terms(sessions[i])
             /\ Unexpired(sessions[i]) => released[i] = sessions[i]
             /\ Unexpired(released[i]) => Unexpired(sessions[i])
             /\ released[i].state = "CONSUMED" <=> sessions[i].state = "CONSUMED"
  <2>1. sessions[i] \in Session /\ sessions[i].expires \in Nat
    BY <1>1 DEF Session
  <2>2. CASE sessions[i].state = "ACTIVE" /\ sessions[i].expires <= now
    <3>1. released[i] = [sessions[i] EXCEPT !.state = "RELEASED"]
      BY <1>2, <2>2
    <3>2. /\ released[i] \in Session /\ released[i].state = "RELEASED"
          /\ Terms(released[i]) = Terms(sessions[i])
      BY <2>1, <3>1 DEF Session, Terms
    <3>3. ~Unexpired(sessions[i]) /\ ~Unexpired(released[i])
      BY <1>1, <2>1, <2>2, <3>2 DEF Unexpired
    <3> QED BY <2>2, <3>2, <3>3
  <2>3. CASE ~(sessions[i].state = "ACTIVE" /\ sessions[i].expires <= now)
    BY <1>2, <2>1, <2>3
  <2> QED BY <2>2, <2>3
<1>4. released \in Seq(Session)
  BY <1>1, <1>2, <1>3, RowsMade
<1>5. Len(released) = Len(sessions)
  BY <1>1, <1>2, <1>4, LenProperties
<1> QED BY <1>2, <1>3, <1>4, <1>5 DEF released

-----------------------------------------------------------------------------
(* What the invariant says of holders is kept where none is added.          *)

LEMMA NoHolderAdded ==
  ASSUME SubmissionInv, transfer' = transfer,
         now' \in Nat, now' >= now,
         DOMAIN sessions' = DOMAIN sessions, DOMAIN deposits' = DOMAIN deposits,
         \A i \in DOMAIN sessions :
           /\ Terms(sessions'[i]) = Terms(sessions[i])
           /\ Unexpired(sessions[i])' => Unexpired(sessions[i])
           /\ sessions'[i].state = "CONSUMED" <=> sessions[i].state = "CONSUMED",
         \A i \in DOMAIN deposits :
           /\ Terms(deposits'[i]) = Terms(deposits[i])
           /\ Waits(deposits[i])' => Waits(deposits[i])
           /\ deposits'[i].status = "AWAITING_TXID" => deposits[i].status = "AWAITING_TXID"
  PROVE  HoldersApart' /\ TakenOnce' /\ MinedByNow' /\ PaidBeforeSession' /\ OwnBeforeTxid'
<1>1. /\ \A i \in DOMAIN sessions :
           /\ sessions'[i].user = sessions[i].user
           /\ sessions'[i].account = sessions[i].account
           /\ sessions'[i].checkpoint = sessions[i].checkpoint
      /\ \A i \in DOMAIN deposits :
           /\ deposits'[i].user = deposits[i].user
           /\ deposits'[i].account = deposits[i].account
           /\ deposits'[i].checkpoint = deposits[i].checkpoint
  BY DEF Terms
<1>2. HoldersApart'
  BY <1>1 DEF SubmissionInv, HoldersApart, Apart
<1>3. TakenOnce'
  <2>1. \A t : DepositsOn(t)' = DepositsOn(t) /\ SessionsOn(t)' = SessionsOn(t)
    BY <1>1 DEF DepositsOn, SessionsOn
  <2> QED BY <2>1 DEF SubmissionInv, TakenOnce
<1>4. MinedByNow'
  <2>1. Second(now) \in Nat /\ Second(now') \in Nat /\ Second(now) <= Second(now')
    BY SecondsOrdered DEF SubmissionInv, SubmissionTypeOK
  <2>2. ASSUME NEW x \in Transfers, transfer[x] # NoTransfer
        PROVE  transfer[x].second <= Second(now')
    <3>1. transfer[x].second \in Nat /\ transfer[x].second <= Second(now)
      BY <2>2 DEF SubmissionInv, SubmissionTypeOK, MinedByNow, Payment
    <3> QED BY <2>1, <3>1
  <2>3. Second(now)' = Second(now')
    BY DEF Second
  <2> QED BY <2>2, <2>3 DEF MinedByNow
<1>5. PaidBeforeSession'
  <2>1. \A i \in DOMAIN sessions, x \in Transfers :
          PaidTo(sessions[i], x)' <=> PaidTo(sessions[i], x)
    BY <1>1 DEF PaidTo
  <2>2. \A i \in DOMAIN sessions : Second(sessions[i].checkpoint)' = Second(sessions[i].checkpoint)
    BY <1>1 DEF Second
  <2> QED BY <1>1, <2>1, <2>2 DEF SubmissionInv, PaidBeforeSession
<1>6. OwnBeforeTxid'
  <2>1. \A i \in DOMAIN deposits, x \in Transfers :
          PaidTo(deposits[i], x)' <=> PaidTo(deposits[i], x)
    BY <1>1 DEF PaidTo
  <2> QED BY <1>1, <2>1 DEF SubmissionInv, OwnBeforeTxid
<1> QED BY <1>2, <1>3, <1>4, <1>5, <1>6

\* So is what it says of the transactions entered, if no row changes there.
LEMMA NothingEntered ==
  ASSUME SubmissionInv, transfer' = transfer, deposits' = deposits
  PROVE  OthersEnteredMined'
BY DEF SubmissionInv, OthersEnteredMined, PaidTo, Second

-----------------------------------------------------------------------------
(* The actions.                                                             *)

\* What a step that adds no holder and enters no transaction keeps.
HoldersKept ==
  /\ HoldersApart' /\ TakenOnce' /\ MinedByNow' /\ PaidBeforeSession' /\ OwnBeforeTxid'
  /\ OthersEnteredMined'

LEMMA QuietKeeps ==
  ASSUME SubmissionInv, UNCHANGED <<now, sessions, deposits, transfer>>
  PROVE  HoldersKept
<1>1. now \in Nat
  BY DEF SubmissionInv, SubmissionTypeOK
<1>2. /\ \A i \in DOMAIN sessions :
           /\ Terms(sessions'[i]) = Terms(sessions[i])
           /\ Unexpired(sessions[i])' => Unexpired(sessions[i])
           /\ sessions'[i].state = "CONSUMED" <=> sessions[i].state = "CONSUMED"
      /\ \A i \in DOMAIN deposits :
           /\ Terms(deposits'[i]) = Terms(deposits[i])
           /\ Waits(deposits[i])' => Waits(deposits[i])
           /\ deposits'[i].status = "AWAITING_TXID" => deposits[i].status = "AWAITING_TXID"
  BY DEF Unexpired, Waits
<1>3. now' \in Nat /\ now' >= now /\ DOMAIN sessions' = DOMAIN sessions
      /\ DOMAIN deposits' = DOMAIN deposits /\ transfer' = transfer
  BY <1>1
<1> QED BY <1>2, <1>3, NoHolderAdded, NothingEntered DEF HoldersKept

\* The configuration and the packages of users hold no wallet.
LEMMA ChangeKeeps ==
  ASSUME SubmissionInv,
         \/ \E available \in SUBSET Packages : PublishPlan(available)
         \/ \E a \in Accounts, new \in {"ACTIVE", "INACTIVE"} : CreateAccount(a, new)
         \/ \E p \in Packages, a \in Accounts : CreatePackageAccount(p, a)
         \/ \E p \in Packages, a \in Accounts \union {NoAccount} : ConfigurePackageRoute(p, a)
         \/ \E a \in Accounts, new \in {"ACTIVE", "INACTIVE"} : UpdateAccount(a, new)
         \/ \E r \in Rails, new \in {"ACTIVE", "INACTIVE"} : UpdateRail(r, new)
         \/ \E u \in Users, p \in Packages : PackageChanges(u, p)
  PROVE  SubmissionInv'
<1>1. SubmissionTypeOK
  BY DEF SubmissionInv
<1>2. ASSUME NEW available \in SUBSET Packages, PublishPlan(available)
      PROVE  SubmissionTypeOK' /\ UNCHANGED <<now, sessions, deposits, transfer>>
  BY <1>1, <1>2 DEF PublishPlan, Change, routing, SubmissionTypeOK
<1>3. ASSUME NEW a \in Accounts, NEW new \in {"ACTIVE", "INACTIVE"},
             CreateAccount(a, new) \/ UpdateAccount(a, new)
      PROVE  SubmissionTypeOK' /\ UNCHANGED <<now, sessions, deposits, transfer>>
  <2>1. CASE CreateAccount(a, new)
    BY <1>1, <2>1 DEF CreateAccount, Change, catalogue, SubmissionTypeOK
  <2>2. CASE UpdateAccount(a, new)
    BY <1>1, <2>2 DEF UpdateAccount, Change, catalogue, SubmissionTypeOK
  <2> QED BY <1>3, <2>1, <2>2
<1>4. ASSUME NEW p \in Packages, NEW a \in Accounts, CreatePackageAccount(p, a)
      PROVE  SubmissionTypeOK' /\ UNCHANGED <<now, sessions, deposits, transfer>>
  BY <1>1, <1>4 DEF CreatePackageAccount, Change, catalogue, SubmissionTypeOK
<1>5. ASSUME NEW p \in Packages, NEW a \in Accounts \union {NoAccount},
             ConfigurePackageRoute(p, a)
      PROVE  SubmissionTypeOK' /\ UNCHANGED <<now, sessions, deposits, transfer>>
  BY <1>1, <1>5 DEF ConfigurePackageRoute, Change, catalogue, SubmissionTypeOK
<1>6. ASSUME NEW r \in Rails, NEW new \in {"ACTIVE", "INACTIVE"}, UpdateRail(r, new)
      PROVE  SubmissionTypeOK' /\ UNCHANGED <<now, sessions, deposits, transfer>>
  BY <1>1, <1>6 DEF UpdateRail, Change, catalogue, SubmissionTypeOK
<1>7. ASSUME NEW u \in Users, NEW p \in Packages, PackageChanges(u, p)
      PROVE  SubmissionTypeOK' /\ UNCHANGED <<now, sessions, deposits, transfer>>
  BY <1>1, <1>7 DEF PackageChanges, Change, catalogue, routing, SubmissionTypeOK
<1>8. SubmissionTypeOK' /\ UNCHANGED <<now, sessions, deposits, transfer>>
  BY <1>2, <1>3, <1>4, <1>5, <1>6, <1>7
<1> QED BY <1>8, QuietKeeps DEF HoldersKept, SubmissionInv

\* Time only takes sessions away.
LEMMA TickKeeps ==
  ASSUME SubmissionInv, Tick
  PROVE  SubmissionInv'
<1>1. /\ now \in Nat /\ now' = now + 1 /\ now' \in Nat /\ now' >= now
      /\ UNCHANGED <<catalogue, routing, running, sessions, deposits, transfer, changes>>
  BY DEF Tick, SubmissionInv, SubmissionTypeOK
<1>2. SubmissionTypeOK'
  BY <1>1 DEF SubmissionInv, SubmissionTypeOK, catalogue, routing
<1>3. ASSUME NEW i \in DOMAIN sessions
      PROVE  /\ Terms(sessions'[i]) = Terms(sessions[i])
             /\ Unexpired(sessions[i])' => Unexpired(sessions[i])
             /\ sessions'[i].state = "CONSUMED" <=> sessions[i].state = "CONSUMED"
  <2>1. sessions[i].expires \in Nat
    BY RowsTyped DEF SubmissionInv, Session
  <2> QED BY <1>1, <2>1 DEF Unexpired
<1>4. \A i \in DOMAIN deposits :
        /\ Terms(deposits'[i]) = Terms(deposits[i])
        /\ Waits(deposits[i])' => Waits(deposits[i])
        /\ deposits'[i].status = "AWAITING_TXID" => deposits[i].status = "AWAITING_TXID"
  BY <1>1 DEF Waits
<1>5. DOMAIN sessions' = DOMAIN sessions /\ DOMAIN deposits' = DOMAIN deposits
      /\ transfer' = transfer /\ deposits' = deposits
  BY <1>1
<1>6. HoldersApart' /\ TakenOnce' /\ MinedByNow' /\ PaidBeforeSession' /\ OwnBeforeTxid'
  BY <1>1, <1>3, <1>4, <1>5, NoHolderAdded
<1>7. OthersEnteredMined'
  BY <1>5, NothingEntered
<1> QED BY <1>2, <1>6, <1>7 DEF SubmissionInv

\* A payment is held only by its sender among all that hold the wallet.
LEMMA MineKeeps ==
  ASSUME SubmissionInv, NEW x \in Transfers, NEW w \in Wallets, Mine(x, w)
  PROVE  SubmissionInv'
<1> DEFINE held == Holds(Sender[x], w)
           payment == [wallet |-> w, second |-> Second(now), held |-> held]
<1>1. /\ transfer[x] = NoTransfer /\ transfer' = [transfer EXCEPT ![x] = payment]
      /\ UNCHANGED <<now, catalogue, routing, running, sessions, deposits, changes>>
      /\ transfer \in [Transfers -> Payment \union {NoTransfer}]
      /\ now \in Nat
  BY DEF Mine, SubmissionInv, SubmissionTypeOK
<1>2. Second(now) \in Nat
  BY <1>1, SecondsOrdered
<1>3. held \in BOOLEAN
  BY DEF Holds
<1>4. /\ payment.wallet = w /\ payment.second = Second(now) /\ (payment.held <=> held)
      /\ payment \in Payment
  BY <1>2, <1>3 DEF Payment
<1> HIDE DEF payment
<1>5. /\ transfer'[x] = payment
      /\ \A y \in Transfers \ {x} : transfer'[y] = transfer[y]
      /\ transfer' \in [Transfers -> Payment \union {NoTransfer}]
  BY <1>1, <1>4
<1>6. SubmissionTypeOK'
  BY <1>1, <1>5 DEF SubmissionInv, SubmissionTypeOK, catalogue, routing
<1>7. HoldersApart'
  BY <1>1 DEF SubmissionInv, HoldersApart, Unexpired, Waits
<1>8. TakenOnce'
  BY <1>1 DEF SubmissionInv, TakenOnce, DepositsOn, SessionsOn
<1>9. Second(now)' = Second(now)
  BY <1>1 DEF Second
<1>10. MinedByNow'
  BY <1>2, <1>4, <1>5, <1>9 DEF SubmissionInv, MinedByNow
<1> HIDE DEF held
<1>11. ASSUME NEW i \in DOMAIN sessions, Unexpired(sessions[i]), held,
              WalletOf(sessions[i].account) = w
       PROVE  Sender[x] = sessions[i].user
  <2>1. CASE \E j \in SessionsOf(Sender[x]) : WalletOf(sessions[j].account) = w
    BY <1>11, <2>1 DEF SubmissionInv, HoldersApart, Apart, SessionsOf
  <2>2. CASE \E j \in DOMAIN deposits :
               /\ deposits[j].user = Sender[x] /\ deposits[j].status \in Open
               /\ WalletOf(deposits[j].account) = w
    BY <1>11, <2>2 DEF SubmissionInv, HoldersApart, Apart, Waits
  <2> QED BY <1>11, <2>1, <2>2 DEF held, Holds
<1>12. ASSUME NEW i \in DOMAIN deposits, Waits(deposits[i]), held,
              WalletOf(deposits[i].account) = w
       PROVE  Sender[x] = deposits[i].user
  <2>1. CASE \E j \in SessionsOf(Sender[x]) : WalletOf(sessions[j].account) = w
    BY <1>12, <2>1 DEF SubmissionInv, HoldersApart, Apart, SessionsOf
  <2>2. CASE \E j \in DOMAIN deposits :
               /\ deposits[j].user = Sender[x] /\ deposits[j].status \in Open
               /\ WalletOf(deposits[j].account) = w
    BY <1>12, <2>2 DEF SubmissionInv, HoldersApart, Apart, Waits
  <2> QED BY <1>12, <2>1, <2>2 DEF held, Holds
<1>13. PaidBeforeSession'
  <2> SUFFICES ASSUME NEW i \in DOMAIN sessions, NEW y \in Transfers,
                      Unexpired(sessions[i]), PaidTo(sessions[i], y)',
                      Sender[y] # sessions[i].user
               PROVE  transfer'[y].second <= Second(sessions[i].checkpoint)
    BY <1>1 DEF PaidBeforeSession, Unexpired, Second
  <2>1. CASE y = x
    BY <1>1, <1>4, <1>5, <1>11, <2>1 DEF PaidTo
  <2>2. CASE y # x
    <3>1. PaidTo(sessions[i], y) /\ transfer'[y] = transfer[y]
      BY <1>1, <1>5, <2>2 DEF PaidTo
    <3> QED BY <3>1 DEF SubmissionInv, PaidBeforeSession
  <2> QED BY <2>1, <2>2
<1>14. OwnBeforeTxid'
  <2> SUFFICES ASSUME NEW i \in DOMAIN deposits, NEW y \in Transfers,
                      deposits[i].status = "AWAITING_TXID", PaidTo(deposits[i], y)'
               PROVE  Sender[y] = deposits[i].user
    BY <1>1 DEF OwnBeforeTxid
  <2>1. CASE y = x
    BY <1>1, <1>4, <1>5, <1>12, <2>1 DEF PaidTo, Waits, Open
  <2>2. CASE y # x
    <3>1. PaidTo(deposits[i], y)
      BY <1>1, <1>5, <2>2 DEF PaidTo
    <3> QED BY <3>1 DEF SubmissionInv, OwnBeforeTxid
  <2> QED BY <2>1, <2>2
<1>15. OthersEnteredMined'
  <2> SUFFICES ASSUME NEW i \in DOMAIN deposits, deposits[i].txid # NoTransfer,
                      Sender[deposits[i].txid] # deposits[i].user
               PROVE  /\ transfer'[deposits[i].txid] = transfer[deposits[i].txid]
                      /\ transfer[deposits[i].txid] # NoTransfer
                      /\ PaidTo(deposits[i], deposits[i].txid) =>
                           /\ deposits[i].checkpoint # NoCheckpoint
                           /\ transfer[deposits[i].txid].second <= Second(deposits[i].checkpoint)
    BY <1>1 DEF OthersEnteredMined, PaidTo, Second
  <2>1. deposits[i].txid \in Transfers
    BY RowsTyped DEF SubmissionInv, Deposit
  <2> QED BY <1>1, <1>5, <2>1 DEF SubmissionInv, OthersEnteredMined
<1> QED BY <1>6, <1>7, <1>8, <1>10, <1>13, <1>14, <1>15 DEF SubmissionInv

\* A session is opened for a user without one, for a wallet nobody holds; what
\* has been paid to that wallet so far was mined by now.
LEMMA ContextKeeps ==
  ASSUME SubmissionInv, NEW u \in Users, NEW p \in Packages, GetPackageDepositContext(u, p)
  PROVE  SubmissionInv'
<1> DEFINE released == ReleaseExpired(sessions)
           n == Len(sessions)
           new == NewSession(u, p)
<1>1. /\ UNCHANGED <<now, catalogue, routing, running, deposits, transfer, changes>>
      /\ route[p] # NoAccount /\ route[p] \in Accounts
      /\ now \in Nat /\ plan \in Nat
  BY DEF GetPackageDepositContext, Payable, SubmissionInv, SubmissionTypeOK
<1>2. /\ n \in Nat /\ DOMAIN sessions = 1..n
      /\ released \in Seq(Session) /\ Len(released) = n /\ DOMAIN released = 1..n
      /\ \A i \in 1..n :
           /\ Terms(released[i]) = Terms(sessions[i])
           /\ Unexpired(sessions[i]) => released[i] = sessions[i]
           /\ Unexpired(released[i]) => Unexpired(sessions[i])
           /\ released[i].state = "CONSUMED" <=> sessions[i].state = "CONSUMED"
  BY RowsTyped, Released DEF SubmissionInv
<1> HIDE DEF released, n
<1>3. /\ DOMAIN deposits' = DOMAIN deposits /\ deposits' = deposits /\ transfer' = transfer
      /\ now' = now /\ now' \in Nat /\ now' >= now
      /\ \A i \in DOMAIN deposits :
           /\ Terms(deposits'[i]) = Terms(deposits[i])
           /\ Waits(deposits[i])' => Waits(deposits[i])
           /\ deposits'[i].status = "AWAITING_TXID" => deposits[i].status = "AWAITING_TXID"
  BY <1>1 DEF Waits
<1>4. ASSUME sessions' \in Seq(Session)
      PROVE  SubmissionTypeOK'
  BY <1>1, <1>4 DEF SubmissionInv, SubmissionTypeOK, catalogue, routing
<1>5. OthersEnteredMined'
  BY <1>3, NothingEntered
<1>6. CASE sessions' = released
  <2>1. \A i \in DOMAIN sessions :
           /\ Terms(sessions'[i]) = Terms(sessions[i])
           /\ Unexpired(sessions[i])' => Unexpired(sessions[i])
           /\ sessions'[i].state = "CONSUMED" <=> sessions[i].state = "CONSUMED"
    BY <1>2, <1>3, <1>6 DEF Unexpired
  <2>2. HoldersApart' /\ TakenOnce' /\ MinedByNow' /\ PaidBeforeSession' /\ OwnBeforeTxid'
    BY <1>2, <1>3, <1>6, <2>1, NoHolderAdded
  <2> QED BY <1>2, <1>4, <1>5, <1>6, <2>2 DEF SubmissionInv
<1>7. CASE /\ ~HasOpenDeposit(u) /\ SessionsOf(u) = {}
           /\ ~ReservedByDeposit(WalletOf(route[p]))
           /\ ~ReservedBySession(WalletOf(route[p]))
           /\ sessions' = Append(released, new)
  <2>1. /\ new \in Session /\ new.user = u /\ new.account = route[p] /\ new.checkpoint = now
        /\ new.state = "ACTIVE"
    <3>1. now + Lifetime \in Nat
      BY <1>1, SubmissionAssumption
    <3> QED BY <1>1, <3>1 DEF NewSession, Session
  <2> HIDE DEF new
  <2>2. /\ sessions' \in Seq(Session)
        /\ DOMAIN sessions' = 1..(n + 1)
        /\ \A i \in 1..n : sessions'[i] = released[i]
        /\ sessions'[n + 1] = new
    BY <1>2, <1>7, <2>1, AppendProperties, LenProperties
  <2>3. \A i \in 1..n : /\ sessions'[i].user = sessions[i].user
                        /\ sessions'[i].account = sessions[i].account
                        /\ sessions'[i].checkpoint = sessions[i].checkpoint
                        /\ Unexpired(sessions[i])' => Unexpired(sessions[i])
                        /\ sessions'[i].state = "CONSUMED" <=> sessions[i].state = "CONSUMED"
                        /\ Terms(sessions'[i]) = Terms(sessions[i])
    BY <1>2, <1>3, <2>2 DEF Unexpired, Terms
  <2>4. \A i \in 1..(n + 1) : i \in 1..n \/ i = n + 1
    BY <1>2
  <2>5. \A i \in 1..n : Unexpired(sessions[i]) => Apart(sessions[i], new) /\ Apart(new, sessions[i])
    BY <1>2, <1>7, <2>1 DEF SessionsOf, ReservedBySession, Apart
  <2>6. \A i \in DOMAIN deposits : Waits(deposits[i]) => Apart(new, deposits[i])
    BY <1>7, <2>1 DEF HasOpenDeposit, ReservedByDeposit, Apart, Waits
  <2>7. HoldersApart'
    <3>1. ASSUME NEW i \in 1..(n + 1), NEW j \in 1..(n + 1), i # j,
                 Unexpired(sessions[i])', Unexpired(sessions[j])'
          PROVE  Apart(sessions'[i], sessions'[j])
      <4>1. CASE i \in 1..n /\ j \in 1..n
        BY <1>2, <2>3, <3>1, <4>1 DEF SubmissionInv, HoldersApart, Apart
      <4>2. CASE i = n + 1 /\ j \in 1..n
        BY <2>2, <2>3, <2>5, <3>1, <4>2 DEF Apart
      <4>3. CASE j = n + 1 /\ i \in 1..n
        BY <2>2, <2>3, <2>5, <3>1, <4>3 DEF Apart
      <4> QED BY <2>4, <3>1, <4>1, <4>2, <4>3
    <3>2. ASSUME NEW i \in 1..(n + 1), NEW j \in DOMAIN deposits,
                 Unexpired(sessions[i])', Waits(deposits[j])
          PROVE  Apart(sessions'[i], deposits[j])
      <4>1. CASE i \in 1..n
        BY <1>2, <2>3, <3>2, <4>1 DEF SubmissionInv, HoldersApart, Apart
      <4>2. CASE i = n + 1
        BY <2>2, <2>6, <3>2, <4>2
      <4> QED BY <2>4, <4>1, <4>2
    <3> QED BY <1>3, <2>2, <3>1, <3>2 DEF SubmissionInv, HoldersApart, Waits, Apart
  <2>8. TakenOnce'
    <3>1. \A t : DepositsOn(t)' = DepositsOn(t)
      BY <1>3 DEF DepositsOn
    <3>2. ASSUME NEW t PROVE SessionsOn(t)' = SessionsOn(t)
      <4>1. \A i \in 1..n : i \in SessionsOn(t)' <=> i \in SessionsOn(t)
        BY <1>2, <2>2, <2>3, <2>4 DEF SessionsOn
      <4>2. n + 1 \notin SessionsOn(t)'
        BY <2>1, <2>2 DEF SessionsOn
      <4>3. SessionsOn(t)' \subseteq 1..(n + 1) /\ SessionsOn(t) \subseteq 1..n
        BY <1>2, <2>2 DEF SessionsOn
      <4> QED BY <2>4, <4>1, <4>2, <4>3
    <3> QED BY <3>1, <3>2 DEF SubmissionInv, TakenOnce
  <2>9. MinedByNow'
    BY <1>3 DEF SubmissionInv, MinedByNow, Second
  <2>10. PaidBeforeSession'
    <3> SUFFICES ASSUME NEW i \in 1..(n + 1), NEW x \in Transfers,
                        Unexpired(sessions[i])', PaidTo(sessions[i], x)',
                        Sender[x] # sessions'[i].user
                 PROVE  transfer[x].second <= Second(sessions'[i].checkpoint)
      BY <1>3, <2>2 DEF PaidBeforeSession, Second
    <3>1. CASE i \in 1..n
      <4>1. PaidTo(sessions[i], x)
        BY <1>3, <2>3, <3>1 DEF PaidTo
      <4> QED BY <1>2, <2>3, <3>1, <4>1 DEF SubmissionInv, PaidBeforeSession
    <3>2. CASE i = n + 1
      <4>1. transfer[x] # NoTransfer
        BY <1>3 DEF PaidTo
      <4> QED BY <2>1, <2>2, <3>2, <4>1 DEF SubmissionInv, MinedByNow
    <3> QED BY <2>4, <3>1, <3>2
  <2>11. OwnBeforeTxid'
    BY <1>3 DEF SubmissionInv, OwnBeforeTxid, PaidTo
  <2> QED BY <1>4, <1>5, <2>2, <2>7, <2>8, <2>9, <2>10, <2>11 DEF SubmissionInv
<1> QED BY <1>6, <1>7 DEF GetPackageDepositContext, released, n

\* A deposit takes the session's place: its user, its wallet, its terms.
LEMMA SubmitKeeps ==
  ASSUME SubmissionInv, NEW u \in Users, NEW p \in Packages, NEW x \in Transfers,
         SubmitDeposit(u, p, x)
  PROVE  SubmissionInv'
<1> DEFINE released == ReleaseExpired(sessions)
           m == Len(deposits)
<1>1. /\ UNCHANGED <<now, catalogue, routing, running, transfer, changes>>
      /\ ~HasOpenDeposit(u) /\ ~ReservedByDeposit(WalletOf(route[p])) /\ Enterable(u, x)
      /\ route[p] \in Accounts /\ now \in Nat /\ plan \in Nat
  BY DEF SubmitDeposit, Payable, SubmissionInv, SubmissionTypeOK
<1>2. PICK k \in SessionsOf(u) :
        /\ MatchesRoute(sessions[k], p) /\ HoldsWallet(k)
        /\ deposits' = Append(deposits, NewDeposit(u, p, sessions[k].checkpoint, x))
        /\ sessions' = [released EXCEPT ![k].state = "CONSUMED"]
  BY DEF SubmitDeposit
<1> DEFINE new == NewDeposit(u, p, sessions[k].checkpoint, x)
<1>3. /\ k \in DOMAIN sessions /\ Unexpired(sessions[k]) /\ sessions[k].user = u
      /\ sessions[k].state = "ACTIVE" /\ sessions[k] \in Session
      /\ sessions[k].plan = plan /\ sessions[k].package = p /\ sessions[k].account = route[p]
      /\ sessions[k].checkpoint \in Nat /\ sessions[k].checkpoint # NoCheckpoint
  <2>1. k \in DOMAIN sessions /\ Unexpired(sessions[k]) /\ sessions[k].user = u
    BY <1>2 DEF SessionsOf
  <2>2. sessions[k] \in Session /\ sessions[k].checkpoint \in Nat
    BY <2>1, RowsTyped DEF SubmissionInv, Session
  <2> QED BY <1>2, <2>1, <2>2 DEF MatchesRoute, Unexpired, NoCheckpoint
<1>4. /\ released \in Seq(Session) /\ DOMAIN released = DOMAIN sessions
      /\ \A i \in DOMAIN sessions :
           /\ Terms(released[i]) = Terms(sessions[i])
           /\ Unexpired(sessions[i]) => released[i] = sessions[i]
           /\ Unexpired(released[i]) => Unexpired(sessions[i])
           /\ released[i].state = "CONSUMED" <=> sessions[i].state = "CONSUMED"
      /\ Len(sessions) \in Nat /\ DOMAIN sessions = 1..Len(sessions)
  BY RowsTyped, Released DEF SubmissionInv
<1> HIDE DEF released
<1>5. /\ DOMAIN sessions' = DOMAIN sessions
      /\ sessions' = [i \in DOMAIN sessions |-> sessions'[i]]
      /\ sessions'[k] = [sessions[k] EXCEPT !.state = "CONSUMED"]
      /\ \A i \in DOMAIN sessions \ {k} : sessions'[i] = released[i]
  <2>1. released[k] = sessions[k]
    BY <1>3, <1>4
  <2>2. released = [i \in DOMAIN released |-> released[i]]
    BY <1>4, LenProperties, ElementOfSeq
  <2> QED BY <1>2, <1>3, <1>4, <2>1, <2>2
<1>6. /\ sessions'[k] \in Session /\ sessions'[k].state = "CONSUMED"
      /\ Terms(sessions'[k]) = Terms(sessions[k])
  BY <1>3, <1>5 DEF Session, Terms
<1>7. sessions' \in Seq(Session)
  <2>1. \A i \in DOMAIN released : released[i] \in Session
    BY <1>4, ElementOfSeq, LenProperties
  <2>2. \A i \in 1..Len(sessions) : sessions'[i] \in Session
    BY <1>4, <1>5, <1>6, <2>1
  <2> QED BY <1>4, <1>5, <2>2, RowsMade
<1>8. /\ new \in Deposit /\ new.user = u /\ new.account = route[p] /\ new.txid = x
      /\ new.status = "PENDING_REVIEW" /\ new.checkpoint = sessions[k].checkpoint
      /\ Terms(new) = Terms(sessions[k])
  BY <1>1, <1>3 DEF NewDeposit, Deposit, Terms
<1> HIDE DEF new
<1>9. /\ m \in Nat /\ DOMAIN deposits = 1..m /\ deposits \in Seq(Deposit)
      /\ deposits' = Append(deposits, new)
  BY <1>2, RowsTyped DEF new, SubmissionInv, SubmissionTypeOK
<1> HIDE DEF m
<1>10. /\ deposits' \in Seq(Deposit) /\ DOMAIN deposits' = 1..(m + 1)
       /\ \A i \in 1..m : deposits'[i] = deposits[i]
       /\ deposits'[m + 1] = new
       /\ \A i \in 1..(m + 1) : i \in 1..m \/ i = m + 1
  <2>1. Len(deposits) = m
    BY DEF m
  <2> QED BY <1>8, <1>9, <2>1, AppendProperties, LenProperties
<1>11. SubmissionTypeOK'
  BY <1>1, <1>7, <1>10 DEF SubmissionInv, SubmissionTypeOK, catalogue, routing
<1>12. /\ now' = now /\ transfer' = transfer
       /\ ~Unexpired(sessions[k])'
       /\ \A i \in DOMAIN sessions :
            /\ Unexpired(sessions[i])' => Unexpired(sessions[i]) /\ i # k
            /\ Terms(sessions'[i]) = Terms(sessions[i])
            /\ sessions'[i].user = sessions[i].user
            /\ sessions'[i].account = sessions[i].account
            /\ sessions'[i].checkpoint = sessions[i].checkpoint
  <2>1. ~Unexpired(sessions[k])' /\ now' = now /\ transfer' = transfer
    BY <1>1, <1>6 DEF Unexpired
  <2>2. \A i \in DOMAIN sessions : Terms(sessions'[i]) = Terms(sessions[i])
    BY <1>4, <1>5, <1>6
  <2>3. \A i \in DOMAIN sessions \ {k} : Unexpired(sessions[i])' => Unexpired(sessions[i])
    BY <1>4, <1>5, <2>1 DEF Unexpired
  <2> QED BY <2>1, <2>2, <2>3 DEF Terms
<1>13. HoldersApart'
  <2>1. ASSUME NEW i \in DOMAIN sessions, Unexpired(sessions[i])' PROVE Apart(sessions[i], new)
    <3>1. Unexpired(sessions[i]) /\ i # k
      BY <1>12, <2>1
    <3>2. Apart(sessions[i], sessions[k])
      BY <1>3, <3>1 DEF SubmissionInv, HoldersApart
    <3> QED BY <1>3, <1>8, <3>2 DEF Apart
  <2>2. \A i \in 1..m : Waits(deposits[i]) => Apart(deposits[i], new) /\ Apart(new, deposits[i])
    BY <1>1, <1>8, <1>9 DEF HasOpenDeposit, ReservedByDeposit, Apart, Waits
  <2>3. ASSUME NEW i \in DOMAIN sessions, NEW j \in DOMAIN sessions, i # j,
               Unexpired(sessions[i])', Unexpired(sessions[j])'
        PROVE  Apart(sessions'[i], sessions'[j])
    BY <1>12, <2>3 DEF SubmissionInv, HoldersApart, Apart
  <2>4. ASSUME NEW i \in 1..(m + 1), NEW j \in 1..(m + 1), i # j,
               Waits(deposits'[i]), Waits(deposits'[j])
        PROVE  Apart(deposits'[i], deposits'[j])
    <3>1. CASE i \in 1..m /\ j \in 1..m
      BY <1>9, <1>10, <2>4, <3>1 DEF SubmissionInv, HoldersApart
    <3>2. CASE i = m + 1 /\ j \in 1..m
      BY <1>10, <2>2, <2>4, <3>2
    <3>3. CASE j = m + 1 /\ i \in 1..m
      BY <1>10, <2>2, <2>4, <3>3
    <3> QED BY <1>10, <2>4, <3>1, <3>2, <3>3
  <2>5. ASSUME NEW i \in DOMAIN sessions, NEW j \in 1..(m + 1),
               Unexpired(sessions[i])', Waits(deposits'[j])
        PROVE  Apart(sessions'[i], deposits'[j])
    <3>1. CASE j \in 1..m
      BY <1>9, <1>10, <1>12, <2>5, <3>1 DEF SubmissionInv, HoldersApart, Apart
    <3>2. CASE j = m + 1
      BY <1>10, <1>12, <2>1, <2>5, <3>2 DEF Apart
    <3> QED BY <1>10, <3>1, <3>2
  <2>6. \A r, s : Apart(r, s)' <=> Apart(r, s)
    BY DEF Apart
  <2>7. \A i \in DOMAIN deposits' : Waits(deposits[i])' <=> Waits(deposits'[i])
    BY DEF Waits
  <2> QED BY <1>5, <1>10, <2>3, <2>4, <2>5, <2>7 DEF HoldersApart, Apart
<1>14. TakenOnce'
  <2> SUFFICES ASSUME NEW t PROVE Cardinality(DepositsOn(t)') = Cardinality(SessionsOn(t)')
    BY DEF TakenOnce
  <2>1. /\ \A i \in 1..m : i \in DepositsOn(t)' <=> i \in DepositsOn(t)
        /\ m + 1 \in DepositsOn(t)' <=> t = Terms(new)
        /\ m + 1 \notin DepositsOn(t) /\ DepositsOn(t) \subseteq 1..m
        /\ DepositsOn(t)' \subseteq 1..(m + 1)
    BY <1>3, <1>8, <1>9, <1>10 DEF DepositsOn
  <2>2. /\ \A i \in DOMAIN sessions \ {k} : i \in SessionsOn(t)' <=> i \in SessionsOn(t)
        /\ k \in SessionsOn(t)' <=> t = Terms(new)
        /\ k \notin SessionsOn(t) /\ SessionsOn(t) \subseteq DOMAIN sessions
        /\ SessionsOn(t)' \subseteq DOMAIN sessions
    <3>1. \A i \in DOMAIN sessions \ {k} :
            sessions'[i].state = "CONSUMED" <=> sessions[i].state = "CONSUMED"
      BY <1>4, <1>5
    <3> QED BY <1>3, <1>5, <1>6, <1>8, <1>12, <3>1 DEF SessionsOn
  <2>3. /\ Cardinality(DepositsOn(t)) = Cardinality(SessionsOn(t))
        /\ IsFiniteSet(DepositsOn(t)) /\ IsFiniteSet(SessionsOn(t))
    BY FiniteRows DEF SubmissionInv, TakenOnce
  <2>4. CASE t = Terms(new)
    <3>1. DepositsOn(t)' = DepositsOn(t) \union {m + 1}
      BY <1>10, <2>1, <2>4
    <3>2. SessionsOn(t)' = SessionsOn(t) \union {k}
      BY <1>3, <2>2, <2>4
    <3>3. Cardinality(DepositsOn(t) \union {m + 1}) = Cardinality(DepositsOn(t)) + 1
      BY <2>1, <2>3, FS_AddElement
    <3>4. Cardinality(SessionsOn(t) \union {k}) = Cardinality(SessionsOn(t)) + 1
      BY <2>2, <2>3, FS_AddElement
    <3> QED BY <2>3, <3>1, <3>2, <3>3, <3>4
  <2>5. CASE t # Terms(new)
    <3>1. DepositsOn(t)' = DepositsOn(t)
      BY <1>10, <2>1, <2>5
    <3>2. SessionsOn(t)' = SessionsOn(t)
      BY <1>3, <2>2, <2>5
    <3> QED BY <2>3, <3>1, <3>2
  <2> QED BY <2>4, <2>5
<1>15. MinedByNow'
  BY <1>12 DEF SubmissionInv, MinedByNow, Second
<1>16. PaidBeforeSession'
  <2> SUFFICES ASSUME NEW i \in DOMAIN sessions, NEW y \in Transfers,
                      Unexpired(sessions[i])', PaidTo(sessions[i], y)',
                      Sender[y] # sessions'[i].user
               PROVE  transfer[y].second <= Second(sessions'[i].checkpoint)
    BY <1>5, <1>12 DEF PaidBeforeSession, Second
  <2>1. PaidTo(sessions[i], y)
    BY <1>12 DEF PaidTo
  <2> QED BY <1>12, <2>1 DEF SubmissionInv, PaidBeforeSession
<1>17. OwnBeforeTxid'
  <2> SUFFICES ASSUME NEW i \in 1..(m + 1), NEW y \in Transfers,
                      deposits'[i].status = "AWAITING_TXID", PaidTo(deposits[i], y)'
               PROVE  Sender[y] = deposits'[i].user
    BY <1>10 DEF OwnBeforeTxid
  <2>1. i \in 1..m
    BY <1>8, <1>10
  <2>2. PaidTo(deposits[i], y)
    BY <1>10, <1>12, <2>1 DEF PaidTo
  <2> QED BY <1>9, <1>10, <2>1, <2>2 DEF SubmissionInv, OwnBeforeTxid
<1>18. OthersEnteredMined'
  <2> SUFFICES ASSUME NEW i \in 1..(m + 1), deposits'[i].txid # NoTransfer,
                      Sender[deposits'[i].txid] # deposits'[i].user
               PROVE  /\ transfer[deposits'[i].txid] # NoTransfer
                      /\ PaidTo(deposits'[i], deposits'[i].txid) =>
                           /\ deposits'[i].checkpoint # NoCheckpoint
                           /\ transfer[deposits'[i].txid].second <= Second(deposits'[i].checkpoint)
    BY <1>10, <1>12 DEF OthersEnteredMined, PaidTo, Second
  <2>1. CASE i \in 1..m
    BY <1>9, <1>10, <2>1 DEF SubmissionInv, OthersEnteredMined
  <2>2. CASE i = m + 1
    <3>1. transfer[x] # NoTransfer
      BY <1>1, <1>8, <1>10, <2>2 DEF Enterable
    <3>2. PaidTo(new, x) => PaidTo(sessions[k], x)
      BY <1>3, <1>8 DEF PaidTo
    <3> QED BY <1>3, <1>8, <1>10, <2>2, <3>1, <3>2 DEF SubmissionInv, PaidBeforeSession
  <2> QED BY <1>10, <2>1, <2>2
<1> QED BY <1>11, <1>13, <1>14, <1>15, <1>16, <1>17, <1>18 DEF SubmissionInv

\* A row of the deposits is written, and what it holds stays the same or ends.
LEMMA RowKeeps ==
  ASSUME SubmissionInv, NEW k \in DOMAIN deposits, NEW row \in Deposit,
         UNCHANGED <<now, catalogue, routing, running, sessions, transfer, changes>>,
         deposits' = [deposits EXCEPT ![k] = row],
         Terms(row) = Terms(deposits[k]),
         row.status = "AWAITING_TXID" => deposits[k].status = "AWAITING_TXID",
         Waits(row) => Waits(deposits[k]),
         row.txid # NoTransfer /\ Sender[row.txid] # row.user =>
           /\ transfer[row.txid] # NoTransfer
           /\ PaidTo(row, row.txid) => /\ row.checkpoint # NoCheckpoint
                                       /\ transfer[row.txid].second <= Second(row.checkpoint)
  PROVE  SubmissionInv'
<1>1. /\ Len(deposits) \in Nat /\ DOMAIN deposits = 1..Len(deposits)
      /\ \A i \in DOMAIN deposits : deposits[i] \in Deposit
      /\ deposits = [i \in 1..Len(deposits) |-> deposits[i]]
  BY RowsTyped DEF SubmissionInv
<1>2. /\ deposits'[k] = row
      /\ \A i \in DOMAIN deposits \ {k} : deposits'[i] = deposits[i]
      /\ deposits' = [i \in 1..Len(deposits) |-> deposits'[i]]
      /\ DOMAIN deposits' = DOMAIN deposits
  BY <1>1
<1>3. deposits' \in Seq(Deposit)
  BY <1>1, <1>2, RowsMade
<1>4. SubmissionTypeOK'
  BY <1>3 DEF SubmissionInv, SubmissionTypeOK, catalogue, routing
<1>5. \A i \in DOMAIN deposits :
        /\ Terms(deposits'[i]) = Terms(deposits[i])
        /\ Waits(deposits[i])' => Waits(deposits[i])
        /\ deposits'[i].status = "AWAITING_TXID" => deposits[i].status = "AWAITING_TXID"
  BY <1>2 DEF Waits
<1>6. /\ now \in Nat /\ now' = now /\ transfer' = transfer /\ sessions' = sessions
      /\ \A i \in DOMAIN sessions :
           /\ Terms(sessions'[i]) = Terms(sessions[i])
           /\ Unexpired(sessions[i])' => Unexpired(sessions[i])
           /\ sessions'[i].state = "CONSUMED" <=> sessions[i].state = "CONSUMED"
  BY DEF Unexpired, SubmissionInv, SubmissionTypeOK
<1>7. now' \in Nat /\ now' >= now /\ DOMAIN sessions' = DOMAIN sessions
  BY <1>6
<1>8. HoldersApart' /\ TakenOnce' /\ MinedByNow' /\ PaidBeforeSession' /\ OwnBeforeTxid'
  BY <1>2, <1>5, <1>6, <1>7, NoHolderAdded
<1>9. OthersEnteredMined'
  <2> SUFFICES ASSUME NEW i \in DOMAIN deposits, deposits'[i].txid # NoTransfer,
                      Sender[deposits'[i].txid] # deposits'[i].user
               PROVE  /\ transfer[deposits'[i].txid] # NoTransfer
                      /\ PaidTo(deposits'[i], deposits'[i].txid) =>
                           /\ deposits'[i].checkpoint # NoCheckpoint
                           /\ transfer[deposits'[i].txid].second <= Second(deposits'[i].checkpoint)
    BY <1>2, <1>6 DEF OthersEnteredMined, PaidTo, Second
  <2>1. CASE i = k
    BY <1>2, <2>1
  <2>2. CASE i # k
    BY <1>2, <2>2 DEF SubmissionInv, OthersEnteredMined
  <2> QED BY <2>1, <2>2
<1> QED BY <1>4, <1>8, <1>9 DEF SubmissionInv

\* Nobody else has paid as a holder to the wallet of an old deposit.
LEMMA TxidKeeps ==
  ASSUME SubmissionInv, NEW k \in DOMAIN deposits, NEW x \in Transfers, SubmitTxid(k, x)
  PROVE  SubmissionInv'
<1> DEFINE old == deposits[k]
           row == [old EXCEPT !.txid = x, !.status = "PENDING_REVIEW"]
<1>1. old \in Deposit /\ old.status = "AWAITING_TXID" /\ Enterable(old.user, x)
  BY RowsTyped DEF SubmitTxid, SubmissionInv
<1>2. /\ UNCHANGED <<now, catalogue, routing, running, sessions, transfer, changes>>
      /\ deposits' = [deposits EXCEPT ![k] = row]
  BY DEF SubmitTxid
<1>3. /\ row \in Deposit /\ Terms(row) = Terms(old) /\ row.user = old.user
      /\ row.account = old.account /\ row.txid = x /\ row.status = "PENDING_REVIEW"
  BY <1>1 DEF Deposit, Terms
<1>4. Sender[x] # old.user => transfer[x] # NoTransfer /\ ~PaidTo(row, x)
  BY <1>1, <1>3 DEF Enterable, PaidTo, SubmissionInv, OwnBeforeTxid
<1>5. Waits(old)
  BY <1>1 DEF Waits, Open
<1> HIDE DEF row
<1> QED BY <1>1, <1>2, <1>3, <1>4, <1>5, RowKeeps

LEMMA FinalizeKeeps ==
  ASSUME SubmissionInv, NEW k \in DOMAIN deposits, FinalizeDeposit(k)
  PROVE  SubmissionInv'
<1> DEFINE old == deposits[k]
           row == [old EXCEPT !.status = "REVIEWED"]
<1>1. old \in Deposit /\ old.status = "PENDING_REVIEW"
  BY RowsTyped DEF FinalizeDeposit, SubmissionInv
<1>2. /\ UNCHANGED <<now, catalogue, routing, running, sessions, transfer, changes>>
      /\ deposits' = [deposits EXCEPT ![k] = row]
  BY DEF FinalizeDeposit
<1>3. /\ row \in Deposit /\ Terms(row) = Terms(old) /\ row.user = old.user
      /\ row.account = old.account /\ row.txid = old.txid /\ row.status = "REVIEWED"
      /\ row.checkpoint = old.checkpoint
  BY <1>1 DEF Deposit, Terms
<1>4. PaidTo(row, old.txid) <=> PaidTo(old, old.txid)
  BY <1>3 DEF PaidTo
<1>5. old.txid # NoTransfer /\ Sender[old.txid] # old.user =>
        /\ transfer[old.txid] # NoTransfer
        /\ PaidTo(old, old.txid) => /\ old.checkpoint # NoCheckpoint
                                    /\ transfer[old.txid].second <= Second(old.checkpoint)
  BY DEF SubmissionInv, OthersEnteredMined
<1>6. ~Waits(row)
  BY <1>3 DEF Waits, Open
<1> HIDE DEF row, old
<1>7. /\ Terms(row) = Terms(deposits[k])
      /\ row.status = "AWAITING_TXID" => deposits[k].status = "AWAITING_TXID"
      /\ Waits(row) => Waits(deposits[k])
  BY <1>3, <1>6 DEF old
<1>8. row.txid # NoTransfer /\ Sender[row.txid] # row.user =>
        /\ transfer[row.txid] # NoTransfer
        /\ PaidTo(row, row.txid) => /\ row.checkpoint # NoCheckpoint
                                    /\ transfer[row.txid].second <= Second(row.checkpoint)
  BY <1>3, <1>4, <1>5
<1> QED BY <1>2, <1>3, <1>7, <1>8, RowKeeps

-----------------------------------------------------------------------------
(* The beginning.                                                           *)

\* The deposits of the earlier release, in whatever order, each once.
LEMMA InitDeposits ==
  ASSUME SubmissionInit
  PROVE  /\ deposits \in Seq(Deposit)
         /\ \A i \in DOMAIN deposits :
              \E e \in Earlier : deposits[i] = LegacyDeposit(e)
         /\ \A i, j \in DOMAIN deposits : i # j => Apart(deposits[i], deposits[j])
<1> DEFINE S == {LegacyDeposit(e) : e \in Earlier}
           n == Cardinality(S)
<1>1. IsFiniteSet(S)
  <2> DEFINE f == [e \in Earlier |-> LegacyDeposit(e)]
  <2>1. f \in Surjection(Earlier, S)
    BY Fun_IsSurj
  <2> QED BY <2>1, FS_Surjection, SubmissionAssumption
<1>2. /\ S \subseteq Deposit
      /\ \A r, s \in S : r # s => Apart(r, s)
  <2>1. ASSUME NEW e \in Earlier
        PROVE  /\ LegacyDeposit(e) \in Deposit
               /\ LegacyDeposit(e).user = e.user /\ LegacyDeposit(e).account = e.account
    <3>1. e \in [user : Users, package : Packages, account : Accounts]
      BY SubmissionAssumption
    <3> QED BY <3>1 DEF LegacyDeposit, Deposit
  <2> QED BY <2>1, SubmissionAssumption DEF Apart
<1>3. n \in Nat /\ ExistsBijection(1..n, S)
  BY <1>1, FS_CardinalityType
<1>4. PICK b : b \in Bijection(1..n, S)
  BY <1>3, Fun_ExistsBij
<1>5. b \in [1..n -> S] /\ IsInjective(b)
  <2>1. b \in [1..n -> S] /\ \A i, j \in 1..n : b[i] = b[j] => i = j
    BY <1>4, Fun_BijectionProperties
  <2> QED BY <2>1 DEF IsInjective
<1> HIDE DEF n
<1>6. deposits \in [1..n -> S] /\ IsInjective(deposits)
  <2>1. deposits = CHOOSE f \in [1..n -> S] : IsInjective(f)
    BY DEF SubmissionInit, SetToSeq, n
  <2> QED BY <1>5, <2>1
<1>7. deposits \in Seq(Deposit)
  BY <1>2, <1>3, <1>6, SeqDef
<1>8. \A i \in DOMAIN deposits : \E e \in Earlier : deposits[i] = LegacyDeposit(e)
  BY <1>6
<1>9. \A i, j \in DOMAIN deposits : i # j => Apart(deposits[i], deposits[j])
  BY <1>2, <1>6 DEF IsInjective
<1> QED BY <1>7, <1>8, <1>9

LEMMA SubmissionInitInv ==
  ASSUME SubmissionInit
  PROVE  SubmissionInv
<1>1. \A i \in DOMAIN deposits :
        /\ deposits[i].checkpoint = NoCheckpoint /\ deposits[i].txid = NoTransfer
  BY InitDeposits DEF LegacyDeposit
<1>2. \A x \in Transfers : transfer[x] = NoTransfer
  BY DEF SubmissionInit
<1>3. sessions = << >> /\ DOMAIN sessions = {}
  BY DEF SubmissionInit
<1>4. SubmissionTypeOK
  <2>1. route \in [Packages -> Accounts \union {NoAccount}]
    BY SubmissionAssumption DEF SubmissionInit
  <2>2. sessions \in Seq(Session)
    BY <1>3
  <2> QED BY <2>1, <2>2, InitDeposits DEF SubmissionInit, SubmissionTypeOK
<1>5. HoldersApart
  BY <1>3, InitDeposits DEF HoldersApart
<1>6. TakenOnce
  <2>1. \A t : DepositsOn(t) = {} /\ SessionsOn(t) = {}
    BY <1>1, <1>3 DEF DepositsOn, SessionsOn
  <2> QED BY <2>1 DEF TakenOnce
<1>7. MinedByNow /\ PaidBeforeSession
  BY <1>2, <1>3 DEF MinedByNow, PaidBeforeSession
<1>8. OwnBeforeTxid
  BY <1>2 DEF OwnBeforeTxid, PaidTo
<1>9. OthersEnteredMined
  BY <1>1 DEF OthersEnteredMined
<1> QED BY <1>4, <1>5, <1>6, <1>7, <1>8, <1>9 DEF SubmissionInv

-----------------------------------------------------------------------------
(* The theorems.                                                            *)

\* The inductive invariant of the submission of deposits.
THEOREM SubmissionIsKept == SubmissionSpec => []SubmissionInv
<1>1. SubmissionInit => SubmissionInv
  BY SubmissionInitInv
<1>2. ASSUME SubmissionInv, [SubmissionNext]_submissionVars
      PROVE  SubmissionInv'
  <2>1. CASE UNCHANGED submissionVars
    <3>1. SubmissionTypeOK'
      BY <1>2, <2>1 DEF SubmissionInv, SubmissionTypeOK, submissionVars
    <3>2. UNCHANGED <<now, sessions, deposits, transfer>>
      BY <2>1 DEF submissionVars
    <3> QED BY <1>2, <3>1, <3>2, QuietKeeps DEF HoldersKept, SubmissionInv
  <2>2. CASE \E u \in Users, p \in Packages : GetPackageDepositContext(u, p)
    BY <1>2, <2>2, ContextKeeps
  <2>3. CASE \E u \in Users, p \in Packages, x \in Transfers : SubmitDeposit(u, p, x)
    BY <1>2, <2>3, SubmitKeeps
  <2>4. CASE \E i \in DOMAIN deposits, x \in Transfers : SubmitTxid(i, x)
    BY <1>2, <2>4, TxidKeeps
  <2>5. CASE \E i \in DOMAIN deposits : FinalizeDeposit(i)
    BY <1>2, <2>5, FinalizeKeeps
  <2>6. CASE \E x \in Transfers, w \in Wallets : Mine(x, w)
    BY <1>2, <2>6, MineKeeps
  <2>7. CASE Tick
    BY <1>2, <2>7, TickKeeps
  <2>8. CASE \/ \E available \in SUBSET Packages : PublishPlan(available)
             \/ \E a \in Accounts, new \in {"ACTIVE", "INACTIVE"} : CreateAccount(a, new)
             \/ \E p \in Packages, a \in Accounts : CreatePackageAccount(p, a)
             \/ \E p \in Packages, a \in Accounts \union {NoAccount} : ConfigurePackageRoute(p, a)
             \/ \E a \in Accounts, new \in {"ACTIVE", "INACTIVE"} : UpdateAccount(a, new)
             \/ \E r \in Rails, new \in {"ACTIVE", "INACTIVE"} : UpdateRail(r, new)
             \/ \E u \in Users, p \in Packages : PackageChanges(u, p)
    BY <1>2, <2>8, ChangeKeeps
  <2> QED BY <1>2, <2>1, <2>2, <2>3, <2>4, <2>5, <2>6, <2>7, <2>8 DEF SubmissionNext
<1> QED BY <1>1, <1>2, PTL DEF SubmissionSpec

\* Rows, configuration and payments keep their types.
THEOREM SubmissionTyped == SubmissionSpec => []SubmissionTypeOK
<1>1. SubmissionInv => SubmissionTypeOK
  BY DEF SubmissionInv
<1> QED BY <1>1, SubmissionIsKept, PTL

\* However many users open, abandon and submit deposits while packages are
\* routed anew, a wallet has one holder and a user holds one wallet.
THEOREM SubmissionOneHolder == SubmissionSpec => []WalletHasOneHolder
<1>1. ASSUME SubmissionInv PROVE WalletHasOneHolder
  <2> DEFINE held == {i \in DOMAIN sessions : Unexpired(sessions[i])}
             open == {i \in DOMAIN deposits : deposits[i].status \in Open}
  <2>1. ASSUME NEW S \in SUBSET held, NEW D \in SUBSET open,
               \A i, j \in S : ~Apart(sessions[i], sessions[j]),
               \A i, j \in D : ~Apart(deposits[i], deposits[j]),
               \A i \in S, j \in D : ~Apart(sessions[i], deposits[j])
        PROVE  Cardinality(S) + Cardinality(D) <= 1
    <3>1. \A i, j \in S : i = j
      BY <1>1, <2>1 DEF SubmissionInv, HoldersApart
    <3>2. \A i, j \in D : i = j
      BY <1>1, <2>1 DEF SubmissionInv, HoldersApart, Waits
    <3>3. S = {} \/ D = {}
      BY <1>1, <2>1 DEF SubmissionInv, HoldersApart, Waits
    <3> HIDE DEF held, open
    <3>4. Cardinality(S) \in {0, 1} /\ (Cardinality(S) = 1 => S # {})
      BY <3>1, AtMostOne
    <3>5. Cardinality(D) \in {0, 1} /\ (Cardinality(D) = 1 => D # {})
      BY <3>2, AtMostOne
    <3> QED BY <3>3, <3>4, <3>5
  <2>2. ASSUME NEW w \in Wallets
        PROVE  Cardinality({i \in held : WalletOf(sessions[i].account) = w})
                 + Cardinality({i \in open : WalletOf(deposits[i].account) = w}) <= 1
    <3> DEFINE S == {i \in held : WalletOf(sessions[i].account) = w}
               D == {i \in open : WalletOf(deposits[i].account) = w}
    <3>1. /\ S \in SUBSET held /\ D \in SUBSET open
          /\ \A i, j \in S : ~Apart(sessions[i], sessions[j])
          /\ \A i, j \in D : ~Apart(deposits[i], deposits[j])
          /\ \A i \in S, j \in D : ~Apart(sessions[i], deposits[j])
      BY DEF Apart
    <3> HIDE DEF S, D, held, open
    <3>2. Cardinality(S) + Cardinality(D) <= 1
      BY <2>1, <3>1
    <3> QED BY <3>2 DEF S, D
  <2>3. ASSUME NEW u \in Users
        PROVE  Cardinality({i \in held : sessions[i].user = u})
                 + Cardinality({i \in open : deposits[i].user = u}) <= 1
    <3> DEFINE S == {i \in held : sessions[i].user = u}
               D == {i \in open : deposits[i].user = u}
    <3>1. /\ S \in SUBSET held /\ D \in SUBSET open
          /\ \A i, j \in S : ~Apart(sessions[i], sessions[j])
          /\ \A i, j \in D : ~Apart(deposits[i], deposits[j])
          /\ \A i \in S, j \in D : ~Apart(sessions[i], deposits[j])
      BY DEF Apart
    <3> HIDE DEF S, D, held, open
    <3>2. Cardinality(S) + Cardinality(D) <= 1
      BY <2>1, <3>1
    <3> QED BY <3>2 DEF S, D
  <2> QED BY <2>2, <2>3 DEF WalletHasOneHolder
<1> QED BY <1>1, SubmissionIsKept, PTL

\* A payment of somebody who held the wallet verifies no deposit of somebody
\* else, but in the one second in which the wallet changed hands.
THEOREM SubmissionPayers == SubmissionSpec => []PaymentsStayWithPayer
<1>1. ASSUME SubmissionInv PROVE PaymentsStayWithPayer
  <2> SUFFICES ASSUME NEW i \in DOMAIN deposits,
                      Mined(deposits[i]), Verifies(deposits[i]),
                      transfer[deposits[i].txid].held,
                      Sender[deposits[i].txid] # deposits[i].user
               PROVE  transfer[deposits[i].txid].second = Second(deposits[i].checkpoint)
    BY DEF PaymentsStayWithPayer
  <2> DEFINE d == deposits[i]
  <2>1. PaidTo(d, d.txid) /\ d.txid # NoTransfer
    BY DEF PaidTo, Mined, Verifies
  <2>2. d.checkpoint # NoCheckpoint /\ transfer[d.txid].second <= Second(d.checkpoint)
    BY <1>1, <2>1 DEF SubmissionInv, OthersEnteredMined
  <2>3. transfer[d.txid].second >= Second(d.checkpoint)
    BY <2>2 DEF Verifies, NotBeforeCheckpoint
  <2>4. d.txid \in Transfers /\ d.checkpoint \in Nat
    BY <1>1, <2>1, <2>2, RowsTyped DEF SubmissionInv, Deposit
  <2>5. transfer[d.txid].second \in Nat
    BY <1>1, <2>4 DEF SubmissionInv, SubmissionTypeOK, Payment, Mined
  <2>6. Second(d.checkpoint) \in Nat
    BY <2>4, SecondsOrdered
  <2> HIDE DEF d
  <2>7. transfer[d.txid].second = Second(d.checkpoint)
    BY <2>2, <2>3, <2>5, <2>6
  <2> QED BY <2>7 DEF d
<1> QED BY <1>1, SubmissionIsKept, PTL

\* Deposits and consumed sessions agree, terms by terms.
THEOREM SubmissionSessions == SubmissionSpec => []DepositsFollowSessions
<1>1. ASSUME SubmissionInv PROVE DepositsFollowSessions
  <2> DEFINE new == {i \in DOMAIN deposits : deposits[i].checkpoint # NoCheckpoint}
             used == {i \in DOMAIN sessions : sessions[i].state = "CONSUMED"}
  <2>1. ASSUME NEW t
        PROVE  Cardinality({i \in new : Terms(deposits[i]) = t})
                 = Cardinality({i \in used : Terms(sessions[i]) = t})
    <3>1. /\ {i \in new : Terms(deposits[i]) = t} = DepositsOn(t)
          /\ {i \in used : Terms(sessions[i]) = t} = SessionsOn(t)
      BY DEF DepositsOn, SessionsOn
    <3>2. Cardinality(DepositsOn(t)) = Cardinality(SessionsOn(t))
      BY <1>1 DEF SubmissionInv, TakenOnce
    <3> QED BY <3>1, <3>2
  <2> QED BY <2>1 DEF DepositsFollowSessions
<1> QED BY <1>1, SubmissionIsKept, PTL
=============================================================================
