-------------------------- MODULE ChainQueueProofs --------------------------
(***************************************************************************)
(* What the contracts and the blockchain queue promise, for any number of  *)
(* jobs, registrations, crashes and repeated transactions.                 *)
(*                                                                         *)
(* A key of a contract is written once and never again, so an answer that  *)
(* was right stays right: ReceiptsAreTrue is inductive with the types.     *)
(* MailsAreCounted needs to know that only an active job is being sent,    *)
(* and that a job which may still run has an attempt left (Counted).       *)
(***************************************************************************)
EXTENDS ChainQueue, TLAPS

Ended == {"completed", "failed", "removed"}

\* What is known of a mail between the attempts.
CountedJob(j) ==
    /\ stage[j] = "mail" => status[j] = "active"
    /\ j \in retrying => status[j] \in {"failed", "removed"}
    /\ mailed[j] <= attempts[j] + stalls[j]
                    + (IF status[j] \in {"completed", "removed"} THEN 1 ELSE 0)
    /\ attempts[j] <= MaxAttempts + events
    /\ status[j] \notin Ended \/ j \in retrying => attempts[j] < MaxAttempts + events

Counted == \A j \in MailJobs : CountedJob(j)

IInv == TypeOK /\ ReceiptsAreTrue /\ Counted

\* What a step does to the rows of the two properties.
ResultsOK == result \in [Calls -> Results] /\ chain \in [Keys -> Calls \cup {NoCall}]
QueueOK == status \in [Jobs -> Statuses] /\ stalls \in [Jobs -> Nat] /\ attempts \in [Jobs -> Nat]
WorkOK ==
    /\ stage \in [Calls \cup Jobs -> Stages]
    /\ sent \in [Calls -> Nat]
    /\ pool \subseteq Calls \X Nat
    /\ mailed \in [MailJobs -> Nat]
    /\ retrying \subseteq Jobs
    /\ events \in 0..MaxEvents

LEMMA Parts == IInv <=> ResultsOK /\ QueueOK /\ WorkOK /\ ReceiptsAreTrue /\ Counted
BY DEF IInv, TypeOK, ResultsOK, QueueOK, WorkOK

LEMMA PartsPrime ==
    IInv' <=> ResultsOK' /\ QueueOK' /\ WorkOK' /\ ReceiptsAreTrue' /\ Counted'
BY DEF IInv, TypeOK, ResultsOK, QueueOK, WorkOK

LEMMA InitIInv == Init => IInv
<1> SUFFICES ASSUME Init
             PROVE  IInv
  OBVIOUS
<1>1. TypeOK
  BY ChainAssumption DEF Init, TypeOK, Statuses, Stages, Results
<1>2. ReceiptsAreTrue
  BY DEF Init, ReceiptsAreTrue
<1>3. Counted
  BY <1>1 DEF Init, Counted, CountedJob, Jobs, MaxAttempts, Ended, TypeOK
<1> QED
  BY <1>1, <1>2, <1>3 DEF IInv

----------------------------------------------------------------------------
(* Who writes what.                                                        *)

\* Nobody's answer and no contract changes.
LEMMA SameResults ==
    ASSUME IInv, UNCHANGED <<result, chain>>
    PROVE  ResultsOK' /\ ReceiptsAreTrue'
BY Parts DEF ResultsOK, ReceiptsAreTrue, Written

\* A call answers and the contracts are as they were.
LEMMA AnswerStep ==
    ASSUME IInv, NEW c \in Calls, NEW r \in Results,
           result' = [result EXCEPT ![c] = r], UNCHANGED chain,
           r # "receipt", r = "owned" => Written(key[c])
    PROVE  ResultsOK' /\ ReceiptsAreTrue'
<1>1. ResultsOK
  BY Parts
<1>2. ResultsOK'
  BY <1>1 DEF ResultsOK
<1>3. \A d \in Calls : result'[d] = IF d = c THEN r ELSE result[d]
  BY <1>1 DEF ResultsOK
<1>4. ReceiptsAreTrue'
  BY <1>3, Parts DEF ReceiptsAreTrue, Written
<1> QED
  BY <1>2, <1>4

\* A key is written only once, and a receipt goes only to the call whose
\* transaction wrote it.
LEMMA MineResults ==
    ASSUME IInv, NEW c \in Calls, NEW n, Mine(c, n)
    PROVE  ResultsOK' /\ ReceiptsAreTrue'
<1> DEFINE k == key[c]
<1>1. ResultsOK /\ k \in Keys /\ key \in [Calls -> Keys] /\ NoCall \notin Calls
  BY Parts, ChainAssumption
<1>2. chain' = IF ~Written(k) THEN [chain EXCEPT ![k] = c] ELSE chain
  BY DEF Mine, Require
<1>3. \A x \in Keys : Written(x) => chain'[x] = chain[x] /\ chain'[x] # NoCall
  BY <1>1, <1>2 DEF ResultsOK, Written
<1>4. ~Written(k) => chain'[k] = c
  BY <1>1, <1>2 DEF ResultsOK
<1>5. \/ UNCHANGED result
      \/ result' = [result EXCEPT ![c] = "simulated"]
      \/ ~Written(k) /\ result' = [result EXCEPT ![c] = "receipt"]
  BY DEF Mine, Answer, Require
<1>6. ResultsOK'
  BY <1>1, <1>2, <1>5 DEF ResultsOK, Results
<1> HIDE DEF k
<1>7. \A d \in Calls :
        \/ result'[d] = result[d]
        \/ result'[d] = "simulated"
        \/ d = c /\ ~Written(k)
  BY <1>1, <1>5 DEF ResultsOK
<1>8. ASSUME NEW d \in Calls
      PROVE  /\ result'[d] = "receipt" => chain'[key[d]] = d
             /\ result'[d] = "owned" => chain'[key[d]] # NoCall
  <2>1. CASE result'[d] = result[d]
    <3>1. /\ result[d] = "receipt" => chain[key[d]] = d /\ Written(key[d])
          /\ result[d] = "owned" => Written(key[d])
      BY <1>1, Parts DEF ReceiptsAreTrue, Written
    <3> QED
      BY <1>1, <1>3, <2>1, <3>1
  <2>2. CASE result'[d] = "simulated"
    BY <2>2
  <2>3. CASE d = c /\ ~Written(k)
    BY <1>1, <1>4, <2>3 DEF k
  <2> QED
    BY <1>7, <2>1, <2>2, <2>3
<1> QED
  BY <1>6, <1>8 DEF ReceiptsAreTrue, Written

\* At most the job of one call changes its state.
OnlyJob(j) == \A i \in Jobs \ {j} : status'[i] = status[i] /\ stage'[i] = stage[i]

\* A mail that has an attempt left is queued or taken.
Goes(j) ==
    /\ stage'[j] = "mail" => status'[j] = "active"
    /\ status'[j] \in {"waiting", "active"}
    /\ status[j] \notin Ended \/ (status[j] = "failed" /\ j \in retrying)
    /\ j \notin retrying'

\* Whatever other jobs do, a mail is counted as before.
LEMMA JobCounted ==
    ASSUME IInv, NEW j, OnlyJob(j), j \notin MailJobs \/ Goes(j),
           UNCHANGED <<attempts, stalls, mailed, events>>, retrying' \subseteq retrying
    PROVE  Counted'
<1> SUFFICES ASSUME NEW i \in MailJobs
             PROVE  CountedJob(i)'
  BY DEF Counted
<1>1. i \in Jobs /\ CountedJob(i)
  BY DEF IInv, Counted, Jobs
<1>2. attempts[i] \in Nat /\ stalls[i] \in Nat /\ mailed[i] \in Nat /\ events \in Nat
  BY <1>1, Parts, ChainAssumption DEF QueueOK, WorkOK
<1>3. CASE i # j
  <2>1. status'[i] = status[i] /\ stage'[i] = stage[i]
    BY <1>1, <1>3 DEF OnlyJob
  <2> QED
    BY <1>1, <2>1 DEF CountedJob
<1>4. CASE i = j
  BY <1>1, <1>2, <1>4 DEF CountedJob, Goes, Ended
<1> QED
  BY <1>3, <1>4

\* A step that changes one entry of the table changes only that job.
LEMMA OneEntry ==
    ASSUME IInv, NEW j, NEW s, NEW g,
           status' = [status EXCEPT ![j] = s] \/ status' = status,
           stage' = [stage EXCEPT ![j] = g] \/ stage' = stage
    PROVE  OnlyJob(j)
BY Parts DEF QueueOK, WorkOK, OnlyJob

LEMMA CallsAreNoMail == \A c \in Calls : c \notin MailJobs
BY ChainAssumption

\* The answer of a call completes its job.
LEMMA AnswerQueue ==
    ASSUME IInv, NEW c \in Calls, NEW r, Answer(c, r),
           UNCHANGED <<stalls, attempts, mailed, events, retrying>>
    PROVE  QueueOK' /\ Counted' /\ stage' \in [Calls \cup Jobs -> Stages]
<1>1. QueueOK /\ WorkOK
  BY Parts
<1>2. /\ status' = [status EXCEPT ![c] = "completed"] \/ status' = status
      /\ stage' = [stage EXCEPT ![c] = "idle"]
  BY DEF Answer
<1>3. QueueOK' /\ stage' \in [Calls \cup Jobs -> Stages]
  BY <1>1, <1>2 DEF QueueOK, WorkOK, Statuses, Stages
<1>4. Counted'
  BY <1>2, OneEntry, CallsAreNoMail, JobCounted
<1> QED
  BY <1>3, <1>4

\* A call goes on to its next request.
LEMMA StageQueue ==
    ASSUME IInv, NEW c \in Calls, NEW g \in Stages,
           stage' = [stage EXCEPT ![c] = g] \/ stage' = stage, UNCHANGED status,
           UNCHANGED <<stalls, attempts, mailed, events, retrying>>
    PROVE  QueueOK' /\ Counted' /\ stage' \in [Calls \cup Jobs -> Stages]
<1>1. QueueOK' /\ stage' \in [Calls \cup Jobs -> Stages]
  BY Parts DEF QueueOK, WorkOK
<1>2. Counted'
  BY OneEntry, CallsAreNoMail, JobCounted
<1> QED
  BY <1>1, <1>2

----------------------------------------------------------------------------
(* The invariant is preserved, action by action.                           *)

LEMMA JobInv ==
    ASSUME IInv, NEW j \in Jobs, Add(j) \/ Take(j) \/ Retry(j) \/ RetryNext(j)
    PROVE  IInv'
<1>1. ResultsOK /\ QueueOK /\ WorkOK
  BY Parts
<1>2. ASSUME j \in MailJobs
      PROVE  /\ stage[j] = "mail" => status[j] = "active"
             /\ j \in retrying => status[j] \in {"failed", "removed"}
  BY <1>2 DEF IInv, Counted, CountedJob
<1>3. ASSUME Add(j) \/ Retry(j) \/ (RetryNext(j) /\ status[j] = "failed")
      PROVE  IInv'
  <2>1. /\ status' = [status EXCEPT ![j] = "waiting"]
        /\ UNCHANGED <<attempts, stalls, stage, sent, pool, chain, result, mailed, events>>
        /\ retrying' \subseteq retrying
    BY <1>3 DEF Add, Retry, RetryNext, webVars
  <2>2. status[j] \in {"absent", "delayed"} \/ (status[j] = "failed" /\ j \in retrying)
    BY <1>3 DEF Add, Retry, RetryNext
  <2>3. j \notin MailJobs \/ Goes(j)
    <3> SUFFICES ASSUME j \in MailJobs
                 PROVE  Goes(j)
      OBVIOUS
    <3>1. j \notin retrying'
      <4>1. CASE Add(j) \/ Retry(j)
        <5>1. retrying' = retrying /\ status[j] \notin {"failed", "removed"}
          BY <4>1 DEF Add, Retry
        <5> QED
          BY <1>2, <5>1
      <4>2. CASE RetryNext(j) /\ status[j] = "failed"
        BY <4>2 DEF RetryNext
      <4> QED
        BY <1>3, <4>1, <4>2
    <3> QED
      BY <1>1, <1>2, <2>1, <2>2, <3>1 DEF Goes, Ended, QueueOK
  <2>4. Counted'
    BY <2>1, <2>3, OneEntry, JobCounted
  <2>5. QueueOK' /\ WorkOK'
    BY <1>1, <2>1 DEF QueueOK, WorkOK, Statuses
  <2> QED
    BY <2>1, <2>4, <2>5, SameResults, PartsPrime
<1>4. CASE RetryNext(j) /\ status[j] # "failed"
  <2>1. /\ UNCHANGED <<status, attempts, stalls, stage, sent, pool, chain, result, mailed, events>>
        /\ retrying' = {}
    BY <1>4 DEF RetryNext, webVars
  <2>2. Counted'
    BY <2>1 DEF IInv, Counted, CountedJob
  <2> QED
    BY <1>1, <2>1, <2>2, SameResults, PartsPrime DEF QueueOK, WorkOK
<1>5. CASE Take(j)
  <2>1. UNCHANGED <<attempts, stalls, sent, pool, chain, mailed, retrying, events>> /\ status[j] = "waiting"
    BY <1>5 DEF Take
  <2>2. CASE j \in ChainJobs /\ Simulated(j)
    <3>1. Answer(j, "simulated") /\ j \in Calls
      BY <1>5, <2>2 DEF Take, Calls
    <3>2. ResultsOK' /\ ReceiptsAreTrue'
      BY <2>1, <3>1, AnswerStep DEF Answer, Results
    <3> QED
      BY <1>1, <2>1, <3>1, <3>2, AnswerQueue, PartsPrime DEF WorkOK
  <2>3. CASE ~(j \in ChainJobs /\ Simulated(j))
    <3> DEFINE g == IF j \in MailJobs THEN "mail" ELSE FirstStage(j)
    <3>1. /\ status' = [status EXCEPT ![j] = "active"] /\ result' = result
          /\ stage' = [stage EXCEPT ![j] = g]
      BY <1>5, <2>3 DEF Take
    <3>2. g \in Stages
      BY DEF Stages, FirstStage
    <3> HIDE DEF g
    <3>3. QueueOK' /\ WorkOK'
      BY <1>1, <2>1, <3>1, <3>2 DEF QueueOK, WorkOK, Statuses
    <3>4. j \notin MailJobs \/ Goes(j)
      <4> SUFFICES ASSUME j \in MailJobs
                   PROVE  Goes(j)
        OBVIOUS
      <4>1. status'[j] = "active" /\ retrying' = retrying
        BY <1>1, <2>1, <3>1 DEF QueueOK
      <4>2. j \notin retrying
        BY <1>2, <2>1
      <4> QED
        BY <2>1, <4>1, <4>2 DEF Goes, Ended
    <3>5. Counted'
      BY <2>1, <3>1, <3>4, OneEntry, JobCounted
    <3> QED
      BY <2>1, <3>1, <3>3, <3>5, SameResults, PartsPrime
  <2> QED
    BY <2>2, <2>3
<1> QED
  BY <1>3, <1>4, <1>5

LEMMA RegisterInv == ASSUME IInv, NEW p \in Registrations, Register(p) PROVE IInv'
<1>1. ResultsOK /\ QueueOK /\ WorkOK /\ p \in Calls
  BY Parts DEF Calls
<1>2. UNCHANGED <<attempts, stalls, sent, pool, chain, mailed, retrying, events>>
  BY DEF Register
<1>3. CASE Answer(p, "simulated")
  <2>1. ResultsOK' /\ ReceiptsAreTrue'
    BY <1>1, <1>2, <1>3, AnswerStep DEF Answer, Results
  <2> QED
    BY <1>1, <1>2, <1>3, <2>1, AnswerQueue, PartsPrime DEF WorkOK
<1>4. CASE stage' = [stage EXCEPT ![p] = FirstStage(p)] /\ UNCHANGED <<status, result>>
  <2>1. FirstStage(p) \in Stages
    BY DEF Stages, FirstStage
  <2>2. QueueOK' /\ Counted' /\ stage' \in [Calls \cup Jobs -> Stages]
    BY <1>1, <1>2, <1>4, <2>1, StageQueue
  <2> QED
    BY <1>1, <1>2, <1>4, <2>2, SameResults, PartsPrime DEF WorkOK
<1> QED
  BY <1>3, <1>4 DEF Register

LEMMA CallInv ==
    ASSUME IInv, NEW c \in Calls, Ask(c) \/ Send(c) \/ Mined(c) \/ CallFails(c)
    PROVE  IInv'
<1>1. ResultsOK /\ QueueOK /\ WorkOK
  BY Parts
<1>2. CASE Ask(c)
  <2>1. UNCHANGED <<attempts, stalls, sent, pool, chain, mailed, retrying, events>>
    BY <1>2 DEF Ask
  <2>2. CASE Written(key[c])
    <3>1. Answer(c, "owned")
      BY <1>2, <2>2 DEF Ask
    <3>2. ResultsOK' /\ ReceiptsAreTrue'
      BY <2>1, <2>2, <3>1, AnswerStep DEF Answer, Results
    <3> QED
      BY <1>1, <2>1, <3>1, <3>2, AnswerQueue, PartsPrime DEF WorkOK
  <2>3. CASE ~Written(key[c])
    <3>1. stage' = [stage EXCEPT ![c] = "send"] /\ UNCHANGED <<status, result>>
      BY <1>2, <2>3 DEF Ask
    <3>2. QueueOK' /\ Counted' /\ stage' \in [Calls \cup Jobs -> Stages]
      BY <2>1, <3>1, StageQueue DEF Stages
    <3> QED
      BY <1>1, <2>1, <3>1, <3>2, SameResults, PartsPrime DEF WorkOK
  <2> QED
    BY <2>2, <2>3
<1>3. CASE Send(c)
  <2>1. /\ UNCHANGED <<attempts, stalls, chain, mailed, retrying, events, status, result>>
        /\ sent' = [sent EXCEPT ![c] = @ + 1]
        /\ pool' = pool \cup {<<c, sent[c] + 1>>}
        /\ stage' = [stage EXCEPT ![c] = "wait"]
    BY <1>3 DEF Send, Awaited
  <2>2. sent' \in [Calls -> Nat] /\ pool' \subseteq Calls \X Nat
    BY <1>1, <2>1 DEF WorkOK
  <2>3. QueueOK' /\ Counted' /\ stage' \in [Calls \cup Jobs -> Stages]
    BY <2>1, StageQueue DEF Stages
  <2> QED
    BY <1>1, <2>1, <2>2, <2>3, SameResults, PartsPrime DEF WorkOK
<1>4. CASE Mined(c)
  <2>1. PICK n \in 1..sent[c] : Mine(c, n)
    BY <1>4 DEF Mined
  <2>2. /\ UNCHANGED <<attempts, stalls, sent, mailed, retrying, events>> /\ pool' \subseteq pool
        /\ (\E r : Answer(c, r)) \/ UNCHANGED <<status, stage>>
    BY <2>1 DEF Mine
  <2>3. QueueOK' /\ Counted' /\ stage' \in [Calls \cup Jobs -> Stages]
    <3>1. CASE \E r : Answer(c, r)
      BY <2>2, <3>1, AnswerQueue
    <3>2. CASE UNCHANGED <<status, stage>>
      BY <2>2, <3>2, StageQueue DEF Stages
    <3> QED
      BY <2>2, <3>1, <3>2
  <2>4. ResultsOK' /\ ReceiptsAreTrue'
    BY <2>1, MineResults
  <2> QED
    BY <1>1, <2>2, <2>3, <2>4, PartsPrime DEF WorkOK
<1>5. CASE CallFails(c)
  <2>1. /\ Answer(c, "simulated")
        /\ UNCHANGED <<attempts, stalls, sent, pool, chain, mailed, retrying, events>>
    BY <1>5 DEF CallFails
  <2>2. ResultsOK' /\ ReceiptsAreTrue'
    BY <2>1, AnswerStep DEF Answer, Results
  <2> QED
    BY <1>1, <2>1, <2>2, AnswerQueue, PartsPrime DEF WorkOK
<1> QED
  BY <1>2, <1>3, <1>4, <1>5

LEMMA MailInv ==
    ASSUME IInv, NEW j \in MailJobs, SendMail(j) \/ MailFails(j)
    PROVE  IInv'
<1>1. ResultsOK /\ QueueOK /\ WorkOK /\ j \in Jobs
  BY Parts DEF Jobs
<1>2. UNCHANGED <<stalls, sent, pool, chain, result, retrying, events>>
  BY DEF SendMail, MailFails
<1>3. stage' = [stage EXCEPT ![j] = "idle"] /\ \E n \in {0, 1} : mailed' = [mailed EXCEPT ![j] = @ + n]
  BY DEF SendMail, MailFails
<1>4. stage' \in [Calls \cup Jobs -> Stages] /\ mailed' \in [MailJobs -> Nat]
  BY <1>1, <1>3 DEF WorkOK, Stages
<1>5. PICK s \in {"completed", "delayed", "failed"} : status' = [status EXCEPT ![j] = s]
  BY DEF SendMail, MailFails, AttemptFails
<1>6. QueueOK'
  BY <1>1, <1>2, <1>5 DEF SendMail, MailFails, AttemptFails, QueueOK, Statuses
<1>7. CountedJob(j) /\ status[j] = "active" /\ j \notin retrying
  BY DEF IInv, Counted, CountedJob, SendMail, MailFails
<1>8. /\ attempts[j] \in Nat /\ stalls[j] \in Nat /\ mailed[j] \in Nat /\ events \in Nat
      /\ MaxAttempts \in Nat
  BY <1>1, ChainAssumption DEF QueueOK, WorkOK, MaxAttempts
<1>9. mailed[j] <= attempts[j] + stalls[j] /\ attempts[j] < MaxAttempts + events
  BY <1>7, <1>8 DEF CountedJob, Ended
<1>10. CountedJob(j)'
  <2>1. stage'[j] = "idle" /\ status'[j] = s
    BY <1>1, <1>3, <1>5 DEF WorkOK, QueueOK
  <2>2. CASE SendMail(j)
    <3>1. s = "completed" /\ mailed'[j] = mailed[j] + 1 /\ attempts' = attempts
      BY <1>1, <2>1, <2>2 DEF SendMail, WorkOK, QueueOK
    <3> QED
      BY <1>2, <1>7, <1>8, <1>9, <2>1, <3>1 DEF CountedJob, Ended
  <2>3. CASE MailFails(j)
    <3>1. attempts'[j] = attempts[j] + 1 /\ mailed'[j] <= mailed[j] + 1
      BY <1>1, <1>8, <2>3 DEF MailFails, AttemptFails, WorkOK, QueueOK
    <3>2. s = IF attempts[j] + 1 < MaxAttempts THEN "delayed" ELSE "failed"
      BY <1>1, <2>1, <2>3 DEF MailFails, AttemptFails, QueueOK
    <3>3. mailed'[j] \in Nat
      BY <1>1, <1>4
    <3> QED
      BY <1>2, <1>7, <1>8, <1>9, <2>1, <3>1, <3>2, <3>3 DEF CountedJob, Ended
  <2> QED
    BY <2>2, <2>3
<1>11. ASSUME NEW i \in MailJobs, i # j
       PROVE  CountedJob(i)'
  <2>1. CountedJob(i) /\ i \in Jobs
    BY DEF IInv, Counted, Jobs
  <2>2. status'[i] = status[i] /\ stage'[i] = stage[i] /\ mailed'[i] = mailed[i]
    BY <1>1, <1>3, <1>5, <1>11, <2>1 DEF QueueOK, WorkOK
  <2>3. attempts'[i] = attempts[i]
    BY <1>1, <1>11, <2>1 DEF SendMail, MailFails, AttemptFails, QueueOK
  <2> QED
    BY <1>2, <2>1, <2>2, <2>3 DEF CountedJob
<1>12. Counted'
  BY <1>10, <1>11 DEF Counted
<1> QED
  BY <1>1, <1>2, <1>4, <1>6, <1>12, SameResults, PartsPrime DEF WorkOK

LEMMA RequestInv ==
    ASSUME IInv, NEW q \in {ChainJobs, MailJobs},
           RetryFailed(q) \/ \E s \in {"completed", "failed"} : Clear(q, s)
    PROVE  IInv'
<1>1. ResultsOK /\ QueueOK /\ WorkOK /\ q \subseteq Jobs
  BY Parts DEF Jobs
<1>2. events' \in 0..MaxEvents /\ UNCHANGED <<attempts, stalls, webVars, mailed>>
  BY <1>1, ChainAssumption DEF RetryFailed, Clear, queueVars, WorkOK
<1>3. ASSUME NEW j \in MailJobs
      PROVE  /\ CountedJob(j) /\ j \in Jobs
             /\ attempts[j] \in Nat /\ events \in Nat /\ MaxAttempts \in Nat
  BY <1>1, ChainAssumption DEF IInv, Counted, Jobs, QueueOK, WorkOK, MaxAttempts
<1>4. CASE RetryFailed(q)
  <2>1. /\ UNCHANGED <<status, stalls, stage>> /\ events' = events + 1
        /\ retrying' = {j \in q : status[j] = "failed"}
    BY <1>4 DEF RetryFailed, queueVars, webVars
  <2>2. ASSUME NEW j \in MailJobs
        PROVE  CountedJob(j)'
    BY <1>2, <1>3, <2>1 DEF CountedJob
  <2> QED
    BY <1>1, <1>2, <2>1, <2>2, SameResults, PartsPrime DEF WorkOK, QueueOK, webVars, Counted
<1>5. ASSUME NEW s \in {"completed", "failed"}, Clear(q, s)
      PROVE  IInv'
  <2>1. /\ UNCHANGED <<retrying, stage, stalls>> /\ events' = events + 1
        /\ status' = [j \in Jobs |-> IF j \in q /\ status[j] = s THEN "removed" ELSE status[j]]
    BY <1>5 DEF Clear, webVars
  <2>2. QueueOK'
    BY <1>1, <1>2, <2>1 DEF QueueOK, Statuses
  <2>3. ASSUME NEW j \in MailJobs
        PROVE  CountedJob(j)'
    <3>1. status'[j] = status[j] \/ (status[j] \in {"completed", "failed"} /\ status'[j] = "removed")
      BY <1>3, <2>1
    <3>2. mailed[j] \in Nat /\ stalls[j] \in Nat
      BY <1>1, <1>3 DEF QueueOK, WorkOK
    <3> QED
      BY <1>2, <1>3, <2>1, <3>1, <3>2 DEF CountedJob, Ended
  <2> QED
    BY <1>1, <1>2, <2>1, <2>2, <2>3, SameResults, PartsPrime DEF WorkOK, webVars, Counted
<1> QED
  BY <1>4, <1>5

\* A mail that may have gone out is paid for by the lost process.
LEMMA CrashInv == ASSUME IInv, Crash PROVE IInv'
<1>1. ResultsOK /\ QueueOK /\ WorkOK
  BY Parts
<1>2. /\ stalls' = [j \in Jobs |-> IF status[j] = "active" THEN stalls[j] + 1 ELSE stalls[j]]
      /\ status' = [j \in Jobs |-> IF status[j] = "active" THEN Stalled(j) ELSE status[j]]
      /\ UNCHANGED <<attempts, sent, pool, chain, result>> /\ events' = events + 1
      /\ retrying' = {} /\ stage' = [c \in Calls \cup Jobs |-> "idle"]
  BY DEF Crash
<1>3. PICK out \in SUBSET {j \in MailJobs : stage[j] = "mail"} :
        mailed' = [j \in MailJobs |-> IF j \in out THEN mailed[j] + 1 ELSE mailed[j]]
  BY DEF Crash
<1>4. events' \in 0..MaxEvents
  BY <1>1, ChainAssumption DEF Crash, WorkOK
<1>5. QueueOK'
  BY <1>1, <1>2 DEF QueueOK, Statuses, Stalled
<1>6. ASSUME NEW j \in MailJobs
      PROVE  CountedJob(j)'
  <2>1. /\ CountedJob(j) /\ j \in Jobs /\ attempts[j] \in Nat /\ stalls[j] \in Nat
        /\ mailed[j] \in Nat /\ events \in Nat /\ MaxAttempts \in Nat
    BY <1>1, ChainAssumption DEF IInv, Counted, Jobs, QueueOK, WorkOK, MaxAttempts
  <2>2. stage'[j] = "idle" /\ attempts'[j] = attempts[j]
    BY <1>2, <2>1
  <2>3. CASE status[j] = "active"
    <3>1. stalls'[j] = stalls[j] + 1 /\ status'[j] \in {"waiting", "failed"}
      BY <1>2, <2>1, <2>3 DEF Stalled
    <3>2. mailed'[j] <= mailed[j] + 1 /\ mailed'[j] \in Nat
      BY <1>3, <2>1
    <3>3. mailed[j] <= attempts[j] + stalls[j] /\ attempts[j] < MaxAttempts + events
      BY <2>1, <2>3 DEF CountedJob, Ended
    <3> QED
      BY <1>2, <2>1, <2>2, <3>1, <3>2, <3>3 DEF CountedJob, Ended
  <2>4. CASE status[j] # "active"
    <3>1. j \notin out
      BY <2>1, <2>4 DEF CountedJob
    <3>2. status'[j] = status[j] /\ stalls'[j] = stalls[j] /\ mailed'[j] = mailed[j]
      BY <1>2, <1>3, <2>1, <2>4, <3>1
    <3> QED
      BY <1>2, <2>1, <2>2, <3>2 DEF CountedJob
  <2> QED
    BY <2>3, <2>4
<1>7. WorkOK'
  <2>1. mailed' \in [MailJobs -> Nat]
    BY <1>1, <1>3 DEF WorkOK
  <2> QED
    BY <1>1, <1>2, <1>4, <2>1 DEF WorkOK, Stages
<1> QED
  BY <1>2, <1>5, <1>6, <1>7, SameResults, PartsPrime DEF Counted

LEMMA StepIInv == ASSUME IInv, [Next]_vars PROVE IInv'
<1>1. CASE Next
  BY <1>1, JobInv, RegisterInv, CallInv, MailInv, RequestInv, CrashInv DEF Next
<1>2. CASE UNCHANGED vars
  <2>1. UNCHANGED <<status, stalls, attempts, result, chain, stage, sent, pool, mailed, retrying, events>>
    BY <1>2 DEF vars, queueVars, webVars
  <2> QED
    BY <2>1, Parts, SameResults, PartsPrime DEF WorkOK, QueueOK, Counted, CountedJob
<1> QED
  BY <1>1, <1>2

----------------------------------------------------------------------------

\* The invariant that the theorems below rest on: the types, the answers of the
\* chain and what is known of a mail between its attempts
\* (web3.provider.ts:112-309, queue.service.ts:76-162).
THEOREM Inductive == Spec => []IInv
BY InitIInv, StepIInv, PTL DEF Spec

\* Every job, call and contract has its type (queue.service.ts:35-174).
THEOREM TypeCorrect == Spec => []TypeOK
<1>1. IInv => TypeOK
  BY DEF IInv
<1> QED
  BY <1>1, Inductive, PTL

\* A receipt is the caller's own write, and "already there" is right, for any
\* number of repeated and late transactions (web3.provider.ts:219, 294, 300).
THEOREM ReceiptsStayTrue == Spec => []ReceiptsAreTrue
<1>1. IInv => ReceiptsAreTrue
  BY DEF IInv
<1> QED
  BY <1>1, Inductive, PTL

\* However often attempts fail, processes are lost and the administrator
\* retries, every copy of a mail but one is accounted for by a failed attempt
\* or a lost process, and attempts are bounded (email.processor.ts:39,
\* queue.service.ts:152).
THEOREM MailsStayCounted == Spec => []MailsAreCounted
<1>1. IInv => MailsAreCounted
  BY DEF IInv, Counted, CountedJob, MailsAreCounted
<1> QED
  BY <1>1, Inductive, PTL
=============================================================================
