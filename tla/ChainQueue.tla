----------------------------- MODULE ChainQueue -----------------------------
(***************************************************************************)
(* The job queues and what their jobs do: QueueService, the blockchain and *)
(* email processors, Web3Provider with the three contracts, EmailService   *)
(* and the requests of an administrator.                                   *)
(*                                                                         *)
(* Jobs live in Redis and outlast the process; the process of a job, and a *)
(* registration, are forgotten in a crash, while the transactions they     *)
(* sent may still be mined.  Each contract is a map whose keys are written *)
(* once: a match, an address with a badge, a registered address.           *)
(*                                                                         *)
(* BullMQ (backoff, stalled jobs, priorities, the manual retry), the RPC   *)
(* node and the mail server are modelled from how the code uses them.  The *)
(* number of finished jobs that are kept is left out.                      *)
(***************************************************************************)
EXTENDS Naturals, FiniteSets

CONSTANTS
    RecordJobs,     \* jobs of type record-match
    MintJobs,       \* jobs of type mint-badge
    MailJobs,       \* jobs of the email queue
    Registrations,  \* calls of registerPlayerOnChain, outside the queue
    Keys,           \* what can be written to a contract
    key,            \* what each call writes
    reachable,      \* the calls whose contract is deployed and whose badge has an id
    NoCall,         \* in place of a call: nobody
    Concurrency,    \* how many jobs of a queue are processed at once, one per process
    MaxLoad,        \* bound: how many jobs and registrations there are
    MaxEvents       \* bound: crashes and requests of the administrator

ChainJobs == RecordJobs \cup MintJobs
Jobs == ChainJobs \cup MailJobs
Calls == ChainJobs \cup Registrations

ASSUME ChainAssumption ==
    /\ key \in [Calls -> Keys]
    /\ reachable \subseteq Calls
    /\ NoCall \notin Calls
    /\ RecordJobs \cap MintJobs = {} /\ Registrations \cap Jobs = {} /\ MailJobs \cap Calls = {}
    /\ Concurrency \in Nat \ {0}
    /\ MaxLoad \in Nat
    /\ MaxEvents \in Nat

VARIABLES
    status,    \* each job in its queue
    attempts,  \* attemptsMade
    stalls,    \* how often a job was found without its process
    stage,     \* where each running call is
    sent,      \* how many transactions a call has sent
    pool,      \* transactions that are not mined yet: a call and its number
    chain,     \* whose transaction wrote each key
    result,    \* what a call has answered
    mailed,    \* how often each mail was delivered
    retrying,  \* the failed jobs a manual retry still has before it
    events     \* crashes and administrator requests so far

queueVars == <<status, attempts, stalls>>
webVars == <<stage, sent, pool, chain, result>>
vars == <<queueVars, webVars, mailed, retrying, events>>

Statuses == {"absent", "waiting", "active", "delayed", "completed", "failed", "removed"}
Stages == {"idle", "ask", "send", "wait", "mail"}
Results == {"none", "simulated", "owned", "receipt"}
MaxAttempts == 3

----------------------------------------------------------------------------
(* The queue.                                                              *)

\* Whether the bound allows one more.
Room == Cardinality({j \in Jobs : status[j] # "absent"}
                    \cup {p \in Registrations : stage[p] # "idle" \/ result[p] # "none"}) < MaxLoad

\* addBlockchainJob, addEmailJob
Add(j) ==
    /\ Room /\ status[j] = "absent"
    /\ status' = [status EXCEPT ![j] = "waiting"]
    /\ UNCHANGED <<attempts, stalls, webVars, mailed, retrying, events>>

QueueOf(j) == IF j \in MailJobs THEN MailJobs ELSE ChainJobs

\* Badges have a lower priority than matches.
First(j) == j \in MintJobs => \A r \in RecordJobs : status[r] # "waiting"

\* A call answers: the job of a chain call is complete, whatever the answer.
Answer(c, r) ==
    /\ result' = [result EXCEPT ![c] = r]
    /\ stage' = [stage EXCEPT ![c] = "idle"]
    /\ status' = IF c \in Jobs THEN [status EXCEPT ![c] = "completed"] ELSE status

\* A call is simulated without its contract; minting and registering look
\* first whether it has been done.
FirstStage(c) == IF c \in RecordJobs THEN "send" ELSE "ask"

\* The contract is not configured, or the badge has no id.
Simulated(c) == c \notin reachable

\* The worker takes a job to its processor.
Take(j) ==
    /\ status[j] = "waiting" /\ First(j)
    /\ Cardinality({i \in QueueOf(j) : status[i] = "active"}) < Concurrency
    /\ IF j \in ChainJobs /\ Simulated(j)
       THEN Answer(j, "simulated")
       ELSE /\ status' = [status EXCEPT ![j] = "active"]
            /\ stage' = [stage EXCEPT ![j] = IF j \in MailJobs THEN "mail" ELSE FirstStage(j)]
            /\ result' = result
    /\ UNCHANGED <<attempts, stalls, sent, pool, chain, mailed, retrying, events>>

\* WalletService.connect and the sign-in with Ethereum call it and go on.
Register(p) ==
    /\ Room /\ stage[p] = "idle" /\ result[p] = "none"
    /\ IF Simulated(p)
       THEN Answer(p, "simulated")
       ELSE stage' = [stage EXCEPT ![p] = FirstStage(p)] /\ UNCHANGED <<status, result>>
    /\ UNCHANGED <<attempts, stalls, sent, pool, chain, mailed, retrying, events>>

\* Mutant of AttemptFails: attempts are counted down.
AttemptLeft(j) ==
    /\ attempts' = [attempts EXCEPT ![j] = @ - 1]
    /\ status' = [status EXCEPT ![j] = IF attempts[j] + 1 < MaxAttempts THEN "delayed" ELSE "failed"]

\* Mutant of AttemptFails: the attempt is not counted.
AttemptUncounted(j) ==
    /\ attempts' = attempts
    /\ status' = [status EXCEPT ![j] = "delayed"]

\* An error of the processor: two more attempts, then the job has failed.
AttemptFails(j) ==
    /\ attempts' = [attempts EXCEPT ![j] = @ + 1]
    /\ status' = [status EXCEPT ![j] = IF attempts[j] + 1 < MaxAttempts THEN "delayed" ELSE "failed"]

\* The backoff is over.
Retry(j) ==
    /\ status[j] = "delayed"
    /\ status' = [status EXCEPT ![j] = "waiting"]
    /\ UNCHANGED <<attempts, stalls, webVars, mailed, retrying, events>>

----------------------------------------------------------------------------
(* Web3Provider and the contracts.                                         *)

\* hasBadge, isRegistered, matchExists
Written(k) == chain[k] # NoCall

Ask(c) ==
    /\ stage[c] = "ask"
    /\ IF Written(key[c])
       THEN Answer(c, "owned")
       ELSE stage' = [stage EXCEPT ![c] = "send"] /\ UNCHANGED <<status, result>>
    /\ UNCHANGED <<attempts, stalls, sent, pool, chain, mailed, retrying, events>>

\* Mutant of Awaited: the hash is returned as soon as the transaction is sent.
NotAwaited(c) == Answer(c, "receipt")

\* tx.wait
Awaited(c) == stage' = [stage EXCEPT ![c] = "wait"] /\ UNCHANGED <<status, result>>

Send(c) ==
    /\ stage[c] = "send"
    /\ sent' = [sent EXCEPT ![c] = @ + 1]
    /\ pool' = pool \cup {<<c, sent[c] + 1>>}
    /\ Awaited(c)
    /\ UNCHANGED <<attempts, stalls, chain, mailed, retrying, events>>

\* Mutant of Require: a key may be written again.
NoRequire(k) == TRUE

\* require(!matches[matchId].exists), require(!_hasBadge[player][badgeId]),
\* require(!players[msg.sender].exists)
Require(k) == ~Written(k)

\* A transaction is mined, or reverts.  Its receipt reaches the call if it is
\* the one that the call waits for.
Mine(c, n) ==
    /\ <<c, n>> \in pool
    /\ pool' = pool \ {<<c, n>>}
    /\ chain' = IF Require(key[c]) THEN [chain EXCEPT ![key[c]] = c] ELSE chain
    /\ IF stage[c] = "wait" /\ n = sent[c]
       THEN Answer(c, IF Require(key[c]) THEN "receipt" ELSE "simulated")
       ELSE UNCHANGED <<status, stage, result>>
    /\ UNCHANGED <<attempts, stalls, sent, mailed, retrying, events>>

\* The node answers with an error, which the call catches and answers with a
\* simulated hash.  A transaction that was sent may be mined later; one that
\* the node lost stays in the pool for ever.
CallFails(c) ==
    /\ stage[c] \in {"ask", "send", "wait"}
    /\ Answer(c, "simulated")
    /\ UNCHANGED <<attempts, stalls, sent, pool, chain, mailed, retrying, events>>

----------------------------------------------------------------------------
(* Mail.                                                                   *)

SendMail(j) ==
    /\ stage[j] = "mail"
    /\ mailed' = [mailed EXCEPT ![j] = @ + 1]
    /\ status' = [status EXCEPT ![j] = "completed"]
    /\ stage' = [stage EXCEPT ![j] = "idle"]
    /\ UNCHANGED <<attempts, stalls, sent, pool, chain, result, retrying, events>>

\* The mail server answers with an error, having sent the mail or not.
MailFails(j) ==
    /\ stage[j] = "mail"
    /\ \E n \in {0, 1} : mailed' = [mailed EXCEPT ![j] = @ + n]
    /\ AttemptFails(j)
    /\ stage' = [stage EXCEPT ![j] = "idle"]
    /\ UNCHANGED <<stalls, sent, pool, chain, result, retrying, events>>

----------------------------------------------------------------------------
(* The administrator and crashes.                                          *)

\* What the administrator sees of some jobs.
Healthy(q) == \A j \in q : status[j] # "failed"

\* retryFailedJobs reads the failed jobs of a queue and retries one by one.
RetryFailed(q) ==
    /\ events < MaxEvents /\ retrying = {}
    /\ ~Healthy(q)
    /\ events' = events + 1
    /\ retrying' = {j \in q : status[j] = "failed"}
    /\ UNCHANGED <<queueVars, webVars, mailed>>

\* A job that is not there or has not failed any more ends the request.
RetryNext(j) ==
    /\ j \in retrying
    /\ IF status[j] = "failed"
       THEN /\ status' = [status EXCEPT ![j] = "waiting"]
            /\ retrying' = retrying \ {j}
       ELSE status' = status /\ retrying' = {}
    /\ UNCHANGED <<attempts, stalls, webVars, mailed, events>>

\* clearCompletedJobs, clearFailedJobs
Clear(q, s) ==
    /\ events < MaxEvents /\ s \in {"completed", "failed"}
    /\ \E j \in q : status[j] = s
    /\ events' = events + 1
    /\ status' = [j \in Jobs |-> IF j \in q /\ status[j] = s THEN "removed" ELSE status[j]]
    /\ UNCHANGED <<attempts, stalls, webVars, mailed, retrying>>

\* Mutant of Stalled: nobody notices that the process is gone.
StaysActive(j) == "active"

\* The queue gives a job without its process to the next one, but only once.
Stalled(j) == IF stalls[j] = 0 THEN "waiting" ELSE "failed"

\* The process stops; a mail that it was sending may have gone out.
Crash ==
    /\ events < MaxEvents
    /\ events' = events + 1
    /\ stalls' = [j \in Jobs |-> IF status[j] = "active" THEN stalls[j] + 1 ELSE stalls[j]]
    /\ status' = [j \in Jobs |-> IF status[j] = "active" THEN Stalled(j) ELSE status[j]]
    /\ stage' = [c \in Calls \cup Jobs |-> "idle"]
    /\ retrying' = {}
    /\ \E out \in SUBSET {j \in MailJobs : stage[j] = "mail"} :
         mailed' = [j \in MailJobs |-> IF j \in out THEN mailed[j] + 1 ELSE mailed[j]]
    /\ UNCHANGED <<attempts, sent, pool, chain, result>>

Init ==
    /\ status = [j \in Jobs |-> "absent"]
    /\ attempts = [j \in Jobs |-> 0]
    /\ stalls = [j \in Jobs |-> 0]
    /\ stage = [c \in Calls \cup Jobs |-> "idle"]
    /\ sent = [c \in Calls |-> 0]
    /\ pool = {}
    /\ chain = [k \in Keys |-> NoCall]
    /\ result = [c \in Calls |-> "none"]
    /\ mailed = [j \in MailJobs |-> 0]
    /\ retrying = {}
    /\ events = 0

Mined(c) == \E n \in 1..sent[c] : Mine(c, n)

Next ==
    \/ \E j \in Jobs : Add(j) \/ Take(j) \/ Retry(j) \/ RetryNext(j)
    \/ \E p \in Registrations : Register(p)
    \/ \E c \in Calls : Ask(c) \/ Send(c) \/ Mined(c) \/ CallFails(c)
    \/ \E j \in MailJobs : SendMail(j) \/ MailFails(j)
    \/ \E q \in {ChainJobs, MailJobs} : RetryFailed(q) \/ \E s \in {"completed", "failed"} : Clear(q, s)
    \/ Crash

Spec == Init /\ [][Next]_vars

\* Redis keeps the jobs and a worker takes them; a request to the mail server
\* is answered or times out.  Nothing is owed by a call to the chain: tx.wait
\* has no time limit, and a provider that never reaches its node keeps asking.
FairSpec ==
    /\ Spec
    /\ \A j \in Jobs : WF_vars(Take(j)) /\ WF_vars(Retry(j))
    /\ \A j \in MailJobs : WF_vars(SendMail(j) \/ MailFails(j))

----------------------------------------------------------------------------
(* Properties.                                                             *)

TypeOK ==
    /\ status \in [Jobs -> Statuses]
    /\ attempts \in [Jobs -> Nat]
    /\ stalls \in [Jobs -> Nat]
    /\ stage \in [Calls \cup Jobs -> Stages]
    /\ sent \in [Calls -> Nat]
    /\ pool \subseteq Calls \X Nat
    /\ chain \in [Keys -> Calls \cup {NoCall}]
    /\ result \in [Calls -> Results]
    /\ mailed \in [MailJobs -> Nat]
    /\ retrying \subseteq Jobs
    /\ events \in 0..MaxEvents

\* A call that answers with a receipt has itself written its key, so no two
\* calls for one badge or match both do; one that answers "already there" is
\* right (web3.provider.ts:219, 294, 300).  Repeated, crashed and late
\* transactions of other calls do not change that.
ReceiptsAreTrue ==
    \A c \in Calls :
        /\ result[c] = "receipt" => chain[key[c]] = c
        /\ result[c] = "owned" => Written(key[c])

\* A mail goes out once for its job, and once more only for an attempt that
\* was counted as failed or for a process that was lost while sending; and a
\* retry of the administrator buys a job one attempt, not three.  So lost
\* answers, crashes and manual retries bound how often one code is delivered
\* (email.processor.ts:39, queue.service.ts:152).
MailsAreCounted ==
    \A j \in MailJobs :
        /\ mailed[j] <= attempts[j] + stalls[j]
                        + (IF status[j] \in {"completed", "removed"} THEN 1 ELSE 0)
        /\ attempts[j] <= MaxAttempts + events

\* A queued job is completed, failed or cleared away.
Settles(j) == status[j] = "waiting" ~> status[j] \in {"completed", "failed", "removed"}

\* No call waits for the chain for ever.
CallsEnd == \A c \in ChainJobs : []<>(stage[c] = "idle")

\* Every mail settles, whatever the chain does.  A job of the chain does if
\* calls to the chain end: no job is forgotten by its worker, by a crash or
\* behind the matches, of which there are finitely many.
JobsSettle ==
    /\ \A j \in MailJobs : Settles(j)
    /\ CallsEnd => \A j \in ChainJobs : Settles(j)
=============================================================================
