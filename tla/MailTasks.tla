------------------------------ MODULE MailTasks ------------------------------
(***************************************************************************)
(* Verification and reset mails (tasks/email.py, services/email.py) on the *)
(* Celery queue as core/celery_app.py sets it up: a message is             *)
(* acknowledged after its task, and a failed task is put on the queue      *)
(* again, up to max_retries times.                                         *)
(*                                                                         *)
(* Celery, Redis and SMTP are not under src/: they are modelled by what    *)
(* they do under these settings.  All others have their defaults, so       *)
(* task_reject_on_worker_lost is off: the message of a pool process that   *)
(* is killed is acknowledged by its parent.  When the whole worker dies,   *)
(* its messages go back to the queue.                                      *)
(***************************************************************************)
EXTENDS Naturals, FiniteSets

CONSTANTS
  Mail,
  Process,      \* pool processes of the workers
  max_retries,
  MaxDeaths     \* bound: processes and workers that die

ASSUME BoundsAssumption ==
  max_retries \in Nat /\ MaxDeaths \in Nat /\ IsFiniteSet(Process)

VARIABLES
  asked,        \* mails for which .delay() was called
  queue,        \* messages waiting for each mail, by their number of retries
  run,          \* what each process is doing
  deaths,
  (* history *)
  sent,         \* how often SMTP took a mail
  failed,       \* how many attempts raised
  doubts,       \* how often a mail was handled again, or may have been, though
                \* it had been dealt with
  gaveUp,       \* mails whose last retry failed
  killed        \* mails whose message was lost with a process or a retry

history == <<sent, failed, doubts, gaveUp, killed>>
mailVars == <<asked, queue, run, deaths, history>>

Retries == 0..max_retries

Idle == [pc |-> "idle"]

Running == [pc : {"send", "retry", "ack"}, mail : Mail, retries : Retries]

OneMore(f, m) == [f EXCEPT ![m] = @ + 1]

\* .delay() in register_user and forgot_password
Delay(m) ==
  /\ m \notin asked
  /\ asked' = asked \cup {m}
  /\ queue' = [queue EXCEPT ![m][0] = @ + 1]
  /\ UNCHANGED <<run, deaths, history>>

Take(p, m, k) ==
  /\ run[p] = Idle /\ queue[m][k] > 0
  /\ queue' = [queue EXCEPT ![m][k] = @ - 1]
  /\ run' = [run EXCEPT ![p] = [pc |-> "send", mail |-> m, retries |-> k]]
  /\ UNCHANGED <<asked, deaths, history>>

-----------------------------------------------------------------------------
(* send_verification_email_task, send_password_reset_email_task *)

SendOk(p) ==
  /\ run[p].pc = "send"
  /\ sent' = OneMore(sent, run[p].mail)
  /\ run' = [run EXCEPT ![p].pc = "ack"]
  /\ UNCHANGED <<asked, queue, deaths, failed, doubts, gaveUp, killed>>

\* send_email raises: no credentials, no connection, or an error after the
\* server has taken the mail.
SendRaises(p) ==
  LET m == run[p].mail IN
  /\ run[p].pc = "send"
  /\ \/ UNCHANGED <<sent, doubts>>
     \/ sent' = OneMore(sent, m) /\ doubts' = OneMore(doubts, m)
  /\ failed' = OneMore(failed, m)
  /\ run' = [run EXCEPT ![p].pc = "retry"]
  /\ UNCHANGED <<asked, queue, deaths, gaveUp, killed>>

\* Mutated form: the first failure is final.
Retry_GiveUp(p) ==
  /\ run[p].pc = "retry"
  /\ gaveUp' = gaveUp \cup {run[p].mail}
  /\ run' = [run EXCEPT ![p].pc = "ack"]
  /\ UNCHANGED <<asked, queue, deaths, sent, failed, doubts, killed>>

\* Mutated form: the old message is put back beside the new one.
Retry_Requeue(p) ==
  LET k == run[p].retries IN
  /\ run[p].pc = "retry" /\ k < max_retries
  /\ queue' = [queue EXCEPT ![run[p].mail][k] = @ + 1, ![run[p].mail][k + 1] = @ + 1]
  /\ run' = [run EXCEPT ![p] = Idle]
  /\ UNCHANGED <<asked, deaths, history>>

\* self.retry: a new message, or the exception once there were enough.
Retry(p) ==
  LET m == run[p].mail
      k == run[p].retries IN
  /\ run[p].pc = "retry"
  /\ IF k < max_retries
     THEN queue' = [queue EXCEPT ![m][k + 1] = @ + 1] /\ UNCHANGED gaveUp
     ELSE gaveUp' = gaveUp \cup {m} /\ UNCHANGED queue
  /\ run' = [run EXCEPT ![p].pc = "ack"]
  /\ UNCHANGED <<asked, deaths, sent, failed, doubts, killed>>

\* The new message cannot be published; the old one is rejected and gone.
RetryRejected(p) ==
  /\ run[p].pc = "retry" /\ run[p].retries < max_retries
  /\ killed' = killed \cup {run[p].mail}
  /\ run' = [run EXCEPT ![p] = Idle]
  /\ UNCHANGED <<asked, queue, deaths, sent, failed, doubts, gaveUp>>

Ack(p) ==
  /\ run[p].pc = "ack"
  /\ run' = [run EXCEPT ![p] = Idle]
  /\ UNCHANGED <<asked, queue, deaths, history>>

-----------------------------------------------------------------------------
(* task_acks_late *)

\* Mutated form: messages are acknowledged when they are taken.
WorkerDies_EarlyAck(p) ==
  /\ run[p] # Idle /\ deaths < MaxDeaths
  /\ deaths' = deaths + 1
  /\ run' = [run EXCEPT ![p] = Idle]
  /\ UNCHANGED <<asked, queue, history>>

\* The worker p belongs to dies; each worker has one process here.
WorkerDies(p) ==
  LET m == run[p].mail IN
  /\ run[p] # Idle /\ deaths < MaxDeaths
  /\ deaths' = deaths + 1
  /\ queue' = [queue EXCEPT ![m][run[p].retries] = @ + 1]
  /\ doubts' = IF run[p].pc = "ack" THEN OneMore(doubts, m) ELSE doubts
  /\ run' = [run EXCEPT ![p] = Idle]
  /\ UNCHANGED <<asked, sent, failed, gaveUp, killed>>

ProcessDies(p) ==
  /\ run[p] # Idle /\ deaths < MaxDeaths
  /\ deaths' = deaths + 1
  /\ killed' = IF run[p].pc = "ack" THEN killed ELSE killed \cup {run[p].mail}
  /\ run' = [run EXCEPT ![p] = Idle]
  /\ UNCHANGED <<asked, queue, sent, failed, doubts, gaveUp>>

-----------------------------------------------------------------------------

MailInit ==
  /\ asked = {} /\ deaths = 0
  /\ queue = [m \in Mail |-> [k \in Retries |-> 0]]
  /\ run = [p \in Process |-> Idle]
  /\ sent = [m \in Mail |-> 0] /\ failed = [m \in Mail |-> 0]
  /\ doubts = [m \in Mail |-> 0] /\ gaveUp = {} /\ killed = {}

TakeSome(p) == \E m \in Mail, k \in Retries : Take(p, m, k)

Attempt(p) == SendOk(p) \/ SendRaises(p) \/ Retry(p) \/ RetryRejected(p) \/ Ack(p)

MailNext ==
  \/ \E m \in Mail : Delay(m)
  \/ \E p \in Process : TakeSome(p) \/ Attempt(p) \/ WorkerDies(p) \/ ProcessDies(p)

MailSpec == MailInit /\ [][MailNext]_mailVars

\* Workers are restarted (restart: unless-stopped), take what is there, and go
\* on with what they have.
MailFairSpec == MailSpec /\ \A p \in Process : WF_mailVars(TakeSome(p)) /\ WF_mailVars(Attempt(p))

-----------------------------------------------------------------------------
(* Properties *)

MailTypeOK ==
  /\ asked \in SUBSET Mail /\ deaths \in 0..MaxDeaths
  /\ queue \in [Mail -> [Retries -> Nat]]
  /\ run \in [Process -> Running \cup {Idle}]
  /\ sent \in [Mail -> Nat] /\ failed \in [Mail -> Nat] /\ doubts \in [Mail -> Nat]
  /\ gaveUp \in SUBSET Mail /\ killed \in SUBSET Mail

\* Re-execution is "possible", comments celery_app: a mail goes out once, and
\* once more only for an error SMTP raised after taking it or for a worker
\* that died before its acknowledgement.
ExtraMailsExplained == \A m \in Mail : sent[m] <= 1 + doubts[m]

\* README, Email queue: a task "retries up to 3 times": a mail is given up only
\* after that many attempts and the first, duplicates of its message included.
GivenUpAfterRetries == \A m \in gaveUp : failed[m] > max_retries

\* Every mail asked for is sent in the end, unless its last retry failed, or
\* its message went with a pool process or with a retry that could not be
\* published: a worker that dies as a whole loses none.  (celery_app: a mail
\* "must not silently vanish"; late acknowledgement alone does not cover a pool
\* process that is killed.)
SentInTheEnd == \A m \in Mail : m \in asked ~> (sent[m] > 0 \/ m \in gaveUp \/ m \in killed)
==============================================================================
