------------------------------ MODULE Lifecycle ------------------------------
(***************************************************************************)
(* The life of the server processes: configuration, connections,           *)
(* migrations, seed, serving, and the end by a signal, a fatal error or a  *)
(* crash.  Several instances share one database and one Redis.  Whether    *)
(* the container engine starts an instance again when its process ends is  *)
(* a matter of the compose file it was started from: that of production    *)
(* says so, that of development leaves it to the operator.                 *)
(*                                                                         *)
(* log.Fatal is os.Exit: no deferred call runs, open requests are cut and  *)
(* the goroutines that send mail are gone.                                 *)
(***************************************************************************)
EXTENDS Naturals, FiniteSets, Mail

CONSTANTS
    Instances,  \* processes, by number
    Reqs,       \* bound: requests under way at a time
    Configs,    \* configurations; all instances have the same
    Latest,     \* the last migration compiled into the binary
    Attempts,   \* pings of Redis before giving up (5)
    Grace,      \* ticks Shutdown waits (5 s)
    Longest,    \* bound: a request's age is counted so far
    MaxFaults   \* bound: outages, signals, crashes and failed calls of a behaviour

ASSUME InstancesAssumption == Instances \subseteq Nat /\ Nobody \notin Instances
ASSUME BoundsAssumption ==
    /\ Latest \in Nat /\ Attempts \in Nat \ {0} /\ MaxFaults \in Nat
    /\ Grace \in Nat /\ Longest \in Nat /\ Grace <= Longest

VARIABLES
    conf,      \* the environment variables, and whether the engine restarts
    postgres,  \* PostgreSQL is reachable
    redis,     \* Redis is reachable
    schema,    \* schema_migrations: version and dirty flag
    lock,      \* the advisory lock of the migrations: its holder
    admins,    \* rows with the seed's e-mail address
    proc,      \* per instance: its step, pings so far, ticks since the signal
    wanted,    \* instances the operator has started and not stopped
    open,      \* requests under way: their instance and age
    faults,    \* faults still to come
    torn,      \* history: a migration was cut short
    cut        \* history: the ages of requests cut by a forced shutdown

lifeVars == <<conf, postgres, redis, schema, lock, admins, proc, wanted, open, faults, torn, cut>>
allVars == <<lifeVars, mail>>

Phase == {"off", "validate", "postgres", "lock", "migrate", "run", "seed", "insert", "redis",
          "mailer", "listen", "serving", "draining"}

Secret == {"insecure", "short", "strong"}

Config == [prod : BOOLEAN, secret : Secret, seed : BOOLEAN, creds : BOOLEAN,
           provider : Provider \cup {"other"}, key : BOOLEAN, tls : BOOLEAN, user : BOOLEAN,
           restarts : BOOLEAN]

ASSUME ConfigsAssumption == Configs \subseteq Config

\* Mutation: every secret will do.
ValidateAnything(c) == TRUE

\* config.Validate: in production the secret is none of the known ones, and long.
Validate(c) == c.prod => c.secret = "strong"

\* email.New
KnownProvider(c) == c.provider \in Provider /\ (c.provider = "resend" => c.key)

\* Seed is for development only, and needs the administrator's e-mail and password.
Seeds(c) == c.seed /\ ~c.prod

Usable(c) == Validate(c) /\ KnownProvider(c) /\ (Seeds(c) => c.creds)

At(i, phase) == proc[i].at = phase

Start == [at |-> "off", pings |-> 0, waited |-> 0]

NoRequest == [on |-> Nobody, age |-> 0]

OpenOn(i) == {r \in Reqs : open[r].on = i}

Init ==
    /\ conf \in Configs
    /\ postgres = TRUE
    /\ redis = TRUE
    /\ schema = [version |-> 0, dirty |-> FALSE]
    /\ lock = Nobody
    /\ admins = 0
    /\ proc = [i \in Instances |-> Start]
    /\ wanted = [i \in Instances |-> FALSE]
    /\ open = [r \in Reqs |-> NoRequest]
    /\ faults = MaxFaults
    /\ torn = FALSE
    /\ cut = {}
    /\ MailInit

-----------------------------------------------------------------------------
(* Steps processes are made of.                                            *)

Goto(i, from, to) == At(i, from) /\ proc' = [proc EXCEPT ![i].at = to]

\* The process ends: its connections close, which frees the lock.
End(i) ==
    /\ proc' = [proc EXCEPT ![i] = Start]
    /\ lock' = IF lock = i THEN Nobody ELSE lock
    /\ open' = [r \in Reqs |-> IF open[r].on = i THEN NoRequest ELSE open[r]]
    /\ torn' = (torn \/ At(i, "run"))
    /\ LoseMails(i)

Fault == faults > 0 /\ faults' = faults - 1

\* log.Fatal, or the return of main.
Fatal(i) ==
    /\ End(i)
    /\ UNCHANGED <<conf, postgres, redis, schema, admins, wanted, cut>>

\* A call fails although its server is up.
Fails(i) == Fatal(i) /\ Fault

-----------------------------------------------------------------------------
(* main: start.                                                            *)

\* The operator starts the instance, for the first time or once more.
OperatorStart(i) ==
    /\ Goto(i, "off", "validate")
    /\ wanted' = [wanted EXCEPT ![i] = TRUE]
    /\ UNCHANGED <<conf, postgres, redis, schema, lock, admins, open, faults, torn, cut, mail>>

\* The container engine starts it, unless the operator has stopped it.
Restart(i) ==
    /\ conf.restarts
    /\ wanted[i]
    /\ Goto(i, "off", "validate")
    /\ UNCHANGED <<conf, postgres, redis, schema, lock, admins, wanted, open, faults, torn, cut, mail>>

\* Load reads the environment, with a default for what is not set.
LoadConfig(i) ==
    /\ At(i, "validate")
    /\ \/ /\ Validate(conf)
          /\ Goto(i, "validate", "postgres")
          /\ UNCHANGED <<conf, postgres, redis, schema, lock, admins, wanted, open, faults, torn, cut, mail>>
       \/ ~Validate(conf) /\ Fatal(i) /\ UNCHANGED faults

\* One attempt.
NewPostgres(i) ==
    /\ At(i, "postgres")
    /\ \/ /\ postgres
          /\ Goto(i, "postgres", "lock")
          /\ UNCHANGED <<conf, postgres, redis, schema, lock, admins, wanted, open, faults, torn, cut, mail>>
       \/ ~postgres /\ Fatal(i) /\ UNCHANGED faults
       \/ Fails(i)

\* Mutation: the migrations take no lock.
TakeLockNot(i) ==
    /\ postgres
    /\ Goto(i, "lock", "migrate")
    /\ lock' = i
    /\ UNCHANGED <<conf, postgres, redis, schema, admins, wanted, open, faults, torn, cut, mail>>

\* RunMigrations opens a connection of its own; m.Up takes the advisory lock.
TakeLock(i) ==
    /\ postgres
    /\ lock = Nobody
    /\ Goto(i, "lock", "migrate")
    /\ lock' = i
    /\ UNCHANGED <<conf, postgres, redis, schema, admins, wanted, open, faults, torn, cut, mail>>

\* Mutation: who does not get the lock takes the schema for migrated.
NoLockGoesOn(i) ==
    /\ lock # Nobody
    /\ Goto(i, "lock", "seed")
    /\ UNCHANGED <<conf, postgres, redis, schema, lock, admins, wanted, open, faults, torn, cut, mail>>

\* The lock is not had in time, or the database is gone.
NoLock(i) ==
    /\ At(i, "lock")
    /\ \/ (lock # Nobody \/ ~postgres) /\ Fatal(i) /\ UNCHANGED faults
       \/ Fails(i)

\* The next migration is marked as begun, by a version that is dirty, before it runs.
BeginMigration(i) ==
    /\ lock = i
    /\ ~schema.dirty
    /\ schema.version < Latest
    /\ Goto(i, "migrate", "run")
    /\ schema' = [version |-> schema.version + 1, dirty |-> TRUE]
    /\ UNCHANGED <<conf, postgres, redis, lock, admins, wanted, open, faults, torn, cut, mail>>

EndMigration(i) ==
    /\ lock = i
    /\ Goto(i, "run", "migrate")
    /\ schema' = [schema EXCEPT !.dirty = FALSE]
    /\ UNCHANGED <<conf, postgres, redis, lock, admins, wanted, open, faults, torn, cut, mail>>

\* ErrNoChange: the schema is up to date.
Migrated(i) ==
    /\ lock = i
    /\ ~schema.dirty
    /\ schema.version >= Latest
    /\ Goto(i, "migrate", "seed")
    /\ lock' = Nobody
    /\ UNCHANGED <<conf, postgres, redis, schema, admins, wanted, open, faults, torn, cut, mail>>

\* A dirty version is refused, for ever; a connection that broke took the lock with it.
RefuseDirty(i) == At(i, "migrate") /\ schema.dirty /\ Fatal(i) /\ UNCHANGED faults

MigrationFails(i) ==
    /\ proc[i].at \in {"migrate", "run"}
    /\ \/ lock # i /\ Fatal(i) /\ UNCHANGED faults
       \/ Fails(i)

\* Mutation: the administrator is not looked for.
SeedBlindly(i) ==
    /\ At(i, "seed")
    /\ \/ /\ ~Seeds(conf)
          /\ Goto(i, "seed", "redis")
          /\ UNCHANGED <<conf, postgres, redis, schema, lock, admins, wanted, open, faults, torn, cut, mail>>
       \/ Seeds(conf) /\ ~conf.creds /\ Fatal(i) /\ UNCHANGED faults
       \/ /\ Seeds(conf) /\ conf.creds
          /\ Goto(i, "seed", "insert")
          /\ UNCHANGED <<conf, postgres, redis, schema, lock, admins, wanted, open, faults, torn, cut, mail>>

\* The error of the count is not looked at: a count that fails is zero.
Seed(i) ==
    /\ At(i, "seed")
    /\ \/ /\ ~Seeds(conf) \/ (conf.creds /\ postgres /\ admins > 0)
          /\ Goto(i, "seed", "redis")
          /\ UNCHANGED <<conf, postgres, redis, schema, lock, admins, wanted, open, faults, torn, cut, mail>>
       \/ Seeds(conf) /\ ~conf.creds /\ Fatal(i) /\ UNCHANGED faults
       \/ /\ Seeds(conf) /\ conf.creds
          /\ Goto(i, "seed", "insert")
          /\ \/ (admins = 0 \/ ~postgres) /\ UNCHANGED faults
             \/ Fault
          /\ UNCHANGED <<conf, postgres, redis, schema, lock, admins, wanted, open, torn, cut, mail>>

\* INSERT: the unique index refuses a second administrator.
SeedInsert(i) ==
    /\ At(i, "insert")
    /\ \/ /\ postgres /\ admins = 0
          /\ admins' = 1
          /\ \/ Goto(i, "insert", "redis") /\ UNCHANGED <<lock, open, torn, faults, mail>>
             \/ End(i) /\ Fault                                      \* the reply is lost
          /\ UNCHANGED <<conf, postgres, redis, schema, wanted, cut>>
       \/ (~postgres \/ admins > 0) /\ Fatal(i) /\ UNCHANGED faults
       \/ Fails(i)

\* Mutation: one attempt too many.
RetriesOnceMore(i) == proc[i].pings + 1 <= Attempts

Retries(i) == proc[i].pings + 1 < Attempts

\* Pings two seconds apart; the last failure is fatal.
NewRedis(i) ==
    /\ At(i, "redis")
    /\ \/ /\ redis
          /\ proc' = [proc EXCEPT ![i] = [Start EXCEPT !.at = "mailer"]]
          /\ UNCHANGED <<conf, postgres, redis, schema, lock, admins, wanted, open, faults, torn, cut, mail>>
       \/ /\ Retries(i)
          /\ proc' = [proc EXCEPT ![i].pings = @ + 1]
          /\ \/ ~redis /\ UNCHANGED faults
             \/ Fault
          /\ UNCHANGED <<conf, postgres, redis, schema, lock, admins, wanted, open, torn, cut, mail>>
       \/ ~Retries(i) /\ ~redis /\ Fatal(i) /\ UNCHANGED faults
       \/ ~Retries(i) /\ Fails(i)

NewMailer(i) ==
    /\ At(i, "mailer")
    /\ \/ /\ KnownProvider(conf)
          /\ Goto(i, "mailer", "listen")
          /\ UNCHANGED <<conf, postgres, redis, schema, lock, admins, wanted, open, faults, torn, cut, mail>>
       \/ ~KnownProvider(conf) /\ Fatal(i) /\ UNCHANGED faults

\* ListenAndServe runs in a goroutine; only then are the signals caught.
Notify(i) ==
    /\ Goto(i, "listen", "serving")
    /\ UNCHANGED <<conf, postgres, redis, schema, lock, admins, wanted, open, faults, torn, cut, mail>>

\* The port is taken.
ListenFails(i) == At(i, "listen") /\ Fails(i)

-----------------------------------------------------------------------------
(* main: the end.                                                          *)

\* SIGTERM or SIGINT, from the operator, who does not want the process back, or from
\* elsewhere.  Before Notify the signal's default action ends the process.
Signal(i) ==
    /\ Fault
    /\ \E back \in BOOLEAN : wanted' = [wanted EXCEPT ![i] = back]
    /\ \/ /\ proc' = [proc EXCEPT ![i] = [Start EXCEPT !.at = "draining"]]
          /\ At(i, "serving")
          /\ UNCHANGED <<lock, open, torn, mail>>
       \/ proc[i].at \notin {"off", "serving", "draining"} /\ End(i)
    /\ UNCHANGED <<conf, postgres, redis, schema, admins, cut>>

\* Shutdown returns nil: no connection is active.
Drained(i) ==
    /\ At(i, "draining")
    /\ OpenOn(i) = {}
    /\ Fatal(i)
    /\ UNCHANGED faults

\* Mutation: Shutdown waits for the requests however long they take.
ForcedNever(i) == FALSE /\ UNCHANGED allVars

\* Shutdown's context expires.
Forced(i) ==
    /\ At(i, "draining")
    /\ proc[i].waited >= Grace
    /\ OpenOn(i) # {}
    /\ End(i)
    /\ cut' = cut \cup {open[r].age : r \in OpenOn(i)}
    /\ UNCHANGED <<conf, postgres, redis, schema, admins, wanted, faults>>

\* A crash: SIGKILL, no memory, an unrecovered panic in the mail goroutine.
Kill(i) == ~At(i, "off") /\ Fails(i)

-----------------------------------------------------------------------------
(* Requests, mail, time and the stores.                                    *)

\* Mutation: the listener stays open during the shutdown.
AcceptAlways(r, i) ==
    /\ proc[i].at \in {"listen", "serving", "draining"}
    /\ open[r] = NoRequest
    /\ open' = [open EXCEPT ![r] = [on |-> i, age |-> 0]]
    /\ UNCHANGED <<conf, postgres, redis, schema, lock, admins, proc, wanted, faults, torn, cut, mail>>

\* Shutdown closes the listener at once.
Accept(r, i) ==
    /\ proc[i].at \in {"listen", "serving"}
    /\ open[r] = NoRequest
    /\ open' = [open EXCEPT ![r] = [on |-> i, age |-> 0]]
    /\ UNCHANGED <<conf, postgres, redis, schema, lock, admins, proc, wanted, faults, torn, cut, mail>>

\* Register and ForgotPassword start the sender; the latter gives it no address.
Post(r, m) ==
    /\ open[r] # NoRequest
    /\ \E to \in Address : StartMail(m, open[r].on, conf.provider, to)
    /\ UNCHANGED lifeVars

Respond(r) ==
    /\ open[r] # NoRequest
    /\ open' = [open EXCEPT ![r] = NoRequest]
    /\ UNCHANGED <<conf, postgres, redis, schema, lock, admins, proc, wanted, faults, torn, cut, mail>>

Deliver(m) == SendStep(m, conf.tls, conf.user) /\ UNCHANGED lifeVars

Older(n) == IF n < Longest THEN n + 1 ELSE n

\* Time: for the requests, and for Shutdown's context.
Tick ==
    /\ \A i \in Instances : At(i, "draining") => proc[i].waited < Grace
    /\ \/ \E i \in Instances : At(i, "draining")
       \/ \E r \in Reqs : open[r] # NoRequest /\ open[r].age < Longest
    /\ proc' = [i \in Instances |->
                  IF At(i, "draining") THEN [proc[i] EXCEPT !.waited = @ + 1] ELSE proc[i]]
    /\ open' = [r \in Reqs |->
                  IF open[r] = NoRequest THEN NoRequest ELSE [open[r] EXCEPT !.age = Older(@)]]
    /\ UNCHANGED <<conf, postgres, redis, schema, lock, admins, wanted, faults, torn, cut, mail>>

\* PostgreSQL goes down, and with it every session and its lock.
PostgresDown ==
    /\ postgres /\ Fault
    /\ postgres' = FALSE
    /\ lock' = Nobody
    /\ torn' = (torn \/ \E i \in Instances : At(i, "run"))
    /\ UNCHANGED <<conf, redis, schema, admins, proc, wanted, open, cut, mail>>

PostgresBack ==
    /\ ~postgres
    /\ postgres' = TRUE
    /\ UNCHANGED <<conf, redis, schema, lock, admins, proc, wanted, open, faults, torn, cut, mail>>

RedisDown ==
    /\ redis /\ Fault
    /\ redis' = FALSE
    /\ UNCHANGED <<conf, postgres, schema, lock, admins, proc, wanted, open, torn, cut, mail>>

RedisBack ==
    /\ ~redis
    /\ redis' = TRUE
    /\ UNCHANGED <<conf, postgres, schema, lock, admins, proc, wanted, open, faults, torn, cut, mail>>

-----------------------------------------------------------------------------

\* The main goroutine takes its next step.
Main(i) ==
    \/ LoadConfig(i) \/ NewPostgres(i) \/ TakeLock(i) \/ NoLock(i)
    \/ BeginMigration(i) \/ EndMigration(i) \/ Migrated(i) \/ RefuseDirty(i) \/ MigrationFails(i)
    \/ Seed(i) \/ SeedInsert(i) \/ NewRedis(i) \/ NewMailer(i) \/ Notify(i)
    \/ Drained(i) \/ Forced(i)

Next ==
    \/ \E i \in Instances : Main(i) \/ Restart(i) \/ ListenFails(i) \/ Signal(i) \/ Kill(i)
                              \/ OperatorStart(i)
    \/ \E r \in Reqs, i \in Instances : Accept(r, i)
    \/ \E r \in Reqs, m \in Mails : Post(r, m)
    \/ \E r \in Reqs : Respond(r)
    \/ \E m \in Mails : Deliver(m)
    \/ Tick
    \/ PostgresDown \/ PostgresBack \/ RedisDown \/ RedisBack

Spec == Init /\ [][Next]_allVars

\* The goroutines run, time passes, outages end, and the container engine starts what
\* ended where the compose file says so.  Nothing makes a request or a mail end, and
\* nothing makes the operator start anything.
FairSpec ==
    /\ Spec
    /\ \A i \in Instances : WF_allVars(Main(i)) /\ WF_allVars(Restart(i))
    /\ WF_allVars(Tick) /\ WF_allVars(PostgresBack) /\ WF_allVars(RedisBack)

-----------------------------------------------------------------------------

TypeOK ==
    /\ conf \in Configs
    /\ postgres \in BOOLEAN /\ redis \in BOOLEAN /\ torn \in BOOLEAN
    /\ schema \in [version : 0 .. Latest, dirty : BOOLEAN]
    /\ lock \in Instances \cup {Nobody}
    /\ admins \in {0, 1}
    /\ proc \in [Instances -> [at : Phase, pings : 0 .. Attempts - 1, waited : 0 .. Grace]]
    /\ wanted \in [Instances -> BOOLEAN]
    /\ open \in [Reqs -> [on : Instances \cup {Nobody}, age : 0 .. Longest]]
    /\ faults \in 0 .. MaxFaults
    /\ cut \subseteq 0 .. Longest
    /\ MailTypeOK

Up == {"listen", "serving", "draining"}

\* Every migration is done.
Complete == schema.version = Latest /\ ~schema.dirty

\* A process that takes requests runs on a valid configuration, on the newest schema,
\* complete, and with the administrator it was asked to create: whatever other instances
\* did at the same time, whatever failed, and whatever earlier lives of it left behind.
ServesReady ==
    \A i \in Instances :
        proc[i].at \in Up =>
            /\ conf.prod => conf.secret = "strong"
            /\ KnownProvider(conf)
            /\ Complete
            /\ Seeds(conf) => admins = 1

\* The schema is marked dirty while the holder of the lock is at work on it, and
\* otherwise only if a migration was cut short: instances that start together never
\* take each other's work for a failure, which no later start would get over.
DirtyNeedsAccident ==
    schema.dirty => torn \/ \E i \in Instances : At(i, "run") /\ lock = i

\* A forced shutdown cuts only requests that had the whole grace period.
CutWasLong == \A age \in cut : age >= Grace

\* What the sender reports is what happened to the message: it is accepted at most once;
\* when Send returns nil a server has accepted it, unless the provider is the one that
\* sends nothing; and a message without an address is never accepted.  (An error, or a
\* lost process, may hide an acceptance: nobody sends again.)
MailTruth ==
    \A m \in Mails :
        /\ mail[m].accepted <= 1
        /\ mail[m].at = "sent" /\ conf.provider \notin {"noop", "empty"} => mail[m].accepted = 1
        /\ mail[m].accepted = 1 => mail[m].to # "empty"

-----------------------------------------------------------------------------
(* The inductive invariant: what a start may rely on at each of its steps. *)

Secure(c) == c.prod => c.secret = "strong"

PhaseInv(i) ==
    /\ proc[i].at \notin {"off", "validate"} => Secure(conf)
    /\ proc[i].at \in {"seed", "insert", "redis", "mailer"} \cup Up => Complete
    /\ proc[i].at \in {"redis", "mailer"} \cup Up => (Seeds(conf) => admins = 1)
    /\ proc[i].at \in Up => KnownProvider(conf)
    /\ (At(i, "run") /\ lock = i) => schema.dirty

\* Requests are open on processes that serve or have had no longer to end than they.
OpenInv(r) ==
    open[r] # NoRequest =>
        /\ open[r].on \in Instances
        /\ proc[open[r].on].at \in Up
        /\ At(open[r].on, "draining") => proc[open[r].on].waited <= open[r].age

SenderInv(m) ==
    /\ mail[m].at \in {"none", "dial", "auth", "envelope", "dot", "post"} => mail[m].accepted = 0
    /\ mail[m].at = "quit" => mail[m].accepted = 1
    /\ mail[m].at = "dot" => mail[m].to # "empty"

LifeInv ==
    /\ TypeOK
    /\ \A i \in Instances : PhaseInv(i)
    /\ \A r \in Reqs : OpenInv(r)
    /\ \A m \in Mails : SenderInv(m)
    /\ DirtyNeedsAccident
    /\ CutWasLong
    /\ MailTruth

-----------------------------------------------------------------------------
(* Liveness.                                                               *)

\* However the instances' starts interleave and whatever fails a number of times, every
\* instance the operator wants ends up serving, if the engine restarts what ended, the
\* configuration is usable and no migration was ever cut short (that leaves a dirty
\* version only an operator clears).  Without restarts the loser of the seed's race, or
\* an instance whose Redis is late, stays down: nothing is promised then.
EventuallyServes ==
    Usable(conf) /\ conf.restarts =>
        \A i \in Instances : <>(torn \/ [](At(i, "serving") \/ ~wanted[i]))

\* A shutdown ends, also when a request or a mail hangs.
ShutdownEnds == \A i \in Instances : At(i, "draining") ~> ~At(i, "draining")
=============================================================================
