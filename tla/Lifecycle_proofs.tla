-------------------------- MODULE Lifecycle_proofs --------------------------
(***************************************************************************)
(* Proofs about the life of the servers: for any number of instances,      *)
(* requests, mails and migrations, any set of configurations, and any      *)
(* number of outages, signals and crashes.                                 *)
(***************************************************************************)
EXTENDS Lifecycle, TLAPS

USE InstancesAssumption, BoundsAssumption

LEMMA InitInv == Init => LifeInv
<1> SUFFICES ASSUME Init PROVE LifeInv
  OBVIOUS
<1>1. TypeOK
  <2>1. conf \in Configs /\ postgres \in BOOLEAN /\ redis \in BOOLEAN /\ torn \in BOOLEAN
    BY DEF Init
  <2>0. /\ schema \in [version : 0 .. Latest, dirty : BOOLEAN]
        /\ lock \in Instances \cup {Nobody}
        /\ admins \in {0, 1}
    BY DEF Init
  <2>2. proc \in [Instances -> [at : Phase, pings : 0 .. Attempts - 1, waited : 0 .. Grace]]
    BY DEF Init, Start, Phase
  <2>3. /\ wanted \in [Instances -> BOOLEAN]
        /\ open \in [Reqs -> [on : Instances \cup {Nobody}, age : 0 .. Longest]]
        /\ faults \in 0 .. MaxFaults
        /\ cut \subseteq 0 .. Longest
    BY DEF Init, NoRequest
  <2>4. MailTypeOK
    BY DEF Init, MailInit, MailTypeOK, NoMail, Step, Address
  <2>5. QED  BY <2>0, <2>1, <2>2, <2>3, <2>4 DEF TypeOK
<1>2. MailTruth /\ \A m \in Mails : SenderInv(m)
  BY DEF Init, MailInit, NoMail, MailTruth, SenderInv
<1>3. \A i \in Instances : PhaseInv(i)
  BY DEF Init, PhaseInv, Start, At, Up
<1>4. \A r \in Reqs : OpenInv(r)
  BY DEF Init, OpenInv
<1>5. DirtyNeedsAccident /\ CutWasLong
  BY DEF Init, DirtyNeedsAccident, CutWasLong
<1>6. QED
  BY <1>1, <1>2, <1>3, <1>4, <1>5 DEF LifeInv

-----------------------------------------------------------------------------
(* Mail.                                                                   *)

\* What is known of a mail, by itself.
MailSound(m) ==
    /\ SenderInv(m)
    /\ mail[m].accepted <= 1
    /\ mail[m].at = "sent" /\ conf.provider \notin {"noop", "empty"} => mail[m].accepted = 1
    /\ mail[m].accepted = 1 => mail[m].to # "empty"

MailInv == MailTypeOK /\ \A m \in Mails : MailSound(m)

LEMMA MailParts == MailInv <=> MailTypeOK /\ (\A m \in Mails : SenderInv(m)) /\ MailTruth
  BY DEF MailInv, MailSound, MailTruth

\* A step of one sender leaves the others alone.
LEMMA OneMail ==
    ASSUME MailInv, conf' = conf, NEW m \in Mails,
           NEW x \in [on : Nat \cup {Nobody}, at : Step, to : Address, accepted : Nat],
           mail' = [mail EXCEPT ![m] = x], MailSound(m)'
    PROVE  MailInv'
<1>1. MailTypeOK'
  BY DEF MailInv, MailTypeOK
<1>2. ASSUME NEW k \in Mails, k # m PROVE MailSound(k)'
  BY <1>2 DEF MailInv, MailTypeOK, MailSound, SenderInv
<1>3. QED  BY <1>1, <1>2 DEF MailInv

LEMMA TalkInv ==
    ASSUME MailInv, conf' = conf, NEW m \in Mails, NEW from \in Step, NEW next \in Step,
           Talk(m, from, next),
           /\ mail[m].accepted = 0 => next \notin {"quit", "sent"}
           /\ mail[m].accepted = 1 => next \in {"sent", "failed"}
           /\ next = "dot" => mail[m].to # "empty"
    PROVE  MailInv'
<1> DEFINE x == [mail[m] EXCEPT !.at = next]
<1>1. /\ x \in [on : Nat \cup {Nobody}, at : Step, to : Address, accepted : Nat]
      /\ mail' = [mail EXCEPT ![m] = x]
  BY DEF Talk, MailInv, MailTypeOK
<1>2. mail'[m].at = next /\ mail'[m].accepted = mail[m].accepted /\ mail'[m].to = mail[m].to
  BY <1>1 DEF MailInv, MailTypeOK
<1>3. mail[m].accepted \in {0, 1} /\ (mail[m].accepted = 1 => mail[m].to # "empty")
  BY DEF MailInv, MailTypeOK, MailSound
<1>4. MailSound(m)'
  BY <1>2, <1>3 DEF MailSound, SenderInv
<1>5. QED  BY <1>1, <1>4, OneMail

\* The server accepts the message, and Send goes on.
LEMMA AcceptedInv ==
    ASSUME MailInv, conf' = conf, NEW m \in Mails, NEW next \in {"sent", "failed", "quit"},
           mail[m].accepted = 0, mail[m].to # "empty",
           Taken(m, next)
    PROVE  MailInv'
<1> DEFINE x == [on |-> mail[m].on, at |-> next, to |-> mail[m].to, accepted |-> 1]
<1>1. /\ x \in [on : Nat \cup {Nobody}, at : Step, to : Address, accepted : Nat]
      /\ mail' = [mail EXCEPT ![m] = x]
  <2>1. mail[m] \in [on : Nat \cup {Nobody}, at : Step, to : Address, accepted : Nat]
    BY DEF MailInv, MailTypeOK
  <2>2. next \in Step
    BY DEF Step
  <2>3. QED  BY <2>1, <2>2 DEF Taken
<1>2. mail'[m].at = next /\ mail'[m].accepted = 1 /\ mail'[m].to # "empty"
  BY <1>1 DEF MailInv, MailTypeOK
<1>3. MailSound(m)'
  BY <1>2 DEF MailSound, SenderInv
<1>4. QED  BY <1>1, <1>3, OneMail

\* A step of a sender keeps what is known of the mails.
LEMMA DeliverInv ==
    ASSUME MailInv, conf' = conf, NEW m \in Mails, SendStep(m, conf.tls, conf.user)
    PROVE  MailInv'
<1>1. /\ mail[m].at \in {"none", "dial", "auth", "envelope", "dot", "post"} => mail[m].accepted = 0
      /\ mail[m].at = "quit" => mail[m].accepted = 1
      /\ mail[m].at = "dot" => mail[m].to # "empty"
      /\ mail[m].accepted \in {0, 1}
  BY DEF MailInv, MailSound, SenderInv, MailTypeOK
<1>2. CASE SmtpDial(m, conf.user) \/ SmtpAuth(m) \/ SmtpEnvelope(m)
  BY <1>1, <1>2, TalkInv DEF SmtpDial, SmtpAuth, SmtpEnvelope, Talk, Step
<1>3. CASE SmtpDot(m, conf.tls)
  <2>1. mail[m].at = "dot" /\ (Taken(m, "sent") \/ Taken(m, "quit") \/ Taken(m, "failed"))
    BY <1>3 DEF SmtpDot
  <2>2. mail[m].accepted = 0 /\ mail[m].to # "empty"
    BY <1>1, <2>1
  <2>3. ASSUME NEW next \in {"sent", "failed", "quit"}, Taken(m, next) PROVE MailInv'
    BY <2>2, <2>3, AcceptedInv
  <2>4. QED
    <3>1. CASE Taken(m, "sent")
      BY <2>3, <3>1
    <3>2. CASE Taken(m, "quit")
      BY <2>3, <3>2
    <3>3. CASE Taken(m, "failed")
      BY <2>3, <3>3
    <3>4. QED  BY <2>1, <3>1, <3>2, <3>3
<1>4. CASE SmtpQuit(m)
  <2>1. Talk(m, "quit", "sent") /\ mail[m].accepted = 1
    BY <1>1, <1>4 DEF SmtpQuit, Talk
  <2>2. "quit" \in Step /\ "sent" \in Step
    BY DEF Step
  <2>3. QED  BY <2>1, <2>2, TalkInv
<1>5. CASE ResendPost(m)
  BY <1>1, <1>5, AcceptedInv DEF ResendPost
<1>6. CASE MailFails(m)
  <2>1. mail[m].at \in Step /\ Talk(m, mail[m].at, "failed")
    BY <1>6 DEF MailFails, Talk, MailInv, MailTypeOK
  <2>2. QED  BY <1>1, <2>1, TalkInv DEF Step
<1>7. QED  BY <1>2, <1>3, <1>4, <1>5, <1>6 DEF SendStep

LEMMA LoseInv == ASSUME MailInv, conf' = conf, NEW i, LoseMails(i) PROVE MailInv'
<1>1. ASSUME NEW m \in Mails
      PROVE  /\ mail'[m] \in [on : Nat \cup {Nobody}, at : Step, to : Address, accepted : Nat]
             /\ mail'[m].at \in {mail[m].at, "lost"}
             /\ mail'[m].accepted = mail[m].accepted /\ mail'[m].to = mail[m].to
  <2>1. mail[m] \in [on : Nat \cup {Nobody}, at : Step, to : Address, accepted : Nat]
    BY DEF MailInv, MailTypeOK
  <2>2. mail'[m] \in {mail[m], [mail[m] EXCEPT !.at = "lost"]}
    BY DEF LoseMails
  <2>3. "lost" \in Step
    BY DEF Step
  <2>4. QED  BY <2>1, <2>2, <2>3
<1>2. MailTypeOK'
  BY <1>1 DEF MailTypeOK, LoseMails
<1>3. ASSUME NEW m \in Mails PROVE MailSound(m)'
  BY <1>1 DEF MailInv, MailSound, SenderInv
<1>4. QED  BY <1>2, <1>3 DEF MailInv

LEMMA PostInv ==
    ASSUME LifeInv, NEW r \in Reqs, NEW m \in Mails, Post(r, m)
    PROVE  MailInv'
<1>1. open[r].on \in Instances /\ KnownProvider(conf) /\ conf' = conf
  BY DEF Post, LifeInv, OpenInv, PhaseInv, lifeVars
<1>2. PICK to \in Address : StartMail(m, open[r].on, conf.provider, to)
  BY DEF Post
<1>3. FirstStep(conf.provider) \in Step
         /\ (FirstStep(conf.provider) = "sent" => conf.provider \in {"noop", "empty"})
         /\ FirstStep(conf.provider) \notin {"quit", "dot"}
  BY <1>1 DEF FirstStep, Step, KnownProvider, Provider
<1>4. MailInv
  BY MailParts DEF LifeInv, TypeOK
<1>5. QED
  <2> DEFINE x == [on |-> open[r].on, at |-> FirstStep(conf.provider),
                   to |-> to, accepted |-> 0]
  <2>1. /\ x \in [on : Nat \cup {Nobody}, at : Step, to : Address, accepted : Nat]
        /\ mail' = [mail EXCEPT ![m] = x]
    BY <1>1, <1>2, <1>3 DEF StartMail
  <2>2. mail'[m].at = FirstStep(conf.provider) /\ mail'[m].accepted = 0
    BY <1>4, <2>1 DEF MailInv, MailTypeOK
  <2>3. MailSound(m)'
    BY <1>1, <1>3, <2>2 DEF MailSound, SenderInv
  <2>4. QED  BY <1>1, <1>4, <2>1, <2>3, OneMail

-----------------------------------------------------------------------------
(* The end of a process.                                                   *)

\* Whatever ends a process, the others find what they rely on.
LEMMA EndInv ==
    ASSUME LifeInv, NEW i \in Instances, End(i),
           UNCHANGED <<conf, schema>>, admins' \in {admins, 1},
           postgres' \in BOOLEAN, redis' \in BOOLEAN, wanted' \in [Instances -> BOOLEAN],
           faults' \in 0 .. MaxFaults, cut' \subseteq 0 .. Longest, CutWasLong'
    PROVE  LifeInv'
<1>1. MailInv'
  BY LoseInv, MailParts DEF LifeInv, TypeOK, End
<1>2. TypeOK'
  <2>1. proc' \in [Instances -> [at : Phase, pings : 0 .. Attempts - 1, waited : 0 .. Grace]]
    BY DEF LifeInv, TypeOK, End, Start, Phase
  <2>2. open' \in [Reqs -> [on : Instances \cup {Nobody}, age : 0 .. Longest]]
    BY DEF LifeInv, TypeOK, End, NoRequest
  <2>3. lock' \in Instances \cup {Nobody} /\ torn' \in BOOLEAN
    BY DEF LifeInv, TypeOK, End
  <2>4. QED  BY <1>1, <2>1, <2>2, <2>3 DEF LifeInv, TypeOK, MailInv
<1>3. \A k \in Instances : k # i => proc'[k] = proc[k]
  BY DEF LifeInv, TypeOK, End
<1>4. At(i, "off")'
  BY DEF LifeInv, TypeOK, End, At, Start
<1>5. \A k \in Instances : PhaseInv(k)'
  <2>1. ASSUME NEW k \in Instances, k # i PROVE PhaseInv(k)'
    BY <1>3, <2>1 DEF LifeInv, PhaseInv, At, End, Complete
  <2>2. PhaseInv(i)'
    BY <1>4 DEF PhaseInv, At, Up
  <2>3. QED  BY <2>1, <2>2
<1>6. \A r \in Reqs : OpenInv(r)'
  BY <1>3 DEF LifeInv, TypeOK, OpenInv, At, End, NoRequest
<1>7. DirtyNeedsAccident'
  <2>1. CASE At(i, "run")
    BY <2>1 DEF End, DirtyNeedsAccident
  <2>2. CASE ~At(i, "run")
    BY <1>3, <2>2 DEF LifeInv, DirtyNeedsAccident, End, At
  <2>3. QED  BY <2>1, <2>2
<1>8. MailTruth' /\ \A m \in Mails : SenderInv(m)'
  BY <1>1 DEF MailInv, MailSound, MailTruth
<1>9. QED  BY <1>2, <1>5, <1>6, <1>7, <1>8 DEF LifeInv

LEMMA FatalInv ==
    ASSUME LifeInv, NEW i \in Instances, Fatal(i), faults' = faults \/ Fault
    PROVE  LifeInv'
<1>1. faults' \in 0 .. MaxFaults
  BY DEF LifeInv, TypeOK, Fault
<1>2. CutWasLong' /\ cut' \subseteq 0 .. Longest
  BY DEF LifeInv, TypeOK, Fatal, CutWasLong
<1>3. QED  BY <1>1, <1>2, EndInv DEF Fatal, LifeInv, TypeOK

-----------------------------------------------------------------------------
(* The start.                                                              *)

\* Of a step to the next phase only what that phase relies on is to be shown.
LEMMA AdvanceInv ==
    ASSUME LifeInv, NEW i \in Instances, NEW p \in [at : Phase, pings : 0 .. Attempts - 1, waited : 0 .. Grace],
           proc' = [proc EXCEPT ![i] = p], p.at # "draining",
           p.at \notin Up => proc[i].at \notin Up,
           UNCHANGED <<conf, postgres, redis, wanted, open, torn, cut, mail>>,
           faults' = faults \/ Fault,
           schema' \in [version : 0 .. Latest, dirty : BOOLEAN],
           lock' \in Instances \cup {Nobody}, admins' \in {admins, 1},
           \A k \in Instances \ {i} : PhaseInv(k) => PhaseInv(k)',
           PhaseInv(i)', DirtyNeedsAccident'
    PROVE  LifeInv'
<1>1. TypeOK'
  <2>1. faults' \in 0 .. MaxFaults
    BY DEF LifeInv, TypeOK, Fault
  <2>2. QED  BY <2>1 DEF LifeInv, TypeOK, MailTypeOK
<1>2. \A r \in Reqs : OpenInv(r)'
  BY DEF LifeInv, TypeOK, OpenInv, At, Up
<1>3. \A k \in Instances : PhaseInv(k)'
  BY DEF LifeInv
<1>4. \A m \in Mails : SenderInv(m)'
  BY DEF LifeInv, SenderInv
<1>5. MailTruth' /\ CutWasLong'
  BY DEF LifeInv, MailTruth, CutWasLong
<1>6. QED  BY <1>1, <1>2, <1>3, <1>4, <1>5 DEF LifeInv
\* A step from one phase to the next that writes no table: the others notice at most
\* that the lock is taken or free.
LEMMA GotoInv ==
    ASSUME LifeInv, NEW i \in Instances, NEW from \in Phase, NEW to \in Phase,
           Goto(i, from, to), from # "run", to \notin {"run", "draining"}, from \in Up => to \in Up,
           UNCHANGED <<conf, postgres, redis, schema, admins, wanted, open, torn, cut, mail>>,
           faults' = faults \/ Fault,
           lock' = lock \/ (lock \in {i, Nobody} /\ lock' \in {i, Nobody}),
           PhaseInv(i)'
    PROVE  LifeInv'
<1> DEFINE p == [proc[i] EXCEPT !.at = to]
<1>1. /\ p \in [at : Phase, pings : 0 .. Attempts - 1, waited : 0 .. Grace]
      /\ proc' = [proc EXCEPT ![i] = p]
      /\ p.at = to
      /\ proc[i].at = from
  BY DEF Goto, At, LifeInv, TypeOK
<1>2. \A k \in Instances \ {i} : proc'[k] = proc[k] /\ (lock' = k <=> lock = k)
  BY <1>1 DEF LifeInv, TypeOK
<1>3. \A k \in Instances \ {i} : PhaseInv(k) => PhaseInv(k)'
  BY <1>2 DEF PhaseInv, At, Complete
<1>4. DirtyNeedsAccident'
  <2>1. CASE schema.dirty /\ ~torn
    <3>1. PICK k \in Instances : At(k, "run") /\ lock = k
      BY <2>1 DEF LifeInv, DirtyNeedsAccident
    <3>2. k # i
      BY <1>1, <3>1 DEF At
    <3>3. QED  BY <1>2, <3>1, <3>2 DEF DirtyNeedsAccident, At
  <2>2. QED  BY <2>1 DEF DirtyNeedsAccident
<1>5. schema' \in [version : 0 .. Latest, dirty : BOOLEAN] /\ lock' \in Instances \cup {Nobody}
        /\ admins' = admins
  BY DEF LifeInv, TypeOK
<1> HIDE DEF p
<1>6. QED  BY <1>1, <1>3, <1>4, <1>5, AdvanceInv

LEMMA ConnectInv ==
    ASSUME LifeInv, NEW i \in Instances, Restart(i) \/ LoadConfig(i) \/ NewPostgres(i)
    PROVE  LifeInv'
<1> USE DEF Phase, Up
<1>1. CASE Restart(i)
  <2>1. PhaseInv(i)'
    BY <1>1 DEF Restart, Goto, PhaseInv, At, LifeInv, TypeOK
  <2>2. QED  BY <1>1, <2>1, GotoInv DEF Restart
<1>2. CASE LoadConfig(i)
  <2>1. ASSUME Validate(conf), Goto(i, "validate", "postgres"),
               UNCHANGED <<conf, postgres, redis, schema, lock, admins, wanted, open, faults, torn, cut, mail>>
        PROVE  LifeInv'
    <3>1. PhaseInv(i)'
      BY <2>1 DEF Goto, PhaseInv, At, LifeInv, TypeOK, Validate, Secure
    <3>2. QED  BY <2>1, <3>1, GotoInv
  <2>2. QED  BY <1>2, <2>1, FatalInv DEF LoadConfig
<1>3. CASE NewPostgres(i)
  <2>1. ASSUME Goto(i, "postgres", "lock"),
               UNCHANGED <<conf, postgres, redis, schema, lock, admins, wanted, open, faults, torn, cut, mail>>
        PROVE  LifeInv'
    <3>1. PhaseInv(i)'
      BY <2>1 DEF Goto, PhaseInv, At, LifeInv, TypeOK, Secure
    <3>2. QED  BY <2>1, <3>1, GotoInv
  <2>2. QED  BY <1>3, <2>1, FatalInv DEF NewPostgres, Fails
<1>4. QED  BY <1>1, <1>2, <1>3

\* The operator's start touches no other instance.
LEMMA OperatorStartInv == ASSUME LifeInv, NEW i \in Instances, OperatorStart(i) PROVE LifeInv'
<1>1. /\ UNCHANGED <<conf, postgres, redis, schema, lock, admins, open, faults, torn, cut, mail>>
      /\ wanted' \in [Instances -> BOOLEAN]
      /\ At(i, "off") /\ proc' = [proc EXCEPT ![i].at = "validate"]
  BY DEF OperatorStart, Goto, LifeInv, TypeOK
<1>2. At(i, "validate")' /\ \A k \in Instances \ {i} : proc'[k] = proc[k]
  BY <1>1 DEF At, LifeInv, TypeOK
<1>3. TypeOK'
  <2>1. proc' \in [Instances -> [at : Phase, pings : 0 .. Attempts - 1, waited : 0 .. Grace]]
    BY <1>1 DEF LifeInv, TypeOK, Phase
  <2>2. QED  BY <1>1, <2>1 DEF LifeInv, TypeOK, MailTypeOK
<1>4. \A k \in Instances : PhaseInv(k)'
  <2>1. ASSUME NEW k \in Instances \ {i} PROVE PhaseInv(k)'
    BY <1>1, <1>2 DEF LifeInv, PhaseInv, At, Complete
  <2>2. PhaseInv(i)'
    BY <1>2 DEF PhaseInv, At, Up
  <2>3. QED  BY <2>1, <2>2
<1>5. \A r \in Reqs : OpenInv(r)'
  BY <1>1, <1>2 DEF LifeInv, OpenInv, At, Up
<1>6. DirtyNeedsAccident'
  BY <1>1, <1>2 DEF LifeInv, DirtyNeedsAccident, At
<1>7. QED
  BY <1>1, <1>3, <1>4, <1>5, <1>6 DEF LifeInv, SenderInv, CutWasLong, MailTruth

\* The migrations: one instance at a time is at work on the schema.
LEMMA MigrationInv ==
    ASSUME LifeInv, NEW i \in Instances,
           \/ TakeLock(i) \/ NoLock(i) \/ BeginMigration(i) \/ EndMigration(i)
           \/ Migrated(i) \/ RefuseDirty(i) \/ MigrationFails(i)
    PROVE  LifeInv'
<1> USE DEF Phase, Up
<1>1. CASE TakeLock(i)
  <2>1. PhaseInv(i)'
    BY <1>1 DEF TakeLock, Goto, PhaseInv, At, LifeInv, TypeOK, Secure
  <2>2. lock \in {i, Nobody} /\ lock' \in {i, Nobody}
    BY <1>1 DEF TakeLock
  <2>3. Goto(i, "lock", "migrate") /\ faults' = faults
         /\ UNCHANGED <<conf, postgres, redis, schema, admins, wanted, open, torn, cut, mail>>
    BY <1>1 DEF TakeLock
  <2>4. QED  BY <2>1, <2>2, <2>3, GotoInv
<1>2. CASE NoLock(i) \/ RefuseDirty(i) \/ MigrationFails(i)
  BY <1>2, FatalInv DEF NoLock, RefuseDirty, MigrationFails, Fails
<1>3. CASE BeginMigration(i)
  <2> DEFINE p == [proc[i] EXCEPT !.at = "run"]
  <2>1. /\ p \in [at : Phase, pings : 0 .. Attempts - 1, waited : 0 .. Grace]
        /\ proc' = [proc EXCEPT ![i] = p]
        /\ p.at = "run"
        /\ proc[i].at = "migrate"
    BY <1>3 DEF BeginMigration, Goto, At, LifeInv, TypeOK
  <2>2. /\ schema.version \in 0 .. Latest /\ schema.version < Latest
        /\ schema' = [version |-> schema.version + 1, dirty |-> TRUE]
        /\ lock = i /\ lock' = lock
    BY <1>3 DEF BeginMigration, LifeInv, TypeOK
  <2>3. /\ schema' \in [version : 0 .. Latest, dirty : BOOLEAN]
        /\ schema'.dirty
        /\ ~Complete
    BY <2>2 DEF Complete
  <2>4. \A k \in Instances \ {i} : PhaseInv(k) => PhaseInv(k)'
    BY <1>3, <2>1, <2>3 DEF BeginMigration, PhaseInv, At, LifeInv, TypeOK
  <2>5. PhaseInv(i)'
    BY <1>3, <2>1, <2>3 DEF BeginMigration, PhaseInv, At, LifeInv, TypeOK, Secure
  <2>6. DirtyNeedsAccident'
    BY <2>1, <2>2 DEF DirtyNeedsAccident, At, LifeInv, TypeOK
  <2> HIDE DEF p
  <2>7. QED
    BY <1>3, <2>1, <2>2, <2>3, <2>4, <2>5, <2>6, AdvanceInv DEF BeginMigration, LifeInv, TypeOK
<1>4. CASE EndMigration(i)
  <2> DEFINE p == [proc[i] EXCEPT !.at = "migrate"]
  <2>1. /\ p \in [at : Phase, pings : 0 .. Attempts - 1, waited : 0 .. Grace]
        /\ proc' = [proc EXCEPT ![i] = p]
        /\ p.at = "migrate"
        /\ proc[i].at = "run"
    BY <1>4 DEF EndMigration, Goto, At, LifeInv, TypeOK
  <2>2. /\ schema' \in [version : 0 .. Latest, dirty : BOOLEAN]
        /\ schema'.version = schema.version /\ ~schema'.dirty
        /\ lock = i /\ lock' = lock
    BY <1>4 DEF EndMigration, LifeInv, TypeOK
  <2>3. Complete => Complete'
    BY <1>4 DEF EndMigration, LifeInv, TypeOK, Complete
  <2>4. \A k \in Instances \ {i} : PhaseInv(k) => PhaseInv(k)'
    BY <1>4, <2>1, <2>2, <2>3 DEF EndMigration, PhaseInv, At, LifeInv, TypeOK
  <2>5. PhaseInv(i)'
    BY <1>4, <2>1 DEF EndMigration, PhaseInv, At, LifeInv, TypeOK, Secure
  <2>6. DirtyNeedsAccident'
    BY <2>2 DEF DirtyNeedsAccident
  <2> HIDE DEF p
  <2>7. QED
    BY <1>4, <2>1, <2>2, <2>4, <2>5, <2>6, AdvanceInv DEF EndMigration, LifeInv, TypeOK
<1>5. CASE Migrated(i)
  <2>1. Complete
    BY <1>5 DEF Migrated, LifeInv, TypeOK, Complete
  <2>2. PhaseInv(i)'
    BY <1>5, <2>1 DEF Migrated, Goto, PhaseInv, At, LifeInv, TypeOK, Secure, Complete
  <2>3. lock \in {i, Nobody} /\ lock' \in {i, Nobody}
    BY <1>5 DEF Migrated
  <2>4. Goto(i, "migrate", "seed") /\ faults' = faults
         /\ UNCHANGED <<conf, postgres, redis, schema, admins, wanted, open, torn, cut, mail>>
    BY <1>5 DEF Migrated
  <2>5. QED  BY <2>2, <2>3, <2>4, GotoInv
<1>6. QED  BY <1>1, <1>2, <1>3, <1>4, <1>5

\* Seed, Redis, the mail provider: each leaves what the next steps rely on.
LEMMA SeedInv ==
    ASSUME LifeInv, NEW i \in Instances, Seed(i) \/ SeedInsert(i)
    PROVE  LifeInv'
<1> USE DEF Phase, Up
<1>1. CASE Seed(i)
  <2>1. CASE Seeds(conf) /\ ~conf.creds /\ Fatal(i) /\ UNCHANGED faults
    BY <2>1, FatalInv
  <2>2. ASSUME NEW to \in {"redis", "insert"}, Goto(i, "seed", to), faults' = faults \/ Fault,
               UNCHANGED <<conf, postgres, redis, schema, lock, admins, wanted, open, torn, cut, mail>>,
               to = "redis" => (Seeds(conf) => admins > 0)
        PROVE  LifeInv'
    <3>1. PhaseInv(i)'
      BY <2>2 DEF Goto, PhaseInv, At, LifeInv, TypeOK, Secure, Complete
    <3>2. QED  BY <2>2, <3>1, GotoInv
  <2>3. CASE ~(Seeds(conf) /\ ~conf.creds /\ Fatal(i) /\ UNCHANGED faults)
    <3>1. \E to \in {"redis", "insert"} :
             /\ Goto(i, "seed", to)
             /\ faults' = faults \/ Fault
             /\ to = "redis" => (Seeds(conf) => admins > 0)
      BY <1>1, <2>3 DEF Seed
    <3>2. UNCHANGED <<conf, postgres, redis, schema, lock, admins, wanted, open, torn, cut, mail>>
      BY <1>1, <2>3 DEF Seed
    <3>3. QED  BY <2>2, <3>1, <3>2
  <2>4. QED  BY <2>1, <2>3
<1>2. CASE SeedInsert(i)
  <2>1. ASSUME admins' = 1, Goto(i, "insert", "redis"), faults' = faults,
               UNCHANGED <<conf, postgres, redis, schema, lock, wanted, open, torn, cut, mail>>
        PROVE  LifeInv'
    <3> DEFINE p == [proc[i] EXCEPT !.at = "redis"]
    <3>1. /\ p \in [at : Phase, pings : 0 .. Attempts - 1, waited : 0 .. Grace]
          /\ proc' = [proc EXCEPT ![i] = p]
          /\ p.at = "redis"
          /\ proc[i].at = "insert"
      BY <2>1 DEF Goto, At, LifeInv, TypeOK
    <3>2. \A k \in Instances : PhaseInv(k) => PhaseInv(k)' \/ k = i
      BY <2>1, <3>1 DEF PhaseInv, At, LifeInv, TypeOK, Complete
    <3>3. PhaseInv(i)'
      BY <2>1, <3>1 DEF PhaseInv, At, LifeInv, TypeOK, Secure, Complete
    <3>4. DirtyNeedsAccident'
      BY <2>1, <3>1 DEF DirtyNeedsAccident, At, LifeInv, TypeOK
    <3> HIDE DEF p
    <3>5. QED  BY <2>1, <3>1, <3>2, <3>3, <3>4, AdvanceInv DEF LifeInv, TypeOK
  <2>2. ASSUME admins' = 1, End(i), Fault, UNCHANGED <<conf, postgres, redis, schema, wanted, cut>>
        PROVE  LifeInv'
    BY <2>2, EndInv DEF LifeInv, TypeOK, Fault, CutWasLong
  <2>3. QED  BY <1>2, <2>1, <2>2, FatalInv DEF SeedInsert, Fails
<1>3. QED  BY <1>1, <1>2

LEMMA ReadyInv ==
    ASSUME LifeInv, NEW i \in Instances, NewRedis(i) \/ NewMailer(i) \/ Notify(i)
    PROVE  LifeInv'
<1> USE DEF Phase, Up
<1>1. CASE NewRedis(i)
  <2>1. ASSUME NEW p \in [at : {"redis", "mailer"}, pings : 0 .. Attempts - 1, waited : 0 .. Grace],
               proc' = [proc EXCEPT ![i] = p], faults' = faults \/ Fault,
               UNCHANGED <<conf, postgres, redis, schema, lock, admins, wanted, open, torn, cut, mail>>
        PROVE  LifeInv'
    <3>1. At(i, "redis")
      BY <1>1 DEF NewRedis
    <3>2. \A k \in Instances : PhaseInv(k) => PhaseInv(k)'
      BY <2>1, <3>1 DEF PhaseInv, At, LifeInv, TypeOK, Complete
    <3>3. DirtyNeedsAccident'
      BY <2>1, <3>1 DEF DirtyNeedsAccident, At, LifeInv, TypeOK
    <3>4. QED
      BY <2>1, <3>1, <3>2, <3>3, AdvanceInv DEF LifeInv, TypeOK, At
  <2>2. ASSUME ~\E p \in [at : {"redis", "mailer"}, pings : 0 .. Attempts - 1, waited : 0 .. Grace] :
                  proc' = [proc EXCEPT ![i] = p]
        PROVE  Fatal(i) /\ (faults' = faults \/ Fault)
    <3>1. [Start EXCEPT !.at = "mailer"] \in
             [at : {"redis", "mailer"}, pings : 0 .. Attempts - 1, waited : 0 .. Grace]
      BY DEF Start
    <3>2. ~(proc' = [proc EXCEPT ![i] = [Start EXCEPT !.at = "mailer"]])
      BY <2>2, <3>1
    <3>3. ASSUME Retries(i), At(i, "redis"), proc' = [proc EXCEPT ![i].pings = @ + 1]
          PROVE  FALSE
      <4> DEFINE p == [proc[i] EXCEPT !.pings = @ + 1]
      <4>1. p \in [at : {"redis", "mailer"}, pings : 0 .. Attempts - 1, waited : 0 .. Grace]
        BY <3>3 DEF Retries, At, LifeInv, TypeOK
      <4>2. proc' = [proc EXCEPT ![i] = p]
        BY <3>3 DEF LifeInv, TypeOK
      <4>3. QED  BY <2>2, <4>1, <4>2
    <3>4. QED  BY <1>1, <3>2, <3>3 DEF NewRedis, Fails
  <2>3. (faults' = faults \/ Fault) /\
          (\/ UNCHANGED <<conf, postgres, redis, schema, lock, admins, wanted, open, torn, cut, mail>>
           \/ Fatal(i))
    BY <1>1 DEF NewRedis, Fails
  <2>4. QED  BY <2>1, <2>2, <2>3, FatalInv
<1>2. CASE NewMailer(i)
  <2>1. ASSUME KnownProvider(conf), Goto(i, "mailer", "listen"),
               UNCHANGED <<conf, postgres, redis, schema, lock, admins, wanted, open, faults, torn, cut, mail>>
        PROVE  LifeInv'
    <3>1. PhaseInv(i)'
      BY <2>1 DEF Goto, PhaseInv, At, LifeInv, TypeOK, Secure, Complete
    <3>2. QED  BY <2>1, <3>1, GotoInv
  <2>2. QED  BY <1>2, <2>1, FatalInv DEF NewMailer
<1>3. CASE Notify(i)
  <2>1. PhaseInv(i)'
    BY <1>3 DEF Notify, Goto, PhaseInv, At, LifeInv, TypeOK, Secure, Complete
  <2>2. QED  BY <1>3, <2>1, GotoInv DEF Notify
<1>4. QED  BY <1>1, <1>2, <1>3

-----------------------------------------------------------------------------
(* The end.                                                                *)

LEMMA SignalInv == ASSUME LifeInv, NEW i \in Instances, Signal(i) PROVE LifeInv'
<1>1. /\ faults' \in 0 .. MaxFaults /\ wanted' \in [Instances -> BOOLEAN]
      /\ UNCHANGED <<conf, postgres, redis, schema, admins, cut>>
  BY DEF Signal, Fault, LifeInv, TypeOK
<1>2. CutWasLong' /\ cut' \subseteq 0 .. Longest
  BY <1>1 DEF LifeInv, TypeOK, CutWasLong
<1>3. CASE End(i)
  BY <1>1, <1>2, <1>3, EndInv DEF LifeInv, TypeOK
<1>4. CASE ~End(i)
  <2> DEFINE p == [Start EXCEPT !.at = "draining"]
  <2>1. /\ At(i, "serving") /\ proc' = [proc EXCEPT ![i] = p]
        /\ UNCHANGED <<lock, open, torn, mail>>
    BY <1>4 DEF Signal
  <2>2. p = [at |-> "draining", pings |-> 0, waited |-> 0]
    BY DEF Start
  <2>3. TypeOK'
    <3>1. p \in [at : Phase, pings : 0 .. Attempts - 1, waited : 0 .. Grace]
      BY <2>2 DEF Phase
    <3>2. QED  BY <1>1, <1>2, <2>1, <3>1 DEF LifeInv, TypeOK, MailTypeOK
  <2>4. \A k \in Instances : k # i => proc'[k] = proc[k]
    BY <2>1 DEF LifeInv, TypeOK
  <2>5. proc'[i].at = "draining" /\ proc'[i].waited = 0
    BY <2>1, <2>2 DEF LifeInv, TypeOK
  <2>6. \A k \in Instances : PhaseInv(k)'
    BY <1>1, <2>1, <2>4, <2>5 DEF LifeInv, PhaseInv, At, Up, Complete
  <2>7. \A r \in Reqs : OpenInv(r)'
    BY <2>1, <2>4, <2>5 DEF LifeInv, TypeOK, OpenInv, At, Up
  <2>8. DirtyNeedsAccident'
    BY <1>1, <2>1, <2>4 DEF LifeInv, DirtyNeedsAccident, At
  <2>9. MailTruth' /\ \A m \in Mails : SenderInv(m)'
    BY <1>1, <2>1 DEF LifeInv, MailTruth, SenderInv
  <2>10. QED  BY <1>2, <2>3, <2>6, <2>7, <2>8, <2>9 DEF LifeInv
<1>5. QED  BY <1>3, <1>4

\* A forced end cuts requests as old as the wait.
LEMMA ForcedInv == ASSUME LifeInv, NEW i \in Instances, Forced(i) PROVE LifeInv'
<1>1. \A r \in OpenOn(i) : open[r].age \in 0 .. Longest /\ open[r].age >= Grace
  <2>1. ASSUME NEW r \in OpenOn(i)
        PROVE  open[r].age \in 0 .. Longest /\ open[r].age >= Grace
    <3>1. r \in Reqs /\ open[r] # NoRequest /\ open[r].on = i
      BY DEF OpenOn, NoRequest
    <3>2. open[r].age \in 0 .. Longest /\ proc[i].waited \in 0 .. Grace
      BY <3>1 DEF LifeInv, TypeOK
    <3>3. proc[i].waited <= open[r].age /\ proc[i].waited >= Grace
      BY <3>1 DEF LifeInv, OpenInv, Forced
    <3>4. QED  BY <3>2, <3>3
  <2>2. QED  BY <2>1
<1>2. cut' \subseteq 0 .. Longest /\ CutWasLong'
  <2>1. cut' = cut \cup {open[r].age : r \in OpenOn(i)}
    BY DEF Forced
  <2>2. \A age \in cut : age \in 0 .. Longest /\ age >= Grace
    BY DEF LifeInv, TypeOK, CutWasLong
  <2>3. \A age \in cut' : age \in 0 .. Longest /\ age >= Grace
    BY <1>1, <2>1, <2>2
  <2>4. QED  BY <2>3 DEF CutWasLong
<1>3. QED  BY <1>2, EndInv DEF Forced, LifeInv, TypeOK

-----------------------------------------------------------------------------
(* Requests, time and the stores.                                          *)

LEMMA RequestInv ==
    ASSUME LifeInv, NEW r \in Reqs, Respond(r) \/ \E i \in Instances : Accept(r, i)
    PROVE  LifeInv'
<1>1. UNCHANGED <<conf, postgres, redis, schema, lock, admins, proc, wanted, faults, torn, cut, mail>>
  BY DEF Respond, Accept
<1>2. open' \in [Reqs -> [on : Instances \cup {Nobody}, age : 0 .. Longest]]
  BY DEF Respond, Accept, LifeInv, TypeOK, NoRequest
<1>3. \A q \in Reqs : OpenInv(q)'
  <2>1. CASE Respond(r)
    BY <1>1, <2>1 DEF Respond, LifeInv, TypeOK, OpenInv, At
  <2>2. ASSUME NEW i \in Instances, Accept(r, i) PROVE \A q \in Reqs : OpenInv(q)'
    BY <1>1, <2>2 DEF Accept, LifeInv, TypeOK, OpenInv, At, Up
  <2>3. QED  BY <2>1, <2>2
<1>4. TypeOK'
  BY <1>1, <1>2 DEF LifeInv, TypeOK, MailTypeOK
<1>5. QED
  BY <1>1, <1>3, <1>4 DEF LifeInv, PhaseInv, SenderInv, DirtyNeedsAccident, CutWasLong, MailTruth,
                         At, Complete

LEMMA MailStepInv ==
    ASSUME LifeInv, UNCHANGED lifeVars, MailInv'
    PROVE  LifeInv'
<1>1. TypeOK'
  BY DEF LifeInv, TypeOK, lifeVars, MailInv
<1>2. MailTruth' /\ \A m \in Mails : SenderInv(m)'
  BY DEF MailInv, MailSound, MailTruth
<1>3. QED
  BY <1>1, <1>2 DEF LifeInv, lifeVars, PhaseInv, OpenInv, DirtyNeedsAccident, CutWasLong, At, Complete

LEMMA TickInv == ASSUME LifeInv, Tick PROVE LifeInv'
<1>1. UNCHANGED <<conf, postgres, redis, schema, lock, admins, wanted, faults, torn, cut, mail>>
  BY DEF Tick
<1>2. ASSUME NEW i \in Instances
      PROVE  /\ proc'[i] \in [at : Phase, pings : 0 .. Attempts - 1, waited : 0 .. Grace]
             /\ proc'[i].at = proc[i].at
             /\ At(i, "draining") => proc[i].waited < Grace /\ proc'[i].waited = proc[i].waited + 1
  BY DEF Tick, At, LifeInv, TypeOK
<1>3. ASSUME NEW r \in Reqs
      PROVE  /\ open'[r] \in [on : Instances \cup {Nobody}, age : 0 .. Longest]
             /\ open[r] = NoRequest => open'[r] = NoRequest
             /\ open'[r].on = open[r].on
             /\ open[r] # NoRequest => open'[r].age = Older(open[r].age)
  BY DEF Tick, LifeInv, TypeOK, Older, NoRequest
<1>4. TypeOK'
  <2>1. proc' \in [Instances -> [at : Phase, pings : 0 .. Attempts - 1, waited : 0 .. Grace]]
    BY <1>2 DEF Tick
  <2>2. open' \in [Reqs -> [on : Instances \cup {Nobody}, age : 0 .. Longest]]
    BY <1>3 DEF Tick
  <2>3. QED  BY <1>1, <2>1, <2>2 DEF LifeInv, TypeOK, MailTypeOK
<1>5. \A i \in Instances : PhaseInv(i)'
  BY <1>1, <1>2 DEF LifeInv, PhaseInv, At, Complete
<1>6. ASSUME NEW r \in Reqs, open'[r] # NoRequest PROVE OpenInv(r)'
  <2>1. open[r] # NoRequest /\ open'[r].on = open[r].on /\ open'[r].age = Older(open[r].age)
    BY <1>3, <1>6
  <2>2. /\ open[r].on \in Instances
        /\ proc[open[r].on].at \in Up
        /\ At(open[r].on, "draining") => proc[open[r].on].waited <= open[r].age
    BY <2>1 DEF LifeInv, OpenInv
  <2>3. proc[open[r].on].waited \in 0 .. Grace /\ open[r].age \in 0 .. Longest
    BY <2>2 DEF LifeInv, TypeOK
  <2>4. /\ proc'[open[r].on].at = proc[open[r].on].at
        /\ At(open[r].on, "draining") =>
              /\ proc[open[r].on].waited < Grace
              /\ proc'[open[r].on].waited = proc[open[r].on].waited + 1
    BY <1>2, <2>2
  <2>5. At(open[r].on, "draining") => proc'[open[r].on].waited <= open'[r].age
    BY <2>1, <2>2, <2>3, <2>4 DEF Older
  <2>6. QED  BY <2>1, <2>2, <2>4, <2>5 DEF OpenInv, At
<1>7. \A r \in Reqs : OpenInv(r)'
  BY <1>6 DEF OpenInv
<1>8. DirtyNeedsAccident'
  BY <1>1, <1>2 DEF LifeInv, DirtyNeedsAccident, At
<1>9. QED
  BY <1>1, <1>4, <1>5, <1>7, <1>8 DEF LifeInv, SenderInv, CutWasLong, MailTruth

LEMMA StoreInv ==
    ASSUME LifeInv, PostgresDown \/ PostgresBack \/ RedisDown \/ RedisBack
    PROVE  LifeInv'
<1>1. /\ UNCHANGED <<conf, schema, admins, proc, wanted, open, cut, mail>>
      /\ postgres' \in BOOLEAN /\ redis' \in BOOLEAN /\ faults' \in 0 .. MaxFaults
      /\ torn' \in BOOLEAN /\ (torn => torn')
      /\ lock' = lock \/ (lock' = Nobody /\ ((\E i \in Instances : At(i, "run")) => torn'))
  <2>1. faults' \in 0 .. MaxFaults
    BY DEF PostgresDown, PostgresBack, RedisDown, RedisBack, Fault, LifeInv, TypeOK
  <2>2. postgres' \in BOOLEAN /\ redis' \in BOOLEAN
    BY Zenon DEF PostgresDown, PostgresBack, RedisDown, RedisBack, LifeInv, TypeOK
  <2>3. /\ torn' \in BOOLEAN /\ (torn => torn')
        /\ lock' = lock \/ (lock' = Nobody /\ ((\E i \in Instances : At(i, "run")) => torn'))
    <3>1. CASE PostgresDown
      <4>1. torn' = (torn \/ \E i \in Instances : At(i, "run")) /\ lock' = Nobody
        BY <3>1 DEF PostgresDown
      <4>2. QED  BY <4>1
    <3>2. CASE PostgresBack \/ RedisDown \/ RedisBack
      <4>1. torn' = torn /\ lock' = lock
        BY <3>2 DEF PostgresBack, RedisDown, RedisBack
      <4>2. QED  BY <4>1 DEF LifeInv, TypeOK
    <3>3. QED  BY <3>1, <3>2
  <2>4. UNCHANGED <<conf, schema, admins, proc, wanted, open, cut, mail>>
    BY DEF PostgresDown, PostgresBack, RedisDown, RedisBack
  <2>5. QED  BY <2>1, <2>2, <2>3, <2>4
<1>2. TypeOK'
  BY <1>1 DEF LifeInv, TypeOK, MailTypeOK
<1>3. \A i \in Instances : PhaseInv(i)'
  BY <1>1 DEF LifeInv, PhaseInv, At, Complete
<1>4. DirtyNeedsAccident'
  BY <1>1 DEF LifeInv, DirtyNeedsAccident, At
<1>5. QED
  BY <1>1, <1>2, <1>3, <1>4 DEF LifeInv, OpenInv, SenderInv, CutWasLong, MailTruth, At

-----------------------------------------------------------------------------

LEMMA NextInv == LifeInv /\ [Next]_allVars => LifeInv'
<1> SUFFICES ASSUME LifeInv, [Next]_allVars PROVE LifeInv'
  OBVIOUS
<1>1. ASSUME NEW i \in Instances, Main(i) PROVE LifeInv'
  BY <1>1, ConnectInv, MigrationInv, SeedInv, ReadyInv, FatalInv, ForcedInv DEF Main, Drained
<1>2. ASSUME NEW i \in Instances, Restart(i) PROVE LifeInv'
  BY <1>2, ConnectInv
<1>3. ASSUME NEW i \in Instances, ListenFails(i) \/ Kill(i) PROVE LifeInv'
  BY <1>3, FatalInv DEF ListenFails, Kill, Fails
<1>4. ASSUME NEW i \in Instances, Signal(i) PROVE LifeInv'
  BY <1>4, SignalInv
<1>5. ASSUME NEW i \in Instances, OperatorStart(i) PROVE LifeInv'
  BY <1>5, OperatorStartInv
<1>6. ASSUME NEW r \in Reqs, Respond(r) \/ \E i \in Instances : Accept(r, i) PROVE LifeInv'
  BY <1>6, RequestInv
<1>7. ASSUME NEW r \in Reqs, NEW m \in Mails, Post(r, m) PROVE LifeInv'
  BY <1>7, PostInv, MailStepInv DEF Post
<1>8. ASSUME NEW m \in Mails, Deliver(m) PROVE LifeInv'
  <2>1. MailInv /\ conf' = conf
    BY <1>8, MailParts DEF LifeInv, TypeOK, Deliver, lifeVars
  <2>2. QED  BY <1>8, <2>1, DeliverInv, MailStepInv DEF Deliver
<1>9. CASE UNCHANGED allVars
  <2>1. MailInv'
    BY <1>9, MailParts DEF LifeInv, TypeOK, allVars, lifeVars, MailInv, MailTypeOK, MailSound, SenderInv
  <2>2. QED  BY <1>9, <2>1, MailStepInv DEF allVars
<1>10. QED
  BY <1>1, <1>2, <1>3, <1>4, <1>5, <1>6, <1>7, <1>8, <1>9, TickInv, StoreInv DEF Next

\* What a start relies on at each of its steps holds, whatever the others do.
THEOREM LifeInvHolds == Spec => []LifeInv
  BY InitInv, NextInv, PTL DEF Spec

\* Who takes requests is configured, migrated and seeded.
THEOREM ServesReadyHolds == Spec => []ServesReady
<1>1. LifeInv => ServesReady
  BY DEF LifeInv, PhaseInv, ServesReady, Secure, Up
<1>2. QED  BY <1>1, LifeInvHolds, PTL

\* Without an accident nobody finds the schema dirty but its migrator.
THEOREM DirtyNeedsAccidentHolds == Spec => []DirtyNeedsAccident
<1>1. LifeInv => DirtyNeedsAccident
  BY DEF LifeInv
<1>2. QED  BY <1>1, LifeInvHolds, PTL

\* A forced shutdown cuts no request that had less than the grace period.
THEOREM CutWasLongHolds == Spec => []CutWasLong
<1>1. LifeInv => CutWasLong
  BY DEF LifeInv
<1>2. QED  BY <1>1, LifeInvHolds, PTL

\* A sender that reports success has sent its message, once.
THEOREM MailTruthHolds == Spec => []MailTruth
<1>1. LifeInv => MailTruth
  BY DEF LifeInv
<1>2. QED  BY <1>1, LifeInvHolds, PTL
=============================================================================
