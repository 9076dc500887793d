----------------------------- MODULE RateLimit -----------------------------
(***************************************************************************)
(* RateLimit: the middleware that counts the requests of an address in     *)
(* windows of fixed length, in Redis, or in the memory of the process when *)
(* Redis does not answer.                                                  *)
(*                                                                         *)
(* go-redis tries a command again when its reply is lost, so one request   *)
(* can be counted several times, in Redis and then in memory as well.      *)
(*                                                                         *)
(* Time is kept relative: an entry has the ticks it has left, the history  *)
(* what happened no longer ago than an age.                                *)
(***************************************************************************)
EXTENDS Integers

CONSTANTS
    Reqs,      \* requests served at a time
    Clients,   \* addresses
    Servers,   \* processes, each with its globalMemLimiter
    Redis,     \* the place of the shared counters
    Limit,
    Window,    \* in ticks
    Attempts,  \* times go-redis sends a command at most
    Burst      \* bound: no new request of a client with this many counts in a window

ASSUME NumbersAssumption ==
    Limit \in Nat \ {0} /\ Window \in Nat \ {0} /\ Attempts \in Nat \ {0} /\ Burst \in Nat
ASSUME PlacesAssumption == Redis \notin Servers

VARIABLES
    entry,     \* per client and place: the counter and the ticks its window has left
    call,      \* per request: where it stands
    counted,   \* history, per client, place and age: increments no older than that
    admitted   \* history, likewise: the increments that let a request pass

vars == <<entry, call, counted, admitted>>

Places == Servers \cup {Redis}
Ages == 0 .. Window

Entry == [count : Nat, left : -1 .. Window]
Absent == [count |-> 0, left |-> -1]

Call == [at : {"idle", "redis", "memory", "pass", "refused"},
         client : Clients, server : Servers, tries : 0 .. Attempts]

Init ==
    /\ entry = [c \in Clients |-> [p \in Places |-> Absent]]
    /\ call \in [Reqs -> {k \in Call : k.at = "idle" /\ k.tries = 0}]
    /\ counted = [c \in Clients |-> [p \in Places |-> [a \in Ages |-> 0]]]
    /\ admitted = counted

\* Mutation: every call sets the TTL.
ScriptExpireAlways(e) == [count |-> e.count + 1, left |-> Window]

\* luaRateLimit: INCR, and EXPIRE when the key is new, in one step.
Script(e) ==
    [count |-> e.count + 1, left |-> IF e.count = 0 THEN Window ELSE e.left]

\* memRateLimiter.increment, under its mutex: an expired entry is replaced.
Increment(e) ==
    IF e.left < 0 THEN [count |-> 1, left |-> Window] ELSE [e EXCEPT !.count = @ + 1]

\* Mutation: off by one.
AdmitsLimit(e) == e.count <= Limit + 1

Admits(e) == e.count <= Limit

\* The history after one more event, and after one tick.
OneMore(f) == [a \in Ages |-> f[a] + 1]
Older(f) == [a \in Ages |-> IF a = 0 THEN 0 ELSE f[a - 1]]

\* The entry of client c at place p becomes e.
Count(c, p, e) ==
    /\ entry' = [entry EXCEPT ![c][p] = e]
    /\ counted' = [counted EXCEPT ![c][p] = OneMore(@)]

-----------------------------------------------------------------------------
Arrive(r) ==
    /\ call[r].at = "idle"
    /\ \E c \in Clients, s \in Servers :
          /\ \A p \in Places : counted[c][p][Window] < Burst
          /\ call' = [call EXCEPT ![r] = [at |-> "redis", client |-> c, server |-> s, tries |-> 0]]
    /\ UNCHANGED <<entry, counted, admitted>>

\* The request is counted at p for good, and passes or is answered 429.
Decide(r, p, e) ==
    LET c == call[r].client IN
    /\ Count(c, p, e)
    /\ \/ /\ Admits(e)
          /\ call' = [call EXCEPT ![r].at = "pass"]
          /\ admitted' = [admitted EXCEPT ![c][p] = OneMore(@)]
       \/ /\ ~Admits(e)
          /\ call' = [call EXCEPT ![r].at = "refused"]
          /\ UNCHANGED admitted

RedisReplies(r) ==
    /\ call[r].at = "redis"
    /\ call[r].tries < Attempts
    /\ Decide(r, Redis, Script(entry[call[r].client][Redis]))

\* An attempt gets no reply; the script may have run.
AttemptFails(r) ==
    LET c == call[r].client IN
    /\ call[r].at = "redis"
    /\ call[r].tries < Attempts
    /\ call' = [call EXCEPT ![r].tries = @ + 1]
    /\ Count(c, Redis, Script(entry[c][Redis])) \/ UNCHANGED <<entry, counted>>
    /\ UNCHANGED admitted

\* Run returns an error: after the last attempt, or when it makes no sense to go on
\* (the request's context is done).
GivesUp(r) ==
    /\ call[r].at = "redis"
    /\ call[r].tries > 0
    /\ call' = [call EXCEPT ![r].at = "memory"]
    /\ UNCHANGED <<entry, counted, admitted>>

Fallback(r) ==
    LET s == call[r].server IN
    /\ call[r].at = "memory"
    /\ Decide(r, s, Increment(entry[call[r].client][s]))

Finish(r) ==
    /\ call[r].at \in {"pass", "refused"}
    /\ call' = [call EXCEPT ![r].at = "idle", ![r].tries = 0]
    /\ UNCHANGED <<entry, counted, admitted>>

\* Redis drops a key that is due, the memory keeps it.
AfterTick(p, e) ==
    IF e.left > 0 THEN [e EXCEPT !.left = @ - 1]
    ELSE IF p = Redis THEN Absent ELSE [e EXCEPT !.left = -1]

Tick ==
    /\ entry' = [c \in Clients |-> [p \in Places |-> AfterTick(p, entry[c][p])]]
    /\ counted' = [c \in Clients |-> [p \in Places |-> Older(counted[c][p])]]
    /\ admitted' = [c \in Clients |-> [p \in Places |-> Older(admitted[c][p])]]
    /\ UNCHANGED call

Next ==
    \/ Tick
    \/ \E r \in Reqs : \/ Arrive(r) \/ RedisReplies(r) \/ AttemptFails(r) \/ GivesUp(r)
                       \/ Fallback(r) \/ Finish(r)

Spec == Init /\ [][Next]_vars

-----------------------------------------------------------------------------
(* Properties.                                                             *)

\* Fixed windows, failures of Redis and repeated commands together never let more than
\* two windows' worth of requests of one client pass at one place within any span as
\* long as a window.
WindowBudget ==
    \A c \in Clients, p \in Places : admitted[c][p][Window] <= 2 * Limit

\* A request is only refused if its own client was counted more than Limit times at the
\* place that decides, no longer ago than a window: whoever waits for the time
\* Retry-After says is served.
RefusedForOwn ==
    [][\A r \in Reqs : (call[r].at # "refused" /\ call'[r].at = "refused") =>
          \E p \in {Redis, call[r].server} :
             counted'[call[r].client][p][Window] > Limit]_vars

\* Every variable stays in its range.
TypeOK ==
    /\ entry \in [Clients -> [Places -> Entry]]
    /\ call \in [Reqs -> Call]
    /\ counted \in [Clients -> [Places -> [Ages -> Nat]]]
    /\ admitted \in [Clients -> [Places -> [Ages -> Nat]]]

Ordered(f) == \A a, b \in Ages : a <= b => f[a] <= f[b]

\* What an entry says of its client's last window at p: its counter bounds what the
\* window has let pass and was counted within the window; the windows before it
\* account for at most Limit more.  An entry that ended has no recent request.
EntrySound(p, e, n, f) ==
    /\ Ordered(n) /\ Ordered(f)
    /\ p = Redis => (e.count = 0 <=> e.left = -1)
    /\ e.left = -1 => f[0] = 0 /\ f[Window] <= Limit
    /\ e.left >= 0 =>
          LET age == Window - e.left IN
          /\ e.count > 0
          /\ e.count <= n[age]
          /\ f[age] <= e.count
          /\ f[age] <= Limit
          /\ f[Window] <= f[age] + Limit

\* The inductive invariant.
LimiterInv ==
    /\ TypeOK
    /\ \A c \in Clients, p \in Places :
          EntrySound(p, entry[c][p], counted[c][p], admitted[c][p])
=============================================================================
