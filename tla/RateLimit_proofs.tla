--------------------------- MODULE RateLimit_proofs ---------------------------
(***************************************************************************)
(* Proofs about the rate limiter, for any limit, window, number of         *)
(* clients, processes, concurrent requests and repeated commands.          *)
(***************************************************************************)
EXTENDS RateLimit, TLAPS

LEMMA AgesFacts == /\ Ages \subseteq Nat
                   /\ 0 \in Ages /\ Window \in Ages
                   /\ \A a \in Ages : a <= Window /\ (a # 0 => a - 1 \in Ages)
  BY NumbersAssumption DEF Ages

\* The two operations on a history keep its type and its order.
LEMMA HistorySteps ==
    ASSUME NEW f \in [Ages -> Nat], Ordered(f)
    PROVE  /\ OneMore(f) \in [Ages -> Nat] /\ Ordered(OneMore(f))
           /\ Older(f) \in [Ages -> Nat] /\ Ordered(Older(f))
           /\ Older(f)[Window] <= f[Window]
<1>1. OneMore(f) \in [Ages -> Nat] /\ Ordered(OneMore(f))
  BY DEF OneMore, Ordered
<1>2. Older(f) \in [Ages -> Nat]
  BY AgesFacts DEF Older
<1>3. ASSUME NEW a \in Ages, NEW b \in Ages, a <= b PROVE Older(f)[a] <= Older(f)[b]
  <2>1. CASE a = 0
    BY <1>2, <2>1 DEF Older
  <2>2. CASE a # 0
    <3>1. b # 0 /\ a - 1 \in Ages /\ b - 1 \in Ages /\ a - 1 <= b - 1
      BY <1>3, <2>2, AgesFacts
    <3>2. f[a - 1] <= f[b - 1]
      BY <3>1 DEF Ordered
    <3>3. QED  BY <2>2, <3>1, <3>2 DEF Older
  <2>3. QED  BY <2>1, <2>2
<1>4. Older(f)[Window] <= f[Window]
  <2>1. Window # 0 /\ Window - 1 \in Ages /\ Window - 1 <= Window
    BY NumbersAssumption, AgesFacts
  <2>2. QED  BY <2>1, AgesFacts DEF Older, Ordered
<1>5. QED  BY <1>1, <1>2, <1>3, <1>4 DEF Ordered

\* What the Lua script and the counter in memory make of an entry, either of which may
\* be what counts at p: one more in a window that runs, or the first of a new one.
Counts(p, e, e2) == IF p = Redis THEN e2 = Script(e) ELSE e2 = Increment(e)

LEMMA CountsWhat ==
    ASSUME NEW p \in Places, NEW e \in Entry, NEW e2, Counts(p, e, e2),
           p = Redis => (e.count = 0 <=> e.left = -1)
    PROVE  /\ e2 \in Entry
           /\ e.left >= 0 => e2.count = e.count + 1 /\ e2.left = e.left
           /\ e.left = -1 => e2.count = 1 /\ e2.left = Window
<1>1. e.count \in Nat /\ e.left \in -1 .. Window
  BY DEF Entry
<1>2. CASE p = Redis
  <2>1. e2 = [count |-> e.count + 1, left |-> IF e.count = 0 THEN Window ELSE e.left]
    BY <1>2 DEF Counts, Script
  <2>2. QED  BY <1>1, <1>2, <2>1, NumbersAssumption DEF Entry
<1>3. CASE p # Redis
  <2>1. e2 = IF e.left < 0 THEN [count |-> 1, left |-> Window] ELSE [e EXCEPT !.count = @ + 1]
    BY <1>3 DEF Counts, Increment
  <2>2. QED  BY <1>1, <2>1, NumbersAssumption DEF Entry
<1>4. QED  BY <1>2, <1>3

\* An increment keeps an entry and its history in step, and so does one that lets the
\* request pass.
LEMMA CountSound ==
    ASSUME NEW p \in Places, NEW e \in Entry, NEW e2, Counts(p, e, e2),
           NEW n \in [Ages -> Nat], NEW f \in [Ages -> Nat], EntrySound(p, e, n, f)
    PROVE  /\ e2 \in Entry /\ e2.left >= 0
           /\ EntrySound(p, e2, OneMore(n), f)
           /\ Admits(e2) => EntrySound(p, e2, OneMore(n), OneMore(f))
<1>1. /\ e2 \in Entry
      /\ e.left >= 0 => e2.count = e.count + 1 /\ e2.left = e.left
      /\ e.left = -1 => e2.count = 1 /\ e2.left = Window
  BY CountsWhat DEF EntrySound
<1>2. e.left \in -1 .. Window /\ e.count \in Nat /\ Limit \in Nat \ {0} /\ Window \in Nat
  BY NumbersAssumption DEF Entry
<1>3. /\ Ordered(n) /\ Ordered(f) /\ Ordered(OneMore(n)) /\ Ordered(OneMore(f))
      /\ OneMore(n) \in [Ages -> Nat] /\ OneMore(f) \in [Ages -> Nat]
      /\ \A a \in Ages : OneMore(n)[a] = n[a] + 1 /\ OneMore(f)[a] = f[a] + 1
  BY HistorySteps DEF EntrySound, OneMore
<1>4. CASE e.left = -1
  <2>1. e2.count = 1 /\ e2.left = Window /\ Window - e2.left = 0
    BY <1>1, <1>2, <1>4
  <2>2. f[0] = 0 /\ f[Window] <= Limit /\ f[0] \in Nat /\ n[0] \in Nat /\ f[Window] \in Nat
    BY <1>4, AgesFacts DEF EntrySound
  <2>3. EntrySound(p, e2, OneMore(n), f)
    BY <1>2, <1>3, <2>1, <2>2, AgesFacts DEF EntrySound
  <2>4. EntrySound(p, e2, OneMore(n), OneMore(f))
    BY <1>2, <1>3, <2>1, <2>2, AgesFacts DEF EntrySound
  <2>5. QED  BY <1>1, <1>2, <2>1, <2>3, <2>4
<1>5. CASE e.left >= 0
  <2> DEFINE age == Window - e.left
  <2>1. e2.count = e.count + 1 /\ e2.left = e.left
    BY <1>1, <1>5
  <2>2. age \in Ages /\ f[age] \in Nat /\ n[age] \in Nat /\ f[Window] \in Nat
    BY <1>2, <1>5, AgesFacts DEF Ages
  <2>3. /\ e.count > 0 /\ e.count <= n[age] /\ f[age] <= e.count /\ f[age] <= Limit
        /\ f[Window] <= f[age] + Limit
    BY <1>5 DEF EntrySound
  <2>4. EntrySound(p, e2, OneMore(n), f)
    BY <1>2, <1>3, <1>5, <2>1, <2>2, <2>3 DEF EntrySound
  <2>5. ASSUME Admits(e2) PROVE EntrySound(p, e2, OneMore(n), OneMore(f))
    <3>1. f[age] + 1 <= Limit
      BY <1>2, <2>1, <2>2, <2>3, <2>5 DEF Admits
    <3>2. QED  BY <1>2, <1>3, <1>5, <2>1, <2>2, <2>3, <3>1, AgesFacts DEF EntrySound
  <2>6. QED  BY <1>1, <1>5, <2>1, <2>4, <2>5
<1>6. QED  BY <1>2, <1>4, <1>5

\* Time keeps them in step as well.
LEMMA TickSound ==
    ASSUME NEW p \in Places, NEW e \in Entry, NEW n \in [Ages -> Nat], NEW f \in [Ages -> Nat],
           EntrySound(p, e, n, f)
    PROVE  /\ AfterTick(p, e) \in Entry
           /\ EntrySound(p, AfterTick(p, e), Older(n), Older(f))
<1> DEFINE e2 == AfterTick(p, e)
<1>1. e.left \in -1 .. Window /\ e.count \in Nat /\ Limit \in Nat \ {0} /\ Window \in Nat \ {0}
  BY NumbersAssumption DEF Entry
<1>2. /\ Ordered(n) /\ Ordered(f) /\ Ordered(Older(n)) /\ Ordered(Older(f))
      /\ Older(n) \in [Ages -> Nat] /\ Older(f) \in [Ages -> Nat]
      /\ Older(f)[0] = 0 /\ Older(f)[Window] <= f[Window]
      /\ \A a \in Ages : a # 0 => Older(n)[a] = n[a - 1] /\ Older(f)[a] = f[a - 1]
  BY HistorySteps, AgesFacts DEF EntrySound, Older
<1>3. f[Window] \in Nat /\ Older(f)[Window] \in Nat
  BY <1>2, AgesFacts
<1>4. CASE e.left > 0
  <2> DEFINE age == Window - e.left
  <2>1. e2 = [e EXCEPT !.left = @ - 1]
    BY <1>4 DEF AfterTick
  <2>2. e2 \in Entry /\ e2.count = e.count /\ e2.left = e.left - 1 /\ e2.left >= 0
    BY <1>1, <1>4, <2>1 DEF Entry
  <2>3. /\ age \in Ages /\ age + 1 \in Ages /\ age + 1 # 0 /\ (age + 1) - 1 = age
        /\ Window - e2.left = age + 1
    <3>1. e.left \in 1 .. Window
      BY <1>1, <1>4
    <3>2. age \in 0 .. Window /\ age + 1 \in 0 .. Window /\ age + 1 # 0 /\ (age + 1) - 1 = age
      BY <1>1, <3>1
    <3>3. Window - e2.left = age + 1
      BY <1>1, <2>2, <3>1
    <3>4. QED  BY <3>2, <3>3 DEF Ages
  <2>4. Older(n)[age + 1] = n[age] /\ Older(f)[age + 1] = f[age] /\ f[age] \in Nat /\ n[age] \in Nat
    BY <1>2, <2>3
  <2>5. /\ e.count > 0 /\ e.count <= n[age] /\ f[age] <= e.count /\ f[age] <= Limit
        /\ f[Window] <= f[age] + Limit
    BY <1>1, <1>4 DEF EntrySound
  <2>6. (p = Redis) => (e2.count = 0 <=> e2.left = -1)
    BY <1>1, <1>4, <2>2, <2>5
  <2>7. Older(f)[Window] <= Older(f)[age + 1] + Limit
    BY <1>1, <1>2, <1>3, <2>4, <2>5
  <2>8. EntrySound(p, e2, Older(n), Older(f))
    BY <1>1, <1>2, <2>2, <2>3, <2>4, <2>5, <2>6, <2>7 DEF EntrySound
  <2>9. QED  BY <2>2, <2>8
<1>5. CASE ~(e.left > 0)
  <2>1. e2 = IF p = Redis THEN Absent ELSE [e EXCEPT !.left = -1]
    BY <1>5 DEF AfterTick
  <2>2. e2 \in Entry /\ e2.left = -1 /\ (p = Redis => e2.count = 0)
    BY <1>1, <2>1 DEF Entry, Absent
  <2>3. f[Window] <= Limit
    <3>1. CASE e.left = -1
      BY <3>1 DEF EntrySound
    <3>2. CASE e.left = 0
      <4>1. Window - e.left = Window
        BY <1>1, <3>2
      <4>2. QED  BY <1>1, <3>2, <4>1 DEF EntrySound
    <3>3. QED  BY <1>1, <1>5, <3>1, <3>2
  <2>4. Older(f)[Window] <= Limit
    BY <1>1, <1>2, <1>3, <2>3
  <2>5. EntrySound(p, e2, Older(n), Older(f))
    BY <1>1, <1>2, <2>2, <2>4 DEF EntrySound
  <2>6. QED  BY <2>2, <2>5
<1>6. QED  BY <1>4, <1>5

LEMMA InitInv == Init => LimiterInv
<1> SUFFICES ASSUME Init PROVE LimiterInv
  OBVIOUS
<1> DEFINE none == [a \in Ages |-> 0]
<1>1. none \in [Ages -> Nat] /\ Ordered(none) /\ none[0] = 0 /\ none[Window] = 0
  BY AgesFacts DEF Ordered
<1>2. Absent \in Entry /\ Absent.count = 0 /\ Absent.left = -1
  BY NumbersAssumption DEF Absent, Entry
<1>3. \A c \in Clients, p \in Places :
         entry[c][p] = Absent /\ counted[c][p] = none /\ admitted[c][p] = none
  BY DEF Init
<1>4. TypeOK
  BY <1>1, <1>2 DEF Init, TypeOK
<1>5. \A p \in Places : EntrySound(p, Absent, none, none)
  BY <1>1, <1>2, NumbersAssumption DEF EntrySound
<1>6. QED  BY <1>3, <1>4, <1>5 DEF LimiterInv

LEMMA PlacesFacts ==
    Redis \in Places /\ Servers \subseteq Places /\ \A s \in Servers : s # Redis
  BY PlacesAssumption DEF Places

\* One increment, at one place, of one client.
LEMMA CountInv ==
    ASSUME LimiterInv, NEW c \in Clients, NEW p \in Places, NEW e2,
           Counts(p, entry[c][p], e2), Count(c, p, e2), call' \in [Reqs -> Call],
           \/ admitted' = admitted
           \/ Admits(e2) /\ admitted' = [admitted EXCEPT ![c][p] = OneMore(@)]
    PROVE  LimiterInv' /\ entry'[c][p] = e2 /\ e2 \in Entry /\ e2.left >= 0
<1> DEFINE e == entry[c][p]
           n == counted[c][p]
           f == admitted[c][p]
<1>1. e \in Entry /\ n \in [Ages -> Nat] /\ f \in [Ages -> Nat] /\ EntrySound(p, e, n, f)
  BY DEF LimiterInv, TypeOK
<1>2. /\ e2 \in Entry /\ e2.left >= 0
      /\ EntrySound(p, e2, OneMore(n), f)
      /\ Admits(e2) => EntrySound(p, e2, OneMore(n), OneMore(f))
  BY <1>1, CountSound
<1>3. OneMore(n) \in [Ages -> Nat] /\ OneMore(f) \in [Ages -> Nat]
  BY <1>1, HistorySteps DEF EntrySound
<1>4. entry' = [entry EXCEPT ![c][p] = e2] /\ counted' = [counted EXCEPT ![c][p] = OneMore(n)]
  BY DEF Count, LimiterInv, TypeOK
<1>5. \/ admitted' = admitted
      \/ Admits(e2) /\ admitted' = [admitted EXCEPT ![c][p] = OneMore(f)]
  BY DEF LimiterInv, TypeOK
<1>6. TypeOK'
  <2>1. entry' \in [Clients -> [Places -> Entry]]
    BY <1>2, <1>4 DEF LimiterInv, TypeOK
  <2>2. counted' \in [Clients -> [Places -> [Ages -> Nat]]]
    BY <1>3, <1>4 DEF LimiterInv, TypeOK
  <2>3. admitted' \in [Clients -> [Places -> [Ages -> Nat]]]
    <3>1. admitted \in [Clients -> [Places -> [Ages -> Nat]]]
      BY DEF LimiterInv, TypeOK
    <3>2. [admitted EXCEPT ![c][p] = OneMore(f)] \in [Clients -> [Places -> [Ages -> Nat]]]
      BY <1>3, <3>1
    <3>3. QED  BY <1>5, <3>1, <3>2
  <2>4. QED  BY <2>1, <2>2, <2>3 DEF TypeOK
<1>7. ASSUME NEW d \in Clients, NEW q \in Places
      PROVE  EntrySound(q, entry'[d][q], counted'[d][q], admitted'[d][q])
  <2>1. CASE d = c /\ q = p
    <3>1. entry'[d][q] = e2 /\ counted'[d][q] = OneMore(n)
      BY <1>4, <2>1 DEF LimiterInv, TypeOK
    <3>2. admitted'[d][q] = f \/ (Admits(e2) /\ admitted'[d][q] = OneMore(f))
      BY <1>5, <2>1 DEF LimiterInv, TypeOK
    <3>3. QED  BY <1>2, <2>1, <3>1, <3>2
  <2>2. CASE ~(d = c /\ q = p)
    <3>1. /\ entry'[d][q] = entry[d][q] /\ counted'[d][q] = counted[d][q]
          /\ admitted'[d][q] = admitted[d][q]
      BY <1>4, <1>5, <2>2 DEF LimiterInv, TypeOK
    <3>2. QED  BY <3>1 DEF LimiterInv
  <2>3. QED  BY <2>1, <2>2
<1>8. LimiterInv'
  BY <1>6, <1>7 DEF LimiterInv
<1>9. QED  BY <1>2, <1>4, <1>8 DEF LimiterInv, TypeOK

\* The two ways a request is decided.
LEMMA DecideInv ==
    ASSUME LimiterInv, NEW r \in Reqs, NEW p \in Places, NEW e2,
           Counts(p, entry[call[r].client][p], e2), Decide(r, p, e2)
    PROVE  /\ LimiterInv'
           /\ call'[r].at = "refused" => counted'[call[r].client][p][Window] > Limit
           /\ \A s \in Reqs \ {r} : call'[s] = call[s]
<1> DEFINE c == call[r].client
<1>1. c \in Clients /\ call[r] \in Call
  BY DEF LimiterInv, TypeOK, Call
<1>2. /\ Count(c, p, e2)
      /\ \/ /\ Admits(e2)
            /\ call' = [call EXCEPT ![r].at = "pass"]
            /\ admitted' = [admitted EXCEPT ![c][p] = OneMore(@)]
         \/ /\ ~Admits(e2)
            /\ call' = [call EXCEPT ![r].at = "refused"]
            /\ admitted' = admitted
  BY DEF Decide
<1>3. /\ call' \in [Reqs -> Call] /\ \A s \in Reqs \ {r} : call'[s] = call[s]
      /\ call'[r].at = "refused" => ~Admits(e2)
  <2>1. call \in [Reqs -> Call]
    BY DEF LimiterInv, TypeOK
  <2>2. CASE Admits(e2)
    <3>1. call' = [call EXCEPT ![r].at = "pass"]
      BY <1>2, <2>2
    <3>2. [call[r] EXCEPT !.at = "pass"] \in Call
      BY <1>1 DEF Call
    <3>3. call' = [call EXCEPT ![r] = [call[r] EXCEPT !.at = "pass"]]
      BY <2>1, <3>1
    <3>4. call'[r].at = "pass"
      BY <1>1, <2>1, <3>1 DEF Call
    <3>5. QED  BY <2>1, <3>2, <3>3, <3>4
  <2>3. CASE ~Admits(e2)
    <3>1. call' = [call EXCEPT ![r].at = "refused"]
      BY <1>2, <2>3
    <3>2. [call[r] EXCEPT !.at = "refused"] \in Call
      BY <1>1 DEF Call
    <3>3. call' = [call EXCEPT ![r] = [call[r] EXCEPT !.at = "refused"]]
      BY <2>1, <3>1
    <3>4. QED  BY <2>1, <2>3, <3>2, <3>3
  <2>4. QED  BY <2>2, <2>3
<1>4. LimiterInv' /\ entry'[c][p] = e2 /\ e2 \in Entry /\ e2.left >= 0
  BY <1>1, <1>2, <1>3, CountInv
<1>5. ASSUME call'[r].at = "refused" PROVE counted'[c][p][Window] > Limit
  <2> DEFINE n == counted'[c][p]
             age == Window - e2.left
  <2>1. ~(e2.count <= Limit)
    BY <1>3, <1>5 DEF Admits
  <2>2. n \in [Ages -> Nat] /\ EntrySound(p, e2, n, admitted'[c][p])
    BY <1>1, <1>4 DEF LimiterInv, TypeOK
  <2>3. e2.count \in Nat /\ e2.left \in -1 .. Window
    BY <1>4 DEF Entry
  <2>4. age \in 0 .. Window /\ age <= Window
    BY <1>4, <2>3, NumbersAssumption
  <2>5. age \in Ages
    BY <2>4 DEF Ages
  <2>6. e2.count <= n[age]
    BY <1>4, <2>2 DEF EntrySound
  <2>7. n[age] <= n[Window] /\ n[age] \in Nat /\ n[Window] \in Nat
    BY <2>2, <2>4, <2>5, AgesFacts DEF EntrySound, Ordered
  <2>8. QED  BY <2>1, <2>3, <2>6, <2>7, NumbersAssumption
<1>6. QED  BY <1>3, <1>4, <1>5

LEMMA RedisRepliesInv ==
    ASSUME LimiterInv, NEW r \in Reqs, RedisReplies(r)
    PROVE  /\ LimiterInv'
           /\ call'[r].at = "refused" => counted'[call[r].client][Redis][Window] > Limit
           /\ \A s \in Reqs \ {r} : call'[s] = call[s]
<1>1. Counts(Redis, entry[call[r].client][Redis], Script(entry[call[r].client][Redis]))
  BY DEF Counts
<1>2. QED  BY <1>1, DecideInv, PlacesFacts DEF RedisReplies

LEMMA FallbackInv ==
    ASSUME LimiterInv, NEW r \in Reqs, Fallback(r)
    PROVE  /\ LimiterInv'
           /\ call'[r].at = "refused" =>
                 counted'[call[r].client][call[r].server][Window] > Limit
           /\ \A s \in Reqs \ {r} : call'[s] = call[s]
<1> DEFINE p == call[r].server
<1>1. p \in Places /\ p # Redis
  BY PlacesFacts DEF LimiterInv, TypeOK, Call
<1>2. Counts(p, entry[call[r].client][p], Increment(entry[call[r].client][p]))
  BY <1>1 DEF Counts
<1>3. Decide(r, p, Increment(entry[call[r].client][p]))
  BY DEF Fallback
<1>4. QED  BY <1>1, <1>2, <1>3, DecideInv

LEMMA AttemptFailsInv ==
    ASSUME LimiterInv, NEW r \in Reqs, AttemptFails(r)
    PROVE  LimiterInv' /\ call'[r].at = "redis" /\ \A s \in Reqs \ {r} : call'[s] = call[s]
<1> DEFINE c == call[r].client
<1>1. /\ call[r] \in Call /\ call[r].at = "redis" /\ call[r].tries \in 0 .. Attempts - 1
      /\ c \in Clients /\ call[r].tries + 1 \in 0 .. Attempts
  BY NumbersAssumption DEF AttemptFails, LimiterInv, TypeOK, Call
<1>2. call' = [call EXCEPT ![r].tries = @ + 1] /\ admitted' = admitted
  BY DEF AttemptFails
<1>3. /\ call' \in [Reqs -> Call] /\ call'[r].at = "redis"
      /\ \A s \in Reqs \ {r} : call'[s] = call[s]
  BY <1>1, <1>2 DEF LimiterInv, TypeOK, Call
<1>4. CASE Count(c, Redis, Script(entry[c][Redis]))
  <2>1. Counts(Redis, entry[c][Redis], Script(entry[c][Redis]))
    BY DEF Counts
  <2>2. LimiterInv'
    BY <1>1, <1>2, <1>3, <1>4, <2>1, CountInv, PlacesFacts
  <2>3. QED  BY <1>3, <2>2
<1>5. CASE UNCHANGED <<entry, counted>>
  BY <1>2, <1>3, <1>5 DEF LimiterInv, TypeOK
<1>6. QED  BY <1>4, <1>5 DEF AttemptFails

\* The steps that count nothing.
LEMMA OtherStepsInv ==
    ASSUME LimiterInv, NEW r \in Reqs, Arrive(r) \/ GivesUp(r) \/ Finish(r)
    PROVE  LimiterInv' /\ call'[r].at # "refused" /\ \A s \in Reqs \ {r} : call'[s] = call[s]
<1>1. UNCHANGED <<entry, counted, admitted>>
  BY DEF Arrive, GivesUp, Finish
<1>2. call \in [Reqs -> Call]
  BY DEF LimiterInv, TypeOK
<1>3. \E k \in Call : k.at # "refused" /\ call' = [call EXCEPT ![r] = k]
  <2>1. CASE Arrive(r)
    <3>1. PICK c \in Clients, s \in Servers :
            call' = [call EXCEPT ![r] = [at |-> "redis", client |-> c, server |-> s, tries |-> 0]]
      BY <2>1 DEF Arrive
    <3>2. [at |-> "redis", client |-> c, server |-> s, tries |-> 0] \in Call
      BY NumbersAssumption DEF Call
    <3>3. QED  BY <3>1, <3>2
  <2>2. CASE GivesUp(r)
    <3> DEFINE k == [call[r] EXCEPT !.at = "memory"]
    <3>1. k \in Call /\ k.at # "refused"
      BY <1>2 DEF Call
    <3>2. call' = [call EXCEPT ![r] = k]
      BY <1>2, <2>2 DEF GivesUp
    <3>3. QED  BY <3>1, <3>2
  <2>3. CASE Finish(r)
    <3> DEFINE k == [call[r] EXCEPT !.at = "idle", !.tries = 0]
    <3>1. k \in Call /\ k.at # "refused"
      <4>1. call[r] \in Call /\ 0 \in 0 .. Attempts
        BY <1>2, NumbersAssumption
      <4>2. QED  BY <4>1 DEF Call
    <3>2. call' = [call EXCEPT ![r] = k]
      BY <1>2, <2>3 DEF Finish
    <3>3. QED  BY <3>1, <3>2
  <2>4. QED  BY <2>1, <2>2, <2>3
<1>4. QED  BY <1>1, <1>2, <1>3 DEF LimiterInv, TypeOK

LEMMA TickInv ==
    ASSUME LimiterInv, Tick
    PROVE  LimiterInv' /\ call' = call
<1>1. ASSUME NEW c \in Clients, NEW p \in Places
      PROVE  /\ AfterTick(p, entry[c][p]) \in Entry
             /\ EntrySound(p, AfterTick(p, entry[c][p]), Older(counted[c][p]), Older(admitted[c][p]))
             /\ Older(counted[c][p]) \in [Ages -> Nat] /\ Older(admitted[c][p]) \in [Ages -> Nat]
  <2>1. /\ entry[c][p] \in Entry
        /\ counted[c][p] \in [Ages -> Nat] /\ admitted[c][p] \in [Ages -> Nat]
        /\ EntrySound(p, entry[c][p], counted[c][p], admitted[c][p])
    BY DEF LimiterInv, TypeOK
  <2>2. Ordered(counted[c][p]) /\ Ordered(admitted[c][p])
    BY <2>1 DEF EntrySound
  <2>3. QED  BY <2>1, <2>2, TickSound, HistorySteps
<1>2. TypeOK'
  BY <1>1 DEF Tick, LimiterInv, TypeOK
<1>3. \A c \in Clients, p \in Places :
         EntrySound(p, entry'[c][p], counted'[c][p], admitted'[c][p])
  BY <1>1 DEF Tick
<1>4. QED  BY <1>2, <1>3 DEF Tick, LimiterInv

-----------------------------------------------------------------------------
\* Every entry keeps in step with what its client did within the last window.
THEOREM LimiterInvHolds == Spec => []LimiterInv
<1>1. LimiterInv /\ [Next]_vars => LimiterInv'
  <2> SUFFICES ASSUME LimiterInv, [Next]_vars PROVE LimiterInv'
    OBVIOUS
  <2>1. CASE Tick
    BY <2>1, TickInv
  <2>2. ASSUME NEW r \in Reqs, Arrive(r) \/ GivesUp(r) \/ Finish(r) PROVE LimiterInv'
    BY <2>2, OtherStepsInv
  <2>3. ASSUME NEW r \in Reqs, RedisReplies(r) PROVE LimiterInv'
    BY <2>3, RedisRepliesInv
  <2>4. ASSUME NEW r \in Reqs, AttemptFails(r) PROVE LimiterInv'
    BY <2>4, AttemptFailsInv
  <2>5. ASSUME NEW r \in Reqs, Fallback(r) PROVE LimiterInv'
    BY <2>5, FallbackInv
  <2>6. CASE UNCHANGED vars
    BY <2>6 DEF vars, LimiterInv, TypeOK
  <2>7. QED  BY <2>1, <2>2, <2>3, <2>4, <2>5, <2>6 DEF Next
<1>2. QED  BY InitInv, <1>1, PTL DEF Spec

\* No more than two windows' worth of requests of a client pass at a place within any
\* span as long as a window: the one that runs and the one before it.
THEOREM WindowBudgetHolds == Spec => []WindowBudget
<1>1. LimiterInv => WindowBudget
  <2> SUFFICES ASSUME LimiterInv, NEW c \in Clients, NEW p \in Places
               PROVE  admitted[c][p][Window] <= 2 * Limit
    BY DEF WindowBudget
  <2> DEFINE e == entry[c][p]
             f == admitted[c][p]
             age == Window - e.left
  <2>1. e.left \in -1 .. Window /\ f \in [Ages -> Nat] /\ EntrySound(p, e, counted[c][p], f)
    BY DEF LimiterInv, TypeOK, Entry
  <2>2. Limit \in Nat /\ Window \in Nat /\ f[Window] \in Nat
    BY <2>1, NumbersAssumption, AgesFacts
  <2>3. CASE e.left = -1
    <3>1. f[Window] <= Limit
      BY <2>1, <2>3 DEF EntrySound
    <3>2. QED  BY <2>2, <3>1
  <2>4. CASE e.left >= 0
    <3>1. f[age] <= Limit /\ f[Window] <= f[age] + Limit
      BY <2>1, <2>4 DEF EntrySound
    <3>2. age \in 0 .. Window
      BY <2>1, <2>2, <2>4
    <3>3. f[age] \in Nat
      BY <2>1, <3>2 DEF Ages
    <3>4. QED  BY <2>2, <3>1, <3>3
  <2>5. QED  BY <2>1, <2>2, <2>3, <2>4
<1>2. QED  BY <1>1, LimiterInvHolds, PTL

\* Whoever is refused was counted more than Limit times within the last window where
\* the decision was made, whatever the other clients, the failures of Redis and the
\* repeated commands did.
THEOREM RefusedForOwnHolds == Spec => RefusedForOwn
<1>1. ASSUME LimiterInv, [Next]_vars, NEW r \in Reqs,
             call[r].at # "refused", call'[r].at = "refused"
      PROVE  \E p \in {Redis, call[r].server} : counted'[call[r].client][p][Window] > Limit
  <2>1. CASE Tick
    BY <1>1, <2>1, TickInv
  <2>2. CASE UNCHANGED vars
    BY <1>1, <2>2 DEF vars
  <2>3. ASSUME NEW s \in Reqs, \/ Arrive(s) \/ RedisReplies(s) \/ AttemptFails(s)
                                \/ GivesUp(s) \/ Fallback(s) \/ Finish(s)
        PROVE  s = r
    BY <1>1, <2>3, OtherStepsInv, RedisRepliesInv, AttemptFailsInv, FallbackInv
  <2>4. CASE Arrive(r) \/ GivesUp(r) \/ Finish(r) \/ AttemptFails(r)
    BY <1>1, <2>4, OtherStepsInv, AttemptFailsInv
  <2>5. CASE RedisReplies(r)
    BY <1>1, <2>5, RedisRepliesInv
  <2>6. CASE Fallback(r)
    BY <1>1, <2>6, FallbackInv
  <2>7. QED  BY <1>1, <2>1, <2>2, <2>3, <2>4, <2>5, <2>6 DEF Next
<1>2. LimiterInv /\ [Next]_vars =>
        [\A r \in Reqs : (call[r].at # "refused" /\ call'[r].at = "refused") =>
            \E p \in {Redis, call[r].server} :
               counted'[call[r].client][p][Window] > Limit]_vars
  BY <1>1
<1>3. QED  BY <1>2, LimiterInvHolds, PTL DEF Spec, RefusedForOwn
=============================================================================
