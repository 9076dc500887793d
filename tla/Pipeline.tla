------------------------------ MODULE Pipeline ------------------------------
(***************************************************************************)
(* Pipeline: how one server process answers requests.  The Timeout         *)
(* middleware runs the rest of the chain in a goroutine of its own (the    *)
(* handler goroutine) and waits, in the connection's goroutine, for it or  *)
(* for the deadline.  Both write through a timeoutWriter, whose mutex      *)
(* covers WriteHeader, Write and sendTimeout but not the header map.       *)
(*                                                                         *)
(* gin keeps its contexts in a pool: a handler goroutine writes to         *)
(* whatever writer its context has at that moment.                         *)
(*                                                                         *)
(* What a handler computes is left out: it sets a header (RateLimit does,  *)
(* after its Redis call), reads the body its client sends, takes any time, *)
(* and answers once.  Reading waits for the client, who may stall: neither *)
(* the request's context nor the http.Server, which has no ReadTimeout,    *)
(* ends it.                                                                *)
(***************************************************************************)
EXTENDS Naturals, Sequences

CONSTANTS
    Reqs,      \* connections, with one request at a time
    Contexts   \* bound: gin contexts ever allocated

ASSUME NonEmptyAssumption == Reqs # {} /\ Contexts # {}

VARIABLES
    up,       \* the process runs
    outer,    \* per connection: where its own goroutine stands
    inner,    \* per connection: where its handler goroutine stands
    done,     \* per connection: the channel done is closed
    expired,  \* per connection: the request's context is done
    sent,     \* per connection: what is to be read has come, or the client is gone
    tw,       \* per connection: the timeoutWriter
    ctx,      \* per connection: the gin context its handler goroutine holds
    writer,   \* per context: the connection whose timeoutWriter it has
    wire      \* per connection: the answers whose body went into the response

vars == <<up, outer, inner, done, expired, sent, tw, ctx, writer, wire>>

\* "select": in Timeout's select; "send", "sending": in sendTimeout, before and after
\* it commits itself; "drain": waits for done; "return": everything is written.
Outer == {"idle", "select", "send", "sending", "drain", "return", "lost"}

\* "header", "type": about to set a header; "read": reads the request's body;
\* "status": about to call WriteHeader; "body": about to call Write; "close": c.Next is
\* back.
Inner == {"none", "header", "read", "work", "status", "type", "body", "close"}

\* locked: sendTimeout holds mu, and net/http copies the header map.
Writer == [timedOut : BOOLEAN, wrote : BOOLEAN, locked : BOOLEAN]

\* by: who wrote; of: the request the writer was serving.
Piece == [by : {"handler", "timeout"}, of : Reqs]

TypeOK ==
    /\ up \in BOOLEAN
    /\ outer \in [Reqs -> Outer]
    /\ inner \in [Reqs -> Inner]
    /\ done \in [Reqs -> BOOLEAN]
    /\ expired \in [Reqs -> BOOLEAN]
    /\ sent \in [Reqs -> BOOLEAN]
    /\ tw \in [Reqs -> Writer]
    /\ ctx \in [Reqs -> Contexts]
    /\ writer \in [Contexts -> Reqs]
    /\ wire \in [Reqs -> Seq(Piece)]

Fresh == [timedOut |-> FALSE, wrote |-> FALSE, locked |-> FALSE]

Init ==
    /\ up = TRUE
    /\ outer = [r \in Reqs |-> "idle"]
    /\ inner = [r \in Reqs |-> "none"]
    /\ done = [r \in Reqs |-> FALSE]
    /\ expired = [r \in Reqs |-> FALSE]
    /\ sent = [r \in Reqs |-> FALSE]
    /\ tw = [r \in Reqs |-> Fresh]
    /\ ctx = [r \in Reqs |-> CHOOSE c \in Contexts : TRUE]
    /\ writer = [c \in Contexts |-> CHOOSE r \in Reqs : TRUE]
    /\ wire = [r \in Reqs |-> <<>>]

OuterStep(r, from, to) == up /\ outer[r] = from /\ outer' = [outer EXCEPT ![r] = to]
InnerStep(r, from, to) == up /\ inner[r] = from /\ inner' = [inner EXCEPT ![r] = to]

\* A request is under way on the connection.
Active(r) == outer[r] \notin {"idle", "lost"}

\* The connection whose response the handler goroutine of r writes to.
Target(r) == writer[ctx[r]]

Put(q, by, r) == wire' = [wire EXCEPT ![q] = Append(@, [by |-> by, of |-> r])]

-----------------------------------------------------------------------------
(* The process and its clients.                                            *)

\* The process dies; the operating system closes its connections.
Crash ==
    /\ up' = FALSE
    /\ outer' = [r \in Reqs |-> IF outer[r] = "idle" THEN "idle" ELSE "lost"]
    /\ inner' = [r \in Reqs |-> "none"]
    /\ UNCHANGED <<done, expired, sent, tw, ctx, writer, wire>>

\* The container is started again.
Restart ==
    /\ ~up
    /\ up' = TRUE
    /\ UNCHANGED <<outer, inner, done, expired, sent, tw, ctx, writer, wire>>

\* The deadline passes, or the client goes away.
Expire(r) ==
    /\ up
    /\ Active(r)
    /\ ~expired[r]
    /\ expired' = [expired EXCEPT ![r] = TRUE]
    /\ UNCHANGED <<up, outer, inner, done, sent, tw, ctx, writer, wire>>

\* The rest of a request arrives, or its connection breaks, which ends the read as well.
ClientSends(r) ==
    /\ Active(r)
    /\ ~sent[r]
    /\ sent' = [sent EXCEPT ![r] = TRUE]
    /\ UNCHANGED <<up, outer, inner, done, expired, tw, ctx, writer, wire>>

-----------------------------------------------------------------------------
(* The connection's goroutine.                                             *)

InUse == {ctx[r] : r \in {q \in Reqs : Active(q)}}

\* A context is taken from the pool, Timeout puts its writer into it and starts the
\* handler goroutine.  net/http has read the header, of the body as much as has come.
Accept(r) ==
    /\ OuterStep(r, "idle", "select")
    /\ inner[r] = "none"
    /\ \E c \in Contexts \ InUse :
          /\ ctx' = [ctx EXCEPT ![r] = c]
          /\ writer' = [writer EXCEPT ![c] = r]
    /\ inner' = [inner EXCEPT ![r] = "header"]
    /\ done' = [done EXCEPT ![r] = FALSE]
    /\ expired' = [expired EXCEPT ![r] = FALSE]
    /\ \E all \in BOOLEAN : sent' = [sent EXCEPT ![r] = all]
    /\ tw' = [tw EXCEPT ![r] = Fresh]
    /\ wire' = [wire EXCEPT ![r] = <<>>]
    /\ UNCHANGED up

SelectDone(r) ==
    /\ OuterStep(r, "select", "return")
    /\ done[r]
    /\ UNCHANGED <<up, inner, done, expired, sent, tw, ctx, writer, wire>>

SelectExpired(r) ==
    /\ OuterStep(r, "select", "send")
    /\ expired[r]
    /\ UNCHANGED <<up, inner, done, expired, sent, tw, ctx, writer, wire>>

\* Mutations: timedOut is set before wrote is looked at; mu is not released.
SendNothingFlags(r) ==
    /\ OuterStep(r, "send", "drain")
    /\ tw[r].wrote
    /\ tw' = [tw EXCEPT ![r].timedOut = TRUE]
    /\ UNCHANGED <<up, inner, done, expired, sent, ctx, writer, wire>>
SendNothingLocks(r) ==
    /\ OuterStep(r, "send", "drain")
    /\ tw[r].wrote
    /\ tw' = [tw EXCEPT ![r].locked = TRUE]
    /\ UNCHANGED <<up, inner, done, expired, sent, ctx, writer, wire>>

\* sendTimeout after the handler has begun its answer: nothing to send.
SendNothing(r) ==
    /\ OuterStep(r, "send", "drain")
    /\ tw[r].wrote
    /\ UNCHANGED <<up, inner, done, expired, sent, tw, ctx, writer, wire>>

\* Mutation: wrote is not looked at.
SendAlways(r) ==
    /\ OuterStep(r, "send", "sending")
    /\ tw' = [tw EXCEPT ![r].timedOut = TRUE, ![r].locked = TRUE]
    /\ UNCHANGED <<up, inner, done, expired, sent, ctx, writer, wire>>

\* sendTimeout: mu is taken, WriteHeader(503) and Write make net/http copy the header.
SendBegin(r) ==
    /\ OuterStep(r, "send", "sending")
    /\ ~tw[r].wrote
    /\ tw' = [tw EXCEPT ![r].timedOut = TRUE, ![r].locked = TRUE]
    /\ UNCHANGED <<up, inner, done, expired, sent, ctx, writer, wire>>

SendBody(r) ==
    /\ OuterStep(r, "sending", "drain")
    /\ Put(r, "timeout", r)
    /\ tw' = [tw EXCEPT ![r].locked = FALSE]
    /\ UNCHANGED <<up, inner, done, expired, sent, ctx, writer>>

\* Mutation: the handler goroutine is not waited for.
DrainNot(r) ==
    /\ OuterStep(r, "drain", "return")
    /\ UNCHANGED <<up, inner, done, expired, sent, tw, ctx, writer, wire>>

\* <-done
Drain(r) ==
    /\ OuterStep(r, "drain", "return")
    /\ done[r]
    /\ UNCHANGED <<up, inner, done, expired, sent, tw, ctx, writer, wire>>

\* ServeHTTP returns: the response is flushed, the context goes back to the pool.
\* A lost connection is free again once its client has noticed.
Return(r) ==
    /\ outer[r] \in {"return", "lost"}
    /\ outer' = [outer EXCEPT ![r] = "idle"]
    /\ UNCHANGED <<up, inner, done, expired, sent, tw, ctx, writer, wire>>

-----------------------------------------------------------------------------
(* The handler goroutine.                                                  *)

\* c.Header, or the Content-Type of an answer.
SetHeader(r) ==
    /\ InnerStep(r, "header", "read") \/ InnerStep(r, "type", "body")
    /\ UNCHANGED <<up, outer, done, expired, sent, tw, ctx, writer, wire>>

\* The header map is written without mu: if net/http copies it at that moment, the Go
\* runtime ends the process (concurrent map iteration and map write) or does not notice.
HeaderRace(r) ==
    /\ up
    /\ inner[r] \in {"header", "type"}
    /\ tw[Target(r)].locked
    /\ Crash

\* ShouldBindJSON returns, with an error if the connection broke.  It does not look at
\* the request's context.
ReadBody(r) ==
    /\ InnerStep(r, "read", "work")
    /\ sent[r]
    /\ UNCHANGED <<up, outer, done, expired, sent, tw, ctx, writer, wire>>

\* The handler has its result, or an error: after the deadline its calls fail.
Work(r) ==
    /\ InnerStep(r, "work", "status")
    /\ UNCHANGED <<up, outer, done, expired, sent, tw, ctx, writer, wire>>

\* No goroutine but the connection's own has Recovery's defer.
Panic(r) == up /\ inner[r] \in {"header", "read", "work"} /\ Crash

\* timeoutWriter.WriteHeader
WriteHeader(r) ==
    LET q == Target(r) IN
    /\ InnerStep(r, "status", "type")
    /\ ~tw[q].locked
    /\ tw' = [tw EXCEPT ![q].wrote = @ \/ ~tw[q].timedOut]
    /\ UNCHANGED <<up, outer, done, expired, sent, ctx, writer, wire>>

\* timeoutWriter.Write
Write(r) ==
    LET q == Target(r) IN
    /\ InnerStep(r, "body", "close")
    /\ ~tw[q].locked
    /\ \/ /\ ~tw[q].timedOut
          /\ tw' = [tw EXCEPT ![q].wrote = TRUE]
          /\ Put(q, "handler", r)
       \/ tw[q].timedOut /\ UNCHANGED <<tw, wire>>
    /\ UNCHANGED <<up, outer, done, expired, sent, ctx, writer>>

\* close(done)
CloseDone(r) ==
    /\ InnerStep(r, "close", "none")
    /\ done' = [done EXCEPT ![r] = TRUE]
    /\ UNCHANGED <<up, outer, expired, sent, tw, ctx, writer, wire>>

-----------------------------------------------------------------------------
Connection(r) ==
    \/ SelectDone(r) \/ SelectExpired(r)
    \/ SendNothing(r) \/ SendBegin(r) \/ SendBody(r)
    \/ Drain(r) \/ Return(r)

Handler(r) ==
    \/ SetHeader(r) \/ ReadBody(r) \/ Work(r)
    \/ WriteHeader(r) \/ Write(r) \/ CloseDone(r)

Fault ==
    \/ Restart
    \/ \E r \in Reqs : Expire(r) \/ ClientSends(r) \/ HeaderRace(r) \/ Panic(r)

Next == Fault \/ \E r \in Reqs : Accept(r) \/ Connection(r) \/ Handler(r)

Spec == Init /\ [][Next]_vars

\* The Go scheduler runs every goroutine, no one holds mu for ever, and the calls a
\* handler makes with the request's context return, at the latest when it is done.
\* Nothing is assumed of clients: ReadBody is fair only once there is something to read.
FairSpec == Spec /\ \A r \in Reqs : WF_vars(Connection(r)) /\ WF_vars(Handler(r))

-----------------------------------------------------------------------------
(* Properties.                                                             *)

\* The response of a request never has two bodies, and is not let go without one: the
\* handler's answer and the 503 exclude each other at every interleaving of the
\* handler's WriteHeader and Write with sendTimeout.
OneWholeAnswer ==
    \A r \in Reqs : /\ Len(wire[r]) <= 1
                    /\ outer[r] = "return" => Len(wire[r]) = 1

\* No handler writes into the response of another request, although contexts are
\* used again: the handler goroutine is over before its context is.
OwnAnswer == \A r \in Reqs : \A i \in 1 .. Len(wire[r]) : wire[r][i].of = r

\* A request whose client does not stall is over in the end, also if its deadline passes
\* at any point, and whatever the other clients do: no goroutine waits for another for
\* ever.
EveryRequestEnds ==
    \A r \in Reqs : (outer[r] # "idle" /\ sent[r]) ~> (outer[r] = "idle")

\* Pipeline implements Answers: one answer per request before its connection is let
\* go, or the process has died.
Conn == [r \in Reqs |->
           IF outer[r] \in {"idle", "lost"} THEN outer[r]
           ELSE IF wire[r] = <<>> THEN "open" ELSE "answered"]

Promise == INSTANCE Answers WITH conn <- Conn

ImplementsAnswers == Promise!Spec

-----------------------------------------------------------------------------
(* The inductive invariant.                                                *)

\* A request under way has a live process and a context of its own, and its handler
\* goroutine is over exactly when done is closed.
Goroutines(r) ==
    /\ Active(r) => up /\ writer[ctx[r]] = r /\ (inner[r] = "none" <=> done[r])
    /\ ~Active(r) => inner[r] = "none"
    /\ outer[r] = "return" => inner[r] = "none"

\* Whoever commits first, the handler by wrote or the timeout by timedOut, has the
\* response for itself.
Commitment(r) ==
    Active(r) =>
       /\ tw[r].locked <=> outer[r] = "sending"
       /\ tw[r].timedOut => ~tw[r].wrote
       /\ outer[r] \in {"select", "send"} => ~tw[r].timedOut
       /\ outer[r] = "sending" => tw[r].timedOut
       /\ inner[r] \in {"header", "read", "work", "status"} => ~tw[r].wrote
       /\ inner[r] \in {"type", "body", "close", "none"} => tw[r].wrote \/ tw[r].timedOut

\* What is in the response follows from who committed and how far that one is.
Response(r) ==
    /\ wire[r] \in {<<>>, <<[by |-> "handler", of |-> r]>>, <<[by |-> "timeout", of |-> r]>>}
    /\ Active(r) =>
          (wire[r] = <<>> <=>
              (tw[r].locked \/ (~tw[r].timedOut /\ inner[r] \notin {"close", "none"})))

IInv == TypeOK /\ \A r \in Reqs : Goroutines(r) /\ Commitment(r) /\ Response(r)

-----------------------------------------------------------------------------
(* What the repository says and the code does not do.                      *)

\* README.md, Recovery: "Capture les panics, [...] retourne 500 JSON".  A panic in a
\* handler costs its request, not the process.
PanicsAreCaught == [][\A r \in Reqs : (inner[r] = "work" /\ up) => up']_vars

\* TODO.md, Timeout: "limiter la durée des requêtes (ex : 30s) pour éviter les goroutine
\* leaks".  A request whose deadline has passed is over in the end.  Timeout waits for a
\* handler goroutine, which may wait for its client's body for ever.
TimeoutEndsRequests ==
    \A r \in Reqs : (expired[r] /\ Active(r)) ~> (outer[r] = "idle")
=============================================================================
