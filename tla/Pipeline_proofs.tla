-------------------------- MODULE Pipeline_proofs --------------------------
(***************************************************************************)
(* Proofs about Pipeline, for any number of connections and contexts.      *)
(***************************************************************************)
EXTENDS Pipeline, TLAPS

USE DEF Outer, Inner

Part(r) == Goroutines(r) /\ Commitment(r) /\ Response(r)

\* A handler goroutine that runs belongs to a request under way and writes to its
\* response.
LEMMA OwnTarget ==
    ASSUME IInv, NEW r \in Reqs, inner[r] # "none"
    PROVE  Active(r) /\ up /\ Target(r) = r
  BY DEF IInv, Goroutines, Target

LEMMA TypeInit == Init => TypeOK
  <1> SUFFICES ASSUME Init PROVE TypeOK
    OBVIOUS
  <1>1. (CHOOSE c \in Contexts : TRUE) \in Contexts /\ (CHOOSE r \in Reqs : TRUE) \in Reqs
    BY NonEmptyAssumption
  <1>2. Fresh \in Writer /\ <<>> \in Seq(Piece)
    BY DEF Fresh, Writer
  <1>3. wire \in [Reqs -> Seq(Piece)]
    BY <1>2 DEF Init
  <1>4. tw \in [Reqs -> Writer]
    BY <1>2 DEF Init
  <1>5. QED  BY <1>1, <1>3, <1>4 DEF Init, TypeOK

LEMMA TypeNext == TypeOK /\ [Next]_vars => TypeOK'
<1> SUFFICES ASSUME TypeOK, [Next]_vars PROVE TypeOK'
  OBVIOUS
<1> USE DEF TypeOK
<1>1. CASE Crash
  BY <1>1 DEF Crash
<1>2. CASE Restart
  BY <1>2 DEF Restart
<1>3. ASSUME NEW r \in Reqs, NEW q \in Reqs, NEW by \in {"handler", "timeout"}, Put(q, by, r)
      PROVE  wire' \in [Reqs -> Seq(Piece)]
  BY <1>3 DEF Put, Piece
<1>4. ASSUME NEW r \in Reqs PROVE Target(r) \in Reqs /\ tw[r] \in Writer /\ tw[Target(r)] \in Writer
  BY DEF Target
<1>5. ASSUME NEW r \in Reqs, Expire(r) \/ ClientSends(r) PROVE TypeOK'
  BY <1>5 DEF Expire, ClientSends
<1>6. ASSUME NEW r \in Reqs, Accept(r) PROVE TypeOK'
  BY <1>6 DEF Accept, OuterStep, Fresh, Writer
<1>7. ASSUME NEW r \in Reqs, Connection(r) PROVE TypeOK'
  <2>1. CASE SelectDone(r) \/ SelectExpired(r) \/ SendNothing(r) \/ Drain(r)
    BY <2>1 DEF SelectDone, SelectExpired, SendNothing, Drain, OuterStep
  <2>2. CASE SendBegin(r)
    BY <2>2, <1>4 DEF SendBegin, OuterStep, Writer
  <2>3. CASE SendBody(r)
    BY <2>3, <1>3, <1>4 DEF SendBody, OuterStep, Writer
  <2>4. CASE Return(r)
    BY <2>4 DEF Return
  <2>5. QED  BY <1>7, <2>1, <2>2, <2>3, <2>4 DEF Connection
<1>8. ASSUME NEW r \in Reqs, Handler(r) PROVE TypeOK'
  <2>1. CASE SetHeader(r) \/ ReadBody(r) \/ Work(r) \/ CloseDone(r)
    BY <2>1 DEF SetHeader, ReadBody, Work, CloseDone, InnerStep
  <2>2. CASE WriteHeader(r)
    BY <2>2, <1>4 DEF WriteHeader, InnerStep, Writer
  <2>3. CASE Write(r)
    <3>1. wire' \in [Reqs -> Seq(Piece)]
      BY <2>3, <1>3, <1>4 DEF Write
    <3>2. tw' \in [Reqs -> Writer]
      <4>1. tw' = tw \/ tw' = [tw EXCEPT ![Target(r)].wrote = TRUE]
        BY ONLY <2>3 DEF Write
      <4>2. [tw[Target(r)] EXCEPT !.wrote = TRUE] \in Writer
        BY ONLY <1>4 DEF Writer
      <4>3. QED  BY <4>1, <4>2, <1>4
    <3>3. QED  BY <2>3, <3>1, <3>2 DEF Write, InnerStep
  <2>4. QED  BY <1>8, <2>1, <2>2, <2>3 DEF Handler
<1>9. QED
  BY <1>1, <1>2, <1>5, <1>6, <1>7, <1>8 DEF Next, Fault, HeaderRace, Panic, vars

-----------------------------------------------------------------------------
(* A step of one connection leaves what is known of the others alone.      *)

LEMMA Frame ==
    ASSUME NEW q \in Reqs, Part(q),
           up' = up, outer'[q] = outer[q], inner'[q] = inner[q], done'[q] = done[q],
           tw'[q] = tw[q], wire'[q] = wire[q],
           Active(q) => writer'[ctx'[q]] = writer[ctx[q]]
    PROVE  Part(q)'
  BY DEF Part, Goroutines, Commitment, Response, Active

LEMMA AcceptStep ==
    ASSUME IInv, NEW r \in Reqs, Accept(r)
    PROVE  \A q \in Reqs : Part(q)'
<1>1. PICK c \in Contexts \ InUse :
         ctx' = [ctx EXCEPT ![r] = c] /\ writer' = [writer EXCEPT ![c] = r]
  BY DEF Accept
<1>2. Part(r)'
  <2>1. /\ up /\ up' /\ outer'[r] = "select" /\ inner'[r] = "header" /\ done'[r] = FALSE
        /\ tw'[r] = Fresh /\ wire'[r] = <<>> /\ writer'[ctx'[r]] = r
    BY <1>1 DEF Accept, OuterStep, IInv, TypeOK
  <2>2. QED  BY <2>1 DEF Part, Goroutines, Commitment, Response, Active, Fresh
<1>3. ASSUME NEW q \in Reqs, q # r PROVE Part(q)'
  <2>1. Active(q) => ctx[q] # c
    BY <1>1 DEF InUse
  <2>2. Active(q) => writer'[ctx'[q]] = writer[ctx[q]]
    BY <1>1, <1>3, <2>1 DEF IInv, TypeOK
  <2>3. Part(q)
    BY DEF IInv, Part
  <2>4. /\ up' = up /\ outer'[q] = outer[q] /\ inner'[q] = inner[q] /\ done'[q] = done[q]
        /\ tw'[q] = tw[q] /\ wire'[q] = wire[q]
    BY <1>3 DEF Accept, OuterStep, IInv, TypeOK
  <2>5. QED  BY <2>2, <2>3, <2>4, Frame
<1>4. QED  BY <1>2, <1>3

\* What a step of r may change: its own entries.
Local(r) ==
    /\ up' = up /\ ctx' = ctx /\ writer' = writer
    /\ \A q \in Reqs \ {r} :
          /\ outer'[q] = outer[q] /\ inner'[q] = inner[q] /\ done'[q] = done[q]
          /\ tw'[q] = tw[q] /\ wire'[q] = wire[q]

LEMMA LocalStep ==
    ASSUME IInv, NEW r \in Reqs, Local(r), Part(r)'
    PROVE  \A q \in Reqs : Part(q)'
<1>1. ASSUME NEW q \in Reqs, q # r PROVE Part(q)'
  <2>1. Part(q)
    BY DEF IInv, Part
  <2>2. QED  BY <1>1, <2>1, Frame DEF Local
<1>2. QED  BY <1>1

LEMMA ConnectionStep ==
    ASSUME IInv, NEW r \in Reqs, Connection(r)
    PROVE  Local(r) /\ Part(r)'
<1>1. Local(r)
  BY DEF Connection, SelectDone, SelectExpired, SendNothing, SendBegin, SendBody, Drain, Return,
         OuterStep, Put, IInv, TypeOK, Local
<1> USE DEF IInv, TypeOK, Goroutines, Commitment, Response, Active, OuterStep
<1>2. tw[r] \in Writer /\ Goroutines(r) /\ Commitment(r) /\ Response(r)
  OBVIOUS
<1>3. CASE SelectDone(r)
  BY <1>1, <1>2, <1>3 DEF SelectDone, Part
<1>4. CASE SelectExpired(r)
  <2>1. outer[r] = "select" /\ outer'[r] = "send" /\ UNCHANGED <<up, inner, done, tw, ctx, writer, wire>>
    BY <1>4 DEF SelectExpired
  <2>2. Goroutines(r)'
    BY <1>2, <2>1
  <2>3. Commitment(r)'
    BY <1>2, <2>1
  <2>4. Response(r)'
    BY <1>2, <2>1
  <2>5. QED  BY <1>1, <2>2, <2>3, <2>4 DEF Part
<1>5. CASE SendNothing(r)
  BY <1>1, <1>2, <1>5 DEF SendNothing, Part
<1>6. CASE SendBegin(r)
  <2>1. /\ outer[r] = "send" /\ outer'[r] = "sending" /\ UNCHANGED <<up, inner, done, ctx, writer, wire>>
        /\ ~tw[r].wrote /\ tw'[r] = [tw[r] EXCEPT !.timedOut = TRUE, !.locked = TRUE]
    BY <1>6 DEF SendBegin
  <2>2. tw'[r].timedOut = TRUE /\ tw'[r].locked = TRUE /\ tw'[r].wrote = FALSE
    BY <1>2, <2>1 DEF Writer
  <2>3. Goroutines(r)'
    BY <1>2, <2>1
  <2>4. Commitment(r)'
    BY <1>2, <2>1, <2>2
  <2>5. tw[r].timedOut = FALSE /\ inner[r] \notin {"close", "none"}
    BY <1>2, <2>1 DEF Writer
  <2>6. Response(r)'
    BY <1>2, <2>1, <2>2, <2>5
  <2>7. QED  BY <1>1, <2>3, <2>4, <2>6 DEF Part
<1>7. CASE SendBody(r)
  <2>1. /\ outer[r] = "sending" /\ outer'[r] = "drain" /\ UNCHANGED <<up, inner, done, ctx, writer>>
        /\ tw'[r] = [tw[r] EXCEPT !.locked = FALSE]
    BY <1>7 DEF SendBody
  <2>2. /\ tw[r].timedOut = TRUE /\ tw'[r].timedOut = TRUE /\ tw'[r].locked = FALSE
        /\ tw[r].wrote = FALSE /\ tw'[r].wrote = FALSE
    BY <1>2, <2>1 DEF Writer
  <2>3. wire[r] = <<>>
    BY <1>2, <2>1
  <2>4. wire'[r] = <<[by |-> "timeout", of |-> r]>>
    BY <1>7, <2>3 DEF SendBody, Put
  <2>5. Goroutines(r)'
    BY <1>2, <2>1
  <2>6. Commitment(r)'
    BY <1>2, <2>1, <2>2
  <2>7. Response(r)'
    BY <2>1, <2>2, <2>4
  <2>8. QED  BY <1>1, <2>5, <2>6, <2>7 DEF Part
<1>8. CASE Drain(r)
  BY <1>1, <1>2, <1>8 DEF Drain, Part
<1>9. CASE Return(r)
  BY <1>1, <1>2, <1>9 DEF Return, Part
<1>10. QED  BY <1>1, <1>3, <1>4, <1>5, <1>6, <1>7, <1>8, <1>9 DEF Connection

LEMMA HandlerStep ==
    ASSUME IInv, NEW r \in Reqs, Handler(r)
    PROVE  Local(r) /\ Part(r)'
<1>1. inner[r] # "none"
  BY DEF Handler, SetHeader, ReadBody, Work, WriteHeader, Write, CloseDone, InnerStep
<1>2. Active(r) /\ up /\ Target(r) = r
  BY <1>1, OwnTarget
<1>3. outer[r] \in {"select", "send", "sending", "drain"}
  BY <1>1, <1>2 DEF IInv, TypeOK, Goroutines, Active
<1>4. Local(r)
  <2> USE DEF InnerStep, IInv, TypeOK, Local
  <2>1. CASE SetHeader(r) \/ ReadBody(r) \/ Work(r) \/ CloseDone(r)
    BY <1>2, <2>1 DEF SetHeader, ReadBody, Work, CloseDone
  <2>2. CASE WriteHeader(r)
    BY <1>2, <2>2 DEF WriteHeader
  <2>3. CASE Write(r)
    BY <1>2, <2>3 DEF Write, Put
  <2>4. QED  BY <2>1, <2>2, <2>3 DEF Handler
<1> USE DEF IInv, TypeOK, Goroutines, Commitment, Response, Active, InnerStep
<1>5. tw[r] \in Writer /\ Goroutines(r) /\ Commitment(r) /\ Response(r)
  OBVIOUS
<1>6. CASE SetHeader(r)
  BY <1>2, <1>3, <1>4, <1>5, <1>6 DEF SetHeader, Part
<1>7. CASE ReadBody(r) \/ Work(r)
  <2>1. inner[r] \in {"read", "work"} /\ inner'[r] \in {"work", "status"}
    BY <1>7 DEF ReadBody, Work
  <2>2. UNCHANGED <<up, outer, done, tw, ctx, writer, wire>>
    BY <1>7 DEF ReadBody, Work
  <2>3. Goroutines(r)'
    BY <1>2, <1>3, <1>5, <2>1, <2>2
  <2>4. Commitment(r)'
    BY <1>2, <1>5, <2>1, <2>2
  <2>5. Response(r)'
    BY <1>2, <1>5, <2>1, <2>2
  <2>6. QED  BY <1>4, <2>3, <2>4, <2>5 DEF Part
<1>8. CASE WriteHeader(r)
  <2>1. /\ inner[r] = "status" /\ inner'[r] = "type" /\ UNCHANGED <<up, outer, done, ctx, writer, wire>>
        /\ ~tw[r].locked /\ tw'[r] = [tw[r] EXCEPT !.wrote = @ \/ ~tw[r].timedOut]
    BY <1>2, <1>8 DEF WriteHeader
  <2>2. /\ tw'[r].timedOut = tw[r].timedOut /\ tw'[r].locked = FALSE /\ tw[r].locked = FALSE
        /\ tw[r].wrote = FALSE /\ tw'[r].wrote = ~tw[r].timedOut
    BY <1>2, <1>5, <2>1 DEF Writer
  <2>3. Goroutines(r)'
    BY <1>2, <1>3, <1>5, <2>1
  <2>4. Commitment(r)'
    BY <1>2, <1>5, <2>1, <2>2
  <2>5. Response(r)'
    BY <1>2, <1>5, <2>1, <2>2
  <2>6. QED  BY <1>4, <2>3, <2>4, <2>5 DEF Part
<1>9. CASE Write(r)
  <2>1. /\ inner[r] = "body" /\ inner'[r] = "close" /\ UNCHANGED <<up, outer, done, ctx, writer>>
        /\ ~tw[r].locked
    BY <1>2, <1>9 DEF Write
  <2>2. Goroutines(r)'
    BY <1>2, <1>3, <1>5, <2>1
  <2>3. CASE tw[r].timedOut
    <3>1. tw'[r] = tw[r] /\ wire'[r] = wire[r]
      BY <1>2, <1>9, <2>3 DEF Write
    <3>2. Commitment(r)'
      BY <1>2, <1>5, <2>1, <3>1
    <3>3. Response(r)'
      BY <1>2, <1>5, <2>1, <2>3, <3>1
    <3>4. QED  BY <1>4, <2>2, <3>2, <3>3 DEF Part
  <2>4. CASE ~tw[r].timedOut
    <3>1. wire[r] = <<>>
      BY <1>2, <1>5, <2>1, <2>4
    <3>2. wire'[r] = <<[by |-> "handler", of |-> r]>>
      BY <1>2, <1>9, <2>4, <3>1 DEF Write, Put
    <3>3. tw'[r] = [tw[r] EXCEPT !.wrote = TRUE]
      <4>1. tw' = [tw EXCEPT ![r].wrote = TRUE]
        BY ONLY <1>2, <1>9, <2>4 DEF Write
      <4>2. QED  BY <4>1
    <3>4. tw'[r].timedOut = FALSE /\ tw'[r].locked = FALSE /\ tw'[r].wrote = TRUE
      BY <1>5, <2>1, <2>4, <3>3 DEF Writer
    <3>5. Commitment(r)'
      BY <1>2, <1>5, <2>1, <2>4, <3>4
    <3>6. Response(r)'
      BY <2>1, <3>2, <3>4
    <3>7. QED  BY <1>4, <2>2, <3>5, <3>6 DEF Part
  <2>5. QED  BY <2>3, <2>4
<1>10. CASE CloseDone(r)
  BY <1>2, <1>3, <1>4, <1>5, <1>10 DEF CloseDone, Part
<1>11. QED  BY <1>4, <1>6, <1>7, <1>8, <1>9, <1>10 DEF Handler

LEMMA FaultStep ==
    ASSUME IInv, Fault
    PROVE  \A q \in Reqs : Part(q)'
<1> USE DEF IInv, TypeOK, Part, Goroutines, Commitment, Response, Active
<1>1. CASE Restart
  BY <1>1 DEF Restart
<1>2. ASSUME NEW r \in Reqs, Expire(r) \/ ClientSends(r) PROVE \A q \in Reqs : Part(q)'
  BY <1>2 DEF Expire, ClientSends
<1>3. CASE Crash
  BY <1>3 DEF Crash
<1>4. QED  BY <1>1, <1>2, <1>3 DEF Fault, HeaderRace, Panic

-----------------------------------------------------------------------------

\* The inductive invariant holds in every state.
THEOREM Invariance == Spec => []IInv
<1>1. Init => IInv
  BY TypeInit DEF Init, IInv, Goroutines, Commitment, Response, Active
<1>2. IInv /\ [Next]_vars => IInv'
  <2> SUFFICES ASSUME IInv, [Next]_vars PROVE IInv'
    OBVIOUS
  <2>1. TypeOK'
    BY TypeNext DEF IInv
  <2>2. \A q \in Reqs : Part(q)'
    <3>1. CASE Fault
      BY <3>1, FaultStep
    <3>2. ASSUME NEW r \in Reqs, Accept(r) PROVE \A q \in Reqs : Part(q)'
      BY <3>2, AcceptStep
    <3>3. ASSUME NEW r \in Reqs, Connection(r) \/ Handler(r) PROVE \A q \in Reqs : Part(q)'
      BY <3>3, ConnectionStep, HandlerStep, LocalStep
    <3>4. CASE UNCHANGED vars
      BY <3>4 DEF vars, IInv, Part, Goroutines, Commitment, Response, Active
    <3>5. QED  BY <3>1, <3>2, <3>3, <3>4 DEF Next
  <2>3. QED  BY <2>1, <2>2 DEF IInv, Part
<1>3. QED  BY <1>1, <1>2, PTL DEF Spec

\* Every response has one body when it is let go and never two: the handler's answer
\* and the timeout's exclude each other (timeoutWriter).
THEOREM OneWholeAnswerHolds == Spec => []OneWholeAnswer
<1>1. ASSUME IInv, NEW r \in Reqs
      PROVE  Len(wire[r]) <= 1 /\ (outer[r] = "return" => Len(wire[r]) = 1)
  <2>1. wire[r] = <<>> \/ \E p \in Piece : wire[r] = <<p>>
    BY <1>1 DEF IInv, Response, Piece
  <2>2. outer[r] = "return" => wire[r] # <<>>
    BY <1>1 DEF IInv, Goroutines, Commitment, Response, Active
  <2>3. Len(<<>>) = 0 /\ \A p \in Piece : Len(<<p>>) = 1
    OBVIOUS
  <2>4. CASE wire[r] = <<>>
    BY ONLY <2>2, <2>3, <2>4
  <2>5. CASE wire[r] # <<>>
    <3>1. Len(wire[r]) = 1
      BY ONLY <2>1, <2>3, <2>5
    <3>2. QED  BY ONLY <3>1
  <2>6. QED  BY <2>4, <2>5
<1>2. IInv => OneWholeAnswer
  BY <1>1 DEF OneWholeAnswer
<1>3. QED  BY <1>2, Invariance, PTL

\* No handler writes into another request's response, however contexts are used again
\* (Timeout waits for done before it returns).
THEOREM OwnAnswerHolds == Spec => []OwnAnswer
<1>1. IInv => OwnAnswer
  BY DEF IInv, OwnAnswer, Response
<1>2. QED  BY <1>1, Invariance, PTL

-----------------------------------------------------------------------------
(* The refinement of Answers.                                              *)

\* A step of one connection moves only its own entry of Conn.
LEMMA LocalConn ==
    ASSUME NEW r \in Reqs, Local(r), NEW s,
           s = IF outer'[r] \in {"idle", "lost"} THEN outer'[r]
               ELSE IF wire'[r] = <<>> THEN "open" ELSE "answered"
    PROVE  Conn' = [Conn EXCEPT ![r] = s]
  BY DEF Conn, Local

\* A step that moves nothing a client can see.
LEMMA SameConn ==
    ASSUME NEW r \in Reqs, Local(r), wire'[r] = wire[r],
           outer'[r] = outer[r] \/ (Active(r) /\ Active(r)')
    PROVE  Conn' = Conn
<1>1. \A q \in Reqs : wire'[q] = wire[q] /\ (outer'[q] = outer[q] \/ (Active(q) /\ Active(q)'))
  BY DEF Local
<1>2. QED  BY <1>1 DEF Conn, Active

LEMMA AcceptOpens ==
    ASSUME IInv, NEW r \in Reqs, Accept(r)
    PROVE  Promise!Open(r)
<1>1. Conn[r] = "idle"
  BY DEF Accept, OuterStep, Conn
<1>2. Conn' = [Conn EXCEPT ![r] = "open"]
  <2>1. outer'[r] = "select" /\ wire'[r] = <<>>
    BY DEF IInv, TypeOK, Accept, OuterStep
  <2>2. \A q \in Reqs \ {r} : outer'[q] = outer[q] /\ wire'[q] = wire[q]
    BY DEF IInv, TypeOK, Accept, OuterStep
  <2>3. QED  BY <2>1, <2>2 DEF Conn
<1>3. QED  BY <1>1, <1>2 DEF Promise!Open

LEMMA ConnectionAnswers ==
    ASSUME IInv, NEW r \in Reqs, Connection(r)
    PROVE  Promise!Answer(r) \/ Promise!Close(r) \/ Conn' = Conn
<1>1. Local(r)
  BY ConnectionStep
<1>2. CASE SelectDone(r) \/ SelectExpired(r) \/ SendNothing(r) \/ SendBegin(r) \/ Drain(r)
  <2>1. wire' = wire /\ Active(r) /\ Active(r)'
    BY <1>2 DEF SelectDone, SelectExpired, SendNothing, SendBegin, Drain, OuterStep, Active, IInv, TypeOK
  <2>2. QED  BY <1>1, <2>1, SameConn
<1>3. CASE SendBody(r)
  <2>1. outer[r] = "sending" /\ outer'[r] = "drain"
    BY <1>3 DEF SendBody, OuterStep, IInv, TypeOK
  <2>2. wire[r] = <<>>
    BY <2>1 DEF IInv, Commitment, Response, Active
  <2>3. wire'[r] = <<[by |-> "timeout", of |-> r]>>
    BY <1>3, <2>2 DEF SendBody, Put, IInv, TypeOK
  <2>4. Conn[r] = "open" /\ Conn' = [Conn EXCEPT ![r] = "answered"]
    BY <1>1, <2>1, <2>2, <2>3, LocalConn DEF Conn
  <2>5. QED  BY <2>4 DEF Promise!Answer
<1>4. CASE Return(r)
  <2>1. outer[r] \in {"return", "lost"} /\ outer'[r] = "idle"
    BY <1>4 DEF Return, IInv, TypeOK
  <2>2. outer[r] = "return" => wire[r] # <<>>
    BY DEF IInv, Goroutines, Commitment, Response, Active
  <2>3. Conn[r] \in {"answered", "lost"}
    BY <2>1, <2>2 DEF Conn
  <2>4. Conn' = [Conn EXCEPT ![r] = "idle"]
    BY <1>1, <2>1, LocalConn
  <2>5. QED  BY <2>3, <2>4 DEF Promise!Close
<1>5. QED  BY <1>2, <1>3, <1>4 DEF Connection

LEMMA HandlerAnswers ==
    ASSUME IInv, NEW r \in Reqs, Handler(r)
    PROVE  Promise!Answer(r) \/ Conn' = Conn
<1>1. Local(r)
  BY HandlerStep
<1>2. inner[r] # "none"
  BY DEF Handler, SetHeader, ReadBody, Work, WriteHeader, Write, CloseDone, InnerStep
<1>3. Active(r) /\ Target(r) = r
  BY <1>2, OwnTarget
<1>4. outer' = outer
  BY DEF Handler, SetHeader, ReadBody, Work, WriteHeader, Write, CloseDone
<1>5. CASE wire'[r] = wire[r]
  BY <1>1, <1>4, <1>5, SameConn
<1>6. CASE wire'[r] # wire[r]
  <2>1. Write(r) /\ ~tw[r].timedOut /\ ~tw[r].locked /\ inner[r] = "body" /\ Put(r, "handler", r)
    BY <1>3, <1>6 DEF Handler, SetHeader, ReadBody, Work, WriteHeader, Write, CloseDone, InnerStep
  <2>2. wire[r] = <<>>
    BY <1>3, <2>1 DEF IInv, Response, Active
  <2>3. wire'[r] = <<[by |-> "handler", of |-> r]>>
    BY <2>1, <2>2 DEF Put, IInv, TypeOK
  <2>4. Conn[r] = "open" /\ Conn' = [Conn EXCEPT ![r] = "answered"]
    BY <1>1, <1>3, <1>4, <2>2, <2>3, LocalConn DEF Conn, Active
  <2>5. QED  BY <2>4 DEF Promise!Answer
<1>7. QED  BY <1>5, <1>6

LEMMA FaultDies ==
    ASSUME IInv, Fault
    PROVE  Promise!Die \/ Conn' = Conn
<1>1. CASE Crash
  <2>1. Conn' = [r \in Reqs |-> IF Conn[r] = "idle" THEN "idle" ELSE "lost"]
    BY <1>1 DEF Crash, Conn
  <2>2. QED  BY <2>1 DEF Promise!Die
<1>2. CASE UNCHANGED <<outer, wire>>
  BY <1>2 DEF Conn
<1>3. QED  BY <1>1, <1>2 DEF Fault, Restart, Expire, ClientSends, HeaderRace, Panic

\* The server keeps what Answers promises: every step of Pipeline is a step of Answers or
\* one its client does not see.
THEOREM Refinement == Spec => ImplementsAnswers
<1>1. Init => Promise!Init
  BY DEF Init, Promise!Init, Conn
<1>2. IInv /\ [Next]_vars => [Promise!Next]_Conn
  <2> SUFFICES ASSUME IInv, [Next]_vars PROVE Promise!Next \/ Conn' = Conn
    OBVIOUS
  <2>1. CASE Fault
    BY <2>1, FaultDies DEF Promise!Next
  <2>2. ASSUME NEW r \in Reqs, Accept(r) PROVE Promise!Next
    BY <2>2, AcceptOpens DEF Promise!Next
  <2>3. ASSUME NEW r \in Reqs, Connection(r) \/ Handler(r) PROVE Promise!Next \/ Conn' = Conn
    BY <2>3, ConnectionAnswers, HandlerAnswers DEF Promise!Next
  <2>4. CASE UNCHANGED vars
    BY <2>4 DEF vars, Conn
  <2>5. QED  BY <2>1, <2>2, <2>3, <2>4 DEF Next
<1>3. QED  BY <1>1, <1>2, Invariance, PTL DEF Spec, ImplementsAnswers, Promise!Spec
=============================================================================
