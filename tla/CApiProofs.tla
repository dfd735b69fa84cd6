----------------------------- MODULE CApiProofs -----------------------------
(***************************************************************************)
(* Proofs about CApi, for every set of statements, streams and options and *)
(* any number of contexts and cancellations: handles match structs, Init   *)
(* applies what was asked for, no call begins after a panic, and the first *)
(* Cancel reaches the call it finds.                                       *)
(***************************************************************************)
EXTENDS CApi, TLAPS

\* A call on its way to a new context was let in while one could be made.
RoomForContext == call.at \in {"check", "fire", "dropCtx", "dropCancel", "newCtx"} => made < MaxContexts

\* The call in progress, if it is one under a context, has a place for it.
CallCancellable == call.at # "idle" => call.x \in Cancellable

\* Only a context that was made can be cancelled: by what a struct keeps, by
\* what a thread read of it, or later by what a call will leave there.
CancelsMade ==
  /\ \A x \in Cancellable : ctx[x] <= made /\ cancel[x] <= made
  /\ call.fn <= made /\ call.k <= made /\ canceller.fn <= made

\* Before Init of the connection every option asked for is kept in initArgs,
\* and nothing has succeeded; afterwards the two grow together.
OptionsKept == Cn \in data /\ Cn \notin ready => inited # "ok" /\ asked = args

IInv ==
  /\ TypeOK /\ HandlesMatch /\ OptionsApplied
  /\ RoomForContext /\ CallCancellable /\ CancelsMade /\ OptionsKept

USE CApiAssumption DEF Cancellable

---------------------------------------------------------------------------
(* What calls have in common.                                              *)

\* A call that changes nothing but its status.
LEMMA ReturnInv ==
  ASSUME IInv, NEW status \in {"none", "ok", "failed"}, Return(status)
  PROVE  IInv'
BY DEF IInv, TypeOK, HandlesMatch, OptionsApplied, RoomForContext, CallCancellable, CancelsMade, OptionsKept,
       Return, handles, options, contexts, cancelling

LEMMA AskInv ==
  ASSUME IInv, NEW x, Ask(x)
  PROVE  IInv'
<1>1. PICK status \in {"ok", "failed"} : Return(status)
  BY DEF Ask
<1> QED
  BY <1>1, ReturnInv

\* A call under a context is let in only with its object there, no panic
\* before, and room for its context.
LEMMA BeginInv ==
  ASSUME IInv, NEW x \in Cancellable, NEW out \in {Db} \cup Streams,
         NEW op \in {"metadata", "plain", "local", "query", "update", "rows", "empty", "refused"},
         Begin(x, op, out)
  PROVE  IInv'
<1>1. CASE ~Initialised(x)
  BY <1>1, ReturnInv DEF Begin
<1>2. CASE Initialised(x)
  <2>1. ~poisoned /\ made < MaxContexts
    BY <1>2 DEF Begin, Initialised, Allocated
  <2>2. call' = [at |-> "check", op |-> op, x |-> x, fn |-> 0, k |-> 0, out |-> out] /\ code' = "none"
    BY <1>2 DEF Begin
  <2>3. UNCHANGED <<version, poisoned, handles, options, open, bound, contexts, reader, cancelling>>
    BY <1>2 DEF Begin
  <2>4. TypeOK'
    BY <2>2, <2>3 DEF IInv, TypeOK, handles, options, contexts, cancelling
  <2> QED
    BY <2>1, <2>2, <2>3, <2>4 DEF IInv, HandlesMatch, OptionsApplied, RoomForContext, CallCancellable, CancelsMade, OptionsKept,
       handles, options, contexts, cancelling, TypeOK, Idle
<1> QED
  BY <1>1, <1>2

\* A context is cancelled: one that was made.
LEMMA CancelContextInv ==
  ASSUME IInv, NEW x \in Cancellable, CancelContext(x)
  PROVE  /\ ctx' \in [Cancellable -> 0 .. MaxContexts] /\ cancel' \in [Cancellable -> 0 .. MaxContexts]
         /\ dead' \subseteq 1 .. made' /\ made' = made /\ (UNCHANGED <<call, canceller>> => CancelsMade')
<1>1. cancel \in [Cancellable -> 0 .. MaxContexts] /\ made \in 0 .. MaxContexts /\ dead \subseteq 1 .. made
      /\ CancelsMade
  BY DEF IInv, TypeOK
<1>2. cancel[x] \in 0 .. made
  BY <1>1 DEF CancelsMade
<1>3. dead' = dead \cup ({cancel[x]} \ {0}) /\ cancel' = [cancel EXCEPT ![x] = 0] /\ made' = made
  BY DEF CancelContext
<1>4. dead' \subseteq 1 .. made'
  <2> SUFFICES ASSUME NEW d \in dead' PROVE d \in 1 .. made'
    OBVIOUS
  <2>1. CASE d \in dead
    BY <1>1, <1>3, <2>1
  <2>2. CASE d = cancel[x] /\ d # 0
    BY <1>1, <1>2, <1>3, <2>2
  <2> QED
    BY <1>3, <2>1, <2>2
<1>5. ctx' \in [Cancellable -> 0 .. MaxContexts] /\ cancel' \in [Cancellable -> 0 .. MaxContexts]
      /\ (UNCHANGED <<call, canceller>> => CancelsMade')
  BY <1>1, <1>3 DEF CancelContext, CancelsMade, IInv, TypeOK
<1> QED
  BY <1>3, <1>4, <1>5

---------------------------------------------------------------------------
(* Databases.                                                              *)

\* A new struct gets its handle; what Init had done with an older one is
\* forgotten with it.
LEMMA NewDatabaseInv == ASSUME IInv, DatabaseNew PROVE IInv'
<1>1. CASE poisoned \/ Db \in data
  BY <1>1, ReturnInv DEF DatabaseNew, New
<1>2. CASE ~(poisoned \/ Db \in data)
  <2>1. /\ data' = data \cup {Db} /\ table' = table \cup {Db} /\ code' = "ok"
        /\ UNCHANGED <<version, poisoned, ready, options, open, bound, contexts, reader, call, cancelling>>
    BY <1>2 DEF DatabaseNew, New
  <2>2. TypeOK'
    BY <2>1 DEF IInv, TypeOK, options, contexts, cancelling
  <2> QED
    BY <2>1, <2>2 DEF IInv, TypeOK, HandlesMatch, OptionsApplied, RoomForContext, CallCancellable, CancelsMade, OptionsKept,
       options, contexts, cancelling, Idle
<1> QED
  BY <1>1, <1>2

LEMMA DatabaseInitInv == ASSUME IInv, DatabaseInit PROVE IInv'
<1>1. CASE ~Allocated(Db) \/ Db \in ready
  BY <1>1, ReturnInv DEF DatabaseInit
<1>2. CASE ~(~Allocated(Db) \/ Db \in ready)
  <2>1. /\ ready' = ready \cup {Db} /\ code' = "ok" /\ Db \in data
        /\ UNCHANGED <<version, poisoned, data, table, options, open, bound, contexts, reader, call, cancelling>>
    BY <1>2 DEF DatabaseInit, Allocated
  <2>2. TypeOK'
    BY <2>1 DEF IInv, TypeOK, options, contexts, cancelling
  <2> QED
    BY <2>1, <2>2 DEF IInv, TypeOK, HandlesMatch, OptionsApplied, RoomForContext, CallCancellable, CancelsMade, OptionsKept,
       options, contexts, cancelling, Idle
<1> QED
  BY <1>1, <1>2

LEMMA DatabaseReleaseInv == ASSUME IInv, DatabaseRelease PROVE IInv'
<1>1. CASE ~Allocated(Db)
  BY <1>1, ReturnInv DEF DatabaseRelease
<1>2. CASE Allocated(Db)
  <2>1. /\ data' = data \ {Db} /\ table' = table \ {Db} /\ ready' = ready \ {Db} /\ code' = "ok"
        /\ UNCHANGED <<version, poisoned, options, open, bound, contexts, reader, call, cancelling>>
    BY <1>2 DEF DatabaseRelease
  <2>2. TypeOK'
    BY <2>1 DEF IInv, TypeOK, options, contexts, cancelling
  <2> QED
    BY <2>1, <2>2 DEF IInv, TypeOK, HandlesMatch, OptionsApplied, RoomForContext, CallCancellable, CancelsMade, OptionsKept,
       options, contexts, cancelling, Idle
<1> QED
  BY <1>1, <1>2

\* No call on the database touches a connection.
LEMMA DatabaseStepInv == ASSUME IInv, DatabaseStep PROVE IInv'
<1>1. CASE DatabaseSetOption
  BY <1>1, AskInv, ReturnInv DEF DatabaseSetOption
<1> QED
  BY <1>1, AskInv, NewDatabaseInv, DatabaseInitInv, DatabaseReleaseInv
     DEF DatabaseStep, DatabaseGetOption, DatabaseSetOptionTyped

---------------------------------------------------------------------------
(* Connections.                                                            *)

LEMMA ConnectionNewInv == ASSUME IInv, ConnectionNew PROVE IInv'
<1>1. CASE poisoned \/ Cn \in data
  BY <1>1, ReturnInv DEF ConnectionNew, New
<1>2. CASE ~(poisoned \/ Cn \in data)
  <2>1. /\ data' = data \cup {Cn} /\ table' = table \cup {Cn} /\ code' = "ok"
        /\ args' = {} /\ asked' = {} /\ applied' = {} /\ inited' = "no"
        /\ UNCHANGED <<version, poisoned, ready, open, bound, contexts, reader, call, cancelling>>
    BY <1>2 DEF ConnectionNew, New
  <2>2. TypeOK'
    BY <2>1 DEF IInv, TypeOK, contexts, cancelling
  <2> QED
    BY <2>1, <2>2 DEF IInv, TypeOK, HandlesMatch, OptionsApplied, RoomForContext, CallCancellable, CancelsMade, OptionsKept,
       contexts, cancelling, Idle
<1> QED
  BY <1>1, <1>2

\* An option is kept until Init has been called, and applied at once after it.
LEMMA ConnectionSetOptionInv == ASSUME IInv, NEW o \in Options, ConnectionSetOption(o) PROVE IInv'
<1>1. CASE ~Allocated(Cn) \/ (Cn \in ready /\ o \in Refused)
  BY <1>1, ReturnInv DEF ConnectionSetOption
<1>2. CASE ~(~Allocated(Cn) \/ (Cn \in ready /\ o \in Refused))
  <2>1. /\ asked' = asked \cup {o} /\ code' = "ok" /\ Cn \in data
        /\ Cn \in ready => applied' = applied \cup {o} /\ args' = args
        /\ Cn \notin ready => args' = args \cup {o} /\ applied' = applied
        /\ UNCHANGED <<version, poisoned, handles, inited, open, bound, contexts, reader, call, cancelling>>
    BY <1>2 DEF ConnectionSetOption, Allocated
  <2>2. TypeOK'
    BY <2>1 DEF IInv, TypeOK, handles, contexts, cancelling
  <2> QED
    BY <2>1, <2>2 DEF IInv, HandlesMatch, OptionsApplied, RoomForContext, CallCancellable, CancelsMade, OptionsKept,
       handles, contexts, cancelling, TypeOK, Idle
<1> QED
  BY <1>1, <1>2

\* Init applies all that is kept, which is all that was asked for, or fails.
LEMMA ConnectionInitInv == ASSUME IInv, ConnectionInit PROVE IInv'
<1>1. CASE ~Allocated(Cn) \/ Cn \in ready \/ ~Initialised(Db)
  BY <1>1, ReturnInv DEF ConnectionInit
<1>2. CASE ~(~Allocated(Cn) \/ Cn \in ready \/ ~Initialised(Db))
  <2>1. /\ ready' = ready \cup {Cn} /\ open' = TRUE /\ Cn \in data /\ Cn \notin ready
        /\ UNCHANGED <<version, poisoned, data, table, asked, bound, contexts, reader, call, cancelling>>
    BY <1>2 DEF ConnectionInit, Allocated
  <2>2. PICK done \in SUBSET args : ApplyOptions(done)
    BY <1>2 DEF ConnectionInit
  <2>3. /\ applied' = done /\ args' \subseteq args /\ inited' \in {"ok", "failed"} /\ code' \in {"ok", "failed"}
        /\ inited' = "ok" => done = args
    BY <2>2 DEF ApplyOptions
  <2>4. open' \in BOOLEAN
    BY <2>1, Zenon
  <2>5. TypeOK'
    BY <2>1, <2>2, <2>3, <2>4 DEF IInv, TypeOK, contexts, cancelling
  <2> QED
    BY <2>1, <2>2, <2>3, <2>5 DEF IInv, HandlesMatch, OptionsApplied, RoomForContext, CallCancellable, CancelsMade, OptionsKept,
       contexts, cancelling, TypeOK, Idle
<1> QED
  BY <1>1, <1>2

LEMMA ConnectionInitFailsInv == ASSUME IInv, ConnectionInitFails PROVE IInv'
<1>1. /\ inited' = "failed" /\ code' = "failed"
      /\ UNCHANGED <<version, poisoned, handles, args, asked, applied, open, bound, contexts, reader, call, cancelling>>
  BY DEF ConnectionInitFails
<1>2. TypeOK'
  BY <1>1 DEF IInv, TypeOK, handles, contexts, cancelling
<1> QED
  BY <1>1, <1>2 DEF IInv, HandlesMatch, OptionsApplied, RoomForContext, CallCancellable, CancelsMade, OptionsKept,
     handles, contexts, cancelling, TypeOK, Idle

\* A struct and its handle go together, and its context is cancelled.
LEMMA ConnectionReleaseInv == ASSUME IInv, ConnectionRelease PROVE IInv'
<1>1. CASE ~Allocated(Cn)
  BY <1>1, ReturnInv DEF ConnectionRelease
<1>2. CASE Allocated(Cn)
  <2>1. /\ Forget(Cn) /\ CancelContext(Cn) /\ open' = FALSE /\ code' = "ok"
        /\ UNCHANGED <<version, poisoned, options, bound, reader, call, cancelling>>
    BY <1>2 DEF ConnectionRelease
  <2>2. open' \in BOOLEAN
    BY <2>1, Zenon
  <2>3. /\ ctx' \in [Cancellable -> 0 .. MaxContexts] /\ cancel' \in [Cancellable -> 0 .. MaxContexts]
        /\ dead' \subseteq 1 .. made' /\ made' = made /\ CancelsMade'
    BY <2>1, CancelContextInv DEF cancelling
  <2>4. data' = data \ {Cn} /\ table' = table \ {Cn} /\ ready' = ready \ {Cn}
    BY <2>1 DEF Forget
  <2>5. TypeOK'
    BY <2>1, <2>2, <2>3, <2>4 DEF IInv, TypeOK, options, cancelling
  <2> QED
    BY <2>1, <2>3, <2>4, <2>5 DEF IInv, TypeOK, HandlesMatch, OptionsApplied, RoomForContext, CallCancellable, OptionsKept,
       options
<1> QED
  BY <1>1, <1>2

LEMMA ConnectionStepInv == ASSUME IInv, ConnectionStep PROVE IInv'
<1>1. CASE \E t \in Streams : Metadata(t) \/ TableTypes(t)
  BY <1>1, BeginInv DEF Metadata, TableTypes
<1>2. CASE TableSchema \/ ReadPartition \/ Transact
  BY <1>2, BeginInv DEF TableSchema, ReadPartition, Transact
<1>3. CASE ConnectionGetOption \/ ConnectionSetOptionTyped \/ ConnectionStatistics
  BY <1>3, AskInv, ReturnInv DEF ConnectionGetOption, ConnectionSetOptionTyped, ConnectionStatistics
<1> QED
  BY <1>1, <1>2, <1>3, ConnectionNewInv, ConnectionSetOptionInv, ConnectionInitInv, ConnectionInitFailsInv,
     ConnectionReleaseInv DEF ConnectionStep

---------------------------------------------------------------------------
(* Statements.                                                             *)

LEMMA StatementNewInv == ASSUME IInv, NEW s \in Stmts, StatementNew(s) PROVE IInv'
<1>1. CASE poisoned \/ s \in data \/ ~Initialised(Cn)
  BY <1>1, ReturnInv DEF StatementNew
<1>2. CASE ~(poisoned \/ s \in data \/ ~Initialised(Cn))
  <2>1. /\ data' = data \cup {s} /\ table' = table \cup {s} /\ ready' = ready \cup {s}
        /\ bound' = [bound EXCEPT ![s] = "nothing"] /\ code' = "ok"
        /\ UNCHANGED <<version, poisoned, options, open, contexts, reader, call, cancelling>>
    BY <1>2 DEF StatementNew
  <2>2. TypeOK'
    BY <2>1 DEF IInv, TypeOK, options, contexts, cancelling
  <2> QED
    BY <2>1, <2>2 DEF IInv, TypeOK, HandlesMatch, OptionsApplied, RoomForContext, CallCancellable, CancelsMade, OptionsKept,
       options, contexts, cancelling, Idle
<1> QED
  BY <1>1, <1>2

LEMMA StatementReleaseInv == ASSUME IInv, NEW s \in Stmts, StatementRelease(s) PROVE IInv'
<1>1. CASE ~Allocated(s)
  BY <1>1, ReturnInv DEF StatementRelease
<1>2. CASE Allocated(s)
  <2>1. /\ Forget(s) /\ CancelContext(s)
        /\ bound' = [bound EXCEPT ![s] = "nothing"] /\ code' = "ok"
        /\ UNCHANGED <<version, poisoned, options, open, reader, call, cancelling>>
    BY <1>2 DEF StatementRelease
  <2>2. /\ ctx' \in [Cancellable -> 0 .. MaxContexts] /\ cancel' \in [Cancellable -> 0 .. MaxContexts]
        /\ dead' \subseteq 1 .. made' /\ made' = made /\ CancelsMade'
    BY <2>1, CancelContextInv DEF cancelling
  <2>3. data' = data \ {s} /\ table' = table \ {s} /\ ready' = ready \ {s}
    BY <2>1 DEF Forget
  <2>4. bound' \in [Stmts -> {"nothing", "rows", "empty"}] /\ made' \in 0 .. MaxContexts
    BY <2>1, <2>2 DEF IInv, TypeOK
  <2>5. /\ data' \subseteq {Db, Cn} \cup Stmts \cup Streams /\ table' \subseteq {Db, Cn} \cup Stmts \cup Streams
        /\ ready' \subseteq {Db, Cn} \cup Stmts
    BY <2>3 DEF IInv, TypeOK
  <2>6. UNCHANGED <<version, poisoned, open, args, asked, applied, inited, reader, call, canceller, cancels>>
        /\ code' = "ok"
    BY <2>1 DEF options, cancelling
  <2>7. TypeOK'
    BY <2>2, <2>4, <2>5, <2>6 DEF IInv, TypeOK
  <2> QED
    BY <2>1, <2>2, <2>3, <2>7 DEF IInv, TypeOK, HandlesMatch, OptionsApplied, RoomForContext, CallCancellable, OptionsKept,
       options
<1> QED
  BY <1>1, <1>2

LEMMA StatementStepInv == ASSUME IInv, NEW s \in Stmts, StatementStep(s) PROVE IInv'
<1>1. CASE Update(s) \/ Prepare(s) \/ ExecuteSchema(s) \/ ExecutePartitions(s)
  BY <1>1, BeginInv DEF Update, Prepare, ExecuteSchema, ExecutePartitions
<1>2. CASE \E t \in Streams : Query(s, t)
  BY <1>2, BeginInv DEF Query
<1>3. CASE \E rows \in {"rows", "empty"} : Bind(s, rows)
  BY <1>3, BeginInv DEF Bind
<1> QED
  BY <1>1, <1>2, <1>3, AskInv, StatementNewInv, StatementReleaseInv
     DEF StatementStep, StatementSetSql, StatementSetOption, StatementParameters, StatementGetOption,
         StatementSetOptionTyped

---------------------------------------------------------------------------
(* Calls under a context.                                                  *)

\* What cancelContext does to the fields of a struct, whichever thread is in it.
LEMMA CancelContextKeeps ==
  ASSUME IInv, NEW th, NEW next, NEW after, th.x \in Cancellable, th.fn \in 0 .. made,
         CancelContextStep(th, next, after)
  PROVE  /\ ctx' \in [Cancellable -> 0 .. MaxContexts] /\ cancel' \in [Cancellable -> 0 .. MaxContexts]
         /\ made' = made /\ dead' \subseteq 1 .. made /\ dead \subseteq dead'
         /\ \A x \in Cancellable : ctx'[x] <= made /\ cancel'[x] <= made
<1>1. /\ ctx \in [Cancellable -> 0 .. MaxContexts] /\ cancel \in [Cancellable -> 0 .. MaxContexts]
      /\ made \in 0 .. MaxContexts /\ dead \subseteq 1 .. made
      /\ \A x \in Cancellable : ctx[x] <= made /\ cancel[x] <= made
  BY DEF IInv, TypeOK, CancelsMade
<1>2. CASE th.at = "fire"
  <2>1. PICK k \in {th.fn, cancel[th.x]} \ {0} : dead' = dead \cup {k} /\ UNCHANGED <<ctx, cancel, made>>
    BY <1>2 DEF CancelContextStep
  <2>2. k \in 1 .. made
    BY <1>1
  <2> QED
    BY <1>1, <2>1, <2>2
<1>3. CASE th.at # "fire"
  BY <1>1, <1>3 DEF CancelContextStep, contexts
<1> QED
  BY <1>2, <1>3

LEMMA SupersedeInv == ASSUME IInv, Supersede PROVE IInv'
<1>1. /\ CancelContextStep(call, call', [call EXCEPT !.at = "newCtx"]) /\ code' = "none"
      /\ UNCHANGED <<version, poisoned, handles, options, open, bound, reader, cancelling>>
  BY DEF Supersede
<1>2. call.at \in {"check", "fire", "dropCtx", "dropCancel"} /\ call.x \in Cancellable
  BY <1>1 DEF CancelContextStep, IInv, CallCancellable
<1>3. call.fn \in 0 .. made /\ call.k <= made /\ cancel[call.x] \in 0 .. made
  BY <1>2 DEF IInv, TypeOK, CancelsMade
<1>4. /\ ctx' \in [Cancellable -> 0 .. MaxContexts] /\ cancel' \in [Cancellable -> 0 .. MaxContexts]
      /\ made' = made /\ dead' \subseteq 1 .. made
      /\ \A x \in Cancellable : ctx'[x] <= made /\ cancel'[x] <= made
  BY <1>1, <1>2, <1>3, CancelContextKeeps
<1>5. /\ call' \in [at: {"idle", "check", "fire", "dropCtx", "dropCancel", "newCtx", "newCancel", "give", "run"},
               op: {"none", "metadata", "plain", "local", "query", "update", "rows", "empty", "refused"},
               x: {Db} \cup Cancellable, fn: 0 .. MaxContexts, k: 0 .. MaxContexts, out: {Db} \cup Streams]
      /\ call'.fn \in 0 .. made /\ call'.k <= made /\ call'.x \in Cancellable
  <2>1. CASE call.at = "check"
    BY <1>1, <1>2, <1>3, <2>1 DEF CancelContextStep, IInv, TypeOK
  <2>2. CASE call.at = "fire"
    <3>1. call' = [call EXCEPT !.at = "dropCtx", !.fn = 0]
      BY <1>1, <2>2 DEF CancelContextStep
    <3>2. /\ call \in [at: {"idle", "check", "fire", "dropCtx", "dropCancel", "newCtx", "newCancel", "give", "run"},
                      op: {"none", "metadata", "plain", "local", "query", "update", "rows", "empty", "refused"},
                      x: {Db} \cup Cancellable, fn: 0 .. MaxContexts, k: 0 .. MaxContexts, out: {Db} \cup Streams]
          /\ made \in Nat /\ MaxContexts \in Nat
      BY DEF IInv, TypeOK
    <3>3. call' = [at |-> "dropCtx", op |-> call.op, x |-> call.x, fn |-> 0, k |-> call.k, out |-> call.out]
      BY <3>1, <3>2
    <3> QED
      BY <1>2, <1>3, <3>2, <3>3
  <2>3. CASE call.at \in {"dropCtx", "dropCancel"}
    BY <1>1, <1>2, <1>3, <2>3 DEF CancelContextStep, IInv, TypeOK
  <2> QED
    BY <1>2, <2>1, <2>2, <2>3
<1>6. TypeOK'
  BY <1>1, <1>4, <1>5 DEF IInv, TypeOK, handles, options, cancelling
<1>7. CancelsMade'
  BY <1>1, <1>4, <1>5 DEF IInv, CancelsMade, cancelling
<1> QED
  BY <1>1, <1>2, <1>4, <1>5, <1>6, <1>7 DEF IInv, HandlesMatch, OptionsApplied, RoomForContext, CallCancellable,
     OptionsKept, handles, options

LEMMA NewCtxInv == ASSUME IInv, NewCtx PROVE IInv'
<1>1. /\ call.at = "newCtx" /\ call.x \in Cancellable /\ made < MaxContexts /\ made \in 0 .. MaxContexts
      /\ made' = made + 1 /\ ctx' = [ctx EXCEPT ![call.x] = made + 1]
      /\ call' = [call EXCEPT !.at = "newCancel", !.k = made + 1] /\ code' = "none"
      /\ UNCHANGED <<version, poisoned, handles, options, open, bound, cancel, dead, reader, cancelling>>
  BY DEF NewCtx, IInv, TypeOK, CallCancellable, RoomForContext
<1>2. made' \in 0 .. MaxContexts /\ ctx' \in [Cancellable -> 0 .. MaxContexts]
  BY <1>1 DEF IInv, TypeOK
<1>3. CancelsMade'
  BY <1>1 DEF IInv, TypeOK, CancelsMade, cancelling
<1>4. dead' \subseteq 1 .. made'
  <2> SUFFICES ASSUME NEW d \in dead' PROVE d \in 1 .. made'
    OBVIOUS
  <2> QED
    BY <1>1 DEF IInv, TypeOK
<1>5. TypeOK'
  BY <1>1, <1>2, <1>4 DEF IInv, TypeOK, handles, options, cancelling
<1> QED
  BY <1>1, <1>3, <1>5 DEF IInv, TypeOK, HandlesMatch, OptionsApplied, RoomForContext, CallCancellable,
     OptionsKept, handles, options

LEMMA NewCancelInv == ASSUME IInv, NewCancel PROVE IInv'
<1>1. /\ call.at = "newCancel" /\ call.x \in Cancellable
      /\ cancel' = [cancel EXCEPT ![call.x] = call.k]
      /\ call' = [call EXCEPT !.at = "give"] /\ code' = "none"
      /\ UNCHANGED <<version, poisoned, handles, options, open, bound, ctx, made, dead, reader, cancelling>>
  BY DEF NewCancel, IInv, CallCancellable
<1>2. CancelsMade'
  BY <1>1 DEF IInv, TypeOK, CancelsMade, cancelling
<1>3. TypeOK'
  BY <1>1 DEF IInv, TypeOK, handles, options, cancelling
<1> QED
  BY <1>1, <1>2, <1>3 DEF IInv, TypeOK, HandlesMatch, OptionsApplied, RoomForContext, CallCancellable,
     OptionsKept, handles, options

LEMMA GiveCtxInv == ASSUME IInv, GiveCtx PROVE IInv'
<1>1. /\ call.at = "give" /\ call.x \in Cancellable /\ code' = "none"
      /\ UNCHANGED <<version, poisoned, handles, options, open, bound, contexts, reader, cancelling>>
  BY DEF GiveCtx, IInv, CallCancellable
<1>2. PICK k \in {call.k, ctx[call.x]} : call' = [call EXCEPT !.at = "run", !.k = k]
  BY DEF GiveCtx
<1>3. k \in 0 .. MaxContexts /\ k <= made
  BY <1>1, <1>2 DEF IInv, TypeOK, CancelsMade
<1>4. TypeOK'
  BY <1>1, <1>2, <1>3 DEF IInv, TypeOK, handles, options, contexts, cancelling
<1>5. CancelsMade'
  BY <1>1, <1>2, <1>3 DEF IInv, TypeOK, CancelsMade, contexts, cancelling
<1> QED
  BY <1>1, <1>2, <1>4, <1>5 DEF IInv, TypeOK, HandlesMatch, OptionsApplied, RoomForContext, CallCancellable,
     OptionsKept, handles, options, contexts

\* An execution leaves something that may be bound.
LEMMA ReboundType == ASSUME IInv PROVE Rebound \in [Stmts -> {"nothing", "rows", "empty"}]
<1>1. CASE call.op \in {"rows", "empty"}
  BY <1>1 DEF IInv, TypeOK, Rebound
<1>2. CASE call.op \in {"query", "update"}
  BY <1>2 DEF IInv, TypeOK, Rebound
<1>3. CASE call.op \notin {"rows", "empty", "query", "update"}
  BY <1>3 DEF IInv, TypeOK, Rebound
<1> QED
  BY <1>1, <1>2, <1>3

\* What a stream is exported with: one reference, its handle in the table.
LEMMA SucceedInv == ASSUME IInv, Succeed PROVE IInv'
<1>1. /\ call.at = "run" /\ bound' = Rebound /\ call' = Idle /\ code' = "ok"
      /\ UNCHANGED <<version, poisoned, ready, options, open, contexts, cancelling>>
  BY DEF Succeed
<1>2. Idle \in [at: {"idle", "check", "fire", "dropCtx", "dropCancel", "newCtx", "newCancel", "give", "run"},
               op: {"none", "metadata", "plain", "local", "query", "update", "rows", "empty", "refused"},
               x: {Db} \cup Cancellable, fn: 0 .. MaxContexts, k: 0 .. MaxContexts, out: {Db} \cup Streams]
  BY DEF Idle
<1>3. /\ data' \subseteq {Db, Cn} \cup Stmts \cup Streams /\ table' \subseteq {Db, Cn} \cup Stmts \cup Streams
      /\ reader' \in [Streams -> [k: 0 .. MaxContexts, refs: Nat, state: {"none", "rows", "end", "failed"}]]
      /\ HandlesMatch' /\ data \subseteq data' /\ (Cn \in data' => Cn \in data)
  <2>1. CASE call.out \in Streams
    <3>1. PICK n \in 0 .. MaxContexts :
            reader' = [reader EXCEPT ![call.out] = [k |-> n, refs |-> 1, state |-> "rows"]]
      BY <2>1 DEF Succeed, Export, IInv, TypeOK
    <3>2. data' = data \cup {call.out} /\ table' = table \cup {call.out}
      BY <2>1 DEF Succeed, Export
    <3> QED
      BY <1>1, <2>1, <3>1, <3>2 DEF IInv, TypeOK, HandlesMatch
  <2>2. CASE call.out \notin Streams
    BY <1>1, <2>2 DEF Succeed, IInv, TypeOK, HandlesMatch
  <2> QED
    BY <2>1, <2>2
<1>4. TypeOK'
  BY <1>1, <1>2, <1>3, ReboundType DEF IInv, TypeOK, options, contexts, cancelling
<1> QED
  BY <1>1, <1>3, <1>4 DEF IInv, OptionsApplied, RoomForContext, CallCancellable, CancelsMade,
     OptionsKept, options, contexts, Idle, cancelling, TypeOK

\* A call that fails or panics exports nothing.
LEMMA FailInv == ASSUME IInv, Fail \/ Panic PROVE IInv'
<1>1. /\ bound' \in {bound, Rebound} /\ call' = Idle /\ code' = "failed"
      /\ UNCHANGED <<version, handles, options, open, contexts, reader, cancelling>>
  BY DEF Fail, Panic
<1>2. poisoned' \in BOOLEAN
  BY Zenon DEF Fail, Panic, IInv, TypeOK
<1>3. Idle \in [at: {"idle", "check", "fire", "dropCtx", "dropCancel", "newCtx", "newCancel", "give", "run"},
               op: {"none", "metadata", "plain", "local", "query", "update", "rows", "empty", "refused"},
               x: {Db} \cup Cancellable, fn: 0 .. MaxContexts, k: 0 .. MaxContexts, out: {Db} \cup Streams]
  BY DEF Idle
<1>4. TypeOK'
  BY <1>1, <1>2, <1>3, ReboundType DEF IInv, TypeOK, handles, options, contexts, cancelling
<1> QED
  BY <1>1, <1>4 DEF IInv, HandlesMatch, OptionsApplied, RoomForContext, CallCancellable, CancelsMade,
     OptionsKept, handles, options, contexts, Idle, cancelling, TypeOK

---------------------------------------------------------------------------
(* Cancel and streams.                                                     *)

LEMMA CancelStepInv == ASSUME IInv, CancelStep PROVE IInv'
<1>1. ASSUME NEW x \in Cancellable, BeginCancel(x) PROVE IInv'
  <2>1. /\ cancels < MaxCancels
        /\ canceller' = [at |-> "check", x |-> x, fn |-> 0,
                         aim |-> IF call.at = "run" /\ call.x = x THEN call.k ELSE 0]
        /\ cancels' = cancels + 1 /\ code' = "none"
        /\ UNCHANGED <<version, poisoned, handles, options, open, bound, contexts, reader, call>>
    BY <1>1 DEF BeginCancel
  <2>2. TypeOK'
    BY <2>1 DEF IInv, TypeOK, handles, options, contexts
  <2>3. CancelsMade'
    BY <2>1 DEF IInv, TypeOK, CancelsMade, contexts
  <2> QED
    BY <2>1, <2>2, <2>3 DEF IInv, HandlesMatch, OptionsApplied, RoomForContext, CallCancellable,
       OptionsKept, handles, options, contexts
<1>2. ASSUME Cancel PROVE IInv'
  <2>0. /\ canceller \in [at: {"idle", "check", "fire", "dropCtx", "dropCancel"}, x: Cancellable,
                          fn: 0 .. MaxContexts, aim: 0 .. MaxContexts]
        /\ MaxContexts \in Nat
    BY DEF IInv, TypeOK
  <2>1. /\ CancelContextStep(canceller, canceller', NoCancel) /\ code' = "none"
        /\ UNCHANGED <<version, poisoned, handles, options, open, bound, reader, call, cancels>>
    BY <1>2 DEF Cancel
  <2>2. canceller.x \in Cancellable /\ canceller.fn \in 0 .. made /\ cancel[canceller.x] \in 0 .. made
        /\ made \in 0 .. MaxContexts
    BY DEF IInv, TypeOK, CancelsMade
  <2>3. /\ ctx' \in [Cancellable -> 0 .. MaxContexts] /\ cancel' \in [Cancellable -> 0 .. MaxContexts]
        /\ made' = made /\ dead' \subseteq 1 .. made
        /\ \A x \in Cancellable : ctx'[x] <= made /\ cancel'[x] <= made
    BY <2>1, <2>2, CancelContextKeeps
  <2>4. /\ canceller' \in [at: {"idle", "check", "fire", "dropCtx", "dropCancel"}, x: Cancellable,
                            fn: 0 .. MaxContexts, aim: 0 .. MaxContexts]
        /\ canceller'.fn <= made
    <3>1. CASE canceller.at = "check"
      <4>1. PICK at \in {"dropCtx", "fire"} : canceller' = [canceller EXCEPT !.at = at, !.fn = cancel[canceller.x]]
        BY <2>1, <3>1 DEF CancelContextStep
      <4>2. canceller' = [at |-> at, x |-> canceller.x, fn |-> cancel[canceller.x], aim |-> canceller.aim]
        BY <2>0, <4>1
      <4> QED
        BY <2>0, <2>2, <4>2
    <3>2. CASE canceller.at = "fire"
      <4>1. canceller' = [canceller EXCEPT !.at = "dropCtx", !.fn = 0]
        BY <2>1, <3>2 DEF CancelContextStep
      <4>2. canceller' = [at |-> "dropCtx", x |-> canceller.x, fn |-> 0, aim |-> canceller.aim]
        BY <2>0, <4>1
      <4> QED
        BY <2>0, <2>2, <4>2
    <3>3. CASE canceller.at = "dropCtx"
      BY <2>1, <2>2, <3>3 DEF CancelContextStep, IInv, TypeOK
    <3>4. CASE canceller.at = "dropCancel"
      BY <2>1, <2>2, <3>4 DEF CancelContextStep, NoCancel, IInv, TypeOK
    <3> QED
      BY <2>1, <3>1, <3>2, <3>3, <3>4 DEF CancelContextStep
  <2>5. TypeOK'
    BY <2>1, <2>3, <2>4 DEF IInv, TypeOK, handles, options
  <2>6. CancelsMade'
    BY <2>1, <2>3, <2>4 DEF IInv, CancelsMade
  <2> QED
    BY <2>1, <2>3, <2>5, <2>6 DEF IInv, HandlesMatch, OptionsApplied, RoomForContext, CallCancellable,
       OptionsKept, handles, options
<1>3. ASSUME CancelPanic PROVE IInv'
  <2>1. /\ poisoned' = TRUE /\ canceller' = NoCancel /\ code' = "failed"
        /\ UNCHANGED <<version, handles, options, open, bound, contexts, reader, call, cancels>>
    BY <1>3 DEF CancelPanic
  <2>2. poisoned' \in BOOLEAN
    BY <2>1, Zenon
  <2>3. TypeOK'
    BY <2>1, <2>2 DEF IInv, TypeOK, NoCancel, handles, options, contexts
  <2>4. CancelsMade'
    BY <2>1 DEF IInv, TypeOK, CancelsMade, NoCancel, contexts
  <2> QED
    BY <2>1, <2>3, <2>4 DEF IInv, HandlesMatch, OptionsApplied, RoomForContext, CallCancellable,
       OptionsKept, handles, options, contexts
<1> QED
  BY <1>1, <1>2, <1>3 DEF CancelStep

\* Reading moves the reader on, and a release gives its one reference back.
LEMMA StreamStepInv == ASSUME IInv, NEW t \in Streams, StreamStep(t) PROVE IInv'
<1>1. CASE GetSchema(t) \/ StreamError(t)
  BY <1>1, ReturnInv DEF GetSchema, StreamError
<1>2. CASE GetNext(t) \/ StreamRelease(t)
  <2>1. CASE Released(t)
    BY <1>2, <2>1, ReturnInv DEF GetNext, StreamRelease
  <2>2. CASE ~Released(t) /\ GetNext(t)
    <3>1. PICK state \in {"none", "rows", "end", "failed"} : reader' = [reader EXCEPT ![t].state = state]
      BY <2>2 DEF GetNext, NextStates, IInv, TypeOK
    <3>2. /\ code' \in {"ok", "failed"}
          /\ UNCHANGED <<version, poisoned, handles, options, open, bound, contexts, call, cancelling>>
      BY <2>2 DEF GetNext
    <3>3. TypeOK'
      BY <3>1, <3>2 DEF IInv, TypeOK, handles, options, contexts, cancelling
    <3> QED
      BY <3>1, <3>2, <3>3 DEF IInv, TypeOK, HandlesMatch, OptionsApplied, RoomForContext, CallCancellable,
         CancelsMade, OptionsKept, handles, options, contexts, cancelling, Idle
  <2>3. CASE ~Released(t) /\ StreamRelease(t)
    <3>1. reader[t].refs = 1
      BY <2>3 DEF Released, IInv, HandlesMatch
    <3>2. /\ data' = data \ {t} /\ table' = table \ {t} /\ code' = "none"
          /\ reader' = [reader EXCEPT ![t] = NoReader]
          /\ UNCHANGED <<version, poisoned, ready, options, open, bound, contexts, call, cancelling>>
      BY <2>3, <3>1 DEF StreamRelease
    <3>3. TypeOK'
      BY <3>2 DEF IInv, TypeOK, NoReader, options, contexts, cancelling
    <3> QED
      BY <3>2, <3>3 DEF IInv, TypeOK, HandlesMatch, OptionsApplied, RoomForContext, CallCancellable,
         CancelsMade, OptionsKept, NoReader, options, contexts, cancelling, Idle
  <2> QED
    BY <1>2, <2>1, <2>2, <2>3
<1> QED
  BY <1>1, <1>2 DEF StreamStep

---------------------------------------------------------------------------
(* The theorems.                                                           *)

LEMMA InitInv == Init => IInv
<1> SUFFICES ASSUME Init PROVE IInv
  OBVIOUS
<1>1. poisoned \in BOOLEAN /\ open \in BOOLEAN
  BY Zenon DEF Init
<1>2. TypeOK
  BY <1>1 DEF Init, TypeOK, Idle, NoCancel, NoReader
<1> QED
  BY <1>2 DEF Init, IInv, HandlesMatch, OptionsApplied, RoomForContext, CallCancellable, CancelsMade,
     OptionsKept, Idle, NoCancel, NoReader

LEMMA NextInv == IInv /\ [Next]_vars => IInv'
<1> SUFFICES ASSUME IInv, [Next]_vars PROVE IInv'
  OBVIOUS
<1>1. CASE UNCHANGED vars
  BY <1>1 DEF IInv, TypeOK, HandlesMatch, OptionsApplied, RoomForContext, CallCancellable, CancelsMade,
     OptionsKept, vars, handles, options, contexts, cancelling
<1> QED
  BY <1>1, DatabaseStepInv, ConnectionStepInv, StatementStepInv, SupersedeInv, NewCtxInv, NewCancelInv, GiveCtxInv, SucceedInv,
     FailInv, CancelStepInv, StreamStepInv DEF Next, CallStep

\* The inductive invariant holds of whatever a client does that makes one call
\* at a time and cancels from another thread.
THEOREM Invariance == Spec => []IInv
BY InitInv, NextInv, PTL DEF Spec

\* Every variable keeps its type; in particular no call cancels a context that
\* was never made.
THEOREM TypeCorrect == Spec => []TypeOK
BY Invariance, PTL DEF IInv

\* private_data and the handle table agree, and each stream a client holds has
\* exactly one reference to its reader.
THEOREM HandlesCorrect == Spec => []HandlesMatch
BY Invariance, PTL DEF IInv

\* OracleConnectionInit: OK means that all options set before are applied.
THEOREM InitAppliesOptions == Spec => []OptionsApplied
BY Invariance, PTL DEF IInv

\* Once a call has panicked nothing is made, released or changed but streams,
\* and what a call that was in progress uses.
LEMMA PoisonedStep ==
  ASSUME IInv, [Next]_vars, poisoned
  PROVE  /\ poisoned' /\ data' \ Streams = data \ Streams /\ ready' = ready
         /\ applied' = applied /\ cancels' = cancels
         /\ Calls => call' = Idle /\ data' \subseteq data /\ UNCHANGED <<made, bound>>
<1> DEFINE Still == UNCHANGED <<poisoned, data, ready, applied, cancels, call, made, bound>>
<1>1. \A x : ~Allocated(x) /\ ~Initialised(x)
  BY DEF Allocated, Initialised
<1>2. ASSUME NEW status, Return(status) PROVE Still
  BY <1>2 DEF Return, handles, options, contexts, cancelling
<1>3. ASSUME NEW x, Ask(x) PROVE Still
  BY <1>2, <1>3 DEF Ask
<1>4. ASSUME NEW x, NEW op, NEW out, Begin(x, op, out) PROVE Still
  BY <1>1, <1>2, <1>4 DEF Begin
<1>5. ASSUME DatabaseStep PROVE Still
  BY <1>1, <1>2, <1>3, <1>5 DEF DatabaseStep, DatabaseNew, New, DatabaseInit, DatabaseRelease, DatabaseSetOption,
     DatabaseGetOption, DatabaseSetOptionTyped
<1>6. ASSUME ConnectionStep PROVE Still
  BY <1>1, <1>2, <1>3, <1>4, <1>6 DEF ConnectionStep, ConnectionNew, New, ConnectionInit, ConnectionInitFails,
     ConnectionRelease, ConnectionGetOption, ConnectionSetOptionTyped, ConnectionStatistics, TableSchema,
     ReadPartition, Transact, ConnectionSetOption, Metadata, TableTypes
<1>7. ASSUME NEW s \in Stmts, StatementStep(s) PROVE Still
  BY <1>1, <1>2, <1>3, <1>4, <1>7 DEF StatementStep, StatementNew, StatementRelease, StatementSetSql,
     StatementSetOption, StatementParameters, StatementGetOption, StatementSetOptionTyped, Update, Prepare,
     ExecuteSchema, ExecutePartitions, Query, Bind
<1>8. CASE CallStep
  <2>1. ~Calls
    <3>1. call.at # "idle"
      BY <1>8 DEF CallStep, Supersede, CancelContextStep, NewCtx, NewCancel, GiveCtx, Succeed, Fail, Panic,
         HalfContext, CallsNil
    <3> QED
      BY <3>1 DEF Calls, Idle
  <2>2. call.out \in {Db} \cup Streams
    BY DEF IInv, TypeOK
  <2>3. poisoned' /\ UNCHANGED <<ready, applied, cancels>>
    BY <1>8 DEF CallStep, Supersede, NewCtx, NewCancel, GiveCtx, Succeed, Fail, Panic, handles, options, cancelling
  <2>4. CASE Succeed
    BY <2>1, <2>2, <2>3, <2>4 DEF Succeed, Export
  <2>5. CASE ~Succeed
    BY <1>8, <2>1, <2>3, <2>5 DEF CallStep, Supersede, NewCtx, NewCancel, GiveCtx, Fail, Panic, handles
  <2> QED
    BY <2>4, <2>5
<1>9. CASE CancelStep
  <2>1. poisoned' /\ UNCHANGED <<data, ready, applied, cancels, call, bound>>
    BY <1>1, <1>9 DEF CancelStep, BeginCancel, Cancel, CancelPanic, handles, options
  <2>2. made' = made
    BY <1>1, <1>9 DEF CancelStep, BeginCancel, Cancel, CancelPanic, CancelContextStep, contexts
  <2> QED
    BY <2>1, <2>2 DEF Calls
<1>10. ASSUME NEW t \in Streams, StreamStep(t)
       PROVE  /\ data' \ Streams = data \ Streams /\ data' \subseteq data
              /\ UNCHANGED <<poisoned, ready, applied, cancels, call, made, bound>>
  BY <1>2, <1>10 DEF StreamStep, GetNext, GetSchema, StreamError, StreamRelease, handles, options, contexts, cancelling
<1>11. CASE UNCHANGED vars
  BY <1>11 DEF vars, handles, options, contexts, cancelling, Calls
<1>12. Still => /\ poisoned' /\ data' \ Streams = data \ Streams /\ ready' = ready
                /\ applied' = applied /\ cancels' = cancels
                /\ Calls => call' = Idle /\ data' \subseteq data /\ UNCHANGED <<made, bound>>
  BY DEF Calls
<1> HIDE DEF Still
<1> QED
  BY <1>5, <1>6, <1>7, <1>8, <1>9, <1>10, <1>11, <1>12 DEF Next, Calls

\* globalPoison is never taken back, and stops every call that has not begun:
\* none acts on the state a panic left behind but the one beside a Cancel
\* that panicked.
THEOREM NothingAfterPanic == Spec => PoisonIsFinal
<1>1. IInv /\ [Next]_vars =>
        [poisoned => /\ poisoned' /\ data' \ Streams = data \ Streams /\ ready' = ready
                     /\ applied' = applied /\ cancels' = cancels
                     /\ Calls => call' = Idle /\ data' \subseteq data /\ UNCHANGED <<made, bound>>]_vars
  BY PoisonedStep
<1> QED
  BY <1>1, Invariance, PTL DEF Spec, PoisonIsFinal

---------------------------------------------------------------------------
(* The first Cancel: what a second may find is cleared is what the first   *)
(* left behind, so MaxCancels <= 1 (CancelReaches fails with two).         *)

\* The call that the Cancel in progress met is still in progress.
Met == canceller.aim # 0 /\ call.at = "run" /\ call.k = canceller.aim

\* Nothing is cleared behind a call before there is a Cancel: newContext keeps
\* the function of the context it gives.
CancelKept ==
  /\ call.at = "newCancel" /\ cancels = 0 => ctx[call.x] = call.k
  /\ call.at = "give" /\ cancels = 0 => ctx[call.x] = call.k /\ cancel[call.x] = call.k
  /\ call.at = "run" /\ cancels = 0 => cancel[call.x] = call.k
  /\ cancels = 0 => canceller = NoCancel

\* A Cancel aims at a context that was made, before that of a call on its way
\* to its own, which the struct has or has no more.
Aimed ==
  /\ canceller.aim <= made
  /\ call.at \in {"newCancel", "give"} => canceller.aim < call.k /\ ctx[call.x] \in {0, call.k}

\* The Cancel finds the function of the call it met, and has called it before
\* it clears anything.
Reached ==
  Met =>
    /\ canceller.at \in {"check", "fire"} => call.x = canceller.x /\ cancel[call.x] = canceller.aim
    /\ canceller.at = "fire" => canceller.fn = canceller.aim
    /\ canceller.at \in {"dropCtx", "dropCancel"} => canceller.aim \in dead

ReachInv == CancelKept /\ Aimed /\ Reached

\* A step that leaves both threads where they are, and what they look at.
LEMMA ReachKept ==
  ASSUME ReachInv, UNCHANGED <<call, cancelling, contexts>>
  PROVE  ReachInv'
BY DEF ReachInv, CancelKept, Aimed, Reached, Met, contexts, cancelling

\* A step after which no call is running or about to, and which leaves Cancel alone.
LEMMA ReachIdle ==
  ASSUME ReachInv, call'.at \notin {"newCancel", "give", "run"}, made' = made, UNCHANGED cancelling
  PROVE  ReachInv'
BY DEF ReachInv, CancelKept, Aimed, Reached, Met, cancelling

\* The client's calls but those under a context.
LEMMA ClientReach ==
  ASSUME IInv, ReachInv,
         \/ DatabaseStep
         \/ ConnectionStep
         \/ \E s \in Stmts : StatementStep(s)
         \/ \E t \in Streams : StreamStep(t)
  PROVE  ReachInv'
<1>1. ASSUME NEW status, Return(status) PROVE ReachInv'
  BY <1>1, ReachKept DEF Return
<1>2. ASSUME NEW x, Ask(x) PROVE ReachInv'
  BY <1>1, <1>2 DEF Ask
<1>3. ASSUME NEW x, NEW op, NEW out, Begin(x, op, out) PROVE ReachInv'
  <2>1. CASE ~Initialised(x)
    BY <1>1, <1>3, <2>1 DEF Begin
  <2>2. CASE Initialised(x)
    <3>1. call'.at = "check" /\ UNCHANGED <<contexts, cancelling>>
      BY <1>3, <2>2 DEF Begin
    <3> QED
      BY <3>1, ReachIdle DEF contexts
  <2> QED
    BY <2>1, <2>2
<1>4. ASSUME NEW x, CancelContext(x), Calls, UNCHANGED <<call, cancelling>> PROVE ReachInv'
  BY <1>4, ReachIdle DEF CancelContext, Calls, Idle
<1>5. CASE DatabaseStep
  BY <1>1, <1>2, <1>5, ReachKept DEF DatabaseStep, DatabaseNew, New, DatabaseInit, DatabaseRelease,
     DatabaseSetOption, DatabaseGetOption, DatabaseSetOptionTyped
<1>6. CASE ConnectionStep
  <2>1. CASE ConnectionRelease
    BY <1>1, <1>4, <2>1 DEF ConnectionRelease
  <2>2. CASE ConnectionNew \/ ConnectionInit \/ ConnectionInitFails \/ \E o \in Options : ConnectionSetOption(o)
    BY <1>1, <2>2, ReachKept DEF ConnectionNew, New, ConnectionInit, ConnectionInitFails, ConnectionSetOption
  <2> QED
    BY <1>1, <1>2, <1>3, <1>6, <2>1, <2>2 DEF ConnectionStep, ConnectionGetOption, ConnectionSetOptionTyped,
       ConnectionStatistics, TableSchema, ReadPartition, Transact, Metadata, TableTypes
<1>7. ASSUME NEW s \in Stmts, StatementStep(s) PROVE ReachInv'
  <2>1. CASE StatementRelease(s)
    BY <1>1, <1>4, <2>1 DEF StatementRelease
  <2>2. CASE StatementNew(s)
    BY <1>1, <2>2, ReachKept DEF StatementNew
  <2> QED
    BY <1>1, <1>2, <1>3, <1>7, <2>1, <2>2 DEF StatementStep, StatementSetSql, StatementSetOption, StatementParameters,
       StatementGetOption, StatementSetOptionTyped, Update, Prepare, ExecuteSchema, ExecutePartitions, Query, Bind
<1>8. ASSUME NEW t \in Streams, StreamStep(t) PROVE ReachInv'
  BY <1>1, <1>8, ReachKept DEF StreamStep, GetNext, GetSchema, StreamError, StreamRelease
<1> QED
  BY <1>5, <1>6, <1>7, <1>8

\* The steps of a call under a context: newContext keeps the new function,
\* and a call it makes is not the one that a Cancel met.
LEMMA CallReach ==
  ASSUME IInv, ReachInv, CallStep
  PROVE  ReachInv'
<1>1. /\ call.x \in {Db} \cup Cancellable /\ (call.at # "idle" => call.x \in Cancellable)
      /\ ctx \in [Cancellable -> 0 .. MaxContexts] /\ cancel \in [Cancellable -> 0 .. MaxContexts]
      /\ made \in Nat /\ canceller.aim \in Nat
  BY DEF IInv, TypeOK, CallCancellable
<1>2. call = [at |-> call.at, op |-> call.op, x |-> call.x, fn |-> call.fn, k |-> call.k, out |-> call.out]
  BY DEF IInv, TypeOK
<1>3. CASE Supersede
  <2>1. call'.at \in {"fire", "dropCtx", "dropCancel", "newCtx"} /\ made' = made /\ UNCHANGED cancelling
    BY <1>2, <1>3 DEF Supersede, CancelContextStep, contexts
  <2> QED
    BY <2>1, ReachIdle
<1>4. CASE NewCtx
  <2>1. /\ call'.at = "newCancel" /\ call'.x = call.x /\ call'.k = made + 1 /\ ctx'[call.x] = made + 1
        /\ made' = made + 1 /\ UNCHANGED cancelling
    BY <1>1, <1>2, <1>4 DEF NewCtx
  <2> QED
    BY <1>1, <2>1 DEF ReachInv, CancelKept, Aimed, Reached, Met, cancelling
<1>5. CASE NewCancel
  <2>1. /\ call'.at = "give" /\ call'.x = call.x /\ call'.k = call.k /\ cancel'[call.x] = call.k
        /\ call.at = "newCancel" /\ UNCHANGED <<ctx, made, dead, cancelling>>
    BY <1>1, <1>2, <1>5 DEF NewCancel
  <2> QED
    BY <2>1 DEF ReachInv, CancelKept, Aimed, Reached, Met, cancelling
<1>6. CASE GiveCtx
  <2>1. PICK k \in {call.k, ctx[call.x]} : call' = [call EXCEPT !.at = "run", !.k = k]
    BY <1>6 DEF GiveCtx
  <2>2. call.at = "give" /\ call'.at = "run" /\ call'.x = call.x /\ call'.k = k /\ UNCHANGED <<contexts, cancelling>>
    BY <1>2, <1>6, <2>1 DEF GiveCtx
  <2> QED
    BY <1>1, <2>1, <2>2 DEF ReachInv, CancelKept, Aimed, Reached, Met, contexts, cancelling
<1>7. CASE Succeed \/ Fail \/ Panic
  <2>1. call'.at = "idle" /\ UNCHANGED <<contexts, cancelling>>
    BY <1>7 DEF Succeed, Fail, Panic, Idle
  <2> QED
    BY <2>1, ReachIdle DEF contexts
<1> QED
  BY <1>3, <1>4, <1>5, <1>6, <1>7 DEF CallStep

\* The Cancel itself: as the first, it finds the function of the call it meets.
LEMMA CancelReach ==
  ASSUME IInv, ReachInv, CancelStep, MaxCancels <= 1
  PROVE  ReachInv'
<1>1. /\ cancels \in Nat /\ MaxCancels \in Nat /\ canceller.aim \in Nat /\ call.k \in Nat
      /\ ctx \in [Cancellable -> 0 .. MaxContexts] /\ canceller.x \in Cancellable
      /\ (call.at # "idle" => call.x \in Cancellable)
      /\ canceller = [at |-> canceller.at, x |-> canceller.x, fn |-> canceller.fn, aim |-> canceller.aim]
  BY DEF IInv, TypeOK, CallCancellable
<1>2. canceller.at # "idle" => cancels # 0
  BY DEF ReachInv, CancelKept, NoCancel
<1>3. ASSUME NEW x \in Cancellable, BeginCancel(x) PROVE ReachInv'
  <2>1. cancels = 0 /\ cancels' = 1 /\ UNCHANGED <<contexts, call>>
    BY <1>1, <1>3 DEF BeginCancel
  <2>2. /\ canceller'.at = "check" /\ canceller'.x = x
        /\ canceller'.aim = (IF call.at = "run" /\ call.x = x THEN call.k ELSE 0)
    BY <1>3 DEF BeginCancel
  <2>3. canceller'.aim <= made
    BY <2>2 DEF IInv, TypeOK, CancelsMade
  <2> QED
    BY <1>1, <2>1, <2>2, <2>3 DEF ReachInv, CancelKept, Aimed, Reached, Met, contexts
<1>4. CASE Cancel
  <2>1. CancelContextStep(canceller, canceller', NoCancel) /\ UNCHANGED <<call, cancels>>
    BY <1>4 DEF Cancel
  <2>2. cancels # 0 /\ cancels' # 0
    BY <1>2, <2>1 DEF CancelContextStep
  <2>3. CASE canceller.at = "check"
    BY <1>1, <2>1, <2>2, <2>3 DEF CancelContextStep, ReachInv, CancelKept, Aimed, Reached, Met, contexts
  <2>4. CASE canceller.at = "fire"
    BY <1>1, <2>1, <2>2, <2>4 DEF CancelContextStep, ReachInv, CancelKept, Aimed, Reached, Met
  <2>5. CASE canceller.at = "dropCtx"
    BY <1>1, <2>1, <2>2, <2>5 DEF CancelContextStep, ReachInv, CancelKept, Aimed, Reached, Met
  <2>6. CASE canceller.at = "dropCancel"
    <3>1. canceller' = NoCancel /\ made' = made /\ made \in Nat
      BY <2>1, <2>6 DEF CancelContextStep, IInv, TypeOK
    <3> QED
      BY <1>1, <2>1, <2>2, <2>6, <3>1 DEF CancelContextStep, ReachInv, CancelKept, Aimed, Reached, Met, NoCancel
  <2> QED
    BY <2>1, <2>3, <2>4, <2>5, <2>6 DEF CancelContextStep
<1>5. CASE CancelPanic
  <2>1. canceller' = NoCancel /\ UNCHANGED <<call, contexts, cancels>> /\ made \in Nat
    BY <1>5 DEF CancelPanic, IInv, TypeOK
  <2> QED
    BY <1>1, <2>1 DEF ReachInv, CancelKept, Aimed, Reached, Met, NoCancel, contexts
<1> QED
  BY <1>3, <1>4, <1>5 DEF CancelStep

LEMMA ReachNext == MaxCancels <= 1 /\ IInv /\ ReachInv /\ [Next]_vars => ReachInv'
<1> SUFFICES ASSUME MaxCancels <= 1, IInv, ReachInv, [Next]_vars PROVE ReachInv'
  OBVIOUS
<1>1. CASE UNCHANGED vars
  BY <1>1, ReachKept DEF vars
<1> QED
  BY <1>1, ClientReach, CallReach, CancelReach DEF Next

\* adbc.h: a Cancel has the other functions return ADBC_STATUS_CANCELLED.
\* The first one does: when it returns, the context of the call it found in
\* progress is cancelled, however the steps of the two threads mix.
THEOREM FirstCancelReaches == MaxCancels <= 1 => (Spec => CancelReaches)
<1> SUFFICES ASSUME MaxCancels <= 1 PROVE Spec => CancelReaches
  OBVIOUS
<1>1. Init => ReachInv
  BY DEF Init, Idle, NoCancel, ReachInv, CancelKept, Aimed, Reached, Met
<1>2. IInv /\ ReachInv /\ [Next]_vars => ReachInv'
  BY ReachNext
<1>3. ASSUME IInv, ReachInv, [Next]_vars, canceller.at # "idle", canceller'.at = "idle", Met
      PROVE  canceller.aim \in dead
  <2>1. canceller \in [at: {"idle", "check", "fire", "dropCtx", "dropCancel"}, x: Cancellable,
                       fn: 0 .. MaxContexts, aim: 0 .. MaxContexts]
    BY <1>3 DEF IInv, TypeOK
  <2>2. canceller'.at = "idle" => CallsNil(canceller) \/ canceller.at = "dropCancel"
    <3>1. CASE CancelStep
      BY <1>3, <2>1, <3>1 DEF CancelStep, BeginCancel, Cancel, CancelContextStep, CancelPanic, NoCancel
    <3>2. CASE UNCHANGED canceller
      BY <1>3, <3>2
    <3>3. ASSUME NEW status, Return(status) PROVE UNCHANGED canceller
      BY <3>3 DEF Return, cancelling
    <3>4. ASSUME NEW x, Ask(x) PROVE UNCHANGED canceller
      BY <3>3, <3>4 DEF Ask
    <3>5. ASSUME NEW x, NEW op, NEW out, Begin(x, op, out) PROVE UNCHANGED canceller
      BY <3>3, <3>5 DEF Begin, cancelling
    <3>6. ASSUME DatabaseStep PROVE UNCHANGED canceller
      BY <3>3, <3>4, <3>6 DEF DatabaseStep, DatabaseNew, New, DatabaseInit, DatabaseRelease, DatabaseSetOption,
         DatabaseGetOption, DatabaseSetOptionTyped, cancelling
    <3>7. ASSUME ConnectionStep PROVE UNCHANGED canceller
      BY <3>3, <3>4, <3>5, <3>7 DEF ConnectionStep, ConnectionNew, New, ConnectionInit, ConnectionInitFails,
         ConnectionRelease, ConnectionGetOption, ConnectionSetOptionTyped, ConnectionStatistics, TableSchema,
         ReadPartition, Transact, ConnectionSetOption, Metadata, TableTypes, cancelling
    <3>8. ASSUME NEW s \in Stmts, StatementStep(s) PROVE UNCHANGED canceller
      BY <3>3, <3>4, <3>5, <3>8 DEF StatementStep, StatementNew, StatementRelease, StatementSetSql,
         StatementSetOption, StatementParameters, StatementGetOption, StatementSetOptionTyped, Update, Prepare,
         ExecuteSchema, ExecutePartitions, Query, Bind, cancelling
    <3>9. ASSUME NEW t \in Streams, StreamStep(t) PROVE UNCHANGED canceller
      BY <3>3, <3>9 DEF StreamStep, GetNext, GetSchema, StreamError, StreamRelease, cancelling
    <3>10. ASSUME CallStep PROVE UNCHANGED canceller
      BY <3>10 DEF CallStep, Supersede, NewCtx, NewCancel, GiveCtx, Succeed, Fail, Panic, cancelling
    <3>11. CASE UNCHANGED vars
      BY <3>2, <3>11 DEF vars, cancelling
    <3> QED
      BY <1>3, <3>1, <3>2, <3>6, <3>7, <3>8, <3>9, <3>10, <3>11 DEF Next
  <2> QED
    BY <1>3, <2>2 DEF CallsNil, ReachInv, Reached, Met
<1>4. IInv /\ ReachInv /\ [Next]_vars =>
        [/\ canceller.at # "idle" /\ canceller'.at = "idle"
         /\ canceller.aim # 0 /\ call.at = "run" /\ call.k = canceller.aim
         => canceller.aim \in dead]_vars
  BY <1>3 DEF Met
<1> QED
  BY <1>1, <1>2, <1>4, Invariance, PTL DEF Spec, CancelReaches

=============================================================================
