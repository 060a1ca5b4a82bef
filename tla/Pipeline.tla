------------------------------ MODULE Pipeline -----------------------------
(***************************************************************************)
(* RunPipeline (simpanan/internal/run_query.go, execute.go) as it is       *)
(* called by concurrent requests: parse, check that only the last stage    *)
(* may write, run stage after stage on the results of the one before.      *)
(* All calls share one configuration (common/config.go).                   *)
(*                                                                         *)
(* Databases are external: a request to one succeeds or fails, and may     *)
(* have had its effect all the same.                                       *)
(***************************************************************************)
EXTENDS StageParse, Integers, FiniteSets

CONSTANTS
    Calls,        \* requests, each of which may call RunPipeline again
    Buffers,      \* the texts that are run, sequences of lines
    Registries,   \* connection registries a call may read
    OptsOf,       \* opts a call may come with, sequences of [key, value]
    Limits,       \* values of max_row_limit
    BadValue,     \* an option value that does not parse
    TableSize     \* bound: rows of the longest result

ASSUME BufferAssumption == Buffers \subseteq Seq(Line)
ASSUME RegistryAssumption ==
    \A registry \in Registries : registry \in [DOMAIN registry -> Uris]
ASSUME OptsAssumption ==
    /\ Limits \subseteq Int /\ 20 \in Limits
    /\ OptsOf \subseteq Seq(([key : {"max_row_limit"},
                              value : Limits \cup {BadValue}])
                       \cup ([key : {"debug_mode"},
                              value : BOOLEAN \cup {BadValue}]))
ASSUME TableAssumption == TableSize \in Nat

VARIABLES
    config,     \* the global configuration
    call,       \* the call each request is in, its place and its locals
    asked,      \* ghost: what the call has asked databases to do
    alone       \* ghost: nobody else has changed config during the call

vars == <<config, call, asked, alone>>

Config == [MaxRowLimit : Limits, DebugMode : BOOLEAN]

NoResult == 0       \* otherwise the stage the result is of

Idle == [pc |-> "idle", stages |-> << >>, i |-> 0, line |-> << >>, rows |-> 0,
         res |-> NoResult, dbg |-> << >>, out |-> "none"]

Init ==
    /\ config = [MaxRowLimit |-> 20, DebugMode |-> FALSE]
    /\ call = [c \in Calls |-> Idle]
    /\ asked = [c \in Calls |-> << >>]
    /\ alone = [c \in Calls |-> FALSE]

-----------------------------------------------------------------------------
\* SetConfig takes the options in turn and stops at one that does not parse;
\* its error is dropped.
SetOption(cfg, opt) ==
    IF opt.key = "max_row_limit" THEN [cfg EXCEPT !.MaxRowLimit = opt.value]
                                 ELSE [cfg EXCEPT !.DebugMode = opt.value]

SetConfig(opts) ==
    LET bad == {n \in DOMAIN opts : opts[n].value = BadValue}
        set[n \in 0..Len(opts)] ==
            IF n = 0 THEN config
            ELSE IF \E m \in bad : m <= n THEN set[n - 1]
            ELSE SetOption(set[n - 1], opts[n])
    IN  set[Len(opts)]

\* Mutant: administrative commands pass the check.
AdminMayPrecede(stages) ==
    \A i \in 1..(Len(stages) - 1) :
        QueryType(TypeOf(stages[i]), stages[i].line) # "write"

\* Stages before the last are checked as they are written.
ChainedStagesAreReadOnly(stages) ==
    \A i \in 1..(Len(stages) - 1) :
        QueryType(TypeOf(stages[i]), stages[i].line)
            \notin {"write", "admin"}

Reply(k, out) == [k EXCEPT !.pc = "done", !.out = out]

\* The configuration is set before anything can fail; the registry is read
\* next, and need not be readable.
Begin(c, opts, k) ==
    /\ call[c].pc = "idle"
    /\ config' = SetConfig(opts)
    /\ call' = [call EXCEPT ![c] = k]
    /\ alone' = [d \in Calls |->
                    IF d = c THEN TRUE
                    ELSE alone[d] /\ config' = config]
    /\ UNCHANGED asked

Accepted(parsed) == parsed.ok /\ ChainedStagesAreReadOnly(parsed.stages)

\* What the texts come to, with any of the registries.
Parsed == {ParseQueries(b, r) : b \in Buffers, r \in Registries}
Pipelines == {parsed.stages : parsed \in {p \in Parsed : Accepted(p)}}

Start(c) ==
    \E stages \in Pipelines, opts \in OptsOf :
        Begin(c, opts,
              IF stages = << >> THEN [Idle EXCEPT !.pc = "finish"]
              ELSE [Idle EXCEPT !.pc = "stage", !.stages = stages, !.i = 1])

\* The registry cannot be read, or the text is refused.
Refuse(c) ==
    \E opts \in OptsOf : Begin(c, opts, Reply(Idle, "error"))

-----------------------------------------------------------------------------
Current(k) == k.stages[k.i]

\* The texts that the stage which is due may be run as.  Placeholders of a
\* stage that has a predecessor are replaced, unless jq is to run it.
LinesToRun(k) ==
    IF k.pc # "stage" THEN {}
    ELSE IF k.res # NoResult /\ TypeOf(Current(k)) # "jq"
    THEN PipeData(Current(k).line)
    ELSE {Current(k).line}

\* Mutant: the loop does not know its last stage.
CompletedAndOn(k) ==
    [k EXCEPT !.pc = "stage", !.i = @ + 1, !.line = << >>, !.rows = 0,
              !.res = k.i,
              !.dbg = IF config.DebugMode THEN Append(@, k.i) ELSE @]

\* Mutant: the result is not handed on.
CompletedKeepingInput(k) ==
    LET last == k.i = Len(k.stages)
    IN  [k EXCEPT !.pc = IF last THEN "finish" ELSE "stage",
                  !.i = IF last THEN @ ELSE @ + 1,
                  !.line = << >>, !.rows = 0,
                  !.dbg = IF config.DebugMode THEN Append(@, k.i) ELSE @]

\* Mutant: the loop is left before the last result is noted down.
CompletedUnnoted(k) ==
    LET last == k.i = Len(k.stages)
    IN  [k EXCEPT !.pc = IF last THEN "finish" ELSE "stage",
                  !.i = IF last THEN @ ELSE @ + 1,
                  !.line = << >>, !.rows = 0,
                  !.res = k.i,
                  !.dbg = IF config.DebugMode /\ ~last THEN Append(@, k.i)
                                                      ELSE @]

\* What follows on the success of a stage.  Its result is never empty: no rows
\* are "[]" and no value is "null", so the next stage has an argument.
Completed(k) ==
    LET last == k.i = Len(k.stages)
    IN  [k EXCEPT !.pc = IF last THEN "finish" ELSE "stage",
                  !.i = IF last THEN @ ELSE @ + 1,
                  !.line = << >>, !.rows = 0,
                  !.res = k.i,
                  !.dbg = IF config.DebugMode THEN Append(@, k.i) ELSE @]

\* execute: the class is looked up again, on the line after substitution.
Dispatch(c, line, class) ==
    LET k == call[c]
        type == TypeOf(Current(k))
    IN  /\ class = QueryType(type, line)
        /\ class # Unknown
        /\ type # "jq"
        /\ class = "admin" => Supported(line)
        /\ ~Panics(type, line)
        /\ asked' = [asked EXCEPT ![c] = Append(@,
                        [stage |-> k.i, class |-> class])]

\* A query whose result is read row by row.
Query(c) ==
    \E line \in LinesToRun(call[c]), class \in {"read", "admin"} :
        /\ Dispatch(c, line, class)
        /\ ByRows(TypeOf(Current(call[c])), line, class)
        /\ call' = [call EXCEPT ![c].pc = "rows", ![c].line = line]
        /\ UNCHANGED <<config, alone>>

\* A query or a write that is answered at once.
Exec(c) ==
    \E line \in LinesToRun(call[c]), class \in {"read", "write"} :
        /\ Dispatch(c, line, class)
        /\ ~ByRows(TypeOf(Current(call[c])), line, class)
        /\ call' = [call EXCEPT ![c] = Completed(@)]
        /\ UNCHANGED <<config, alone>>

\* The request reaches the database and fails there.
RequestFails(c) ==
    \E line \in LinesToRun(call[c]), class \in {"read", "write", "admin"} :
        /\ Dispatch(c, line, class)
        /\ call' = [call EXCEPT ![c] = Reply(@, "error")]
        /\ UNCHANGED <<config, alone>>

\* jq is the one stage that needs a predecessor.
Transform(c) ==
    LET k == call[c]
    IN  /\ k.pc = "stage" /\ TypeOf(Current(k)) = "jq"
        /\ k.res # NoResult
        /\ call' = [call EXCEPT ![c] = Completed(@)]
        /\ UNCHANGED <<config, asked, alone>>

\* An error before the database hears of the stage: a class that is not
\* known, a connection that fails, jq without input or with a bad expression.
StageFails(c) ==
    /\ call[c].pc = "stage"
    /\ call' = [call EXCEPT ![c] = Reply(@, "error")]
    /\ UNCHANGED <<config, asked, alone>>

\* A panic ends the request; net/http keeps the server alive.
Abort(c) ==
    /\ \E line \in LinesToRun(call[c]) :
            Panics(TypeOf(Current(call[c])), line)
    /\ call' = [call EXCEPT ![c] = Reply(@, "panic")]
    /\ UNCHANGED <<config, asked, alone>>

\* Mutant: one row too many.
BeyondLimit(rows) == rows > config.MaxRowLimit

\* One turn of a row loop: the limit is read anew, and compared by equality.
AtLimit(rows) == rows = config.MaxRowLimit

NextRow(c) ==
    /\ call[c].pc = "rows"
    /\ ~AtLimit(call[c].rows) /\ call[c].rows < TableSize
    /\ call' = [call EXCEPT ![c].rows = @ + 1]
    /\ UNCHANGED <<config, asked, alone>>

\* The limit is looked at only when there is another row, so a table may also
\* end anywhere.
EndOfRows(c) ==
    /\ call[c].pc = "rows"
    /\ call' = [call EXCEPT ![c] = Completed(@)]
    /\ UNCHANGED <<config, asked, alone>>

RowFails(c) ==
    /\ call[c].pc = "rows"
    /\ call' = [call EXCEPT ![c] = Reply(@, "error")]
    /\ UNCHANGED <<config, asked, alone>>

\* The configuration decides, at the end, on what is shown.
Finish(c) ==
    /\ call[c].pc = "finish"
    /\ call' = [call EXCEPT ![c] =
                    Reply(@, IF config.DebugMode THEN "debug" ELSE "payload")]
    /\ UNCHANGED <<config, asked, alone>>

\* The answer is on its way and the request is free for another call.
Answer(c) ==
    /\ call[c].pc = "done"
    /\ call' = [call EXCEPT ![c] = Idle]
    /\ asked' = [asked EXCEPT ![c] = << >>]
    /\ alone' = [alone EXCEPT ![c] = FALSE]
    /\ UNCHANGED config

Next == \E c \in Calls :
    \/ Start(c) \/ Refuse(c)
    \/ Query(c) \/ Exec(c) \/ RequestFails(c) \/ Transform(c)
    \/ StageFails(c) \/ Abort(c)
    \/ NextRow(c) \/ EndOfRows(c) \/ RowFails(c)
    \/ Finish(c) \/ Answer(c)

Spec == Init /\ [][Next]_vars

-----------------------------------------------------------------------------
TypeOK ==
    /\ config \in Config
    /\ call \in [Calls ->
            [pc : {"idle", "stage", "rows", "finish", "done"},
             stages : Seq(Stage), i : Nat, line : Text, rows : 0..TableSize,
             res : Nat, dbg : Seq(Nat),
             out : {"none", "error", "panic", "debug", "payload"}]]
    /\ \A c \in Calls :
            /\ call[c].i \in 0..Len(call[c].stages)
            /\ call[c].pc \in {"stage", "rows"} => call[c].i > 0
    /\ asked \in [Calls ->
            Seq([stage : Nat, class : {"read", "write", "admin"}])]
    /\ alone \in [Calls -> BOOLEAN]

\* A stage before the last is asked of its database as a read, although its
\* class is looked up a second time after the check, on another text; unless
\* a placeholder stands where the class is decided on: first, or for MongoDB
\* as the collection or the method (validateChainedStagesAreReadOnly,
\* execute).
EarlierStagesAreReads ==
    \A c \in Calls : \A n \in DOMAIN asked[c] :
        LET a == asked[c][n]
            stages == call[c].stages
        IN  (/\ a.stage < Len(stages)
             /\ LET s == stages[a.stage]
                IN  \A j \in Deciding(TypeOf(s), s.line) : s.line[j] # Hole)
                => a.class = "read"

\* validateChainedStagesAreReadOnly: "in a pipeline, only the last stage may be
\* a write or admin operation; all preceding stages must be reads".
OnlyTheLastStageWrites ==
    \A c \in Calls : \A n \in DOMAIN asked[c] :
        asked[c][n].stage < Len(call[c].stages) => asked[c][n].class = "read"

\* A result of rows has no more of them than the limit the call runs under,
\* while nobody else sets another one (the row loops of the adapters).
RowLimitHolds ==
    \A c \in Calls :
        (alone[c] /\ config.MaxRowLimit >= 0)
            => call[c].rows <= config.MaxRowLimit

\* The answer in debug mode shows every stage once and in order, unless
\* another call has switched the mode on meanwhile (RunPipeline).
DebugShowsEveryStage ==
    \A c \in Calls :
        (call[c].out = "debug" /\ alone[c])
            => call[c].dbg = [n \in 1..Len(call[c].stages) |-> n]

Ended(k) == k.out \in {"debug", "payload"}

ChainOf == INSTANCE Chain WITH
    Lengths <- {Len(stages) : stages \in Pipelines},
    status <- [c \in Calls |->
        LET k == call[c]
        IN  IF k.stages = << >> THEN "none"
            ELSE IF k.pc # "done" THEN "running"
            ELSE IF Ended(k) THEN "completed" ELSE "failed"],
    count <- [c \in Calls |-> Len(call[c].stages)],
    index <- [c \in Calls |-> call[c].i],
    result <- [c \in Calls |-> IF Ended(call[c]) THEN call[c].res ELSE 0]

\* A call runs its stages in order, each when its predecessor has completed,
\* stops at the first that fails, and answers with the result of the last
\* (RunPipeline, against the rules of specs/simpanan.allium).
ImplementsChain == ChainOf!Spec
=============================================================================
