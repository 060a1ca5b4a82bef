--------------------------- MODULE PipelineProofs --------------------------
(***************************************************************************)
(* Theorems about Pipeline, for any requests, texts, registries and        *)
(* options.                                                                *)
(***************************************************************************)
EXTENDS Pipeline, StageParseProofs

-----------------------------------------------------------------------------
\* What the operators return.

LEMMA PipelinesType == Pipelines \subseteq Seq(Stage)
<1> SUFFICES ASSUME NEW b \in Buffers, NEW r \in Registries
             PROVE  ParseQueries(b, r).stages \in Seq(Stage)
  BY DEF Pipelines, Parsed
<1>1. b \in Seq(Line)  BY BufferAssumption
<1>2. \A l \in DOMAIN r : r[l] \in Uris  BY RegistryAssumption
<1> QED  BY <1>1, <1>2, ParseQueriesType DEF ParseResult

LEMMA PipelinesAccepted ==
    \A stages \in Pipelines : ChainedStagesAreReadOnly(stages)
  BY DEF Pipelines, Accepted

\* What a placeholder may turn into, and that it changes nothing else.
LEMMA PipeDataType ==
    ASSUME NEW line \in Text, NEW new \in PipeData(line)
    PROVE  /\ new \in Text /\ Len(new) = Len(line)
           /\ \A j \in DOMAIN line : line[j] # Hole => new[j] = line[j]
<1>1. PICK upto \in 0..Len(line), values \in [{1, 2} -> Words] :
        new = [j \in DOMAIN line |->
                IF line[j] # Hole \/ j > upto THEN line[j]
                ELSE IF j <= 2 THEN values[j] ELSE Value]
  BY DEF PipeData
<1>2. line \in Seq(Words \cup {Hole}) /\ Len(line) \in Nat
      /\ DOMAIN line = 1..Len(line)
  BY DEF Text
<1>3. ASSUME NEW j \in 1..Len(line) PROVE new[j] \in Words \cup {Hole}
  <2>1. line[j] \in Words \cup {Hole}  BY <1>2
  <2>2. j <= 2 => values[j] \in Words
    <3>1. j <= 2 => j \in {1, 2}  OBVIOUS
    <3> QED  BY <3>1
  <2>3. new[j] = IF line[j] # Hole \/ j > upto THEN line[j]
                 ELSE IF j <= 2 THEN values[j] ELSE Value
    BY <1>1, <1>2
  <2> QED  BY <2>1, <2>2, <2>3, WordAssumption
<1>4. new \in [1..Len(line) -> Words \cup {Hole}]
  <2>1. new = [j \in 1..Len(line) |-> new[j]]  BY <1>1, <1>2
  <2> QED  BY <1>3, <2>1, Zenon
<1>5. new \in Seq(Words \cup {Hole}) /\ Len(new) = Len(line)
  BY <1>2, <1>4
<1>6. \A j \in DOMAIN line : line[j] # Hole => new[j] = line[j]
  BY <1>1
<1> QED  BY <1>5, <1>6 DEF Text

\* The class of a text is decided by the words that Deciding names.
Decided(type, line) == \A j \in Deciding(type, line) : line[j] # Hole

LEMMA SameClass ==
    ASSUME NEW type, NEW line \in Text, NEW new \in Text,
           Len(new) = Len(line),
           \A j \in Deciding(type, line) : new[j] = line[j]
    PROVE  QueryType(type, new) = QueryType(type, line)
<1>1. /\ Len(line) \in Nat /\ DOMAIN line = 1..Len(line)
      /\ line \in Seq(Words \cup {Hole}) /\ new \in Seq(Words \cup {Hole})
  BY DEF Text
<1>2. FirstWord(new) = FirstWord(line)
  <2>1. CASE Len(line) = 0
    <3>1. line = << >> /\ new = << >>  BY <1>1, <2>1
    <3> QED  BY <3>1
  <2>2. CASE Len(line) # 0
    <3>1. line # << >> /\ new # << >>  BY <1>1, <2>2
    <3>2. 1 \in Deciding(type, line)  BY <1>1, <2>2 DEF Deciding
    <3> QED  BY <3>1, <3>2 DEF FirstWord
  <2> QED  BY <2>1, <2>2
<1>3. ASSUME type = "mongo" PROVE Method(new) = Method(line)
  <2>1. CASE Len(line) < 2  BY <2>1 DEF Method
  <2>2. CASE ~(Len(line) < 2)
    <3>1. 1 \in Deciding(type, line) /\ 2 \in Deciding(type, line)
      BY <1>1, <1>3, <2>2 DEF Deciding
    <3> QED  BY <3>1 DEF Method
  <2> QED  BY <2>1, <2>2
<1>4. type = "mongo" => QueryTypeMongo(new) = QueryTypeMongo(line)
  BY <1>2, <1>3 DEF QueryTypeMongo
<1> QED  BY <1>2, <1>4 DEF QueryType

\* The recursion of SetConfig, up to an option.
Unparsed(opts) == {n \in DOMAIN opts : opts[n].value = BadValue}
SetStep(n, opts, cfg) ==
    IF \E m \in Unparsed(opts) : m <= n THEN cfg ELSE SetOption(cfg, opts[n])
SetUpTo(m, opts, f) ==
    f = [n \in 0..m |-> IF n = 0 THEN config ELSE SetStep(n, opts, f[n - 1])]

LEMMA SetDefined ==
    ASSUME NEW opts, NEW m \in Nat
    PROVE  \E f : SetUpTo(m, opts, f)
<1> DEFINE Bad == {k \in Nat : ~ \E f : SetUpTo(k, opts, f)}
<1> SUFFICES ASSUME Bad # {} PROVE FALSE  OBVIOUS
<1>1. PICK k \in Bad : \A j \in Bad : k <= j  BY LeastNumber
<1>2. CASE k = 0
  <2> DEFINE f == [n \in 0..0 |-> config]
  <2>1. f = [n \in 0..0 |-> IF n = 0 THEN config
                            ELSE SetStep(n, opts, f[n - 1])]
    OBVIOUS
  <2> HIDE DEF f
  <2> QED  BY <1>2, <2>1 DEF SetUpTo
<1>3. CASE k # 0
  <2>1. k - 1 \in Nat /\ k - 1 \notin Bad  BY <1>1, <1>3
  <2>2. PICK g : SetUpTo(k - 1, opts, g)  BY <2>1
  <2> DEFINE f == [n \in 0..k |->
                    IF n = k THEN SetStep(k, opts, g[k - 1]) ELSE g[n]]
  <2>3. \A n \in 0..(k - 1) :
            g[n] = IF n = 0 THEN config ELSE SetStep(n, opts, g[n - 1])
    BY <2>2 DEF SetUpTo
  <2>4. \A n \in 0..k : n # k => n \in 0..(k - 1)  BY <2>1
  <2>5. \A n \in 0..k : n # 0 => n - 1 \in 0..k /\ n - 1 # k  BY <2>1
  <2>6. \A n \in 0..k :
            f[n] = IF n = 0 THEN config ELSE SetStep(n, opts, f[n - 1])
    BY <1>3, <2>3, <2>4, <2>5
  <2>7. f = [n \in 0..k |-> f[n]]  OBVIOUS
  <2>8. f = [n \in 0..k |-> IF n = 0 THEN config
                            ELSE SetStep(n, opts, f[n - 1])]
    <3> HIDE DEF f
    <3> QED BY <2>6, <2>7
  <2> HIDE DEF f
  <2> QED  BY <2>8 DEF SetUpTo
<1> QED  BY <1>2, <1>3

LEMMA SetConfigType ==
    ASSUME config \in Config, NEW opts \in OptsOf
    PROVE  SetConfig(opts) \in Config
<1> DEFINE f == CHOOSE f : SetUpTo(Len(opts), opts, f)
           Bad == {n \in 0..Len(opts) : f[n] \notin Config}
<1>1. opts \in Seq(([key : {"max_row_limit"}, value : Limits \cup {BadValue}])
              \cup ([key : {"debug_mode"}, value : BOOLEAN \cup {BadValue}]))
  BY OptsAssumption
<1>2. SetUpTo(Len(opts), opts, f)
  <2>1. Len(opts) \in Nat  BY <1>1
  <2>2. \E g : SetUpTo(Len(opts), opts, g)  BY <2>1, SetDefined
  <2> QED  BY <2>2
<1>3. \A n \in 0..Len(opts) :
          f[n] = IF n = 0 THEN config ELSE SetStep(n, opts, f[n - 1])
  BY <1>2 DEF SetUpTo
<1>4. SetConfig(opts) = f[Len(opts)]
  BY DEF SetConfig, SetUpTo, SetStep, Unparsed
<1> HIDE DEF f
<1>5. ASSUME NEW n \in 1..Len(opts), NEW cfg \in Config
      PROVE  SetStep(n, opts, cfg) \in Config
  <2>1. CASE \E m \in Unparsed(opts) : m <= n
    BY <2>1 DEF SetStep
  <2>2. CASE ~ \E m \in Unparsed(opts) : m <= n
    <3>1. n \in DOMAIN opts /\ n \in Nat /\ opts[n].value # BadValue
      BY <1>1, <2>2 DEF Unparsed
    <3>2. \/ opts[n].key = "max_row_limit" /\ opts[n].value \in Limits
          \/ opts[n].key = "debug_mode" /\ opts[n].value \in BOOLEAN
      BY <1>1, <3>1
    <3>3. SetOption(cfg, opts[n]) \in Config
      BY <3>2 DEF SetOption, Config
    <3> QED  BY <2>2, <3>3 DEF SetStep
  <2> QED  BY <2>1, <2>2
<1>6. Bad = {}
  <2> SUFFICES ASSUME Bad # {} PROVE FALSE  OBVIOUS
  <2>1. PICK n \in Bad : \A j \in Bad : n <= j
    <3>1. Bad \subseteq Nat  OBVIOUS
    <3> HIDE DEF Bad
    <3> QED  BY <3>1, LeastNumber
  <2>2. n # 0  BY <1>3, <2>1
  <2>3. f[n - 1] \in Config /\ n \in 1..Len(opts)  BY <2>1, <2>2
  <2>4. f[n] \in Config  BY <1>3, <1>5, <2>1, <2>2, <2>3
  <2> QED  BY <2>1, <2>4
<1>7. Len(opts) \in 0..Len(opts)  BY <1>1
<1> QED  BY <1>4, <1>6, <1>7

-----------------------------------------------------------------------------
\* Types.

CallType ==
    [pc : {"idle", "stage", "rows", "finish", "done"},
     stages : Seq(Stage), i : Nat, line : Text, rows : 0..TableSize,
     res : Nat, dbg : Seq(Nat),
     out : {"none", "error", "panic", "debug", "payload"}]
AskType == [stage : Nat, class : {"read", "write", "admin"}]

\* A call whose place is among its stages.
GoodCall(k) ==
    /\ k \in CallType
    /\ k.i \in 0..Len(k.stages)
    /\ k.pc \in {"stage", "rows"} => k.i > 0

LEMMA TypeParts ==
    TypeOK <=> /\ config \in Config
               /\ call = [c \in Calls |-> call[c]]
               /\ \A c \in Calls : GoodCall(call[c])
               /\ asked \in [Calls -> Seq(AskType)]
               /\ alone \in [Calls -> BOOLEAN]
  BY DEF TypeOK, GoodCall, CallType, AskType

LEMMA IdleGood == GoodCall(Idle)
<1>1. << >> \in Seq(Stage) /\ << >> \in Text /\ << >> \in Seq(Nat)
  BY DEF Text
<1>2. Len(Idle.stages) = 0  BY DEF Idle
<1> QED  BY <1>1, <1>2, TableAssumption DEF GoodCall, CallType, Idle, NoResult

LEMMA ReplyGood ==
    ASSUME NEW k, GoodCall(k), NEW out \in {"error", "panic", "debug", "payload"}
    PROVE  GoodCall(Reply(k, out))
  BY DEF GoodCall, CallType, Reply

LEMMA CompletedGood ==
    ASSUME NEW k, GoodCall(k), k.pc \in {"stage", "rows"}
    PROVE  GoodCall(Completed(k))
<1> DEFINE last == k.i = Len(k.stages)
           dbg == IF config.DebugMode THEN Append(k.dbg, k.i) ELSE k.dbg
<1>1. k.i \in 1..Len(k.stages) /\ Len(k.stages) \in Nat
  BY DEF GoodCall, CallType
<1>2. dbg \in Seq(Nat)  BY DEF GoodCall, CallType
<1>3. << >> \in Text  BY DEF Text
<1>4. Completed(k) =
        [k EXCEPT !.pc = IF last THEN "finish" ELSE "stage",
                  !.i = IF last THEN k.i ELSE k.i + 1,
                  !.line = << >>, !.rows = 0, !.res = k.i, !.dbg = dbg]
  BY DEF Completed
<1> DEFINE pc == IF last THEN "finish" ELSE "stage"
           i == IF last THEN k.i ELSE k.i + 1
<1>5. i \in 1..Len(k.stages)  BY <1>1
<1>6. pc \in {"finish", "stage"}  OBVIOUS
<1> HIDE DEF dbg, pc, i
<1>7. Completed(k) =
        [pc |-> pc, stages |-> k.stages, i |-> i, line |-> << >>, rows |-> 0,
         res |-> k.i, dbg |-> dbg, out |-> k.out]
  BY <1>4 DEF GoodCall, CallType, pc, i
<1>8. Completed(k) \in CallType
  BY <1>1, <1>2, <1>3, <1>5, <1>6, <1>7, TableAssumption DEF GoodCall, CallType
<1> QED
  BY <1>1, <1>5, <1>7, <1>8 DEF GoodCall

LEMMA LinesType ==
    ASSUME NEW k, GoodCall(k), NEW line \in LinesToRun(k)
    PROVE  /\ k.pc = "stage"
           /\ k.i \in DOMAIN k.stages
           /\ line \in Text
           /\ LET stage == Current(k)
              IN  Decided(TypeOf(stage), stage.line)
                    => QueryType(TypeOf(stage), line)
                            = QueryType(TypeOf(stage), stage.line)
<1>1. k.pc = "stage"  BY DEF LinesToRun
<1>2. k.i \in DOMAIN k.stages  BY <1>1 DEF GoodCall, CallType
<1>3. Current(k).line \in Text
  <2>1. k.stages \in Seq(Stage)  BY DEF GoodCall, CallType
  <2>2. k.stages[k.i] \in Stage  BY <1>2, <2>1
  <2> QED  BY <2>2 DEF Current, Stage
<1>4. line = Current(k).line \/ line \in PipeData(Current(k).line)
  BY DEF LinesToRun
<1>5. ASSUME line \in PipeData(Current(k).line),
             Decided(TypeOf(Current(k)), Current(k).line)
      PROVE  QueryType(TypeOf(Current(k)), line)
                = QueryType(TypeOf(Current(k)), Current(k).line)
  <2>1. /\ line \in Text /\ Len(line) = Len(Current(k).line)
        /\ \A j \in DOMAIN Current(k).line :
                Current(k).line[j] # Hole => line[j] = Current(k).line[j]
    BY <1>3, <1>5, PipeDataType
  <2>2. \A j \in Deciding(TypeOf(Current(k)), Current(k).line) :
            line[j] = Current(k).line[j]
    BY <1>5, <2>1 DEF Decided, Deciding
  <2> QED  BY <1>3, <2>1, <2>2, SameClass
<1>6. line \in Text  BY <1>3, <1>4, PipeDataType
<1> QED  BY <1>1, <1>2, <1>4, <1>5, <1>6

\* What a request to a database records.
LEMMA DispatchType ==
    ASSUME TypeOK, NEW c \in Calls, NEW line \in LinesToRun(call[c]),
           NEW class \in {"read", "write", "admin"}, Dispatch(c, line, class)
    PROVE  /\ asked' \in [Calls -> Seq(AskType)]
           /\ \A d \in Calls : d # c => asked'[d] = asked[d]
           /\ asked'[c] = Append(asked[c],
                [stage |-> call[c].i, class |-> class])
<1>1. line \in Text /\ call[c].i \in Nat
  BY TypeParts, LinesType DEF GoodCall, CallType
<1> DEFINE ask == [stage |-> call[c].i, class |-> class]
<1>3. ask \in AskType  BY <1>1 DEF AskType
<1>4. asked \in [Calls -> Seq(AskType)]  BY TypeParts
<1>5. asked' = [asked EXCEPT ![c] = Append(asked[c], ask)]
  BY DEF Dispatch
<1>6. Append(asked[c], ask) \in Seq(AskType)  BY <1>3, <1>4
<1> HIDE DEF ask
<1>7. /\ asked' \in [Calls -> Seq(AskType)]
      /\ \A d \in Calls : d # c => asked'[d] = asked[d]
      /\ asked'[c] = Append(asked[c], ask)
  BY <1>4, <1>5, <1>6
<1> QED  BY <1>7 DEF ask

\* A step that puts a good call in the place of another.
LEMMA Replace ==
    ASSUME TypeOK, NEW c \in Calls, NEW k, GoodCall(k),
           call' = [call EXCEPT ![c] = k],
           config' \in Config, asked' \in [Calls -> Seq(AskType)],
           alone' \in [Calls -> BOOLEAN]
    PROVE  TypeOK'
<1>1. /\ call' = [d \in Calls |-> call'[d]]
      /\ \A d \in Calls : GoodCall(call'[d])
  BY TypeParts
<1> QED  BY <1>1 DEF TypeOK, GoodCall, CallType, AskType

LEMMA BeginGood ==
    ASSUME TypeOK, NEW c \in Calls, NEW opts \in OptsOf,
           NEW k, GoodCall(k), Begin(c, opts, k)
    PROVE  TypeOK'
<1>1. config' \in Config
  BY SetConfigType, TypeParts DEF Begin
<1>2. alone' \in [Calls -> BOOLEAN]
  <2>1. alone' = [d \in Calls |->
                    IF d = c THEN TRUE ELSE alone[d] /\ config' = config]
    BY DEF Begin
  <2>2. \A d \in Calls : alone'[d] \in BOOLEAN  BY <2>1, TypeParts
  <2> QED  BY <2>1, <2>2
<1>3. asked' \in [Calls -> Seq(AskType)]
  BY TypeParts DEF Begin
<1> QED  BY <1>1, <1>2, <1>3, Replace DEF Begin

\* What a call starts with.
StartCall(stages) ==
    IF stages = << >> THEN [Idle EXCEPT !.pc = "finish"]
    ELSE [Idle EXCEPT !.pc = "stage", !.stages = stages, !.i = 1]

LEMMA StartGood ==
    ASSUME NEW stages \in Pipelines
    PROVE  GoodCall(StartCall(stages))
<1>1. stages \in Seq(Stage)  BY PipelinesType
<1>2. /\ Idle.pc = "idle" /\ Idle.stages = << >> /\ Idle.i = 0
      /\ Idle \in CallType
  BY IdleGood DEF GoodCall, Idle
<1>3. CASE stages = << >>
  BY <1>2, <1>3, IdleGood DEF StartCall, GoodCall, CallType
<1>4. CASE stages # << >>
  <2>1. 1 \in 0..Len(stages)  BY <1>1, <1>4
  <2>2. StartCall(stages) =
            [pc |-> "stage", stages |-> stages, i |-> 1, line |-> << >>,
             rows |-> 0, res |-> 0, dbg |-> << >>, out |-> "none"]
    BY <1>4 DEF StartCall, Idle, NoResult
  <2>3. << >> \in Text /\ << >> \in Seq(Nat) /\ 0 \in 0..TableSize
    BY TableAssumption DEF Text
  <2>4. StartCall(stages) \in CallType
    BY <1>1, <2>2, <2>3 DEF CallType
  <2> QED  BY <2>1, <2>2, <2>4 DEF GoodCall
<1> QED  BY <1>3, <1>4

LEMMA RowsGood ==
    ASSUME TypeOK, NEW c \in Calls, NextRow(c)
    PROVE  GoodCall([call[c] EXCEPT !.rows = call[c].rows + 1])
<1>1. GoodCall(call[c]) /\ call[c].rows < TableSize
  BY TypeParts DEF NextRow
<1> DEFINE k == call[c]
           rows == k.rows + 1
<1>2. rows \in 0..TableSize
  BY <1>1, TableAssumption DEF GoodCall, CallType
<1> HIDE DEF k, rows
<1>3. ASSUME GoodCall(k) PROVE GoodCall([k EXCEPT !.rows = rows])
  BY <1>2, <1>3 DEF GoodCall, CallType
<1> QED  BY <1>1, <1>3 DEF k, rows

LEMMA TypeStep == TypeOK /\ [Next]_vars => TypeOK'
<1> SUFFICES ASSUME TypeOK, [Next]_vars PROVE TypeOK'  OBVIOUS
<1>0. CASE UNCHANGED vars
  BY <1>0 DEF TypeOK, vars, Config
<1> SUFFICES ASSUME NEW c \in Calls,
        \/ Start(c) \/ Refuse(c)
        \/ Query(c) \/ Exec(c) \/ RequestFails(c) \/ Transform(c)
        \/ StageFails(c) \/ Abort(c)
        \/ NextRow(c) \/ EndOfRows(c) \/ RowFails(c)
        \/ Finish(c) \/ Answer(c)
     PROVE TypeOK'
  BY <1>0 DEF Next
<1> DEFINE k == call[c]
<1>k. /\ GoodCall(k) /\ config \in Config
      /\ asked \in [Calls -> Seq(AskType)] /\ alone \in [Calls -> BOOLEAN]
  BY TypeParts
<1>1. CASE Start(c)
  <2>1. PICK stages \in Pipelines, opts \in OptsOf :
            Begin(c, opts, StartCall(stages))
    BY <1>1 DEF Start, StartCall
  <2> QED  BY <2>1, StartGood, BeginGood
<1>2. CASE Refuse(c)
  <2>1. PICK opts \in OptsOf : Begin(c, opts, Reply(Idle, "error"))
    BY <1>2 DEF Refuse
  <2>2. GoodCall(Reply(Idle, "error"))  BY IdleGood, ReplyGood
  <2> QED  BY <2>1, <2>2, BeginGood
<1>3. CASE Query(c)
  <2>1. PICK line \in LinesToRun(k), class \in {"read", "admin"} :
            /\ Dispatch(c, line, class)
            /\ call' = [call EXCEPT ![c].pc = "rows", ![c].line = line]
            /\ UNCHANGED <<config, alone>>
    BY <1>3 DEF Query
  <2>2. k.pc = "stage" /\ line \in Text  BY <1>k, <2>1, LinesType
  <2> DEFINE new == [k EXCEPT !.pc = "rows", !.line = line]
  <2>3. GoodCall(new)  BY <1>k, <2>2 DEF GoodCall, CallType
  <2>4. call' = [call EXCEPT ![c] = new]  BY <2>1
  <2>5. asked' \in [Calls -> Seq(AskType)]  BY <2>1, DispatchType
  <2> HIDE DEF new
  <2> QED  BY <1>k, <2>1, <2>3, <2>4, <2>5, Replace
<1>4. CASE Exec(c)
  <2>1. PICK line \in LinesToRun(k), class \in {"read", "write"} :
            /\ Dispatch(c, line, class)
            /\ call' = [call EXCEPT ![c] = Completed(k)]
            /\ UNCHANGED <<config, alone>>
    BY <1>4 DEF Exec
  <2>2. GoodCall(Completed(k))  BY <1>k, <2>1, LinesType, CompletedGood
  <2>3. asked' \in [Calls -> Seq(AskType)]  BY <2>1, DispatchType
  <2> QED  BY <1>k, <2>1, <2>2, <2>3, Replace
<1>5. CASE RequestFails(c)
  <2>1. PICK line \in LinesToRun(k), class \in {"read", "write", "admin"} :
            /\ Dispatch(c, line, class)
            /\ call' = [call EXCEPT ![c] = Reply(k, "error")]
            /\ UNCHANGED <<config, alone>>
    BY <1>5 DEF RequestFails
  <2>2. GoodCall(Reply(k, "error"))  BY <1>k, ReplyGood
  <2>3. asked' \in [Calls -> Seq(AskType)]  BY <2>1, DispatchType
  <2> QED  BY <1>k, <2>1, <2>2, <2>3, Replace
<1>6. CASE Transform(c)
  <2>1. k.pc = "stage" /\ call' = [call EXCEPT ![c] = Completed(k)]
    BY <1>6 DEF Transform
  <2>2. GoodCall(Completed(k))  BY <1>k, <2>1, CompletedGood
  <2> QED  BY <1>k, <1>6, <2>1, <2>2, Replace DEF Transform
<1>7. CASE StageFails(c) \/ RowFails(c)
  <2>1. call' = [call EXCEPT ![c] = Reply(k, "error")]
    BY <1>7 DEF StageFails, RowFails
  <2>2. GoodCall(Reply(k, "error"))  BY <1>k, ReplyGood
  <2> QED  BY <1>k, <1>7, <2>1, <2>2, Replace DEF StageFails, RowFails
<1>8. CASE Abort(c)
  <2>1. call' = [call EXCEPT ![c] = Reply(k, "panic")]  BY <1>8 DEF Abort
  <2>2. GoodCall(Reply(k, "panic"))  BY <1>k, ReplyGood
  <2> QED  BY <1>k, <1>8, <2>1, <2>2, Replace DEF Abort
<1>9. CASE NextRow(c)
  <2> DEFINE new == [k EXCEPT !.rows = k.rows + 1]
  <2>1. GoodCall(new)  BY <1>9, RowsGood
  <2>2. call' = [call EXCEPT ![c] = new]  BY <1>9 DEF NextRow
  <2> HIDE DEF new
  <2> QED  BY <1>k, <1>9, <2>1, <2>2, Replace DEF NextRow
<1>10. CASE EndOfRows(c)
  <2>1. k.pc = "rows" /\ call' = [call EXCEPT ![c] = Completed(k)]
    BY <1>10 DEF EndOfRows
  <2>2. GoodCall(Completed(k))  BY <1>k, <2>1, CompletedGood
  <2> QED  BY <1>k, <1>10, <2>1, <2>2, Replace DEF EndOfRows
<1>11. CASE Finish(c)
  <2> DEFINE out == IF config.DebugMode THEN "debug" ELSE "payload"
  <2>1. call' = [call EXCEPT ![c] = Reply(k, out)]  BY <1>11 DEF Finish
  <2>2. GoodCall(Reply(k, out))  BY <1>k, ReplyGood
  <2> HIDE DEF out
  <2> QED  BY <1>k, <1>11, <2>1, <2>2, Replace DEF Finish
<1>12. CASE Answer(c)
  <2>1. call' = [call EXCEPT ![c] = Idle]  BY <1>12 DEF Answer
  <2>2. asked' \in [Calls -> Seq(AskType)]
    <3>1. << >> \in Seq(AskType)  OBVIOUS
    <3> QED  BY <1>k, <1>12, <3>1 DEF Answer
  <2>3. alone' \in [Calls -> BOOLEAN]  BY <1>k, <1>12 DEF Answer
  <2>4. config' \in Config  BY <1>k, <1>12 DEF Answer
  <2> QED  BY <2>1, <2>2, <2>3, <2>4, IdleGood, Replace
<1> QED
  BY <1>1, <1>2, <1>3, <1>4, <1>5, <1>6, <1>7, <1>8, <1>9, <1>10, <1>11,
     <1>12

LEMMA TypeInit == Init => TypeOK
<1> SUFFICES ASSUME Init PROVE TypeOK  OBVIOUS
<1>1. config \in Config  BY OptsAssumption DEF Init, Config
<1>2. << >> \in Seq(AskType)  OBVIOUS
<1>3. \A c \in Calls : GoodCall(call[c])  BY IdleGood DEF Init
<1> QED  BY <1>1, <1>2, <1>3, TypeParts DEF Init

\* Every reachable state is well typed, and the stage a call is at is one of
\* its own.
THEOREM TypeCorrect == Spec => []TypeOK
  BY TypeInit, TypeStep, PTL DEF Spec

-----------------------------------------------------------------------------
\* Earlier stages are reads.

\* What the check at the start has established stays with the call.
ChecksHold == \A c \in Calls : ChainedStagesAreReadOnly(call[c].stages)

IdleAsksNothing == \A c \in Calls : call[c].pc = "idle" => asked[c] = << >>

ReadsInv == TypeOK /\ ChecksHold /\ IdleAsksNothing /\ EarlierStagesAreReads

\* The property, for one call.
ReadsOf(k, asks) ==
    \A n \in DOMAIN asks :
        (/\ asks[n].stage < Len(k.stages)
         /\ LET s == k.stages[asks[n].stage]
            IN  Decided(TypeOf(s), s.line))
            => asks[n].class = "read"

\* An earlier stage that is asked of a database is a read: its text may have
\* changed since the check, but not the words that decide on its class.
LEMMA DispatchReads ==
    ASSUME ReadsInv, NEW c \in Calls, NEW line \in LinesToRun(call[c]),
           NEW class \in {"read", "write", "admin"}, Dispatch(c, line, class)
    PROVE  ReadsOf(call[c], asked'[c])
<1> DEFINE k == call[c]
           ask == [stage |-> k.i, class |-> class]
<1>1. /\ GoodCall(k) /\ asked[c] \in Seq(AskType)
      /\ asked'[c] = Append(asked[c], ask)
  BY TypeParts, DispatchType DEF ReadsInv
<1>2. ReadsOf(k, asked[c])
  BY DEF ReadsInv, EarlierStagesAreReads, ReadsOf, Decided
<1>3. ASSUME k.i < Len(k.stages), Decided(TypeOf(Current(k)), Current(k).line)
      PROVE  class = "read"
  <2>1. k.i \in 1..(Len(k.stages) - 1)
    <3>1. k.pc = "stage"  BY <1>1, LinesType
    <3>2. k.i \in Nat /\ k.i > 0 /\ Len(k.stages) \in Nat
      BY <1>1, <3>1 DEF GoodCall, CallType
    <3> QED  BY <1>3, <3>2
  <2>2. QueryType(TypeOf(Current(k)), Current(k).line)
            \notin {"write", "admin"}
    BY <2>1 DEF ReadsInv, ChecksHold, ChainedStagesAreReadOnly, Current
  <2>3. QueryType(TypeOf(Current(k)), line)
            = QueryType(TypeOf(Current(k)), Current(k).line)
    BY <1>1, <1>3, LinesType
  <2>4. class = QueryType(TypeOf(Current(k)), line)  BY DEF Dispatch
  <2> QED  BY <2>2, <2>3, <2>4
<1>4. ASSUME NEW n \in DOMAIN asked'[c],
             asked'[c][n].stage < Len(k.stages),
             LET s == k.stages[asked'[c][n].stage]
             IN  Decided(TypeOf(s), s.line)
      PROVE  asked'[c][n].class = "read"
  <2>1. CASE n \in DOMAIN asked[c]
    <3>1. asked'[c][n] = asked[c][n]  BY <1>1, <2>1
    <3> QED  BY <1>2, <1>4, <2>1, <3>1 DEF ReadsOf
  <2>2. CASE n \notin DOMAIN asked[c]
    <3>1. n = Len(asked[c]) + 1  BY <1>1, <2>2
    <3>2. asked'[c][n] = ask  BY <1>1, <3>1
    <3> QED  BY <1>3, <1>4, <3>2 DEF Current
  <2> QED  BY <2>1, <2>2
<1> QED  BY <1>4 DEF ReadsOf

\* A step of a call that is under way keeps its stages.
LEMMA ReadsKept ==
    ASSUME ReadsInv, TypeOK', NEW c \in Calls,
           NEW k, k.stages = call[c].stages, k.pc # "idle",
           call' = [call EXCEPT ![c] = k],
           \A d \in Calls : d # c => asked'[d] = asked[d],
           ReadsOf(call[c], asked'[c])
    PROVE  ReadsInv'
<1>1. call \in [Calls -> CallType]
  BY DEF ReadsInv, TypeOK, CallType
<1>2. \A d \in Calls : call'[d] = IF d = c THEN k ELSE call[d]
  BY <1>1
<1>3. ChecksHold'
  BY <1>2 DEF ReadsInv, ChecksHold
<1>4. IdleAsksNothing'
  BY <1>2 DEF ReadsInv, IdleAsksNothing
<1>5. ASSUME NEW d \in Calls PROVE ReadsOf(call'[d], asked'[d])
  <2>1. CASE d = c  BY <1>2, <2>1 DEF ReadsOf
  <2>2. CASE d # c
    <3>1. ReadsOf(call[d], asked[d])
      BY DEF ReadsInv, EarlierStagesAreReads, ReadsOf, Decided
    <3>2. call'[d] = call[d] /\ asked'[d] = asked[d]
      BY <1>2, <2>2
    <3> QED  BY <3>1, <3>2
  <2> QED  BY <2>1, <2>2
<1>6. EarlierStagesAreReads'
  BY <1>5 DEF EarlierStagesAreReads, ReadsOf, Decided
<1> QED  BY <1>3, <1>4, <1>6 DEF ReadsInv

\* A call that begins or ends has asked for nothing.
LEMMA ReadsAnew ==
    ASSUME ReadsInv, TypeOK', NEW c \in Calls,
           NEW k, ChainedStagesAreReadOnly(k.stages),
           call' = [call EXCEPT ![c] = k],
           \A d \in Calls : d # c => asked'[d] = asked[d],
           asked'[c] = << >>
    PROVE  ReadsInv'
<1>1. call \in [Calls -> CallType]
  BY DEF ReadsInv, TypeOK, CallType
<1>2. \A d \in Calls : call'[d] = IF d = c THEN k ELSE call[d]
  BY <1>1
<1>3. ChecksHold'
  BY <1>2 DEF ReadsInv, ChecksHold
<1>4. IdleAsksNothing'
  BY <1>2 DEF ReadsInv, IdleAsksNothing
<1>5. ASSUME NEW d \in Calls PROVE ReadsOf(call'[d], asked'[d])
  <2>1. CASE d = c
    <3>1. DOMAIN asked'[d] = {}  BY <2>1
    <3> QED  BY <3>1 DEF ReadsOf
  <2>2. CASE d # c
    <3>1. ReadsOf(call[d], asked[d])
      BY DEF ReadsInv, EarlierStagesAreReads, ReadsOf, Decided
    <3>2. call'[d] = call[d] /\ asked'[d] = asked[d]
      BY <1>2, <2>2
    <3> QED  BY <3>1, <3>2
  <2> QED  BY <2>1, <2>2
<1>6. EarlierStagesAreReads'
  BY <1>5 DEF EarlierStagesAreReads, ReadsOf, Decided
<1> QED  BY <1>3, <1>4, <1>6 DEF ReadsInv

LEMMA ReadsStep == ReadsInv /\ [Next]_vars => ReadsInv'
<1> SUFFICES ASSUME ReadsInv, [Next]_vars PROVE ReadsInv'  OBVIOUS
<1>t. TypeOK /\ TypeOK'  BY TypeStep DEF ReadsInv
<1>0. CASE UNCHANGED vars
  BY <1>0, <1>t
  DEF ReadsInv, ChecksHold, IdleAsksNothing, EarlierStagesAreReads, vars
<1> SUFFICES ASSUME NEW c \in Calls,
        \/ Start(c) \/ Refuse(c)
        \/ Query(c) \/ Exec(c) \/ RequestFails(c) \/ Transform(c)
        \/ StageFails(c) \/ Abort(c)
        \/ NextRow(c) \/ EndOfRows(c) \/ RowFails(c)
        \/ Finish(c) \/ Answer(c)
     PROVE ReadsInv'
  BY <1>0 DEF Next
<1> DEFINE k == call[c]
<1>k. /\ GoodCall(k) /\ ReadsOf(k, asked[c])
      /\ asked \in [Calls -> Seq(AskType)]
  BY <1>t, TypeParts DEF ReadsInv, EarlierStagesAreReads, ReadsOf, Decided
\* What becomes of a call under way.
<1>r. \A out \in {"error", "panic", "debug", "payload"} :
        Reply(k, out).stages = k.stages /\ Reply(k, out).pc # "idle"
  BY <1>k DEF Reply, GoodCall, CallType
<1>c. Completed(k).stages = k.stages /\ Completed(k).pc # "idle"
  BY <1>k DEF Completed, GoodCall, CallType
<1>n. ChainedStagesAreReadOnly(<< >>)
  BY DEF ChainedStagesAreReadOnly
<1>1. CASE Start(c) \/ Refuse(c)
  <2>1. PICK new : /\ call' = [call EXCEPT ![c] = new]
                   /\ ChainedStagesAreReadOnly(new.stages)
    <3>1. CASE Start(c)
      <4>1. PICK stages \in Pipelines, opts \in OptsOf :
                Begin(c, opts, StartCall(stages))
        BY <3>1 DEF Start, StartCall
      <4>2. StartCall(stages).stages = stages
        BY DEF StartCall, Idle
      <4> QED  BY <4>1, <4>2, PipelinesAccepted DEF Begin
    <3>2. CASE Refuse(c)
      <4>1. Reply(Idle, "error").stages = << >>  BY DEF Reply, Idle
      <4> QED  BY <1>n, <3>2, <4>1 DEF Refuse, Begin
    <3> QED  BY <1>1, <3>1, <3>2
  <2>2. k.pc = "idle" /\ asked' = asked
    BY <1>1 DEF Start, Refuse, Begin
  <2>3. asked'[c] = << >>  BY <2>2 DEF ReadsInv, IdleAsksNothing
  <2> QED  BY <1>t, <2>1, <2>2, <2>3, ReadsAnew
<1>2. CASE Query(c) \/ Exec(c) \/ RequestFails(c)
  <2>1. PICK line \in LinesToRun(k), class \in {"read", "write", "admin"} :
            Dispatch(c, line, class)
    BY <1>2 DEF Query, Exec, RequestFails
  <2>2. PICK new : /\ call' = [call EXCEPT ![c] = new]
                   /\ new.stages = k.stages /\ new.pc # "idle"
    <3>1. CASE Query(c)
      <4>1. PICK l \in LinesToRun(k) :
                call' = [call EXCEPT ![c].pc = "rows", ![c].line = l]
        BY <3>1 DEF Query
      <4> DEFINE new == [k EXCEPT !.pc = "rows", !.line = l]
      <4>2. call' = [call EXCEPT ![c] = new]  BY <4>1
      <4>3. new.stages = k.stages /\ new.pc # "idle"
        BY <1>k DEF GoodCall, CallType
      <4> QED  BY <4>2, <4>3
    <3>2. CASE Exec(c)  BY <1>c, <3>2 DEF Exec
    <3>3. CASE RequestFails(c)  BY <1>r, <3>3 DEF RequestFails
    <3> QED  BY <1>2, <3>1, <3>2, <3>3
  <2>3. \A d \in Calls : d # c => asked'[d] = asked[d]
    BY <1>t, <2>1, DispatchType
  <2>4. ReadsOf(k, asked'[c])  BY <2>1, DispatchReads
  <2> QED  BY <1>t, <2>2, <2>3, <2>4, ReadsKept
<1>3. CASE \/ Transform(c) \/ StageFails(c) \/ Abort(c) \/ NextRow(c)
           \/ EndOfRows(c) \/ RowFails(c) \/ Finish(c)
  <2>1. asked' = asked
    BY <1>3
    DEF Transform, StageFails, Abort, NextRow, EndOfRows, RowFails, Finish
  <2>2. PICK new : /\ call' = [call EXCEPT ![c] = new]
                   /\ new.stages = k.stages /\ new.pc # "idle"
    <3>1. CASE Transform(c)  BY <1>c, <3>1 DEF Transform
    <3>2. CASE EndOfRows(c)  BY <1>c, <3>2 DEF EndOfRows
    <3>3. CASE StageFails(c)  BY <1>r, <3>3 DEF StageFails
    <3>4. CASE RowFails(c)  BY <1>r, <3>4 DEF RowFails
    <3>5. CASE Abort(c)  BY <1>r, <3>5 DEF Abort
    <3>6. CASE Finish(c)  BY <1>r, <3>6 DEF Finish
    <3>7. CASE NextRow(c)
      <4> DEFINE new == [k EXCEPT !.rows = k.rows + 1]
      <4>1. call' = [call EXCEPT ![c] = new] /\ k.pc = "rows"
        BY <3>7 DEF NextRow
      <4>2. new.stages = k.stages /\ new.pc # "idle"
        BY <1>k, <4>1 DEF GoodCall, CallType
      <4> QED  BY <4>1, <4>2
    <3> QED  BY <1>3, <3>1, <3>2, <3>3, <3>4, <3>5, <3>6, <3>7
  <2> QED  BY <1>k, <1>t, <2>1, <2>2, ReadsKept
<1>4. CASE Answer(c)
  <2>1. call' = [call EXCEPT ![c] = Idle] /\ Idle.stages = << >>
    BY <1>4 DEF Answer, Idle
  <2>2. asked'[c] = << >> /\ \A d \in Calls : d # c => asked'[d] = asked[d]
    BY <1>k, <1>4 DEF Answer
  <2> QED  BY <1>n, <1>t, <2>1, <2>2, ReadsAnew
<1> QED  BY <1>1, <1>2, <1>3, <1>4

LEMMA ReadsInit == Init => ReadsInv
<1> SUFFICES ASSUME Init PROVE ReadsInv  OBVIOUS
<1>1. \A c \in Calls : asked[c] = << >> /\ call[c].stages = << >>
  BY DEF Init, Idle
<1>2. ChecksHold
  BY <1>1 DEF ChecksHold, ChainedStagesAreReadOnly
<1>3. \A c \in Calls : DOMAIN asked[c] = {}  BY <1>1
<1> QED
  BY <1>1, <1>2, <1>3, TypeInit
  DEF ReadsInv, IdleAsksNothing, EarlierStagesAreReads

\* No database is asked by a stage before the last for anything but a read,
\* unless the verb of the stage was a placeholder.
THEOREM EarlierReads == Spec => []EarlierStagesAreReads
<1>1. ReadsInv => EarlierStagesAreReads  BY DEF ReadsInv
<1> QED  BY <1>1, ReadsInit, ReadsStep, PTL DEF Spec

-----------------------------------------------------------------------------
\* The course of one call: what it may become in a step, and what the step
\* does to the configuration.

Begins(c, new) ==
    /\ call[c].pc = "idle"
    /\ \/ \E stages \in Pipelines : new = StartCall(stages)
       \/ new = Reply(Idle, "error")
    /\ \A d \in Calls : d # c /\ alone'[d] => alone[d] /\ config' = config

GoesOn(c, new) ==
    /\ config' = config /\ alone' = alone
    /\ LET k == call[c]
       IN  \/ /\ k.pc \in {"stage", "rows"}
              /\ \/ new = Completed(k)
                 \/ \E out \in {"error", "panic"} : new = Reply(k, out)
           \/ k.pc = "stage" /\ \E line \in Text :
                    new = [k EXCEPT !.pc = "rows", !.line = line]
           \/ NextRow(c) /\ new = [k EXCEPT !.rows = k.rows + 1]
           \/ /\ k.pc = "finish"
              /\ new = Reply(k, IF config.DebugMode THEN "debug" ELSE "payload")

Ends(c, new) ==
    /\ call[c].pc = "done" /\ new = Idle
    /\ config' = config
    /\ alone' = [alone EXCEPT ![c] = FALSE]

CallStep(c, new) ==
    /\ call' = [call EXCEPT ![c] = new]
    /\ Begins(c, new) \/ GoesOn(c, new) \/ Ends(c, new)

\* Every step is a step of one call.
LEMMA StepsOfACall ==
    ASSUME TypeOK, Next
    PROVE  \E c \in Calls : \E new : CallStep(c, new)
<1> SUFFICES ASSUME NEW c \in Calls,
        \/ Start(c) \/ Refuse(c)
        \/ Query(c) \/ Exec(c) \/ RequestFails(c) \/ Transform(c)
        \/ StageFails(c) \/ Abort(c)
        \/ NextRow(c) \/ EndOfRows(c) \/ RowFails(c)
        \/ Finish(c) \/ Answer(c)
     PROVE \E new : CallStep(c, new)
  BY DEF Next
<1> DEFINE k == call[c]
<1>k. GoodCall(k)  BY TypeParts
<1>1. CASE Start(c) \/ Refuse(c)
  <2>1. PICK new : \E opts \in OptsOf :
            /\ Begin(c, opts, new)
            /\ \/ \E stages \in Pipelines : new = StartCall(stages)
               \/ new = Reply(Idle, "error")
    BY <1>1 DEF Start, Refuse, StartCall
  <2>2. \A d \in Calls : d # c /\ alone'[d] => alone[d] /\ config' = config
    BY <2>1 DEF Begin
  <2>3. Begins(c, new) /\ call' = [call EXCEPT ![c] = new]
    BY <2>1, <2>2 DEF Begins, Begin
  <2> QED  BY <2>3 DEF CallStep
<1>2. CASE Query(c)
  <2>1. PICK line \in LinesToRun(k) :
            /\ call' = [call EXCEPT ![c].pc = "rows", ![c].line = line]
            /\ UNCHANGED <<config, alone>>
    BY <1>2 DEF Query
  <2>2. k.pc = "stage" /\ line \in Text  BY <1>k, LinesType
  <2> DEFINE new == [k EXCEPT !.pc = "rows", !.line = line]
  <2>3. call' = [call EXCEPT ![c] = new]  BY <2>1
  <2>4. GoesOn(c, new)  BY <2>1, <2>2 DEF GoesOn
  <2> QED  BY <2>3, <2>4 DEF CallStep
<1>3. CASE Exec(c) \/ Transform(c) \/ EndOfRows(c)
  <2>1. /\ call' = [call EXCEPT ![c] = Completed(k)]
        /\ config' = config /\ alone' = alone
        /\ k.pc \in {"stage", "rows"}
    BY <1>3 DEF Exec, Transform, EndOfRows, LinesToRun
  <2> QED  BY <2>1 DEF CallStep, GoesOn
<1>4. CASE RequestFails(c) \/ StageFails(c) \/ Abort(c) \/ RowFails(c)
  <2>1. PICK out \in {"error", "panic"} :
            call' = [call EXCEPT ![c] = Reply(k, out)]
    BY <1>4 DEF RequestFails, StageFails, Abort, RowFails
  <2>2. config' = config /\ alone' = alone /\ k.pc \in {"stage", "rows"}
    BY <1>4 DEF RequestFails, StageFails, Abort, RowFails, LinesToRun
  <2> QED  BY <2>1, <2>2 DEF CallStep, GoesOn
<1>5. CASE NextRow(c)
  <2> DEFINE new == [k EXCEPT !.rows = k.rows + 1]
  <2>1. call' = [call EXCEPT ![c] = new] /\ config' = config /\ alone' = alone
    BY <1>5 DEF NextRow
  <2> QED  BY <1>5, <2>1 DEF CallStep, GoesOn
<1>6. CASE Finish(c)
  BY <1>6 DEF Finish, CallStep, GoesOn
<1>7. CASE Answer(c)
  BY <1>7 DEF Answer, CallStep, Ends
<1> QED  BY <1>1, <1>2, <1>3, <1>4, <1>5, <1>6, <1>7

-----------------------------------------------------------------------------
\* The limit of rows.

\* The bound on rows is inductive: the loops compare by equality, but a row
\* is counted only below a limit that has not moved.
LEMMA LimitStep == TypeOK /\ RowLimitHolds /\ [Next]_vars => RowLimitHolds'
<1> SUFFICES ASSUME TypeOK, RowLimitHolds, Next PROVE RowLimitHolds'
  BY DEF RowLimitHolds, vars
<1>p. PICK c \in Calls : \E new : CallStep(c, new)  BY StepsOfACall
<1>1. PICK new : CallStep(c, new)  BY <1>p
<1>t. /\ \A d \in Calls : GoodCall(call[d])
      /\ call = [d \in Calls |-> call[d]]
      /\ alone \in [Calls -> BOOLEAN] /\ config.MaxRowLimit \in Int
  BY TypeParts, OptsAssumption DEF Config
<1>2. \A d \in Calls : call'[d] = IF d = c THEN new ELSE call[d]
  BY <1>1, <1>t DEF CallStep
<1>3. \A d \in Calls : d # c /\ alone'[d] => alone[d] /\ config' = config
  BY <1>1, <1>t DEF CallStep, Begins, GoesOn, Ends
<1>4. ASSUME alone'[c], config'.MaxRowLimit >= 0
      PROVE  new.rows <= config'.MaxRowLimit
  <2>1. CASE Begins(c, new)
    <3>1. new.rows = 0  BY <2>1 DEF Begins, StartCall, Reply, Idle
    <3> QED  BY <1>4, <3>1
  <2>2. CASE GoesOn(c, new)
    <3>1. call[c].rows <= config.MaxRowLimit /\ config' = config
      BY <1>4, <2>2 DEF GoesOn, RowLimitHolds
    <3>2. CASE new.rows \in {0, call[c].rows}  BY <1>4, <3>1, <3>2
    <3>3. CASE NextRow(c) /\ new.rows = call[c].rows + 1
      <4>1. call[c].rows # config.MaxRowLimit /\ call[c].rows \in Nat
        BY <1>t, <3>3 DEF NextRow, AtLimit, GoodCall, CallType
      <4> QED  BY <1>t, <3>1, <3>3, <4>1
    <3>4. \/ new.rows \in {0, call[c].rows}
          \/ NextRow(c) /\ new.rows = call[c].rows + 1
      <4>1. call[c] \in CallType  BY <1>t DEF GoodCall
      <4> QED  BY <2>2, <4>1 DEF GoesOn, CallType, Completed, Reply
    <3> QED  BY <3>2, <3>3, <3>4
  <2>3. CASE Ends(c, new)  BY <1>4, <1>t, <2>3 DEF Ends
  <2> QED  BY <1>1, <2>1, <2>2, <2>3 DEF CallStep
<1>5. ASSUME NEW d \in Calls, d # c, alone'[d], config'.MaxRowLimit >= 0
      PROVE  call'[d].rows <= config'.MaxRowLimit
  BY <1>2, <1>3, <1>5 DEF RowLimitHolds
<1> QED  BY <1>2, <1>4, <1>5 DEF RowLimitHolds

\* No result has more rows than the limit, while nobody else sets another.
THEOREM RowLimit == Spec => []RowLimitHolds
<1>1. Init => RowLimitHolds  BY DEF Init, RowLimitHolds
<1> QED  BY <1>1, LimitStep, TypeInit, TypeStep, PTL DEF Spec

-----------------------------------------------------------------------------
\* Debug mode.

Upto(n) == [m \in 1..n |-> m]

\* The stages a call has noted down, if it is to show them.
NotedOf(k) ==
    /\ (k.pc \in {"stage", "rows"} /\ config.DebugMode)
            => k.dbg = Upto(k.i - 1)
    /\ (k.pc = "finish" /\ config.DebugMode) => k.dbg = Upto(Len(k.stages))
    /\ k.out = "debug" => k.pc = "done" /\ k.dbg = Upto(Len(k.stages))

Noted == \A c \in Calls : alone[c] => NotedOf(call[c])

\* One more stage is noted down.
LEMMA UptoNext ==
    ASSUME NEW n \in Nat \ {0}
    PROVE  Append(Upto(n - 1), n) = Upto(n)
  BY DEF Upto

\* None is, at first.
LEMMA UptoZero == Upto(0) = << >>
  BY DEF Upto

\* What is noted down stays complete up to the stage that is due.
LEMMA NotedStep == TypeOK /\ Noted /\ [Next]_vars => Noted'
<1> SUFFICES ASSUME TypeOK, Noted, Next PROVE Noted'
  BY DEF Noted, NotedOf, vars
<1>p. PICK c \in Calls : \E new : CallStep(c, new)  BY StepsOfACall
<1>1. PICK new : CallStep(c, new)  BY <1>p
<1>t. /\ \A d \in Calls : GoodCall(call[d])
      /\ call = [d \in Calls |-> call[d]]
      /\ alone \in [Calls -> BOOLEAN]
  BY TypeParts
<1>2. \A d \in Calls : call'[d] = IF d = c THEN new ELSE call[d]
  BY <1>1, <1>t DEF CallStep
<1>3. \A d \in Calls : d # c /\ alone'[d] => alone[d] /\ config' = config
  BY <1>1, <1>t DEF CallStep, Begins, GoesOn, Ends
<1> DEFINE k == call[c]
<1>4. ASSUME alone'[c] PROVE NotedOf(new)'
  <2>1. CASE Begins(c, new)
    <3>1. CASE new = Reply(Idle, "error")
      BY <3>1 DEF NotedOf, Reply, Idle
    <3>2. CASE \E stages \in Pipelines : new = StartCall(stages)
      <4>1. PICK stages \in Pipelines : new = StartCall(stages)  BY <3>2
      <4>2. /\ new.dbg = << >> /\ new.out = "none"
            /\ \/ new.pc = "stage" /\ new.i = 1
               \/ new.pc = "finish" /\ new.stages = << >>
        BY <4>1 DEF StartCall, Idle
      <4>3. new.pc = "stage" => new.i - 1 = 0  BY <4>2
      <4>4. new.pc = "finish" => Len(new.stages) = 0  BY <4>2
      <4> QED  BY <4>2, <4>3, <4>4, UptoZero DEF NotedOf
    <3> QED  BY <2>1, <3>1, <3>2 DEF Begins
  <2>2. CASE GoesOn(c, new)
    <3>1. /\ NotedOf(k) /\ config' = config
      BY <1>4, <2>2 DEF GoesOn, Noted
    <3>2. k \in CallType /\ k.i \in 0..Len(k.stages)
          /\ (k.pc \in {"stage", "rows"} => k.i > 0)
      BY <1>t DEF GoodCall
    <3>3. CASE k.pc \in {"stage", "rows"} /\ new = Completed(k)
      <4>1. k.i \in Nat \ {0} /\ Len(k.stages) \in Nat
        BY <3>2, <3>3 DEF CallType
      <4>2. config.DebugMode => Append(k.dbg, k.i) = Upto(k.i)
        BY <3>1, <3>3, <4>1, UptoNext DEF NotedOf
      <4>3. /\ config.DebugMode => new.dbg = Upto(k.i)
            /\ new.out = k.out /\ new.stages = k.stages
            /\ \/ new.pc = "finish" /\ k.i = Len(k.stages)
               \/ new.pc = "stage" /\ new.i = k.i + 1
        BY <3>2, <3>3, <4>2 DEF Completed, CallType
      <4>4. k.out # "debug"  BY <3>1, <3>3 DEF NotedOf
      <4>5. new.pc = "stage" => new.i - 1 = k.i  BY <4>1, <4>3
      <4> QED  BY <3>1, <4>3, <4>4, <4>5 DEF NotedOf
    <3>4. CASE k.pc \in {"stage", "rows"} /\ \E out \in {"error", "panic"} :
                    new = Reply(k, out)
      <4>1. new.pc = "done" /\ new.out # "debug"
        BY <3>2, <3>4 DEF Reply, CallType
      <4> QED  BY <4>1 DEF NotedOf
    <3>5. CASE k.pc = "stage" /\ \E line \in Text :
                    new = [k EXCEPT !.pc = "rows", !.line = line]
      <4>1. /\ new.pc = "rows" /\ new.i = k.i /\ new.dbg = k.dbg
            /\ new.out = k.out
        BY <3>2, <3>5 DEF CallType
      <4> QED  BY <3>1, <3>5, <4>1 DEF NotedOf
    <3>6. CASE NextRow(c) /\ new = [k EXCEPT !.rows = k.rows + 1]
      <4>1. /\ new.pc = k.pc /\ new.i = k.i /\ new.dbg = k.dbg
            /\ new.out = k.out /\ new.stages = k.stages
        BY <3>2, <3>6 DEF CallType
      <4> QED  BY <3>1, <4>1 DEF NotedOf
    <3>7. CASE /\ k.pc = "finish"
               /\ new = Reply(k, IF config.DebugMode THEN "debug" ELSE "payload")
      <4>1. /\ new.pc = "done" /\ new.dbg = k.dbg /\ new.stages = k.stages
            /\ new.out = "debug" => config.DebugMode
        BY <3>2, <3>7 DEF Reply, CallType
      <4> QED  BY <3>1, <3>7, <4>1 DEF NotedOf
    <3> QED  BY <2>2, <3>3, <3>4, <3>5, <3>6, <3>7 DEF GoesOn
  <2>3. CASE Ends(c, new)  BY <1>4, <1>t, <2>3 DEF Ends
  <2> QED  BY <1>1, <2>1, <2>2, <2>3 DEF CallStep
<1>5. ASSUME NEW d \in Calls, d # c, alone'[d] PROVE NotedOf(call[d])'
  BY <1>2, <1>3, <1>5 DEF Noted, NotedOf
<1> QED  BY <1>2, <1>4, <1>5 DEF Noted, NotedOf

\* An answer in debug mode has every stage of the call, in order, unless
\* another call has changed the configuration meanwhile.
THEOREM DebugShows == Spec => []DebugShowsEveryStage
<1>1. Init => Noted  BY DEF Init, Noted
<1>2. Noted => DebugShowsEveryStage
  BY DEF Noted, NotedOf, DebugShowsEveryStage, Upto
<1> QED  BY <1>1, <1>2, NotedStep, TypeInit, TypeStep, PTL DEF Spec

-----------------------------------------------------------------------------
(***************************************************************************)
(* Pipeline implements Chain: a step simulation.                           *)
(***************************************************************************)

\* How far a call is, apart from its types.
PlaceOf(k) ==
    /\ k.stages = << >> => k.res = 0
    /\ k.pc = "idle" => k.stages = << >>
    /\ k.pc # "done" => k.out = "none"
    /\ k.pc = "finish" => k.i = Len(k.stages) /\ k.res = Len(k.stages)

Places == \A c \in Calls : PlaceOf(call[c])

StatusOf(k) ==
    IF k.stages = << >> THEN "none"
    ELSE IF k.pc # "done" THEN "running"
    ELSE IF Ended(k) THEN "completed" ELSE "failed"
ResultOf(k) == IF Ended(k) THEN k.res ELSE 0

\* A step of a call leads from one place to another.
LEMMA PlaceStep ==
    ASSUME TypeOK, Places, NEW c \in Calls, NEW new, CallStep(c, new)
    PROVE  PlaceOf(new)
<1> DEFINE k == call[c]
<1>k. GoodCall(k) /\ k \in CallType /\ PlaceOf(k)
  BY TypeParts DEF GoodCall, Places
<1>1. CASE Begins(c, new)
  <2>1. CASE new = Reply(Idle, "error")
    BY <2>1 DEF PlaceOf, Reply, Idle, NoResult
  <2>2. CASE \E stages \in Pipelines : new = StartCall(stages)
    <3>1. Len(<< >>) = 0  OBVIOUS
    <3> QED  BY <2>2, <3>1 DEF PlaceOf, StartCall, Idle, NoResult
  <2> QED  BY <1>1, <2>1, <2>2 DEF Begins
<1>2. CASE GoesOn(c, new)
  <2>1. CASE k.pc \in {"stage", "rows"} /\ new = Completed(k)
    <3>1. /\ new.res = k.i /\ new.stages = k.stages /\ new.out = k.out
          /\ \/ new.pc = "stage"
             \/ new.pc = "finish" /\ new.i = k.i /\ k.i = Len(k.stages)
      BY <1>k, <2>1 DEF Completed, CallType
    <3>2. k.stages # << >>  BY <1>k, <2>1 DEF GoodCall
    <3> QED  BY <1>k, <2>1, <3>1, <3>2 DEF PlaceOf
  <2>2. CASE \E out : new = Reply(k, out)
    BY <1>k, <2>2 DEF PlaceOf, Reply, CallType
  <2>3. CASE k.pc = "stage" /\ \E line \in Text :
                new = [k EXCEPT !.pc = "rows", !.line = line]
    BY <1>k, <2>3 DEF PlaceOf, CallType
  <2>4. CASE NextRow(c) /\ new = [k EXCEPT !.rows = k.rows + 1]
    BY <1>k, <2>4 DEF PlaceOf, CallType
  <2> QED  BY <1>2, <2>1, <2>2, <2>3, <2>4 DEF GoesOn
<1>3. CASE Ends(c, new)
  BY <1>3 DEF Ends, PlaceOf, Idle, NoResult
<1> QED  BY <1>1, <1>2, <1>3 DEF CallStep

\* All calls stay in their places.
LEMMA PlacesStep == TypeOK /\ Places /\ [Next]_vars => Places'
<1> SUFFICES ASSUME TypeOK, Places, Next PROVE Places'
  BY DEF Places, PlaceOf, vars
<1>p. PICK c \in Calls : \E new : CallStep(c, new)  BY StepsOfACall
<1>1. PICK new : CallStep(c, new)  BY <1>p
<1>2. \A d \in Calls : call'[d] = IF d = c THEN new ELSE call[d]
  BY <1>1, TypeParts DEF CallStep
<1> QED  BY <1>1, <1>2, PlaceStep DEF Places, PlaceOf

\* What a step of a call is to the Chain.
LEMMA BecomeStep ==
    ASSUME TypeOK, NEW c \in Calls, NEW new, call' = [call EXCEPT ![c] = new]
    PROVE  ChainOf!Become(c, StatusOf(new), Len(new.stages), new.i, ResultOf(new))
<1>1. call = [d \in Calls |-> call[d]]  BY TypeParts
<1>2. \A d \in Calls : call'[d] = IF d = c THEN new ELSE call[d]
  BY <1>1
<1>3. [d \in Calls |-> StatusOf(call'[d])] =
        [[d \in Calls |-> StatusOf(call[d])] EXCEPT ![c] = StatusOf(new)]
  <2> DEFINE f == [d \in Calls |-> StatusOf(call[d])]
             g == [d \in Calls |-> StatusOf(call'[d])]
  <2>1. \A d \in Calls : g[d] = IF d = c THEN StatusOf(new) ELSE f[d]
    BY <1>2
  <2>2. f = [d \in Calls |-> f[d]] /\ g = [d \in Calls |-> g[d]]
    OBVIOUS
  <2> HIDE DEF f, g
  <2>3. g = [f EXCEPT ![c] = StatusOf(new)]  BY <2>1, <2>2
  <2> QED  BY <2>3 DEF f, g
<1>4. [d \in Calls |-> Len(call'[d].stages)] =
        [[d \in Calls |-> Len(call[d].stages)] EXCEPT ![c] = Len(new.stages)]
  <2> DEFINE f == [d \in Calls |-> Len(call[d].stages)]
             g == [d \in Calls |-> Len(call'[d].stages)]
  <2>1. \A d \in Calls : g[d] = IF d = c THEN Len(new.stages) ELSE f[d]
    BY <1>2
  <2>2. f = [d \in Calls |-> f[d]] /\ g = [d \in Calls |-> g[d]]
    OBVIOUS
  <2> HIDE DEF f, g
  <2>3. g = [f EXCEPT ![c] = Len(new.stages)]  BY <2>1, <2>2
  <2> QED  BY <2>3 DEF f, g
<1>5. [d \in Calls |-> call'[d].i] =
        [[d \in Calls |-> call[d].i] EXCEPT ![c] = new.i]
  <2> DEFINE f == [d \in Calls |-> call[d].i]
             g == [d \in Calls |-> call'[d].i]
  <2>1. \A d \in Calls : g[d] = IF d = c THEN new.i ELSE f[d]
    BY <1>2
  <2>2. f = [d \in Calls |-> f[d]] /\ g = [d \in Calls |-> g[d]]
    OBVIOUS
  <2> HIDE DEF f, g
  <2>3. g = [f EXCEPT ![c] = new.i]  BY <2>1, <2>2
  <2> QED  BY <2>3 DEF f, g
<1>6. [d \in Calls |-> ResultOf(call'[d])] =
        [[d \in Calls |-> ResultOf(call[d])] EXCEPT ![c] = ResultOf(new)]
  <2> DEFINE f == [d \in Calls |-> ResultOf(call[d])]
             g == [d \in Calls |-> ResultOf(call'[d])]
  <2>1. \A d \in Calls : g[d] = IF d = c THEN ResultOf(new) ELSE f[d]
    BY <1>2
  <2>2. f = [d \in Calls |-> f[d]] /\ g = [d \in Calls |-> g[d]]
    OBVIOUS
  <2> HIDE DEF f, g
  <2>3. g = [f EXCEPT ![c] = ResultOf(new)]  BY <2>1, <2>2
  <2> QED  BY <2>3 DEF f, g
<1> QED
  BY <1>3, <1>4, <1>5, <1>6
  DEF ChainOf!Become, StatusOf, ResultOf, Ended

\* A step that changes nothing the Chain sees.
LEMMA SameStep ==
    ASSUME TypeOK, NEW c \in Calls, NEW new, call' = [call EXCEPT ![c] = new],
           StatusOf(new) = StatusOf(call[c]),
           Len(new.stages) = Len(call[c].stages), new.i = call[c].i,
           ResultOf(new) = ResultOf(call[c])
    PROVE  UNCHANGED ChainOf!vars
<1>1. call = [d \in Calls |-> call[d]]  BY TypeParts
<1>2. \A d \in Calls : call'[d] = IF d = c THEN new ELSE call[d]
  BY <1>1
<1>3. \A d \in Calls : /\ StatusOf(call'[d]) = StatusOf(call[d])
                       /\ Len(call'[d].stages) = Len(call[d].stages)
                       /\ call'[d].i = call[d].i
                       /\ ResultOf(call'[d]) = ResultOf(call[d])
  BY <1>2
<1>4. [d \in Calls |-> StatusOf(call'[d])] = [d \in Calls |-> StatusOf(call[d])]
  BY <1>3
<1>5. [d \in Calls |-> Len(call'[d].stages)] = [d \in Calls |-> Len(call[d].stages)]
  BY <1>3
<1>6. [d \in Calls |-> call'[d].i] = [d \in Calls |-> call[d].i]
  BY <1>3
<1>7. [d \in Calls |-> ResultOf(call'[d])] = [d \in Calls |-> ResultOf(call[d])]
  BY <1>3
<1> QED
  BY <1>4, <1>5, <1>6, <1>7 DEF ChainOf!vars, StatusOf, ResultOf, Ended

\* The state of the Chain at a call.
LEMMA ChainAt ==
    ASSUME NEW c \in Calls
    PROVE  /\ [d \in Calls |-> StatusOf(call[d])][c] = StatusOf(call[c])
           /\ [d \in Calls |-> Len(call[d].stages)][c] = Len(call[c].stages)
           /\ [d \in Calls |-> call[d].i][c] = call[c].i
  OBVIOUS

\* Every step is one of the Chain, or a stutter.
LEMMA ChainStep ==
    TypeOK /\ Places /\ [Next]_vars => [ChainOf!Next]_(ChainOf!vars)
<1> SUFFICES ASSUME TypeOK, Places, [Next]_vars
             PROVE  [ChainOf!Next]_(ChainOf!vars)
  OBVIOUS
<1>0. CASE UNCHANGED vars
  BY <1>0 DEF vars, ChainOf!vars, Ended
<1> SUFFICES ASSUME Next PROVE [ChainOf!Next]_(ChainOf!vars)
  BY <1>0
<1>p. PICK c \in Calls : \E new : CallStep(c, new)  BY StepsOfACall
<1>1. PICK new : CallStep(c, new)  BY <1>p
<1> DEFINE k == call[c]
<1>k. /\ GoodCall(k) /\ k \in CallType /\ PlaceOf(k) /\ PlaceOf(new)
      /\ call' = [call EXCEPT ![c] = new]
  BY <1>1, TypeParts, PlaceStep DEF GoodCall, Places, CallStep
<1>b. ChainOf!Become(c, StatusOf(new), Len(new.stages), new.i, ResultOf(new))
  BY <1>k, BecomeStep
<1>s. (/\ StatusOf(new) = StatusOf(k) /\ Len(new.stages) = Len(k.stages)
       /\ new.i = k.i /\ ResultOf(new) = ResultOf(k))
        => UNCHANGED ChainOf!vars
  BY <1>k, SameStep
<1>e. Len(<< >>) = 0 /\ Idle.stages = << >> /\ Idle.i = 0
      /\ StatusOf(Idle) = "none" /\ ResultOf(Idle) = 0
  BY DEF Idle, StatusOf, ResultOf, Ended
\* A call that is not in the Chain.
<1>n. k.stages = << >> =>
        /\ StatusOf(k) = "none" /\ Len(k.stages) = 0 /\ k.i = 0
        /\ ResultOf(k) = 0
  <2>1. k.stages = << >> => Len(k.stages) = 0  OBVIOUS
  <2> QED  BY <1>k, <2>1 DEF StatusOf, ResultOf, PlaceOf, GoodCall
<1>2. CASE Begins(c, new)
  <2>1. k.stages = << >>  BY <1>2, <1>k DEF Begins, PlaceOf
  <2>2. CASE new = Reply(Idle, "error") \/ new = StartCall(<< >>)
    <3>1. /\ new.stages = << >> /\ new.i = 0
          /\ StatusOf(new) = "none" /\ ResultOf(new) = 0
      BY <2>2 DEF Reply, StartCall, Idle, StatusOf, ResultOf, Ended
    <3> QED  BY <1>n, <1>s, <2>1, <3>1
  <2>3. CASE \E stages \in Pipelines \ {<< >>} : new = StartCall(stages)
    <3>1. PICK stages \in Pipelines \ {<< >>} : new = StartCall(stages)
      BY <2>3
    <3>2. /\ new.stages = stages /\ new.i = 1
          /\ StatusOf(new) = "running" /\ ResultOf(new) = 0
      BY <3>1 DEF StartCall, Idle, StatusOf, ResultOf, Ended
    <3>3. Len(stages) \in {Len(s) : s \in Pipelines} \ {0}
      <4>1. stages \in Seq(Stage) /\ stages # << >>  BY PipelinesType
      <4>2. Len(stages) # 0  BY <4>1
      <4> QED  BY <4>2
    <3>4. ChainOf!Start(c)
      <4>1. ChainOf!Become(c, "running", Len(stages), 1, 0)
        BY <1>b, <3>2
      <4>2. [d \in Calls |-> StatusOf(call[d])][c] = "none"
        BY <1>n, <2>1
      <4> QED  BY <3>3, <4>1, <4>2 DEF ChainOf!Start, StatusOf, Ended
    <3> QED  BY <3>4 DEF ChainOf!Next
  <2> QED  BY <1>2, <2>2, <2>3 DEF Begins
<1>3. CASE GoesOn(c, new)
  <2>0. k.pc \in {"stage", "rows"} =>
            /\ k.stages # << >> /\ StatusOf(k) = "running"
            /\ ResultOf(k) = 0
    BY <1>k DEF GoodCall, PlaceOf, StatusOf, ResultOf, Ended
  <2>1. CASE k.pc \in {"stage", "rows"} /\ new = Completed(k)
    <3>1. /\ new.stages = k.stages /\ new.out = k.out /\ new.pc # "done"
          /\ \/ k.i = Len(k.stages) /\ new.i = k.i
             \/ k.i # Len(k.stages) /\ new.i = k.i + 1
      BY <1>k, <2>1 DEF Completed, CallType
    <3>2. StatusOf(new) = "running" /\ ResultOf(new) = 0
      BY <1>k, <2>0, <2>1, <3>1 DEF StatusOf, ResultOf, Ended, PlaceOf
    <3>3. CASE k.i = Len(k.stages)
      BY <1>s, <2>0, <2>1, <3>1, <3>2, <3>3
    <3>4. CASE k.i # Len(k.stages)
      <4>1. k.i < Len(k.stages)
        BY <1>k, <3>4 DEF GoodCall, CallType
      <4>2. ChainOf!Become(c, "running", Len(k.stages), k.i + 1, 0)
        BY <1>b, <3>1, <3>2, <3>4
      <4>3. ChainOf!Advance(c)
        BY <2>0, <2>1, <4>1, <4>2, ChainAt
        DEF ChainOf!Advance, StatusOf, Ended
      <4> QED  BY <4>3 DEF ChainOf!Next
    <3> QED  BY <3>3, <3>4
  <2>2. CASE k.pc \in {"stage", "rows"} /\ \E out \in {"error", "panic"} :
                new = Reply(k, out)
    <3>1. /\ new.stages = k.stages /\ new.i = k.i /\ new.pc = "done"
          /\ new.out \in {"error", "panic"}
      BY <1>k, <2>2 DEF Reply, CallType
    <3>2. StatusOf(new) = "failed" /\ ResultOf(new) = 0
      BY <2>0, <2>2, <3>1 DEF StatusOf, ResultOf, Ended
    <3>3. ChainOf!Become(c, "failed", Len(k.stages), k.i, 0)
      BY <1>b, <3>1, <3>2
    <3>4. ChainOf!Fail(c)
      BY <2>0, <2>2, <3>3, ChainAt DEF ChainOf!Fail, StatusOf, Ended
    <3> QED  BY <3>4 DEF ChainOf!Next
  <2>3. CASE \/ k.pc = "stage" /\ \E line \in Text :
                    new = [k EXCEPT !.pc = "rows", !.line = line]
             \/ NextRow(c) /\ new = [k EXCEPT !.rows = k.rows + 1]
    <3>1. /\ k.pc \in {"stage", "rows"} /\ new.pc = "rows"
          /\ new.stages = k.stages /\ new.i = k.i /\ new.out = k.out
      BY <1>k, <2>3 DEF NextRow, CallType
    <3>2. StatusOf(new) = "running" /\ ResultOf(new) = 0
      BY <1>k, <2>0, <3>1 DEF StatusOf, ResultOf, Ended, PlaceOf
    <3> QED  BY <1>s, <2>0, <3>1, <3>2
  <2>4. CASE /\ k.pc = "finish"
             /\ new = Reply(k, IF config.DebugMode THEN "debug" ELSE "payload")
    <3>1. /\ new.stages = k.stages /\ new.i = k.i /\ new.res = k.res
          /\ new.pc = "done" /\ Ended(new)
      BY <1>k, <2>4 DEF Reply, CallType, Ended
    <3>2. CASE k.stages = << >>
      <4>1. StatusOf(new) = "none" /\ ResultOf(new) = 0
        BY <1>k, <3>1, <3>2 DEF StatusOf, ResultOf, PlaceOf
      <4> QED  BY <1>n, <1>s, <3>1, <3>2, <4>1
    <3>3. CASE k.stages # << >>
      <4>1. StatusOf(new) = "completed" /\ ResultOf(new) = Len(k.stages)
        BY <1>k, <2>4, <3>1, <3>3 DEF StatusOf, ResultOf, PlaceOf
      <4>2. StatusOf(k) = "running" /\ k.i = Len(k.stages)
        BY <1>k, <2>4, <3>3 DEF StatusOf, PlaceOf
      <4> DEFINE n == Len(k.stages)
      <4>3. ChainOf!Become(c, "completed", n, k.i, n)
        <5>1. Len(new.stages) = n /\ ResultOf(new) = n  BY <3>1, <4>1
        <5> HIDE DEF k, n
        <5> QED  BY <1>b, <3>1, <4>1, <5>1 DEF ChainOf!Become
      <4>4. ChainOf!Complete(c)
        BY <4>2, <4>3, ChainAt
        DEF ChainOf!Complete, ChainOf!Become, StatusOf, Ended
      <4> QED  BY <4>4 DEF ChainOf!Next
    <3> QED  BY <3>2, <3>3
  <2> QED  BY <1>3, <2>1, <2>2, <2>3, <2>4 DEF GoesOn
<1>4. CASE Ends(c, new)
  <2>1. k.pc = "done" /\ new = Idle  BY <1>4 DEF Ends
  <2>2. CASE k.stages = << >>
    BY <1>e, <1>n, <1>s, <2>1, <2>2
  <2>3. CASE k.stages # << >>
    <3>1. ChainOf!Become(c, "none", 0, 0, 0)  BY <1>b, <1>e, <2>1
    <3>2. StatusOf(k) \in {"completed", "failed"}
      BY <2>1, <2>3 DEF StatusOf
    <3>3. ChainOf!Forget(c)
      BY <3>1, <3>2, ChainAt DEF ChainOf!Forget, StatusOf, Ended
    <3> QED  BY <3>3 DEF ChainOf!Next
  <2> QED  BY <2>2, <2>3
<1> QED  BY <1>1, <1>2, <1>3, <1>4 DEF CallStep

\* RunPipeline implements the executions of Chain: stages in order, each after
\* its predecessor, up to the first failure or the last result.
THEOREM Chained == Spec => ImplementsChain
<1>1. Init => Places /\ ChainOf!Init
  <2> SUFFICES ASSUME Init PROVE Places /\ ChainOf!Init  OBVIOUS
  <2>1. \A c \in Calls : call[c] = Idle  BY DEF Init
  <2>2. Len(<< >>) = 0  OBVIOUS
  <2> QED
    BY <2>1, <2>2
    DEF ChainOf!Init, Places, PlaceOf, Idle, NoResult, Ended
<1> QED
  BY <1>1, PlacesStep, ChainStep, TypeInit, TypeStep, PTL
  DEF Spec, ImplementsChain, ChainOf!Spec
=============================================================================
