------------------------------- MODULE Probe -------------------------------
(***************************************************************************)
(* The completion probe (simpanan/internal/autocomplete_probe.go): to      *)
(* suggest jq paths it runs the stages before the cursor in a goroutine,   *)
(* waits for it no longer than a timeout, and keeps results in files that  *)
(* are good for a time.                                                    *)
(*                                                                         *)
(* Time passes in ticks.  The steps a request takes by itself take none:   *)
(* a tick waits for them, and for a request whose timeout has come.        *)
(***************************************************************************)
EXTENDS StageParse, FiniteSets

CONSTANTS
    Requests,       \* completion requests, of one process or several
    Places,         \* texts with the line of the cursor
    Registries,     \* the connections, as they may be registered
    CacheTTL,       \* probeCacheTTL, in ticks
    ProbeTimeout,   \* JqPathProbeTimeout, in ticks
    NoEntry         \* no cache file, or no answer

ASSUME PlaceAssumption ==
    \A p \in Places : p.lines \in Seq(Line) /\ p.cursor \in DOMAIN p.lines
ASSUME RegistriesAssumption ==
    \A r \in Registries : \A l \in DOMAIN r : r[l] \in Uris
ASSUME TimeAssumption == CacheTTL \in Nat \ {0} /\ ProbeTimeout \in Nat

VARIABLES
    cache,      \* the cache files, by the hash of a pipeline
    probe       \* each request with the goroutine it has started

vars == <<cache, probe>>

PriorStages ==
    [p \in Places |-> [r \in Registries |->
        ExtractPriorStages(p.lines, p.cursor, r)]]
Pipelines ==
    {PriorStages[p][r] : p \in Places, r \in Registries} \ {<< >>}

\* Ages are counted up to where they make no difference any more.
MaxAge == CacheTTL + ProbeTimeout
Older(age, cap) == IF age < cap THEN age + 1 ELSE cap

\* Mutant: the hash leaves out which database a stage is for.
HashOfTexts(stages) ==
    [i \in DOMAIN stages |-> <<TypeOf(stages[i]), stages[i].line>>]

\* pipelineHash: type, URI and text of every stage.
PipelineHash(stages) ==
    [i \in DOMAIN stages |->
        <<TypeOf(stages[i]), stages[i].conn, stages[i].line>>]

Hashes == {PipelineHash(s) : s \in Pipelines}

\* A result: the pipeline it is of and the age of what it was read from
\* (ghosts), and in a file the age of the file.
Result == [of : Seq(Stage), age : 0..MaxAge]
Entry == [of : Seq(Stage), age : 0..MaxAge, mtime : 0..CacheTTL]
ASSUME AbsenceAssumption == NoEntry \notin Result \cup Entry

\* pc is the request's place, run the goroutine's; left is what remains of
\* the timeout, k counts the stages that have run, wrote is a ghost.
Idle == [pc |-> "idle", stages |-> << >>, seen |-> 0, left |-> 0,
         run |-> "none", k |-> 0, age |-> 0, wrote |-> FALSE,
         answer |-> NoEntry]

Init ==
    /\ cache = [h \in Hashes |-> NoEntry]
    /\ probe = [r \in Requests |-> Idle]

-----------------------------------------------------------------------------
Hash(r) == PipelineHash(probe[r].stages)
Cached(h) == cache[h] # NoEntry

Answered(k, answer) ==
    [k EXCEPT !.pc = "answered", !.answer = answer, !.seen = 0, !.left = 0,
              !.age = 0]

\* The pipeline runs from its first stage, whatever the stage does.
Started(k) ==
    [k EXCEPT !.pc = "wait", !.seen = 0, !.left = ProbeTimeout,
              !.run = "running"]

\* augmentWithJqPaths, probeWithCache: look for the file.  The connections are
\* those that are registered now, which may be others than before.
Ask(r) ==
    /\ probe[r] = Idle
    /\ \E p \in Places, registry \in Registries :
        LET stages == PriorStages[p][registry]
            h == PipelineHash(stages)
            k == [Idle EXCEPT !.stages = stages]
        IN  /\ stages # << >>
            /\ probe' = [probe EXCEPT ![r] =
                    IF Cached(h)
                    THEN [k EXCEPT !.pc = "load", !.seen = cache[h].mtime]
                    ELSE Started(k)]
    /\ UNCHANGED cache

\* Mutant: an entry is good for a tick longer.
RecentOrJustNot(mtime) == mtime <= CacheTTL

\* Read the file, which may be another one by now, and look at its age.
Recent(mtime) == mtime < CacheTTL

Load(r) ==
    /\ probe[r].pc = "load"
    /\ probe' = [probe EXCEPT ![r] =
            IF Recent(@.seen)
            THEN Answered(@, [of |-> cache[Hash(r)].of,
                              age |-> cache[Hash(r)].age])
            ELSE Started(@)]
    /\ UNCHANGED cache

-----------------------------------------------------------------------------
\* The goroutine: defaultRunPipeline, one stage after the other.  The age of
\* a result counts from the moment its first stage begins.
RunStage(r) ==
    LET k == probe[r]
        n == k.k + 1
    IN  /\ k.run = "running" /\ n <= Len(k.stages)
        /\ \E line \in IF n = 1 THEN {k.stages[n].line}
                                ELSE PipeData(k.stages[n].line) :
            probe' = [probe EXCEPT ![r].k = n,
                        ![r].wrote = @ \/ QueryType(TypeOf(k.stages[n]), line)
                                            = "write"]
        /\ UNCHANGED cache

RunEnds(r) ==
    /\ probe[r].run = "running" /\ probe[r].k = Len(probe[r].stages)
    /\ probe' = [probe EXCEPT ![r].run = "sending"]
    /\ UNCHANGED cache

RunFails(r) ==
    /\ probe[r].run = "running"
    /\ probe' = [probe EXCEPT ![r].run = "failing"]
    /\ UNCHANGED cache

\* Mutant: a channel without room.
SendUnbuffered(r) ==
    /\ probe[r].run \in {"sending", "failing"} /\ probe[r].pc = "wait"
    /\ probe' = [probe EXCEPT ![r].run =
                    IF @ = "sending" THEN "sent" ELSE "failed"]
    /\ UNCHANGED cache

\* The channel has room for the one value that is ever sent on it.
Send(r) ==
    /\ probe[r].run \in {"sending", "failing"}
    /\ probe' = [probe EXCEPT ![r].run =
                    IF @ = "sending" THEN "sent" ELSE "failed"]
    /\ UNCHANGED cache

-----------------------------------------------------------------------------
Receive(r) ==
    /\ probe[r].pc = "wait" /\ probe[r].run \in {"sent", "failed"}
    /\ probe' = [probe EXCEPT ![r] =
            IF @.run = "sent" THEN [@ EXCEPT !.pc = "save"]
                              ELSE Answered(@, NoEntry)]
    /\ UNCHANGED cache

\* A temporary file is renamed onto the old one; an error changes nothing.
\* Either way the request has its answer.
Save(r) ==
    LET k == probe[r]
    IN  /\ k.pc = "save"
        /\ \/ cache' = [cache EXCEPT ![Hash(r)] =
                        [of |-> k.stages, age |-> k.age, mtime |-> 0]]
           \/ UNCHANGED cache
        /\ probe' = [probe EXCEPT ![r] =
                        Answered(@, [of |-> k.stages, age |-> k.age])]

\* Mutant: a request does not give up a goroutine that is still running.
TimeoutIfEnded(r) ==
    /\ probe[r].pc = "wait" /\ probe[r].left = 0
    /\ probe[r].run # "running"
    /\ probe' = [probe EXCEPT ![r] = Answered(@, NoEntry)]
    /\ UNCHANGED cache

\* The request gives up; its goroutine goes on, and nobody will receive.
Timeout(r) ==
    /\ probe[r].pc = "wait" /\ probe[r].left = 0
    /\ probe' = [probe EXCEPT ![r] = Answered(@, NoEntry)]
    /\ UNCHANGED cache

\* The answer is out and the goroutine has ended.
Forget(r) ==
    /\ probe[r].pc = "answered" /\ probe[r].run \in {"none", "sent", "failed"}
    /\ probe' = [probe EXCEPT ![r] = Idle]
    /\ UNCHANGED cache

\* Mutant: the clock runs past a timeout.
UrgentFilesOnly(k) ==
    \/ k.pc \in {"load", "save"}
    \/ k.pc = "answered" /\ k.answer # NoEntry

\* What takes no time: file accesses, a timer that fires, an answer.
Urgent(k) ==
    \/ k.pc \in {"load", "save"}
    \/ k.pc = "wait" /\ k.left = 0
    \/ k.pc = "answered" /\ k.answer # NoEntry

Aged(k) ==
    IF k.pc = "wait" THEN [k EXCEPT !.left = @ - 1, !.age = Older(@, MaxAge)]
    ELSE k

Tick ==
    /\ \A r \in Requests : ~Urgent(probe[r])
    /\ probe' = [r \in Requests |-> Aged(probe[r])]
    /\ cache' = [h \in Hashes |->
                    IF ~Cached(h) THEN NoEntry
                    ELSE [cache[h] EXCEPT !.age = Older(@, MaxAge),
                                          !.mtime = Older(@, CacheTTL)]]

Local(r) ==
    Load(r) \/ Send(r) \/ Receive(r) \/ Save(r) \/ Timeout(r) \/ Forget(r)

Next ==
    \/ \E r \in Requests :
            Ask(r) \/ RunStage(r) \/ RunEnds(r) \/ RunFails(r) \/ Local(r)
    \/ Tick

\* Requests and goroutines that can go on do, and time passes however many
\* requests are answered from files; a database need not answer.
Fairness == SF_vars(Tick) /\ \A r \in Requests : WF_vars(Local(r))

Spec == Init /\ [][Next]_vars /\ Fairness

-----------------------------------------------------------------------------
TypeOK ==
    /\ cache \in [Hashes -> Entry \cup {NoEntry}]
    /\ probe \in [Requests ->
            [pc : {"idle", "load", "wait", "save", "answered"},
             stages : Seq(Stage), seen : 0..CacheTTL,
             left : 0..ProbeTimeout,
             run : {"none", "running", "sending", "failing", "sent",
                    "failed"},
             k : Nat, age : 0..MaxAge, wrote : BOOLEAN,
             answer : Result \cup {NoEntry}]]

\* A completion is answered with results of its own pipeline: the same
\* queries, on the databases its labels stood for when it asked (pipelineHash,
\* loadProbeResult).
AnswersAreOfThePipeline ==
    \A r \in Requests :
        probe[r].answer # NoEntry => probe[r].answer.of = probe[r].stages

\* What a completion is answered with was not read longer ago than the
\* cache's time and the timeout allow together, however requests overlap and
\* replace each other's files (probeWithCache).
AnswersAreRecent ==
    \A r \in Requests :
        probe[r].answer # NoEntry
            => probe[r].answer.age < MaxAge

\* A completion returns, whether or not the databases answer (probeWithCache).
RequestsReturn ==
    \A r \in Requests : probe[r].pc = "wait" ~> probe[r].pc # "wait"

\* A goroutine whose pipeline has ended ends too, also when its request has
\* given it up.
GoroutinesEnd ==
    \A r \in Requests : probe[r].run \in {"sending", "failing"}
                            ~> probe[r].run \in {"sent", "failed", "none"}

\* specs/simpanan.allium, rule ProbeJqPaths: the prior stages are all
\* guaranteed to be reads.
ProbesRead == \A r \in Requests : ~probe[r].wrote
=============================================================================
