----------------------------- MODULE ProbeProofs -----------------------------
(***************************************************************************)
(* Proofs about the completion probe, for any number of requests, any      *)
(* texts and registries and any times: whose results an answer holds and   *)
(* how old they can be.                                                    *)
(***************************************************************************)
EXTENDS Probe, StageParseProofs

-----------------------------------------------------------------------------
LEMMA PipelinesType == Pipelines \subseteq Seq(Stage)
<1> SUFFICES ASSUME NEW p \in Places, NEW r \in Registries
             PROVE  PriorStages[p][r] \in Seq(Stage)
  BY DEF Pipelines
<1>1. p.lines \in Seq(Line)
  BY PlaceAssumption
<1>2. \A l \in DOMAIN r : r[l] \in Uris
  BY RegistriesAssumption
<1>3. PriorStages[p][r] = ExtractPriorStages(p.lines, p.cursor, r)
  BY DEF PriorStages
<1> QED
  BY <1>1, <1>2, <1>3, PriorStagesType

\* Two pipelines of one hash are the same queries on the same databases.
LEMMA HashTellsPipelines ==
    ASSUME NEW s \in Seq(Stage), NEW t \in Seq(Stage),
           PipelineHash(s) = PipelineHash(t)
    PROVE  s = t
<1>1. DOMAIN s = DOMAIN t
  BY DEF PipelineHash
<1>2. ASSUME NEW i \in DOMAIN s
      PROVE  s[i] = t[i]
  <2>1. PipelineHash(s)[i] = PipelineHash(t)[i]
    OBVIOUS
  <2>2. s[i].conn = t[i].conn /\ s[i].line = t[i].line
    BY <1>1, <2>1 DEF PipelineHash
  <2>3. s[i] \in Stage /\ t[i] \in Stage
    BY <1>1
  <2> QED
    BY <2>2, <2>3 DEF Stage
<1> QED
  BY <1>1, <1>2

-----------------------------------------------------------------------------
(***************************************************************************)
(* The invariants.  A file holds a result of the pipeline that its name is *)
(* the hash of, read no longer than a timeout before it was written.  What *)
(* a request has found in a file it will read in a file that is no older,  *)
(* because a file is only ever replaced by a newer one.                    *)
(***************************************************************************)
ProbeType == [pc : {"idle", "load", "wait", "save", "answered"},
              stages : Seq(Stage), seen : 0..CacheTTL, left : 0..ProbeTimeout,
              run : {"none", "running", "sending", "failing", "sent", "failed"},
              k : Nat, age : 0..MaxAge, wrote : BOOLEAN,
              answer : Result \cup {NoEntry}]

FileOf(h) ==
    Cached(h) => /\ PipelineHash(cache[h].of) = h
                 /\ cache[h].age <= cache[h].mtime + ProbeTimeout

Request(k) ==
    /\ k.pc # "idle" => k.stages \in Pipelines
    /\ k.pc = "load" => /\ Cached(PipelineHash(k.stages))
                        /\ cache[PipelineHash(k.stages)].mtime <= k.seen
    /\ k.pc = "wait" => k.age + k.left <= ProbeTimeout
    /\ k.pc = "save" => k.age <= ProbeTimeout
    /\ k.pc \in {"idle", "load", "answered"} => k.age = 0
    /\ k.answer # NoEntry => /\ k.pc = "answered" /\ k.answer.of = k.stages
                             /\ k.answer.age < MaxAge

ProbeInv ==
    /\ TypeOK
    /\ \A h \in Hashes : FileOf(h)
    /\ \A r \in Requests : Request(probe[r])

LEMMA Times ==
    /\ CacheTTL \in Nat /\ ProbeTimeout \in Nat /\ MaxAge \in Nat
    /\ CacheTTL > 0 /\ MaxAge = CacheTTL + ProbeTimeout
BY TimeAssumption DEF MaxAge

LEMMA ProbeParts ==
    ProbeInv => /\ cache \in [Hashes -> Entry \cup {NoEntry}]
                /\ probe \in [Requests -> ProbeType]
                /\ \A h \in Hashes : FileOf(h)
                /\ \A r \in Requests : Request(probe[r])
BY DEF ProbeInv, TypeOK, ProbeType

\* A request that has a pipeline has a file name.
LEMMA HashIsOne ==
    ASSUME NEW s \in Pipelines
    PROVE  PipelineHash(s) \in Hashes /\ s \in Seq(Stage)
BY PipelinesType DEF Hashes

\* A step of one request that leaves the files alone.
LEMMA RequestStep ==
    ASSUME ProbeInv, NEW r \in Requests, NEW next \in ProbeType, Request(next),
           cache' = cache, probe' = [probe EXCEPT ![r] = next]
    PROVE  ProbeInv'
<1>0. /\ cache \in [Hashes -> Entry \cup {NoEntry}]
      /\ probe \in [Requests -> ProbeType]
      /\ \A h \in Hashes : FileOf(h)
      /\ \A q \in Requests : Request(probe[q])
  BY ProbeParts
<1>1. probe' \in [Requests -> ProbeType]
  BY <1>0
<1>2. \A q \in Requests : Request(probe[q])'
  <2>1. \A q \in Requests : probe'[q] = IF q = r THEN next ELSE probe[q]
    BY <1>0
  <2>2. ASSUME NEW q \in Requests
        PROVE  Request(probe[q])'
    <3>1. Request(probe[q])
      BY <1>0
    <3> QED
      BY <2>1, <3>1 DEF Request, Cached
  <2> QED
    BY <2>2
<1>3. \A h \in Hashes : FileOf(h)'
  BY <1>0 DEF FileOf, Cached
<1> QED
  BY <1>0, <1>1, <1>2, <1>3 DEF ProbeInv, TypeOK, ProbeType

LEMMA Bounds ==
    /\ 0 \in 0..CacheTTL /\ 0 \in 0..ProbeTimeout /\ 0 \in 0..MaxAge
    /\ ProbeTimeout \in 0..ProbeTimeout /\ 0 \in Nat
BY Times

\* A request that starts its pipeline, or is answered.
LEMMA StartedFacts ==
    ASSUME NEW k \in ProbeType, k.stages \in Pipelines, k.age = 0,
           k.answer = NoEntry
    PROVE  Started(k) \in ProbeType /\ Request(Started(k))
<1>1. Started(k) \in ProbeType
  BY Bounds DEF Started, ProbeType
<1>2. /\ Started(k).pc = "wait" /\ Started(k).stages = k.stages
      /\ Started(k).age = 0 /\ Started(k).left = ProbeTimeout
      /\ Started(k).answer = NoEntry
  BY DEF Started, ProbeType
<1> HIDE DEF Started
<1> QED
  BY <1>1, <1>2, Times DEF Request

LEMMA AnsweredFacts ==
    ASSUME NEW k \in ProbeType, k.stages \in Pipelines,
           NEW answer \in Result \cup {NoEntry},
           answer # NoEntry => answer.of = k.stages /\ answer.age < MaxAge
    PROVE  Answered(k, answer) \in ProbeType /\ Request(Answered(k, answer))
<1> DEFINE n == Answered(k, answer)
<1>1. n \in ProbeType
  BY Bounds DEF Answered, ProbeType
<1>2. /\ n.pc = "answered" /\ n.stages = k.stages /\ n.age = 0
      /\ n.answer = answer
  BY DEF Answered, ProbeType
<1> HIDE DEF n
<1>3. Request(n)
  BY <1>2 DEF Request
<1> QED
  BY <1>1, <1>3 DEF n

LEMMA AskStep ==
    ASSUME ProbeInv, NEW r \in Requests, Ask(r)
    PROVE  ProbeInv'
<1>1. PICK p \in Places, g \in Registries :
        /\ PriorStages[p][g] # << >>
        /\ LET stages == PriorStages[p][g]
               h == PipelineHash(stages)
               k == [Idle EXCEPT !.stages = stages]
           IN  probe' = [probe EXCEPT ![r] =
                 IF Cached(h)
                 THEN [k EXCEPT !.pc = "load", !.seen = cache[h].mtime]
                 ELSE Started(k)]
  BY DEF Ask
<1> DEFINE s == PriorStages[p][g]
           h == PipelineHash(s)
           k == [Idle EXCEPT !.stages = s]
           load == [k EXCEPT !.pc = "load", !.seen = cache[h].mtime]
<1>2. s \in Pipelines
  BY <1>1 DEF Pipelines
<1> HIDE DEF s
<1>3. h \in Hashes /\ s \in Seq(Stage)
  BY <1>2, HashIsOne
<1>4. cache \in [Hashes -> Entry \cup {NoEntry}] /\ cache' = cache
  BY ProbeParts DEF Ask
<1>5. /\ k \in ProbeType /\ k.stages = s /\ k.age = 0 /\ k.answer = NoEntry
  BY <1>3, Bounds DEF Idle, ProbeType
<1>6. probe' = [probe EXCEPT ![r] = IF Cached(h) THEN load ELSE Started(k)]
  BY <1>1 DEF s
<1>7. CASE Cached(h)
  <2>1. cache[h] \in Entry
    BY <1>3, <1>4, <1>7 DEF Cached
  <2>2. cache[h].mtime \in 0..CacheTTL
    BY <2>1 DEF Entry
  <2> HIDE DEF k
  <2>3. load \in ProbeType
    BY <1>5, <2>2 DEF ProbeType
  <2>4. /\ load.pc = "load" /\ load.stages = s /\ load.age = 0
        /\ load.seen = cache[h].mtime /\ load.answer = NoEntry
    BY <1>5 DEF ProbeType
  <2> HIDE DEF load
  <2>5. Request(load)
    BY <1>2, <1>7, <2>2, <2>4, Times DEF Request
  <2> QED
    BY <1>4, <1>6, <1>7, <2>3, <2>5, RequestStep
<1>8. CASE ~Cached(h)
  <2> HIDE DEF k
  <2>1. Started(k) \in ProbeType /\ Request(Started(k))
    BY <1>2, <1>5, StartedFacts
  <2> QED
    BY <1>4, <1>6, <1>8, <2>1, RequestStep
<1> QED
  BY <1>7, <1>8

LEMMA LoadStep ==
    ASSUME ProbeInv, NEW r \in Requests, Load(r)
    PROVE  ProbeInv'
<1> DEFINE k == probe[r]
           h == PipelineHash(k.stages)
           found == [of |-> cache[h].of, age |-> cache[h].age]
<1>1. /\ k.pc = "load" /\ cache' = cache
      /\ probe' = [probe EXCEPT ![r] =
                     IF Recent(k.seen) THEN Answered(k, found) ELSE Started(k)]
  BY DEF Load, Hash
<1>2. k \in ProbeType /\ Request(k)
  BY ProbeParts
<1>3. /\ k.stages \in Pipelines /\ k.age = 0 /\ k.answer = NoEntry
      /\ Cached(h) /\ cache[h].mtime <= k.seen
  BY <1>1, <1>2 DEF Request
<1>4. h \in Hashes /\ k.stages \in Seq(Stage)
  BY <1>3, HashIsOne
<1>5. /\ cache[h] \in Entry /\ FileOf(h)
  BY <1>3, <1>4, ProbeParts DEF Cached
<1>6. CASE Recent(k.seen)
  <2>1. /\ cache[h].of \in Seq(Stage) /\ cache[h].age \in 0..MaxAge
        /\ cache[h].mtime \in Nat
    BY <1>5, Times DEF Entry
  <2>2. cache[h].of = k.stages
    BY <1>3, <1>4, <1>5, <2>1, HashTellsPipelines DEF FileOf
  <2>3. cache[h].age < MaxAge
    <3>1. k.seen \in Nat /\ k.seen < CacheTTL
      BY <1>2, <1>6, Times DEF ProbeType, Recent
    <3>2. cache[h].age <= cache[h].mtime + ProbeTimeout
      BY <1>3, <1>5 DEF FileOf
    <3> QED
      BY <1>3, <2>1, <3>1, <3>2, Times
  <2>4. found \in Result /\ found.of = k.stages /\ found.age < MaxAge
    BY <2>1, <2>2, <2>3 DEF Result
  <2> HIDE DEF found, k
  <2>5. Answered(k, found) \in ProbeType /\ Request(Answered(k, found))
    BY <1>2, <1>3, <2>4, AnsweredFacts
  <2> QED
    BY <1>1, <1>6, <2>5, RequestStep
<1>7. CASE ~Recent(k.seen)
  <2> HIDE DEF k
  <2>1. Started(k) \in ProbeType /\ Request(Started(k))
    BY <1>2, <1>3, StartedFacts
  <2> QED
    BY <1>1, <1>7, <2>1, RequestStep
<1> QED
  BY <1>6, <1>7

\* What the goroutine does shows nowhere else.
LEMMA RunStep ==
    ASSUME ProbeInv, NEW r \in Requests,
           \/ RunStage(r) \/ RunEnds(r) \/ RunFails(r) \/ Send(r)
    PROVE  ProbeInv'
<1> DEFINE k == probe[r]
<1>1. k \in ProbeType /\ Request(k) /\ probe \in [Requests -> ProbeType]
  BY ProbeParts
<1>2. ASSUME NEW run \in {"none", "running", "sending", "failing", "sent",
                          "failed"},
             NEW n \in Nat, NEW wrote \in BOOLEAN, cache' = cache,
             probe' = [probe EXCEPT ![r] = [k EXCEPT !.run = run, !.k = n,
                                                     !.wrote = wrote]]
      PROVE  ProbeInv'
  <2> DEFINE next == [k EXCEPT !.run = run, !.k = n, !.wrote = wrote]
  <2> HIDE DEF k
  <2>1. next \in ProbeType
    BY <1>1 DEF ProbeType
  <2>2. /\ next.pc = k.pc /\ next.stages = k.stages /\ next.seen = k.seen
        /\ next.left = k.left /\ next.age = k.age /\ next.answer = k.answer
    BY <1>1 DEF ProbeType
  <2> HIDE DEF next
  <2>3. Request(next)
    BY <1>1, <2>2 DEF Request
  <2>4. probe' = [probe EXCEPT ![r] = next]
    BY <1>2 DEF k, next
  <2> QED
    BY <1>2, <2>1, <2>3, <2>4, RequestStep
<1>3. CASE RunStage(r)
  <2>1. PICK line :
          probe' = [probe EXCEPT
                      ![r].k = k.k + 1,
                      ![r].wrote = @ \/ QueryType(TypeOf(k.stages[k.k + 1]), line)
                                          = "write"]
    BY <1>3 DEF RunStage
  <2> DEFINE n == k.k + 1
             wrote == k.wrote \/ QueryType(TypeOf(k.stages[n]), line) = "write"
  <2>2. n \in Nat /\ k.run \in {"none", "running", "sending", "failing", "sent",
                                "failed"}
    BY <1>1 DEF ProbeType
  <2>3. wrote \in BOOLEAN
    OBVIOUS
  <2>4. probe' = [probe EXCEPT ![r] = [k EXCEPT !.run = k.run, !.k = n,
                                                !.wrote = wrote]]
    <3>1. probe' = [probe EXCEPT ![r].k = n, ![r].wrote = wrote]
      BY <1>1, <2>1
    <3> HIDE DEF n, wrote
    <3> QED
      BY <1>1, <3>1 DEF ProbeType
  <2> HIDE DEF n, wrote, k
  <2> QED
    BY <1>2, <1>3, <2>2, <2>3, <2>4 DEF RunStage
<1>4. CASE RunEnds(r) \/ RunFails(r) \/ Send(r)
  <2>1. PICK run \in {"sending", "failing", "sent", "failed"} :
          cache' = cache /\ probe' = [probe EXCEPT ![r].run = run]
    BY <1>4 DEF RunEnds, RunFails, Send
  <2>2. k.k \in Nat /\ k.wrote \in BOOLEAN
    BY <1>1 DEF ProbeType
  <2>3. probe' = [probe EXCEPT ![r] = [k EXCEPT !.run = run, !.k = k.k,
                                                !.wrote = k.wrote]]
    BY <1>1, <2>1 DEF ProbeType
  <2> HIDE DEF k
  <2> QED
    BY <1>2, <2>1, <2>2, <2>3
<1> QED
  BY <1>3, <1>4

LEMMA GiveUpStep ==
    ASSUME ProbeInv, NEW r \in Requests, Receive(r) \/ Timeout(r) \/ Forget(r)
    PROVE  ProbeInv'
<1> DEFINE k == probe[r]
<1>1. k \in ProbeType /\ Request(k) /\ cache' = cache
  BY ProbeParts DEF Receive, Timeout, Forget
<1>2. CASE \/ Receive(r) /\ k.run # "sent"
           \/ Timeout(r)
  <2>1. /\ k.pc = "wait"
        /\ probe' = [probe EXCEPT ![r] = Answered(k, NoEntry)]
    BY <1>2 DEF Receive, Timeout
  <2> HIDE DEF k
  <2>2. /\ Answered(k, NoEntry) \in ProbeType /\ Request(Answered(k, NoEntry))
    BY <1>1, <2>1, AnsweredFacts DEF Request
  <2> QED
    BY <1>1, <2>1, <2>2, RequestStep
<1>3. CASE Receive(r) /\ k.run = "sent"
  <2> DEFINE next == [k EXCEPT !.pc = "save"]
  <2>1. k.pc = "wait" /\ probe' = [probe EXCEPT ![r] = next]
    BY <1>3 DEF Receive
  <2> HIDE DEF k
  <2>2. next \in ProbeType
    BY <1>1 DEF ProbeType
  <2>3. /\ next.pc = "save" /\ next.stages = k.stages /\ next.age = k.age
        /\ next.answer = k.answer
    BY <1>1 DEF ProbeType
  <2> HIDE DEF next
  <2>4. k.stages \in Pipelines /\ k.age <= ProbeTimeout /\ k.answer = NoEntry
    BY <1>1, <2>1, Times DEF Request, ProbeType
  <2>5. Request(next)
    BY <2>3, <2>4 DEF Request
  <2> QED
    BY <1>1, <2>1, <2>2, <2>5, RequestStep
<1>4. CASE Forget(r)
  <2>1. probe' = [probe EXCEPT ![r] = Idle]
    BY <1>4 DEF Forget
  <2>2. Idle \in ProbeType /\ Request(Idle)
    <3>1. << >> \in Seq(Stage)
      OBVIOUS
    <3> QED
      BY <3>1, Bounds DEF Idle, ProbeType, Request
  <2> QED
    BY <1>1, <2>1, <2>2, RequestStep
<1> QED
  BY <1>2, <1>3, <1>4 DEF Receive

LEMMA SaveStep ==
    ASSUME ProbeInv, NEW r \in Requests, Save(r)
    PROVE  ProbeInv'
<1> DEFINE k == probe[r]
           h == PipelineHash(k.stages)
           found == [of |-> k.stages, age |-> k.age]
           file == [of |-> k.stages, age |-> k.age, mtime |-> 0]
           next == Answered(k, found)
<1>1. /\ k.pc = "save" /\ probe' = [probe EXCEPT ![r] = next]
      /\ cache' = cache \/ cache' = [cache EXCEPT ![h] = file]
  BY DEF Save, Hash
<1>2. k \in ProbeType /\ Request(k)
  BY ProbeParts
<1>3. /\ k.stages \in Pipelines /\ k.age \in 0..ProbeTimeout
      /\ k.age \in 0..MaxAge /\ k.age < MaxAge
  BY <1>1, <1>2, Times DEF Request, ProbeType
<1>4. h \in Hashes /\ k.stages \in Seq(Stage)
  BY <1>3, HashIsOne
<1>5. found \in Result /\ found.of = k.stages /\ found.age < MaxAge
  BY <1>3, <1>4 DEF Result
<1>6. next \in ProbeType /\ Request(next)
  <2> HIDE DEF found, k
  <2> QED
    BY <1>2, <1>3, <1>5, AnsweredFacts
<1>7. CASE cache' = cache
  <2> HIDE DEF next
  <2> QED
    BY <1>1, <1>6, <1>7, RequestStep
<1>8. CASE cache' = [cache EXCEPT ![h] = file]
  <2>0. /\ cache \in [Hashes -> Entry \cup {NoEntry}]
        /\ probe \in [Requests -> ProbeType]
        /\ \A g \in Hashes : FileOf(g)
        /\ \A q \in Requests : Request(probe[q])
    BY ProbeParts
  <2>1. file \in Entry /\ file # NoEntry
    <3>1. file \in Entry
      BY <1>3, <1>4, Bounds DEF Entry
    <3> HIDE DEF file
    <3> QED
      BY <3>1, AbsenceAssumption
  <2>2. file.of = k.stages /\ file.age = k.age /\ file.mtime = 0
    OBVIOUS
  <2> HIDE DEF file, next, h
  <2>3. \A g \in Hashes : cache'[g] = IF g = h THEN file ELSE cache[g]
    BY <1>8, <2>0
  <2>4. cache' \in [Hashes -> Entry \cup {NoEntry}]
    BY <1>8, <2>0, <2>1
  <2>5. probe' \in [Requests -> ProbeType]
    BY <1>1, <1>6, <2>0
  <2>6. ASSUME NEW g \in Hashes
        PROVE  FileOf(g)'
    <3>1. CASE g = h
      <4>1. PipelineHash(file.of) = h /\ file.age <= file.mtime + ProbeTimeout
        BY <1>3, <2>2, Times DEF h
      <4> QED
        BY <2>3, <3>1, <4>1 DEF FileOf
    <3>2. CASE g # h
      BY <2>0, <2>3, <3>2 DEF FileOf, Cached
    <3> QED
      BY <3>1, <3>2
  <2>7. ASSUME NEW q \in Requests
        PROVE  Request(probe[q])'
    <3> DEFINE j == probe'[q]
    <3>1. Request(j)
      BY <1>1, <1>6, <2>0
    <3>2. j \in ProbeType
      BY <2>5
    <3>3. j.pc = "load" => PipelineHash(j.stages) \in Hashes
      BY <3>1, HashIsOne DEF Request
    <3>4. ASSUME j.pc = "load"
          PROVE  /\ cache'[PipelineHash(j.stages)] # NoEntry
                 /\ cache'[PipelineHash(j.stages)].mtime <= j.seen
      <4> DEFINE g == PipelineHash(j.stages)
      <4>1. /\ g \in Hashes /\ cache[g] # NoEntry /\ cache[g].mtime <= j.seen
            /\ j.seen >= 0
        BY <3>1, <3>2, <3>3, <3>4, Times DEF Request, Cached, ProbeType
      <4> HIDE DEF g, j
      <4>2. cache'[g] # NoEntry /\ cache'[g].mtime <= j.seen
        BY <2>1, <2>2, <2>3, <4>1
      <4> QED
        BY <4>2 DEF g
    <3> QED
      BY <3>1, <3>4 DEF Request, Cached
  <2> QED
    BY <2>4, <2>5, <2>6, <2>7 DEF ProbeInv, TypeOK, ProbeType
<1> QED
  BY <1>1, <1>7, <1>8

\* Time ages what waits and what is kept, each up to its cap.
LEMMA TickStep == ProbeInv /\ Tick => ProbeInv'
<1> SUFFICES ASSUME ProbeInv, Tick
             PROVE  ProbeInv'
  OBVIOUS
<1>0. /\ cache \in [Hashes -> Entry \cup {NoEntry}]
      /\ probe \in [Requests -> ProbeType]
      /\ \A h \in Hashes : FileOf(h)
      /\ \A r \in Requests : Request(probe[r])
  BY ProbeParts
<1>1. /\ \A r \in Requests : ~Urgent(probe[r])
      /\ probe' = [r \in Requests |-> Aged(probe[r])]
      /\ cache' = [h \in Hashes |->
                     IF ~Cached(h) THEN NoEntry
                     ELSE [cache[h] EXCEPT !.age = Older(cache[h].age, MaxAge),
                                           !.mtime = Older(cache[h].mtime,
                                                           CacheTTL)]]
  BY DEF Tick
<1>2. ASSUME NEW h \in Hashes
      PROVE  cache'[h] \in Entry \cup {NoEntry} /\ FileOf(h)'
  <2>1. CASE ~Cached(h)
    BY <1>1, <2>1 DEF FileOf, Cached
  <2>2. CASE Cached(h)
    <3> DEFINE e == cache[h]
               age == Older(e.age, MaxAge)
               mtime == Older(e.mtime, CacheTTL)
               f == [e EXCEPT !.age = age, !.mtime = mtime]
    <3>1. e \in Entry
      BY <1>0, <2>2 DEF Cached
    <3>2. /\ e.age \in 0..MaxAge /\ e.mtime \in 0..CacheTTL
          /\ PipelineHash(e.of) = h /\ e.age <= e.mtime + ProbeTimeout
      BY <1>0, <2>2, <3>1 DEF Entry, FileOf
    <3>3. /\ age \in 0..MaxAge /\ mtime \in 0..CacheTTL
          /\ age <= mtime + ProbeTimeout
      <4> HIDE DEF e
      <4> QED
        BY <3>2, Times DEF Older
    <3> HIDE DEF age, mtime
    <3>4. f \in Entry /\ f.of = e.of /\ f.age = age /\ f.mtime = mtime
      BY <3>1, <3>3 DEF Entry
    <3>5. cache'[h] = f
      BY <1>1, <2>2 DEF age, mtime
    <3> HIDE DEF f
    <3> QED
      BY <3>2, <3>3, <3>4, <3>5 DEF FileOf
  <2> QED
    BY <2>1, <2>2
<1>3. ASSUME NEW r \in Requests
      PROVE  probe'[r] \in ProbeType /\ Request(probe[r])'
  <2> DEFINE k == probe[r]
             n == probe'[r]
  <2>1. /\ k \in ProbeType /\ Request(k) /\ ~Urgent(k) /\ n = Aged(k)
    BY <1>0, <1>1
  <2>2. CASE k.pc = "wait"
    <3> DEFINE age == Older(k.age, MaxAge)
               left == k.left - 1
    <3>1. /\ k.left \in 0..ProbeTimeout /\ k.left # 0 /\ k.age \in 0..MaxAge
          /\ k.age + k.left <= ProbeTimeout /\ k.answer = NoEntry
          /\ k.stages \in Pipelines
      BY <2>1, <2>2 DEF ProbeType, Request, Urgent
    <3>2. /\ age \in 0..MaxAge /\ left \in 0..ProbeTimeout
          /\ age + left <= ProbeTimeout
      <4> HIDE DEF k
      <4> QED
        BY <3>1, Times DEF Older
    <3>3. n = [k EXCEPT !.left = left, !.age = age]
      BY <2>1, <2>2 DEF Aged
    <3> HIDE DEF age, left, k, n
    <3>4. /\ n \in ProbeType /\ n.pc = "wait" /\ n.stages = k.stages
          /\ n.age = age /\ n.left = left /\ n.answer = k.answer
      BY <2>1, <2>2, <3>2, <3>3 DEF ProbeType
    <3> QED
      BY <3>1, <3>2, <3>4 DEF Request, n
  <2>3. CASE k.pc # "wait"
    <3>1. n = k /\ k.pc \notin {"load", "save", "wait"}
      BY <2>1, <2>3 DEF Aged, Urgent
    <3> QED
      BY <2>1, <3>1 DEF Request
  <2> QED
    BY <2>2, <2>3
<1>4. /\ cache' \in [Hashes -> Entry \cup {NoEntry}]
      /\ probe' \in [Requests -> ProbeType]
  BY <1>1, <1>2, <1>3
<1> QED
  BY <1>2, <1>3, <1>4 DEF ProbeInv, TypeOK, ProbeType

LEMMA ProbeStep == ProbeInv /\ [Next]_vars => ProbeInv'
<1> SUFFICES ASSUME ProbeInv, [Next]_vars
             PROVE  ProbeInv'
  OBVIOUS
<1>1. CASE UNCHANGED vars
  BY <1>1 DEF vars, ProbeInv, TypeOK, FileOf, Request, Cached
<1>2. CASE Tick
  BY <1>2, TickStep
<1>3. ASSUME NEW r \in Requests,
             Ask(r) \/ RunStage(r) \/ RunEnds(r) \/ RunFails(r) \/ Local(r)
      PROVE  ProbeInv'
  BY <1>3, AskStep, LoadStep, RunStep, GiveUpStep, SaveStep DEF Local
<1> QED
  BY <1>1, <1>2, <1>3 DEF Next

LEMMA ProbeInvariant == Spec => []ProbeInv
<1>1. Init => ProbeInv
  <2> SUFFICES ASSUME Init PROVE ProbeInv
    OBVIOUS
  <2>1. Idle \in ProbeType /\ Request(Idle)
    <3>1. << >> \in Seq(Stage)
      OBVIOUS
    <3> QED
      BY <3>1, Bounds DEF Idle, ProbeType, Request
  <2>2. /\ cache = [h \in Hashes |-> NoEntry]
        /\ probe = [r \in Requests |-> Idle]
    BY DEF Init
  <2>3. \A h \in Hashes : FileOf(h)
    BY <2>2 DEF FileOf, Cached
  <2>4. probe \in [Requests -> ProbeType] /\ \A r \in Requests : Request(probe[r])
    <3> HIDE DEF Idle
    <3> QED
      BY <2>1, <2>2
  <2> QED
    BY <2>2, <2>3, <2>4 DEF ProbeInv, TypeOK, ProbeType
<1> QED
  BY <1>1, ProbeStep, PTL DEF Spec

\* The cache files and the requests are well typed in every reachable state.
THEOREM TypeCorrect == Spec => []TypeOK
<1>1. ProbeInv => TypeOK
  BY DEF ProbeInv
<1> QED
  BY <1>1, ProbeInvariant, PTL

\* However requests overlap, time out and replace each other's files, an
\* answer holds results of the pipeline that was asked about: the hash in a
\* file's name tells pipelines apart, databases included.
THEOREM AnswersOwnPipeline == Spec => []AnswersAreOfThePipeline
<1>1. ProbeInv => AnswersAreOfThePipeline
  BY DEF ProbeInv, Request, AnswersAreOfThePipeline
<1> QED
  BY <1>1, ProbeInvariant, PTL

\* An answer was read from the databases less than the cache's time and the
\* timeout ago: a result ages no longer than a timeout before it is written,
\* and between the look at a file and its use the file can only get newer.
THEOREM AnswersRecent == Spec => []AnswersAreRecent
<1>1. ProbeInv => AnswersAreRecent
  BY DEF ProbeInv, Request, AnswersAreRecent
<1> QED
  BY <1>1, ProbeInvariant, PTL

=============================================================================
