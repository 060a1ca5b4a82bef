-------------------------- MODULE StageParseProofs -------------------------
(***************************************************************************)
(* What the parser of a run and that of a completion return, for every     *)
(* text and every registry.                                                *)
(***************************************************************************)
EXTENDS StageParse, FiniteSetTheorems, WellFoundedInduction, TLAPS

ParseResult == [ok : BOOLEAN, stages : Seq(Stage)]

\* A set of numbers has a least element: what induction comes down to here.
LEMMA LeastNumber ==
    ASSUME NEW T, T \subseteq Nat, T # {}
    PROVE  \E x \in T : \A y \in T : x <= y
<1>1. IsWellFoundedOn(OpToRel(<, Nat), Nat)  BY NatLessThanWellFounded
<1>2. PICK x \in T : \A y \in T : ~ (<<y, x>> \in OpToRel(<, Nat))
  BY <1>1, WFMin
<1>3. \A y \in T : ~ (y < x)
  BY <1>2 DEF OpToRel
<1> QED  BY <1>3

\* Text that continues a stage leaves the connections alone.
LEMMA ExtendType ==
    ASSUME NEW stages \in Seq(Stage), stages # << >>, NEW text \in Text
    PROVE  Extend(stages, text) \in Seq(Stage)
<1> DEFINE n == Len(stages)
<1>1. n \in Nat /\ n \in DOMAIN stages  OBVIOUS
<1>2. stages[n] \in Stage  BY <1>1
<1>3. stages[n].line \o text \in Text  BY <1>2 DEF Stage, Text
<1>4. [stages[n] EXCEPT !.line = @ \o text] \in Stage
  BY <1>2, <1>3 DEF Stage
<1> QED  BY <1>1, <1>4 DEF Extend

\* A line turns a parser's state into another.
LEMMA ParseLineType ==
    ASSUME NEW parsed \in ParseResult, NEW l \in Line, NEW conns,
           \A k \in DOMAIN conns : conns[k] \in Uris
    PROVE  ParseLine(parsed, l, conns) \in ParseResult
<1>1. CASE ~parsed.ok \/ ~Sanitized(l)
  BY <1>1 DEF ParseLine
<1>2. CASE /\ ~(~parsed.ok \/ ~Sanitized(l))
           /\ ~Header(l) /\ parsed.stages # << >>
  <2>1. parsed.stages \in Seq(Stage) /\ l.text \in Text
    BY DEF ParseResult, Line
  <2>2. Extend(parsed.stages, l.text) \in Seq(Stage)
    BY <1>2, <2>1, ExtendType
  <2> QED  BY <1>2, <2>2 DEF ParseLine, ParseResult
<1>3. CASE /\ ~(~parsed.ok \/ ~Sanitized(l))
           /\ ~(~Header(l) /\ parsed.stages # << >>)
           /\ ParseQuery(l, conns)
  <2> DEFINE stage == [conn |-> conns[l.label], line |-> l.text]
  <2>1. stage \in Stage
    BY <1>3 DEF ParseQuery, Stage, Line
  <2>2. Append(parsed.stages, stage) \in Seq(Stage)
    BY <2>1 DEF ParseResult
  <2> QED  BY <1>3, <2>2 DEF ParseLine, ParseResult
<1>4. CASE /\ ~(~parsed.ok \/ ~Sanitized(l))
           /\ ~(~Header(l) /\ parsed.stages # << >>)
           /\ ~ParseQuery(l, conns)
  BY <1>4 DEF ParseLine, ParseResult, Refused
<1> QED  BY <1>1, <1>2, <1>3, <1>4

\* The recursion of ParseQueries, up to a line.
ParseUpTo(m, lines, conns, f) ==
    f = [n \in 0..m |-> IF n = 0 THEN NoStages
                        ELSE ParseLine(f[n - 1], lines[n], conns)]

LEMMA ParseDefined ==
    ASSUME NEW lines, NEW conns, NEW m \in Nat
    PROVE  \E f : ParseUpTo(m, lines, conns, f)
<1> DEFINE Bad == {k \in Nat : ~ \E f : ParseUpTo(k, lines, conns, f)}
<1> SUFFICES ASSUME Bad # {} PROVE FALSE  OBVIOUS
<1>1. PICK k \in Bad : \A j \in Bad : k <= j  BY LeastNumber
<1>2. CASE k = 0
  <2> DEFINE f == [n \in 0..0 |-> NoStages]
  <2>1. f = [n \in 0..0 |-> IF n = 0 THEN NoStages
                            ELSE ParseLine(f[n - 1], lines[n], conns)]
    OBVIOUS
  <2> HIDE DEF f
  <2> QED  BY <1>2, <2>1 DEF ParseUpTo
<1>3. CASE k # 0
  <2>1. k - 1 \in Nat /\ k - 1 \notin Bad  BY <1>1, <1>3
  <2>2. PICK g : ParseUpTo(k - 1, lines, conns, g)  BY <2>1
  <2> DEFINE f == [n \in 0..k |-> IF n = k
                        THEN ParseLine(g[k - 1], lines[k], conns) ELSE g[n]]
  <2>3. \A n \in 0..(k - 1) :
            g[n] = IF n = 0 THEN NoStages
                   ELSE ParseLine(g[n - 1], lines[n], conns)
    BY <2>2 DEF ParseUpTo
  <2>4. \A n \in 0..k : n # k => n \in 0..(k - 1)  BY <2>1
  <2>5. \A n \in 0..k : n # 0 => n - 1 \in 0..k /\ n - 1 # k  BY <2>1
  <2>6. \A n \in 0..k :
            f[n] = IF n = 0 THEN NoStages
                   ELSE ParseLine(f[n - 1], lines[n], conns)
    BY <1>3, <2>3, <2>4, <2>5
  <2>7. f = [n \in 0..k |-> f[n]]  OBVIOUS
  <2>8. f = [n \in 0..k |-> IF n = 0 THEN NoStages
                            ELSE ParseLine(f[n - 1], lines[n], conns)]
    <3> HIDE DEF f
    <3> QED BY <2>6, <2>7
  <2> HIDE DEF f
  <2> QED  BY <2>8 DEF ParseUpTo
<1> QED  BY <1>2, <1>3

\* The states that the parser of a run goes through, line by line.
ParseStates(lines, registry, f) ==
    /\ f[0] = NoStages
    /\ \A n \in 1..Len(lines) :
            f[n] = ParseLine(f[n - 1], lines[n], ConnMap(registry))
    /\ \A n \in 0..Len(lines) : f[n] \in ParseResult
    /\ ParseQueries(lines, registry) = f[Len(lines)]

LEMMA ParseRun ==
    ASSUME NEW lines \in Seq(Line), NEW registry,
           \A l \in DOMAIN registry : registry[l] \in Uris
    PROVE  \E f : ParseStates(lines, registry, f)
<1> DEFINE conns == ConnMap(registry)
           f == CHOOSE f : ParseUpTo(Len(lines), lines, conns, f)
           Bad == {n \in 0..Len(lines) : f[n] \notin ParseResult}
<1>1. \A k \in DOMAIN conns : conns[k] \in Uris
  BY UriAssumption DEF ConnMap
<1>2. ParseUpTo(Len(lines), lines, conns, f)
  BY ParseDefined
<1>3. \A n \in 0..Len(lines) :
          f[n] = IF n = 0 THEN NoStages ELSE ParseLine(f[n - 1], lines[n], conns)
  BY <1>2 DEF ParseUpTo
<1>4. ParseQueries(lines, registry) = f[Len(lines)]
  BY DEF ParseQueries, ParseUpTo
<1>5. Bad = {}
  <2> SUFFICES ASSUME Bad # {} PROVE FALSE  OBVIOUS
  <2> HIDE DEF conns, f
  <2>1. PICK n \in Bad : \A j \in Bad : n <= j
    <3>1. Bad \subseteq Nat  OBVIOUS
    <3> HIDE DEF Bad
    <3> QED  BY <3>1, LeastNumber
  <2>2. n # 0
    <3>1. NoStages \in ParseResult
      <4>1. << >> \in Seq(Stage)  OBVIOUS
      <4> QED  BY <4>1 DEF NoStages, ParseResult
    <3> QED  BY <1>3, <2>1, <3>1
  <2>3. f[n - 1] \in ParseResult  BY <2>1, <2>2
  <2>4. lines[n] \in Line  BY <2>1, <2>2
  <2>5. f[n] \in ParseResult  BY <1>1, <1>3, <2>1, <2>2, <2>3, <2>4, ParseLineType
  <2> QED  BY <2>1, <2>5
<1>6. \A n \in 0..Len(lines) : f[n] \in ParseResult
  <2> HIDE DEF f
  <2> QED  BY <1>5
<1>7. Len(lines) \in Nat  OBVIOUS
<1>8. f[0] = NoStages
  <2> HIDE DEF f, conns
  <2> QED  BY <1>3, <1>7
<1>9. \A n \in 1..Len(lines) :
          f[n] = ParseLine(f[n - 1], lines[n], ConnMap(registry))
  <2> HIDE DEF f
  <2> QED  BY <1>3, <1>7
<1> HIDE DEF f
<1> QED  BY <1>4, <1>6, <1>8, <1>9 DEF ParseStates

\* The parser of a run returns stages, whatever the text.
THEOREM ParseQueriesType ==
    ASSUME NEW lines \in Seq(Line), NEW registry,
           \A l \in DOMAIN registry : registry[l] \in Uris
    PROVE  ParseQueries(lines, registry) \in ParseResult
<1>1. PICK f : ParseStates(lines, registry, f)  BY ParseRun
<1>2. Len(lines) \in 0..Len(lines)  OBVIOUS
<1> QED  BY <1>1, <1>2 DEF ParseStates

-----------------------------------------------------------------------------
(* The stages before the cursor are stages. *)

BufferStage == [label : Labels, line : Text, at : Nat]

LEMMA BufferLineType ==
    ASSUME NEW out \in Seq(BufferStage), NEW l \in Line, NEW at \in Nat
    PROVE  BufferLine(out, l, at) \in Seq(BufferStage)
<1> DEFINE new == [label |-> l.label, line |-> l.text, at |-> at]
           text == IF Header(l) THEN <<RawHeader>> \o l.text ELSE l.text
           n == Len(out)
<1>1. l.text \in Text /\ l.label \in Labels
  BY DEF Line
<1>2. new \in BufferStage
  BY <1>1 DEF BufferStage
<1>3. Append(out, new) \in Seq(BufferStage)
  BY <1>2
<1>4. text \in Text
  <2> DEFINE W == Words \cup {Hole}
  <2>1. <<RawHeader>> \in Seq(W) /\ l.text \in Seq(W)
    BY <1>1, WordAssumption DEF Text, RawHeader
  <2> HIDE DEF W
  <2>2. <<RawHeader>> \o l.text \in Seq(W)
    BY <2>1
  <2> QED
    BY <2>1, <2>2 DEF W, Text
<1>5. ASSUME out # << >>
      PROVE  Extend(out, text) \in Seq(BufferStage)
  <2>1. n \in DOMAIN out /\ out[n] \in BufferStage
    BY <1>5
  <2>2. out[n].line \o text \in Text
    BY <1>4, <2>1 DEF BufferStage, Text
  <2>3. [out[n] EXCEPT !.line = @ \o text] \in BufferStage
    BY <2>1, <2>2 DEF BufferStage
  <2> QED
    BY <2>1, <2>3 DEF Extend
<1> HIDE DEF text, new
<1> QED
  BY <1>3, <1>5 DEF BufferLine, text, new

\* The recursion of ParseBufferStages, up to a line.
BufferUpTo(m, lines, f) ==
    f = [n \in 0..m |-> IF n = 0 THEN << >> ELSE BufferLine(f[n - 1], lines[n], n)]

LEMMA BufferDefined ==
    ASSUME NEW lines, NEW m \in Nat
    PROVE  \E f : BufferUpTo(m, lines, f)
<1> DEFINE Bad == {k \in Nat : ~ \E f : BufferUpTo(k, lines, f)}
<1> SUFFICES ASSUME Bad # {} PROVE FALSE
  OBVIOUS
<1>1. PICK k \in Bad : \A j \in Bad : k <= j
  BY LeastNumber
<1>2. CASE k = 0
  <2> DEFINE f == [n \in 0..0 |-> << >>]
  <2>1. f = [n \in 0..0 |-> IF n = 0 THEN << >>
                            ELSE BufferLine(f[n - 1], lines[n], n)]
    OBVIOUS
  <2> HIDE DEF f
  <2> QED
    BY <1>2, <2>1 DEF BufferUpTo
<1>3. CASE k # 0
  <2>1. k - 1 \in Nat /\ k - 1 \notin Bad
    BY <1>1, <1>3
  <2>2. PICK g : BufferUpTo(k - 1, lines, g)
    BY <2>1
  <2> DEFINE f == [n \in 0..k |-> IF n = k THEN BufferLine(g[k - 1], lines[k], k)
                                  ELSE g[n]]
  <2>3. \A n \in 0..(k - 1) :
          g[n] = IF n = 0 THEN << >> ELSE BufferLine(g[n - 1], lines[n], n)
    BY <2>2 DEF BufferUpTo
  <2>4. \A n \in 0..k : n # k => n \in 0..(k - 1)
    BY <2>1
  <2>5. \A n \in 0..k : n # 0 => n - 1 \in 0..k /\ n - 1 # k
    BY <2>1
  <2>6. \A n \in 0..k :
          f[n] = IF n = 0 THEN << >> ELSE BufferLine(f[n - 1], lines[n], n)
    BY <1>3, <2>3, <2>4, <2>5
  <2>7. f = [n \in 0..k |-> f[n]]
    OBVIOUS
  <2>8. f = [n \in 0..k |-> IF n = 0 THEN << >>
                            ELSE BufferLine(f[n - 1], lines[n], n)]
    <3> HIDE DEF f
    <3> QED
      BY <2>6, <2>7
  <2> HIDE DEF f
  <2> QED
    BY <2>8 DEF BufferUpTo
<1> QED
  BY <1>2, <1>3

\* The states that the parser of a completion goes through.
BufferStates(lines, f) ==
    /\ f[0] = << >>
    /\ \A n \in 1..Len(lines) : f[n] = BufferLine(f[n - 1], lines[n], n)
    /\ \A n \in 0..Len(lines) : f[n] \in Seq(BufferStage)
    /\ ParseBufferStages(lines) = f[Len(lines)]

LEMMA BufferRun ==
    ASSUME NEW lines \in Seq(Line)
    PROVE  \E f : BufferStates(lines, f)
<1> DEFINE f == CHOOSE f : BufferUpTo(Len(lines), lines, f)
           Bad == {n \in 0..Len(lines) : f[n] \notin Seq(BufferStage)}
<1>1. BufferUpTo(Len(lines), lines, f)
  BY BufferDefined
<1>2. \A n \in 0..Len(lines) :
        f[n] = IF n = 0 THEN << >> ELSE BufferLine(f[n - 1], lines[n], n)
  BY <1>1 DEF BufferUpTo
<1>3. ParseBufferStages(lines) = f[Len(lines)]
  BY DEF ParseBufferStages, BufferUpTo
<1>4. Bad = {}
  <2> SUFFICES ASSUME Bad # {} PROVE FALSE
    OBVIOUS
  <2> HIDE DEF f
  <2>1. PICK n \in Bad : \A j \in Bad : n <= j
    <3>1. Bad \subseteq Nat
      OBVIOUS
    <3> HIDE DEF Bad
    <3> QED
      BY <3>1, LeastNumber
  <2>2. n # 0
    <3>1. << >> \in Seq(BufferStage)
      OBVIOUS
    <3> QED
      BY <1>2, <2>1, <3>1
  <2>3. f[n - 1] \in Seq(BufferStage)
    BY <2>1, <2>2
  <2>4. lines[n] \in Line /\ n \in Nat
    BY <2>1, <2>2
  <2>5. f[n] \in Seq(BufferStage)
    BY <1>2, <2>1, <2>2, <2>3, <2>4, BufferLineType
  <2> QED
    BY <2>1, <2>5
<1> HIDE DEF f
<1>5. \A n \in 0..Len(lines) : f[n] \in Seq(BufferStage)
  BY <1>4
<1>6. Len(lines) \in Nat
  OBVIOUS
<1>7. f[0] = << >>
  BY <1>2, <1>6
<1>8. \A n \in 1..Len(lines) : f[n] = BufferLine(f[n - 1], lines[n], n)
  BY <1>2, <1>6
<1> QED
  BY <1>3, <1>5, <1>7, <1>8 DEF BufferStates

LEMMA BufferStagesType ==
    ASSUME NEW lines \in Seq(Line)
    PROVE  ParseBufferStages(lines) \in Seq(BufferStage)
<1>1. PICK f : BufferStates(lines, f)
  BY BufferRun
<1>2. Len(lines) \in 0..Len(lines)
  OBVIOUS
<1> QED
  BY <1>1, <1>2 DEF BufferStates

LEMMA ResolveType ==
    ASSUME NEW stages \in Seq(BufferStage), NEW conns,
           \A l \in DOMAIN conns : conns[l] \in Uris
    PROVE  Resolve(stages, conns) \in Seq(Stage)
<1>1. CASE \A i \in DOMAIN stages :
             /\ stages[i].label \in DOMAIN conns
             /\ SchemeOf[conns[stages[i].label]] # Unknown
  <2> DEFINE Stg(i) == [conn |-> conns[stages[i].label], line |-> stages[i].line]
  <2>1. \A i \in 1..Len(stages) : Stg(i) \in Stage
    <3> SUFFICES ASSUME NEW i \in 1..Len(stages)
                 PROVE  Stg(i) \in Stage
      OBVIOUS
    <3>1. i \in DOMAIN stages /\ stages[i] \in BufferStage
      OBVIOUS
    <3>2. conns[stages[i].label] \in Uris /\ stages[i].line \in Text
      BY <1>1, <3>1 DEF BufferStage
    <3> QED
      BY <3>2 DEF Stage
  <2>2. Resolve(stages, conns) = [i \in 1..Len(stages) |-> Stg(i)]
    BY <1>1 DEF Resolve
  <2> HIDE DEF Stg
  <2>3. Len(stages) \in Nat
    OBVIOUS
  <2> QED
    BY <2>1, <2>2, <2>3
<1>2. CASE ~(\A i \in DOMAIN stages :
               /\ stages[i].label \in DOMAIN conns
               /\ SchemeOf[conns[stages[i].label]] # Unknown)
  BY <1>2 DEF Resolve
<1> QED
  BY <1>1, <1>2

\* What a completion probes is a sequence of stages, wherever the cursor is.
LEMMA PriorStagesType ==
    ASSUME NEW lines \in Seq(Line), NEW cursor, NEW registry,
           \A l \in DOMAIN registry : registry[l] \in Uris
    PROVE  ExtractPriorStages(lines, cursor, registry) \in Seq(Stage)
<1> DEFINE stages == ParseBufferStages(lines)
           reached == {i \in DOMAIN stages : stages[i].at <= cursor}
           current == CHOOSE i \in reached : \A j \in reached : j <= i
<1>1. stages \in Seq(BufferStage)
  BY BufferStagesType
<1>2. \A l \in DOMAIN ConnMap(registry) : ConnMap(registry)[l] \in Uris
  BY UriAssumption DEF ConnMap
<1>3. CASE reached = {}
  BY <1>3 DEF ExtractPriorStages, BeforeLast
<1>4. CASE reached # {}
  <2>1. current \in reached
    <3> DEFINE fromEnd == {Len(stages) - i : i \in reached}
    <3>1. fromEnd \subseteq Nat /\ fromEnd # {}
      BY <1>1, <1>4
    <3>2. PICK x \in fromEnd : \A y \in fromEnd : x <= y
      <4> HIDE DEF fromEnd
      <4> QED
        BY <3>1, LeastNumber
    <3>3. PICK i \in reached : x = Len(stages) - i
      BY <3>2
    <3>4. \A j \in reached : j <= i
      <4> SUFFICES ASSUME NEW j \in reached
                   PROVE  j <= i
        OBVIOUS
      <4>1. x <= Len(stages) - j
        BY <3>2
      <4>2. Len(stages) \in Nat /\ i \in Nat /\ j \in Nat
        BY <1>1
      <4> QED
        BY <3>3, <4>1, <4>2
    <3> QED
      BY <3>3, <3>4
  <2>2. SubSeq(stages, 1, current - 1) \in Seq(BufferStage)
    <3>1. current \in 1..Len(stages)
      BY <1>1, <2>1
    <3> HIDE DEF current, stages
    <3> QED
      BY <1>1, <3>1
  <2>3. ExtractPriorStages(lines, cursor, registry)
          = Resolve(SubSeq(stages, 1, current - 1), ConnMap(registry))
    BY <1>4 DEF ExtractPriorStages, BeforeLast
  <2> HIDE DEF current, stages
  <2> QED
    BY <1>2, <2>2, <2>3, ResolveType
<1> QED
  BY <1>3, <1>4

-----------------------------------------------------------------------------
(* The two parsers agree on a text that both take. *)

\* The headers among the first n lines.
HeadersTo(lines, n) == {k \in 1..n : Header(lines[k])}
Rank(lines, n) == Cardinality(HeadersTo(lines, n))

\* Each header adds one.
LEMMA RankStep ==
    ASSUME NEW lines, NEW n \in Nat
    PROVE  /\ IsFiniteSet(HeadersTo(lines, n))
           /\ Rank(lines, n) \in Nat
           /\ Rank(lines, 0) = 0
           /\ n # 0 => Rank(lines, n) = IF Header(lines[n])
                                       THEN Rank(lines, n - 1) + 1
                                       ELSE Rank(lines, n - 1)
<1>1. ASSUME NEW k \in Nat
      PROVE  IsFiniteSet(HeadersTo(lines, k)) /\ Rank(lines, k) \in Nat
  <2>1. HeadersTo(lines, k) \in SUBSET (1..k)  BY DEF HeadersTo
  <2>2. IsFiniteSet(1..k)  BY FS_Interval
  <2>3. IsFiniteSet(HeadersTo(lines, k))  BY <2>1, <2>2, FS_Subset
  <2> QED  BY <2>3, FS_CardinalityType DEF Rank
<1>2. Rank(lines, 0) = 0
  <2>1. HeadersTo(lines, 0) = {}  BY DEF HeadersTo
  <2> QED  BY <2>1, FS_EmptySet DEF Rank
<1>3. ASSUME n # 0, Header(lines[n])
      PROVE  Rank(lines, n) = Rank(lines, n - 1) + 1
  <2>1. n - 1 \in Nat  BY <1>3
  <2>2. HeadersTo(lines, n) = HeadersTo(lines, n - 1) \cup {n}
    BY <1>3 DEF HeadersTo
  <2>3. n \notin HeadersTo(lines, n - 1)  BY DEF HeadersTo
  <2>4. IsFiniteSet(HeadersTo(lines, n - 1))  BY <1>1, <2>1
  <2> QED  BY <2>2, <2>3, <2>4, FS_AddElement DEF Rank
<1>4. ASSUME n # 0, ~Header(lines[n])
      PROVE  Rank(lines, n) = Rank(lines, n - 1)
  <2>1. HeadersTo(lines, n) = HeadersTo(lines, n - 1)
    BY <1>4 DEF HeadersTo
  <2> QED  BY <2>1 DEF Rank
<1> QED  BY <1>1, <1>2, <1>3, <1>4

\* Of two headers the lower one has the higher rank.
LEMMA RankGrows ==
    ASSUME NEW lines, NEW m \in Nat, NEW n \in Nat, m <= n
    PROVE  /\ Rank(lines, m) <= Rank(lines, n)
           /\ m < n /\ Header(lines[n]) => Rank(lines, m) < Rank(lines, n)
<1>1. ASSUME NEW k \in Nat, m <= k
      PROVE  Rank(lines, m) <= Rank(lines, k)
  <2>1. HeadersTo(lines, m) \in SUBSET HeadersTo(lines, k)
    BY <1>1 DEF HeadersTo
  <2>2. IsFiniteSet(HeadersTo(lines, k))  BY RankStep
  <2> QED  BY <2>1, <2>2, FS_Subset DEF Rank
<1>2. ASSUME m < n, Header(lines[n])
      PROVE  Rank(lines, m) < Rank(lines, n)
  <2>1. n - 1 \in Nat /\ m <= n - 1 /\ n # 0  BY <1>2
  <2>2. Rank(lines, m) <= Rank(lines, n - 1)  BY <1>1, <2>1
  <2>3. Rank(lines, n) = Rank(lines, n - 1) + 1  BY <1>2, <2>1, RankStep
  <2>4. Rank(lines, m) \in Nat /\ Rank(lines, n - 1) \in Nat  BY <2>1, RankStep
  <2> QED  BY <2>2, <2>3, <2>4
<1> QED  BY <1>1, <1>2

\* After n lines both parsers have the same stages, the stage of a header
\* being counted by the headers up to it.
Agree(lines, conns, n, parsed, out) ==
    /\ Len(out) = Rank(lines, n) /\ Len(parsed.stages) = Len(out)
    /\ \A i \in 1..Len(out) :
            /\ out[i].label \in DOMAIN conns
            /\ SchemeOf[conns[out[i].label]] # Unknown
            /\ parsed.stages[i] = [conn |-> conns[out[i].label],
                                   line |-> out[i].line]
            /\ out[i].at \in HeadersTo(lines, n)
            /\ Rank(lines, out[i].at) = i
            /\ out[i].label = lines[out[i].at].label

\* Text that continues a stage leaves its connection.
LEMMA StageExcept ==
    ASSUME NEW s \in Stage, NEW x
    PROVE  [s EXCEPT !.line = x] = [conn |-> s.conn, line |-> x]
BY DEF Stage

\* A line that a run takes keeps the two in step.
LEMMA AgreeStep ==
    ASSUME NEW lines \in Seq(Line), NEW n \in 1..Len(lines), NEW conns,
           NEW parsed \in ParseResult, NEW out \in Seq(BufferStage),
           Agree(lines, conns, n - 1, parsed, out),
           Header(lines[n]) => ~lines[n].indented,
           ParseLine(parsed, lines[n], conns).ok
    PROVE  Agree(lines, conns, n, ParseLine(parsed, lines[n], conns),
                 BufferLine(out, lines[n], n))
<1> DEFINE l == lines[n]
<1>1. /\ l \in Line /\ l.text \in Text
      /\ l.kind \in {"header", "text", "comment", "blank"}
      /\ l.kind = "blank" => l.text = << >>
  BY DEF Line
<1>2. parsed.ok  BY DEF ParseLine
<1>3. n \in Nat /\ n - 1 \in Nat /\ n # 0  OBVIOUS
<1>4. HeadersTo(lines, n - 1) \subseteq HeadersTo(lines, n)
  BY DEF HeadersTo
<1>5. parsed.stages \in Seq(Stage)  BY DEF ParseResult
<1> HIDE DEF l
<1>6. CASE l.kind = "comment"
  <2>1. ParseLine(parsed, l, conns) = parsed /\ BufferLine(out, l, n) = out
    BY <1>6 DEF ParseLine, Sanitized, BufferLine
  <2>2. Rank(lines, n) = Rank(lines, n - 1)
    BY <1>3, <1>6, RankStep DEF Header, l
  <2> QED  BY <1>4, <2>1, <2>2 DEF Agree, l
<1>7. CASE l.kind = "blank"
  <2>1. ParseLine(parsed, l, conns) = parsed
    BY <1>7 DEF ParseLine, Sanitized
  <2>2. ~Header(l) /\ ~BufferHeader(l)  BY <1>7 DEF Header, BufferHeader
  <2>3. BufferLine(out, l, n) = out
    <3>1. CASE out = << >>
      BY <1>7, <2>2, <3>1 DEF BufferLine
    <3>2. CASE out # << >>
      <4>1. BufferLine(out, l, n) = Extend(out, << >>)
        BY <1>1, <1>7, <2>2, <3>2 DEF BufferLine
      <4>2. Len(out) \in DOMAIN out /\ out[Len(out)] \in BufferStage
        BY <3>2
      <4>3. out[Len(out)].line \o << >> = out[Len(out)].line
        BY <4>2 DEF BufferStage, Text
      <4>4. [out[Len(out)] EXCEPT !.line = @ \o << >>] = out[Len(out)]
        BY <4>2, <4>3 DEF BufferStage
      <4>5. Extend(out, << >>) = out
        BY <4>2, <4>4 DEF Extend
      <4> QED  BY <4>1, <4>5
    <3> QED  BY <3>1, <3>2
  <2>4. Rank(lines, n) = Rank(lines, n - 1)
    BY <1>3, <2>2, RankStep DEF l
  <2> QED  BY <1>4, <2>1, <2>3, <2>4 DEF Agree, l
<1>8. CASE l.kind = "text"
  <2>1. ~Header(l) /\ ~BufferHeader(l) /\ Sanitized(l)
    BY <1>8 DEF Header, BufferHeader, Sanitized
  <2>2. parsed.stages # << >>
    BY <1>2, <2>1 DEF ParseLine, ParseQuery, Refused, l
  <2>3. Len(out) \in 1..Len(out) /\ out # << >>
    BY <1>5, <2>2 DEF Agree
  <2>4. BufferLine(out, l, n) = Extend(out, l.text)
    BY <1>8, <2>1, <2>3 DEF BufferLine
  <2>5. ParseLine(parsed, l, conns) = [parsed EXCEPT !.stages = Extend(@, l.text)]
    BY <1>2, <2>1, <2>2 DEF ParseLine
  <2>6. Rank(lines, n) = Rank(lines, n - 1)
    BY <1>3, <2>1, RankStep DEF l
  <2> DEFINE k == Len(out)
             out2 == Extend(out, l.text)
             run2 == Extend(parsed.stages, l.text)
  <2>7. k \in Nat /\ Len(parsed.stages) = k  BY DEF Agree
  <2>8. Len(out2) = k /\ Len(run2) = k
    BY <1>5, <2>7 DEF Extend
  <2>9. \A i \in 1..k : out2[i] = IF i = k THEN [out[k] EXCEPT !.line = @ \o l.text]
                                  ELSE out[i]
    BY <2>7 DEF Extend
  <2>10. \A i \in 1..k :
            run2[i] = IF i = k THEN [parsed.stages[k] EXCEPT !.line = @ \o l.text]
                      ELSE parsed.stages[i]
    BY <1>5, <2>7 DEF Extend
  <2>11. ASSUME NEW i \in 1..k
         PROVE  /\ out2[i].label = out[i].label /\ out2[i].at = out[i].at
                /\ run2[i] = [conn |-> conns[out2[i].label], line |-> out2[i].line]
    <3>1. out[i] \in BufferStage  OBVIOUS
    <3>2. parsed.stages[i] = [conn |-> conns[out[i].label], line |-> out[i].line]
      BY DEF Agree
    <3>3. CASE i = k
      <4>1. out2[i] = [out[i] EXCEPT !.line = @ \o l.text]  BY <2>9, <3>3
      <4>2. run2[i] = [parsed.stages[i] EXCEPT !.line = @ \o l.text]
        BY <2>10, <3>3
      <4> HIDE DEF out2, run2, k
      <4>3. /\ out2[i].label = out[i].label /\ out2[i].at = out[i].at
            /\ out2[i].line = out[i].line \o l.text
        BY <3>1, <4>1 DEF BufferStage
      <4>4. run2[i] = [conn |-> conns[out[i].label], line |-> out[i].line \o l.text]
        <5> DEFINE r == parsed.stages[i]
        <5>1. r \in Stage /\ r.conn = conns[out[i].label] /\ r.line = out[i].line
          BY <1>5, <2>7, <3>2
        <5> HIDE DEF r
        <5>2. [r EXCEPT !.line = @ \o l.text]
                = [conn |-> r.conn, line |-> r.line \o l.text]
          BY <5>1, StageExcept
        <5> QED  BY <4>2, <5>1, <5>2 DEF r
      <4> QED  BY <4>3, <4>4
    <3>4. CASE i # k
      <4>1. out2[i] = out[i] /\ run2[i] = parsed.stages[i]  BY <2>9, <2>10, <3>4
      <4> QED  BY <3>2, <4>1
    <3> QED  BY <3>3, <3>4
  <2>12. [parsed EXCEPT !.stages = Extend(@, l.text)].stages = run2
    BY DEF ParseResult
  <2> HIDE DEF out2, run2
  <2>13. ASSUME NEW i \in 1..k
         PROVE  /\ out2[i].label \in DOMAIN conns
                /\ SchemeOf[conns[out2[i].label]] # Unknown
                /\ out2[i].at \in HeadersTo(lines, n)
                /\ Rank(lines, out2[i].at) = i
                /\ out2[i].label = lines[out2[i].at].label
    <3>1. /\ out[i].label \in DOMAIN conns
          /\ SchemeOf[conns[out[i].label]] # Unknown
          /\ out[i].at \in HeadersTo(lines, n - 1)
          /\ Rank(lines, out[i].at) = i
          /\ out[i].label = lines[out[i].at].label
      BY DEF Agree
    <3>2. out2[i].label = out[i].label /\ out2[i].at = out[i].at
      BY <2>11
    <3> QED
      BY <1>4, <3>1, <3>2
  <2>14. Len(out2) = Rank(lines, n) /\ Len(run2) = Len(out2)
    BY <2>6, <2>7, <2>8 DEF Agree
  <2> HIDE DEF k
  <2>15. Agree(lines, conns, n, [parsed EXCEPT !.stages = Extend(@, l.text)], out2)
    BY <2>8, <2>11, <2>12, <2>13, <2>14 DEF Agree
  <2> QED
    BY <2>4, <2>5, <2>15 DEF l, out2
<1>9. CASE l.kind = "header"
  <2>1. Header(l) /\ BufferHeader(l) /\ Sanitized(l)
    BY <1>9 DEF Header, BufferHeader, Sanitized, l
  <2>2. ParseQuery(l, conns)
    BY <1>2, <2>1 DEF ParseLine, Refused, l
  <2> DEFINE stage == [conn |-> conns[l.label], line |-> l.text]
             new == [label |-> l.label, line |-> l.text, at |-> n]
             k == Len(out)
  <2>3. ParseLine(parsed, l, conns) = [parsed EXCEPT !.stages = Append(@, stage)]
    BY <1>2, <2>1, <2>2 DEF ParseLine
  <2>4. BufferLine(out, l, n) = Append(out, new)
    BY <1>9, <2>1 DEF BufferLine
  <2>5. Rank(lines, n) = Rank(lines, n - 1) + 1
    BY <1>3, <2>1, RankStep DEF l
  <2>6. k \in Nat /\ Len(parsed.stages) = k /\ k = Rank(lines, n - 1)
    BY DEF Agree
  <2> HIDE DEF stage, new
  <2>7. /\ Len(Append(out, new)) = k + 1 /\ Len(Append(parsed.stages, stage)) = k + 1
        /\ Append(out, new)[k + 1] = new /\ Append(parsed.stages, stage)[k + 1] = stage
        /\ \A i \in 1..k : /\ Append(out, new)[i] = out[i]
                           /\ Append(parsed.stages, stage)[i] = parsed.stages[i]
    BY <1>5, <2>6
  <2>8. n \in HeadersTo(lines, n)  BY <1>3, <2>1 DEF HeadersTo, l
  <2>9. [parsed EXCEPT !.stages = Append(@, stage)].stages
            = Append(parsed.stages, stage)
    BY DEF ParseResult
  <2> DEFINE out2 == Append(out, new)
             run2 == Append(parsed.stages, stage)
  <2>10. ASSUME NEW i \in 1..(k + 1)
         PROVE  /\ out2[i].label \in DOMAIN conns
                /\ SchemeOf[conns[out2[i].label]] # Unknown
                /\ run2[i] = [conn |-> conns[out2[i].label], line |-> out2[i].line]
                /\ out2[i].at \in HeadersTo(lines, n)
                /\ Rank(lines, out2[i].at) = i
                /\ out2[i].label = lines[out2[i].at].label
    <3>1. CASE i = k + 1
      <4>1. out2[i] = new /\ run2[i] = stage  BY <2>7, <3>1
      <4> HIDE DEF out2, run2
      <4> QED
        BY <2>2, <2>5, <2>6, <2>8, <3>1, <4>1 DEF ParseQuery, new, stage, l
    <3>2. CASE i # k + 1
      <4>1. i \in 1..k  BY <2>6, <3>2
      <4>2. out2[i] = out[i] /\ run2[i] = parsed.stages[i]  BY <2>7, <4>1
      <4> HIDE DEF out2, run2
      <4> QED  BY <1>4, <4>1, <4>2 DEF Agree
    <3> QED  BY <3>1, <3>2
  <2>11. Len(out2) = k + 1 /\ Len(run2) = k + 1  BY <2>7
  <2> HIDE DEF out2, run2, k
  <2> QED
    BY <2>3, <2>4, <2>5, <2>6, <2>9, <2>10, <2>11 DEF Agree, l, out2, run2
<1> QED  BY <1>1, <1>6, <1>7, <1>8, <1>9

\* On a text that a run takes and whose headers are not indented, a
\* completion finds the stages of the run.
LEMMA ReadersAgree ==
    ASSUME NEW lines \in Seq(Line), NEW registry,
           \A l \in DOMAIN registry : registry[l] \in Uris,
           \A n \in DOMAIN lines : Header(lines[n]) => ~lines[n].indented,
           ParseQueries(lines, registry).ok
    PROVE  Agree(lines, ConnMap(registry), Len(lines),
                 ParseQueries(lines, registry), ParseBufferStages(lines))
<1>1. PICK f : ParseStates(lines, registry, f)  BY ParseRun
<1>2. PICK g : BufferStates(lines, g)  BY BufferRun
<1> DEFINE Bad == {n \in 0..Len(lines) :
                     f[n].ok /\ ~Agree(lines, ConnMap(registry), n, f[n], g[n])}
<1>3. Len(lines) \in Nat /\ Len(lines) \in 0..Len(lines)  OBVIOUS
<1>4. Bad = {}
  <2> SUFFICES ASSUME Bad # {} PROVE FALSE  OBVIOUS
  <2>1. PICK n \in Bad : \A j \in Bad : n <= j
    <3>1. Bad \subseteq Nat  OBVIOUS
    <3> HIDE DEF Bad
    <3> QED  BY <3>1, LeastNumber
  <2>2. CASE n = 0
    <3>1. f[0] = NoStages /\ g[0] = << >>
      BY <1>1, <1>2 DEF ParseStates, BufferStates
    <3>2. Rank(lines, 0) = 0  BY RankStep
    <3>3. Agree(lines, ConnMap(registry), 0, NoStages, << >>)
      <4>1. Len(<< >>) = 0 /\ NoStages.stages = << >>
        BY DEF NoStages
      <4>2. \A i : i \notin 1..0
        OBVIOUS
      <4> QED  BY <3>2, <4>1, <4>2, Zenon DEF Agree
    <3> QED  BY <2>1, <2>2, <3>1, <3>3
  <2>3. CASE n # 0
    <3>1. n \in 1..Len(lines) /\ n - 1 \in 0..Len(lines) /\ n \in 0..Len(lines)
      BY <2>1, <2>3
    <3>2. /\ f[n] = ParseLine(f[n - 1], lines[n], ConnMap(registry))
          /\ f[n - 1] \in ParseResult
      BY <1>1, <3>1 DEF ParseStates
    <3>3. g[n] = BufferLine(g[n - 1], lines[n], n) /\ g[n - 1] \in Seq(BufferStage)
      BY <1>2, <3>1 DEF BufferStates
    <3>4. f[n].ok  BY <2>1
    <3>5. f[n - 1].ok  BY <3>2, <3>4 DEF ParseLine
    <3>6. n - 1 \notin Bad  BY <2>1, <3>1
    <3>7. Agree(lines, ConnMap(registry), n - 1, f[n - 1], g[n - 1])
      BY <3>1, <3>5, <3>6
    <3>8. Header(lines[n]) => ~lines[n].indented  BY <3>1
    <3> HIDE DEF Bad
    <3>9. Agree(lines, ConnMap(registry), n, f[n], g[n])
      BY <3>1, <3>2, <3>3, <3>4, <3>7, <3>8, AgreeStep
    <3> QED  BY <2>1, <3>9 DEF Bad
  <2> QED  BY <2>2, <2>3
<1>5. /\ ParseQueries(lines, registry) = f[Len(lines)]
      /\ ParseBufferStages(lines) = g[Len(lines)]
  BY <1>1, <1>2 DEF ParseStates, BufferStates
<1> QED  BY <1>3, <1>4, <1>5

\* The stages that a completion resolves are those that the run has before
\* the last header that is not below the cursor.
LEMMA PriorOfRun ==
    ASSUME NEW lines \in Seq(Line), NEW registry,
           \A l \in DOMAIN registry : registry[l] \in Uris,
           \A n \in DOMAIN lines : Header(lines[n]) => ~lines[n].indented,
           ParseQueries(lines, registry).ok,
           NEW cursor \in 1..Len(lines),
           NEW c, c = Rank(lines, cursor)
    PROVE  /\ Len(ExtractPriorStages(lines, cursor, registry))
                = IF c = 0 THEN 0 ELSE c - 1
           /\ c <= Len(ParseQueries(lines, registry).stages)
           /\ ExtractPriorStages(lines, cursor, registry) =
                SubSeq(ParseQueries(lines, registry).stages, 1,
                       IF c = 0 THEN 0 ELSE c - 1)
<1> DEFINE out == ParseBufferStages(lines)
           run == ParseQueries(lines, registry).stages
           conns == ConnMap(registry)
           reached == {i \in DOMAIN out : out[i].at <= cursor}
           prior == ExtractPriorStages(lines, cursor, registry)
<1>1. out \in Seq(BufferStage)  BY BufferStagesType
<1>2. run \in Seq(Stage)  BY ParseQueriesType DEF ParseResult
<1>3. /\ Len(out) = Rank(lines, Len(lines)) /\ Len(run) = Len(out)
      /\ \A i \in 1..Len(out) :
            /\ out[i].label \in DOMAIN conns
            /\ SchemeOf[conns[out[i].label]] # Unknown
            /\ run[i] = [conn |-> conns[out[i].label], line |-> out[i].line]
            /\ out[i].at \in HeadersTo(lines, Len(lines))
            /\ Rank(lines, out[i].at) = i
  BY ReadersAgree DEF Agree
<1>4. prior = BeforeLast(out, reached, registry)
  BY DEF ExtractPriorStages
<1>5. c \in Nat /\ c <= Len(out)
  <2>1. Len(lines) \in Nat /\ cursor \in Nat /\ cursor <= Len(lines)  OBVIOUS
  <2> HIDE DEF out
  <2> QED  BY <1>3, <2>1, RankStep, RankGrows
<1> HIDE DEF out, run, conns, prior
<1>6. reached = 1..c
  <2>1. ASSUME NEW i \in 1..Len(out)
        PROVE  out[i].at <= cursor <=> i <= c
    <3>1. /\ out[i].at \in Nat /\ Header(lines[out[i].at])
          /\ Rank(lines, out[i].at) = i
      BY <1>3 DEF HeadersTo
    <3>2. CASE out[i].at <= cursor
      BY <3>1, <3>2, RankGrows
    <3>3. CASE ~(out[i].at <= cursor)
      <4>1. cursor < out[i].at /\ cursor <= out[i].at  BY <3>1, <3>3
      <4>2. c < i  BY <3>1, <4>1, RankGrows
      <4> QED  BY <1>5, <3>3, <4>2
    <3> QED  BY <3>2, <3>3
  <2>2. DOMAIN out = 1..Len(out) /\ Len(out) \in Nat  BY <1>1
  <2>3. ASSUME NEW i
        PROVE  i \in reached <=> i \in 1..c
    <3>1. i \in reached <=> i \in 1..Len(out) /\ out[i].at <= cursor
      BY <2>2
    <3> HIDE DEF reached
    <3>2. i \in 1..c => i \in 1..Len(out)  BY <1>5, <2>2
    <3>3. i \in 1..Len(out) /\ i <= c => i \in 1..c  BY <1>5, <2>2
    <3> QED  BY <2>1, <3>1, <3>2, <3>3
  <2> HIDE DEF reached
  <2> QED  BY <2>3
<1>7. CASE c = 0
  <2>1. reached = {}  BY <1>6, <1>7
  <2> HIDE DEF reached
  <2>2. prior = << >>  BY <1>4, <2>1 DEF BeforeLast
  <2> QED  BY <1>2, <1>3, <1>5, <1>7, <2>2 DEF run, prior
<1>8. CASE c # 0
  <2> DEFINE current == CHOOSE i \in reached : \A j \in reached : j <= i
             first == SubSeq(out, 1, c - 1)
  <2>1. c \in reached /\ \A j \in reached : j <= c  BY <1>5, <1>6, <1>8
  <2>2. current = c
    <3> HIDE DEF reached
    <3>1. current \in reached /\ \A j \in reached : j <= current
      BY <2>1, Zenon
    <3>2. c <= current /\ current <= c  BY <2>1, <3>1
    <3>3. current \in Nat  BY <1>6, <3>1
    <3> HIDE DEF current
    <3> QED  BY <1>5, <3>2, <3>3
  <2>3. prior = Resolve(SubSeq(out, 1, current - 1), conns)
    <3>1. reached # {}  BY <2>1
    <3> HIDE DEF reached
    <3> QED  BY <1>4, <3>1, Zenon DEF BeforeLast, conns
  <2> HIDE DEF current, reached
  <2>4. prior = Resolve(first, conns)  BY <2>2, <2>3
  <2>5. /\ first \in Seq(BufferStage) /\ Len(first) = c - 1
        /\ \A i \in 1..(c - 1) : first[i] = out[i]
    BY <1>1, <1>5, <1>8
  <2>6. DOMAIN first = 1..(c - 1)  BY <2>5
  <2> HIDE DEF first
  <2>7. \A i \in 1..(c - 1) :
            /\ first[i].label \in DOMAIN conns
            /\ SchemeOf[conns[first[i].label]] # Unknown
            /\ run[i] = [conn |-> conns[first[i].label], line |-> first[i].line]
    BY <1>3, <1>5, <2>5
  <2>8. prior = [i \in 1..(c - 1) |->
                    [conn |-> conns[first[i].label], line |-> first[i].line]]
    BY <2>4, <2>6, <2>7 DEF Resolve
  <2>9. prior = [i \in 1..(c - 1) |-> run[i]]
    BY <2>7, <2>8
  <2>10. SubSeq(run, 1, c - 1) = [i \in 1..(c - 1) |-> run[i]]
    BY <1>2, <1>3, <1>5, <1>8
  <2>11. Len(prior) = c - 1
    BY <1>5, <1>8, <2>9
  <2> QED
    BY <1>3, <1>5, <1>8, <2>9, <2>10, <2>11 DEF run, prior
<1> QED  BY <1>5, <1>7, <1>8
=============================================================================
