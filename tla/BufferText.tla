----------------------------- MODULE BufferText ----------------------------
(***************************************************************************)
(* A .simp text under an editor, and what its readers make of it: the run  *)
(* of the whole text, the completion at the cursor and the stages that it  *)
(* probes.                                                                 *)
(***************************************************************************)
EXTENDS Completion

CONSTANTS
    Lines,      \* the lines that may be typed
    Frame,      \* those of them that longer texts are made of
    Registry,   \* the connections
    MaxLines,   \* bound: lines of a text of Frame
    FewLines    \* bound: lines of any other text

ASSUME LineAssumption == Lines \subseteq Line /\ Frame \subseteq Lines
ASSUME RegistryAssumption == Registry \in [DOMAIN Registry -> Uris]
ASSUME MaxAssumption == MaxLines \in Nat /\ FewLines \in 1..MaxLines

VARIABLES
    lines,      \* the text
    cursor      \* the line of the cursor and whether it is before its text
                \* or behind it

vars == <<lines, cursor>>

Cursor == [line : 1..MaxLines, behind : BOOLEAN]

Room(text) ==
    Len(text) <= IF ToSet(text) \subseteq Frame THEN MaxLines ELSE FewLines

Init ==
    /\ lines \in {<<l>> : l \in Lines}
    /\ cursor = [line |-> 1, behind |-> TRUE]

\* The editor.
Type(l) ==
    /\ \E n \in 0..Len(lines) :
        /\ lines' = InsertAt(lines, n + 1, l)
        /\ cursor' = [line |-> n + 1, behind |-> TRUE]
    /\ Room(lines')

Erase ==
    /\ Len(lines) > 1
    /\ lines' = RemoveAt(lines, cursor.line)
    /\ cursor' = [line |-> 1, behind |-> FALSE]

Move ==
    /\ \E n \in DOMAIN lines, b \in BOOLEAN :
            cursor' = [line |-> n, behind |-> b]
    /\ UNCHANGED lines

Next == (\E l \in Lines : Type(l)) \/ Erase \/ Move

Spec == Init /\ [][Next]_vars

-----------------------------------------------------------------------------
(* What the readers make of it. *)

Run == ParseQueries(lines, Registry)

\* The stages that are probed, as extractPriorStages finds them.
Prior == ExtractPriorStages(lines, cursor.line, Registry)

Class == ClassifyContext(lines, cursor, Registry)

Offers == ComputeSuggestions(Class, Registry)

PathOffers == JqPathsFor(Class, lines, cursor, Registry)

StageIndex ==       \* the code counts from 0
    Cardinality(HeadersBefore(lines, cursor))

\* The headers are where a completion looks for them.
Aligned(text) == \A n \in DOMAIN text : Header(text[n]) => ~text[n].indented

\* A text that all readers take.
Regular == Run.ok /\ Aligned(lines)

\* The cursor is at the first character of a header line.
OnBrink == ~cursor.behind /\ BufferHeader(lines[cursor.line])

-----------------------------------------------------------------------------
TypeOK ==
    /\ lines \in Seq(Lines) /\ Room(lines) /\ lines # << >>
    /\ cursor \in Cursor /\ cursor.line <= Len(lines)
    /\ Run.stages \in Seq(Stage)
    /\ Prior \in Seq(Stage)

\* A stage is its header's text and all text up to the next header, whatever
\* comments and blank lines stand between, and the text is refused exactly
\* when something precedes the first header or a header names no connection
\* or no query (parseQueries, sanitizeArgs).
StagesAreSegments ==
    LET heads == {n \in DOMAIN lines : Header(lines[n])}
        next(h) == Min({n \in heads \cup {Len(lines) + 1} : n > h})
        texts(h) ==
            [n \in 1..(next(h) - h) |->
                LET l == lines[h + n - 1]
                IN  IF l.kind \in {"header", "text"} THEN l.text ELSE << >>]
    IN  /\ Run.ok <=> /\ \A n \in DOMAIN lines : lines[n].kind = "text" =>
                            \E h \in heads : h < n
                      /\ \A h \in heads :
                            ParseQuery(lines[h], ConnMap(Registry))
        /\ Run.ok =>
            /\ Len(Run.stages) = Cardinality(heads)
            /\ \A h \in heads :
                    Run.stages[Cardinality({g \in heads : g <= h})] =
                        [conn |-> ConnMap(Registry)[lines[h].label],
                         line |-> FlattenSeq(texts(h))]

\* What a completion probes is what a run would have run before the stage of
\* the cursor, word for word (extractPriorStages, parseBufferStages against
\* parseQueries).
ProbesWhatARunWouldRun ==
    Regular => /\ Len(Prior) <= Len(Run.stages)
               /\ Prior = SubSeq(Run.stages, 1, Len(Prior))

\* The probe stops before the stage that the classifier has found the cursor
\* in, unless the cursor is on the brink of a header (findCurrentStage,
\* extractPriorStages).
ProbeStopsBeforeCursor ==
    (Regular /\ ~OnBrink /\ StageIndex > 0) => Len(Prior) = StageIndex - 1

-----------------------------------------------------------------------------
(* Of an SQL stage the classifier sees the raw text.  What a run would send *)
(* of it, were the text to end at the cursor, is the measure.              *)

SoFar == ParseQueries(Before(lines, cursor), Registry)
Sent  == Last(SoFar.stages).line

\* The cursor is behind text of an SQL stage that has no comment or
\* placeholder in it.
InPlainSql ==
    LET text == Before(lines, cursor)
    IN  /\ SoFar.ok /\ SoFar.stages # << >> /\ Aligned(text)
        /\ TypeOf(Last(SoFar.stages)) \in SqlTypes
        /\ \A n \in Max(HeadersBefore(lines, cursor))..Len(text) :
                text[n].kind # "comment"
        /\ ToSet(Sent) \cap {Hole, OpenBraces} = {}
        /\ ~OpensHeader(lines, cursor)

SqlContext(kw) ==
    CASE kw \in TableKeywords  -> "sql_table"
      [] kw \in ColumnKeywords -> "sql_column"
      [] OTHER -> "sql_keyword"

\* The last keyword of the words, "" if there is none, and whether a later
\* word contains it.
LastKeyword(words) ==
    LET n == SelectLastInSeq(words, LAMBDA w : w \in SignificantKeywords)
    IN  IF n = 0 THEN "" ELSE words[n]

Hidden(kw, words) ==
    LET n == SelectLastInSeq(words, LAMBDA w : w = kw)
    IN  \E m \in (n + 1)..Len(words) : Occurs(kw, words[m])

Qualified == Len(Class.prefix) > 1

\* What is offered in an SQL stage is decided by the last keyword that a run
\* would send before the cursor, on whichever line it is and whatever names
\* of tables or columns contain other keywords; unless one of them contains
\* that keyword (classifySql, lastSignificantSqlKeyword).
ContextIsOfTheLastKeyword ==
    (InPlainSql /\ ~Qualified /\ ~Hidden(LastKeyword(Sent), Sent))
        => Class.context = SqlContext(LastKeyword(Sent))

\* An alias that a run would send before the cursor is known to the
\* completion, with the table of its last definition; unless that stands so
\* close behind another that it may be part of it (extractSqlAliases).
AliasesAreKept ==
    LET from(n)  == Sent[n] \in {"from", "join"}
        place(n) == IF Sent[n + 2] = "as" THEN n + 3 ELSE n + 2
        alias(n) == PartsOf(Sent[place(n)])[1]
        definitions ==
            {n \in 1..(Len(Sent) - 2) :
                /\ from(n) /\ Len(PartsOf(Sent[n + 1])) = 1
                /\ place(n) \in DOMAIN Sent /\ PartsOf(Sent[place(n)]) # << >>
                /\ alias(n) \notin SqlKeywords}
        clear(n) == \A m \in (n - 3)..(n - 1) \cap DOMAIN Sent : ~from(m)
    IN  InPlainSql =>
            \A n \in definitions :
                (/\ clear(n)
                 /\ \A m \in definitions : m > n => alias(m) # alias(n)) =>
                    /\ alias(n) \in DOMAIN Class.aliases
                    /\ Class.aliases[alias(n)] = Sent[n + 1]

-----------------------------------------------------------------------------
(* What is offered, against what is there. *)

\* All suggestions that name something on the server behind a URI.
Served(uri) ==
    LET server == Servers[uri]
        named(kind, names) == {[kind |-> kind, text |-> n] : n \in names}
        colls == UNION {ToSet(d.collections) : d \in ToSet(server.databases)}
    IN  CASE SchemeOf[uri] \in SqlTypes ->
               LET rows == ToSet(server.rows)
               IN  named("database", {r.database : r \in rows}) \cup
                   named("table", {r.table : r \in rows}) \cup
                   named("column", {r.column : r \in rows})
          [] SchemeOf[uri] = "mongo" ->
               named("database", NamesOf(server.databases)) \cup
               named("mongo_collection", {c.name : c \in colls}) \cup
               named("mongo_field",
                     UNION {UNION ToSet(c.documents) : c \in colls})
          [] OTHER -> {}

\* A placeholder has been opened in the stage of the cursor.
OpenedInStage ==
    LET text == Before(lines, cursor)
    IN  \E n \in Max(HeadersBefore(lines, cursor))..Len(text) :
            OpenBraces \in ToSet(text[n].text)

\* A placeholder in the first stage, where no run substitutes anything (execute):
\* the classifier takes it for one all the same, although by its comment (at
\* classifyByConnLabel) only "a {{ in any non-first stage opens a jq context".
FirstPlaceholder == StageIndex = 1 /\ OpenedInStage

\* What is offered inside a stage is built in for the type of the connection
\* that a run would send the stage to, or exists on its server, or is a jq
\* operator, and this only where a placeholder has been opened in that stage
\* and a stage precedes it; a first stage with a placeholder is left out.  Of
\* the server's names any may be offered: that the fields are not just those
\* "of the collection the cursor is inside", as specs/simpanan.allium has it
\* (suggestMongoFields takes all), is no business of this property
\* (ComputeSuggestions, EnsureSchemaCache, findCurrentStage against
\* parseQueries).
OffersAreOfTheStage ==
    (/\ Regular /\ StageIndex > 0 /\ ~OpensHeader(lines, cursor)
     /\ ~FirstPlaceholder) =>
        LET conn == Run.stages[StageIndex].conn
        IN  Offers \subseteq
                Served(conn) \cup Catalog[SchemeOf[conn]] \cup
                (IF OpenedInStage THEN Catalog["jq"] ELSE {})

\* The columns that are offered behind an alias are all columns of one table
\* of that name, in one database, although others may have tables of the
\* same name (buildSqlDatabases, suggestSqlColumns).
ColumnsAreOfOneTable ==
    LET q    == Qualifier(Class.prefix)
        uri  == Last(SoFar.stages).conn
        rows == ToSet(Servers[uri].rows)
    IN  (/\ InPlainSql /\ Servers[uri].up
         /\ Len(Class.prefix) = 2 /\ ToComplete(Class.prefix) = ""
         /\ q[1] \in DOMAIN Class.aliases) =>
        LET table == {r \in rows : r.table = Class.aliases[q[1]]}
            columns(d) == {r.column : r \in {s \in table : s.database = d}}
        IN  {o.text : o \in Offers} \in
                IF table = {} THEN {{}}
                ELSE {columns(r.database) : r \in table}

\* A placeholder is opened somewhere in the text.
Opened == \E n \in DOMAIN lines : OpenBraces \in ToSet(lines[n].text)

\* In a placeholder or a jq stage the paths that are offered lead somewhere
\* in the result of the stage before, as a run would have it, and no member at
\* the top of it, or of the first element at its top, is left out; in a first
\* stage there are none (augmentWithJqPaths, walkJqPaths).
PathsAreOfTheStageBefore ==
    LET typed  == lines[cursor.line].text
        fresh  == \/ ~Opened
                  \/ cursor.behind /\ typed # << >> /\ Last(typed) = OpenBraces
        result == Payloads[Run.stages[StageIndex - 1].conn]
        top(p) == \/ Len(p) = 1 /\ p[1].index = 0
                  \/ Len(p) = 2 /\ p[1].key = "" /\ p[1].index = 0
    IN  (Regular /\ ~OnBrink /\ fresh /\ Class.context = "jq_placeholder") =>
            IF StageIndex = 1 THEN PathOffers = {}
            ELSE /\ PathOffers \subseteq {JqPath(p) : p \in result}
                 /\ \A p \in result : top(p) => JqPath(p) \in PathOffers

\* Behind "db.<database>." every collection of that database is offered, and
\* none of another, however much of them could be read; unless the listing
\* of some database failed (introspectMongo, suggestMongoCollections).
EveryCollectionIsOffered ==
    LET path   == Class.prefix
        server == Servers[Registry[Class.label]]
    IN  (/\ Class.context = "mongo_collection"
         /\ Len(path) = 3 /\ ToComplete(path) = "") =>
        {o.text : o \in Offers} =
            IF server.up /\ \A d \in ToSet(server.databases) :
                                d.listed \/ d.name \in SystemMongoDatabases
            THEN UNION {NamesOf(d.collections) :
                          d \in {e \in ToSet(server.databases) :
                                    /\ e.name = path[2]
                                    /\ e.name \notin SystemMongoDatabases}}
            ELSE {}
=============================================================================
