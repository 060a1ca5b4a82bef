----------------------------- MODULE Completion -----------------------------
(***************************************************************************)
(* What a completion offers at a place of a .simp text: the classification *)
(* of that place (simpanan/internal/autocomplete_classify.go) and the      *)
(* suggestions for it (autocomplete_suggest.go, autocomplete_catalog.go),  *)
(* with the paths mined from the result of a probe (autocomplete_probe.go). *)
(*                                                                         *)
(* The classifier looks for things in the raw text before the cursor.      *)
(* Here that text is a sequence of words in lower case, with a NewLine     *)
(* between lines; what it reads off their letters is given by the          *)
(* constants Parts, Inside, DbWords and Begins.  The cursor is at the      *)
(* beginning of a line or behind the last word of it.                      *)
(***************************************************************************)
EXTENDS StageParse, Introspection

CONSTANTS
    Parts,      \* of each word that is an identifier or a dotted path, what
                \* is between its dots
    Inside,     \* of some words, the significant keywords they contain
    DbWords,    \* the names that end in "db"
    Begins,     \* pairs of names, the first a beginning of the second
    Catalog,    \* the built-in suggestions for each connection type
    Servers,    \* the database server behind each URI
    Payloads,   \* the places of the JSON value that a pipeline results in,
                \* by the URI of its last stage
    ArraySample \* elements of an array that are looked at

SqlTypes == {"postgres", "mysql"}
NewLine == "\n"

ASSUME WordsAssumption ==
    /\ NewLine \notin Words \cup {Hole} \cup DOMAIN Inside
    /\ \A w \in DOMAIN Parts : Parts[w] \in Seq(STRING)
    /\ "as" \in DOMAIN Parts /\ Parts["as"] = <<"as">>
    /\ "db" \in DbWords
ASSUME CatalogAssumption == DOMAIN Catalog = ConnTypes
ASSUME ServerAssumption ==
    LET ordered(s) == s \in Seq(ToSet(s))
    IN  /\ DOMAIN Servers = {u \in Uris : SchemeOf[u] \in SqlTypes \cup {"mongo"}}
        /\ \A u \in DOMAIN Servers :
              IF SchemeOf[u] \in SqlTypes THEN ordered(Servers[u].rows)
              ELSE /\ ordered(Servers[u].databases)
                   /\ \A d \in ToSet(Servers[u].databases) :
                        ordered(d.collections)

\* An array that has an element has those before it.
ASSUME PayloadAssumption ==
    /\ DOMAIN Payloads = Uris
    /\ \A u \in Uris : \A p \in Payloads[u] :
          /\ p \in Seq([key : STRING, index : Nat])
          /\ p # << >> => \A n \in 0..Last(p).index :
                            [p EXCEPT ![Len(p)].index = n] \in Payloads[u]
ASSUME ArrayAssumption == ArraySample \in Nat \ {0}

Slashes == "//"
Bar == "|"              \* the beginning of a header that has no ">" yet
OpenBraces == "{{"      \* of a placeholder that is not closed
FieldOpen == "$match:{"     \* any operator with the brace that opens it

\* << >> for a word that ends in anything else.
PartsOf(w) == IF w \in DOMAIN Parts THEN Parts[w] ELSE << >>

Completes(prefix, name) ==
    prefix \in {"", name} \/ <<prefix, name>> \in Begins

-----------------------------------------------------------------------------
(* The text before the cursor. *)

Before(lines, cursor) ==
    SubSeq(lines, 1, IF cursor.behind THEN cursor.line ELSE cursor.line - 1)

\* findCurrentStage: the header lines that are complete before the cursor.
HeadersBefore(lines, cursor) ==
    {n \in DOMAIN Before(lines, cursor) : BufferHeader(lines[n])}

\* The words of a line; of a header that opens a stage, those behind it.
WordsOf(l) ==
    CASE l.kind = "comment" -> <<Slashes>> \o l.text
      [] Header(l) /\ l.indented -> <<RawHeader>> \o l.text
      [] OTHER -> l.text

\* The words of lines up to the cursor, comments included.
Content(text, cursor) ==
    LET words == MapSeq(LAMBDA l : <<NewLine>> \o WordsOf(l), text)
    IN  Tail(FlattenSeq(words)) \o IF cursor.behind THEN << >> ELSE <<NewLine>>

\* From the last header to the cursor.
StageContent(lines, cursor) ==
    LET before == Before(lines, cursor)
        head   == SelectLastInSeq(before, BufferHeader)
    IN  Content(SubSeq(before, head, Len(before)), cursor)

\* The same without the ends of lines.
WithoutBreaks(content) ==
    ElementsAt(content, {i \in DOMAIN content : content[i] # NewLine})

\* wordPrefixAt: the identifier or path that is being typed.
WordPrefixAt(lines, cursor) ==
    LET words == IF cursor.behind THEN WordsOf(lines[cursor.line]) ELSE << >>
    IN  IF words = << >> THEN << >> ELSE PartsOf(Last(words))

\* splitPrefix: at the last dot.
Qualifier(prefix) == IF prefix = << >> THEN << >> ELSE Front(prefix)
ToComplete(prefix) == IF prefix = << >> THEN "" ELSE Last(prefix)

OpensHeader(lines, cursor) ==
    LET l == lines[cursor.line]
    IN  cursor.behind /\ l.kind = "text" /\ l.text # << >> /\ l.text[1] = Bar

\* The last brace is one that opens a placeholder.
InJqPlaceholder(words) ==
    LET last == SelectLastInSeq(words, LAMBDA w : w \in {OpenBraces, Hole})
    IN  last > 0 /\ words[last] = OpenBraces

-----------------------------------------------------------------------------
(* SQL. *)

TableKeywords == {"from", "join", "into", "update"}
ColumnKeywords == {"where", "on", "and", "or", "by"}
SignificantKeywords == TableKeywords \cup ColumnKeywords

\* Words that are no aliases.
SqlKeywords ==
    SignificantKeywords \cup
    {"delete", "insert", "as", "order", "group", "having", "limit", "offset",
     "inner", "outer", "left", "right", "full", "cross", "using", "select",
     "values", "set"}

Occurs(kw, w) == w = kw \/ (w \in DOMAIN Inside /\ kw \in Inside[w])

\* Mutant: a keyword within a word is a keyword.
PlaceOfLoose(kw, words) == SelectLastInSeq(words, LAMBDA w : Occurs(kw, w))

\* Where kw is found, or 0: its last occurrence counts, and only if it is a
\* word of its own.
PlaceOf(kw, words) ==
    LET n == SelectLastInSeq(words, LAMBDA w : Occurs(kw, w))
    IN  IF n > 0 /\ words[n] = kw THEN n ELSE 0

\* The same for "delete from" and "insert into" on one line; what begins
\* with "from" and follows "delete" hides an earlier phrase.
PlaceOfPhrase(first, kw, words) ==
    LET places == {n \in 2..Len(words) :
                     words[n - 1] = first /\ Occurs(kw, words[n])}
        n == Max(places \cup {0})
    IN  IF n > 0 /\ words[n] = kw THEN n ELSE 0

\* The keyword that is found last, "" if there is none.
LastSignificantSqlKeyword(words) ==
    LET place(kw) == Max({PlaceOf(kw, words),
            CASE kw = "from" -> PlaceOfPhrase("delete", kw, words)
              [] kw = "into" -> PlaceOfPhrase("insert", kw, words)
              [] OTHER -> 0})
        last == Max({place(kw) : kw \in SignificantKeywords})
    IN  IF last = 0 THEN ""
        ELSE CHOOSE kw \in SignificantKeywords : place(kw) = last

\* One match of sqlAliasRe that begins at word n: where its alias is, or 0.
\* The table is a whole word, of the alias its first part counts.
AliasPlace(words, n) ==
    LET identifier(i) == i \in DOMAIN words /\ PartsOf(words[i]) # << >>
    IN  IF /\ words[n] \in {"from", "join"}
           /\ identifier(n + 1) /\ Len(PartsOf(words[n + 1])) = 1
           /\ identifier(n + 2)
        THEN IF words[n + 2] = "as" /\ identifier(n + 3) THEN n + 3 ELSE n + 2
        ELSE 0

\* Mutant: the last of the matches that define an alias is not preferred.
ExtractFirstAliases(content) ==
    LET words == WithoutBreaks(content)
        matches == {n \in DOMAIN words : AliasPlace(words, n) > 0}
        alias(n) == PartsOf(words[AliasPlace(words, n)])[1]
        first == {n \in matches : alias(n) \notin SqlKeywords /\
                    \A m \in matches : alias(m) = alias(n) => n <= m}
    IN  [a \in {alias(n) : n \in first} |->
            words[(CHOOSE n \in first : alias(n) = a) + 1]]

\* What is found up to word n: where the next match may begin, the aliases.
AliasStep(words, found, n) ==
    LET place == AliasPlace(words, n)
        alias == PartsOf(words[place])[1]
    IN  IF n < found.next \/ place = 0 THEN found
        ELSE [next |-> place + 1,
              aliases |-> IF alias \in SqlKeywords THEN found.aliases
                          ELSE [a \in DOMAIN found.aliases \cup {alias} |->
                                   IF a = alias THEN words[n + 1]
                                   ELSE found.aliases[a]]]

\* Matches are looked for from the left, each behind the one before, and a
\* later definition of an alias replaces an earlier one.
ExtractSqlAliases(content) ==
    LET words == WithoutBreaks(content)
        found[n \in 0..Len(words)] ==
            IF n = 0 THEN [next |-> 1, aliases |-> << >>]
            ELSE AliasStep(words, found[n - 1], n)
    IN  found[Len(words)].aliases

ClassifySql(words, prefix) ==
    LET aliases == ExtractSqlAliases(words)
        keyword == LastSignificantSqlKeyword(words)
    IN  IF Len(prefix) = 2 /\ prefix[1] \in DOMAIN aliases THEN "sql_column"
        ELSE CASE keyword = "" -> "sql_keyword"
               [] keyword \in TableKeywords -> "sql_table"
               [] keyword \in ColumnKeywords -> "sql_column"

-----------------------------------------------------------------------------
(* MongoDB. *)

\* The brace of the last operator is not closed.
InsideMongoOperatorObject(words) ==
    LET open == SelectLastInSeq(words, LAMBDA w : w = FieldOpen)
        depth(n) == 1 + Cardinality({i \in (open + 1)..n : words[i] = "{"})
                      - Cardinality({i \in (open + 1)..n : words[i] = "}"})
    IN  open > 0 /\ \A n \in open..Len(words) : depth(n) > 0

\* By the path that the text ends with, blanks aside.
ClassifyMongo(content) ==
    LET words == WithoutBreaks(content)
        path  == IF words = << >> THEN << >> ELSE PartsOf(Last(words))
        db    == path # << >> /\ path[1] = "db"
        first == Len(path) = 2 /\ path[1] \in DbWords /\ path[2] = ""
    IN  CASE first -> "mongo_database"
          [] db /\ Len(path) = 3 -> "mongo_collection"
          [] db /\ Len(path) > 3 -> "mongo_operation"
          [] OTHER -> IF InsideMongoOperatorObject(words) THEN "mongo_field"
                      ELSE "unknown"

-----------------------------------------------------------------------------
NoClass == [context |-> "stage_start", label |-> "", prefix |-> << >>,
            aliases |-> << >>]

\* lookupConnTypeForLabel
TypeOfLabel(label, conns) ==
    IF label \notin DOMAIN conns THEN Unknown ELSE SchemeOf[conns[label]]

ContextIn(type, words, prefix) ==
    IF InJqPlaceholder(words) \/ type = "jq" THEN "jq_placeholder"
    ELSE CASE type \in SqlTypes -> ClassifySql(words, prefix)
           [] type = "mongo" -> ClassifyMongo(words)
           [] type = "redis" -> "redis_command"
           [] OTHER -> "unknown"

\* The branch for a cursor before the ">" of its header is never taken: the
\* text before such a cursor has no header on that line.
ClassifyContext(lines, cursor, registry) ==
    LET heads  == HeadersBefore(lines, cursor)
        prefix == WordPrefixAt(lines, cursor)
        words  == StageContent(lines, cursor)
        label  == lines[Max(heads)].label
        type   == TypeOfLabel(label, ConnMap(registry))
    IN  IF OpensHeader(lines, cursor) THEN NoClass
        ELSE IF heads = {} THEN [NoClass EXCEPT !.prefix = prefix]
        ELSE [context |-> ContextIn(type, words, prefix),
              label   |-> label,
              prefix  |-> prefix,
              aliases |-> IF type \in SqlTypes /\ ~InJqPlaceholder(words)
                          THEN ExtractSqlAliases(words) ELSE << >>]

-----------------------------------------------------------------------------
(* Suggestions: a set of [kind, text]. *)

Suggest(kind, names, prefix) ==
    {[kind |-> kind, text |-> n] : n \in {m \in names : Completes(prefix, m)}}

NamesOf(things) == {t.name : t \in ToSet(things)}

Builtin(type, kinds, prefix) ==
    {s \in Catalog[type] : s.kind \in kinds /\ Completes(prefix, s.text)}

\* Mutant: the schema is that of the first label.
SchemaOfAny(label, registry) ==
    LET l == CHOOSE m \in DOMAIN registry : registry[m] \in DOMAIN Servers
    IN  IntrospectSchema(SchemeOf[registry[l]], Servers[registry[l]])

\* EnsureSchemaCache, of a label that had no cache yet.
SchemaOf(label, registry) ==
    IF label \notin DOMAIN registry \/ registry[label] \notin DOMAIN Servers
    THEN NoSchema
    ELSE IntrospectSchema(SchemeOf[registry[label]], Servers[registry[label]])

\* Of two tables of one name the first counts.
ColumnsOf(schema, table) ==
    LET n == SelectInSeq(Tables(schema), LAMBDA t : t.name = table)
    IN  IF n = 0 THEN {} ELSE Tables(schema)[n].columns

AllColumns(schema) == UNION {t.columns : t \in ToSet(Tables(schema))}

\* Of an alias, or of every table that has one, or else of all tables.
SqlColumns(schema, aliases, qualifier) ==
    LET scope == UNION {ColumnsOf(schema, aliases[a]) : a \in DOMAIN aliases}
    IN  CASE qualifier = << >> ->
               IF scope = {} THEN AllColumns(schema) ELSE scope
          [] Len(qualifier) = 1 /\ qualifier[1] \in DOMAIN aliases ->
               ColumnsOf(schema, aliases[qualifier[1]])
          [] OTHER -> {}

\* Of the database in the qualifier db.<database>, or of all.
CollectionsOf(schema, qualifier) ==
    UNION {NamesOf(d.tables) : d \in {e \in ToSet(schema) :
                Len(qualifier) < 2 \/ e.name = qualifier[2]}}

FromSchema(class, schema) ==
    LET prefix    == ToComplete(class.prefix)
        qualifier == Qualifier(class.prefix)
    IN  CASE class.context = "sql_table" ->
               Suggest("database", NamesOf(schema), prefix) \cup
               Suggest("table", NamesOf(Tables(schema)), prefix)
          [] class.context = "sql_column" ->
               Suggest("column",
                       SqlColumns(schema, class.aliases, qualifier), prefix)
          [] class.context = "mongo_database" ->
               Suggest("database", NamesOf(schema), prefix)
          [] class.context = "mongo_collection" ->
               Suggest("mongo_collection",
                       CollectionsOf(schema, qualifier), prefix)
          [] class.context = "mongo_field" ->
               Suggest("mongo_field", AllColumns(schema), prefix)

ComputeSuggestions(class, registry) ==
    LET type   == TypeOfLabel(class.label, ConnMap(registry))
        prefix == ToComplete(class.prefix)
    IN  CASE class.context = "stage_start" ->
               Suggest("connection_label", DOMAIN registry, prefix)
          [] class.context = "sql_keyword" ->
               Builtin(type, {"sql_keyword"}, prefix)
          [] class.context = "mongo_operation" ->
               Builtin("mongo", {"mongo_operation", "mongo_operator"}, prefix)
          [] class.context = "redis_command" ->
               Builtin("redis", {"redis_command"}, prefix)
          [] class.context = "jq_placeholder" ->
               Builtin("jq", {"jq_operator"}, prefix)
          [] class.context = "unknown" -> {}
          [] OTHER -> FromSchema(class, SchemaOf(class.label, registry))

-----------------------------------------------------------------------------
(* Paths.  A place in a JSON value is the sequence of steps to it, each a   *)
(* [key, index]: the key of a member, or "" and the index of an element.   *)

\* Elements of an array are not told apart.
JqPath(place) ==
    [i \in DOMAIN place |->
        IF place[i].key = "" THEN "[]" ELSE place[i].key]

\* extractJqPaths, walkJqPaths: not the root itself, and of an array no more
\* than a few elements.
ExtractJqPaths(places) ==
    {JqPath(p) : p \in {q \in places :
        q # << >> /\ \A i \in DOMAIN q : q[i].index < ArraySample}}

\* jqPrefixInPlaceholder: what is typed behind the last braces, of any stage,
\* must begin a path; with a blank before it, it begins none.
NothingTypedInPlaceholder(words) ==
    LET last == SelectLastInSeq(words, LAMBDA w : w \in {OpenBraces, Hole})
    IN  last = 0 \/ words[last] = Hole \/ last = Len(words)

\* Mutant: only the first of the stages is run.
PlacesOfFirst(priors) ==
    IF priors = << >> THEN {} ELSE Payloads[Head(priors).conn]

\* The result of the stages before the one the cursor is in is that of the
\* last of them.
ProbedPlaces(priors) ==
    IF priors = << >> THEN {} ELSE Payloads[Last(priors).conn]

\* augmentWithJqPaths, of a probe that succeeds.
JqPathsFor(class, lines, cursor, registry) ==
    IF /\ class.context = "jq_placeholder"
       /\ NothingTypedInPlaceholder(Content(Before(lines, cursor), cursor))
    THEN ExtractJqPaths(ProbedPlaces(
            ExtractPriorStages(lines, cursor.line, registry)))
    ELSE {}
=============================================================================
