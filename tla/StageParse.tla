---------------------------- MODULE StageParse -----------------------------
(***************************************************************************)
(* From the lines of a .simp text to stages, the two ways the code does    *)
(* it: parseQueries for a run (simpanan/internal/run_query.go) and         *)
(* parseBufferStages for a completion (autocomplete_probe.go).  A run      *)
(* trims a line before it looks for a header, a completion does not.       *)
(***************************************************************************)
EXTENDS Queries

\* A header line is "|label> text", a text line continues a stage.  Of text,
\* nothing but its words is kept; indented is TRUE of a line with blanks
\* before its first word.
Line ==
    {l \in [kind : {"header", "text", "comment", "blank"},
            indented : BOOLEAN, label : Labels, text : Text] :
        l.kind = "blank" => l.text = << >>}

Header(l) == l.kind = "header"
RawHeader == Value      \* the words "|label>" read as text

\* "jq" is a connection that every registry has.
ConnMap(registry) ==
    [l \in DOMAIN registry \cup {"jq"} |->
        IF l = "jq" THEN JqUri ELSE registry[l]]

Extend(stages, text) ==
    LET n == Len(stages)
    IN  [stages EXCEPT ![n].line = @ \o text]

-----------------------------------------------------------------------------
NoStages == [ok |-> TRUE, stages |-> << >>]
Refused == [ok |-> FALSE, stages |-> << >>]

\* Mutant: comments are kept.
KeepComments(l) == l.kind # "blank"

\* sanitizeArgs drops the other lines before they are parsed.
Sanitized(l) == l.kind \in {"header", "text"}

ParseQuery(l, conns) ==
    /\ Header(l)
    /\ l.label \in DOMAIN conns
    /\ l.text # << >>
    /\ SchemeOf[conns[l.label]] # Unknown

ParseLine(parsed, l, conns) ==
    IF ~parsed.ok \/ ~Sanitized(l) THEN parsed
    ELSE IF ~Header(l) /\ parsed.stages # << >>
    THEN [parsed EXCEPT !.stages = Extend(@, l.text)]
    ELSE IF ParseQuery(l, conns)
    THEN [parsed EXCEPT !.stages =
            Append(@, [conn |-> conns[l.label], line |-> l.text])]
    ELSE Refused

ParseQueries(lines, registry) ==
    LET parsed[n \in 0..Len(lines)] ==
            IF n = 0 THEN NoStages
            ELSE ParseLine(parsed[n - 1], lines[n], ConnMap(registry))
    IN  parsed[Len(lines)]

-----------------------------------------------------------------------------
\* A completion takes a header only at the beginning of a line; at is the
\* line the header is on.
BufferHeader(l) == Header(l) /\ ~l.indented

\* Mutant: a comment continues a stage.
BufferLineOrComment(out, l, at) ==
    IF BufferHeader(l)
    THEN Append(out, [label |-> l.label, line |-> l.text, at |-> at])
    ELSE IF out = << >> THEN out
    ELSE Extend(out, IF Header(l) THEN <<RawHeader>> \o l.text ELSE l.text)

BufferLine(out, l, at) ==
    IF l.kind = "comment" THEN out
    ELSE IF BufferHeader(l)
    THEN Append(out, [label |-> l.label, line |-> l.text, at |-> at])
    ELSE IF out = << >> THEN out
    ELSE Extend(out, IF Header(l) THEN <<RawHeader>> \o l.text ELSE l.text)

ParseBufferStages(lines) ==
    LET out[n \in 0..Len(lines)] ==
            IF n = 0 THEN << >> ELSE BufferLine(out[n - 1], lines[n], n)
    IN  out[Len(lines)]

\* Mutant: a stage goes to its label instead of its database.
ResolveNothing(stages, conns) ==
    IF \A i \in DOMAIN stages : stages[i].label \in DOMAIN conns
    THEN [i \in DOMAIN stages |->
            [conn |-> stages[i].label, line |-> stages[i].line]]
    ELSE << >>

\* Stages with their connections; none when one of them has no connection.
Resolve(stages, conns) ==
    IF \A i \in DOMAIN stages :
        /\ stages[i].label \in DOMAIN conns
        /\ SchemeOf[conns[stages[i].label]] # Unknown
    THEN [i \in DOMAIN stages |->
            [conn |-> conns[stages[i].label], line |-> stages[i].line]]
    ELSE << >>

\* The stages before the last of those that are reached.
BeforeLast(stages, reached, registry) ==
    IF reached = {} THEN << >>
    ELSE LET current == CHOOSE i \in reached : \A j \in reached : j <= i
         IN  Resolve(SubSeq(stages, 1, current - 1), ConnMap(registry))

\* Mutant: the cursor is in the stage whose header line lies above it.
PriorStagesAbove(lines, cursor, registry) ==
    LET stages == ParseBufferStages(lines)
    IN  BeforeLast(stages, {i \in DOMAIN stages : stages[i].at < cursor},
                   registry)

\* The stages before the one the cursor is in, cursor being its line.
ExtractPriorStages(lines, cursor, registry) ==
    LET stages == ParseBufferStages(lines)
    IN  BeforeLast(stages, {i \in DOMAIN stages : stages[i].at <= cursor},
                   registry)
=============================================================================
