---------------------------- MODULE MCBufferText ---------------------------
(***************************************************************************)
(* BufferText with texts of up to four lines of headers that open a stage, *)
(* stand indented, lack a query or name no connection, text that continues *)
(* a stage, a comment and a blank line, and with texts of up to three of   *)
(* these and lines of SQL and MongoDB queries.  The comment and some names *)
(* contain SQL keywords, two tables of one name have different columns,    *)
(* one collection cannot be read, and two servers fail to list what they   *)
(* have.                                                                   *)
(***************************************************************************)
EXTENDS BufferText

MCRegistry ==
    [pg |-> "postgres://", my |-> "mysql://", mg |-> "mongodb://",
     mh |-> "mongodb://half", rd |-> "redis://"]
MCLabels == DOMAIN MCRegistry \cup {"gone", "jq"}
MCUris == {MCRegistry[l] : l \in DOMAIN MCRegistry} \cup {"jq://"}
MCSchemeOf ==
    ("postgres://" :> "postgres") @@ ("mysql://" :> "mysql") @@
    ("mongodb://" :> "mongo") @@ ("mongodb://half" :> "mongo") @@
    ("redis://" :> "redis") @@ ("jq://" :> "jq")

Identifiers ==
    {"select", "map", "x", "y", "from", "users", "u", "order", "by",
     "created_by", "join", "orders", "o", "get", "delete", "fromage",
     "where", "as", "or"}
MCParts ==
    [i \in Identifiers |-> <<i>>] @@ ("u." :> <<"u", "">>) @@
    ("db." :> <<"db", "">>) @@ ("db.app." :> <<"db", "app", "">>) @@
    ("db.app.logs." :> <<"db", "app", "logs", "">>) @@
    ("mydb." :> <<"mydb", "">>)
MCDbWords == {"db", "mydb"}
MCInside ==
    ("created_by" :> {"by"}) @@ ("order" :> {"or"}) @@ ("orders" :> {"or"}) @@
    ("fromage" :> {"from"})
MCBegins == {<<"u", "users">>, <<"o", "orders">>, <<"or", "orders">>}
MCWords == DOMAIN MCParts \cup {Value, Bar, OpenBraces, FieldOpen, "}"}

Plain(kind, text) ==
    [kind |-> kind, indented |-> FALSE, label |-> "jq", text |-> text]
Opens(label, text) ==
    [kind |-> "header", indented |-> FALSE, label |-> label, text |-> text]

MCFrame == {
    Opens("pg", <<"select">>),
    Opens("jq", <<"map", "x">>),
    [Opens("pg", <<"select">>) EXCEPT !.indented = TRUE],
    Opens("pg", << >>),
    Opens("gone", <<"x">>),
    [Plain("text", <<"y", Hole>>) EXCEPT !.indented = TRUE],
    Plain("comment", <<"where">>),
    Plain("blank", << >>)}

MCLines == MCFrame \cup {
    Plain("text", <<"from", "users", "u">>),
    Plain("text", <<"join", "orders", "as", "u">>),
    Plain("text", <<"from", "users", "join", "orders", "o">>),
    Plain("text", <<"from", "users", "as">>),
    Plain("text", <<"order", "by", "created_by">>),
    Plain("text", <<"u.">>),
    Plain("text", <<OpenBraces>>),
    Plain("text", <<Bar>>),
    Plain("text", <<FieldOpen>>),
    Plain("text", <<"}">>),
    Opens("my", <<"delete", "from", "fromage">>),
    Opens("mg", <<"db.">>),
    Opens("mg", <<"mydb.">>),
    Opens("mg", <<"db.app.">>),
    Opens("mh", <<"db.app.">>),
    Plain("text", <<"db.app.logs.">>),
    Opens("rd", <<"get">>)}

Row(d, t, c) == [database |-> d, table |-> t, column |-> c]
Collection(name, whole, documents) ==
    [name |-> name, whole |-> whole, documents |-> documents]
Database(name, listed, collections) ==
    [name |-> name, listed |-> listed, collections |-> collections]

AppDatabase == Database("app", TRUE,
    <<Collection("logs", TRUE, <<{"at"}, {}, {"at", "who"}>>),
      Collection("odd", FALSE, <<{"at"}>>)>>)
LocalDatabase == Database("local", FALSE, <<Collection("oplog", TRUE, << >>)>>)
ShopDatabase(listed) == Database("shop", listed,
    <<Collection("carts", TRUE, <<{"items"}>>)>>)

MCServers ==
    ("postgres://" :>
        [up |-> TRUE,
         rows |-> <<Row("audit", "users", "at"), Row("audit", "users", "by"),
                    Row("public", "orders", "total"),
                    Row("public", "users", "id")>>]) @@
    ("mysql://" :> [up |-> FALSE, rows |-> <<Row("shop", "fromage", "age")>>]) @@
    ("mongodb://" :>
        [up |-> TRUE,
         databases |-> <<AppDatabase, LocalDatabase, ShopDatabase(TRUE)>>]) @@
    ("mongodb://half" :>
        [up |-> TRUE, databases |-> <<AppDatabase, ShopDatabase(FALSE)>>])

\* A row set, a document with an array in it, a reply that is a string.
Key(k) == [key |-> k, index |-> 0]
Element(n) == [key |-> "", index |-> n]
MCPayloads ==
    LET rows == { << >> } \cup {<<Element(n)>> : n \in 0..2} \cup
                {<<Element(0), Key("id")>>, <<Element(1), Key("name")>>,
                 <<Element(2), Key("late")>>}
        document == {<< >>, <<Key("logs")>>, <<Key("logs"), Element(0)>>,
                     <<Key("logs"), Element(0), Key("at")>>}
    IN  ("postgres://" :> rows) @@ ("mysql://" :> {<< >>}) @@
        ("mongodb://" :> document) @@ ("mongodb://half" :> rows) @@
        ("redis://" :> {<< >>}) @@ ("jq://" :> {<< >>, <<Key("sum")>>})

MCCatalog ==
    LET sql == {[kind |-> "sql_keyword", text |-> "select"],
                [kind |-> "sql_keyword", text |-> "from"]}
    IN  [postgres |-> sql, mysql |-> sql,
         mongo |-> {[kind |-> "mongo_operation", text |-> "find"],
                    [kind |-> "mongo_operator", text |-> "$match"]},
         redis |-> {[kind |-> "redis_command", text |-> "get"]},
         jq |-> {[kind |-> "jq_operator", text |-> "map"]}]
=============================================================================
