--------------------------- MODULE Introspection ---------------------------
(***************************************************************************)
(* What a schema cache holds of a database                                 *)
(* (simpanan/internal/schema_cache.go).                                    *)
(*                                                                         *)
(* A database server is what it answers: an SQL server the rows of         *)
(* information_schema.columns in their order, a MongoDB server its         *)
(* databases with their collections and the documents of each.  A schema   *)
(* is the sequence of its databases, each with its tables or collections   *)
(* in order; the order of columns and fields is left out, for suggestions  *)
(* are sorted.                                                             *)
(***************************************************************************)
EXTENDS Naturals, Sequences, SequencesExt

CONSTANT SampleSize     \* documents sampled of a collection

ASSUME SampleAssumption == SampleSize \in Nat

\* No cache at all; nothing is offered of it, as of a cache of no databases.
NoSchema == << >>

SystemMongoDatabases == {"admin", "local", "config"}

\* The elements of s at the places, in their order.
ElementsAt(s, places) ==
    FlattenSeq([i \in DOMAIN s |->
                   IF i \in places THEN <<s[i]>> ELSE << >>])

MapSeq(Op(_), s) == [i \in DOMAIN s |-> Op(s[i])]

-----------------------------------------------------------------------------
(* SQL: a server is [up, rows], a row [database, table, column]. *)

\* Mutant: tables are told apart by their names only.
BuildSqlByTable(rows) ==
    LET of(d) == {i \in DOMAIN rows : rows[i].database = d}
        like(q) == {i \in DOMAIN rows : rows[i].table = q.table}
        table(q) ==
            [name |-> q.table, columns |-> {rows[i].column : i \in like(q)}]
        database(q) ==
            [name |-> q.database,
             tables |-> MapSeq(table, ElementsAt(rows,
                {i \in of(q.database) : \A j \in like(rows[i]) : i <= j}))]
    IN  MapSeq(database, ElementsAt(rows,
            {i \in DOMAIN rows : \A j \in of(rows[i].database) : i <= j}))

\* Rows grouped by database and table, each in the order it is first seen.
BuildSqlDatabases(rows) ==
    LET of(d) == {i \in DOMAIN rows : rows[i].database = d}
        like(q) == {i \in of(q.database) : rows[i].table = q.table}
        table(q) ==
            [name |-> q.table, columns |-> {rows[i].column : i \in like(q)}]
        database(q) ==
            [name |-> q.database,
             tables |-> MapSeq(table, ElementsAt(rows,
                {i \in of(q.database) : \A j \in like(rows[i]) : i <= j}))]
    IN  MapSeq(database, ElementsAt(rows,
            {i \in DOMAIN rows : \A j \in of(rows[i].database) : i <= j}))

\* All rows, or none when any of them fails to arrive.
ScanInformationSchema(server) ==
    IF server.up THEN BuildSqlDatabases(server.rows) ELSE NoSchema

-----------------------------------------------------------------------------
(* MongoDB: a server is [up, databases], a database [name, listed,         *)
(* collections], a collection [name, whole, documents] where whole is      *)
(* FALSE if reading it fails; a document is the set of its fields, {} if   *)
(* it cannot be decoded.                                                   *)

SampleMongoFields(c) ==
    UNION {c.documents[i] : i \in {j \in DOMAIN c.documents : j <= SampleSize}}

\* A collection that cannot be sampled is kept without fields.
MongoCollection(c) ==
    [name |-> c.name, columns |-> IF c.whole THEN SampleMongoFields(c) ELSE {}]

\* Mutant: a collection that cannot be sampled is skipped.
WholeCollections(d) ==
    MapSeq(MongoCollection, ElementsAt(d.collections,
        {i \in DOMAIN d.collections : d.collections[i].whole}))

MongoCollections(d) == MapSeq(MongoCollection, d.collections)

\* One database that cannot be listed fails the whole introspection.
IntrospectMongo(server) ==
    LET all   == server.databases
        users == ElementsAt(all, {i \in DOMAIN all :
                                    all[i].name \notin SystemMongoDatabases})
    IN  IF server.up /\ \A d \in ToSet(users) : d.listed
        THEN MapSeq(LAMBDA d : [name |-> d.name,
                                tables |-> MongoCollections(d)], users)
        ELSE NoSchema

-----------------------------------------------------------------------------
IntrospectSchema(type, server) ==
    CASE type \in {"postgres", "mysql"} -> ScanInformationSchema(server)
      [] type = "mongo" -> IntrospectMongo(server)
      [] OTHER -> NoSchema

\* The tables or collections of a schema, database by database.
Tables(schema) == FlattenSeq(MapSeq(LAMBDA d : d.tables, schema))
=============================================================================
