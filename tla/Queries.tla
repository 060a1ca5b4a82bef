------------------------------ MODULE Queries ------------------------------
(***************************************************************************)
(* What a stage is and how it is classified                                *)
(* (simpanan/internal/adapters, common/type*.go, common/pipe_utils.go).    *)
(*                                                                         *)
(* A query is the sequence of its words: the fields of an SQL or Redis      *)
(* query, the first of them in lower case; for MongoDB, the collection,    *)
(* the method and the arguments of db.<collection>.<method>(...), or       *)
(* "show", which is no collection, and what to show.  A {{placeholder}} is *)
(* one word, Hole.                                                         *)
(***************************************************************************)
EXTENDS Naturals, Sequences

CONSTANTS
    Labels,       \* labels of stages, "jq" among them
    Uris,         \* connection URIs, JqUri among them
    JqUri,        \* "jq://"
    SchemeOf,     \* what the scheme of a URI stands for
    Words,        \* first words and other words of queries
    Hole,         \* a word that contains a placeholder
    Dotted,       \* words with a dot in them, Hole if placeholders are paths
    MetaCommands, \* words that begin with a backslash
    Value         \* what a placeholder is replaced with in an argument

ConnTypes == {"postgres", "mysql", "mongo", "redis", "jq"}
Unknown == "unknown"    \* no connection type, or QueryType("")

ASSUME UriAssumption ==
    /\ JqUri \in Uris /\ "jq" \in Labels
    /\ SchemeOf \in [Uris -> ConnTypes \cup {Unknown}]
    /\ SchemeOf[JqUri] = "jq"
ASSUME WordAssumption ==
    /\ Value \in Words /\ Hole \notin Words
    /\ Dotted \subseteq Words \cup {Hole} /\ MetaCommands \subseteq Words

Text == Seq(Words \cup {Hole})
Stage == [conn : Uris, line : Text]
TypeOf(stage) == SchemeOf[stage.conn]

-----------------------------------------------------------------------------
PostgresWrites ==
    {"insert", "update", "delete", "create", "drop", "alter", "truncate",
     "grant", "revoke", "comment"}
ASSUME MetaAssumption == MetaCommands \cap PostgresWrites = {}

MysqlWrites ==
    {"insert", "update", "delete", "replace", "create", "drop", "alter",
     "truncate", "rename", "grant", "revoke"}

MongoCursorReads == {"find", "aggregate"}
MongoReads ==
    MongoCursorReads \cup
    {"findOne", "distinct", "count", "estimatedDocumentCount"}
MongoUpdates == {"updateOne", "updateMany"}
MongoWrites ==
    MongoUpdates \cup {"insertOne", "insertMany", "deleteOne", "deleteMany"}

RedisWrites ==
    {"set", "setex", "psetex", "setnx", "setrange", "mset", "msetnx",
     "append", "getset", "getdel", "incr", "incrby", "incrbyfloat", "decr",
     "decrby", "del", "unlink", "expire", "pexpire", "expireat", "pexpireat",
     "persist", "rename", "renamenx", "move", "copy", "restore", "hset",
     "hsetnx", "hmset", "hdel", "hincrby", "hincrbyfloat", "lpush", "rpush",
     "lpushx", "rpushx", "lpop", "rpop", "lrem", "lset", "ltrim", "linsert",
     "blpop", "brpop", "blmpop", "blmove", "rpoplpush", "lmove", "lmpop",
     "sadd", "srem", "smove", "spop", "sinterstore", "sunionstore",
     "sdiffstore", "zadd", "zrem", "zincrby", "zremrangebyrank",
     "zremrangebyscore", "zremrangebylex", "zunionstore", "zinterstore",
     "zdiffstore", "zpopmin", "zpopmax", "bzpopmin", "bzpopmax", "zmpop",
     "bzmpop", "setbit", "bitop", "xadd", "xdel", "xtrim", "xgroup",
     "xclaim", "xack", "xautoclaim", "xsetid", "pfadd", "pfmerge",
     "flushdb", "flushall", "publish", "eval", "evalsha"}

\* The first word of a query: an empty query has none.
FirstWord(line) == IF line = << >> THEN "" ELSE line[1]

\* The method is looked for behind the second dot of the raw text, so that a
\* dot in the collection, as of a path in a placeholder, hides it.
Method(line) ==
    IF Len(line) < 2 \/ line[1] \in Dotted \cup {"show"} THEN "" ELSE line[2]

QueryTypePostgres(head) ==
    CASE head \in MetaCommands -> "admin"
      [] head \in PostgresWrites -> "write"
      [] OTHER -> "read"
QueryTypeMysql(head) == IF head \in MysqlWrites THEN "write" ELSE "read"
QueryTypeMongo(line) ==
    IF FirstWord(line) = "show" \/ Method(line) \in MongoReads THEN "read"
    ELSE IF Method(line) \in MongoWrites THEN "write"
    ELSE Unknown
QueryTypeRedis(head) == IF head \in RedisWrites THEN "write" ELSE "read"

\* The class that a stage of a known type has as it is written.
QueryType(type, line) ==
    CASE type = "postgres" -> QueryTypePostgres(FirstWord(line))
      [] type = "mysql" -> QueryTypeMysql(FirstWord(line))
      [] type = "mongo" -> QueryTypeMongo(line)
      [] type = "redis" -> QueryTypeRedis(FirstWord(line))
      [] OTHER -> "read"

\* A result comes row by row, under the row limit, or all at once.
ByRows(type, line, class) ==
    \/ type \in {"postgres", "mysql"} /\ class # "write"
    \/ type = "mongo" /\ Method(line) \in MongoCursorReads

\* The meta-commands that are carried out: \dt, and \d with a table.
Supported(line) ==
    \/ FirstWord(line) = "\\dt" /\ Len(line) = 1
    \/ FirstWord(line) = "\\d" /\ Len(line) > 1

\* The handlers of MongoDB's methods index arguments that may not be there:
\* none is, if only blanks stand between the parentheses.
Arguments(method) ==
    IF method \in MongoUpdates THEN 2
    ELSE IF method = "estimatedDocumentCount" THEN 0 ELSE 1
Panics(type, line) ==
    LET method == Method(line)
    IN  /\ type = "mongo" /\ method \in MongoReads \cup MongoWrites
        /\ Len(line) < 2 + Arguments(method)

\* The words that decide on the class of a stage, as a run would send it.
Deciding(type, line) ==
    {j \in DOMAIN line : j = 1 \/ (type = "mongo" /\ j = 2)}

\* The lines PipeData may leave: placeholders are replaced from the left
\* until one of them fails, and the error goes no further than the caller.
PipeData(line) ==
    { [j \in DOMAIN line |->
        IF line[j] # Hole \/ j > upto THEN line[j]
        ELSE IF j <= 2 THEN values[j] ELSE Value]
      : upto \in 0..Len(line), values \in [{1, 2} -> Words] }
=============================================================================
