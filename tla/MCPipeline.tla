----------------------------- MODULE MCPipeline ----------------------------
(***************************************************************************)
(* Pipeline with two requests and texts of one to three stages: each kind  *)
(* of connection, reads and writes, placeholders first and elsewhere, a    *)
(* MongoDB collection with a dot, and texts that are refused.              *)
(***************************************************************************)
EXTENDS Pipeline, TLC

CONSTANTS r1, r2

MCCalls == {r1, r2}
MCLabels == {"pg", "my", "mg", "rd", "odd", "gone", "jq"}
MCUris == {"postgres://", "mysql://", "mongodb://", "redis://", "ftp://",
           "jq://"}
MCSchemeOf ==
    [u \in MCUris |-> CASE u = "postgres://" -> "postgres"
                        [] u = "mysql://" -> "mysql"
                        [] u = "mongodb://" -> "mongo"
                        [] u = "redis://" -> "redis"
                        [] u = "jq://" -> "jq"
                        [] OTHER -> Unknown]
MCMetaCommands == {"\\dt", "\\x"}
MCWords == MCMetaCommands \cup
           {"select", "delete", "find", "insertOne", "updateOne", "drop_it",
            "get", "geoadd", "x", "a.b"}
MCDotted == {Hole, "a.b"}
MCRegistries ==
    {[l \in {"pg", "my", "mg", "rd", "odd"} |->
        CASE l = "pg" -> "postgres://" [] l = "my" -> "mysql://"
          [] l = "mg" -> "mongodb://" [] l = "rd" -> "redis://"
          [] OTHER -> "ftp://"]}

On(l, t) == [kind |-> "header", indented |-> FALSE, label |-> l, text |-> t]
More(t) == [kind |-> "text", indented |-> FALSE, label |-> "jq", text |-> t]
Comment == [kind |-> "comment", indented |-> FALSE, label |-> "jq",
            text |-> << >>]

MCBuffers == {
    <<Comment>>,
    <<More(<<"x">>)>>,
    <<On("gone", <<"x">>)>>,
    <<On("odd", <<"x">>)>>,
    <<On("pg", <<"delete">>), On("jq", <<"x">>)>>,
    <<On("pg", <<"\\dt">>), On("jq", <<"x">>)>>,
    <<On("jq", <<"x">>)>>,
    <<On("pg", <<"select">>), Comment, More(<<"x">>), On("jq", <<"x">>),
      On("my", <<"delete", Hole>>)>>,
    <<On("mg", <<"x", "find", "x">>), On("pg", <<Hole, "x">>),
      On("rd", <<"get", "x">>)>>,
    <<On("rd", <<"geoadd", "x">>), On("mg", <<"x", "updateOne", "x">>)>>,
    <<On("rd", <<"get", "x">>), On("mg", <<Hole, "insertOne", "x">>),
      On("mg", <<"a.b", "insertOne", "x">>)>>,
    <<On("mg", <<"x", "drop_it", "x">>), On("jq", <<"x">>)>>,
    <<On("rd", <<"get", "x">>), On("pg", <<"\\dt">>)>>}

MCOptsOf ==
    LET limit(v) == [key |-> "max_row_limit", value |-> v]
        debug(v) == [key |-> "debug_mode", value |-> v]
    IN  {<< >>,
         <<limit(1), debug(TRUE)>>,
         <<limit(BadValue), debug(TRUE)>>,
         <<debug(FALSE), limit(20)>>}

MCSymmetry == Permutations(MCCalls)
=============================================================================
