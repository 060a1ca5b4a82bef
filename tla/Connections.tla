---------------------------- MODULE Connections ----------------------------
(***************************************************************************)
(* The connection registry and the schema caches                           *)
(* (simpanan/internal/{add,delete,get}_connection*.go, schema_cache_*.go,  *)
(* refresh_schemas.go): files shared, without any lock, by every Neovim    *)
(* plugin process and every request of the web UI server.                  *)
(*                                                                         *)
(* A client runs one call at a time and a call is a sequence of steps, one *)
(* per file or database access.  The registry is rewritten in place, so a  *)
(* reader or a second writer can meet it empty; a schema cache is replaced *)
(* by a rename.  Time is a clock that ticks.                               *)
(***************************************************************************)
EXTENDS Naturals, Sequences, FiniteSets

CONSTANTS
    Clients,          \* goroutines and processes that make calls
    Mortal,           \* those whose calls may be cut short
    Labels,           \* connection labels that AddConnection accepts
    Uris,             \* connection URIs of a known scheme
    RedisUris,        \* those of Redis, which has no schema
    RefreshInterval,  \* AutocompleteConfig().SchemaRefreshInterval
    MaxTime,          \* bound: the last tick of the clock
    Garbage,          \* the registry is not JSON
    NoCache,          \* there is no cache file, or no cache in memory
    NoLabel, NoUri

ASSUME ClientAssumption == Mortal \subseteq Clients
ASSUME UriAssumption == RedisUris \subseteq Uris
ASSUME IntervalAssumption == RefreshInterval \in Nat \ {0} /\ MaxTime \in Nat

VARIABLES
    registry,   \* simpanan_connections.json: a list of [label, uri]
    caches,     \* the schema cache file of each label
    clock,
    call,       \* the call each client is in, its place and its locals
    expected,   \* ghost: the connections added and not deleted since
    torn,       \* ghost: two writers of the registry have overlapped, or one
                \* was cut short
    crossed     \* ghost: labels two calls were on at once, or one that was
                \* cut short

vars == <<registry, caches, clock, call, expected, torn, crossed>>

Connection == [label : Labels, uri : Uris]

\* old (ghost): introspected before a refresh of the label was requested.
Cache == [uri : Uris, populatedAt : 0..MaxTime, old : BOOLEAN]

\* What stands for a missing or unreadable value is not a value.
ASSUME AbsenceAssumption ==
    /\ NoLabel \notin Labels /\ NoUri \notin Uris
    /\ NoCache \notin Cache /\ Garbage \notin Seq(Connection)

Idle == [pc |-> "idle", label |-> NoLabel, uri |-> NoUri, list |-> << >>,
         cache |-> NoCache, old |-> FALSE, todo |-> {}]

Pc == {"idle", "add_open", "add_fill", "delete_open", "delete_fill",
       "drop", "load", "introspect", "save", "sweep"}

TypeOK ==
    /\ registry = Garbage \/ registry \in Seq(Connection)
    /\ caches \in [Labels -> Cache \cup {NoCache}]
    /\ clock \in 0..MaxTime
    /\ call \in [Clients ->
                   [pc : Pc, label : Labels \cup {NoLabel},
                    uri : Uris \cup {NoUri}, list : Seq(Connection),
                    cache : Cache \cup {NoCache}, old : BOOLEAN,
                    todo : SUBSET Labels]]
    /\ \A c \in Clients : call[c].pc = "save" => call[c].cache # NoCache
    /\ expected \subseteq Connection
    /\ torn \in BOOLEAN
    /\ crossed \subseteq Labels

Init ==
    /\ registry = << >>
    /\ caches = [l \in Labels |-> NoCache]
    /\ clock = 0
    /\ call = [c \in Clients |-> Idle]
    /\ expected = {}
    /\ torn = FALSE
    /\ crossed = {}

-----------------------------------------------------------------------------
Entries(list) == {list[i] : i \in DOMAIN list}
LabelsIn(entries) == {e.label : e \in entries}
LabelsOf(list) == LabelsIn(Entries(list))
\* The loop of DeleteConnection keeps the other entries in their order.
Without(list, l) ==
    LET kept[n \in 0..Len(list)] ==
            IF n = 0 THEN << >>
            ELSE IF list[n].label = l THEN kept[n - 1]
            ELSE Append(kept[n - 1], list[n])
    IN  kept[Len(list)]
UriOf(list, l) == (CHOOSE e \in Entries(list) : e.label = l).uri

Eligible(uri) == uri \notin RedisUris

Quiet == \A c \in Clients : call[c].pc = "idle"

Writes(k) == k.pc \in {"add_open", "add_fill", "delete_open", "delete_fill"}
Touches(k, l) == k.label = l \/ l \in k.todo
Busy(l) == \E c \in Clients : Touches(call[c], l)
Written == \E c \in Clients : Writes(call[c])

\* A call begins: the client is idle.
Begin(c, next) ==
    /\ call[c].pc = "idle"
    /\ call' = [call EXCEPT ![c] = next]
    /\ torn' = (torn \/ (Writes(next) /\ Written))
    /\ crossed' = crossed \cup {l \in Labels : Touches(next, l) /\ Busy(l)}

\* A call moves on.
Continue(c, next) ==
    /\ call' = [call EXCEPT ![c] = next]
    /\ UNCHANGED <<torn, crossed>>

At(c, pc) == call[c].pc = pc

-----------------------------------------------------------------------------
(* The registry. *)

\* Mutant: the duplicate check is left to the reader of the list.
AddUnchecked(c, l, u) ==
    /\ registry # Garbage
    /\ Begin(c, [Idle EXCEPT !.pc = "add_open", !.label = l, !.uri = u,
                   !.list = Append(registry, [label |-> l, uri |-> u])])
    /\ UNCHANGED <<registry, caches, clock, expected>>

\* AddConnection, up to the write: the list is read, the label is new.
Add(c, l, u) ==
    /\ registry # Garbage
    /\ l \notin LabelsOf(registry)
    /\ Begin(c, [Idle EXCEPT !.pc = "add_open", !.label = l, !.uri = u,
                   !.list = Append(registry, [label |-> l, uri |-> u])])
    /\ UNCHANGED <<registry, caches, clock, expected>>

\* Mutant: the entry is looked for by its URI.
RemoveByUri(c, l) ==
    /\ registry # Garbage
    /\ l \in LabelsOf(registry)
    /\ LET Other(e) == e.uri # UriOf(registry, l)
       IN  Begin(c, [Idle EXCEPT !.pc = "delete_open", !.label = l,
                       !.list = SelectSeq(registry, Other)])
    /\ UNCHANGED <<registry, caches, clock, expected>>

\* DeleteConnection, up to the write.
Remove(c, l) ==
    /\ registry # Garbage
    /\ l \in LabelsOf(registry)
    /\ Begin(c, [Idle EXCEPT !.pc = "delete_open", !.label = l,
                   !.list = Without(registry, l)])
    /\ UNCHANGED <<registry, caches, clock, expected>>

\* os.WriteFile opens the file and truncates it.
Truncate(c) ==
    /\ call[c].pc \in {"add_open", "delete_open"}
    /\ registry' = << >>
    /\ Continue(c, [call[c] EXCEPT !.pc = IF @ = "add_open" THEN "add_fill"
                                          ELSE "delete_fill"])
    /\ UNCHANGED <<caches, clock, expected>>

\* A write at offset 0 over what another writer has left since our open:
\* the longer text wins, or leaves its tail behind.
Overlay(list) ==
    IF registry \in {<< >>, list} THEN {list} ELSE {list, Garbage}

\* The list is written.  Adding goes on to warm the cache of a connection
\* that has a schema, deleting to drop it.
Fill(c) ==
    LET k == call[c]
        Same(e) == e.label = k.label IN
    /\ k.pc \in {"add_fill", "delete_fill"}
    /\ registry' \in Overlay(k.list)
    /\ \/ /\ k.pc = "add_fill"
          /\ expected' = {e \in expected : ~Same(e)}
                         \cup {[label |-> k.label, uri |-> k.uri]}
          /\ Continue(c, IF Eligible(k.uri)
                         THEN [k EXCEPT !.pc = "introspect", !.list = << >>]
                         ELSE Idle)
       \/ /\ k.pc = "delete_fill"
          /\ expected' = {e \in expected : ~Same(e)}
          /\ Continue(c, [k EXCEPT !.pc = "drop", !.list = << >>])
    /\ UNCHANGED <<caches, clock>>

\* Mutant: the cache is left to the next refresh.
DropLater(c) ==
    /\ At(c, "drop")
    /\ Continue(c, Idle)
    /\ UNCHANGED <<registry, caches, clock, expected>>

\* DeleteSchemaCacheFile at the end of DeleteConnection.
Drop(c) ==
    /\ At(c, "drop")
    /\ caches' = [caches EXCEPT ![call[c].label] = NoCache]
    /\ Continue(c, Idle)
    /\ UNCHANGED <<registry, clock, expected>>

-----------------------------------------------------------------------------
(* The schema caches. *)

IsStale(cache) ==
    cache = NoCache \/ clock - cache.populatedAt >= RefreshInterval

\* EnsureSchemaCache looks the label up; one that is not registered or has
\* no schema ends the call at once.
Ensure(c, l) ==
    /\ registry # Garbage
    /\ l \in LabelsOf(registry)
    /\ Eligible(UriOf(registry, l))
    /\ Begin(c, [Idle EXCEPT !.pc = "load", !.label = l,
                   !.uri = UriOf(registry, l)])
    /\ UNCHANGED <<registry, caches, clock, expected>>

\* The cache file is read; a fresh one is returned as it is.
Load(c) ==
    LET cache == caches[call[c].label] IN
    /\ At(c, "load")
    /\ Continue(c, IF IsStale(cache)
                   THEN [call[c] EXCEPT !.pc = "introspect", !.cache = cache]
                   ELSE Idle)
    /\ UNCHANGED <<registry, caches, clock, expected>>

\* Introspection succeeds: the cache is stamped and will be saved.
IntrospectOk(c) ==
    /\ At(c, "introspect")
    /\ Continue(c, [call[c] EXCEPT
          !.pc = "save", !.uri = NoUri, !.old = FALSE,
          !.cache = [uri |-> call[c].uri, populatedAt |-> clock,
                     old |-> call[c].old]])
    /\ UNCHANGED <<registry, caches, clock, expected>>

\* Mutant: the attempt is stamped on the wrong field.
IntrospectFailsRestamp(c) ==
    /\ At(c, "introspect")
    /\ Continue(c, IF call[c].cache = NoCache THEN Idle
                   ELSE [call[c] EXCEPT !.pc = "save", !.uri = NoUri,
                           !.old = FALSE, !.cache.populatedAt = 0])
    /\ UNCHANGED <<registry, caches, clock, expected>>

\* Mutant: the fallback is saved without looking whether there is one.
IntrospectFailsBlindly(c) ==
    /\ At(c, "introspect")
    /\ Continue(c, [call[c] EXCEPT !.pc = "save", !.uri = NoUri,
                      !.old = FALSE])
    /\ UNCHANGED <<registry, caches, clock, expected>>

\* It fails: a stale cache, if there was one, is saved again with the time
\* of the attempt (which nothing reads and the model leaves out).
IntrospectFails(c) ==
    /\ At(c, "introspect")
    /\ Continue(c, IF call[c].cache = NoCache THEN Idle
                   ELSE [call[c] EXCEPT !.pc = "save", !.uri = NoUri,
                           !.old = FALSE])
    /\ UNCHANGED <<registry, caches, clock, expected>>

\* SaveSchemaCache: the temporary file replaces the cache file.
Save(c) ==
    /\ At(c, "save")
    /\ caches' = [caches EXCEPT ![call[c].label] = call[c].cache]
    /\ Continue(c, Idle)
    /\ UNCHANGED <<registry, clock, expected>>

\* Calls on the labels ls that introspect now may have read the old schema.
Outdate(k, ls) ==
    IF k.pc = "introspect" /\ k.label \in ls THEN [k EXCEPT !.old = TRUE]
    ELSE IF k.pc = "save" /\ k.label \in ls
         THEN [k EXCEPT !.cache.old = TRUE]
    ELSE k

\* HandleRefreshSchemas of one label drops its cache ...
Refresh(c, l) ==
    /\ At(c, "idle")
    /\ caches' = [caches EXCEPT ![l] = NoCache]
    /\ call' = [d \in Clients |-> Outdate(call[d], {l})]
    /\ crossed' = crossed \cup {m \in {l} : Busy(m)}
    /\ UNCHANGED <<registry, clock, expected, torn>>

\* ... and without a label lists the cache directory, to empty it.
RefreshAll(c) ==
    LET present == {l \in Labels : caches[l] # NoCache} IN
    /\ At(c, "idle")
    /\ present # {}
    /\ call' = [d \in Clients |->
                  IF d = c THEN [Idle EXCEPT !.pc = "sweep", !.todo = present]
                  ELSE Outdate(call[d], Labels)]
    /\ caches' = [l \in Labels |-> IF l \in present
                                  THEN [caches[l] EXCEPT !.old = TRUE]
                                  ELSE NoCache]
    /\ crossed' = crossed \cup {l \in Labels : Busy(l)}
    /\ UNCHANGED <<registry, clock, expected, torn>>

\* Mutant: the loop over the directory ends with its first file.
SweepOne(c, l) ==
    /\ At(c, "sweep")
    /\ l \in call[c].todo
    /\ caches' = [caches EXCEPT ![l] = NoCache]
    /\ Continue(c, Idle)
    /\ UNCHANGED <<registry, clock, expected>>

\* One file of the directory is removed.
Sweep(c, l) ==
    /\ At(c, "sweep")
    /\ l \in call[c].todo
    /\ caches' = [caches EXCEPT ![l] = NoCache]
    /\ Continue(c, IF call[c].todo = {l} THEN Idle
                   ELSE [call[c] EXCEPT !.todo = @ \ {l}])
    /\ UNCHANGED <<registry, clock, expected>>

-----------------------------------------------------------------------------
(***************************************************************************)
(* A call ends early: its process dies, a write or a rename fails, or the  *)
(* temporary file of a save is swept away.  Whatever it had done stays,    *)
(* a truncated registry included.                                          *)
(***************************************************************************)
Cut(c) ==
    /\ c \in Mortal
    /\ ~At(c, "idle")
    /\ call' = [call EXCEPT ![c] = Idle]
    /\ torn' = (torn \/ Writes(call[c]))
    /\ crossed' = crossed \cup {l \in Labels : Touches(call[c], l)}
    /\ UNCHANGED <<registry, caches, clock, expected>>

Tick ==
    /\ clock < MaxTime
    /\ clock' = clock + 1
    /\ UNCHANGED <<registry, caches, call, expected, torn,
                   crossed>>

Next ==
    \/ \E c \in Clients :
         \/ \E l \in Labels, u \in Uris : Add(c, l, u)
         \/ \E l \in Labels : Remove(c, l) \/ Ensure(c, l) \/ Refresh(c, l)
         \/ \E l \in Labels : Sweep(c, l)
         \/ Truncate(c) \/ Fill(c) \/ Drop(c)
         \/ Load(c) \/ IntrospectOk(c) \/ IntrospectFails(c) \/ Save(c)
         \/ RefreshAll(c) \/ Cut(c)
    \/ Tick

Spec == Init /\ [][Next]_vars

-----------------------------------------------------------------------------
(* Properties *)

(***************************************************************************)
(* No two registered connections share a label, however calls overlap: a   *)
(* list is only ever written from one list that was read whole.            *)
(***************************************************************************)
UniqueConnectionLabels ==
    registry # Garbage =>
        \A i, j \in DOMAIN registry :
            registry[i].label = registry[j].label => i = j

\* As long as no two writers of the registry overlap and none is cut short,
\* what was added and not deleted since is what is registered, whatever the
\* calls on the caches do in between.
RegistryComplete ==
    ~torn /\ ~Written =>
        registry # Garbage /\ Entries(registry) = expected

\* A label on which no two calls have met, nor was one cut short.
Undisturbed(l) == l \notin crossed /\ ~Busy(l)

\* The cache of an undisturbed label belongs to a connection that was added
\* and not deleted, and describes its database, not that of an earlier
\* connection of the same label.
CacheBelongs ==
    ~torn => \A l \in Labels :
        Undisturbed(l) /\ caches[l] # NoCache =>
            [label |-> l, uri |-> caches[l].uri] \in expected

\* A refresh of an undisturbed label leaves no cache from before it.
RefreshSticks ==
    \A l \in Labels :
        Undisturbed(l) /\ caches[l] # NoCache => ~caches[l].old

\* A cache is only ever replaced by one at least as recent, unless two calls
\* meet on its label.
CacheNeverGoesBack ==
    [][\A l \in Labels :
         l \notin crossed' /\ caches[l] # NoCache /\ caches'[l] # NoCache =>
           caches'[l].populatedAt >= caches[l].populatedAt]_vars

-----------------------------------------------------------------------------
(* A promise of a comment that overlapping calls break.                    *)

\* AddConnection "persists the new pair to the registry".
AddedIsRegistered ==
    Quiet /\ registry # Garbage => LabelsIn(expected) \subseteq LabelsOf(registry)

=============================================================================
