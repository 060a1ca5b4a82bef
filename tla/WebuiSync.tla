----------------------------- MODULE WebuiSync -----------------------------
(***************************************************************************)
(* Browser tabs kept in step with the server: the request handlers of      *)
(* files_api.go, the events they publish, and the tab of static/app.js     *)
(* with its mirror of the open files, its editor and its debounced push.   *)
(*                                                                         *)
(* A handler changes the store, then publishes, then answers, and holds no *)
(* lock in between.  handleOpen and handleEdit hand a pointer to the live  *)
(* OpenFile to the broker and to the answer, and it is marshalled later,   *)
(* without the store's lock: it shows what the file is by then, or a mix   *)
(* with what a racing handler is writing.  handleSave publishes a copy.    *)
(* Events and answers reach the tab over different connections.            *)
(*                                                                         *)
(* The server is up throughout, and nobody else writes the .simp files.    *)
(***************************************************************************)
EXTENDS BufferStore, Sequences

CONSTANTS
    Tabs,
    Capacity,   \* of a subscriber's channel
    NoDoc,      \* the tab shows no editor
    NoFile,     \* null, or an answer or an event without a file
    Live,       \* a pointer to the OpenFile at the path
    MaxActs     \* bound: how often users type or click

ASSUME SyncAssumption == Capacity \in Nat \ {0} /\ MaxActs \in Nat

VARIABLES
    tab,      \* the state of each page: mode, mirror, focus, doc, timer
    call,     \* the requests in flight: a push and a click of each tab
    queue,    \* the channel of each tab's event stream
    wire,     \* events marshalled and on their way to the tab
    acts,     \* bound: what the users did so far
    missed,   \* ghost: tabs that may have missed an event
    overlap   \* ghost: what kind of work has overlapped

vars == <<storeVars, tab, call, queue, wire, acts, missed, overlap>>

\* A page that is loading, then listening, then perhaps cut off.
Mode == {"off", "listed", "fetched", "on", "lost"}
Shown == {"fetched", "on", "lost"}

Slots == {"push", "click"}
Calls == Tabs \X Slots
Op == {"open", "close", "save", "edit", "switch"}
Pc == {"idle", "sent", "saved", "changed", "sending", "answered", "refused"}

File == OpenFile \cup {NoFile}

\* Null is no file, a pointer neither, and an empty editor is no text.
ASSUME NullAssumption ==
    NoFile \notin OpenFile /\ Live \notin File /\ NoDoc \notin Contents

Event == [op : Op, path : Paths, file : File \cup {Live}, by : Tabs]

Idle == [pc |-> "idle", op |-> "edit", path |-> NoPath, text |-> Empty,
         file |-> NoFile, todo |-> {}]

Blank == [mode |-> "off", mirror |-> << >>, focus |-> NoPath, doc |-> NoDoc,
          timer |-> FALSE]

TypeOK ==
    /\ StoreTypeOK
    /\ tab \in [Tabs -> [mode : Mode, mirror : FileMap,
                         focus : Paths \cup {NoPath},
                         doc : Contents \cup {NoDoc}, timer : BOOLEAN]]
    /\ call \in [Calls -> [pc : Pc, op : Op, path : Paths \cup {NoPath},
                           text : Contents, file : File \cup {Live},
                           todo : SUBSET Tabs]]
    /\ queue \in [Tabs -> Seq(Event)]
    /\ \A t \in Tabs : Len(queue[t]) <= Capacity
    /\ wire \in [Tabs -> Seq(Event)]
    /\ acts \in 0..MaxActs
    /\ missed \subseteq Tabs
    /\ overlap \in {"none", "edits", "any"}

\* Any session of files that were opened and not edited yet.
Init ==
    /\ disk \in [Paths -> Contents]
    /\ \E S \in SUBSET Paths :
         /\ files = [p \in S |-> FreshFile(disk[p])]
         /\ active \in IF S = {} THEN {NoPath} ELSE S
    /\ tab = [t \in Tabs |-> Blank]
    /\ call = [k \in Calls |-> Idle]
    /\ queue = [t \in Tabs |-> << >>]
    /\ wire = [t \in Tabs |-> << >>]
    /\ acts = 0
    /\ missed = {}
    /\ overlap = "none"

-----------------------------------------------------------------------------
Subscribers == {t \in Tabs : tab[t].mode = "on"}

\* Nothing is in flight and no typing waits to be pushed.
AtRest ==
    /\ \A k \in Calls : call[k].pc = "idle"
    /\ \A t \in Tabs : queue[t] = << >> /\ wire[t] = << >> /\ ~tab[t].timer

\* Edits that overlap edits only are noted as "edits"; all other work that
\* overlaps, and opening, closing or switching after that, as "any".
Note(op) ==
    overlap' =
      IF AtRest /\ (op \in {"edit", "save"} \/ overlap = "none") THEN overlap
      ELSE IF /\ op = "edit" /\ overlap # "any"
              /\ \A k \in Calls : call[k].pc = "idle" \/ call[k].op = "edit"
           THEN "edits"
      ELSE "any"

\* One more click or keystroke.
Act(op) ==
    /\ acts < MaxActs
    /\ acts' = acts + 1
    /\ Note(op)

-----------------------------------------------------------------------------
(* The tab. *)

DocText(t) == IF tab[t].doc = NoDoc THEN Empty ELSE tab[t].doc

\* state.files.set and state.files.delete.
MirrorPut(mirror, p, f) ==
    [q \in DOMAIN mirror \cup {p} |-> IF q = p THEN f ELSE mirror[q]]
MirrorDelete(mirror, p) == [q \in DOMAIN mirror \ {p} |-> mirror[q]]

\* renderActive
Rendered(mirror, focus) ==
    IF focus \in DOMAIN mirror THEN mirror[focus].buffer ELSE NoDoc

Navigate(t, mirror, focus) ==
    tab' = [tab EXCEPT ![t].mirror = mirror, ![t].focus = focus,
                       ![t].doc = Rendered(mirror, focus)]

\* A file is gone; the focus moves to another one, the oldest of the Map.
DropFile(t, p) ==
    LET mirror == MirrorDelete(tab[t].mirror, p) IN
    \E focus \in IF tab[t].focus # p THEN {tab[t].focus}
                 ELSE IF DOMAIN mirror = {} THEN {NoPath}
                 ELSE DOMAIN mirror :
        Navigate(t, mirror, focus)

\* bootstrap: the handler of GET /api/files takes the list ...
FetchList(t) ==
    /\ tab[t].mode = "off"
    /\ tab' = [tab EXCEPT ![t].mode = "listed", ![t].mirror = files]
    /\ missed' = missed \ {t}
    /\ UNCHANGED <<storeVars, call, queue, wire, acts, overlap>>

\* ... then the active path, and the tab shows both ...
FetchActive(t) ==
    /\ tab[t].mode = "listed"
    /\ tab' = [tab EXCEPT ![t].mode = "fetched", ![t].focus = active,
                          ![t].doc = Rendered(tab[t].mirror, active)]
    /\ UNCHANGED <<storeVars, call, queue, wire, acts, missed, overlap>>

\* ... and connectEvents opens the stream.  EventSource also opens it again
\* by itself after a failure.  The broker's lock keeps publishers out.
Subscribe(t) ==
    /\ tab[t].mode \in {"fetched", "lost"}
    /\ \A k \in Calls : call[k].pc # "sending"
    /\ tab' = [tab EXCEPT ![t].mode = "on"]
    /\ UNCHANGED <<storeVars, call, queue, wire, acts, missed, overlap>>

\* The stream breaks, with whatever it still held.
Disconnect(t) ==
    /\ tab[t].mode = "on"
    /\ \A k \in Calls : call[k].pc # "sending"
    /\ tab' = [tab EXCEPT ![t].mode = "lost"]
    /\ queue' = [queue EXCEPT ![t] = << >>]
    /\ wire' = [wire EXCEPT ![t] = << >>]
    /\ missed' = IF AtRest THEN missed ELSE missed \cup {t}
    /\ UNCHANGED <<storeVars, call, acts, overlap>>

\* The user reloads a page that has no request in flight.
Reload(t) ==
    /\ tab[t].mode = "lost"
    /\ \A s \in Slots : call[<<t, s>>].pc = "idle"
    /\ tab' = [tab EXCEPT ![t] = Blank]
    /\ UNCHANGED <<storeVars, call, queue, wire, acts, missed, overlap>>

\* The user types: the push is scheduled, or put off once more.
Type(t, text) ==
    /\ tab[t].mode \in Shown
    /\ tab[t].doc \notin {NoDoc, text}
    /\ Act("edit")
    /\ tab' = [tab EXCEPT ![t].doc = text, ![t].timer = TRUE]
    /\ UNCHANGED <<storeVars, call, queue, wire, missed>>

Ask(t, slot, op, p, text) ==
    /\ call[<<t, slot>>].pc = "idle"
    /\ call' = [call EXCEPT ![<<t, slot>>] =
                  [Idle EXCEPT !.pc = "sent", !.op = op, !.path = p,
                               !.text = text]]

\* The timer fires: pushEdit sends the text and the path of this moment.
Push(t) ==
    /\ tab[t].timer
    /\ tab' = [tab EXCEPT ![t].timer = FALSE]
    /\ IF tab[t].focus = NoPath THEN UNCHANGED call
       ELSE Ask(t, "push", "edit", tab[t].focus, DocText(t))
    /\ UNCHANGED <<storeVars, queue, wire, acts, missed, overlap>>

\* What the page offers: any path can be opened, the focus saved.
Offered(t, op, p) ==
    \/ op = "open"
    \/ op = "save" /\ p = tab[t].focus
    \/ op \in {"close", "switch"} /\ p \in DOMAIN tab[t].mirror

Click(t, op, p) ==
    /\ tab[t].mode \in Shown
    /\ Offered(t, op, p)
    /\ Act(op)
    /\ Ask(t, "click", op, p, Empty)
    /\ UNCHANGED <<storeVars, tab, queue, wire, missed>>

-----------------------------------------------------------------------------
(* The handlers. *)

\* Requests whose handler may be inside the store right now.
Writers(p) == {k \in Calls : call[k].pc = "sent" /\ call[k].path = p}

\* What json.Marshal may read through a pointer to the OpenFile at p, field
\* by field, while other handlers write to it.
Racing(p) ==
    {files[p]}
      \cup {Edited(files[p], call[k].text) :
              k \in {w \in Writers(p) : call[w].op = "edit"}}
      \cup {Written(files[p]) : k \in {w \in Writers(p) : call[w].op = "save"}}

Marshalled(file, p) ==
    IF file # Live THEN {file}
    ELSE {[disk |-> f.disk, buffer |-> g.buffer, status |-> h.status] :
            f, g, h \in Racing(p)}

\* When p is closed its record lives on, unchanged, behind the pointers.
Freeze(x, p) ==
    IF x.file = Live /\ x.path = p THEN [x EXCEPT !.file = files[p]] ELSE x

\* Mutant: the handlers hand on a copy of the file as it is then.
CopyOf(p) == files'[p]

\* What handleOpen and handleEdit hand on.
PointerTo(p) == Live

Changed(k, pc, file) ==
    call' = [call EXCEPT ![k].pc = pc, ![k].file = file]

\* A handler changes the store ...
Serve(k) ==
    LET c == call[k] IN
    /\ c.pc = "sent"
    /\ \/ /\ c.op = "open" /\ Open(c.path)
          /\ Changed(k, "changed", PointerTo(c.path)) /\ UNCHANGED queue
       \/ /\ c.op = "edit" /\ Edit(c.path, c.text)
          /\ Changed(k, "changed", PointerTo(c.path)) /\ UNCHANGED queue
       \/ /\ c.op = "save" /\ Save(c.path)
          /\ Changed(k, "saved", NoFile) /\ UNCHANGED queue
       \/ /\ c.op = "switch" /\ SwitchActive(c.path)
          /\ Changed(k, "changed", NoFile) /\ UNCHANGED queue
       \/ /\ c.op = "close" /\ Close(c.path)
          /\ queue' = [t \in Tabs |-> [i \in DOMAIN queue[t] |->
                                       Freeze(queue[t][i], c.path)]]
          /\ call' = [j \in Calls |->
                        IF j = k THEN [c EXCEPT !.pc = "changed"]
                        ELSE Freeze(call[j], c.path)]
    /\ missed' = missed \cup
                   {t \in Tabs : tab[t].mode \in {"listed", "fetched", "lost"}}
    /\ UNCHANGED <<tab, wire, acts, overlap>>

\* ... or refuses the request.
Refuse(k) ==
    LET c == call[k] IN
    /\ c.pc = "sent"
    /\ IF c.op = "open" THEN c.path \in OpenPaths \/ disk[c.path] = Missing
       ELSE c.path \notin OpenPaths
    /\ Changed(k, "refused", NoFile)
    /\ UNCHANGED <<storeVars, tab, queue, wire, acts, missed, overlap>>

\* handleSave looks the file up again; another request may have closed it.
Copy(k) ==
    LET c == call[k] IN
    /\ c.pc = "saved"
    /\ Changed(k, "changed",
               IF c.path \in OpenPaths THEN files[c.path] ELSE NoFile)
    /\ UNCHANGED <<storeVars, tab, queue, wire, acts, missed, overlap>>

\* Publish takes the broker's lock ...
Publish(k) ==
    /\ call[k].pc = "changed"
    /\ call' = [call EXCEPT ![k].pc = "sending", ![k].todo = Subscribers]
    /\ UNCHANGED <<storeVars, tab, queue, wire, acts, missed, overlap>>

\* Mutant: a channel is taken to have room for one event more.
RoomForOneMore(t) == Len(queue[t]) <= Capacity

HasRoom(t) == Len(queue[t]) < Capacity

\* ... and sends to each channel that has room.
Send(k, t) ==
    LET c == call[k]
        e == [op |-> c.op, path |-> c.path, file |-> c.file, by |-> k[1]] IN
    /\ c.pc = "sending"
    /\ t \in c.todo
    /\ call' = [call EXCEPT ![k].todo = @ \ {t}]
    /\ IF HasRoom(t)
       THEN queue' = [queue EXCEPT ![t] = Append(@, e)] /\ UNCHANGED missed
       ELSE missed' = missed \cup {t} /\ UNCHANGED queue
    /\ UNCHANGED <<storeVars, tab, wire, acts, overlap>>

\* The handler marshals its answer and returns.
Answer(k) ==
    LET c == call[k] IN
    /\ c.pc = "sending"
    /\ c.todo = {}
    /\ \E file \in Marshalled(c.file, c.path) : Changed(k, "answered", file)
    /\ UNCHANGED <<storeVars, tab, queue, wire, acts, missed, overlap>>

\* The stream's handler takes an event from its channel and marshals it.
Forward(t) ==
    /\ queue[t] # << >>
    /\ LET e == Head(queue[t]) IN
         \E file \in Marshalled(e.file, e.path) :
           wire' = [wire EXCEPT ![t] = Append(@, [e EXCEPT !.file = file])]
    /\ queue' = [queue EXCEPT ![t] = Tail(@)]
    /\ UNCHANGED <<storeVars, tab, call, acts, missed, overlap>>

-----------------------------------------------------------------------------
(* What comes back to the tab. *)

\* The answer arrives.  A null answer to a save is an error of the page.
Receive(t, slot) ==
    LET c == call[<<t, slot>>]
        mirror == MirrorPut(tab[t].mirror, c.path, c.file) IN
    /\ c.pc \in {"answered", "refused"}
    /\ call' = [call EXCEPT ![<<t, slot>>] = Idle]
    /\ CASE c.pc = "refused" -> UNCHANGED tab
         [] c.pc = "answered" /\ c.op = "open" -> Navigate(t, mirror, c.path)
         [] c.pc = "answered" /\ c.op \in {"edit", "save"} ->
              IF c.file = NoFile THEN UNCHANGED tab
              ELSE tab' = [tab EXCEPT ![t].mirror = mirror]
         [] c.pc = "answered" /\ c.op = "close" -> DropFile(t, c.path)
         [] c.pc = "answered" /\ c.op = "switch" ->
              Navigate(t, tab[t].mirror, c.path)
    /\ UNCHANGED <<storeVars, queue, wire, acts, missed, overlap>>

\* Mutant: only the file in focus is worth updating.
ApplyRemoteFocus(t, p, f) ==
    tab' = IF p = tab[t].focus
           THEN [tab EXCEPT ![t].mirror = MirrorPut(@, p, f),
                            ![t].doc = f.buffer]
           ELSE tab

\* applyRemoteFile
ApplyRemoteFile(t, p, f) ==
    tab' = [tab EXCEPT
              ![t].mirror = MirrorPut(@, p, f),
              ![t].doc = IF p = tab[t].focus /\ DocText(t) # f.buffer
                         THEN f.buffer ELSE @]

\* handleEvent; a null payload throws and is ignored.
HandleEvent(t) ==
    /\ wire[t] # << >>
    /\ wire' = [wire EXCEPT ![t] = Tail(@)]
    /\ LET e == Head(wire[t]) IN
         CASE e.op \in {"edit", "save"} ->
                IF e.file = NoFile THEN UNCHANGED tab
                ELSE ApplyRemoteFile(t, e.path, e.file)
           [] e.op = "open" ->
                tab' = [tab EXCEPT ![t].mirror = MirrorPut(@, e.path, e.file)]
           [] e.op = "close" -> DropFile(t, e.path)
           [] e.op = "switch" -> Navigate(t, tab[t].mirror, e.path)
    /\ UNCHANGED <<storeVars, call, queue, acts, missed, overlap>>

-----------------------------------------------------------------------------
Next ==
    \/ \E t \in Tabs :
         \/ FetchList(t) \/ FetchActive(t) \/ Subscribe(t) \/ Disconnect(t)
         \/ Reload(t) \/ Push(t) \/ Forward(t) \/ HandleEvent(t)
         \/ \E text \in Contents : Type(t, text)
         \/ \E op \in Op \ {"edit"}, p \in Paths : Click(t, op, p)
         \/ \E slot \in Slots : Receive(t, slot)
    \/ \E k \in Calls :
         \/ Serve(k) \/ Refuse(k) \/ Copy(k) \/ Publish(k) \/ Answer(k)
         \/ \E t \in Tabs : Send(k, t)

Spec == Init /\ [][Next]_vars

-----------------------------------------------------------------------------
(* Properties *)

InStep(t) == tab[t].mode = "on" /\ t \notin missed

\* The editor of t shows the server's text of the file in focus.
ShowsBuffer(t) ==
    tab[t].focus \in OpenPaths => tab[t].doc = files[tab[t].focus].buffer

(***************************************************************************)
(* However edits of any number of tabs overlap, once nothing is in flight  *)
(* every tab that missed no event shows the server's text: the last edit   *)
(* accepted is the last text shown, although its event may overtake or be  *)
(* overtaken by others.                                                    *)
(***************************************************************************)
EditsConverge ==
    AtRest /\ overlap # "any" => \A t \in Tabs : InStep(t) => ShowsBuffer(t)

(***************************************************************************)
(* As long as nothing overlaps, the mirror of every tab that missed no     *)
(* event is the server's map of open files: no open, close, save or edit   *)
(* of another tab is lost on it.                                           *)
(***************************************************************************)
MirrorsAgree ==
    AtRest /\ overlap = "none" =>
        \A t \in Tabs : InStep(t) => tab[t].mirror = files

(***************************************************************************)
(* specs/webui.allium: "two open tabs on the same file must not show       *)
(* divergent text for longer than network latency".  When nothing is in    *)
(* flight and no typing waits to be pushed, any two tabs that listen and   *)
(* have the same file in focus show the same text.                         *)
(***************************************************************************)
TabsAgree ==
    AtRest =>
        \A t, u \in Tabs :
            /\ tab[t].mode = "on" /\ tab[u].mode = "on"
            /\ tab[t].focus = tab[u].focus
            /\ NoDoc \notin {tab[t].doc, tab[u].doc}
            => tab[t].doc = tab[u].doc

=============================================================================
