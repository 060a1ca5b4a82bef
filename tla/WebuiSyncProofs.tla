-------------------------- MODULE WebuiSyncProofs --------------------------
(***************************************************************************)
(* Theorems about WebuiSync, for any tabs, paths, texts and capacity of a  *)
(* channel: the types, that the mirrors agree with the server as long as   *)
(* nothing overlaps, and that edits that overlap converge.                 *)
(***************************************************************************)
EXTENDS WebuiSync, TLAPS

-----------------------------------------------------------------------------
(***************************************************************************)
(* What calls and events carry: after open and edit a file, by value or by *)
(* a pointer to a file that is still open; after the rest never a pointer. *)
(***************************************************************************)
Carries(x) ==
    /\ x.op \in {"open", "edit"} => x.file # NoFile
    /\ x.file = Live => x.path \in OpenPaths

CallForm(c) ==
    /\ c.pc # "idle" => c.path \in Paths
    /\ IF c.pc \in {"changed", "sending"} THEN Carries(c) ELSE c.file # Live
    /\ c.pc = "answered" /\ c.op \in {"open", "edit"} => c.file # NoFile
    /\ c.pc # "sending" => c.todo = {}
    /\ c.pc = "saved" => c.op = "save"

FormInv ==
    /\ \A k \in Calls : CallForm(call[k])
    /\ \A t \in Tabs :
         /\ \A i \in DOMAIN queue[t] : Carries(queue[t][i])
         /\ \A i \in DOMAIN wire[t] :
              Carries(wire[t][i]) /\ wire[t][i].file # Live

TypeInv == TypeOK /\ FormInv

Quiet(t) == queue[t] = << >> /\ wire[t] = << >>

(***************************************************************************)
(* Only tabs that listen are sent anything, and a page that still loads    *)
(* does nothing else.  Its list is the server's until a handler changes it.*)
(***************************************************************************)
ListenOf(t) ==
    /\ tab[t].mode # "on" =>
         Quiet(t) /\ \A k \in Calls : t \notin call[k].todo
    /\ tab[t].mode \in {"off", "listed"} =>
         /\ ~tab[t].timer
         /\ tab[t].focus = NoPath
         /\ \A s \in Slots : call[<<t, s>>].pc = "idle"
    /\ tab[t].mode = "listed" /\ t \notin missed => tab[t].mirror = files

ListenInv == ActiveFileIsOpen /\ \A t \in Tabs : ListenOf(t)

-----------------------------------------------------------------------------
(* As long as nothing overlaps. *)

\* There is one piece of work at a time: a typing that waits to be pushed,
\* or a request, or the events of one request, at most one for each tab.
OneAtATime ==
    /\ \A j, k \in Calls : call[j].pc # "idle" /\ call[k].pc # "idle" => j = k
    /\ \A t, u \in Tabs : tab[t].timer /\ tab[u].timer => t = u
    /\ \A t \in Tabs : tab[t].timer =>
         (\A k \in Calls : call[k].pc = "idle") /\ (\A u \in Tabs : Quiet(u))
    /\ \A k \in Calls :
         /\ call[k].pc \in {"sent", "saved", "changed", "refused"} =>
              \A u \in Tabs : Quiet(u)
         /\ \A u \in call[k].todo : Quiet(u)
    /\ \A t \in Tabs :
         /\ wire[t] = << >> \/ queue[t] = << >>
         /\ Len(wire[t]) <= 1 /\ Len(queue[t]) <= 1

\* What a call answers or an event says is what the server has.
True(x) ==
    /\ x.op = "close" => x.path \notin OpenPaths
    /\ x.op # "close" => x.path \in OpenPaths
    /\ x.op \in {"open", "edit", "save"} => x.file \in {Live, files[x.path]}

TrueInv ==
    /\ \A k \in Calls :
         /\ call[k].pc = "saved" => call[k].path \in OpenPaths
         /\ call[k].pc \in {"changed", "sending", "answered"} => True(call[k])
    /\ \A t \in Tabs :
         /\ \A i \in DOMAIN queue[t] : True(queue[t][i])
         /\ \A i \in DOMAIN wire[t] : True(wire[t][i])

\* The mirror lacks at most what x will bring.
AgreesBut(t, x) ==
    IF x.op = "switch" THEN tab[t].mirror = files
    ELSE /\ DOMAIN tab[t].mirror \ {x.path} = OpenPaths \ {x.path}
         /\ \A q \in OpenPaths \ {x.path} : tab[t].mirror[q] = files[q]

\* The event of a call is still to be sent to t.
ToSend(k, t) == call[k].pc \in {"saved", "changed"} \/ t \in call[k].todo

MirrorOf(t) ==
    /\ \A i \in DOMAIN queue[t] : AgreesBut(t, queue[t][i])
    /\ \A i \in DOMAIN wire[t] : AgreesBut(t, wire[t][i])
    /\ \A k \in Calls : ToSend(k, t) => AgreesBut(t, call[k])
    /\ \/ tab[t].mode # "on"
       \/ Quiet(t) /\ \A k \in Calls : ~ToSend(k, t)
       => tab[t].mirror = files

Alone ==
    /\ OneAtATime
    /\ TrueInv
    /\ \A t \in Tabs \ missed : tab[t].mode # "off" => MirrorOf(t)

AloneInv == overlap = "none" => Alone

-----------------------------------------------------------------------------
(* As long as only edits overlap. *)

\* The server is the request's own, and all events are of the request.
Sole(k) ==
    /\ \A j \in Calls \ {k} : call[j].pc = "idle"
    /\ \A t \in Tabs : ~tab[t].timer
    /\ call[k].pc \in {"sent", "saved", "changed", "refused"} =>
         \A t \in Tabs : Quiet(t)
    /\ \A t \in call[k].todo : Quiet(t)
    /\ \A t \in Tabs :
         /\ \A i \in DOMAIN queue[t] :
              queue[t][i].op = call[k].op /\ queue[t][i].path = call[k].path
         /\ \A i \in DOMAIN wire[t] :
              wire[t][i].op = call[k].op /\ wire[t][i].path = call[k].path

\* A saved copy has the server's text.
CopyIsTrue(k) ==
    call[k].op = "save" /\ call[k].file # NoFile =>
      /\ call[k].path \in OpenPaths
      /\ call[k].file.buffer = files[call[k].path].buffer

\* Only the first event of a tab is not of an edit, and edits are pointers
\* until they are marshalled.
EditsLast(t) ==
    /\ \A i \in DOMAIN wire[t] : i > 1 => wire[t][i].op = "edit"
    /\ \A i \in DOMAIN queue[t] :
         /\ i > 1 \/ wire[t] # << >> => queue[t][i].op = "edit"
         /\ queue[t][i].op = "edit" => queue[t][i].file = Live

\* A request other than an edit still has the server to itself, and its
\* events come before those of the edits.
CallOf(k) ==
    /\ call[k].pc # "idle" /\ call[k].op # "edit" =>
         /\ Sole(k)
         /\ CopyIsTrue(k)
         /\ call[k].op # "save" => overlap = "none"
    /\ call[k].pc \in {"changed", "sending"} /\ call[k].op = "edit" =>
         call[k].file = Live

EditsOnly == (\A k \in Calls : CallOf(k)) /\ (\A t \in Tabs : EditsLast(t))

EditOf(x, p) == x.op = "edit" /\ x.path = p

\* The event of an edit of p has not been sent to t, and t will be sent it.
Brings(k, t, p) ==
    /\ EditOf(call[k], p)
    /\ \/ call[k].pc = "sent"
       \/ call[k].pc = "changed" /\ tab[t].mode = "on"
       \/ t \in call[k].todo

Coming(t, p) == \E k \in Calls : Brings(k, t, p)
Queued(t, p) == \E j \in DOMAIN queue[t] : EditOf(queue[t][j], p)
Wired(t, p, i) == \E j \in DOMAIN wire[t] : j > i /\ EditOf(wire[t][j], p)

\* An edit of p reaches t after the i-th event of its wire.
Later(t, p, i) == Coming(t, p) \/ Queued(t, p) \/ Wired(t, p, i)

Moving == {"close", "switch"}

\* An event that makes t show another file is on its way.
Moved(t) ==
    \/ \E i \in DOMAIN queue[t] : queue[t][i].op \in Moving
    \/ \E i \in DOMAIN wire[t] : wire[t][i].op \in Moving

\* An event that shows a text of p.
Brought(x, p) ==
    x.op \in {"edit", "save"} /\ x.path = p /\ x.file # NoFile

\* The last event on p brings the server's text.
LastIsTrue(t, p) ==
    /\ \A i \in DOMAIN wire[t] : Brought(wire[t][i], p) /\ ~Later(t, p, i) =>
         wire[t][i].file.buffer = files[p].buffer
    /\ \A i \in DOMAIN queue[t] :
         Brought(queue[t][i], p) /\ queue[t][i].op = "save" /\ ~Later(t, p, 0) =>
           queue[t][i].file.buffer = files[p].buffer

\* If none is to come, the editor shows it or will push its own.
Shows(t, p) ==
    /\ tab[t].mode \in Shown /\ tab[t].focus = p
    /\ ~Later(t, p, 0) /\ ~tab[t].timer
    => tab[t].doc = files[p].buffer

\* The event of an edit of its own has been sent to t, the answer not come.
Answers(k, t, p) ==
    /\ k[1] = t
    /\ EditOf(call[k], p)
    /\ call[k].pc \in {"sending", "answered"}
    /\ t \notin call[k].todo

Answering(t, p) == \E k \in Calls : Answers(k, t, p)

\* While t is about to show another file, its mirror knows p, and knows
\* its text unless an edit of it is to come; the answer to an edit of its
\* own does not overtake the event of that edit.
Knows(t, p) ==
    Moved(t) =>
      /\ p \in DOMAIN tab[t].mirror
      /\ ~Later(t, p, 0) => tab[t].mirror[p].buffer = files[p].buffer
      /\ Answering(t, p) => Queued(t, p) \/ Wired(t, p, 0)

PathOf(t, p) == LastIsTrue(t, p) /\ Shows(t, p) /\ Knows(t, p)

\* An editor is shown for a file of the mirror.
FocusKnown(t) ==
    tab[t].mode \in Shown =>
      /\ tab[t].focus \in DOMAIN tab[t].mirror \cup {NoPath}
      /\ tab[t].focus # NoPath => tab[t].doc # NoDoc

SwitchOpen(t) ==
    /\ \A i \in DOMAIN queue[t] :
         queue[t][i].op = "switch" => queue[t][i].path \in OpenPaths
    /\ \A i \in DOMAIN wire[t] :
         wire[t][i].op = "switch" => wire[t][i].path \in OpenPaths

TextOf(t) ==
    /\ FocusKnown(t)
    /\ SwitchOpen(t)
    /\ \A p \in OpenPaths : PathOf(t, p)

Texts == EditsOnly /\ \A t \in Tabs \ missed : TextOf(t)

TextInv == overlap # "any" => Texts

-----------------------------------------------------------------------------
(* The operators. *)

TabType == [mode : Mode, mirror : FileMap, focus : Paths \cup {NoPath},
            doc : Contents \cup {NoDoc}, timer : BOOLEAN]

CallType == [pc : Pc, op : Op, path : Paths \cup {NoPath}, text : Contents,
             file : File \cup {Live}, todo : SUBSET Tabs]

\* A file map is a function on some of the paths to file records.
LEMMA FileMapMember ==
    ASSUME NEW f
    PROVE  f \in FileMap <=> DOMAIN f \subseteq Paths /\ f \in [DOMAIN f -> OpenFile]
<1>1. ASSUME f \in FileMap
      PROVE  DOMAIN f \subseteq Paths /\ f \in [DOMAIN f -> OpenFile]
  <2>1. PICK S \in SUBSET Paths : f \in [S -> OpenFile]
    BY <1>1 DEF FileMap
  <2> QED
    BY <2>1
<1>2. ASSUME DOMAIN f \subseteq Paths, f \in [DOMAIN f -> OpenFile]
      PROVE  f \in FileMap
  BY <1>2 DEF FileMap
<1> QED
  BY <1>1, <1>2

\* What the store writes are file records; saving keeps the buffer.
LEMMA RecordFacts ==
    ASSUME NEW f \in OpenFile, NEW text \in Contents
    PROVE  /\ FreshFile(text) \in OpenFile /\ FreshFile(text).buffer = text
           /\ Edited(f, text) \in OpenFile /\ Edited(f, text).buffer = text
           /\ Written(f) \in OpenFile /\ Written(f).buffer = f.buffer
           /\ f.buffer \in Contents
BY DEF FreshFile, Edited, Written, Recompute, OpenFile

LEMMA MirrorFacts ==
    ASSUME NEW m \in FileMap, NEW p \in Paths, NEW f \in OpenFile
    PROVE  /\ MirrorPut(m, p, f) \in FileMap
           /\ DOMAIN MirrorPut(m, p, f) = DOMAIN m \cup {p}
           /\ MirrorPut(m, p, f)[p] = f
           /\ \A q \in DOMAIN m \ {p} : MirrorPut(m, p, f)[q] = m[q]
           /\ MirrorDelete(m, p) \in FileMap
           /\ DOMAIN MirrorDelete(m, p) = DOMAIN m \ {p}
           /\ \A q \in DOMAIN m \ {p} : MirrorDelete(m, p)[q] = m[q]
<1>1. DOMAIN m \subseteq Paths /\ m \in [DOMAIN m -> OpenFile]
  BY FileMapMember
<1>2. /\ MirrorPut(m, p, f) \in [DOMAIN m \cup {p} -> OpenFile]
      /\ MirrorPut(m, p, f)[p] = f
      /\ \A q \in DOMAIN m \ {p} : MirrorPut(m, p, f)[q] = m[q]
  BY <1>1 DEF MirrorPut
<1>3. /\ MirrorDelete(m, p) \in [DOMAIN m \ {p} -> OpenFile]
      /\ \A q \in DOMAIN m \ {p} : MirrorDelete(m, p)[q] = m[q]
  BY <1>1 DEF MirrorDelete
<1>4. DOMAIN MirrorPut(m, p, f) = DOMAIN m \cup {p}
  BY <1>2
<1>5. DOMAIN MirrorDelete(m, p) = DOMAIN m \ {p}
  BY <1>3
<1> QED
  BY <1>1, <1>2, <1>3, <1>4, <1>5, FileMapMember

LEMMA RenderedFacts ==
    ASSUME NEW m \in FileMap, NEW p \in Paths \cup {NoPath}
    PROVE  /\ Rendered(m, p) \in Contents \cup {NoDoc}
           /\ p \in DOMAIN m => /\ Rendered(m, p) = m[p].buffer
                                /\ Rendered(m, p) # NoDoc
<1>1. DOMAIN m \subseteq Paths /\ m \in [DOMAIN m -> OpenFile]
  BY FileMapMember
<1>2. ASSUME p \in DOMAIN m
      PROVE  m[p].buffer \in Contents
  BY <1>1, <1>2 DEF OpenFile
<1> QED
  BY <1>2, NullAssumption DEF Rendered

LEMMA EmptyDomain ==
    ASSUME NEW S, NEW s \in Seq(S), DOMAIN s = {}
    PROVE  s = << >>
<1>1. Len(s) \in Nat /\ DOMAIN s = 1..Len(s)
  OBVIOUS
<1>2. Len(s) = 0
  <2> SUFFICES ASSUME Len(s) # 0 PROVE FALSE
    OBVIOUS
  <2>1. 1 \in 1..Len(s)
    BY <1>1
  <2> QED  BY <1>1, <2>1
<1> QED  BY <1>2

LEMMA AppendFacts ==
    ASSUME NEW S, NEW s \in Seq(S), NEW e \in S
    PROVE  /\ Append(s, e) \in Seq(S)
           /\ Len(Append(s, e)) = Len(s) + 1
           /\ DOMAIN Append(s, e) = DOMAIN s \cup {Len(s) + 1}
           /\ \A i \in DOMAIN s : Append(s, e)[i] = s[i]
           /\ Append(s, e)[Len(s) + 1] = e
OBVIOUS

LEMMA TailFacts ==
    ASSUME NEW S, NEW s \in Seq(S), s # << >>
    PROVE  /\ Tail(s) \in Seq(S)
           /\ Len(Tail(s)) = Len(s) - 1
           /\ \A i \in DOMAIN Tail(s) :
                i \in Nat \ {0} /\ i + 1 \in DOMAIN s /\ Tail(s)[i] = s[i + 1]
           /\ \A i \in DOMAIN s : i > 1 => i - 1 \in DOMAIN Tail(s)
           /\ Head(s) \in S /\ Head(s) = s[1] /\ 1 \in DOMAIN s
OBVIOUS

LEMMA TailOne ==
    ASSUME NEW S, NEW s \in Seq(S), s # << >>, Len(s) <= 1
    PROVE  Tail(s) = << >>
<1>1. Len(s) \in Nat /\ DOMAIN s = 1..Len(s) /\ Len(s) # 0
  OBVIOUS
<1>2. Tail(s) \in Seq(S) /\ DOMAIN Tail(s) = 1..(Len(s) - 1)
  OBVIOUS
<1>3. 1..(Len(s) - 1) = {}
  BY <1>1
<1> QED  BY <1>2, <1>3, EmptyDomain

-----------------------------------------------------------------------------
(* What a step does to one tab and to one call, field by field. *)

TabBecomes(t, mode, mirror, focus, doc, timer) ==
    /\ tab' \in [Tabs -> TabType]
    /\ tab'[t].mode = mode /\ tab'[t].mirror = mirror
    /\ tab'[t].focus = focus /\ tab'[t].doc = doc /\ tab'[t].timer = timer
    /\ \A u \in Tabs \ {t} : tab'[u] = tab[u]

LEMMA TabParts ==
    ASSUME TypeOK, NEW t \in Tabs
    PROVE  /\ tab \in [Tabs -> TabType]
           /\ tab[t].mode \in Mode /\ tab[t].mirror \in FileMap
           /\ tab[t].focus \in Paths \cup {NoPath}
           /\ tab[t].doc \in Contents \cup {NoDoc} /\ tab[t].timer \in BOOLEAN
BY DEF TypeOK, TabType

LEMMA FetchListTab ==
    ASSUME TypeOK, NEW t \in Tabs, FetchList(t)
    PROVE  TabBecomes(t, "listed", files, tab[t].focus, tab[t].doc, tab[t].timer)
<1>1. tab \in [Tabs -> TabType] /\ files \in FileMap
  BY TabParts DEF TypeOK, StoreTypeOK
<1>2. tab' = [tab EXCEPT ![t].mode = "listed", ![t].mirror = files]
  BY DEF FetchList
<1> QED  BY <1>1, <1>2 DEF TabBecomes, TabType, Mode

LEMMA FetchActiveTab ==
    ASSUME TypeOK, NEW t \in Tabs, FetchActive(t)
    PROVE  TabBecomes(t, "fetched", tab[t].mirror, active,
                      Rendered(tab[t].mirror, active), tab[t].timer)
<1>1. tab \in [Tabs -> TabType] /\ active \in Paths \cup {NoPath}
  BY TabParts DEF TypeOK, StoreTypeOK
<1>2. tab' = [tab EXCEPT ![t].mode = "fetched", ![t].focus = active,
                         ![t].doc = Rendered(tab[t].mirror, active)]
  BY DEF FetchActive
<1>3. Rendered(tab[t].mirror, active) \in Contents \cup {NoDoc}
  BY <1>1, TabParts, RenderedFacts
<1> QED  BY <1>1, <1>2, <1>3 DEF TabBecomes, TabType, Mode

LEMMA StreamTab ==
    ASSUME TypeOK, NEW t \in Tabs, NEW mode \in {"on", "lost"},
           tab' = [tab EXCEPT ![t].mode = mode]
    PROVE  TabBecomes(t, mode, tab[t].mirror, tab[t].focus, tab[t].doc, tab[t].timer)
BY TabParts DEF TabBecomes, TabType, Mode

LEMMA ReloadTab ==
    ASSUME TypeOK, NEW t \in Tabs, Reload(t)
    PROVE  TabBecomes(t, "off", << >>, NoPath, NoDoc, FALSE)
<1>1. tab \in [Tabs -> TabType] /\ tab' = [tab EXCEPT ![t] = Blank]
  BY TabParts DEF Reload
<1>2. << >> \in FileMap
  <2>1. DOMAIN << >> = {} /\ << >> \in [{} -> OpenFile]
    OBVIOUS
  <2> QED  BY <2>1, FileMapMember
<1>3. Blank \in TabType
  BY <1>2 DEF Blank, TabType, Mode
<1>4. /\ tab' \in [Tabs -> TabType]
      /\ tab'[t] = Blank
      /\ \A u \in Tabs \ {t} : tab'[u] = tab[u]
  BY <1>1, <1>3
<1> QED  BY <1>4 DEF TabBecomes, Blank

\* None of these steps starts a timer.
LEMMA TimersRest ==
    ASSUME TypeOK, NEW t \in Tabs,
           \/ FetchList(t) \/ FetchActive(t) \/ Subscribe(t) \/ Disconnect(t)
           \/ Reload(t)
    PROVE  \A u \in Tabs : tab'[u].timer => tab[u].timer
<1>1. CASE FetchList(t) \/ FetchActive(t)
  BY <1>1, FetchListTab, FetchActiveTab DEF TabBecomes
<1>2. CASE Subscribe(t) \/ Disconnect(t)
  BY <1>2, StreamTab DEF TabBecomes, Subscribe, Disconnect
<1>3. CASE Reload(t)
  BY <1>3, ReloadTab DEF TabBecomes
<1> QED  BY <1>1, <1>2, <1>3

LEMMA TypeTab ==
    ASSUME TypeOK, NEW t \in Tabs, NEW text \in Contents, Type(t, text)
    PROVE  TabBecomes(t, tab[t].mode, tab[t].mirror, tab[t].focus, text, TRUE)
<1>1. tab' = [tab EXCEPT ![t].doc = text, ![t].timer = TRUE]
  BY DEF Type
<1> QED  BY <1>1, TabParts DEF TabBecomes, TabType

LEMMA PushTab ==
    ASSUME TypeOK, NEW t \in Tabs, Push(t)
    PROVE  TabBecomes(t, tab[t].mode, tab[t].mirror, tab[t].focus, tab[t].doc, FALSE)
<1>1. tab' = [tab EXCEPT ![t].timer = FALSE]
  BY DEF Push
<1> QED  BY <1>1, TabParts DEF TabBecomes, TabType

LEMMA NavigateTab ==
    ASSUME TypeOK, NEW t \in Tabs, NEW mirror \in FileMap,
           NEW focus \in Paths \cup {NoPath}, Navigate(t, mirror, focus)
    PROVE  TabBecomes(t, tab[t].mode, mirror, focus, Rendered(mirror, focus),
                      tab[t].timer)
<1>1. tab' = [tab EXCEPT ![t].mirror = mirror, ![t].focus = focus,
                         ![t].doc = Rendered(mirror, focus)]
  BY DEF Navigate
<1>2. Rendered(mirror, focus) \in Contents \cup {NoDoc}
  BY RenderedFacts
<1> QED  BY <1>1, <1>2, TabParts DEF TabBecomes, TabType

LEMMA DropTab ==
    ASSUME TypeOK, NEW t \in Tabs, NEW p \in Paths, DropFile(t, p)
    PROVE  LET mirror == MirrorDelete(tab[t].mirror, p) IN
           \E focus \in Paths \cup {NoPath} :
             /\ focus \in DOMAIN mirror \cup {NoPath, tab[t].focus} /\ focus # p
             /\ TabBecomes(t, tab[t].mode, mirror, focus, Rendered(mirror, focus),
                           tab[t].timer)
<1> DEFINE m == MirrorDelete(tab[t].mirror, p)
<1>1. m \in FileMap /\ DOMAIN m = DOMAIN tab[t].mirror \ {p} /\ DOMAIN m \subseteq Paths
  <2>1. FreshFile(Empty) \in OpenFile
    BY ContentsAssumption DEF FreshFile, OpenFile
  <2> QED  BY <2>1, TabParts, MirrorFacts, FileMapMember
<1>2. PICK focus \in IF tab[t].focus # p THEN {tab[t].focus}
                     ELSE IF DOMAIN m = {} THEN {NoPath} ELSE DOMAIN m :
        Navigate(t, m, focus)
  BY DEF DropFile
<1>3. focus \in DOMAIN m \cup {NoPath, tab[t].focus} /\ focus # p
  BY <1>1, <1>2, PathAssumption
<1>4. focus \in Paths \cup {NoPath}
  BY <1>1, <1>2, TabParts
<1> HIDE DEF m
<1>5. TabBecomes(t, tab[t].mode, m, focus, Rendered(m, focus), tab[t].timer)
  BY <1>1, <1>2, <1>4, NavigateTab
<1> QED  BY <1>3, <1>4, <1>5 DEF m

LEMMA MirrorTab ==
    ASSUME TypeOK, NEW t \in Tabs, NEW mirror \in FileMap,
           tab' = [tab EXCEPT ![t].mirror = mirror]
    PROVE  TabBecomes(t, tab[t].mode, mirror, tab[t].focus, tab[t].doc, tab[t].timer)
BY TabParts DEF TabBecomes, TabType

LEMMA RemoteTab ==
    ASSUME TypeOK, NEW t \in Tabs, NEW p \in Paths, NEW f \in OpenFile,
           ApplyRemoteFile(t, p, f)
    PROVE  TabBecomes(t, tab[t].mode, MirrorPut(tab[t].mirror, p, f), tab[t].focus,
                      IF p = tab[t].focus /\ DocText(t) # f.buffer
                      THEN f.buffer ELSE tab[t].doc,
                      tab[t].timer)
<1> DEFINE m == MirrorPut(tab[t].mirror, p, f)
           d == IF p = tab[t].focus /\ DocText(t) # f.buffer
                THEN f.buffer ELSE tab[t].doc
<1>1. m \in FileMap /\ d \in Contents \cup {NoDoc}
  BY TabParts, MirrorFacts DEF OpenFile
<1>2. tab' = [tab EXCEPT ![t].mirror = m, ![t].doc = d]
  BY TabParts DEF ApplyRemoteFile
<1> HIDE DEF m, d
<1>3. TabBecomes(t, tab[t].mode, m, tab[t].focus, d, tab[t].timer)
  BY <1>1, <1>2, TabParts DEF TabBecomes, TabType
<1> QED  BY <1>3 DEF m, d

CallBecomes(k, pc, op, path, text, file, todo) ==
    /\ call' \in [Calls -> CallType]
    /\ call'[k].pc = pc /\ call'[k].op = op /\ call'[k].path = path
    /\ call'[k].text = text /\ call'[k].file = file /\ call'[k].todo = todo
    /\ \A j \in Calls \ {k} : call'[j] = call[j]

LEMMA CallParts ==
    ASSUME TypeOK, NEW k \in Calls
    PROVE  /\ call \in [Calls -> CallType]
           /\ call[k].pc \in Pc /\ call[k].op \in Op
           /\ call[k].path \in Paths \cup {NoPath} /\ call[k].text \in Contents
           /\ call[k].file \in File \cup {Live} /\ call[k].todo \subseteq Tabs
BY DEF TypeOK, CallType

LEMMA AskCall ==
    ASSUME TypeOK, NEW t \in Tabs, NEW slot \in Slots, NEW op \in Op,
           NEW p \in Paths \cup {NoPath}, NEW text \in Contents,
           Ask(t, slot, op, p, text)
    PROVE  CallBecomes(<<t, slot>>, "sent", op, p, text, NoFile, {})
<1> DEFINE k == <<t, slot>>
           new == [Idle EXCEPT !.pc = "sent", !.op = op, !.path = p, !.text = text]
<1>1. k \in Calls /\ call \in [Calls -> CallType]
  BY DEF Calls, TypeOK, CallType
<1>2. new \in CallType
  BY DEF Idle, CallType, Pc, File
<1>3. call' = [call EXCEPT ![k] = new]
  BY DEF Ask
<1>4. /\ new.pc = "sent" /\ new.op = op /\ new.path = p /\ new.text = text
      /\ new.file = NoFile /\ new.todo = {}
  BY DEF Idle
<1> HIDE DEF k, new
<1>5. call' \in [Calls -> CallType] /\ call'[k] = new
      /\ \A j \in Calls \ {k} : call'[j] = call[j]
  BY <1>1, <1>2, <1>3
<1>6. CallBecomes(k, "sent", op, p, text, NoFile, {})
  BY <1>4, <1>5 DEF CallBecomes
<1> QED  BY <1>6 DEF k

LEMMA ChangedCall ==
    ASSUME TypeOK, NEW k \in Calls, NEW pc \in Pc, NEW file \in File \cup {Live},
           Changed(k, pc, file)
    PROVE  CallBecomes(k, pc, call[k].op, call[k].path, call[k].text, file,
                       call[k].todo)
<1>1. call' = [call EXCEPT ![k].pc = pc, ![k].file = file]
  BY DEF Changed
<1> QED  BY <1>1, CallParts DEF CallBecomes, CallType

LEMMA PublishCall ==
    ASSUME TypeOK, NEW k \in Calls, Publish(k)
    PROVE  CallBecomes(k, "sending", call[k].op, call[k].path, call[k].text,
                       call[k].file, Subscribers)
<1>1. call' = [call EXCEPT ![k].pc = "sending", ![k].todo = Subscribers]
  BY DEF Publish
<1>2. Subscribers \subseteq Tabs /\ "sending" \in Pc
  BY DEF Subscribers, Pc
<1> QED  BY <1>1, <1>2, CallParts DEF CallBecomes, CallType

LEMMA SendCall ==
    ASSUME TypeOK, NEW k \in Calls, NEW t \in Tabs, Send(k, t)
    PROVE  CallBecomes(k, call[k].pc, call[k].op, call[k].path, call[k].text,
                       call[k].file, call[k].todo \ {t})
<1>1. call' = [call EXCEPT ![k].todo = @ \ {t}]
  BY DEF Send
<1> QED  BY <1>1, CallParts DEF CallBecomes, CallType

LEMMA ReceiveCall ==
    ASSUME TypeOK, NEW t \in Tabs, NEW slot \in Slots, Receive(t, slot)
    PROVE  CallBecomes(<<t, slot>>, "idle", "edit", NoPath, Empty, NoFile, {})
<1> DEFINE k == <<t, slot>>
<1>1. k \in Calls /\ call \in [Calls -> CallType] /\ call' = [call EXCEPT ![k] = Idle]
  BY DEF Calls, TypeOK, CallType, Receive
<1>2. Idle \in CallType
  BY ContentsAssumption DEF Idle, CallType, Pc, Op, File
<1> HIDE DEF k
<1>3. call' \in [Calls -> CallType] /\ call'[k] = Idle
      /\ \A j \in Calls \ {k} : call'[j] = call[j]
  BY <1>1, <1>2
<1>4. CallBecomes(k, "idle", "edit", NoPath, Empty, NoFile, {})
  BY <1>3 DEF CallBecomes, Idle
<1> QED  BY <1>4 DEF k

-----------------------------------------------------------------------------
(* What a step does to the store. *)

LEMMA FilesParts ==
    ASSUME StoreTypeOK
    PROVE  /\ OpenPaths = DOMAIN files /\ OpenPaths \subseteq Paths
           /\ \A q \in OpenPaths : files[q] \in OpenFile /\ files[q].buffer \in Contents
BY FileMapMember DEF StoreTypeOK, OpenPaths, OpenFile

\* All but p keep their files.
OthersKept(p) ==
    \A q \in OpenPaths \ {p} : q \in OpenPaths' /\ files'[q] = files[q]

LEMMA OpenFacts ==
    ASSUME StoreTypeOK, NEW p \in Paths, Open(p)
    PROVE  /\ StoreTypeOK' /\ (ActiveFileIsOpen => ActiveFileIsOpen')
           /\ p \notin OpenPaths /\ OpenPaths' = OpenPaths \cup {p}
           /\ OthersKept(p)
<1>1. disk[p] \in Contents /\ p \notin OpenPaths
  BY DEF Open, StoreTypeOK
<1>2. DOMAIN files \subseteq Paths /\ files \in [DOMAIN files -> OpenFile]
  BY FileMapMember DEF StoreTypeOK
<1> DEFINE f == FreshFile(disk[p])
<1>3. f \in OpenFile
  BY <1>1 DEF FreshFile, OpenFile
<1>4. files' = [q \in OpenPaths \cup {p} |-> IF q = p THEN f ELSE files[q]]
  BY DEF Open, Put
<1> HIDE DEF f
<1>5. DOMAIN files' = OpenPaths \cup {p} /\ files' \in [DOMAIN files' -> OpenFile]
  BY <1>2, <1>3, <1>4 DEF OpenPaths
<1>6. files' \in FileMap
  BY <1>2, <1>5, FileMapMember DEF OpenPaths
<1>7. active' \in Paths \cup {NoPath} /\ disk' \in [Paths -> Contents \cup {Missing}]
  BY DEF Open, StoreTypeOK
<1>8. ActiveFileIsOpen => ActiveFileIsOpen'
  BY <1>5 DEF Open, ActiveFileIsOpen, OpenPaths
<1>9. OthersKept(p)
  BY <1>4, <1>5 DEF OthersKept, OpenPaths
<1> QED  BY <1>1, <1>5, <1>6, <1>7, <1>8, <1>9 DEF StoreTypeOK, OpenPaths

LEMMA CloseFacts ==
    ASSUME StoreTypeOK, NEW p \in Paths, Close(p)
    PROVE  /\ StoreTypeOK' /\ (ActiveFileIsOpen => ActiveFileIsOpen')
           /\ p \in OpenPaths /\ OpenPaths' = OpenPaths \ {p}
           /\ OthersKept(p)
<1>1. DOMAIN files \subseteq Paths /\ files \in [DOMAIN files -> OpenFile]
  BY FileMapMember DEF StoreTypeOK
<1>2. files' = [q \in OpenPaths \ {p} |-> files[q]] /\ p \in OpenPaths
  BY DEF Close, Delete
<1>3. DOMAIN files' = OpenPaths \ {p} /\ files' \in [DOMAIN files' -> OpenFile]
  BY <1>1, <1>2 DEF OpenPaths
<1>4. files' \in FileMap
  BY <1>1, <1>3, FileMapMember DEF OpenPaths
<1>5. active' \in Paths \cup {NoPath} /\ disk' \in [Paths -> Contents \cup {Missing}]
  BY <1>1 DEF Close, StoreTypeOK, OpenPaths
<1>6. ActiveFileIsOpen => ActiveFileIsOpen'
  BY <1>3 DEF Close, ActiveFileIsOpen, OpenPaths
<1>7. OthersKept(p)
  BY <1>2, <1>3 DEF OthersKept, OpenPaths
<1> QED  BY <1>2, <1>3, <1>4, <1>5, <1>6, <1>7 DEF StoreTypeOK, OpenPaths

LEMMA EditFacts ==
    ASSUME StoreTypeOK, NEW p \in Paths, NEW text \in Contents, Edit(p, text)
    PROVE  /\ StoreTypeOK' /\ (ActiveFileIsOpen => ActiveFileIsOpen')
           /\ p \in OpenPaths /\ OpenPaths' = OpenPaths
           /\ OthersKept(p)
<1>1. DOMAIN files \subseteq Paths /\ files \in [DOMAIN files -> OpenFile]
      /\ p \in OpenPaths
  BY FileMapMember DEF StoreTypeOK, Edit
<1>2. Edited(files[p], text) \in OpenFile
  BY <1>1, RecordFacts DEF OpenPaths
<1>3. files' = [files EXCEPT ![p] = Edited(files[p], text)]
  BY <1>1 DEF Edit
<1>4. DOMAIN files' = OpenPaths /\ files' \in [DOMAIN files' -> OpenFile]
      /\ \A q \in OpenPaths \ {p} : files'[q] = files[q]
  BY <1>1, <1>2, <1>3 DEF OpenPaths
<1>5. files' \in FileMap
  BY <1>1, <1>4, FileMapMember DEF OpenPaths
<1> QED  BY <1>1, <1>4, <1>5 DEF StoreTypeOK, OpenPaths, OthersKept, Edit, ActiveFileIsOpen

LEMMA SaveFacts ==
    ASSUME StoreTypeOK, NEW p \in Paths, Save(p)
    PROVE  /\ StoreTypeOK' /\ (ActiveFileIsOpen => ActiveFileIsOpen')
           /\ p \in OpenPaths /\ OpenPaths' = OpenPaths
           /\ OthersKept(p) /\ files'[p].buffer = files[p].buffer
<1>1. DOMAIN files \subseteq Paths /\ files \in [DOMAIN files -> OpenFile]
      /\ p \in OpenPaths
  BY FileMapMember DEF StoreTypeOK, Save
<1>2. Written(files[p]) \in OpenFile /\ Written(files[p]).buffer = files[p].buffer
      /\ files[p].buffer \in Contents
  BY <1>1, ContentsAssumption, RecordFacts DEF OpenPaths
<1>3. files' = [files EXCEPT ![p] = Written(files[p])]
  BY <1>1 DEF Save
<1>4. DOMAIN files' = OpenPaths /\ files' \in [DOMAIN files' -> OpenFile]
      /\ (\A q \in OpenPaths \ {p} : files'[q] = files[q])
      /\ files'[p] = Written(files[p])
  BY <1>1, <1>2, <1>3 DEF OpenPaths
<1>5. files' \in FileMap
  BY <1>1, <1>4, FileMapMember DEF OpenPaths
<1>6. disk' \in [Paths -> Contents \cup {Missing}]
  BY <1>2 DEF Save, StoreTypeOK
<1> QED  BY <1>1, <1>2, <1>4, <1>5, <1>6
         DEF StoreTypeOK, OpenPaths, OthersKept, Save, ActiveFileIsOpen

LEMMA SwitchFacts ==
    ASSUME StoreTypeOK, NEW p \in Paths, SwitchActive(p)
    PROVE  /\ StoreTypeOK' /\ ActiveFileIsOpen'
           /\ p \in OpenPaths /\ files' = files
BY DEF SwitchActive, StoreTypeOK, ActiveFileIsOpen, OpenPaths

LEMMA StoreSame ==
    ASSUME UNCHANGED storeVars
    PROVE  /\ files' = files /\ active' = active /\ disk' = disk
           /\ OpenPaths' = OpenPaths
           /\ (StoreTypeOK => StoreTypeOK') /\ (ActiveFileIsOpen => ActiveFileIsOpen')
BY DEF storeVars, OpenPaths, StoreTypeOK, ActiveFileIsOpen

-----------------------------------------------------------------------------
(* What is marshalled. *)

\* A handler may be writing a new text to p.
Typing(p) ==
    \E k \in Calls : EditOf(call[k], p) /\ call[k].pc = "sent"

LEMMA MarshalFacts ==
    ASSUME TypeOK, NEW p, NEW file \in File \cup {Live},
           file = Live => p \in OpenPaths, NEW f \in Marshalled(file, p)
    PROVE  /\ f \in File /\ f # Live
           /\ file # NoFile => f \in OpenFile /\ f # NoFile
           /\ file # Live => f = file
           /\ file = Live /\ ~Typing(p) => f.buffer = files[p].buffer
           /\ file = Live /\ (\A k \in Calls : call[k].pc # "sent") => f = files[p]
<1>1. CASE file # Live
  <2>1. f = file
    BY <1>1 DEF Marshalled
  <2> QED  BY <1>1, <2>1, NullAssumption DEF File
<1>2. CASE file = Live
  <2>1. p \in OpenPaths /\ files[p] \in OpenFile
    BY <1>2, FilesParts DEF TypeOK
  <2>2. PICK a, b, c \in Racing(p) :
          f = [disk |-> a.disk, buffer |-> b.buffer, status |-> c.status]
    BY <1>2 DEF Marshalled
  <2>3. ASSUME NEW g \in Racing(p)
        PROVE  /\ g \in OpenFile
               /\ ~Typing(p) => g.buffer = files[p].buffer
               /\ (\A k \in Calls : call[k].pc # "sent") => g = files[p]
    <3>1. CASE g = files[p]
      BY <2>1, <3>1
    <3>2. ASSUME NEW k \in Calls, k \in Writers(p), call[k].op = "edit",
                 g = Edited(files[p], call[k].text)
          PROVE  g \in OpenFile /\ Typing(p) /\ call[k].pc = "sent"
      BY <2>1, <3>2, CallParts, RecordFacts DEF Writers, Typing, EditOf
    <3>3. ASSUME NEW k \in Calls, k \in Writers(p), g = Written(files[p])
          PROVE  g \in OpenFile /\ g.buffer = files[p].buffer /\ call[k].pc = "sent"
      BY <2>1, <3>3, CallParts, RecordFacts DEF Writers
    <3>4. \/ g = files[p]
          \/ \E k \in Calls : k \in Writers(p) /\ call[k].op = "edit"
                              /\ g = Edited(files[p], call[k].text)
          \/ \E k \in Calls : k \in Writers(p) /\ g = Written(files[p])
      BY DEF Racing, Writers
    <3> QED  BY <3>1, <3>2, <3>3, <3>4
  <2>4. f \in OpenFile
    BY <2>2, <2>3 DEF OpenFile
  <2>5. ~Typing(p) => f.buffer = files[p].buffer
    BY <2>2, <2>3
  <2>6. (\A k \in Calls : call[k].pc # "sent") => f = files[p]
    <3> SUFFICES ASSUME \A k \in Calls : call[k].pc # "sent"
                 PROVE  f = files[p]
      OBVIOUS
    <3>1. a = files[p] /\ b = files[p] /\ c = files[p]
      BY <2>3
    <3>2. f = [disk |-> files[p].disk, buffer |-> files[p].buffer,
               status |-> files[p].status]
      BY <2>2, <3>1
    <3> QED  BY <2>1, <3>2 DEF OpenFile
  <2> QED  BY <1>2, <2>4, <2>5, <2>6, NullAssumption DEF File
<1> QED  BY <1>1, <1>2

-----------------------------------------------------------------------------
(* What a step does to the channel and the wire of a tab. *)

\* The events of a tab are as they were.
SameEvents(t) == queue'[t] = queue[t] /\ wire'[t] = wire[t]

EventOf(k) == [op |-> call[k].op, path |-> call[k].path, file |-> call[k].file,
               by |-> k[1]]

\* t is sent the event of k, or misses it.
SendsTo(k, t) ==
    /\ t \in call[k].todo /\ call[k].pc = "sending" /\ EventOf(k) \in Event
    /\ wire' = wire
    /\ \/ /\ queue' = [queue EXCEPT ![t] = Append(@, EventOf(k))]
          /\ Len(queue[t]) < Capacity
          /\ missed' = missed
       \/ queue' = queue /\ missed' = missed \cup {t}

LEMMA SendFacts ==
    ASSUME TypeOK, FormInv, NEW k \in Calls, NEW t \in Tabs, Send(k, t)
    PROVE  SendsTo(k, t) /\ UNCHANGED <<storeVars, tab, acts, overlap>>
<1>1. call[k].path \in Paths
  BY CallParts DEF Send, FormInv, CallForm
<1>2. EventOf(k) \in Event
  BY <1>1, CallParts DEF EventOf, Event, Calls
<1> QED  BY <1>2 DEF Send, SendsTo, EventOf, HasRoom

\* The first event of the channel goes on the wire, with what is marshalled.
ForwardsTo(t, e) ==
    /\ queue[t] # << >> /\ queue[t][1] \in Event /\ e \in Event
    /\ queue' = [queue EXCEPT ![t] = Tail(@)]
    /\ wire' = [wire EXCEPT ![t] = Append(@, e)]
    /\ e.op = queue[t][1].op /\ e.path = queue[t][1].path /\ e.file # Live
    /\ e.file \in Marshalled(queue[t][1].file, queue[t][1].path)

LEMMA EventParts ==
    ASSUME TypeOK, FormInv, NEW t \in Tabs
    PROVE  /\ queue[t] \in Seq(Event) /\ wire[t] \in Seq(Event)
           /\ \A i \in DOMAIN queue[t] : queue[t][i] \in Event /\ Carries(queue[t][i])
           /\ \A i \in DOMAIN wire[t] :
                wire[t][i] \in Event /\ Carries(wire[t][i]) /\ wire[t][i].file # Live
<1>1. queue[t] \in Seq(Event) /\ wire[t] \in Seq(Event)
  BY DEF TypeOK
<1>2. /\ \A i \in DOMAIN queue[t] : queue[t][i] \in Event
      /\ \A i \in DOMAIN wire[t] : wire[t][i] \in Event
  BY <1>1
<1> QED  BY <1>1, <1>2 DEF FormInv

LEMMA ForwardFacts ==
    ASSUME TypeOK, FormInv, NEW t \in Tabs, Forward(t)
    PROVE  /\ UNCHANGED <<storeVars, tab, call, acts, missed, overlap>>
           /\ \E e \in Event : ForwardsTo(t, e) /\ Carries(e)
<1>1. queue[t] # << >> /\ Head(queue[t]) = queue[t][1] /\ 1 \in DOMAIN queue[t]
  BY EventParts, TailFacts DEF Forward
<1> DEFINE h == queue[t][1]
<1>2. h \in Event /\ Carries(h) /\ h.file \in File \cup {Live} /\ h.path \in Paths
  BY <1>1, EventParts DEF Event
<1>3. PICK file \in Marshalled(h.file, h.path) :
        wire' = [wire EXCEPT ![t] = Append(@, [h EXCEPT !.file = file])]
  BY <1>1 DEF Forward
<1>4. file \in File /\ file # Live /\ (h.file # NoFile => file # NoFile)
  <2>1. h.file = Live => h.path \in OpenPaths
    BY <1>2 DEF Carries
  <2> HIDE DEF h
  <2> QED  BY <1>2, <2>1, MarshalFacts
<1> DEFINE e == [h EXCEPT !.file = file]
<1>5. e \in Event /\ e.op = h.op /\ e.path = h.path /\ e.file = file
  BY <1>2, <1>4 DEF Event
<1>6. Carries(e)
  BY <1>2, <1>4, <1>5 DEF Carries
<1>7. ForwardsTo(t, e)
  BY <1>1, <1>2, <1>3, <1>4, <1>5 DEF ForwardsTo, Forward
<1> QED  BY <1>5, <1>6, <1>7 DEF Forward

-----------------------------------------------------------------------------
(* The types. *)

LEMMA NoteType ==
    ASSUME TypeOK, NEW op \in Op, Act(op)
    PROVE  acts' \in 0..MaxActs /\ overlap' \in {"none", "edits", "any"}
BY SyncAssumption DEF TypeOK, Act, Note

\* Events and calls stay well-formed while no file is closed.
LEMMA FormSame ==
    ASSUME FormInv, OpenPaths \subseteq OpenPaths',
           UNCHANGED <<call, queue, wire>>
    PROVE  FormInv'
<1>1. ASSUME NEW x, Carries(x) PROVE Carries(x)'
  BY <1>1 DEF Carries
<1>2. ASSUME NEW k \in Calls PROVE CallForm(call[k])'
  <2>1. CallForm(call[k])
    BY DEF FormInv
  <2> QED  BY <1>1, <2>1 DEF CallForm, Carries
<1>3. ASSUME NEW t \in Tabs
      PROVE  /\ \A i \in DOMAIN queue'[t] : Carries(queue[t][i])'
             /\ \A i \in DOMAIN wire'[t] :
                  Carries(wire[t][i])' /\ wire'[t][i].file # Live
  BY DEF FormInv, Carries
<1> QED  BY <1>2, <1>3 DEF FormInv, Carries, CallForm

LEMMA FormCall ==
    ASSUME FormInv, OpenPaths \subseteq OpenPaths', NEW k \in Calls,
           CallForm(call[k])',
           \A j \in Calls \ {k} : call'[j] = call[j],
           UNCHANGED <<queue, wire>>
    PROVE  FormInv'
<1>1. ASSUME NEW j \in Calls PROVE CallForm(call[j])'
  BY DEF FormInv, CallForm, Carries
<1>2. ASSUME NEW t \in Tabs
      PROVE  /\ \A i \in DOMAIN queue'[t] : Carries(queue[t][i])'
             /\ \A i \in DOMAIN wire'[t] :
                  Carries(wire[t][i])' /\ wire'[t][i].file # Live
  BY DEF FormInv, Carries
<1> QED  BY <1>1, <1>2 DEF FormInv

LEMMA TabStepType ==
    ASSUME TypeInv, NEW t \in Tabs,
           \/ FetchList(t) \/ FetchActive(t) \/ Subscribe(t) \/ Disconnect(t)
           \/ Reload(t) \/ \E text \in Contents : Type(t, text)
    PROVE  TypeInv'
<1> USE DEF TypeInv
<1>1. tab' \in [Tabs -> TabType]
  BY FetchListTab, FetchActiveTab, StreamTab, ReloadTab, TypeTab
     DEF Subscribe, Disconnect, TabBecomes
<1>2. UNCHANGED <<storeVars, call>>
  BY DEF FetchList, FetchActive, Subscribe, Disconnect, Reload, Type
<1>3. acts' \in 0..MaxActs /\ overlap' \in {"none", "edits", "any"}
  <2>1. UNCHANGED <<acts, overlap>> \/ Act("edit")
    BY DEF FetchList, FetchActive, Subscribe, Disconnect, Reload, Type
  <2> QED  BY <2>1, NoteType DEF TypeOK, Op
<1>4. missed' \subseteq Tabs
  <2>1. missed \subseteq Tabs
    BY DEF TypeOK
  <2>2. missed' \subseteq missed \cup {t}
    BY DEF FetchList, FetchActive, Subscribe, Disconnect, Reload, Type
  <2> QED  BY <2>1, <2>2
<1>5. StoreTypeOK' /\ OpenPaths' = OpenPaths
  BY <1>2, StoreSame DEF TypeOK
<1>6. CASE UNCHANGED <<queue, wire>>
  BY <1>1, <1>2, <1>3, <1>4, <1>5, <1>6, FormSame DEF TypeOK, TabType
<1>7. CASE Disconnect(t)
  <2>1. queue' = [queue EXCEPT ![t] = << >>] /\ wire' = [wire EXCEPT ![t] = << >>]
    BY <1>7 DEF Disconnect
  <2>2. queue' \in [Tabs -> Seq(Event)] /\ wire' \in [Tabs -> Seq(Event)]
    BY <2>1 DEF TypeOK
  <2>3. queue'[t] = << >> /\ wire'[t] = << >>
        /\ \A u \in Tabs \ {t} : SameEvents(u)
    BY <2>1 DEF TypeOK, SameEvents
  <2>4. \A u \in Tabs : Len(queue'[u]) <= Capacity
    BY <2>3, SyncAssumption DEF TypeOK, SameEvents
  <2>5. ASSUME NEW u \in Tabs
        PROVE  /\ \A i \in DOMAIN queue'[u] : Carries(queue[u][i])'
               /\ \A i \in DOMAIN wire'[u] :
                    Carries(wire[u][i])' /\ wire'[u][i].file # Live
    BY <1>5, <2>3 DEF FormInv, Carries, SameEvents
  <2>6. \A k \in Calls : CallForm(call[k])'
    BY <1>2, <1>5 DEF FormInv, CallForm, Carries
  <2> QED  BY <1>1, <1>2, <1>3, <1>4, <1>5, <2>2, <2>4, <2>5, <2>6
           DEF TypeOK, TabType, FormInv
<1> QED  BY <1>6, <1>7 DEF FetchList, FetchActive, Subscribe, Reload, Type

LEMMA AskType ==
    ASSUME TypeInv, NEW t \in Tabs,
           \/ Push(t)
           \/ \E op \in Op \ {"edit"}, p \in Paths : Click(t, op, p)
    PROVE  TypeInv'
<1> USE DEF TypeInv
<1>1. tab' \in [Tabs -> TabType]
  BY PushTab, TabParts DEF Click, TabBecomes
<1>2. UNCHANGED <<storeVars, queue, wire, missed>>
  BY DEF Push, Click
<1>3. StoreTypeOK' /\ OpenPaths' = OpenPaths
  BY <1>2, StoreSame DEF TypeOK
<1>4. acts' \in 0..MaxActs /\ overlap' \in {"none", "edits", "any"}
  BY NoteType DEF TypeOK, Push, Click
<1>5. call' \in [Calls -> CallType] /\ FormInv'
  <2>1. CASE call' = call
    BY <1>2, <1>3, <2>1, FormSame DEF TypeOK, CallType
  <2>2. ASSUME NEW slot \in Slots, NEW op \in Op, NEW p \in Paths,
               NEW text \in Contents, Ask(t, slot, op, p, text)
        PROVE  call' \in [Calls -> CallType] /\ FormInv'
    <3> DEFINE k == <<t, slot>>
    <3>1. CallBecomes(k, "sent", op, p, text, NoFile, {}) /\ k \in Calls
      BY <2>2, AskCall DEF Calls
    <3> HIDE DEF k
    <3>2. CallForm(call[k])'
      BY <3>1, NullAssumption DEF CallBecomes, CallForm, File
    <3> QED  BY <1>2, <1>3, <3>1, <3>2, FormCall DEF CallBecomes
  <2>3. ASSUME Push(t), call' # call
        PROVE  Ask(t, "push", "edit", tab[t].focus, DocText(t))
               /\ tab[t].focus \in Paths /\ DocText(t) \in Contents
    BY <2>3, TabParts, ContentsAssumption DEF Push, DocText
  <2>4. ASSUME NEW op \in Op, NEW p \in Paths, Click(t, op, p)
        PROVE  Ask(t, "click", op, p, Empty) /\ Empty \in Contents
    BY <2>4, ContentsAssumption DEF Click
  <2> QED  BY <2>1, <2>2, <2>3, <2>4 DEF Slots, Op
<1> QED  BY <1>1, <1>2, <1>3, <1>4, <1>5 DEF TypeOK, TabType, CallType

\* A handler that closes nothing.
LEMMA ServeStays ==
    ASSUME TypeOK, FormInv, NEW k \in Calls, Serve(k), call[k].op # "close"
    PROVE  \E pc \in {"saved", "changed"}, file \in {Live, NoFile} :
             /\ CallBecomes(k, pc, call[k].op, call[k].path, call[k].text, file,
                            call[k].todo)
             /\ pc = "saved" <=> call[k].op = "save"
             /\ file = Live <=> call[k].op \in {"open", "edit"}
             /\ queue' = queue
<1>1. \E pc \in {"saved", "changed"}, file \in {Live, NoFile} :
        /\ Changed(k, pc, file)
        /\ pc = "saved" <=> call[k].op = "save"
        /\ file = Live <=> call[k].op \in {"open", "edit"}
        /\ queue' = queue
  BY NullAssumption DEF Serve, PointerTo, File
<1> QED  BY <1>1, ChangedCall DEF Pc, File

LEMMA ServeStore ==
    ASSUME TypeOK, FormInv, NEW k \in Calls, Serve(k)
    PROVE  /\ call[k].path \in Paths
           /\ StoreTypeOK' /\ (ActiveFileIsOpen => ActiveFileIsOpen')
           /\ OthersKept(call[k].path)
           /\ CASE call[k].op = "close" ->
                     /\ call[k].path \in OpenPaths
                     /\ OpenPaths' = OpenPaths \ {call[k].path}
                [] call[k].op = "open" ->
                     /\ call[k].path \notin OpenPaths
                     /\ OpenPaths' = OpenPaths \cup {call[k].path}
                [] OTHER ->
                     call[k].path \in OpenPaths /\ OpenPaths' = OpenPaths
           /\ call[k].op = "switch" => files' = files
           /\ call[k].op = "save" =>
                files'[call[k].path].buffer = files[call[k].path].buffer
           /\ UNCHANGED <<tab, wire, acts, overlap>>
<1> DEFINE c == call[k]
<1>1. c.path \in Paths /\ c.text \in Contents /\ c.op \in Op /\ StoreTypeOK
  BY CallParts DEF Serve, FormInv, CallForm, TypeOK
<1>2. UNCHANGED <<tab, wire, acts, overlap>>
  BY DEF Serve
<1> HIDE DEF c
<1>3. \/ c.op = "open" /\ Open(c.path)
      \/ c.op = "edit" /\ Edit(c.path, c.text)
      \/ c.op = "save" /\ Save(c.path)
      \/ c.op = "switch" /\ SwitchActive(c.path)
      \/ c.op = "close" /\ Close(c.path)
  BY DEF Serve, c
<1>4. CASE c.op = "open" /\ Open(c.path)
  BY <1>1, <1>2, <1>4, OpenFacts DEF c
<1>5. CASE c.op = "edit" /\ Edit(c.path, c.text)
  BY <1>1, <1>2, <1>5, EditFacts DEF c
<1>6. CASE c.op = "save" /\ Save(c.path)
  BY <1>1, <1>2, <1>6, SaveFacts DEF c
<1>7. CASE c.op = "switch" /\ SwitchActive(c.path)
  BY <1>1, <1>2, <1>7, SwitchFacts DEF c, OthersKept, OpenPaths
<1>8. CASE c.op = "close" /\ Close(c.path)
  BY <1>1, <1>2, <1>8, CloseFacts DEF c
<1> QED  BY <1>3, <1>4, <1>5, <1>6, <1>7, <1>8

\* Frozen records stay well-formed when p is closed.
LEMMA FreezeFacts ==
    ASSUME StoreTypeOK, NEW p \in OpenPaths, NEW x,
           x.file = Live => x.path \in OpenPaths,
           x \in CallType \/ x \in Event,
           OpenPaths' = OpenPaths \ {p}
    PROVE  /\ x \in CallType => Freeze(x, p) \in CallType
           /\ x \in Event => Freeze(x, p) \in Event
           /\ x \in CallType => /\ Freeze(x, p).pc = x.pc
                                /\ Freeze(x, p).todo = x.todo
           /\ Freeze(x, p).op = x.op /\ Freeze(x, p).path = x.path
           /\ Freeze(x, p).file = Live => x.path \in OpenPaths'
           /\ x.file # NoFile => Freeze(x, p).file # NoFile
           /\ x.file # Live => Freeze(x, p) = x
<1>1. files[p] \in OpenFile
  BY FilesParts
<1>2. files[p] \in File /\ files[p] # NoFile /\ files[p] # Live
  BY <1>1, NullAssumption DEF File
<1>3. CASE x.file = Live /\ x.path = p
  <2> DEFINE y == [x EXCEPT !.file = files[p]]
  <2>1. Freeze(x, p) = y
    BY <1>3 DEF Freeze
  <2>2. x \in CallType => y \in CallType /\ y.pc = x.pc /\ y.todo = x.todo
    BY <1>2 DEF CallType
  <2>3. x \in Event => y \in Event
    BY <1>2 DEF Event
  <2>4. y.op = x.op /\ y.path = x.path /\ y.file = files[p]
    BY DEF CallType, Event
  <2> QED  BY <1>2, <1>3, <2>1, <2>2, <2>3, <2>4
<1>4. CASE ~(x.file = Live /\ x.path = p)
  BY <1>4 DEF Freeze
<1> QED  BY <1>3, <1>4

LEMMA ServeType ==
    ASSUME TypeInv, NEW k \in Calls, Serve(k)
    PROVE  TypeInv'
<1> USE DEF TypeInv
<1>1. /\ StoreTypeOK' /\ call[k].path \in Paths
      /\ UNCHANGED <<tab, wire, acts, overlap>>
  BY ServeStore
<1>2. missed' \subseteq Tabs
  BY DEF Serve, TypeOK
<1>3. CASE call[k].op # "close"
  <2>1. PICK pc \in {"saved", "changed"}, file \in {Live, NoFile} :
          /\ CallBecomes(k, pc, call[k].op, call[k].path, call[k].text, file,
                         call[k].todo)
          /\ pc = "saved" <=> call[k].op = "save"
          /\ file = Live <=> call[k].op \in {"open", "edit"}
          /\ queue' = queue
    BY <1>3, ServeStays
  <2>2. OpenPaths \subseteq OpenPaths' /\ call[k].path \in OpenPaths'
    BY <1>3, ServeStore
  <2>3. call[k].todo = {}
    BY DEF Serve, FormInv, CallForm
  <2>4. CallForm(call[k])'
    BY <1>1, <2>1, <2>2, <2>3, NullAssumption DEF CallBecomes, CallForm, Carries, File
  <2>5. FormInv'
    BY <1>1, <2>1, <2>2, <2>4, FormCall DEF CallBecomes
  <2> QED  BY <1>1, <1>2, <2>1, <2>5 DEF TypeOK, CallBecomes, CallType
<1>4. CASE call[k].op = "close"
  <2> DEFINE p == call[k].path
  <2>1. /\ queue' = [t \in Tabs |-> [i \in DOMAIN queue[t] |-> Freeze(queue[t][i], p)]]
        /\ call' = [j \in Calls |->
                      IF j = k THEN [call[k] EXCEPT !.pc = "changed"]
                      ELSE Freeze(call[j], p)]
    BY <1>4 DEF Serve
  <2>2. StoreTypeOK /\ p \in OpenPaths /\ OpenPaths' = OpenPaths \ {p}
    BY <1>4, ServeStore DEF TypeOK
  <2> HIDE DEF p
  <2>3. ASSUME NEW j \in Calls
        PROVE  call'[j] \in CallType /\ CallForm(call[j])'
    <3>1. call[j] \in CallType /\ CallForm(call[j])
      BY DEF TypeOK, CallType, FormInv
    <3>2. CASE j = k
      <4>1. call'[j] = [call[k] EXCEPT !.pc = "changed"] /\ call[k].pc = "sent"
        BY <2>1, <3>2 DEF Serve
      <4>2. /\ call'[j] \in CallType /\ call'[j].pc = "changed"
            /\ call'[j].path = call[k].path /\ call'[j].op = "close"
            /\ call'[j].file = call[k].file /\ call'[j].todo = call[k].todo
        BY <1>4, <3>1, <3>2, <4>1 DEF CallType, Pc
      <4>3. call[k].file # Live /\ call[k].todo = {}
        BY <3>1, <3>2, <4>1 DEF CallForm
      <4> QED  BY <1>1, <4>2, <4>3 DEF CallForm, Carries
    <3>3. CASE j # k
      <4>1. call'[j] = Freeze(call[j], p)
        BY <2>1, <3>3
      <4>2. call[j].file = Live => call[j].path \in OpenPaths
        BY <3>1 DEF CallForm, Carries
      <4>3. /\ call'[j] \in CallType /\ call'[j].pc = call[j].pc
            /\ call'[j].todo = call[j].todo
            /\ call'[j].op = call[j].op /\ call'[j].path = call[j].path
            /\ call'[j].file = Live => call[j].path \in OpenPaths'
            /\ call[j].file # NoFile => call'[j].file # NoFile
            /\ call[j].file # Live => call'[j] = call[j]
        BY <2>2, <3>1, <4>1, <4>2, FreezeFacts
      <4> QED  BY <3>1, <4>3 DEF CallForm, Carries
    <3> QED  BY <3>2, <3>3
  <2>4. call' \in [Calls -> CallType]
    BY <2>1, <2>3
  <2>5. ASSUME NEW t \in Tabs
        PROVE  /\ queue'[t] \in Seq(Event) /\ Len(queue'[t]) <= Capacity
               /\ \A i \in DOMAIN queue'[t] : Carries(queue[t][i])'
    <3>1. queue'[t] = [i \in DOMAIN queue[t] |-> Freeze(queue[t][i], p)]
      BY <2>1
    <3>2. queue[t] \in Seq(Event) /\ Len(queue[t]) <= Capacity
      BY DEF TypeOK
    <3>3. ASSUME NEW i \in DOMAIN queue[t]
          PROVE  /\ Freeze(queue[t][i], p) \in Event
                 /\ Freeze(queue[t][i], p).op = queue[t][i].op
                 /\ Freeze(queue[t][i], p).path = queue[t][i].path
                 /\ Freeze(queue[t][i], p).file = Live => queue[t][i].path \in OpenPaths'
                 /\ queue[t][i].file # NoFile => Freeze(queue[t][i], p).file # NoFile
      <4>1. queue[t][i] \in Event /\ Carries(queue[t][i])
        BY EventParts
      <4> QED  BY <2>2, <4>1, FreezeFacts DEF Carries
    <3>4. /\ queue'[t] \in Seq(Event) /\ Len(queue'[t]) = Len(queue[t])
          /\ DOMAIN queue'[t] = DOMAIN queue[t]
      <4>1. DOMAIN queue[t] = 1..Len(queue[t]) /\ Len(queue[t]) \in Nat
        BY <3>2
      <4>2. queue'[t] \in [1..Len(queue[t]) -> Event]
        BY <3>1, <3>3, <4>1
      <4> QED  BY <4>1, <4>2
    <3>5. ASSUME NEW i \in DOMAIN queue[t] PROVE Carries(queue[t][i])'
      <4>1. Carries(queue[t][i]) /\ queue'[t][i] = Freeze(queue[t][i], p)
        BY <3>1, EventParts
      <4> QED  BY <3>3, <4>1 DEF Carries
    <3> QED  BY <3>2, <3>4, <3>5
  <2>6. queue' \in [Tabs -> Seq(Event)]
    BY <2>1, <2>5
  <2>7. ASSUME NEW t \in Tabs
        PROVE  \A i \in DOMAIN wire'[t] :
                 Carries(wire[t][i])' /\ wire'[t][i].file # Live
    BY <1>1 DEF FormInv, Carries
  <2>8. FormInv'
    BY <2>3, <2>5, <2>7 DEF FormInv
  <2> QED  BY <1>1, <1>2, <2>4, <2>5, <2>6, <2>8 DEF TypeOK, CallType
<1> QED  BY <1>3, <1>4

LEMMA AnswerFacts ==
    ASSUME TypeOK, FormInv, NEW k \in Calls, Answer(k)
    PROVE  \E file \in Marshalled(call[k].file, call[k].path) :
             /\ file \in File /\ file # Live
             /\ call[k].file # NoFile => file # NoFile
             /\ CallBecomes(k, "answered", call[k].op, call[k].path, call[k].text,
                            file, {})
<1>1. PICK file \in Marshalled(call[k].file, call[k].path) :
        Changed(k, "answered", file)
  BY DEF Answer
<1>2. call[k].file = Live => call[k].path \in OpenPaths
  BY NullAssumption DEF FormInv, CallForm, Carries, Answer
<1>3. call[k].file \in File \cup {Live}
  BY CallParts
<1>4. file \in File /\ file # Live /\ (call[k].file # NoFile => file # NoFile)
  BY <1>2, <1>3, MarshalFacts
<1>5. call[k].todo = {}
  BY DEF Answer
<1>6. CallBecomes(k, "answered", call[k].op, call[k].path, call[k].text, file,
                  call[k].todo)
  BY <1>1, <1>4, ChangedCall DEF Pc
<1> QED  BY <1>4, <1>5, <1>6

LEMMA RefuseFacts ==
    ASSUME TypeOK, NEW k \in Calls, Refuse(k)
    PROVE  /\ call[k].pc = "sent"
           /\ CallBecomes(k, "refused", call[k].op, call[k].path, call[k].text,
                          NoFile, call[k].todo)
BY ChangedCall DEF Refuse, Pc, File

LEMMA CopyFacts ==
    ASSUME TypeOK, FormInv, NEW k \in Calls, Copy(k)
    PROVE  /\ call[k].pc = "saved" /\ call[k].op = "save"
           /\ \E file \in File :
                /\ file = IF call[k].path \in OpenPaths THEN files[call[k].path]
                          ELSE NoFile
                /\ CallBecomes(k, "changed", "save", call[k].path, call[k].text,
                               file, call[k].todo)
<1> DEFINE f == IF call[k].path \in OpenPaths THEN files[call[k].path] ELSE NoFile
<1>1. f \in File
  BY FilesParts DEF File, TypeOK
<1>2. Changed(k, "changed", f) /\ call[k].pc = "saved"
  BY DEF Copy
<1>3. call[k].op = "save"
  BY <1>2 DEF FormInv, CallForm
<1> HIDE DEF f
<1>4. CallBecomes(k, "changed", call[k].op, call[k].path, call[k].text, f,
                  call[k].todo)
  BY <1>1, <1>2, ChangedCall DEF Pc
<1> QED  BY <1>1, <1>2, <1>3, <1>4 DEF f

LEMMA CallStepType ==
    ASSUME TypeInv, NEW k \in Calls,
           Refuse(k) \/ Copy(k) \/ Publish(k) \/ Answer(k)
    PROVE  TypeInv'
<1> USE DEF TypeInv
<1>1. UNCHANGED <<storeVars, tab, queue, wire, acts, missed, overlap>>
  BY DEF Refuse, Copy, Publish, Answer
<1>2. StoreTypeOK' /\ OpenPaths' = OpenPaths
  BY <1>1, StoreSame DEF TypeOK
<1>3. CallForm(call[k]) /\ call[k].file \in File \cup {Live}
  BY CallParts DEF FormInv
<1>4. call' \in [Calls -> CallType] /\ CallForm(call[k])'
      /\ \A j \in Calls \ {k} : call'[j] = call[j]
  <2>1. CASE Refuse(k)
    BY <1>3, <2>1, RefuseFacts, NullAssumption DEF CallBecomes, CallForm, File
  <2>2. CASE Copy(k)
    BY <1>3, <2>2, CopyFacts, NullAssumption DEF CallBecomes, CallForm, Carries, File
  <2>3. CASE Publish(k)
    <3>1. CallBecomes(k, "sending", call[k].op, call[k].path, call[k].text,
                      call[k].file, Subscribers) /\ call[k].pc = "changed"
      BY <2>3, PublishCall DEF Publish
    <3> QED  BY <1>2, <1>3, <3>1 DEF CallBecomes, CallForm, Carries
  <2>4. CASE Answer(k)
    <3>1. PICK file \in Marshalled(call[k].file, call[k].path) :
             /\ file \in File /\ file # Live
             /\ call[k].file # NoFile => file # NoFile
             /\ CallBecomes(k, "answered", call[k].op, call[k].path, call[k].text,
                            file, {})
      BY <2>4, AnswerFacts
    <3>2. call[k].pc = "sending"
      BY <2>4 DEF Answer
    <3> QED  BY <1>2, <1>3, <3>1, <3>2 DEF CallBecomes, CallForm, Carries
  <2> QED  BY <2>1, <2>2, <2>3, <2>4
<1> QED  BY <1>1, <1>2, <1>4, FormCall DEF TypeOK, TabType, CallType

LEMMA SendType ==
    ASSUME TypeInv, NEW k \in Calls, NEW t \in Tabs, Send(k, t)
    PROVE  TypeInv'
<1> USE DEF TypeInv
<1>1. SendsTo(k, t) /\ UNCHANGED <<storeVars, tab, acts, overlap>>
  BY SendFacts
<1>2. StoreTypeOK' /\ OpenPaths' = OpenPaths
  BY <1>1, StoreSame DEF TypeOK
<1>3. CallBecomes(k, call[k].pc, call[k].op, call[k].path, call[k].text,
                  call[k].file, call[k].todo \ {t})
  BY SendCall
<1>4. CallForm(call[k]) /\ call[k].pc = "sending"
  BY <1>1 DEF FormInv, SendsTo
<1>5. \A j \in Calls : CallForm(call[j])'
  BY <1>2, <1>3, <1>4 DEF FormInv, CallBecomes, CallForm, Carries
<1>6. Carries(EventOf(k))
  BY <1>4 DEF CallForm, Carries, EventOf
<1>7. CASE queue' = queue
  <2>1. FormInv'
    BY <1>1, <1>2, <1>5, <1>7 DEF FormInv, SendsTo, Carries
  <2> QED  BY <1>1, <1>2, <1>3, <1>7, <2>1
           DEF TypeOK, CallBecomes, CallType, SendsTo
<1>8. CASE queue' = [queue EXCEPT ![t] = Append(@, EventOf(k))]
           /\ Len(queue[t]) < Capacity /\ missed' = missed
  <2>1. queue'[t] = Append(queue[t], EventOf(k))
        /\ \A u \in Tabs \ {t} : queue'[u] = queue[u]
    BY <1>8 DEF TypeOK
  <2>2. EventOf(k) \in Event /\ queue[t] \in Seq(Event)
    BY <1>1, EventParts DEF SendsTo
  <2>3. /\ queue'[t] \in Seq(Event) /\ Len(queue'[t]) = Len(queue[t]) + 1
        /\ DOMAIN queue'[t] = DOMAIN queue[t] \cup {Len(queue[t]) + 1}
        /\ \A i \in DOMAIN queue[t] : queue'[t][i] = queue[t][i]
        /\ queue'[t][Len(queue[t]) + 1] = EventOf(k)
    BY <2>1, <2>2, AppendFacts
  <2>4. queue' \in [Tabs -> Seq(Event)]
    BY <1>8, <2>1, <2>3 DEF TypeOK
  <2>5. \A u \in Tabs : Len(queue'[u]) <= Capacity
    BY <1>8, <2>1, <2>2, <2>3, SyncAssumption DEF TypeOK
  <2>6. ASSUME NEW u \in Tabs
        PROVE  \A i \in DOMAIN queue'[u] : Carries(queue[u][i])'
    <3>1. CASE u # t
      BY <1>2, <2>1, <3>1 DEF FormInv, Carries
    <3>2. ASSUME NEW i \in DOMAIN queue[t]
          PROVE  Carries(queue[t][i])'
      BY <1>2, <2>3, <3>2 DEF FormInv, Carries
    <3>3. ASSUME NEW i, i = Len(queue[t]) + 1
          PROVE  Carries(queue[t][i])'
      BY <1>2, <1>6, <2>3, <3>3 DEF Carries
    <3> QED  BY <2>3, <3>1, <3>2, <3>3
  <2>7. ASSUME NEW u \in Tabs
        PROVE  \A i \in DOMAIN wire'[u] :
                 Carries(wire[u][i])' /\ wire'[u][i].file # Live
    BY <1>1, <1>2 DEF FormInv, SendsTo, Carries
  <2>8. FormInv'
    BY <1>5, <2>6, <2>7 DEF FormInv
  <2> QED  BY <1>1, <1>2, <1>3, <1>8, <2>4, <2>5, <2>8
           DEF TypeOK, CallBecomes, CallType, SendsTo
<1> QED  BY <1>1, <1>7, <1>8 DEF SendsTo

LEMMA ForwardType ==
    ASSUME TypeInv, NEW t \in Tabs, Forward(t)
    PROVE  TypeInv'
<1> USE DEF TypeInv
<1>1. UNCHANGED <<storeVars, tab, call, acts, missed, overlap>>
  BY ForwardFacts
<1>2. PICK e \in Event : ForwardsTo(t, e) /\ Carries(e)
  BY ForwardFacts
<1>3. StoreTypeOK' /\ OpenPaths' = OpenPaths
  BY <1>1, StoreSame DEF TypeOK
<1>4. /\ queue'[t] = Tail(queue[t]) /\ wire'[t] = Append(wire[t], e)
      /\ \A u \in Tabs \ {t} : SameEvents(u)
      /\ queue[t] # << >> /\ e.file # Live
  BY <1>2 DEF TypeOK, ForwardsTo, SameEvents
<1>5. /\ queue'[t] \in Seq(Event) /\ Len(queue'[t]) = Len(queue[t]) - 1
      /\ \A i \in DOMAIN queue'[t] :
           i + 1 \in DOMAIN queue[t] /\ queue'[t][i] = queue[t][i + 1]
  BY <1>4, EventParts, TailFacts
<1>6. /\ wire'[t] \in Seq(Event)
      /\ DOMAIN wire'[t] = DOMAIN wire[t] \cup {Len(wire[t]) + 1}
      /\ \A i \in DOMAIN wire[t] : wire'[t][i] = wire[t][i]
      /\ wire'[t][Len(wire[t]) + 1] = e
  BY <1>4, EventParts, AppendFacts
<1>7. queue' \in [Tabs -> Seq(Event)] /\ wire' \in [Tabs -> Seq(Event)]
  BY <1>2, <1>4, <1>5, <1>6 DEF TypeOK, ForwardsTo
<1>8. \A u \in Tabs : Len(queue'[u]) <= Capacity
  <2>1. Len(queue[t]) \in Nat /\ \A u \in Tabs : Len(queue[u]) <= Capacity
    BY EventParts DEF TypeOK
  <2>2. Len(queue'[t]) <= Capacity
    BY <1>5, <2>1, SyncAssumption
  <2> QED  BY <1>4, <2>1, <2>2 DEF SameEvents
<1>9. FormInv'
  <2>1. \A k \in Calls : CallForm(call[k])'
    BY <1>1, <1>3 DEF FormInv, CallForm, Carries
  <2>2. ASSUME NEW u \in Tabs
        PROVE  /\ \A i \in DOMAIN queue'[u] : Carries(queue[u][i])'
               /\ \A i \in DOMAIN wire'[u] :
                    Carries(wire[u][i])' /\ wire'[u][i].file # Live
    <3>1. CASE u = t
      <4>1. \A i \in DOMAIN queue'[t] : Carries(queue[t][i])'
        BY <1>3, <1>5 DEF FormInv, Carries
      <4>2. ASSUME NEW i \in DOMAIN wire'[t]
            PROVE  Carries(wire[t][i])' /\ wire'[t][i].file # Live
        <5>1. CASE i \in DOMAIN wire[t]
          BY <1>3, <1>6, <5>1 DEF FormInv, Carries
        <5>2. CASE i = Len(wire[t]) + 1
          BY <1>2, <1>3, <1>4, <1>6, <5>2 DEF Carries
        <5> QED  BY <1>6, <5>1, <5>2
      <4> QED  BY <3>1, <4>1, <4>2
    <3>2. CASE u # t
      BY <1>3, <1>4, <3>2 DEF FormInv, Carries, SameEvents
    <3> QED  BY <3>1, <3>2
  <2> QED  BY <2>1, <2>2 DEF FormInv
<1> QED  BY <1>1, <1>3, <1>7, <1>8, <1>9 DEF TypeOK

\* What a page makes of an answer or an event.
Dropped(t, p) ==
    LET mirror == MirrorDelete(tab[t].mirror, p) IN
    \E focus \in Paths \cup {NoPath} :
      /\ focus \in DOMAIN mirror \cup {NoPath, tab[t].focus} /\ focus # p
      /\ TabBecomes(t, tab[t].mode, mirror, focus, Rendered(mirror, focus),
                    tab[t].timer)

Switched(t, p) ==
    TabBecomes(t, tab[t].mode, tab[t].mirror, p, Rendered(tab[t].mirror, p),
               tab[t].timer)

Opened(t, p, f) ==
    LET mirror == MirrorPut(tab[t].mirror, p, f) IN
    TabBecomes(t, tab[t].mode, mirror, p, Rendered(mirror, p), tab[t].timer)

Mirrored(t, p, f) ==
    TabBecomes(t, tab[t].mode, MirrorPut(tab[t].mirror, p, f), tab[t].focus,
               tab[t].doc, tab[t].timer)

Updated(t, p, f) ==
    TabBecomes(t, tab[t].mode, MirrorPut(tab[t].mirror, p, f), tab[t].focus,
               IF p = tab[t].focus /\ DocText(t) # f.buffer
               THEN f.buffer ELSE tab[t].doc,
               tab[t].timer)

LEMMA ReceiveFacts ==
    ASSUME TypeOK, FormInv, NEW t \in Tabs, NEW slot \in Slots, Receive(t, slot),
           NEW c, c = call[<<t, slot>>]
    PROVE  /\ c.pc \in {"answered", "refused"} /\ c.path \in Paths
           /\ c.file \in File /\ c.op \in Op
           /\ \/ c.pc = "refused" /\ tab' = tab
              \/ c.pc = "answered" /\
                   \/ c.op = "open" /\ c.file \in OpenFile
                      /\ Opened(t, c.path, c.file)
                   \/ c.op \in {"edit", "save"} /\ c.file = NoFile /\ tab' = tab
                   \/ c.op \in {"edit", "save"} /\ c.file \in OpenFile
                      /\ Mirrored(t, c.path, c.file)
                   \/ c.op = "close" /\ Dropped(t, c.path)
                   \/ c.op = "switch" /\ Switched(t, c.path)
           /\ UNCHANGED <<storeVars, queue, wire, acts, missed, overlap>>
<1> DEFINE k == <<t, slot>>
<1>1. k \in Calls
  BY DEF Calls
<1>2. /\ c.pc \in Pc /\ c.op \in Op /\ c.path \in Paths \cup {NoPath}
      /\ c.file \in File \cup {Live} /\ CallForm(c)
  BY <1>1, CallParts DEF FormInv
<1>3. c.pc \in {"answered", "refused"}
  BY DEF Receive
<1>4. c.path \in Paths /\ c.file \in File
      /\ (c.pc = "answered" /\ c.op \in {"open", "edit"} => c.file # NoFile)
  BY <1>2, <1>3 DEF CallForm
<1> DEFINE m == MirrorPut(tab[t].mirror, c.path, c.file)
<1>5. c.file # NoFile => c.file \in OpenFile /\ m \in FileMap
  BY <1>4, TabParts, MirrorFacts DEF File
<1>6. UNCHANGED <<storeVars, queue, wire, acts, missed, overlap>>
  BY DEF Receive
<1>7. CASE c.pc = "refused"
  BY <1>2, <1>3, <1>4, <1>6, <1>7 DEF Receive
<1>8. CASE c.pc = "answered" /\ c.op = "open"
  <2>1. Navigate(t, m, c.path)
    BY <1>8 DEF Receive
  <2>2. Opened(t, c.path, c.file)
    BY <1>4, <1>5, <1>8, <2>1, NavigateTab DEF Opened
  <2> QED  BY <1>2, <1>4, <1>5, <1>6, <1>8, <2>2
<1>9. CASE c.pc = "answered" /\ c.op \in {"edit", "save"}
  <2>1. IF c.file = NoFile THEN tab' = tab
        ELSE tab' = [tab EXCEPT ![t].mirror = m]
    BY <1>9 DEF Receive
  <2>2. c.file # NoFile => Mirrored(t, c.path, c.file)
    BY <1>5, <2>1, MirrorTab DEF Mirrored
  <2> QED  BY <1>2, <1>4, <1>5, <1>6, <1>9, <2>1, <2>2
<1>10. CASE c.pc = "answered" /\ c.op = "close"
  <2>1. DropFile(t, c.path)
    BY <1>10 DEF Receive
  <2>2. Dropped(t, c.path)
    BY <1>4, <2>1, DropTab DEF Dropped
  <2> QED  BY <1>2, <1>4, <1>6, <1>10, <2>2
<1>11. CASE c.pc = "answered" /\ c.op = "switch"
  <2>1. Navigate(t, tab[t].mirror, c.path)
    BY <1>11 DEF Receive
  <2>2. Switched(t, c.path)
    BY <1>4, <2>1, TabParts, NavigateTab DEF Switched
  <2> QED  BY <1>2, <1>4, <1>6, <1>11, <2>2
<1> QED  BY <1>2, <1>3, <1>7, <1>8, <1>9, <1>10, <1>11 DEF Op

LEMMA HandleFacts ==
    ASSUME TypeOK, FormInv, NEW t \in Tabs, HandleEvent(t)
    PROVE  LET e == wire[t][1] IN
           /\ wire[t] # << >> /\ wire' = [wire EXCEPT ![t] = Tail(@)]
           /\ 1 \in DOMAIN wire[t] /\ e \in Event /\ e.path \in Paths
           /\ e.file \in File
           /\ \/ e.op \in {"edit", "save"} /\ e.file = NoFile /\ tab' = tab
              \/ e.op \in {"edit", "save"} /\ e.file \in OpenFile
                 /\ Updated(t, e.path, e.file)
              \/ e.op = "open" /\ e.file \in OpenFile
                 /\ Mirrored(t, e.path, e.file)
              \/ e.op = "close" /\ Dropped(t, e.path)
              \/ e.op = "switch" /\ Switched(t, e.path)
           /\ UNCHANGED <<storeVars, call, queue, acts, missed, overlap>>
<1> DEFINE e == wire[t][1]
<1>1. wire[t] # << >> /\ 1 \in DOMAIN wire[t] /\ e = Head(wire[t])
  BY EventParts, TailFacts DEF HandleEvent
<1>2. e \in Event /\ Carries(e) /\ e.file # Live
  BY <1>1, EventParts
<1>3. e.path \in Paths /\ e.file \in File /\ e.op \in Op
      /\ (e.op \in {"open", "edit"} => e.file # NoFile)
  BY <1>2 DEF Event, Carries
<1>4. /\ wire' = [wire EXCEPT ![t] = Tail(@)]
      /\ UNCHANGED <<storeVars, call, queue, acts, missed, overlap>>
  BY DEF HandleEvent
<1>5. /\ e.op \in {"edit", "save"} =>
           IF e.file = NoFile THEN tab' = tab ELSE ApplyRemoteFile(t, e.path, e.file)
      /\ e.op = "open" =>
           tab' = [tab EXCEPT ![t].mirror = MirrorPut(@, e.path, e.file)]
      /\ e.op = "close" => DropFile(t, e.path)
      /\ e.op = "switch" => Navigate(t, tab[t].mirror, e.path)
  BY <1>1, <1>3 DEF HandleEvent, Op
<1> HIDE DEF e
<1>6. CASE e.op \in {"edit", "save"} /\ e.file = NoFile
  BY <1>1, <1>2, <1>3, <1>4, <1>5, <1>6 DEF e
<1>7. CASE e.op \in {"edit", "save"} /\ e.file # NoFile
  <2>1. ApplyRemoteFile(t, e.path, e.file) /\ e.file \in OpenFile
    BY <1>3, <1>5, <1>7 DEF File
  <2>2. Updated(t, e.path, e.file)
    BY <1>3, <2>1, RemoteTab DEF Updated
  <2> QED  BY <1>1, <1>2, <1>3, <1>4, <1>7, <2>1, <2>2 DEF e
<1>8. CASE e.op = "open"
  <2>1. tab' = [tab EXCEPT ![t].mirror = MirrorPut(tab[t].mirror, e.path, e.file)]
        /\ e.file \in OpenFile
    BY <1>3, <1>5, <1>8, TabParts DEF File
  <2>2. MirrorPut(tab[t].mirror, e.path, e.file) \in FileMap
    BY <1>3, <2>1, TabParts, MirrorFacts
  <2>3. Mirrored(t, e.path, e.file)
    BY <2>1, <2>2, MirrorTab DEF Mirrored
  <2> QED  BY <1>1, <1>2, <1>3, <1>4, <1>8, <2>1, <2>3 DEF e
<1>9. CASE e.op = "close"
  <2>1. Dropped(t, e.path)
    BY <1>3, <1>5, <1>9, DropTab DEF Dropped
  <2> QED  BY <1>1, <1>2, <1>3, <1>4, <1>9, <2>1 DEF e
<1>10. CASE e.op = "switch"
  <2>1. Switched(t, e.path)
    BY <1>3, <1>5, <1>10, TabParts, NavigateTab DEF Switched
  <2> QED  BY <1>1, <1>2, <1>3, <1>4, <1>10, <2>1 DEF e
<1> QED  BY <1>3, <1>6, <1>7, <1>8, <1>9, <1>10 DEF Op

LEMMA ReceiveType ==
    ASSUME TypeInv, NEW t \in Tabs, NEW slot \in Slots, Receive(t, slot)
    PROVE  TypeInv'
<1> USE DEF TypeInv
<1> DEFINE k == <<t, slot>>
<1>1. /\ UNCHANGED <<storeVars, queue, wire, acts, missed, overlap>>
      /\ tab' \in [Tabs -> TabType]
  BY ReceiveFacts, TabParts
     DEF Opened, Mirrored, Dropped, Switched, TabBecomes
<1>2. CallBecomes(k, "idle", "edit", NoPath, Empty, NoFile, {}) /\ k \in Calls
  BY ReceiveCall DEF Calls
<1>3. StoreTypeOK' /\ OpenPaths' = OpenPaths
  BY <1>1, StoreSame DEF TypeOK
<1> HIDE DEF k
<1>4. CallForm(call[k])'
  BY <1>2, NullAssumption DEF CallBecomes, CallForm, File
<1>5. FormInv'
  BY <1>1, <1>2, <1>3, <1>4, FormCall DEF CallBecomes
<1> QED  BY <1>1, <1>2, <1>3, <1>5 DEF TypeOK, TabType, CallType, CallBecomes

\* The first event of the wire is gone, the rest moves up.
LEMMA Consumed ==
    ASSUME TypeOK, FormInv, NEW t \in Tabs, wire[t] # << >>,
           wire' = [wire EXCEPT ![t] = Tail(@)]
    PROVE  /\ \A u \in Tabs \ {t} : wire'[u] = wire[u]
           /\ wire' \in [Tabs -> Seq(Event)]
           /\ Len(wire'[t]) = Len(wire[t]) - 1
           /\ \A i \in DOMAIN wire'[t] :
                i \in Nat \ {0} /\ i + 1 \in DOMAIN wire[t]
                /\ wire'[t][i] = wire[t][i + 1]
           /\ \A i \in DOMAIN wire[t] : i > 1 => i - 1 \in DOMAIN wire'[t]
<1>1. wire'[t] = Tail(wire[t]) /\ \A u \in Tabs \ {t} : wire'[u] = wire[u]
  BY DEF TypeOK
<1>2. /\ Tail(wire[t]) \in Seq(Event)
      /\ Len(Tail(wire[t])) = Len(wire[t]) - 1
      /\ \A i \in DOMAIN Tail(wire[t]) :
           i \in Nat \ {0} /\ i + 1 \in DOMAIN wire[t]
           /\ Tail(wire[t])[i] = wire[t][i + 1]
      /\ \A i \in DOMAIN wire[t] : i > 1 => i - 1 \in DOMAIN Tail(wire[t])
  BY EventParts, TailFacts
<1>3. wire' \in [Tabs -> Seq(Event)]
  BY <1>2 DEF TypeOK
<1> QED  BY <1>1, <1>2, <1>3

LEMMA HandleType ==
    ASSUME TypeInv, NEW t \in Tabs, HandleEvent(t)
    PROVE  TypeInv'
<1> USE DEF TypeInv
<1>1. /\ UNCHANGED <<storeVars, call, queue, acts, missed, overlap>>
      /\ tab' \in [Tabs -> TabType]
      /\ wire[t] # << >> /\ wire' = [wire EXCEPT ![t] = Tail(@)]
  BY HandleFacts, TabParts
     DEF Updated, Mirrored, Dropped, Switched, TabBecomes
<1>2. StoreTypeOK' /\ OpenPaths' = OpenPaths
  BY <1>1, StoreSame DEF TypeOK
<1>3. /\ wire' \in [Tabs -> Seq(Event)]
      /\ \A u \in Tabs \ {t} : wire'[u] = wire[u]
      /\ \A i \in DOMAIN wire'[t] :
           i + 1 \in DOMAIN wire[t] /\ wire'[t][i] = wire[t][i + 1]
  BY <1>1, Consumed
<1>4. ASSUME NEW u \in Tabs
      PROVE  /\ \A i \in DOMAIN queue'[u] : Carries(queue[u][i])'
             /\ \A i \in DOMAIN wire'[u] :
                  Carries(wire[u][i])' /\ wire'[u][i].file # Live
  <2>1. CASE u = t
    BY <1>1, <1>2, <1>3, <2>1 DEF FormInv, Carries
  <2>2. CASE u # t
    BY <1>1, <1>2, <1>3, <2>2 DEF FormInv, Carries
  <2> QED  BY <2>1, <2>2
<1>5. \A k \in Calls : CallForm(call[k])'
  BY <1>1, <1>2 DEF FormInv, CallForm, Carries
<1>6. FormInv'
  BY <1>4, <1>5 DEF FormInv
<1> QED  BY <1>1, <1>2, <1>3, <1>6 DEF TypeOK, TabType

LEMMA TypeStart == Init => TypeInv
<1> SUFFICES ASSUME Init PROVE TypeInv
  OBVIOUS
<1>1. PICK S \in SUBSET Paths :
        /\ files = [p \in S |-> FreshFile(disk[p])]
        /\ active \in IF S = {} THEN {NoPath} ELSE S
  BY DEF Init
<1>2. disk \in [Paths -> Contents]
  BY DEF Init
<1>3. \A p \in S : FreshFile(disk[p]) \in OpenFile
  BY <1>2 DEF FreshFile, OpenFile
<1>4. files \in FileMap
  BY <1>1, <1>3, FileMapMember
<1>5. StoreTypeOK
  BY <1>1, <1>2, <1>4 DEF StoreTypeOK
<1>6. Blank \in TabType
  <2>1. DOMAIN << >> = {} /\ << >> \in [{} -> OpenFile]
    OBVIOUS
  <2>2. << >> \in FileMap
    BY <2>1, FileMapMember
  <2> QED  BY <2>2 DEF Blank, TabType, Mode
<1>7. Idle \in CallType
  BY ContentsAssumption DEF Idle, CallType, Pc, Op, File
<1>8. tab \in [Tabs -> TabType] /\ call \in [Calls -> CallType]
  BY <1>6, <1>7 DEF Init
<1>9. queue \in [Tabs -> Seq(Event)] /\ wire \in [Tabs -> Seq(Event)]
      /\ \A t \in Tabs : Len(queue[t]) <= Capacity
  BY SyncAssumption DEF Init
<1>10. FormInv
  <2>1. \A k \in Calls : call[k] = Idle
    BY DEF Init
  <2>2. CallForm(Idle)
    BY NullAssumption DEF CallForm, Idle, File
  <2>3. \A t \in Tabs : queue[t] = << >> /\ wire[t] = << >>
    BY DEF Init
  <2> QED  BY <2>1, <2>2, <2>3 DEF FormInv
<1>11. TypeOK
  BY <1>5, <1>8, <1>9, SyncAssumption DEF Init, TypeOK, TabType, CallType
<1> QED  BY <1>10, <1>11 DEF TypeInv

LEMMA TypeStep == TypeInv /\ [Next]_vars => TypeInv'
<1> SUFFICES ASSUME TypeInv, [Next]_vars PROVE TypeInv'
  OBVIOUS
<1>1. ASSUME NEW t \in Tabs,
             \/ FetchList(t) \/ FetchActive(t) \/ Subscribe(t) \/ Disconnect(t)
             \/ Reload(t) \/ \E text \in Contents : Type(t, text)
      PROVE  TypeInv'
  BY <1>1, TabStepType
<1>2. ASSUME NEW t \in Tabs,
             \/ Push(t)
             \/ \E op \in Op \ {"edit"}, p \in Paths : Click(t, op, p)
      PROVE  TypeInv'
  BY <1>2, AskType
<1>3. ASSUME NEW t \in Tabs,
             Forward(t) \/ HandleEvent(t) \/ \E slot \in Slots : Receive(t, slot)
      PROVE  TypeInv'
  BY <1>3, ForwardType, HandleType, ReceiveType
<1>4. ASSUME NEW k \in Calls,
             \/ Serve(k) \/ Refuse(k) \/ Copy(k) \/ Publish(k) \/ Answer(k)
             \/ \E t \in Tabs : Send(k, t)
      PROVE  TypeInv'
  BY <1>4, ServeType, CallStepType, SendType
<1>5. CASE UNCHANGED vars
  <2>1. UNCHANGED <<storeVars, tab, call, queue, wire, acts, missed, overlap>>
    BY <1>5 DEF vars
  <2>2. StoreTypeOK' /\ OpenPaths' = OpenPaths
    BY <2>1, StoreSame DEF TypeInv, TypeOK
  <2>3. FormInv'
    BY <2>1, <2>2, FormSame DEF TypeInv
  <2> QED  BY <2>1, <2>2, <2>3 DEF TypeInv, TypeOK
<1> QED  BY <1>1, <1>2, <1>3, <1>4, <1>5 DEF Next

(***************************************************************************)
(* Whatever the tabs, the handlers and the streams do, the state is        *)
(* well-formed: no channel holds more than its capacity, and no page takes *)
(* a null or a pointer for a file.                                         *)
(***************************************************************************)
THEOREM TypeCorrect == Spec => []TypeOK
<1>1. TypeInv => TypeOK
  BY DEF TypeInv
<1> QED  BY <1>1, TypeStart, TypeStep, PTL DEF Spec

-----------------------------------------------------------------------------
(* Who listens. *)

LEMMA ListenSame ==
    ASSUME NEW u \in Tabs, ListenOf(u), tab'[u] = tab[u], SameEvents(u),
           \A k \in Calls : call'[k].todo \subseteq call[k].todo,
           \A s \in Slots :
             call[<<u, s>>].pc = "idle" => call'[<<u, s>>].pc = "idle",
           u \in missed => u \in missed',
           tab[u].mode = "listed" /\ u \notin missed' => files' = files
    PROVE  ListenOf(u)'
BY DEF ListenOf, SameEvents, Quiet

\* A tab that is on, and stays so, may be sent and may do anything.
LEMMA ListenOn ==
    ASSUME NEW u \in Tabs, tab'[u].mode = "on"
    PROVE  ListenOf(u)'
BY DEF ListenOf

LEMMA ListenTab ==
    ASSUME TypeInv, ListenInv, NEW t \in Tabs,
           \/ FetchList(t) \/ FetchActive(t) \/ Subscribe(t) \/ Disconnect(t)
           \/ Reload(t) \/ \E text \in Contents : Type(t, text)
    PROVE  ListenInv'
<1> USE DEF TypeInv
<1>1. UNCHANGED <<storeVars, call>>
  BY DEF FetchList, FetchActive, Subscribe, Disconnect, Reload, Type
<1>2. ActiveFileIsOpen' /\ files' = files
  BY <1>1, StoreSame DEF ListenInv
<1>3. ListenOf(t)'
  <2>1. CASE FetchList(t)
    <3>1. tab[t].mode = "off" /\ UNCHANGED <<queue, wire>>
      BY <2>1 DEF FetchList
    <3>2. TabBecomes(t, "listed", files, tab[t].focus, tab[t].doc, tab[t].timer)
      BY <2>1, FetchListTab
    <3> QED  BY <1>1, <1>2, <3>1, <3>2 DEF ListenInv, ListenOf, TabBecomes, Quiet
  <2>2. CASE FetchActive(t)
    BY <1>1, <1>2, <2>2, FetchActiveTab DEF ListenInv, ListenOf, FetchActive, TabBecomes, Quiet
  <2>3. CASE Subscribe(t)
    BY <2>3, StreamTab, ListenOn DEF Subscribe, TabBecomes
  <2>4. CASE Disconnect(t)
    <3>1. tab'[t].mode = "lost"
      BY <2>4, StreamTab DEF Disconnect, TabBecomes
    <3>2. queue'[t] = << >> /\ wire'[t] = << >>
      BY <2>4 DEF Disconnect, TypeOK
    <3>3. \A k \in Calls : call'[k].todo = {}
      BY <1>1, <2>4 DEF Disconnect, FormInv, CallForm
    <3> QED  BY <3>1, <3>2, <3>3 DEF ListenOf, Quiet
  <2>5. CASE Reload(t)
    BY <1>1, <2>5, ReloadTab DEF ListenInv, ListenOf, Reload, TabBecomes, Quiet
  <2>6. ASSUME NEW text \in Contents, Type(t, text) PROVE ListenOf(t)'
    BY <1>1, <2>6, TypeTab DEF ListenInv, ListenOf, Type, TabBecomes, Quiet, Shown
  <2> QED  BY <2>1, <2>2, <2>3, <2>4, <2>5, <2>6
<1>4. ASSUME NEW u \in Tabs \ {t} PROVE ListenOf(u)'
  <2>1. tab'[u] = tab[u]
    <3>1. CASE FetchList(t) \/ FetchActive(t) \/ Reload(t)
      BY <3>1, FetchListTab, FetchActiveTab, ReloadTab DEF TabBecomes
    <3>2. CASE Subscribe(t) \/ Disconnect(t)
      BY <3>2, StreamTab DEF TabBecomes, Subscribe, Disconnect
    <3>3. ASSUME NEW text \in Contents, Type(t, text) PROVE tab'[u] = tab[u]
      BY <3>3, TypeTab DEF TabBecomes
    <3> QED  BY <3>1, <3>2, <3>3
  <2>2. SameEvents(u)
    BY DEF SameEvents, FetchList, FetchActive, Subscribe, Disconnect, Reload, Type, TypeOK
  <2>3. u \in missed => u \in missed'
    BY DEF FetchList, FetchActive, Subscribe, Disconnect, Reload, Type
  <2> QED  BY <1>1, <1>2, <2>1, <2>2, <2>3, ListenSame DEF ListenInv
<1> QED  BY <1>2, <1>3, <1>4 DEF ListenInv

\* What a page asks for.
Asks(t, slot, op, p) ==
    /\ <<t, slot>> \in Calls /\ call[<<t, slot>>].pc = "idle"
    /\ \E text \in Contents :
         CallBecomes(<<t, slot>>, "sent", op, p, text, NoFile, {})

LEMMA AskFacts ==
    ASSUME TypeOK, NEW t \in Tabs
    PROVE  /\ Push(t) =>
                /\ UNCHANGED <<storeVars, queue, wire, acts, missed, overlap>>
                /\ tab[t].timer
                /\ TabBecomes(t, tab[t].mode, tab[t].mirror, tab[t].focus,
                              tab[t].doc, FALSE)
                /\ \/ tab[t].focus = NoPath /\ call' = call
                   \/ tab[t].focus \in Paths
                      /\ Asks(t, "push", "edit", tab[t].focus)
           /\ \A op \in Op \ {"edit"}, p \in Paths : Click(t, op, p) =>
                /\ UNCHANGED <<storeVars, tab, queue, wire, missed>>
                /\ tab[t].mode \in Shown /\ Act(op)
                /\ Asks(t, "click", op, p)
<1>1. ASSUME Push(t)
      PROVE  /\ UNCHANGED <<storeVars, queue, wire, acts, missed, overlap>>
             /\ tab[t].timer
             /\ TabBecomes(t, tab[t].mode, tab[t].mirror, tab[t].focus,
                           tab[t].doc, FALSE)
             /\ \/ tab[t].focus = NoPath /\ call' = call
                \/ tab[t].focus \in Paths
                   /\ Asks(t, "push", "edit", tab[t].focus)
  <2>1. CASE tab[t].focus = NoPath
    BY <1>1, <2>1, PushTab DEF Push
  <2>2. CASE tab[t].focus # NoPath
    <3>1. Ask(t, "push", "edit", tab[t].focus, DocText(t))
      BY <1>1, <2>2 DEF Push
    <3>2. tab[t].focus \in Paths /\ DocText(t) \in Contents
      BY <2>2, TabParts, ContentsAssumption DEF DocText
    <3>3. CallBecomes(<<t, "push">>, "sent", "edit", tab[t].focus, DocText(t),
                      NoFile, {})
      BY <3>1, <3>2, AskCall DEF Slots, Op
    <3>4. Asks(t, "push", "edit", tab[t].focus)
      BY <3>1, <3>2, <3>3 DEF Asks, Ask, Calls, Slots
    <3> QED  BY <1>1, <3>2, <3>4, PushTab DEF Push
  <2> QED  BY <2>1, <2>2
<1>2. ASSUME NEW op \in Op \ {"edit"}, NEW p \in Paths, Click(t, op, p)
      PROVE  /\ UNCHANGED <<storeVars, tab, queue, wire, missed>>
             /\ tab[t].mode \in Shown /\ Act(op)
             /\ Asks(t, "click", op, p)
  <2>1. Ask(t, "click", op, p, Empty)
    BY <1>2 DEF Click
  <2>2. CallBecomes(<<t, "click">>, "sent", op, p, Empty, NoFile, {})
    BY <2>1, AskCall, ContentsAssumption DEF Slots
  <2>3. Asks(t, "click", op, p)
    BY <2>1, <2>2, ContentsAssumption DEF Asks, Ask, Calls, Slots
  <2> QED  BY <1>2, <2>3 DEF Click
<1> QED  BY <1>1, <1>2

LEMMA ListenAsk ==
    ASSUME TypeInv, ListenInv, NEW t \in Tabs,
           \/ Push(t)
           \/ \E op \in Op \ {"edit"}, p \in Paths : Click(t, op, p)
    PROVE  ListenInv'
<1> USE DEF TypeInv
<1>1. UNCHANGED <<storeVars, queue, wire, missed>>
  BY DEF Push, Click
<1>2. ActiveFileIsOpen' /\ files' = files
  BY <1>1, StoreSame DEF ListenInv
<1>3. /\ \A u \in Tabs \ {t} : tab'[u] = tab[u]
      /\ tab'[t].mode = tab[t].mode
  BY PushTab DEF TabBecomes, Click
<1>4. tab[t].mode \in Shown
  BY TabParts DEF ListenInv, ListenOf, Push, Click, Shown, Mode
<1>5. \A k \in Calls :
        /\ call'[k].todo \subseteq call[k].todo
        /\ (\A s \in Slots : k # <<t, s>>) => call'[k] = call[k]
  <2>1. \/ call' = call
        \/ \E slot \in Slots, op \in Op, p \in Paths : Asks(t, slot, op, p)
    BY AskFacts DEF Slots, Op
  <2> QED  BY <2>1 DEF Asks, CallBecomes
<1>6. ListenOf(t)'
  BY <1>1, <1>3, <1>4, <1>5 DEF ListenInv, ListenOf, Quiet, Shown
<1>7. ASSUME NEW u \in Tabs \ {t} PROVE ListenOf(u)'
  <2>1. \A s \in Slots : call'[<<u, s>>] = call[<<u, s>>]
    BY <1>5 DEF Calls
  <2> QED  BY <1>1, <1>2, <1>3, <1>5, <2>1, ListenSame DEF ListenInv, SameEvents
<1> QED  BY <1>2, <1>6, <1>7 DEF ListenInv

\* Call k goes on; the others stay as they are.
LEMMA ListenCall ==
    ASSUME TypeInv, ListenInv, NEW k \in Calls, call[k].pc # "idle",
           UNCHANGED <<storeVars, tab, queue, wire, missed>>,
           \A j \in Calls \ {k} : call'[j] = call[j],
           call'[k].todo \subseteq call[k].todo \cup Subscribers
    PROVE  ListenInv'
<1>1. ActiveFileIsOpen' /\ files' = files
  BY StoreSame DEF ListenInv
<1>2. ASSUME NEW u \in Tabs PROVE ListenOf(u)'
  <2>1. CASE tab[u].mode = "on"
    BY <2>1, ListenOn
  <2>2. CASE tab[u].mode # "on"
    <3>1. ListenOf(u) /\ u \notin Subscribers
      BY <2>2 DEF ListenInv, Subscribers
    <3>2. \A j \in Calls : u \notin call'[j].todo
      BY <2>2, <3>1 DEF ListenOf
    <3>3. \A s \in Slots :
             call[<<u, s>>].pc = "idle" => call'[<<u, s>>].pc = "idle"
      BY DEF Calls
    <3> QED  BY <1>1, <2>2, <3>1, <3>2, <3>3 DEF ListenOf, Quiet
  <2> QED  BY <2>1, <2>2
<1> QED  BY <1>1, <1>2 DEF ListenInv

LEMMA ListenCallStep ==
    ASSUME TypeInv, ListenInv, NEW k \in Calls,
           Refuse(k) \/ Copy(k) \/ Publish(k) \/ Answer(k)
    PROVE  ListenInv'
<1>1. UNCHANGED <<storeVars, tab, queue, wire, missed>> /\ call[k].pc # "idle"
  BY DEF Refuse, Copy, Publish, Answer
<1>2. /\ \A j \in Calls \ {k} : call'[j] = call[j]
      /\ call'[k].todo \subseteq call[k].todo \cup Subscribers
  BY RefuseFacts, CopyFacts, PublishCall, AnswerFacts DEF TypeInv, CallBecomes
<1> QED  BY <1>1, <1>2, ListenCall

LEMMA ListenSend ==
    ASSUME TypeInv, ListenInv, NEW k \in Calls, NEW t \in Tabs, Send(k, t)
    PROVE  ListenInv'
<1>1. SendsTo(k, t) /\ UNCHANGED <<storeVars, tab>>
  BY SendFacts DEF TypeInv
<1>2. ActiveFileIsOpen' /\ files' = files
  BY <1>1, StoreSame DEF ListenInv
<1>3. CallBecomes(k, call[k].pc, call[k].op, call[k].path, call[k].text,
                  call[k].file, call[k].todo \ {t})
  BY SendCall DEF TypeInv
<1>4. tab[t].mode = "on"
  BY <1>1 DEF ListenInv, ListenOf, SendsTo
<1>5. ASSUME NEW u \in Tabs \ {t} PROVE ListenOf(u)'
  <2>1. SameEvents(u) /\ (u \in missed => u \in missed')
    BY <1>1 DEF SendsTo, SameEvents, TypeInv, TypeOK
  <2>2. \A s \in Slots : call'[<<u, s>>].pc = call[<<u, s>>].pc
    BY <1>3 DEF CallBecomes, Calls
  <2> QED  BY <1>1, <1>2, <1>3, <2>1, <2>2, ListenSame DEF ListenInv, CallBecomes
<1>6. ListenOf(t)'
  BY <1>1, <1>4, ListenOn
<1> QED  BY <1>2, <1>5, <1>6 DEF ListenInv

LEMMA ListenForward ==
    ASSUME TypeInv, ListenInv, NEW t \in Tabs, Forward(t)
    PROVE  ListenInv'
<1>1. UNCHANGED <<storeVars, tab, call, missed>>
  BY ForwardFacts DEF TypeInv
<1>2. PICK e \in Event : ForwardsTo(t, e)
  BY ForwardFacts DEF TypeInv
<1>3. ActiveFileIsOpen' /\ files' = files
  BY <1>1, StoreSame DEF ListenInv
<1>4. tab[t].mode = "on"
  BY <1>2 DEF ListenInv, ListenOf, ForwardsTo, Quiet
<1>5. \A u \in Tabs \ {t} : SameEvents(u)
  BY <1>2 DEF ForwardsTo, SameEvents, TypeInv, TypeOK
<1> QED  BY <1>1, <1>3, <1>4, <1>5, ListenOn, ListenSame DEF ListenInv

LEMMA ListenHandle ==
    ASSUME TypeInv, ListenInv, NEW t \in Tabs, HandleEvent(t)
    PROVE  ListenInv'
<1>1. /\ UNCHANGED <<storeVars, call, queue, missed>>
      /\ wire[t] # << >> /\ wire' = [wire EXCEPT ![t] = Tail(@)]
      /\ tab'[t].mode = tab[t].mode /\ \A u \in Tabs \ {t} : tab'[u] = tab[u]
  BY HandleFacts DEF TypeInv, Updated, Mirrored, Dropped, Switched, TabBecomes
<1>2. ActiveFileIsOpen' /\ files' = files
  BY <1>1, StoreSame DEF ListenInv
<1>3. tab[t].mode = "on"
  BY <1>1 DEF ListenInv, ListenOf, Quiet
<1>4. \A u \in Tabs \ {t} : SameEvents(u)
  BY <1>1 DEF SameEvents, TypeInv, TypeOK
<1> QED  BY <1>1, <1>2, <1>3, <1>4, ListenOn, ListenSame DEF ListenInv

LEMMA ListenReceive ==
    ASSUME TypeInv, ListenInv, NEW t \in Tabs, NEW slot \in Slots, Receive(t, slot)
    PROVE  ListenInv'
<1> DEFINE k == <<t, slot>>
<1>1. /\ UNCHANGED <<storeVars, queue, wire, missed>>
      /\ tab'[t].mode = tab[t].mode /\ \A u \in Tabs \ {t} : tab'[u] = tab[u]
      /\ call[k].pc # "idle"
  BY ReceiveFacts
     DEF TypeInv, Opened, Mirrored, Dropped, Switched, TabBecomes
<1>2. ActiveFileIsOpen' /\ files' = files
  BY <1>1, StoreSame DEF ListenInv
<1>3. CallBecomes(k, "idle", "edit", NoPath, Empty, NoFile, {}) /\ k \in Calls
  BY ReceiveCall DEF Calls, TypeInv
<1>4. tab[t].mode \notin {"off", "listed"}
  BY <1>1 DEF ListenInv, ListenOf
<1> HIDE DEF k
<1>5. \A j \in Calls : /\ call'[j].todo \subseteq call[j].todo
                       /\ call[j].pc = "idle" => call'[j].pc = "idle"
  BY <1>3 DEF CallBecomes
<1>6. ListenOf(t)'
  BY <1>1, <1>4, <1>5 DEF ListenInv, ListenOf, Quiet
<1>7. ASSUME NEW u \in Tabs \ {t} PROVE ListenOf(u)'
  <2>1. \A s \in Slots : call[<<u, s>>].pc = "idle" => call'[<<u, s>>].pc = "idle"
    BY <1>5 DEF Calls
  <2> QED  BY <1>1, <1>2, <1>5, <2>1, ListenSame DEF ListenInv, SameEvents
<1> QED  BY <1>2, <1>6, <1>7 DEF ListenInv

\* The handler of k goes on; the others keep their places, and of what they
\* carry only pointers to a closed file change.
LEMMA ServeFacts ==
    ASSUME TypeInv, NEW k \in Calls, Serve(k)
    PROVE  /\ call[k].pc = "sent" /\ call[k].path \in Paths
           /\ call'[k].op = call[k].op /\ call'[k].path = call[k].path
           /\ call'[k].todo = {} /\ call[k].todo = {}
           /\ call'[k].pc = IF call[k].op = "save" THEN "saved" ELSE "changed"
           /\ call[k].op \in {"open", "edit"} => call'[k].file = Live
           /\ call[k].op = "save" => call'[k].file = NoFile
           /\ \A j \in Calls \ {k} :
                /\ call'[j].pc = call[j].pc /\ call'[j].todo = call[j].todo
                /\ call[j].file # Live => call'[j] = call[j]
           /\ call[k].op # "close" =>
                queue' = queue /\ \A j \in Calls \ {k} : call'[j] = call[j]
           /\ \A t \in Tabs : queue[t] = << >> => queue'[t] = << >>
           /\ missed' = missed \cup
                {t \in Tabs : tab[t].mode \in {"listed", "fetched", "lost"}}
<1> USE DEF TypeInv
<1>1. call[k].pc = "sent" /\ call[k].path \in Paths /\ call[k].todo = {}
      /\ missed' = missed \cup
            {t \in Tabs : tab[t].mode \in {"listed", "fetched", "lost"}}
  BY DEF Serve, FormInv, CallForm
<1>2. CASE call[k].op # "close"
  <2>1. PICK pc \in {"saved", "changed"}, file \in {Live, NoFile} :
             /\ CallBecomes(k, pc, call[k].op, call[k].path, call[k].text, file,
                            call[k].todo)
             /\ pc = "saved" <=> call[k].op = "save"
             /\ file = Live <=> call[k].op \in {"open", "edit"}
             /\ queue' = queue
    BY <1>2, ServeStays
  <2> QED  BY <1>1, <1>2, <2>1 DEF CallBecomes
<1>3. CASE call[k].op = "close"
  <2>1. call[k].path \in OpenPaths /\ OpenPaths' = OpenPaths \ {call[k].path}
        /\ StoreTypeOK
    BY <1>3, ServeStore DEF TypeOK
  <2>2. /\ queue' = [t \in Tabs |-> [i \in DOMAIN queue[t] |->
                                      Freeze(queue[t][i], call[k].path)]]
        /\ call' = [j \in Calls |->
                      IF j = k THEN [call[k] EXCEPT !.pc = "changed"]
                      ELSE Freeze(call[j], call[k].path)]
    BY <1>3 DEF Serve
  <2>3. ASSUME NEW t \in Tabs, queue[t] = << >>
        PROVE  queue'[t] = << >>
    <3>1. DOMAIN << >> = {}
      OBVIOUS
    <3>2. queue'[t] = [i \in {} |-> Freeze(queue[t][i], call[k].path)]
      BY <2>2, <2>3, <3>1
    <3>3. queue'[t] \in Seq(Event) /\ DOMAIN queue'[t] = {}
      BY <3>2, ServeType DEF TypeOK
    <3> QED  BY <3>3, EmptyDomain
  <2>4. ASSUME NEW j \in Calls \ {k}
        PROVE  /\ call'[j].todo = call[j].todo /\ call'[j].pc = call[j].pc
               /\ call[j].file # Live => call'[j] = call[j]
    <3>1. /\ call[j] \in CallType /\ CallForm(call[j])
          /\ call'[j] = Freeze(call[j], call[k].path)
      BY <2>2 DEF TypeOK, CallType, FormInv
    <3> QED  BY <1>1, <2>1, <3>1, FreezeFacts DEF CallForm, Carries
  <2>5. /\ call'[k].todo = call[k].todo /\ call'[k].pc = "changed"
        /\ call'[k].op = call[k].op /\ call'[k].path = call[k].path
    <3>1. call[k] \in CallType /\ call'[k] = [call[k] EXCEPT !.pc = "changed"]
      BY <2>2 DEF TypeOK, CallType
    <3> QED  BY <3>1 DEF CallType
  <2> QED  BY <1>1, <1>3, <2>3, <2>4, <2>5
<1> QED  BY <1>2, <1>3

LEMMA ListenServe ==
    ASSUME TypeInv, ListenInv, NEW k \in Calls, Serve(k)
    PROVE  ListenInv'
<1>1. ActiveFileIsOpen' /\ UNCHANGED <<tab, wire>>
  BY ServeStore DEF ListenInv, TypeInv
<1>2. missed' = missed \cup
                  {t \in Tabs : tab[t].mode \in {"listed", "fetched", "lost"}}
  BY ServeFacts
<1>3. /\ \A j \in Calls : call'[j].todo = call[j].todo
      /\ \A j \in Calls : call[j].pc = "idle" => call'[j].pc = "idle"
      /\ \A t \in Tabs : queue[t] = << >> => queue'[t] = << >>
  BY ServeFacts
<1>4. ASSUME NEW u \in Tabs PROVE ListenOf(u)'
  BY <1>1, <1>2, <1>3 DEF ListenInv, ListenOf, Quiet, Calls
<1> QED  BY <1>1, <1>4 DEF ListenInv

LEMMA ListenStep == TypeInv /\ ListenInv /\ [Next]_vars => ListenInv'
<1> SUFFICES ASSUME TypeInv, ListenInv, [Next]_vars PROVE ListenInv'
  OBVIOUS
<1>1. ASSUME NEW t \in Tabs,
             \/ FetchList(t) \/ FetchActive(t) \/ Subscribe(t) \/ Disconnect(t)
             \/ Reload(t) \/ \E text \in Contents : Type(t, text)
      PROVE  ListenInv'
  BY <1>1, ListenTab
<1>2. ASSUME NEW t \in Tabs,
             \/ Push(t)
             \/ \E op \in Op \ {"edit"}, p \in Paths : Click(t, op, p)
      PROVE  ListenInv'
  BY <1>2, ListenAsk
<1>3. ASSUME NEW t \in Tabs,
             Forward(t) \/ HandleEvent(t) \/ \E slot \in Slots : Receive(t, slot)
      PROVE  ListenInv'
  BY <1>3, ListenForward, ListenHandle, ListenReceive
<1>4. ASSUME NEW k \in Calls,
             \/ Serve(k) \/ Refuse(k) \/ Copy(k) \/ Publish(k) \/ Answer(k)
             \/ \E t \in Tabs : Send(k, t)
      PROVE  ListenInv'
  BY <1>4, ListenServe, ListenCallStep, ListenSend
<1>5. CASE UNCHANGED vars
  BY <1>5 DEF vars, storeVars, ListenInv, ListenOf, ActiveFileIsOpen, OpenPaths, Quiet
<1> QED  BY <1>1, <1>2, <1>3, <1>4, <1>5 DEF Next

-----------------------------------------------------------------------------
(* As long as nothing overlaps. *)

\* Work starts while nothing overlaps only at rest.
LEMMA NoteNone ==
    ASSUME NEW op, Act(op), overlap' = "none"
    PROVE  overlap = "none" /\ AtRest
BY DEF Act, Note

LEMMA RestFacts ==
    ASSUME FormInv, AtRest
    PROVE  /\ \A k \in Calls : call[k].pc = "idle" /\ call[k].todo = {}
           /\ \A t \in Tabs : Quiet(t) /\ ~tab[t].timer
           /\ \A k \in Calls, t \in Tabs : ~ToSend(k, t)
BY DEF AtRest, FormInv, CallForm, Quiet, ToSend

LEMMA MapsEqual ==
    ASSUME NEW m \in FileMap, NEW f \in FileMap, DOMAIN m = DOMAIN f,
           \A q \in DOMAIN f : m[q] = f[q]
    PROVE  m = f
<1>1. m \in [DOMAIN f -> OpenFile] /\ f \in [DOMAIN f -> OpenFile]
  BY FileMapMember
<1> QED  BY <1>1

\* A mirror that is the server's map lacks nothing.
LEMMA MirrorEqual ==
    ASSUME NEW t \in Tabs, tab'[t].mirror = files'
    PROVE  MirrorOf(t)'
<1>1. ASSUME NEW x PROVE AgreesBut(t, x)'
  BY DEF AgreesBut, OpenPaths
<1> QED  BY <1>1 DEF MirrorOf, AgreesBut, ToSend

LEMMA MirrorSame ==
    ASSUME NEW t \in Tabs, MirrorOf(t), files' = files,
           tab'[t].mirror = tab[t].mirror, tab'[t].mode = tab[t].mode,
           SameEvents(t),
           \A k \in Calls :
             /\ ToSend(k, t)' <=> ToSend(k, t)
             /\ ToSend(k, t) => /\ call'[k].op = call[k].op
                                /\ call'[k].path = call[k].path
    PROVE  MirrorOf(t)'
<1>1. ASSUME NEW x, AgreesBut(t, x) PROVE AgreesBut(t, x)'
  BY <1>1 DEF AgreesBut, OpenPaths
<1>2. /\ \A i \in DOMAIN queue'[t] : AgreesBut(t, queue[t][i])'
      /\ \A i \in DOMAIN wire'[t] : AgreesBut(t, wire[t][i])'
  BY DEF SameEvents, MirrorOf, AgreesBut, OpenPaths
<1>3. \A k \in Calls : ToSend(k, t)' => AgreesBut(t, call[k])'
  BY DEF MirrorOf, AgreesBut, OpenPaths
<1>4. \/ tab'[t].mode # "on"
      \/ Quiet(t)' /\ \A k \in Calls : ~ToSend(k, t)'
      => tab'[t].mirror = files'
  <2>1. Quiet(t)' <=> Quiet(t)
    BY DEF Quiet, SameEvents
  <2>2. (\A k \in Calls : ~ToSend(k, t)') <=> (\A k \in Calls : ~ToSend(k, t))
    OBVIOUS
  <2> QED  BY <2>1, <2>2 DEF MirrorOf
<1> HIDE DEF ToSend, AgreesBut
<1> QED  BY <1>2, <1>3, <1>4 DEF MirrorOf

\* Work may only be less.
LEMMA OneLess ==
    ASSUME TypeOK, OneAtATime, call' = call,
           \A t \in Tabs : tab'[t].timer => tab[t].timer,
           \A t \in Tabs : SameEvents(t) \/ Quiet(t)'
    PROVE  OneAtATime'
<1>1. \A t \in Tabs : Quiet(t) => Quiet(t)'
  BY DEF SameEvents, Quiet
<1>2. \A t \in Tabs : /\ wire'[t] = << >> \/ queue'[t] = << >>
                      /\ Len(wire'[t]) <= 1 /\ Len(queue'[t]) <= 1
  <2>1. Len(<< >>) = 0
    OBVIOUS
  <2> QED  BY <2>1 DEF SameEvents, Quiet, OneAtATime
<1>3. \A j, k \in Calls : call'[j].pc # "idle" /\ call'[k].pc # "idle" => j = k
  BY DEF OneAtATime
<1>4. \A t, u \in Tabs : tab'[t].timer /\ tab'[u].timer => t = u
  BY DEF OneAtATime
<1>5. \A t \in Tabs : tab'[t].timer =>
        (\A k \in Calls : call'[k].pc = "idle") /\ (\A u \in Tabs : Quiet(u)')
  BY <1>1 DEF OneAtATime
<1>6. \A k \in Calls :
        /\ call'[k].pc \in {"sent", "saved", "changed", "refused"} =>
             \A u \in Tabs : Quiet(u)'
        /\ \A u \in call'[k].todo : Quiet(u)'
  BY <1>1, CallParts DEF OneAtATime
<1> QED  BY <1>2, <1>3, <1>4, <1>5, <1>6 DEF OneAtATime

LEMMA TrueLess ==
    ASSUME TrueInv, files' = files, call' = call,
           \A t \in Tabs : SameEvents(t) \/ Quiet(t)'
    PROVE  TrueInv'
<1>1. ASSUME NEW k \in Calls
      PROVE  /\ call'[k].pc = "saved" => call'[k].path \in OpenPaths'
             /\ call'[k].pc \in {"changed", "sending", "answered"} => True(call[k])'
  BY DEF TrueInv, True, OpenPaths
<1>2. ASSUME NEW t \in Tabs
      PROVE  /\ \A i \in DOMAIN queue'[t] : True(queue[t][i])'
             /\ \A i \in DOMAIN wire'[t] : True(wire[t][i])'
  <2>1. CASE SameEvents(t)
    BY <2>1 DEF SameEvents, TrueInv, True, OpenPaths
  <2>2. CASE Quiet(t)'
    BY <2>2 DEF Quiet
  <2> QED  BY <2>1, <2>2
<1> QED  BY <1>1, <1>2 DEF TrueInv

LEMMA AloneTab ==
    ASSUME TypeInv, ListenInv, Alone, NEW t \in Tabs,
           \/ FetchList(t) \/ FetchActive(t) \/ Subscribe(t) \/ Disconnect(t)
           \/ Reload(t)
    PROVE  Alone'
<1> USE DEF TypeInv
<1>1. UNCHANGED <<storeVars, call>>
  BY DEF FetchList, FetchActive, Subscribe, Disconnect, Reload
<1>2. files' = files
  BY <1>1, StoreSame
<1>3. \A u \in Tabs : tab'[u].timer => tab[u].timer
  BY TimersRest
<1>4. \A u \in Tabs : SameEvents(u) \/ (u = t /\ Disconnect(t) /\ Quiet(u)')
  BY DEF SameEvents, Quiet, FetchList, FetchActive, Subscribe, Disconnect, Reload, TypeOK
<1>5. OneAtATime' /\ TrueInv'
  BY <1>1, <1>2, <1>3, <1>4, OneLess, TrueLess DEF Alone
<1>6. ASSUME NEW u \in Tabs \ missed', u # t, tab'[u].mode # "off"
      PROVE  MirrorOf(u)'
  <2>1. tab'[u] = tab[u] /\ u \notin missed
    BY <1>6, FetchListTab, FetchActiveTab, StreamTab, ReloadTab
       DEF TabBecomes, FetchList, FetchActive, Subscribe, Disconnect, Reload
  <2>2. MirrorOf(u) /\ SameEvents(u)
    BY <1>4, <1>6, <2>1 DEF Alone
  <2>3. \A k \in Calls : ToSend(k, u)' <=> ToSend(k, u)
    BY <1>1 DEF ToSend
  <2> QED  BY <1>1, <1>2, <2>1, <2>2, <2>3, MirrorSame
<1>7. ASSUME t \notin missed', tab'[t].mode # "off"
      PROVE  MirrorOf(t)'
  <2>1. CASE FetchList(t)
    BY <1>2, <2>1, FetchListTab, MirrorEqual DEF TabBecomes
  <2>2. CASE FetchActive(t) \/ Subscribe(t)
    <3>1. /\ tab[t].mode \notin {"on", "off"} /\ t \notin missed
          /\ tab'[t].mirror = tab[t].mirror
      BY <1>7, <2>2, FetchActiveTab, StreamTab DEF TabBecomes, FetchActive, Subscribe
    <3> QED  BY <1>2, <3>1, MirrorEqual DEF Alone, MirrorOf
  <2>3. CASE Disconnect(t)
    <3>1. /\ AtRest /\ t \notin missed /\ tab[t].mode = "on"
          /\ tab'[t].mirror = tab[t].mirror
      BY <1>7, <2>3, StreamTab DEF TabBecomes, Disconnect
    <3> QED  BY <1>2, <3>1, RestFacts, MirrorEqual DEF Alone, MirrorOf
  <2>4. CASE Reload(t)
    BY <1>7, <2>4, ReloadTab DEF TabBecomes
  <2> QED  BY <2>1, <2>2, <2>3, <2>4
<1> QED  BY <1>5, <1>6, <1>7 DEF Alone

LEMMA AloneType ==
    ASSUME TypeInv, Alone, AtRest, NEW t \in Tabs, NEW text \in Contents,
           Type(t, text)
    PROVE  Alone'
<1> USE DEF TypeInv
<1>1. UNCHANGED <<storeVars, call, queue, wire, missed>>
  BY DEF Type
<1>2. TabBecomes(t, tab[t].mode, tab[t].mirror, tab[t].focus, text, TRUE)
  BY TypeTab
<1>3. files' = files
  BY <1>1, StoreSame
<1>4. /\ \A k \in Calls : call'[k].pc = "idle" /\ call'[k].todo = {}
      /\ \A u \in Tabs : Quiet(u)' /\ SameEvents(u)
      /\ \A u \in Tabs : tab'[u].timer => u = t
  BY <1>1, <1>2, RestFacts DEF Quiet, SameEvents, TabBecomes
<1>5. OneAtATime'
  <2>1. Len(<< >>) = 0
    OBVIOUS
  <2> QED  BY <1>4, <2>1 DEF OneAtATime, Quiet
<1>6. TrueInv'
  BY <1>1, <1>3, <1>4, TrueLess DEF Alone
<1>7. ASSUME NEW u \in Tabs \ missed', tab'[u].mode # "off"
      PROVE  MirrorOf(u)'
  <2>1. tab'[u].mode = tab[u].mode /\ tab'[u].mirror = tab[u].mirror
    BY <1>2 DEF TabBecomes
  <2>2. MirrorOf(u)
    BY <1>1, <1>7, <2>1 DEF Alone
  <2>3. \A k \in Calls : ToSend(k, u)' <=> ToSend(k, u)
    BY <1>1 DEF ToSend
  <2> QED  BY <1>1, <1>3, <1>4, <2>1, <2>2, <2>3, MirrorSame
<1> QED  BY <1>5, <1>6, <1>7 DEF Alone

\* A request is sent while the server is at rest, but for the typing that
\* it may bring.
LEMMA AloneAsk ==
    ASSUME TypeInv, Alone, NEW t \in Tabs, NEW slot \in Slots, NEW op \in Op,
           NEW p \in Paths, Asks(t, slot, op, p),
           \A k \in Calls : call[k].pc = "idle",
           \A u \in Tabs : Quiet(u),
           \A u \in Tabs : tab[u].timer => tab'[u] # tab[u],
           tab' = tab \/ TabBecomes(t, tab[t].mode, tab[t].mirror, tab[t].focus,
                                    tab[t].doc, FALSE),
           UNCHANGED <<storeVars, queue, wire, missed>>
    PROVE  Alone'
<1> USE DEF TypeInv
<1> DEFINE k == <<t, slot>>
<1>1. k \in Calls /\ \E text \in Contents :
        CallBecomes(k, "sent", op, p, text, NoFile, {})
  BY DEF Asks
<1> HIDE DEF k
<1>2. files' = files
  BY StoreSame
<1>3. \A j \in Calls : call[j].todo = {}
  BY DEF FormInv, CallForm
<1>4. /\ call'[k].pc = "sent"
      /\ \A j \in Calls : call'[j].todo = {}
      /\ \A j \in Calls \ {k} : call'[j].pc = "idle"
  BY <1>1, <1>3 DEF CallBecomes
<1>5. \A u \in Tabs : /\ tab'[u].mode = tab[u].mode /\ tab'[u].mirror = tab[u].mirror
                      /\ ~tab'[u].timer
  BY DEF TabBecomes
<1>6. \A u \in Tabs : Quiet(u)' /\ SameEvents(u)
  BY DEF Quiet, SameEvents
<1>7. OneAtATime'
  <2>1. Len(<< >>) = 0
    OBVIOUS
  <2> QED  BY <1>4, <1>5, <1>6, <2>1 DEF OneAtATime, Quiet
<1>8. TrueInv'
  <2>1. \A u \in Tabs : DOMAIN queue'[u] = {} /\ DOMAIN wire'[u] = {}
    BY <1>6 DEF Quiet
  <2> QED  BY <1>4, <2>1 DEF TrueInv
<1>9. ASSUME NEW u \in Tabs \ missed', tab'[u].mode # "off"
      PROVE  MirrorOf(u)'
  <2>1. MirrorOf(u)
    BY <1>5, <1>9 DEF Alone
  <2>2. \A j \in Calls : ~ToSend(j, u)' /\ ~ToSend(j, u)
    BY <1>3, <1>4 DEF ToSend
  <2> QED  BY <1>2, <1>5, <1>6, <2>1, <2>2, MirrorSame
<1> QED  BY <1>7, <1>8, <1>9 DEF Alone

LEMMA AloneAsks ==
    ASSUME TypeInv, Alone, NEW t \in Tabs,
           \/ Push(t)
           \/ AtRest /\ \E op \in Op \ {"edit"}, p \in Paths : Click(t, op, p)
    PROVE  Alone'
<1> USE DEF TypeInv
<1>1. CASE Push(t)
  <2>1. /\ UNCHANGED <<storeVars, queue, wire, missed>> /\ tab[t].timer
        /\ TabBecomes(t, tab[t].mode, tab[t].mirror, tab[t].focus,
                      tab[t].doc, FALSE)
        /\ \/ tab[t].focus = NoPath /\ call' = call
           \/ tab[t].focus \in Paths /\ Asks(t, "push", "edit", tab[t].focus)
    BY <1>1, AskFacts
  <2>2. /\ \A k \in Calls : call[k].pc = "idle"
        /\ \A u \in Tabs : Quiet(u)
        /\ \A u \in Tabs : tab[u].timer => u = t
    BY <2>1 DEF Alone, OneAtATime
  <2>3. CASE tab[t].focus \in Paths /\ Asks(t, "push", "edit", tab[t].focus)
    <3>1. tab'[t] # tab[t]
      BY <2>1 DEF TabBecomes
    <3> QED  BY <2>1, <2>2, <2>3, <3>1, AloneAsk DEF Slots, Op
  <2>4. CASE call' = call
    <3>1. files' = files
      BY <2>1, StoreSame
    <3>2. \A u \in Tabs : SameEvents(u)
      BY <2>1 DEF SameEvents
    <3>3. \A u \in Tabs : /\ tab'[u].mode = tab[u].mode
                          /\ tab'[u].mirror = tab[u].mirror
                          /\ tab'[u].timer => tab[u].timer
      BY <2>1 DEF TabBecomes
    <3>4. OneAtATime' /\ TrueInv'
      BY <2>4, <3>1, <3>2, <3>3, OneLess, TrueLess DEF Alone
    <3>5. ASSUME NEW u \in Tabs \ missed', tab'[u].mode # "off"
          PROVE  MirrorOf(u)'
      <4>1. MirrorOf(u)
        BY <2>1, <3>3, <3>5 DEF Alone
      <4>2. \A k \in Calls : ToSend(k, u)' <=> ToSend(k, u)
        BY <2>4 DEF ToSend
      <4> QED  BY <2>4, <3>1, <3>2, <3>3, <4>1, <4>2, MirrorSame
    <3> QED  BY <3>4, <3>5 DEF Alone
  <2> QED  BY <2>1, <2>3, <2>4
<1>2. ASSUME AtRest, NEW op \in Op \ {"edit"}, NEW p \in Paths, Click(t, op, p)
      PROVE  Alone'
  <2>1. UNCHANGED <<storeVars, tab, queue, wire, missed>> /\ Asks(t, "click", op, p)
    BY <1>2, AskFacts
  <2> QED  BY <1>2, <2>1, RestFacts, AloneAsk DEF Slots
<1> QED  BY <1>1, <1>2

LEMMA BusyFacts ==
    ASSUME TypeInv, OneAtATime, NEW k \in Calls, call[k].pc # "idle"
    PROVE  /\ \A j \in Calls \ {k} : call[j].pc = "idle" /\ call[j].todo = {}
           /\ \A t \in Tabs : ~tab[t].timer
BY DEF TypeInv, FormInv, CallForm, OneAtATime

\* The only request goes on.
LEMMA AloneGoesOn ==
    ASSUME TypeInv, Alone, NEW k \in Calls, call[k].pc # "idle",
           UNCHANGED <<storeVars, tab, queue, wire, missed>>,
           \A j \in Calls \ {k} : call'[j] = call[j],
           call'[k].op = call[k].op, call'[k].path = call[k].path,
           call'[k].todo \subseteq Tabs,
           call'[k].pc \in {"sent", "saved", "changed", "refused"}
             \/ call'[k].todo # {} => \A u \in Tabs : Quiet(u),
           call'[k].pc # "saved",
           call'[k].pc \in {"changed", "sending", "answered"} => True(call[k])',
           \A u \in Tabs : \/ ToSend(k, u)' <=> ToSend(k, u)
                           \/ tab[u].mode # "on"
    PROVE  Alone'
<1> USE DEF TypeInv
<1>1. files' = files /\ OpenPaths' = OpenPaths
  BY StoreSame
<1>2. /\ \A j \in Calls \ {k} : call'[j].pc = "idle" /\ call'[j].todo = {}
      /\ \A t \in Tabs : ~tab'[t].timer
      /\ \A j \in Calls \ {k} : call[j].pc = "idle" /\ call[j].todo = {}
  BY BusyFacts DEF Alone
<1>3. \A u \in Tabs : SameEvents(u) /\ (Quiet(u)' <=> Quiet(u))
  BY DEF SameEvents, Quiet
<1>4. OneAtATime'
  <2>1. \A t \in Tabs : /\ wire'[t] = << >> \/ queue'[t] = << >>
                        /\ Len(wire'[t]) <= 1 /\ Len(queue'[t]) <= 1
    BY DEF Alone, OneAtATime
  <2>2. \A j \in Calls :
         /\ call'[j].pc \in {"sent", "saved", "changed", "refused"} =>
              \A u \in Tabs : Quiet(u)'
         /\ \A u \in call'[j].todo : Quiet(u)'
    BY <1>2, <1>3
  <2> QED  BY <1>2, <2>1, <2>2 DEF OneAtATime
<1>5. TrueInv'
  <2>1. \A u \in Tabs : /\ \A i \in DOMAIN queue'[u] : True(queue[u][i])'
                        /\ \A i \in DOMAIN wire'[u] : True(wire[u][i])'
    BY <1>1, <1>3 DEF Alone, TrueInv, SameEvents, True
  <2> QED  BY <1>2, <2>1 DEF TrueInv
<1>6. ASSUME NEW u \in Tabs \ missed', tab'[u].mode # "off"
      PROVE  MirrorOf(u)'
  <2>1. MirrorOf(u)
    BY <1>6 DEF Alone
  <2>2. CASE tab[u].mode # "on"
    BY <1>1, <2>1, <2>2, MirrorEqual DEF MirrorOf
  <2>3. CASE ToSend(k, u)' <=> ToSend(k, u)
    <3>1. \A j \in Calls :
             /\ ToSend(j, u)' <=> ToSend(j, u)
             /\ ToSend(j, u) => /\ call'[j].op = call[j].op
                                /\ call'[j].path = call[j].path
      BY <2>3 DEF ToSend
    <3> QED  BY <1>1, <1>3, <2>1, <3>1, MirrorSame
  <2> QED  BY <2>2, <2>3
<1> QED  BY <1>4, <1>5, <1>6 DEF Alone

LEMMA AloneCallStep ==
    ASSUME TypeInv, Alone, NEW k \in Calls,
           Refuse(k) \/ Copy(k) \/ Publish(k) \/ Answer(k)
    PROVE  Alone'
<1> USE DEF TypeInv
<1>1. UNCHANGED <<storeVars, tab, queue, wire, missed>>
  BY DEF Refuse, Copy, Publish, Answer
<1>2. files' = files /\ OpenPaths' = OpenPaths
  BY <1>1, StoreSame
<1>3. CallForm(call[k]) /\ call[k].todo \subseteq Tabs /\ call[k].file \in File \cup {Live}
  BY CallParts DEF FormInv
<1>4. call[k].pc \in {"sent", "saved", "changed"} => \A u \in Tabs : Quiet(u)
  BY DEF Alone, OneAtATime
<1>5. /\ call[k].pc = "saved" => call[k].path \in OpenPaths
      /\ call[k].pc \in {"changed", "sending"} => True(call[k])
  BY DEF Alone, TrueInv
<1>6. CASE Refuse(k)
  <2>1. /\ call[k].pc = "sent" /\ call'[k].pc = "refused"
        /\ call'[k].op = call[k].op /\ call'[k].path = call[k].path
        /\ call'[k].todo = call[k].todo
        /\ \A j \in Calls \ {k} : call'[j] = call[j]
    BY <1>6, RefuseFacts DEF CallBecomes
  <2>2. call[k].todo = {}
    BY <1>3, <2>1 DEF CallForm
  <2>3. \A u \in Tabs : ToSend(k, u)' <=> ToSend(k, u)
    BY <2>1, <2>2 DEF ToSend
  <2> QED  BY <1>1, <1>4, <2>1, <2>2, <2>3, AloneGoesOn
<1>7. CASE Copy(k)
  <2>1. PICK file \in File :
          /\ file = IF call[k].path \in OpenPaths THEN files[call[k].path]
                    ELSE NoFile
          /\ CallBecomes(k, "changed", "save", call[k].path, call[k].text,
                         file, call[k].todo)
    BY <1>7, CopyFacts
  <2>2. call[k].pc = "saved" /\ call[k].op = "save" /\ call[k].todo = {}
    BY <1>3, <1>7, CopyFacts DEF CallForm
  <2>3. /\ call'[k].pc = "changed" /\ call'[k].op = "save"
        /\ call'[k].path = call[k].path /\ call'[k].file = files[call[k].path]
        /\ call'[k].todo = {}
        /\ \A j \in Calls \ {k} : call'[j] = call[j]
    BY <1>5, <2>1, <2>2 DEF CallBecomes
  <2>4. True(call[k])'
    BY <1>2, <1>5, <2>2, <2>3 DEF True
  <2>5. \A u \in Tabs : ToSend(k, u)' <=> ToSend(k, u)
    BY <2>2, <2>3 DEF ToSend
  <2> QED  BY <1>1, <1>4, <2>2, <2>3, <2>4, <2>5, AloneGoesOn
<1>8. CASE Publish(k)
  <2>1. /\ call[k].pc = "changed" /\ call'[k].pc = "sending"
        /\ call'[k].op = call[k].op /\ call'[k].path = call[k].path
        /\ call'[k].file = call[k].file /\ call'[k].todo = Subscribers
        /\ \A j \in Calls \ {k} : call'[j] = call[j]
    BY <1>8, PublishCall DEF CallBecomes, Publish
  <2>2. True(call[k])'
    BY <1>2, <1>5, <2>1 DEF True
  <2>3. \A u \in Tabs : \/ ToSend(k, u)' <=> ToSend(k, u)
                        \/ tab[u].mode # "on"
    BY <2>1 DEF ToSend, Subscribers
  <2>4. Subscribers \subseteq Tabs
    BY DEF Subscribers
  <2> QED  BY <1>1, <1>4, <2>1, <2>2, <2>3, <2>4, AloneGoesOn
<1>9. CASE Answer(k)
  <2>1. PICK file \in Marshalled(call[k].file, call[k].path) :
             /\ file \in File /\ file # Live
             /\ call[k].file # NoFile => file # NoFile
             /\ CallBecomes(k, "answered", call[k].op, call[k].path, call[k].text,
                            file, {})
    BY <1>9, AnswerFacts
  <2>2. call[k].pc = "sending" /\ call[k].todo = {}
    BY <1>9 DEF Answer
  <2>3. /\ call'[k].pc = "answered" /\ call'[k].op = call[k].op
        /\ call'[k].path = call[k].path /\ call'[k].todo = {}
        /\ call'[k].file = file
        /\ \A j \in Calls \ {k} : call'[j] = call[j]
    BY <2>1 DEF CallBecomes
  <2>4. \A j \in Calls : call[j].pc # "sent"
    BY <2>2, BusyFacts DEF Alone
  <2>5. call[k].file = Live => call[k].path \in OpenPaths
    BY <1>3, <2>2 DEF CallForm, Carries
  <2>6. /\ call[k].file # Live => file = call[k].file
        /\ call[k].file = Live => file = files[call[k].path]
    BY <1>3, <2>1, <2>4, <2>5, MarshalFacts
  <2>7. True(call[k])'
    BY <1>2, <1>5, <2>2, <2>3, <2>6 DEF True
  <2>8. \A u \in Tabs : ToSend(k, u)' <=> ToSend(k, u)
    BY <2>2, <2>3 DEF ToSend
  <2> QED  BY <1>1, <2>2, <2>3, <2>7, <2>8, AloneGoesOn
<1> QED  BY <1>6, <1>7, <1>8, <1>9

LEMMA AloneServe ==
    ASSUME TypeInv, ListenInv, Alone, NEW k \in Calls, Serve(k)
    PROVE  Alone'
<1> USE DEF TypeInv
<1> DEFINE p == call[k].path
           op == call[k].op
<1>1. /\ call[k].pc = "sent" /\ p \in Paths /\ op \in Op
      /\ call'[k].op = op /\ call'[k].path = p
      /\ call'[k].todo = {} /\ call[k].todo = {}
      /\ call'[k].pc = IF op = "save" THEN "saved" ELSE "changed"
      /\ op \in {"open", "edit"} => call'[k].file = Live
      /\ \A t \in Tabs : queue[t] = << >> => queue'[t] = << >>
      /\ missed' = missed \cup
              {t \in Tabs : tab[t].mode \in {"listed", "fetched", "lost"}}
  BY ServeFacts, CallParts
<1>2. /\ \A u \in Tabs : Quiet(u)
      /\ \A j \in Calls \ {k} : call[j].pc = "idle" /\ call[j].todo = {}
      /\ \A u \in Tabs : ~tab[u].timer
  BY <1>1, BusyFacts DEF Alone, OneAtATime
<1>3. \A j \in Calls \ {k} : call'[j].pc = "idle" /\ call'[j].todo = {}
  BY <1>2, ServeFacts
<1>4. /\ OthersKept(p) /\ UNCHANGED <<tab, wire>>
      /\ op = "close" => p \in OpenPaths /\ OpenPaths' = OpenPaths \ {p}
      /\ op = "open" => p \notin OpenPaths /\ OpenPaths' = OpenPaths \cup {p}
      /\ op \notin {"close", "open"} => p \in OpenPaths /\ OpenPaths' = OpenPaths
      /\ op = "switch" => files' = files
  BY ServeStore
<1>5. \A u \in Tabs : Quiet(u)'
  BY <1>1, <1>2, <1>4 DEF Quiet
<1> HIDE DEF p, op
<1>6. OneAtATime'
  <2>1. Len(<< >>) = 0
    OBVIOUS
  <2> QED  BY <1>1, <1>2, <1>3, <1>4, <1>5, <2>1 DEF OneAtATime, Quiet
<1>7. TrueInv'
  <2>1. \A u \in Tabs : DOMAIN queue'[u] = {} /\ DOMAIN wire'[u] = {}
    BY <1>5 DEF Quiet
  <2>2. call'[k].pc = "saved" => call'[k].path \in OpenPaths'
    BY <1>1, <1>4
  <2>3. call'[k].pc = "changed" => True(call[k])'
    BY <1>1, <1>4 DEF True, Op
  <2>4. call'[k].pc \in {"saved", "changed"}
    BY <1>1
  <2> QED  BY <1>3, <2>1, <2>2, <2>3, <2>4 DEF TrueInv
<1>8. ASSUME NEW u \in Tabs \ missed', tab'[u].mode # "off"
      PROVE  MirrorOf(u)'
  <2>1. u \notin missed /\ tab[u].mode = "on"
    BY <1>1, <1>4, <1>8, TabParts DEF Mode
  <2>2. tab[u].mirror = files
    <3>1. \A j \in Calls : ~ToSend(j, u)
      BY <1>1, <1>2 DEF ToSend
    <3> QED  BY <1>2, <2>1, <3>1 DEF Alone, MirrorOf
  <2>3. AgreesBut(u, call[k])'
    <3>1. CASE op = "switch"
      BY <1>1, <1>4, <2>2, <3>1 DEF AgreesBut
    <3>2. CASE op # "switch"
      <4>1. tab'[u].mirror = files
        BY <1>4, <2>2
      <4>2. DOMAIN files = OpenPaths /\ OpenPaths \ {p} = OpenPaths' \ {p}
        BY <1>1, <1>4 DEF OpenPaths, Op
      <4>3. \A q \in OpenPaths' \ {p} : files[q] = files'[q]
        BY <1>4, <4>2 DEF OthersKept
      <4> QED  BY <1>1, <3>2, <4>1, <4>2, <4>3 DEF AgreesBut
    <3> QED  BY <3>1, <3>2
  <2>4. ToSend(k, u)' /\ \A j \in Calls \ {k} : ~ToSend(j, u)'
    BY <1>1, <1>3 DEF ToSend
  <2>5. DOMAIN queue'[u] = {} /\ DOMAIN wire'[u] = {}
    BY <1>5 DEF Quiet
  <2> QED  BY <1>4, <2>1, <2>3, <2>4, <2>5 DEF MirrorOf
<1> QED  BY <1>6, <1>7, <1>8 DEF Alone

LEMMA AloneSend ==
    ASSUME TypeInv, Alone, NEW k \in Calls, NEW t \in Tabs, Send(k, t)
    PROVE  Alone'
<1> USE DEF TypeInv
<1>1. SendsTo(k, t) /\ UNCHANGED <<storeVars, tab>>
  BY SendFacts
<1>2. files' = files /\ OpenPaths' = OpenPaths
  BY <1>1, StoreSame
<1>3. /\ call'[k].pc = "sending" /\ call'[k].op = call[k].op
      /\ call'[k].path = call[k].path /\ call'[k].file = call[k].file
      /\ call'[k].todo = call[k].todo \ {t}
      /\ \A j \in Calls \ {k} : call'[j] = call[j]
      /\ call[k].pc = "sending" /\ t \in call[k].todo
  BY <1>1, SendCall DEF CallBecomes, SendsTo
<1>4. /\ \A j \in Calls \ {k} : call[j].pc = "idle" /\ call[j].todo = {}
      /\ \A u \in Tabs : ~tab[u].timer
      /\ \A u \in call[k].todo : Quiet(u)
      /\ True(call[k])
  BY <1>3, BusyFacts DEF Alone, OneAtATime, TrueInv
<1>5. \A u \in Tabs \ {t} : SameEvents(u)
  BY <1>1 DEF SendsTo, SameEvents, TypeOK
<1>6. \/ SameEvents(t) /\ t \in missed'
      \/ wire'[t] = << >> /\ queue'[t] = << EventOf(k) >>
  <2>1. CASE queue' = queue /\ missed' = missed \cup {t}
    BY <1>1, <2>1 DEF SendsTo, SameEvents
  <2>2. CASE queue' = [queue EXCEPT ![t] = Append(@, EventOf(k))]
    <3>1. queue[t] = << >> /\ wire'[t] = << >>
      BY <1>1, <1>3, <1>4 DEF Quiet, SendsTo
    <3>2. queue'[t] = Append(<< >>, EventOf(k))
      BY <2>2, <3>1 DEF TypeOK
    <3> QED  BY <3>1, <3>2
  <2> QED  BY <1>1, <2>1, <2>2 DEF SendsTo
<1>7. OneAtATime'
  <2>1. \A u \in Tabs : /\ wire'[u] = << >> \/ queue'[u] = << >>
                        /\ Len(wire'[u]) <= 1 /\ Len(queue'[u]) <= 1
    <3>1. Len(<< >>) = 0 /\ Len(<< EventOf(k) >>) = 1
      OBVIOUS
    <3>2. \A u \in Tabs : SameEvents(u)
                           \/ (wire'[u] = << >> /\ queue'[u] = << EventOf(k) >>)
      BY <1>5, <1>6
    <3>3. ASSUME NEW u \in Tabs, SameEvents(u)
          PROVE  /\ wire'[u] = << >> \/ queue'[u] = << >>
                 /\ Len(wire'[u]) <= 1 /\ Len(queue'[u]) <= 1
      BY <3>3 DEF Alone, OneAtATime, SameEvents
    <3>4. ASSUME NEW u \in Tabs, wire'[u] = << >>, queue'[u] = << EventOf(k) >>
          PROVE  Len(wire'[u]) <= 1 /\ Len(queue'[u]) <= 1
      BY <3>1, <3>4
    <3> QED  BY <3>2, <3>3, <3>4
  <2>2. \A u \in call'[k].todo : Quiet(u)'
    BY <1>3, <1>4, <1>5, CallParts DEF Quiet, SameEvents
  <2> QED  BY <1>1, <1>3, <1>4, <2>1, <2>2 DEF OneAtATime
<1>8. True(EventOf(k))' /\ EventOf(k)' = EventOf(k)
  BY <1>2, <1>3, <1>4 DEF True, EventOf
<1>9. TrueInv'
  <2>1. True(call[k])'
    BY <1>2, <1>3, <1>4 DEF True
  <2>2. ASSUME NEW u \in Tabs
        PROVE  /\ \A i \in DOMAIN queue'[u] : True(queue[u][i])'
               /\ \A i \in DOMAIN wire'[u] : True(wire[u][i])'
    <3>1. CASE SameEvents(u)
      BY <1>2, <3>1 DEF SameEvents, Alone, TrueInv, True
    <3>2. CASE u = t /\ wire'[t] = << >> /\ queue'[t] = << EventOf(k) >>
      <4>1. DOMAIN wire'[u] = {} /\ DOMAIN queue'[u] = {1}
            /\ queue'[u][1] = EventOf(k)
        BY <3>2
      <4> QED  BY <1>8, <4>1 DEF True
    <3> QED  BY <1>5, <1>6, <3>1, <3>2
  <2> QED  BY <1>3, <1>4, <2>1, <2>2 DEF TrueInv
<1>10. ASSUME NEW u \in Tabs \ missed', tab'[u].mode # "off"
       PROVE  MirrorOf(u)'
  <2>1. u \notin missed /\ tab[u].mode # "off"
    BY <1>1, <1>10 DEF SendsTo
  <2>2. MirrorOf(u)
    BY <2>1 DEF Alone
  <2>3. CASE u # t
    <3>1. \A j \in Calls :
             /\ ToSend(j, u)' <=> ToSend(j, u)
             /\ ToSend(j, u) => /\ call'[j].op = call[j].op
                                /\ call'[j].path = call[j].path
      BY <1>3, <2>3 DEF ToSend
    <3> QED  BY <1>1, <1>2, <1>5, <2>2, <2>3, <3>1, MirrorSame
  <2>4. CASE u = t
    <3>1. wire'[t] = << >> /\ queue'[t] = << EventOf(k) >>
      BY <1>6, <1>10, <2>4
    <3>2. AgreesBut(t, call[k])
      BY <1>3, <2>2, <2>4 DEF MirrorOf, ToSend
    <3>3. AgreesBut(t, EventOf(k))'
      BY <1>1, <1>2, <1>3, <3>2 DEF AgreesBut, EventOf
    <3>4. DOMAIN wire'[t] = {} /\ DOMAIN queue'[t] = {1}
          /\ queue'[t][1] = EventOf(k) /\ queue'[t] # << >>
      BY <3>1
    <3>5. \A j \in Calls : ~ToSend(j, t)'
      BY <1>3, <1>4 DEF ToSend
    <3>6. tab[t].mode = "on" \/ tab'[t].mirror = files'
      BY <1>1, <1>2, <2>2, <2>4 DEF MirrorOf
    <3> QED  BY <1>1, <1>8, <2>4, <3>3, <3>4, <3>5, <3>6 DEF MirrorOf, AgreesBut, Quiet
  <2> QED  BY <2>3, <2>4
<1> QED  BY <1>7, <1>9, <1>10 DEF Alone

LEMMA AloneForward ==
    ASSUME TypeInv, Alone, NEW t \in Tabs, Forward(t)
    PROVE  Alone'
<1> USE DEF TypeInv
<1>1. UNCHANGED <<storeVars, tab, call, acts, missed, overlap>>
  BY ForwardFacts
<1>2. PICK e \in Event : ForwardsTo(t, e) /\ Carries(e)
  BY ForwardFacts
<1>3. files' = files /\ OpenPaths' = OpenPaths
  BY <1>1, StoreSame
<1> DEFINE h == queue[t][1]
<1>4. queue[t] # << >> /\ wire[t] = << >> /\ Len(queue[t]) <= 1 /\ ~Quiet(t)
  BY <1>2 DEF ForwardsTo, Alone, OneAtATime, Quiet
<1>5. queue[t] \in Seq(Event) /\ 1 \in DOMAIN queue[t] /\ h \in Event /\ Carries(h)
  BY <1>4, EventParts, TailFacts
<1>6. queue'[t] = << >> /\ wire'[t] = << e >> /\ \A u \in Tabs \ {t} : SameEvents(u)
  <2>1. queue'[t] = Tail(queue[t]) /\ wire'[t] = Append(<< >>, e)
        /\ \A u \in Tabs \ {t} : SameEvents(u)
    BY <1>2, <1>4 DEF ForwardsTo, SameEvents, TypeOK
  <2>2. Tail(queue[t]) = << >>
    BY <1>4, <1>5, TailOne
  <2> QED  BY <2>1, <2>2
<1>7. /\ \A k \in Calls : call[k].pc \notin {"sent", "saved", "changed", "refused"}
      /\ \A k \in Calls : t \notin call[k].todo
      /\ \A u \in Tabs : ~tab[u].timer
  BY <1>4 DEF Alone, OneAtATime
<1>8. True(h) /\ True(e)
  <2>1. True(h)
    BY <1>5 DEF Alone, TrueInv
  <2>2. /\ e.op = h.op /\ e.path = h.path
        /\ e.file \in Marshalled(h.file, h.path)
        /\ h.file \in File \cup {Live} /\ (h.file = Live => h.path \in OpenPaths)
    BY <1>2, <1>5 DEF ForwardsTo, Event, Carries
  <2> HIDE DEF h
  <2>3. /\ h.file # Live => e.file = h.file
        /\ h.file = Live => e.file = files[h.path]
    BY <1>7, <2>2, MarshalFacts
  <2> QED  BY <2>1, <2>2, <2>3 DEF True
<1>9. OneAtATime'
  <2>1. \A u \in Tabs : /\ wire'[u] = << >> \/ queue'[u] = << >>
                        /\ Len(wire'[u]) <= 1 /\ Len(queue'[u]) <= 1
    <3>1. Len(<< >>) = 0 /\ Len(<< e >>) = 1
      OBVIOUS
    <3>2. ASSUME NEW u \in Tabs, SameEvents(u)
          PROVE  /\ wire'[u] = << >> \/ queue'[u] = << >>
                 /\ Len(wire'[u]) <= 1 /\ Len(queue'[u]) <= 1
      BY <3>2 DEF Alone, OneAtATime, SameEvents
    <3>3. /\ wire'[t] = << >> \/ queue'[t] = << >>
          /\ Len(wire'[t]) <= 1 /\ Len(queue'[t]) <= 1
      BY <1>6, <3>1
    <3>4. ASSUME NEW u \in Tabs
          PROVE  /\ wire'[u] = << >> \/ queue'[u] = << >>
                 /\ Len(wire'[u]) <= 1 /\ Len(queue'[u]) <= 1
      <4>1. CASE u = t
        BY <3>3, <4>1, Zenon
      <4>2. CASE u # t
        BY <1>6, <3>2, <4>2
      <4> QED  BY <4>1, <4>2
    <3> QED  BY <3>4
  <2>2. ASSUME NEW k \in Calls, NEW u \in call'[k].todo PROVE Quiet(u)'
    BY <1>1, <1>6, <1>7, <2>2, CallParts DEF Alone, OneAtATime, Quiet, SameEvents
  <2>3. \A j, k \in Calls : call'[j].pc # "idle" /\ call'[k].pc # "idle" => j = k
    BY <1>1 DEF Alone, OneAtATime
  <2> QED  BY <1>1, <1>7, <2>1, <2>2, <2>3 DEF OneAtATime
<1>10. TrueInv'
  <2>1. \A k \in Calls :
         /\ call'[k].pc = "saved" => call'[k].path \in OpenPaths'
         /\ call'[k].pc \in {"changed", "sending", "answered"} => True(call[k])'
    BY <1>1, <1>3 DEF Alone, TrueInv, True
  <2>2. ASSUME NEW u \in Tabs
        PROVE  /\ \A i \in DOMAIN queue'[u] : True(queue[u][i])'
               /\ \A i \in DOMAIN wire'[u] : True(wire[u][i])'
    <3>1. CASE SameEvents(u)
      BY <1>3, <3>1 DEF SameEvents, Alone, TrueInv, True
    <3>2. CASE u = t
      <4>1. DOMAIN queue'[u] = {} /\ DOMAIN wire'[u] = {1} /\ wire'[u][1] = e
        BY <1>6, <3>2
      <4> QED  BY <1>3, <1>8, <4>1 DEF True
    <3> QED  BY <1>6, <3>1, <3>2
  <2> QED  BY <2>1, <2>2 DEF TrueInv
<1>11. ASSUME NEW u \in Tabs \ missed', tab'[u].mode # "off"
       PROVE  MirrorOf(u)'
  <2>1. MirrorOf(u)
    BY <1>1, <1>11 DEF Alone
  <2>2. \A k \in Calls : ToSend(k, u)' <=> ToSend(k, u)
    BY <1>1 DEF ToSend
  <2>3. CASE u # t
    BY <1>1, <1>3, <1>6, <2>1, <2>2, <2>3, MirrorSame
  <2>4. CASE u = t
    <3>1. AgreesBut(t, h)
      BY <1>5, <2>1, <2>4 DEF MirrorOf
    <3>2. AgreesBut(t, e)'
      BY <1>1, <1>2, <1>3, <3>1 DEF AgreesBut, ForwardsTo
    <3>3. DOMAIN queue'[t] = {} /\ DOMAIN wire'[t] = {1} /\ wire'[t][1] = e
          /\ wire'[t] # << >>
      BY <1>6
    <3>4. \A k \in Calls : ~ToSend(k, t)'
      BY <1>1, <1>7 DEF ToSend
    <3>5. tab[t].mode = "on" \/ tab'[t].mirror = files'
      BY <1>1, <1>3, <2>1, <2>4 DEF MirrorOf
    <3> QED  BY <1>1, <2>4, <3>2, <3>3, <3>4, <3>5 DEF MirrorOf, AgreesBut, Quiet
  <2> QED  BY <2>3, <2>4
<1> QED  BY <1>9, <1>10, <1>11 DEF Alone

-----------------------------------------------------------------------------
(* The mirror is mended by what a call or an event says of one path. *)

Mends(t, p) ==
    LET m == tab[t].mirror
        n == tab'[t].mirror
    IN  /\ n \in FileMap
        /\ \/ p \in OpenPaths /\ DOMAIN n = DOMAIN m \cup {p} /\ n[p] = files[p]
           \/ p \notin OpenPaths /\ DOMAIN n = DOMAIN m \ {p}
        /\ \A q \in DOMAIN m \ {p} : n[q] = m[q]

LEMMA MendFacts ==
    ASSUME TypeOK, NEW t \in Tabs, NEW p, Mends(t, p),
           UNCHANGED storeVars
    PROVE  /\ \A x : AgreesBut(t, x) => AgreesBut(t, x)'
           /\ \A x : AgreesBut(t, x) /\ x.path = p /\ x.op # "switch" =>
                tab'[t].mirror = files'
           /\ tab[t].mirror = files => tab'[t].mirror = files'
<1> DEFINE m == tab[t].mirror
           n == tab'[t].mirror
<1>1. files' = files /\ OpenPaths' = OpenPaths /\ OpenPaths = DOMAIN files
      /\ files \in FileMap
  BY StoreSame DEF OpenPaths, TypeOK, StoreTypeOK
<1>2. /\ n \in FileMap
      /\ \/ p \in OpenPaths /\ DOMAIN n = DOMAIN m \cup {p} /\ n[p] = files[p]
         \/ p \notin OpenPaths /\ DOMAIN n = DOMAIN m \ {p}
      /\ \A q \in DOMAIN m \ {p} : n[q] = m[q]
  BY DEF Mends
<1> HIDE DEF m, n
<1>3. ASSUME DOMAIN m \ {p} = OpenPaths \ {p},
             \A q \in OpenPaths \ {p} : m[q] = files[q]
      PROVE  n = files
  <2>1. DOMAIN n = DOMAIN files
    BY <1>1, <1>2, <1>3
  <2>2. \A q \in DOMAIN files : n[q] = files[q]
    BY <1>1, <1>2, <1>3
  <2> QED  BY <1>1, <1>2, <2>1, <2>2, MapsEqual
<1>4. m = files => n = files
  BY <1>1, <1>3
<1>5. ASSUME NEW x, AgreesBut(t, x)
      PROVE  AgreesBut(t, x)'
  <2>1. CASE x.op = "switch"
    BY <1>1, <1>4, <1>5, <2>1 DEF AgreesBut, m, n
  <2>2. CASE x.op # "switch"
    <3>1. /\ DOMAIN m \ {x.path} = OpenPaths \ {x.path}
          /\ \A q \in OpenPaths \ {x.path} : m[q] = files[q]
      BY <1>5, <2>2 DEF AgreesBut, m
    <3>2. /\ DOMAIN n \ {x.path} = OpenPaths \ {x.path}
          /\ \A q \in OpenPaths \ {x.path} : n[q] = files[q]
      BY <1>2, <3>1
    <3> QED  BY <1>1, <2>2, <3>2 DEF AgreesBut, n
  <2> QED  BY <2>1, <2>2
<1>6. ASSUME NEW x, AgreesBut(t, x), x.path = p, x.op # "switch"
      PROVE  n = files
  BY <1>3, <1>6 DEF AgreesBut, m
<1> QED  BY <1>1, <1>4, <1>5, <1>6 DEF m, n

\* What is true of a file mends the mirror of a tab that is told it.
LEMMA PutMends ==
    ASSUME TypeOK, NEW t \in Tabs, NEW p \in OpenPaths,
           tab'[t].mirror = MirrorPut(tab[t].mirror, p, files[p])
    PROVE  Mends(t, p)
<1> DEFINE m == tab[t].mirror
           f == files[p]
           n == MirrorPut(m, p, f)
<1>1. p \in Paths /\ f \in OpenFile /\ m \in FileMap
  BY FilesParts, TabParts DEF TypeOK
<1> HIDE DEF m, f
<1>2. /\ DOMAIN n = DOMAIN m \cup {p}
      /\ n[p] = f
      /\ \A q \in DOMAIN m \ {p} : n[q] = m[q]
  BY DEF MirrorPut
<1>3. n \in FileMap
  BY <1>1, MirrorFacts
<1> QED  BY <1>2, <1>3 DEF Mends, m, f

LEMMA DeleteMends ==
    ASSUME TypeOK, NEW t \in Tabs, NEW p \in Paths \ OpenPaths,
           tab'[t].mirror = MirrorDelete(tab[t].mirror, p)
    PROVE  Mends(t, p)
<1>1. FreshFile(Empty) \in OpenFile
  BY ContentsAssumption DEF FreshFile, OpenFile
<1> DEFINE m == tab[t].mirror
<1>2. m \in FileMap
  BY TabParts
<1> HIDE DEF m
<1>3. p \in Paths
  OBVIOUS
<1>4. /\ MirrorDelete(m, p) \in FileMap
      /\ DOMAIN MirrorDelete(m, p) = DOMAIN m \ {p}
      /\ \A q \in DOMAIN m \ {p} : MirrorDelete(m, p)[q] = m[q]
  BY <1>1, <1>2, <1>3, MirrorFacts
<1> QED  BY <1>4 DEF Mends, m

LEMMA AloneReceive ==
    ASSUME TypeInv, Alone, NEW t \in Tabs, NEW slot \in Slots, Receive(t, slot)
    PROVE  Alone'
<1> USE DEF TypeInv
<1> DEFINE k == <<t, slot>>
           c == call[k]
<1>1. CallBecomes(k, "idle", "edit", NoPath, Empty, NoFile, {}) /\ k \in Calls
  BY ReceiveCall DEF Calls
<1>2. /\ c.pc \in {"answered", "refused"} /\ c.path \in Paths
      /\ c.file \in File /\ c.op \in Op
      /\ \/ c.pc = "refused" /\ tab' = tab
         \/ c.pc = "answered" /\
              \/ c.op = "open" /\ c.file \in OpenFile
                 /\ Opened(t, c.path, c.file)
              \/ c.op \in {"edit", "save"} /\ c.file = NoFile /\ tab' = tab
              \/ c.op \in {"edit", "save"} /\ c.file \in OpenFile
                 /\ Mirrored(t, c.path, c.file)
              \/ c.op = "close" /\ Dropped(t, c.path)
              \/ c.op = "switch" /\ Switched(t, c.path)
      /\ UNCHANGED <<storeVars, queue, wire, acts, missed, overlap>>
  BY ReceiveFacts
<1> HIDE DEF k
<1>3. /\ \A j \in Calls : call'[j].pc = "idle" /\ call'[j].todo = {}
      /\ \A j \in Calls, u \in Tabs : ~ToSend(j, u) /\ ~ToSend(j, u)'
      /\ \A u \in Tabs : ~tab[u].timer
  <2>1. c.pc # "idle" /\ c.todo = {}
    BY <1>1, <1>2 DEF FormInv, CallForm
  <2>2. /\ \A j \in Calls \ {k} : call[j].pc = "idle" /\ call[j].todo = {}
        /\ \A u \in Tabs : ~tab[u].timer
    BY <1>1, <2>1, BusyFacts DEF Alone
  <2>3. \A j \in Calls : call'[j].pc = "idle" /\ call'[j].todo = {}
    BY <1>1, <2>2 DEF CallBecomes
  <2> QED  BY <1>2, <2>1, <2>2, <2>3 DEF ToSend
<1>4. files' = files /\ OpenPaths' = OpenPaths
  BY <1>2, StoreSame
<1>5. c.pc = "answered" => True(c)
  BY <1>1 DEF Alone, TrueInv
<1>6. \A u \in Tabs : SameEvents(u)
  BY <1>2 DEF SameEvents
<1>7. /\ \A u \in Tabs \ {t} : tab'[u] = tab[u]
      /\ tab'[t].mode = tab[t].mode /\ tab'[t].timer = tab[t].timer
      /\ tab'[t].mirror = tab[t].mirror \/ Mends(t, c.path)
  <2>1. CASE tab' = tab
    BY <2>1
  <2>2. CASE c.pc = "answered" /\ c.op = "open" /\ c.file \in OpenFile
             /\ Opened(t, c.path, c.file)
    <3>1. c.path \in OpenPaths /\ c.file = files[c.path]
      BY <1>5, <2>2, NullAssumption DEF True, File
    <3> QED  BY <2>2, <3>1, PutMends DEF Opened, TabBecomes
  <2>3. CASE c.pc = "answered" /\ c.op \in {"edit", "save"} /\ c.file \in OpenFile
             /\ Mirrored(t, c.path, c.file)
    <3>1. c.path \in OpenPaths /\ c.file = files[c.path]
      BY <1>5, <2>3, NullAssumption DEF True, File
    <3> QED  BY <2>3, <3>1, PutMends DEF Mirrored, TabBecomes
  <2>4. CASE c.pc = "answered" /\ c.op = "close" /\ Dropped(t, c.path)
    <3>1. c.path \in Paths \ OpenPaths
      BY <1>2, <1>5, <2>4 DEF True
    <3> QED  BY <2>4, <3>1, DeleteMends DEF Dropped, TabBecomes
  <2>5. CASE c.op = "switch" /\ Switched(t, c.path)
    BY <2>5 DEF Switched, TabBecomes
  <2> HIDE DEF c
  <2> QED  BY <1>2, <2>1, <2>2, <2>3, <2>4, <2>5
<1>8. OneAtATime'
  <2>1. \A u \in Tabs : /\ wire'[u] = << >> \/ queue'[u] = << >>
                        /\ Len(wire'[u]) <= 1 /\ Len(queue'[u]) <= 1
    BY <1>6 DEF Alone, OneAtATime, SameEvents
  <2>2. \A u \in Tabs : ~tab'[u].timer
    BY <1>3, <1>7
  <2> QED  BY <1>3, <2>1, <2>2 DEF OneAtATime
<1>9. TrueInv'
  <2>1. ASSUME NEW u \in Tabs
        PROVE  /\ \A i \in DOMAIN queue'[u] : True(queue[u][i])'
               /\ \A i \in DOMAIN wire'[u] : True(wire[u][i])'
    BY <1>4, <1>6 DEF SameEvents, Alone, TrueInv, True
  <2> QED  BY <1>3, <2>1 DEF TrueInv
<1>10. ASSUME NEW u \in Tabs \ missed', tab'[u].mode # "off"
       PROVE  MirrorOf(u)'
  <2>1. MirrorOf(u)
    BY <1>2, <1>7, <1>10 DEF Alone
  <2>2. CASE tab'[u].mirror = tab[u].mirror /\ tab'[u].mode = tab[u].mode
    BY <1>3, <1>4, <1>6, <2>1, <2>2, MirrorSame
  <2>3. CASE u = t /\ Mends(t, c.path)
    <3>1. \A x : AgreesBut(t, x) => AgreesBut(t, x)'
      BY <1>2, <2>3, MendFacts
    <3>2. tab[t].mirror = files => tab'[t].mirror = files'
      BY <1>2, <2>3, MendFacts
    <3>3. /\ \A i \in DOMAIN queue'[t] : AgreesBut(t, queue[t][i])'
          /\ \A i \in DOMAIN wire'[t] : AgreesBut(t, wire[t][i])'
      <4>1. /\ \A i \in DOMAIN queue[t] : AgreesBut(t, queue[t][i])
            /\ \A i \in DOMAIN wire[t] : AgreesBut(t, wire[t][i])
        BY <2>1, <2>3 DEF MirrorOf
      <4> QED  BY <1>6, <3>1, <4>1 DEF SameEvents, AgreesBut
    <3>4. Quiet(t)' <=> Quiet(t)
      BY <1>6 DEF SameEvents, Quiet
    <3>5. /\ tab[t].mode # "on" \/ (Quiet(t) /\ \A j \in Calls : ~ToSend(j, t))
             => tab[t].mirror = files
      BY <2>1, <2>3 DEF MirrorOf
    <3>6. \/ tab'[t].mode # "on"
          \/ Quiet(t)' /\ \A j \in Calls : ~ToSend(j, t)'
          => tab'[t].mirror = files'
      BY <1>3, <1>7, <3>2, <3>4, <3>5
    <3>7. \A j \in Calls : ToSend(j, t)' => AgreesBut(t, call[j])'
      BY <1>3
    <3> HIDE DEF c
    <3> QED  BY <2>3, <3>3, <3>6, <3>7 DEF MirrorOf
  <2> QED  BY <1>7, <2>2, <2>3
<1> QED  BY <1>8, <1>9, <1>10 DEF Alone

\* The only event of a tab is taken in.
LEMMA AloneHandle ==
    ASSUME TypeInv, Alone, NEW t \in Tabs, HandleEvent(t)
    PROVE  Alone'
<1> USE DEF TypeInv
<1> DEFINE e == wire[t][1]
<1>1. /\ wire[t] # << >> /\ wire' = [wire EXCEPT ![t] = Tail(@)]
      /\ 1 \in DOMAIN wire[t] /\ e \in Event /\ e.path \in Paths
      /\ e.file \in File
      /\ \/ e.op \in {"edit", "save"} /\ e.file = NoFile /\ tab' = tab
         \/ e.op \in {"edit", "save"} /\ e.file \in OpenFile
            /\ Updated(t, e.path, e.file)
         \/ e.op = "open" /\ e.file \in OpenFile
            /\ Mirrored(t, e.path, e.file)
         \/ e.op = "close" /\ Dropped(t, e.path)
         \/ e.op = "switch" /\ Switched(t, e.path)
      /\ UNCHANGED <<storeVars, call, queue, acts, missed, overlap>>
  BY HandleFacts
<1>2. files' = files /\ OpenPaths' = OpenPaths
  BY <1>1, StoreSame
<1>3. queue[t] = << >> /\ Len(wire[t]) <= 1 /\ ~Quiet(t)
  BY <1>1 DEF Alone, OneAtATime, Quiet
<1>4. Quiet(t)' /\ \A u \in Tabs \ {t} : SameEvents(u)
  <2>1. wire'[t] = Tail(wire[t]) /\ \A u \in Tabs \ {t} : wire'[u] = wire[u]
    BY <1>1 DEF TypeOK
  <2>2. Tail(wire[t]) = << >>
    BY <1>1, <1>3, TailOne DEF TypeOK
  <2> QED  BY <1>1, <1>3, <2>1, <2>2 DEF Quiet, SameEvents
<1>5. \A k \in Calls : ~ToSend(k, t) /\ ~ToSend(k, t)'
  BY <1>1, <1>3 DEF Alone, OneAtATime, ToSend
<1>6. True(e)
  BY <1>1 DEF Alone, TrueInv
<1>7. e.file = files[e.path] \/ e.op \in {"close", "switch"}
  <2>1. e.file # Live
    BY <1>1, NullAssumption
  <2>2. e.op \in Op
    BY <1>1 DEF Event
  <2> HIDE DEF e
  <2> QED  BY <1>6, <2>1, <2>2 DEF True, Op
<1>8. /\ \A u \in Tabs \ {t} : tab'[u] = tab[u]
      /\ tab'[t].mode = tab[t].mode /\ tab'[t].timer = tab[t].timer
      /\ \/ e.op # "switch" /\ Mends(t, e.path)
         \/ e.op = "switch" /\ tab'[t].mirror = tab[t].mirror
  <2>1. e.op \in {"edit", "save", "open"} =>
          e.path \in OpenPaths /\ files[e.path] \in OpenFile
    BY <1>6, FilesParts DEF True, TypeOK
  <2>2. CASE e.op \in {"edit", "save"} /\ e.file = NoFile /\ tab' = tab
    BY <1>7, <2>1, <2>2, NullAssumption
  <2>3. CASE e.op \in {"edit", "save"} /\ e.file \in OpenFile
             /\ Updated(t, e.path, e.file)
    BY <1>7, <2>1, <2>3, PutMends DEF Updated, TabBecomes
  <2>4. CASE e.op = "open" /\ Mirrored(t, e.path, e.file)
    BY <1>7, <2>1, <2>4, PutMends DEF Mirrored, TabBecomes
  <2>5. CASE e.op = "close" /\ Dropped(t, e.path)
    <3>1. e.path \in Paths \ OpenPaths
      BY <1>1, <1>6, <2>5 DEF True
    <3> QED  BY <2>5, <3>1, DeleteMends DEF Dropped, TabBecomes
  <2>6. CASE e.op = "switch" /\ Switched(t, e.path)
    BY <2>6 DEF Switched, TabBecomes
  <2> HIDE DEF e
  <2> QED  BY <1>1, <2>2, <2>3, <2>4, <2>5, <2>6
<1>9. OneAtATime' /\ TrueInv'
  <2>1. \A u \in Tabs : SameEvents(u) \/ Quiet(u)'
    BY <1>4
  <2>2. \A u \in Tabs : tab'[u].timer => tab[u].timer
    BY <1>8
  <2> QED  BY <1>1, <1>2, <2>1, <2>2, OneLess, TrueLess DEF Alone
<1>10. ASSUME NEW u \in Tabs \ missed', tab'[u].mode # "off"
       PROVE  MirrorOf(u)'
  <2>1. MirrorOf(u)
    BY <1>1, <1>8, <1>10 DEF Alone
  <2>2. CASE u = t
    <3>1. AgreesBut(t, e)
      BY <1>1, <2>1, <2>2 DEF MirrorOf
    <3>2. tab'[t].mirror = files'
      <4>1. CASE e.op # "switch" /\ Mends(t, e.path)
        BY <1>1, <3>1, <4>1, MendFacts
      <4>2. CASE e.op = "switch" /\ tab'[t].mirror = tab[t].mirror
        BY <1>2, <3>1, <4>2 DEF AgreesBut
      <4> QED  BY <1>8, <4>1, <4>2
    <3> QED  BY <2>2, <3>2, MirrorEqual
  <2>3. CASE u # t
    <3>1. tab'[u] = tab[u] /\ SameEvents(u)
      BY <1>4, <1>8, <2>3
    <3>2. \A k \in Calls : ToSend(k, u)' <=> ToSend(k, u)
      BY <1>1 DEF ToSend
    <3> QED  BY <1>1, <1>2, <2>1, <3>1, <3>2, MirrorSame
  <2> QED  BY <2>2, <2>3
<1> QED  BY <1>9, <1>10 DEF Alone

LEMMA AloneStart == Init => ListenInv /\ AloneInv
<1> SUFFICES ASSUME Init PROVE ListenInv /\ AloneInv
  OBVIOUS
<1>1. /\ \A t \in Tabs : tab[t] = Blank /\ queue[t] = << >> /\ wire[t] = << >>
      /\ \A k \in Calls : call[k] = Idle
      /\ \A t \in Tabs, s \in Slots : call[<<t, s>>] = Idle
  BY DEF Init, Calls
<1>2. ActiveFileIsOpen
  <2>1. PICK S \in SUBSET Paths :
          /\ files = [p \in S |-> FreshFile(disk[p])]
          /\ active \in IF S = {} THEN {NoPath} ELSE S
    BY DEF Init
  <2> QED  BY <2>1 DEF ActiveFileIsOpen, OpenPaths
<1>3. ListenInv
  BY <1>1, <1>2 DEF ListenInv, ListenOf, Quiet, Blank, Idle
<1>4. OneAtATime
  <2>1. Len(<< >>) = 0
    OBVIOUS
  <2> QED  BY <1>1, <2>1 DEF OneAtATime, Quiet, Blank, Idle
<1>5. TrueInv
  <2>1. \A t \in Tabs : DOMAIN queue[t] = {} /\ DOMAIN wire[t] = {}
    BY <1>1
  <2> QED  BY <1>1, <2>1 DEF TrueInv, Idle
<1>6. Alone
  BY <1>1, <1>4, <1>5 DEF Alone, Blank
<1> QED  BY <1>3, <1>6 DEF AloneInv

LEMMA AloneStep ==
    TypeInv /\ ListenInv /\ AloneInv /\ [Next]_vars => AloneInv'
<1> SUFFICES ASSUME TypeInv, ListenInv, AloneInv, [Next]_vars,
                    overlap' = "none"
             PROVE  Alone'
  BY DEF AloneInv
<1>1. ASSUME NEW t \in Tabs,
             \/ FetchList(t) \/ FetchActive(t) \/ Subscribe(t) \/ Disconnect(t)
             \/ Reload(t)
      PROVE  Alone'
  <2>1. overlap' = overlap
    BY <1>1 DEF FetchList, FetchActive, Subscribe, Disconnect, Reload
  <2> QED  BY <1>1, <2>1, AloneTab DEF AloneInv
<1>2. ASSUME NEW t \in Tabs, NEW text \in Contents, Type(t, text)
      PROVE  Alone'
  <2>1. overlap = "none" /\ AtRest
    BY <1>2, NoteNone DEF Type
  <2> QED  BY <1>2, <2>1, AloneType DEF AloneInv
<1>3. ASSUME NEW t \in Tabs, Push(t) PROVE Alone'
  <2>1. overlap' = overlap
    BY <1>3 DEF Push
  <2> QED  BY <1>3, <2>1, AloneAsks DEF AloneInv
<1>4. ASSUME NEW t \in Tabs, NEW op \in Op \ {"edit"}, NEW p \in Paths,
             Click(t, op, p)
      PROVE  Alone'
  <2>1. overlap = "none" /\ AtRest
    BY <1>4, NoteNone DEF Click
  <2> QED  BY <1>4, <2>1, AloneAsks DEF AloneInv
<1>5. ASSUME NEW t \in Tabs,
             Forward(t) \/ HandleEvent(t) \/ \E slot \in Slots : Receive(t, slot)
      PROVE  Alone'
  <2>1. overlap' = overlap
    BY <1>5 DEF Forward, HandleEvent, Receive
  <2> QED  BY <1>5, <2>1, AloneForward, AloneHandle, AloneReceive DEF AloneInv
<1>6. ASSUME NEW k \in Calls,
             \/ Serve(k) \/ Refuse(k) \/ Copy(k) \/ Publish(k) \/ Answer(k)
             \/ \E t \in Tabs : Send(k, t)
      PROVE  Alone'
  <2>1. overlap' = overlap
    BY <1>6 DEF Serve, Refuse, Copy, Publish, Answer, Send
  <2> QED  BY <1>6, <2>1, AloneServe, AloneCallStep, AloneSend DEF AloneInv
<1>7. CASE UNCHANGED vars
  <2>1. Alone
    BY <1>7 DEF vars, AloneInv
  <2>2. UNCHANGED <<storeVars, tab, call, queue, wire, missed>>
    BY <1>7 DEF vars
  <2>3. files' = files /\ \A u \in Tabs : SameEvents(u)
    BY <2>2, StoreSame DEF SameEvents
  <2>4. OneAtATime' /\ TrueInv'
    BY <2>1, <2>2, <2>3, OneLess, TrueLess DEF Alone, TypeInv
  <2>5. \A k \in Calls, u \in Tabs : ToSend(k, u)' <=> ToSend(k, u)
    BY <2>2 DEF ToSend
  <2>6. \A u \in Tabs \ missed' : tab'[u].mode # "off" => MirrorOf(u)'
    BY <2>1, <2>2, <2>3, <2>5, MirrorSame DEF Alone
  <2> QED  BY <2>4, <2>6 DEF Alone
<1> QED  BY <1>1, <1>2, <1>3, <1>4, <1>5, <1>6, <1>7 DEF Next

(***************************************************************************)
(* As long as nothing overlaps, no open, close, save or edit is lost on a  *)
(* tab that missed no event: once nothing is in flight its mirror is the   *)
(* server's map.                                                           *)
(***************************************************************************)
THEOREM MirrorsStay == Spec => []MirrorsAgree
<1>1. TypeInv /\ AloneInv => MirrorsAgree
  <2> SUFFICES ASSUME TypeInv, Alone, AtRest, NEW t \in Tabs, InStep(t)
               PROVE  tab[t].mirror = files
    BY DEF MirrorsAgree, AloneInv
  <2>1. Quiet(t) /\ \A k \in Calls : ~ToSend(k, t)
    BY RestFacts DEF TypeInv
  <2> QED  BY <2>1 DEF InStep, Alone, MirrorOf
<1> QED  BY <1>1, TypeStart, TypeStep, AloneStart, ListenStep, AloneStep, PTL DEF Spec

-----------------------------------------------------------------------------
(* As long as only edits overlap: what a step leaves as it was. *)

\* Nothing happened between t and p but that an edit of p came up.
LEMMA PathKept ==
    ASSUME NEW t \in Tabs, NEW p, PathOf(t, p), SameEvents(t),
           tab'[t].mirror = tab[t].mirror, tab'[t].focus = tab[t].focus,
           tab'[t].mode \in Shown => tab[t].mode \in Shown,
           ~Moved(t) \/ (Answering(t, p)' => Answering(t, p)),
           \/ Coming(t, p)'
           \/ /\ Coming(t, p) => Coming(t, p)'
              /\ files'[p].buffer = files[p].buffer
              /\ \/ tab'[t].timer
                 \/ /\ tab'[t].doc = tab[t].doc
                    /\ tab[t].focus = p => ~tab[t].timer
    PROVE  PathOf(t, p)'
<1>1. /\ Queued(t, p)' <=> Queued(t, p)
      /\ Moved(t)' <=> Moved(t)
      /\ Wired(t, p, 0)' <=> Wired(t, p, 0)
  BY DEF SameEvents, Queued, Moved, Wired
<1>2. ASSUME NEW i PROVE Wired(t, p, i)' <=> Wired(t, p, i)
  BY DEF SameEvents, Wired
<1>3. CASE Coming(t, p)'
  <2>1. ASSUME NEW i PROVE Later(t, p, i)'
    BY <1>3 DEF Later
  <2>2. LastIsTrue(t, p)'
    BY <2>1 DEF LastIsTrue
  <2>3. Shows(t, p)'
    BY <2>1 DEF Shows
  <2>4. Knows(t, p)'
    BY <1>1, <2>1 DEF Knows, PathOf
  <2> QED  BY <2>2, <2>3, <2>4 DEF PathOf
<1>4. CASE /\ Coming(t, p) => Coming(t, p)'
           /\ files'[p].buffer = files[p].buffer
           /\ \/ tab'[t].timer
              \/ /\ tab'[t].doc = tab[t].doc
                 /\ tab[t].focus = p => ~tab[t].timer
  <2>1. ASSUME NEW i PROVE Later(t, p, i) => Later(t, p, i)'
    BY <1>1, <1>2, <1>4 DEF Later
  <2>2. Later(t, p, 0) => Later(t, p, 0)'
    BY <2>1
  <2>3. LastIsTrue(t, p)'
    <3>1. ASSUME NEW i \in DOMAIN wire'[t], Brought(wire[t][i], p)',
                 ~Later(t, p, i)'
          PROVE  wire'[t][i].file.buffer = files'[p].buffer
      BY <1>4, <2>1, <3>1 DEF PathOf, LastIsTrue, SameEvents, Brought
    <3>2. ASSUME NEW i \in DOMAIN queue'[t], Brought(queue[t][i], p)',
                 queue'[t][i].op = "save", ~Later(t, p, 0)'
          PROVE  queue'[t][i].file.buffer = files'[p].buffer
      BY <1>4, <2>2, <3>2 DEF PathOf, LastIsTrue, SameEvents, Brought
    <3> QED  BY <3>1, <3>2 DEF LastIsTrue
  <2>4. Shows(t, p)'
    BY <1>4, <2>2 DEF PathOf, Shows
  <2>5. Knows(t, p)'
    BY <1>1, <1>4, <2>2 DEF PathOf, Knows
  <2> QED  BY <2>3, <2>4, <2>5 DEF PathOf
<1> QED  BY <1>3, <1>4

LEMMA QuietFacts ==
    ASSUME NEW t \in Tabs, Quiet(t)
    PROVE  /\ SwitchOpen(t) /\ ~Moved(t)
           /\ \A p : LastIsTrue(t, p) /\ Knows(t, p)
           /\ \A p : Later(t, p, 0) => Coming(t, p)
<1>1. DOMAIN queue[t] = {} /\ DOMAIN wire[t] = {}
  BY DEF Quiet
<1> QED  BY <1>1 DEF SwitchOpen, Moved, LastIsTrue, Knows, Later, Queued, Wired

\* A tab that is sent nothing.
LEMMA TextQuiet ==
    ASSUME NEW t \in Tabs, Quiet(t)', FocusKnown(t)',
           \A p \in OpenPaths' : Shows(t, p)'
    PROVE  TextOf(t)'
<1>1. DOMAIN queue'[t] = {} /\ DOMAIN wire'[t] = {}
  BY DEF Quiet
<1>2. SwitchOpen(t)' /\ ~Moved(t)'
  BY <1>1 DEF SwitchOpen, Moved
<1>3. ASSUME NEW p \in OpenPaths' PROVE PathOf(t, p)'
  BY <1>1, <1>2, <1>3 DEF PathOf, LastIsTrue, Knows
<1> QED  BY <1>2, <1>3 DEF TextOf

LEMMA TextKept ==
    ASSUME NEW t \in Tabs, TextOf(t), SameEvents(t), tab'[t] = tab[t],
           OpenPaths' = OpenPaths,
           \A p \in OpenPaths :
             /\ ~Moved(t) \/ (Answering(t, p)' => Answering(t, p))
             /\ \/ Coming(t, p)'
                \/ /\ Coming(t, p) => Coming(t, p)'
                   /\ files'[p].buffer = files[p].buffer
    PROVE  TextOf(t)'
<1>1. FocusKnown(t)' /\ SwitchOpen(t)'
  BY DEF TextOf, FocusKnown, SwitchOpen, SameEvents
<1>2. ASSUME NEW p \in OpenPaths' PROVE PathOf(t, p)'
  <2>1. PathOf(t, p)
    BY <1>2 DEF TextOf
  <2>2. tab'[t].timer \/ (tab'[t].doc = tab[t].doc /\ ~tab[t].timer)
    OBVIOUS
  <2> QED  BY <1>2, <2>1, <2>2, PathKept
<1> QED  BY <1>1, <1>2 DEF TextOf

\* Only call k changes.
LEMMA ComingKept ==
    ASSUME NEW k \in Calls, \A j \in Calls \ {k} : call'[j] = call[j],
           NEW t \in Tabs, tab[t].mode = "on" => tab'[t].mode = "on",
           NEW p, Brings(k, t, p) => Brings(k, t, p)'
    PROVE  Coming(t, p) => Coming(t, p)'
<1>1. ASSUME NEW j \in Calls, Brings(j, t, p) PROVE Brings(j, t, p)'
  BY <1>1 DEF Brings, EditOf
<1> QED  BY <1>1 DEF Coming

LEMMA AnsweringKept ==
    ASSUME NEW k \in Calls, \A j \in Calls \ {k} : call'[j] = call[j],
           NEW t \in Tabs, NEW p, Answers(k, t, p)' => Answers(k, t, p)
    PROVE  Answering(t, p)' => Answering(t, p)
<1>1. ASSUME NEW j \in Calls, Answers(j, t, p)' PROVE Answers(j, t, p)
  BY <1>1 DEF Answers, EditOf
<1> QED  BY <1>1 DEF Answering

LEMMA LastKept ==
    ASSUME NEW t \in Tabs, EditsLast(t), SameEvents(t) \/ Quiet(t)'
    PROVE  EditsLast(t)'
<1>1. Quiet(t)' => DOMAIN queue'[t] = {} /\ DOMAIN wire'[t] = {}
  BY DEF Quiet
<1> QED  BY <1>1 DEF EditsLast, SameEvents

\* Beside k there are only edits, before and after.
LEMMA OthersEdit ==
    ASSUME EditsOnly, NEW k \in Calls, call[k].pc # "idle"
    PROVE  \A j \in Calls \ {k} : call[j].pc = "idle" \/ call[j].op = "edit"
BY DEF EditsOnly, CallOf, Sole

LEMMA EditsCall ==
    ASSUME EditsOnly, NEW k \in Calls, \A j \in Calls \ {k} : call'[j] = call[j],
           \A j \in Calls \ {k} : call[j].pc = "idle" \/ call[j].op = "edit",
           CallOf(k)', \A t \in Tabs : SameEvents(t) \/ Quiet(t)'
    PROVE  EditsOnly'
<1>1. ASSUME NEW j \in Calls \ {k} PROVE CallOf(j)'
  BY DEF EditsOnly, CallOf
<1> QED  BY <1>1, LastKept DEF EditsOnly

LEMMA SoleKept ==
    ASSUME NEW k \in Calls, Sole(k), \A j \in Calls \ {k} : call'[j] = call[j],
           \A t \in Tabs : tab'[t].timer => tab[t].timer,
           \A t \in Tabs : SameEvents(t) \/ Quiet(t)',
           call'[k].op = call[k].op, call'[k].path = call[k].path,
           call'[k].pc \in {"sent", "saved", "changed", "refused"} =>
             \A t \in Tabs : Quiet(t),
           \A t \in call'[k].todo : t \in Tabs /\ Quiet(t)
    PROVE  Sole(k)'
<1>1. \A t \in Tabs : Quiet(t) => Quiet(t)'
  BY DEF SameEvents, Quiet
<1>2. ASSUME NEW t \in Tabs
      PROVE  /\ \A i \in DOMAIN queue'[t] : /\ queue'[t][i].op = call'[k].op
                                           /\ queue'[t][i].path = call'[k].path
             /\ \A i \in DOMAIN wire'[t] : /\ wire'[t][i].op = call'[k].op
                                          /\ wire'[t][i].path = call'[k].path
  <2>1. Quiet(t)' => DOMAIN queue'[t] = {} /\ DOMAIN wire'[t] = {}
    BY DEF Quiet
  <2> QED  BY <2>1 DEF Sole, SameEvents
<1> QED  BY <1>1, <1>2 DEF Sole

-----------------------------------------------------------------------------
(* As long as only edits overlap: the steps of a tab on its own. *)

LEMMA EditsStay ==
    ASSUME TypeOK, EditsOnly, call' = call, overlap' = overlap, files' = files,
           \A t \in Tabs : tab'[t].timer => tab[t].timer,
           \A t \in Tabs : SameEvents(t) \/ Quiet(t)'
    PROVE  EditsOnly'
<1>1. ASSUME NEW k \in Calls PROVE CallOf(k)'
  <2>1. ASSUME call[k].pc # "idle", call[k].op # "edit"
        PROVE  Sole(k)' /\ CopyIsTrue(k)' /\ (call'[k].op # "save" => overlap' = "none")
    <3>1. Sole(k) /\ CopyIsTrue(k) /\ (call[k].op # "save" => overlap = "none")
      BY <2>1 DEF EditsOnly, CallOf
    <3>2. /\ \A t \in call'[k].todo : t \in Tabs /\ Quiet(t)
          /\ call'[k].pc \in {"sent", "saved", "changed", "refused"} =>
               \A t \in Tabs : Quiet(t)
      BY <3>1, CallParts DEF Sole
    <3>3. Sole(k)'
      BY <3>1, <3>2, SoleKept
    <3>4. CopyIsTrue(k)'
      BY <3>1 DEF CopyIsTrue, OpenPaths
    <3> QED  BY <3>1, <3>3, <3>4
  <2> QED  BY <2>1 DEF EditsOnly, CallOf
<1> QED  BY <1>1, LastKept DEF EditsOnly

LEMMA TextTab ==
    ASSUME TypeInv, ListenInv, Texts, NEW t \in Tabs,
           \/ FetchList(t) \/ FetchActive(t) \/ Subscribe(t) \/ Disconnect(t)
           \/ Reload(t)
    PROVE  Texts'
<1> USE DEF TypeInv
<1>1. UNCHANGED <<storeVars, call, overlap>>
  BY DEF FetchList, FetchActive, Subscribe, Disconnect, Reload
<1>2. files' = files /\ OpenPaths' = OpenPaths
  BY <1>1, StoreSame
<1>3. \A u \in Tabs : tab'[u].timer => tab[u].timer
  BY TimersRest
<1>4. \A u \in Tabs : SameEvents(u) \/ (u = t /\ Disconnect(t) /\ Quiet(u)')
  BY DEF SameEvents, Quiet, FetchList, FetchActive, Subscribe, Disconnect, Reload, TypeOK
<1>5. EditsOnly'
  BY <1>1, <1>2, <1>3, <1>4, EditsStay DEF Texts
<1>6. ASSUME NEW u \in Tabs \ missed', u # t
      PROVE  TextOf(u)'
  <2>1. tab'[u] = tab[u] /\ u \notin missed
    BY <1>6, FetchListTab, FetchActiveTab, StreamTab, ReloadTab
       DEF TabBecomes, FetchList, FetchActive, Subscribe, Disconnect, Reload
  <2>2. TextOf(u) /\ SameEvents(u)
    BY <1>4, <1>6, <2>1 DEF Texts
  <2>3. \A p : /\ Coming(u, p) => Coming(u, p)'
               /\ Answering(u, p)' => Answering(u, p)
    BY <1>1, <2>1 DEF Coming, Brings, Answering, Answers, EditOf
  <2> QED  BY <1>2, <2>1, <2>2, <2>3, TextKept
<1>7. ASSUME t \notin missed'
      PROVE  TextOf(t)'
  <2>1. CASE FetchList(t)
    <3>1. tab'[t].mode \notin Shown
      BY <2>1, FetchListTab DEF TabBecomes, Shown
    <3>2. Quiet(t)'
      BY <2>1, <1>4 DEF FetchList, ListenInv, ListenOf, Quiet
    <3> QED  BY <3>1, <3>2, TextQuiet DEF FocusKnown, Shows
  <2>2. CASE FetchActive(t)
    <3>1. /\ tab[t].mirror = files /\ Quiet(t)'
          /\ active \in OpenPaths \/ active = NoPath
      BY <1>7, <2>2 DEF FetchActive, ListenInv, ListenOf, Quiet, ActiveFileIsOpen
    <3>2. TabBecomes(t, "fetched", files, active, Rendered(files, active),
                     tab[t].timer)
      BY <2>2, <3>1, FetchActiveTab
    <3>3. active \in OpenPaths =>
            Rendered(files, active) = files[active].buffer
            /\ Rendered(files, active) # NoDoc
      BY FilesParts, RenderedFacts DEF TypeOK, StoreTypeOK
    <3>4. FocusKnown(t)'
      BY <1>2, <3>1, <3>2, <3>3 DEF FocusKnown, TabBecomes, OpenPaths
    <3>5. \A p \in OpenPaths' : Shows(t, p)'
      BY <1>2, <3>1, <3>2, <3>3 DEF Shows, TabBecomes
    <3> QED  BY <3>1, <3>4, <3>5, TextQuiet
  <2>3. CASE Subscribe(t)
    <3>1. /\ t \notin missed /\ tab[t].mode \in {"fetched", "lost"}
          /\ tab'[t].mirror = tab[t].mirror /\ tab'[t].focus = tab[t].focus
          /\ tab'[t].doc = tab[t].doc /\ tab'[t].timer = tab[t].timer
          /\ tab'[t].mode = "on"
      BY <1>7, <2>3, StreamTab DEF Subscribe, TabBecomes
    <3>2. TextOf(t) /\ Quiet(t) /\ SameEvents(t)
      BY <2>3, <3>1 DEF Texts, ListenInv, ListenOf, SameEvents, Subscribe
    <3>3. FocusKnown(t)'
      BY <3>1, <3>2 DEF TextOf, FocusKnown, Shown
    <3>4. ASSUME NEW p \in OpenPaths' PROVE Shows(t, p)'
      <4>1. Coming(t, p) => Coming(t, p)'
        BY <1>1, <3>1 DEF Coming, Brings, EditOf
      <4>2. Later(t, p, 0) => Later(t, p, 0)'
        BY <3>2, <4>1, QuietFacts DEF Later
      <4>3. Shows(t, p)
        BY <1>2, <3>2 DEF TextOf, PathOf
      <4> QED  BY <1>2, <3>1, <4>2, <4>3 DEF Shows, Shown
    <3>5. Quiet(t)'
      BY <3>2 DEF Quiet, SameEvents
    <3> QED  BY <3>3, <3>4, <3>5, TextQuiet
  <2>4. CASE Disconnect(t)
    <3>1. /\ AtRest /\ t \notin missed /\ tab[t].mode = "on"
          /\ tab'[t].mirror = tab[t].mirror /\ tab'[t].focus = tab[t].focus
          /\ tab'[t].doc = tab[t].doc /\ tab'[t].timer = tab[t].timer
      BY <1>7, <2>4, StreamTab DEF Disconnect, TabBecomes
    <3>2. /\ \A k \in Calls : call[k].pc = "idle" /\ call[k].todo = {}
          /\ Quiet(t) /\ TextOf(t) /\ Quiet(t)'
      BY <1>4, <3>1, RestFacts DEF Texts, SameEvents, Quiet
    <3>3. FocusKnown(t)'
      BY <3>1, <3>2 DEF TextOf, FocusKnown, Shown
    <3>4. ASSUME NEW p \in OpenPaths' PROVE Shows(t, p)'
      <4>1. ~Later(t, p, 0)
        BY <3>2, QuietFacts DEF Coming, Brings
      <4>2. Shows(t, p)
        BY <1>2, <3>2 DEF TextOf, PathOf
      <4> QED  BY <1>2, <3>1, <4>1, <4>2 DEF Shows, Shown
    <3> QED  BY <3>2, <3>3, <3>4, TextQuiet
  <2>5. CASE Reload(t)
    <3>1. tab'[t].mode \notin Shown
      BY <2>5, ReloadTab DEF TabBecomes, Shown
    <3>2. Quiet(t)'
      BY <2>5, <1>4 DEF Reload, ListenInv, ListenOf, Quiet
    <3> QED  BY <3>1, <3>2, TextQuiet DEF FocusKnown, Shows
  <2> QED  BY <2>1, <2>2, <2>3, <2>4, <2>5
<1> QED  BY <1>5, <1>6, <1>7 DEF Texts

LEMMA NoteEdits ==
    ASSUME NEW op, Act(op), overlap' # "any"
    PROVE  /\ overlap # "any"
           /\ \A k \in Calls : call[k].pc = "idle" \/ call[k].op = "edit"
           /\ op # "edit" => AtRest /\ overlap' = overlap
           /\ op \notin {"edit", "save"} => overlap' = "none"
BY DEF Act, Note, AtRest

LEMMA TextType ==
    ASSUME TypeInv, Texts, NEW t \in Tabs, NEW text \in Contents, Type(t, text),
           \A k \in Calls : call[k].pc = "idle" \/ call[k].op = "edit"
    PROVE  Texts'
<1> USE DEF TypeInv
<1>1. UNCHANGED <<storeVars, call, queue, wire, missed>>
  BY DEF Type
<1>2. TabBecomes(t, tab[t].mode, tab[t].mirror, tab[t].focus, text, TRUE)
  BY TypeTab
<1>3. files' = files /\ OpenPaths' = OpenPaths /\ \A u \in Tabs : SameEvents(u)
  BY <1>1, StoreSame DEF SameEvents
<1>4. EditsOnly'
  <2>1. \A k \in Calls : CallOf(k)'
    BY <1>1 DEF Texts, EditsOnly, CallOf
  <2> QED  BY <1>3, <2>1, LastKept DEF Texts, EditsOnly
<1>5. ASSUME NEW u \in Tabs \ missed' PROVE TextOf(u)'
  <2>1. TextOf(u) /\ tab'[u].mode = tab[u].mode
    BY <1>1, <1>2 DEF Texts, TabBecomes
  <2>2. \A p : /\ Coming(u, p) => Coming(u, p)'
               /\ Answering(u, p)' => Answering(u, p)
    BY <1>1, <2>1 DEF Coming, Brings, Answering, Answers, EditOf
  <2>3. CASE u # t
    BY <1>2, <1>3, <2>1, <2>2, <2>3, TextKept DEF TabBecomes
  <2>4. CASE u = t
    <3>1. FocusKnown(t)'
      BY <1>2, <2>1, <2>4, NullAssumption DEF TextOf, FocusKnown, TabBecomes
    <3>2. SwitchOpen(t)'
      BY <1>3, <2>1, <2>4 DEF TextOf, SwitchOpen, SameEvents
    <3>3. ASSUME NEW p \in OpenPaths' PROVE PathOf(t, p)'
      <4>1. PathOf(t, p)
        BY <1>3, <2>1, <2>4 DEF TextOf
      <4>2. /\ tab'[t].mirror = tab[t].mirror /\ tab'[t].focus = tab[t].focus
            /\ tab'[t].timer
        BY <1>2 DEF TabBecomes
      <4> QED  BY <1>3, <2>1, <2>2, <2>4, <4>1, <4>2, PathKept
    <3> QED  BY <2>4, <3>1, <3>2, <3>3 DEF TextOf
  <2> QED  BY <2>3, <2>4
<1> QED  BY <1>4, <1>5 DEF Texts

\* A request is sent; a push brings what its tab shows.
LEMMA TextAsk ==
    ASSUME TypeInv, Texts, NEW t \in Tabs, NEW slot \in Slots, NEW op \in Op,
           NEW p \in Paths, Asks(t, slot, op, p),
           \A j \in Calls : call[j].pc = "idle" \/ call[j].op = "edit",
           op # "edit" => AtRest /\ overlap' = overlap,
           op \notin {"edit", "save"} => overlap' = "none",
           UNCHANGED <<storeVars, queue, wire, missed>>,
           \/ tab' = tab
           \/ /\ op = "edit" /\ p = tab[t].focus
              /\ TabBecomes(t, tab[t].mode, tab[t].mirror, tab[t].focus,
                            tab[t].doc, FALSE)
    PROVE  Texts'
<1> USE DEF TypeInv
<1> DEFINE k == <<t, slot>>
<1>1. /\ k \in Calls /\ call[k].pc = "idle" /\ call[k].todo = {}
      /\ \E text \in Contents : CallBecomes(k, "sent", op, p, text, NoFile, {})
  BY DEF Asks, FormInv, CallForm
<1> HIDE DEF k
<1>2. /\ call'[k].pc = "sent" /\ call'[k].op = op /\ call'[k].path = p
      /\ call'[k].file = NoFile /\ call'[k].todo = {}
      /\ \A j \in Calls \ {k} : call'[j] = call[j]
  BY <1>1 DEF CallBecomes
<1>3. files' = files /\ OpenPaths' = OpenPaths /\ \A u \in Tabs : SameEvents(u)
  BY StoreSame DEF SameEvents
<1>4. CallOf(k)'
  <2>1. CASE op = "edit"
    BY <1>2, <2>1 DEF CallOf
  <2>2. CASE op # "edit"
    <3>1. /\ \A j \in Calls : call[j].pc = "idle"
          /\ \A u \in Tabs : Quiet(u) /\ ~tab[u].timer
          /\ tab' = tab
      BY <2>2, RestFacts
    <3>2. \A u \in Tabs : Quiet(u)' /\ DOMAIN queue'[u] = {} /\ DOMAIN wire'[u] = {}
      BY <3>1 DEF Quiet
    <3>3. Sole(k)'
      BY <1>2, <3>1, <3>2 DEF Sole
    <3> QED  BY <1>2, <2>2, <3>3 DEF CallOf, CopyIsTrue, Op
  <2> QED  BY <2>1, <2>2
<1>5. EditsOnly'
  BY <1>1, <1>2, <1>3, <1>4, EditsCall DEF Texts
<1>6. ASSUME NEW u \in Tabs \ missed' PROVE TextOf(u)'
  <2>1. TextOf(u) /\ tab'[u].mode = tab[u].mode
    BY <1>6 DEF Texts, TabBecomes
  <2>2. \A q : /\ Coming(u, q) => Coming(u, q)'
               /\ Answering(u, q)' => Answering(u, q)
    <3>1. \A q : ~Brings(k, u, q) /\ ~Answers(k, u, q)'
      BY <1>1, <1>2 DEF Brings, Answers
    <3> QED  BY <1>1, <1>2, <2>1, <3>1, ComingKept, AnsweringKept
  <2>3. CASE tab'[u] = tab[u]
    BY <1>3, <2>1, <2>2, <2>3, TextKept
  <2>4. CASE u = t /\ op = "edit" /\ p = tab[t].focus
             /\ TabBecomes(t, tab[t].mode, tab[t].mirror, tab[t].focus,
                           tab[t].doc, FALSE)
    <3>1. /\ tab'[t].mirror = tab[t].mirror /\ tab'[t].focus = tab[t].focus
          /\ tab'[t].doc = tab[t].doc /\ tab'[t].mode = tab[t].mode
      BY <2>4 DEF TabBecomes
    <3>2. FocusKnown(t)' /\ SwitchOpen(t)'
      BY <1>3, <2>1, <2>4, <3>1 DEF TextOf, FocusKnown, SwitchOpen, SameEvents
    <3>3. Coming(t, p)'
      BY <1>1, <1>2, <2>4 DEF Coming, Brings, EditOf
    <3>4. ASSUME NEW q \in OpenPaths' PROVE PathOf(t, q)'
      <4>1. PathOf(t, q)
        BY <1>3, <2>1, <2>4 DEF TextOf
      <4>2. q = p \/ tab[t].focus # q
        BY <2>4
      <4> QED  BY <1>3, <2>2, <2>4, <3>1, <3>3, <4>1, <4>2, PathKept
    <3> QED  BY <2>4, <3>2, <3>4 DEF TextOf
  <2> QED  BY <2>3, <2>4 DEF TabBecomes
<1> QED  BY <1>5, <1>6 DEF Texts

LEMMA TextAsks ==
    ASSUME TypeInv, Texts, overlap' # "any", NEW t \in Tabs,
           \/ Push(t)
           \/ \E op \in Op \ {"edit"}, p \in Paths : Click(t, op, p)
    PROVE  Texts'
<1> USE DEF TypeInv
<1>1. CASE Push(t)
  <2>1. /\ UNCHANGED <<storeVars, queue, wire, missed, overlap>> /\ tab[t].timer
        /\ TabBecomes(t, tab[t].mode, tab[t].mirror, tab[t].focus,
                      tab[t].doc, FALSE)
        /\ \/ tab[t].focus = NoPath /\ call' = call
           \/ tab[t].focus \in Paths /\ Asks(t, "push", "edit", tab[t].focus)
    BY <1>1, AskFacts
  <2>2. CASE tab[t].focus \in Paths /\ Asks(t, "push", "edit", tab[t].focus)
    <3>1. \A k \in Calls : call[k].pc = "idle" \/ call[k].op = "edit"
      BY <2>1 DEF Texts, EditsOnly, CallOf, Sole
    <3> QED  BY <2>1, <2>2, <3>1, TextAsk DEF Slots, Op
  <2>3. CASE tab[t].focus = NoPath /\ call' = call
    <3>1. files' = files /\ OpenPaths' = OpenPaths /\ \A u \in Tabs : SameEvents(u)
      BY <2>1, StoreSame DEF SameEvents
    <3>2. \A u \in Tabs : /\ tab'[u].mode = tab[u].mode
                          /\ tab'[u].mirror = tab[u].mirror
                          /\ tab'[u].focus = tab[u].focus
                          /\ tab'[u].doc = tab[u].doc
                          /\ tab'[u].timer => tab[u].timer
                          /\ u # t => tab'[u] = tab[u]
      BY <2>1 DEF TabBecomes
    <3>3. EditsOnly'
      BY <2>1, <2>3, <3>1, <3>2, EditsStay DEF Texts
    <3>4. ASSUME NEW u \in Tabs \ missed' PROVE TextOf(u)'
      <4>1. TextOf(u)
        BY <2>1 DEF Texts
      <4>2. \A p : /\ Coming(u, p) => Coming(u, p)'
                   /\ Answering(u, p)' => Answering(u, p)
        BY <2>3, <3>2 DEF Coming, Brings, Answering, Answers, EditOf
      <4>3. CASE u # t
        BY <3>1, <3>2, <4>1, <4>2, <4>3, TextKept
      <4>4. CASE u = t
        <5>1. FocusKnown(t)' /\ SwitchOpen(t)'
          BY <3>1, <3>2, <4>1, <4>4 DEF TextOf, FocusKnown, SwitchOpen, SameEvents
        <5>2. ASSUME NEW p \in OpenPaths' PROVE PathOf(t, p)'
          <6>1. PathOf(t, p) /\ tab[t].focus # p
            BY <2>3, <3>1, <4>1, <4>4, FilesParts, PathAssumption DEF TextOf, TypeOK
          <6> QED  BY <3>1, <3>2, <4>2, <4>4, <6>1, PathKept
        <5> QED  BY <4>4, <5>1, <5>2 DEF TextOf
      <4> QED  BY <4>3, <4>4
    <3> QED  BY <3>3, <3>4 DEF Texts
  <2> QED  BY <2>1, <2>2, <2>3
<1>2. ASSUME NEW op \in Op \ {"edit"}, NEW p \in Paths, Click(t, op, p)
      PROVE  Texts'
  <2>1. /\ UNCHANGED <<storeVars, tab, queue, wire, missed>>
        /\ Asks(t, "click", op, p) /\ Act(op)
    BY <1>2, AskFacts
  <2>2. /\ \A k \in Calls : call[k].pc = "idle" \/ call[k].op = "edit"
        /\ AtRest /\ overlap' = overlap
        /\ op \notin {"edit", "save"} => overlap' = "none"
    BY <2>1, NoteEdits
  <2> QED  BY <2>1, <2>2, TextAsk DEF Slots
<1> QED  BY <1>1, <1>2

-----------------------------------------------------------------------------
(* As long as only edits overlap: the steps of the handlers. *)

\* Beside a request that is not an edit nothing is to come.
LEMMA SoleFacts ==
    ASSUME TypeInv, EditsOnly, NEW k \in Calls, call[k].pc # "idle",
           call[k].op # "edit"
    PROVE  /\ Sole(k) /\ CopyIsTrue(k) /\ (call[k].op # "save" => overlap = "none")
           /\ \A j \in Calls \ {k} :
                call[j].pc = "idle" /\ call[j].todo = {} /\ call[j].file # Live
           /\ \A t, p : ~Coming(t, p) /\ ~Answering(t, p)
<1>1. Sole(k) /\ CopyIsTrue(k) /\ (call[k].op # "save" => overlap = "none")
  BY DEF EditsOnly, CallOf
<1>2. \A j \in Calls \ {k} :
        call[j].pc = "idle" /\ call[j].todo = {} /\ call[j].file # Live
  BY <1>1 DEF Sole, TypeInv, FormInv, CallForm
<1>3. ASSUME NEW t, NEW p, NEW j \in Calls
      PROVE  ~Brings(j, t, p) /\ ~Answers(j, t, p)
  BY <1>2 DEF Brings, Answers, EditOf
<1> QED  BY <1>1, <1>2, <1>3 DEF Coming, Answering

LEMMA TextServe ==
    ASSUME TypeInv, ListenInv, AloneInv, Texts, NEW k \in Calls, Serve(k)
    PROVE  Texts'
<1> USE DEF TypeInv
<1> DEFINE p0 == call[k].path
           op == call[k].op
<1>1. /\ call[k].pc = "sent" /\ p0 \in Paths /\ op \in Op
      /\ call'[k].op = op /\ call'[k].path = p0
      /\ call'[k].todo = {} /\ call[k].todo = {}
      /\ call'[k].pc = IF op = "save" THEN "saved" ELSE "changed"
      /\ op = "edit" => call'[k].file = Live
      /\ op = "save" => call'[k].file = NoFile
      /\ op # "close" => queue' = queue /\ \A j \in Calls \ {k} : call'[j] = call[j]
      /\ \A t \in Tabs : queue[t] = << >> => queue'[t] = << >>
      /\ \A j \in Calls \ {k} : call[j].file # Live => call'[j] = call[j]
      /\ missed' = missed \cup
              {t \in Tabs : tab[t].mode \in {"listed", "fetched", "lost"}}
  BY ServeFacts, CallParts
<1>2. /\ OthersKept(p0) /\ UNCHANGED <<tab, wire, overlap>>
      /\ op = "close" => p0 \in OpenPaths /\ OpenPaths' = OpenPaths \ {p0}
      /\ op = "open" => p0 \notin OpenPaths /\ OpenPaths' = OpenPaths \cup {p0}
      /\ op \notin {"close", "open"} => p0 \in OpenPaths /\ OpenPaths' = OpenPaths
      /\ op = "switch" => files' = files
      /\ op = "save" => files'[p0].buffer = files[p0].buffer
  BY ServeStore
<1> HIDE DEF p0, op
<1>3. ASSUME NEW u \in Tabs \ missed', tab[u].mode # "on"
      PROVE  TextOf(u)'
  <2>1. tab'[u].mode \notin Shown
    BY <1>1, <1>2, <1>3, TabParts DEF Mode, Shown
  <2>2. Quiet(u)'
    BY <1>1, <1>2, <1>3 DEF ListenInv, ListenOf, Quiet
  <2> QED  BY <2>1, <2>2, TextQuiet DEF FocusKnown, Shows
<1>4. CASE op = "edit"
  <2>1. CallOf(k)' /\ \A u \in Tabs : SameEvents(u)
    BY <1>1, <1>2, <1>4 DEF CallOf, SameEvents
  <2>2. EditsOnly'
    BY <1>1, <1>4, <2>1, OthersEdit, EditsCall DEF Texts
  <2>3. ASSUME NEW u \in Tabs \ missed', tab[u].mode = "on"
        PROVE  TextOf(u)'
    <3>1. TextOf(u)
      BY <1>1, <2>3 DEF Texts
    <3>2. ASSUME NEW p, p = p0 PROVE Coming(u, p)'
      BY <1>1, <1>2, <1>4, <2>3, <3>2 DEF Coming, Brings, EditOf
    <3>3. ASSUME NEW p \in OpenPaths, p # p0
          PROVE  /\ Coming(u, p) => Coming(u, p)'
                 /\ files'[p].buffer = files[p].buffer
      <4>1. ~Brings(k, u, p)
        BY <3>3 DEF Brings, EditOf, p0
      <4> QED  BY <1>1, <1>2, <1>4, <3>3, <4>1, ComingKept DEF OthersKept
    <3>4. ASSUME NEW p PROVE Answering(u, p)' => Answering(u, p)
      <4>1. ~Answers(k, u, p)'
        BY <1>1 DEF Answers
      <4> QED  BY <1>1, <1>4, <4>1, AnsweringKept
    <3> QED  BY <1>2, <1>4, <2>1, <3>1, <3>2, <3>3, <3>4, TextKept
  <2> QED  BY <1>3, <2>2, <2>3 DEF Texts
<1>5. CASE op # "edit"
  <2>1. /\ Sole(k) /\ (op # "save" => overlap = "none")
        /\ \A j \in Calls \ {k} :
             call[j].pc = "idle" /\ call[j].todo = {} /\ call[j].file # Live
        /\ \A t, p : ~Coming(t, p)
    BY <1>1, <1>5, SoleFacts DEF Texts, op
  <2>2. /\ \A u \in Tabs : Quiet(u) /\ Quiet(u)' /\ ~tab[u].timer
        /\ \A j \in Calls \ {k} : call'[j] = call[j]
    BY <1>1, <1>2, <2>1 DEF Sole, Quiet
  <2>3. Sole(k)'
    BY <1>1, <1>2, <2>1, <2>2, SoleKept DEF op, p0
  <2>4. CallOf(k)'
    BY <1>1, <1>2, <1>5, <2>1, <2>3 DEF CallOf, CopyIsTrue
  <2>5. EditsOnly'
    BY <2>1, <2>2, <2>4, EditsCall DEF Texts
  <2>6. ASSUME NEW u \in Tabs \ missed', tab[u].mode = "on"
        PROVE  TextOf(u)'
    <3>1. TextOf(u) /\ u \notin missed
      BY <1>1, <2>6 DEF Texts
    <3>2. FocusKnown(u)'
      BY <1>2, <3>1 DEF TextOf, FocusKnown
    <3>3. ASSUME NEW p \in OpenPaths', p \in OpenPaths
          PROVE  Shows(u, p)'
      <4>1. files'[p].buffer = files[p].buffer
        BY <1>1, <1>2, <1>5, <3>3 DEF OthersKept, Op
      <4>2. Shows(u, p) /\ ~Later(u, p, 0)
        BY <2>1, <2>2, <3>1, <3>3, QuietFacts DEF TextOf, PathOf
      <4> QED  BY <1>2, <2>2, <4>1, <4>2 DEF Shows
    <3>4. ASSUME NEW p \in OpenPaths', p \notin OpenPaths
          PROVE  Shows(u, p)'
      <4>1. op = "open" /\ p = p0 /\ overlap = "none"
        BY <1>1, <1>2, <2>1, <3>4 DEF Op
      <4>2. tab[u].mirror = files
        <5>1. \A j \in Calls : ~ToSend(j, u)
          BY <1>1, <2>1 DEF ToSend
        <5> QED  BY <2>2, <2>6, <3>1, <4>1, <5>1 DEF AloneInv, Alone, MirrorOf
      <4>3. tab[u].focus \in OpenPaths \cup {NoPath}
        BY <2>6, <3>1, <4>2 DEF TextOf, FocusKnown, Shown, OpenPaths
      <4> QED  BY <1>1, <1>2, <3>4, <4>1, <4>3, PathAssumption DEF Shows
    <3> QED  BY <2>2, <3>2, <3>3, <3>4, TextQuiet
  <2> QED  BY <1>3, <2>5, <2>6 DEF Texts
<1> QED  BY <1>4, <1>5

LEMMA TextGoesOn ==
    ASSUME TypeInv, Texts, NEW k \in Calls, call[k].pc # "idle",
           UNCHANGED <<storeVars, tab, queue, wire, missed, overlap>>,
           \A j \in Calls \ {k} : call'[j] = call[j],
           call'[k].op = call[k].op, call'[k].path = call[k].path,
           call'[k].todo \subseteq Tabs,
           call[k].op # "edit" =>
             /\ CopyIsTrue(k)'
             /\ call'[k].pc \in {"sent", "saved", "changed", "refused"}
                  \/ call'[k].todo # {} => \A u \in Tabs : Quiet(u),
           call'[k].pc \in {"changed", "sending"} /\ call[k].op = "edit" =>
             call'[k].file = Live,
           \A u \in Tabs, p \in OpenPaths :
             /\ Brings(k, u, p) => Brings(k, u, p)'
             /\ ~Moved(u) \/ (Answers(k, u, p)' => Answers(k, u, p))
    PROVE  Texts'
<1> USE DEF TypeInv
<1>1. files' = files /\ OpenPaths' = OpenPaths /\ \A u \in Tabs : SameEvents(u)
  BY StoreSame DEF SameEvents
<1>2. CallOf(k)'
  <2>1. CASE call[k].op = "edit"
    BY <2>1 DEF CallOf
  <2>2. CASE call[k].op # "edit"
    <3>1. Sole(k) /\ (call[k].op # "save" => overlap = "none")
      BY <2>2, SoleFacts DEF Texts
    <3>2. \A t \in call'[k].todo : t \in Tabs /\ Quiet(t)
      BY <2>2
    <3>3. Sole(k)'
      BY <1>1, <2>2, <3>1, <3>2, SoleKept
    <3> QED  BY <2>2, <3>1, <3>3 DEF CallOf
  <2> QED  BY <2>1, <2>2
<1>3. EditsOnly'
  BY <1>1, <1>2, OthersEdit, EditsCall DEF Texts
<1>4. ASSUME NEW u \in Tabs \ missed' PROVE TextOf(u)'
  <2>1. TextOf(u)
    BY DEF Texts
  <2>2. ASSUME NEW p \in OpenPaths
        PROVE  /\ Coming(u, p) => Coming(u, p)'
               /\ ~Moved(u) \/ (Answering(u, p)' => Answering(u, p))
    <3>1. Coming(u, p) => Coming(u, p)'
      BY ComingKept
    <3>2. CASE Answers(k, u, p)' => Answers(k, u, p)
      BY <3>1, <3>2, AnsweringKept
    <3> QED  BY <3>1, <3>2
  <2> QED  BY <1>1, <2>1, <2>2, TextKept
<1> QED  BY <1>3, <1>4 DEF Texts

LEMMA TextCallStep ==
    ASSUME TypeInv, ListenInv, Texts, NEW k \in Calls,
           Refuse(k) \/ Copy(k) \/ Publish(k) \/ Answer(k)
    PROVE  Texts'
<1> USE DEF TypeInv
<1>1. UNCHANGED <<storeVars, tab, queue, wire, missed, overlap>>
  BY DEF Refuse, Copy, Publish, Answer
<1>2. files' = files /\ OpenPaths' = OpenPaths
  BY <1>1, StoreSame
<1>3. CallForm(call[k]) /\ call[k].todo \subseteq Tabs /\ call[k].file \in File \cup {Live}
  BY CallParts DEF FormInv
<1>4. ASSUME call[k].pc # "idle", call[k].op # "edit"
      PROVE  /\ CopyIsTrue(k)
             /\ call[k].pc \in {"sent", "saved", "changed"} => \A u \in Tabs : Quiet(u)
             /\ \A j \in Calls \ {k} : call[j].pc = "idle"
  BY <1>4, SoleFacts DEF Texts, Sole
<1>5. ASSUME call[k].pc \in {"changed", "sending"}, call[k].op = "edit"
      PROVE  call[k].file = Live
  BY <1>5 DEF Texts, EditsOnly, CallOf
<1>6. CASE Refuse(k)
  <2>1. /\ call[k].pc = "sent" /\ call'[k].pc = "refused"
        /\ call'[k].op = call[k].op /\ call'[k].path = call[k].path
        /\ call'[k].todo = call[k].todo /\ call'[k].file = NoFile
        /\ \A j \in Calls \ {k} : call'[j] = call[j]
    BY <1>6, RefuseFacts DEF CallBecomes
  <2>2. call[k].todo = {}
    BY <1>3, <2>1 DEF CallForm
  <2>3. call[k].op = "edit" => call[k].path \notin OpenPaths
    BY <1>6 DEF Refuse
  <2>4. \A u \in Tabs, p \in OpenPaths : ~Brings(k, u, p) /\ ~Answers(k, u, p)'
    BY <2>1, <2>3 DEF Brings, Answers, EditOf
  <2>5. CopyIsTrue(k)'
    BY <2>1 DEF CopyIsTrue
  <2> QED  BY <1>1, <1>4, <2>1, <2>2, <2>4, <2>5, TextGoesOn
<1>7. CASE Copy(k)
  <2>1. PICK file \in File :
          /\ file = IF call[k].path \in OpenPaths THEN files[call[k].path]
                    ELSE NoFile
          /\ CallBecomes(k, "changed", "save", call[k].path, call[k].text,
                         file, call[k].todo)
    BY <1>7, CopyFacts
  <2>2. call[k].pc = "saved" /\ call[k].op = "save" /\ call[k].todo = {}
    BY <1>3, <1>7, CopyFacts DEF CallForm
  <2>3. /\ call'[k].pc = "changed" /\ call'[k].op = "save"
        /\ call'[k].path = call[k].path /\ call'[k].file = file
        /\ call'[k].todo = {}
        /\ \A j \in Calls \ {k} : call'[j] = call[j]
    BY <2>1, <2>2 DEF CallBecomes
  <2>4. CopyIsTrue(k)'
    BY <1>2, <2>1, <2>3 DEF CopyIsTrue
  <2>5. \A u \in Tabs, p \in OpenPaths : ~Brings(k, u, p) /\ ~Answers(k, u, p)'
    BY <2>2, <2>3 DEF Brings, Answers, EditOf
  <2> QED  BY <1>1, <1>4, <2>2, <2>3, <2>4, <2>5, TextGoesOn
<1>8. CASE Publish(k)
  <2>1. /\ call[k].pc = "changed" /\ call'[k].pc = "sending"
        /\ call'[k].op = call[k].op /\ call'[k].path = call[k].path
        /\ call'[k].file = call[k].file /\ call'[k].todo = Subscribers
        /\ \A j \in Calls \ {k} : call'[j] = call[j]
    BY <1>8, PublishCall DEF CallBecomes, Publish
  <2>2. call[k].todo = {} /\ Subscribers \subseteq Tabs
    BY <1>3, <2>1 DEF CallForm, Subscribers
  <2>3. call[k].op # "edit" => CopyIsTrue(k)'
    BY <1>2, <1>4, <2>1 DEF CopyIsTrue
  <2>4. ASSUME NEW u \in Tabs, NEW p \in OpenPaths
        PROVE  /\ Brings(k, u, p) => Brings(k, u, p)'
               /\ ~Moved(u) \/ (Answers(k, u, p)' => Answers(k, u, p))
    <3>1. Brings(k, u, p) => Brings(k, u, p)'
      BY <2>1, <2>2 DEF Brings, EditOf, Subscribers
    <3>2. CASE Answers(k, u, p)'
      <4>1. tab[u].mode # "on"
        BY <2>1, <3>2 DEF Answers, Subscribers
      <4>2. Quiet(u)
        BY <4>1 DEF ListenInv, ListenOf
      <4> QED  BY <3>1, <4>2, QuietFacts
    <3> QED  BY <3>1, <3>2
  <2> QED  BY <1>1, <1>4, <1>5, <2>1, <2>2, <2>3, <2>4, TextGoesOn
<1>9. CASE Answer(k)
  <2>1. PICK file \in Marshalled(call[k].file, call[k].path) :
             /\ file \in File /\ file # Live
             /\ call[k].file # NoFile => file # NoFile
             /\ CallBecomes(k, "answered", call[k].op, call[k].path, call[k].text,
                            file, {})
    BY <1>9, AnswerFacts
  <2>2. call[k].pc = "sending" /\ call[k].todo = {}
    BY <1>9 DEF Answer
  <2>3. /\ call'[k].pc = "answered" /\ call'[k].op = call[k].op
        /\ call'[k].path = call[k].path /\ call'[k].todo = {}
        /\ call'[k].file = file
        /\ \A j \in Calls \ {k} : call'[j] = call[j]
    BY <2>1 DEF CallBecomes
  <2>4. ASSUME call[k].op # "edit" PROVE CopyIsTrue(k)'
    <3>1. \A j \in Calls : call[j].pc # "sent"
      BY <1>4, <2>2, <2>4
    <3>2. call[k].file = Live => call[k].path \in OpenPaths
      BY <1>3, <2>2 DEF CallForm, Carries
    <3>3. /\ call[k].file # Live => file = call[k].file
          /\ call[k].file = Live => file = files[call[k].path]
      BY <1>3, <2>1, <3>1, <3>2, MarshalFacts
    <3> QED  BY <1>2, <1>4, <2>2, <2>3, <2>4, <3>2, <3>3 DEF CopyIsTrue
  <2>5. \A u \in Tabs, p \in OpenPaths :
          /\ ~Brings(k, u, p)
          /\ Answers(k, u, p)' => Answers(k, u, p)
    BY <2>2, <2>3 DEF Brings, Answers, EditOf
  <2> QED  BY <1>1, <2>2, <2>3, <2>4, <2>5, TextGoesOn
<1> QED  BY <1>6, <1>7, <1>8, <1>9

\* While a close or a switch is about to be sent, the mirror is current.
LEMMA AgreesFacts ==
    ASSUME TypeOK, NEW t \in Tabs, NEW x, True(x), AgreesBut(t, x),
           x.op \in Moving, NEW p \in OpenPaths
    PROVE  /\ p \in DOMAIN tab[t].mirror /\ tab[t].mirror[p] = files[p]
           /\ x.op = "switch" => x.path \in OpenPaths
<1>1. CASE x.op = "switch"
  BY <1>1 DEF True, AgreesBut, OpenPaths
<1>2. CASE x.op = "close"
  <2>1. x.path \notin OpenPaths
    BY <1>2 DEF True
  <2> QED  BY <1>2, <2>1 DEF AgreesBut
<1> QED  BY <1>1, <1>2 DEF Moving

LEMMA TextSend ==
    ASSUME TypeInv, ListenInv, AloneInv, Texts, NEW k \in Calls, NEW t \in Tabs,
           Send(k, t)
    PROVE  Texts'
<1> USE DEF TypeInv
<1> DEFINE e == EventOf(k)
<1>1. SendsTo(k, t) /\ UNCHANGED <<storeVars, tab, overlap>>
  BY SendFacts
<1>2. files' = files /\ OpenPaths' = OpenPaths
  BY <1>1, StoreSame
<1>3. /\ call'[k].pc = "sending" /\ call'[k].op = call[k].op
      /\ call'[k].path = call[k].path /\ call'[k].file = call[k].file
      /\ call'[k].todo = call[k].todo \ {t}
      /\ \A j \in Calls \ {k} : call'[j] = call[j]
      /\ call[k].pc = "sending" /\ t \in call[k].todo
  BY <1>1, SendCall DEF CallBecomes, SendsTo
<1>4. /\ e \in Event /\ e.op = call[k].op /\ e.path = call[k].path
      /\ e.file = call[k].file
  BY <1>1 DEF SendsTo, EventOf
<1> HIDE DEF e
<1>5. \A u \in Tabs \ {t} : SameEvents(u)
  BY <1>1 DEF SendsTo, SameEvents, TypeOK
<1>6. \/ SameEvents(t) /\ t \in missed'
      \/ /\ queue'[t] = Append(queue[t], e) /\ wire'[t] = wire[t]
         /\ missed' = missed
  <2>1. CASE queue' = queue /\ missed' = missed \cup {t}
    BY <1>1, <2>1 DEF SendsTo, SameEvents
  <2>2. CASE queue' = [queue EXCEPT ![t] = Append(@, EventOf(k))] /\ missed' = missed
    BY <1>1, <2>2 DEF SendsTo, TypeOK, e
  <2> QED  BY <1>1, <2>1, <2>2 DEF SendsTo
<1>7. /\ queue[t] \in Seq(Event)
      /\ DOMAIN Append(queue[t], e) = DOMAIN queue[t] \cup {Len(queue[t]) + 1}
      /\ \A i \in DOMAIN queue[t] : Append(queue[t], e)[i] = queue[t][i]
      /\ Append(queue[t], e)[Len(queue[t]) + 1] = e
  BY <1>4, EventParts, AppendFacts
<1>8. \A u \in Tabs \ missed' : u \notin missed
  BY <1>1 DEF SendsTo
<1>9. ASSUME NEW u \in Tabs \ missed', u # t PROVE TextOf(u)'
  <2>1. ASSUME NEW p \in OpenPaths
        PROVE  /\ Coming(u, p) => Coming(u, p)'
               /\ Answering(u, p)' => Answering(u, p)
    <3>1. /\ Brings(k, u, p) => Brings(k, u, p)'
          /\ Answers(k, u, p)' => Answers(k, u, p)
      BY <1>1, <1>3, <1>9 DEF Brings, Answers, EditOf
    <3> QED  BY <1>1, <1>3, <3>1, ComingKept, AnsweringKept
  <2> QED  BY <1>1, <1>2, <1>5, <1>8, <1>9, <2>1, TextKept DEF Texts
<1>10. \A j \in Calls \ {k} : CallOf(j)'
  BY <1>3, OthersEdit DEF Texts, EditsOnly, CallOf
<1>11. CASE call[k].op = "edit"
  <2>1. call[k].file = Live
    BY <1>3, <1>11 DEF Texts, EditsOnly, CallOf
  <2>2. CallOf(k)'
    BY <1>3, <1>11, <2>1 DEF CallOf
  <2>3. EditsLast(t)'
    <3>1. EditsLast(t)
      BY DEF Texts, EditsOnly
    <3>2. CASE SameEvents(t)
      BY <3>1, <3>2, LastKept
    <3>3. CASE queue'[t] = Append(queue[t], e) /\ wire'[t] = wire[t]
      <4>1. \A i \in DOMAIN queue'[t] :
              \/ i \in DOMAIN queue[t] /\ queue'[t][i] = queue[t][i]
              \/ queue'[t][i] = e
        BY <1>7, <3>3
      <4>2. e.op = "edit" /\ e.file = Live
        BY <1>4, <1>11, <2>1
      <4> QED  BY <3>1, <3>3, <4>1, <4>2 DEF EditsLast
    <3> QED  BY <1>6, <3>2, <3>3
  <2>4. EditsOnly'
    <3>1. \A u \in Tabs \ {t} : EditsLast(u)'
      BY <1>5, LastKept DEF Texts, EditsOnly
    <3> QED  BY <1>10, <2>2, <2>3, <3>1 DEF EditsOnly
  <2>5. ASSUME t \notin missed' PROVE TextOf(t)'
    <3>1. /\ TextOf(t) /\ queue'[t] = Append(queue[t], e) /\ wire'[t] = wire[t]
      BY <1>6, <1>8, <2>5 DEF Texts
    <3>2. /\ \A i \in DOMAIN queue'[t] :
               \/ i \in DOMAIN queue[t] /\ queue'[t][i] = queue[t][i]
               \/ queue'[t][i] = e
          /\ \A i \in DOMAIN queue[t] :
               i \in DOMAIN queue'[t] /\ queue'[t][i] = queue[t][i]
          /\ \E i \in DOMAIN queue'[t] : queue'[t][i] = e
          /\ e.op = "edit"
      BY <1>4, <1>7, <1>11, <3>1
    <3>3. FocusKnown(t)' /\ SwitchOpen(t)'
      BY <1>1, <1>2, <3>1, <3>2 DEF TextOf, FocusKnown, SwitchOpen
    <3>4. ASSUME NEW p \in OpenPaths' PROVE PathOf(t, p)'
      <4>1. PathOf(t, p)
        BY <1>2, <3>1 DEF TextOf
      <4>2. /\ Queued(t, p) => Queued(t, p)'
            /\ EditOf(e, p) => Queued(t, p)'
            /\ Moved(t)' => Moved(t)
            /\ Wired(t, p, 0)' <=> Wired(t, p, 0)
        BY <3>1, <3>2 DEF Queued, EditOf, Moved, Moving, Wired
      <4>3. Coming(t, p) => Coming(t, p)' \/ Queued(t, p)'
        <5>1. CASE EditOf(e, p)
          BY <4>2, <5>1
        <5>2. CASE ~EditOf(e, p)
          <6>1. ~Brings(k, t, p)
            BY <1>4, <5>2 DEF Brings, EditOf
          <6> QED  BY <1>1, <1>3, <6>1, ComingKept
        <5> QED  BY <5>1, <5>2
      <4>4. ASSUME NEW i PROVE Later(t, p, i) => Later(t, p, i)'
        <5>1. Wired(t, p, i)' <=> Wired(t, p, i)
          BY <3>1 DEF Wired
        <5> QED  BY <4>2, <4>3, <5>1 DEF Later
      <4>5. Later(t, p, 0) => Later(t, p, 0)'
        BY <4>4
      <4>6. LastIsTrue(t, p)'
        <5>1. ASSUME NEW i \in DOMAIN wire'[t], Brought(wire[t][i], p)',
                     ~Later(t, p, i)'
              PROVE  wire'[t][i].file.buffer = files'[p].buffer
          BY <1>2, <3>1, <4>1, <4>4, <5>1 DEF PathOf, LastIsTrue, Brought
        <5>2. ASSUME NEW i \in DOMAIN queue'[t], Brought(queue[t][i], p)',
                     queue'[t][i].op = "save", ~Later(t, p, 0)'
              PROVE  queue'[t][i].file.buffer = files'[p].buffer
          BY <1>2, <3>2, <4>1, <4>5, <5>2 DEF PathOf, LastIsTrue, Brought
        <5> QED  BY <5>1, <5>2 DEF LastIsTrue
      <4>7. Shows(t, p)'
        BY <1>1, <1>2, <4>1, <4>5 DEF PathOf, Shows
      <4>8. Answering(t, p)' => Answering(t, p) \/ Queued(t, p)'
        <5>1. CASE EditOf(e, p)
          BY <4>2, <5>1
        <5>2. CASE ~EditOf(e, p)
          <6>1. ~Answers(k, t, p)'
            BY <1>3, <1>4, <5>2 DEF Answers, EditOf
          <6> QED  BY <1>3, <6>1, AnsweringKept
        <5> QED  BY <5>1, <5>2
      <4>9. Knows(t, p)'
        BY <1>1, <1>2, <4>1, <4>2, <4>5, <4>8 DEF PathOf, Knows
      <4> QED  BY <4>6, <4>7, <4>9 DEF PathOf
    <3> QED  BY <3>3, <3>4 DEF TextOf
  <2> QED  BY <1>9, <2>4, <2>5 DEF Texts
<1>12. CASE call[k].op # "edit"
  <2>1. /\ Sole(k) /\ CopyIsTrue(k) /\ (call[k].op # "save" => overlap = "none")
        /\ \A j \in Calls \ {k} : call[j].pc = "idle"
        /\ \A u, p : ~Coming(u, p)
    BY <1>3, <1>12, SoleFacts DEF Texts
  <2>2. queue[t] = << >> /\ wire'[t] = << >> /\ wire[t] = << >> /\ Quiet(t)
    BY <1>1, <1>3, <2>1 DEF Sole, Quiet, SendsTo
  <2>3. \A i \in DOMAIN queue'[t] : queue'[t][i] = e /\ i = 1
    <3>1. DOMAIN << >> = {} /\ Len(<< >>) = 0
      OBVIOUS
    <3> QED  BY <1>6, <1>7, <2>2, <3>1 DEF SameEvents
  <2>4. DOMAIN wire'[t] = {}
    BY <2>2
  <2>5. CallOf(k)'
    <3>1. ASSUME NEW u \in call'[k].todo PROVE Quiet(u)'
      BY <1>3, <1>5, <2>1, CallParts DEF Sole, Quiet, SameEvents
    <3>2. ASSUME NEW u \in Tabs
          PROVE  /\ \A i \in DOMAIN queue'[u] : /\ queue'[u][i].op = call'[k].op
                                               /\ queue'[u][i].path = call'[k].path
                 /\ \A i \in DOMAIN wire'[u] : /\ wire'[u][i].op = call'[k].op
                                              /\ wire'[u][i].path = call'[k].path
      <4>1. CASE u = t
        BY <1>3, <1>4, <2>3, <2>4, <4>1
      <4>2. CASE u # t
        BY <1>3, <1>5, <2>1, <4>2 DEF Sole, SameEvents
      <4> QED  BY <4>1, <4>2
    <3>3. Sole(k)'
      BY <1>1, <1>3, <2>1, <3>1, <3>2 DEF Sole
    <3>4. CopyIsTrue(k)'
      BY <1>2, <1>3, <2>1 DEF CopyIsTrue
    <3> QED  BY <1>1, <1>3, <1>12, <2>1, <3>3, <3>4 DEF CallOf
  <2>6. EditsOnly'
    <3>1. \A u \in Tabs \ {t} : EditsLast(u)'
      BY <1>5, LastKept DEF Texts, EditsOnly
    <3>2. EditsLast(t)'
      BY <1>4, <1>12, <2>2, <2>3, <2>4 DEF EditsLast
    <3> QED  BY <1>10, <2>5, <3>1, <3>2 DEF EditsOnly
  <2>7. ASSUME t \notin missed' PROVE TextOf(t)'
    <3>1. TextOf(t) /\ t \notin missed /\ tab[t].mode = "on"
      BY <1>3, <1>8, <2>7 DEF Texts, ListenInv, ListenOf
    <3>2. ASSUME e.op \in Moving, NEW p \in OpenPaths
          PROVE  /\ p \in DOMAIN tab[t].mirror /\ tab[t].mirror[p] = files[p]
                 /\ e.op = "switch" => e.path \in OpenPaths
      <4>1. Alone
        BY <1>4, <2>1, <3>2 DEF AloneInv, Moving
      <4>2. True(call[k]) /\ AgreesBut(t, call[k])
        BY <1>3, <3>1, <4>1 DEF Alone, TrueInv, MirrorOf, ToSend
      <4> QED  BY <1>4, <3>2, <4>2, AgreesFacts
    <3>3. e.op = "switch" => e.path \in OpenPaths
      <4>1. e.op = "switch" => Alone
        BY <1>4, <2>1 DEF AloneInv
      <4> QED  BY <1>3, <1>4, <4>1 DEF Alone, TrueInv, True
    <3>4. FocusKnown(t)' /\ SwitchOpen(t)'
      BY <1>1, <1>2, <2>3, <2>4, <3>1, <3>3 DEF TextOf, FocusKnown, SwitchOpen
    <3>5. ASSUME NEW p \in OpenPaths' PROVE PathOf(t, p)'
      <4>1. PathOf(t, p) /\ ~Later(t, p, 0)
        BY <1>2, <2>1, <2>2, <3>1, QuietFacts DEF TextOf
      <4>2. LastIsTrue(t, p)'
        BY <1>2, <1>4, <2>1, <2>3, <2>4 DEF LastIsTrue, Brought, CopyIsTrue
      <4>3. Shows(t, p)'
        BY <1>1, <1>2, <4>1 DEF PathOf, Shows
      <4>4. ~Answering(t, p)'
        BY <1>3, <1>12, <2>1 DEF Answering, Answers, EditOf
      <4>5. Moved(t)' => e.op \in Moving
        BY <2>3, <2>4 DEF Moved
      <4>6. Knows(t, p)'
        BY <1>1, <1>2, <3>2, <4>4, <4>5 DEF Knows
      <4> QED  BY <4>2, <4>3, <4>6 DEF PathOf
    <3> QED  BY <3>4, <3>5 DEF TextOf
  <2> QED  BY <1>9, <2>6, <2>7 DEF Texts
<1> QED  BY <1>11, <1>12

-----------------------------------------------------------------------------
(* As long as only edits overlap: the steps of events and answers. *)

LEMMA TextForward ==
    ASSUME TypeInv, Texts, NEW t \in Tabs, Forward(t)
    PROVE  Texts'
<1> USE DEF TypeInv
<1>1. UNCHANGED <<storeVars, tab, call, missed, overlap>>
  BY ForwardFacts
<1>2. PICK e \in Event : ForwardsTo(t, e) /\ Carries(e)
  BY ForwardFacts
<1>3. files' = files /\ OpenPaths' = OpenPaths
  BY <1>1, StoreSame
<1> DEFINE h == queue[t][1]
<1>4. /\ queue[t] # << >> /\ ~Quiet(t) /\ h \in Event
      /\ queue'[t] = Tail(queue[t]) /\ wire'[t] = Append(wire[t], e)
      /\ e.op = h.op /\ e.path = h.path /\ e.file # Live
      /\ e.file \in Marshalled(h.file, h.path)
      /\ \A u \in Tabs \ {t} : SameEvents(u)
  BY <1>2 DEF ForwardsTo, SameEvents, Quiet, TypeOK
<1>5. /\ 1 \in DOMAIN queue[t] /\ Carries(h)
      /\ \A i \in DOMAIN queue'[t] :
           /\ i \in Nat \ {0} /\ i + 1 \in DOMAIN queue[t]
           /\ queue'[t][i] = queue[t][i + 1]
      /\ \A i \in DOMAIN queue[t] :
           \/ i = 1
           \/ i - 1 \in DOMAIN queue'[t] /\ queue'[t][i - 1] = queue[t][i]
  <2>1. queue[t] \in Seq(Event) /\ 1 \in DOMAIN queue[t] /\ Carries(h)
    BY <1>4, EventParts, TailFacts
  <2>2. \A i \in DOMAIN queue'[t] :
           /\ i \in Nat \ {0} /\ i + 1 \in DOMAIN queue[t]
           /\ queue'[t][i] = queue[t][i + 1]
    BY <1>4, <2>1, TailFacts
  <2>3. ASSUME NEW i \in DOMAIN queue[t], i # 1
        PROVE  i - 1 \in DOMAIN queue'[t] /\ queue'[t][i - 1] = queue[t][i]
    <3>1. i \in Nat /\ i > 1
      BY <2>1, <2>3
    <3>2. i - 1 \in DOMAIN queue'[t]
      BY <1>4, <2>1, <3>1, TailFacts
    <3>3. (i - 1) + 1 = i
      BY <3>1
    <3> QED  BY <2>2, <3>2, <3>3
  <2> QED  BY <2>1, <2>2, <2>3
<1>6. PICK n \in Nat :
        /\ DOMAIN wire[t] = 1..n
        /\ DOMAIN wire'[t] = DOMAIN wire[t] \cup {n + 1}
        /\ \A i \in DOMAIN wire[t] : wire'[t][i] = wire[t][i]
        /\ wire'[t][n + 1] = e
        /\ n # 0 => wire[t] # << >>
        /\ wire[t] = << >> => n = 0
  <2>1. wire[t] \in Seq(Event) /\ Len(<< >>) = 0 /\ Len(wire[t]) \in Nat
        /\ DOMAIN wire[t] = 1..Len(wire[t])
    BY EventParts
  <2> QED  BY <1>4, <2>1, AppendFacts
<1> HIDE DEF h
<1>7. \A i \in DOMAIN wire'[t] :
         \/ i \in DOMAIN wire[t] /\ wire'[t][i] = wire[t][i]
         \/ i = n + 1 /\ wire'[t][i] = e
  BY <1>6
<1>8. EditsLast(t)
  BY DEF Texts, EditsOnly
<1>9. /\ \A i \in DOMAIN queue'[t] : queue'[t][i].op = "edit" /\ queue'[t][i].file = Live
      /\ h.op # "edit" => wire[t] = << >> /\ n = 0
      /\ h.op = "edit" => h.file = Live
  <2>1. ASSUME NEW i \in DOMAIN queue'[t]
        PROVE  queue'[t][i].op = "edit" /\ queue'[t][i].file = Live
    <3>1. i + 1 > 1
      BY <1>5
    <3> QED  BY <1>5, <1>8, <3>1 DEF EditsLast
  <2> QED  BY <1>5, <1>6, <1>8, <2>1 DEF EditsLast, h
<1>10. EditsLast(t)'
  <2>1. ASSUME NEW i \in DOMAIN wire'[t], i > 1
        PROVE  wire'[t][i].op = "edit"
    <3>1. CASE i \in DOMAIN wire[t]
      BY <1>6, <1>8, <2>1, <3>1 DEF EditsLast
    <3>2. CASE i = n + 1
      BY <1>4, <1>6, <1>9, <2>1, <3>2
    <3> QED  BY <1>6, <3>1, <3>2
  <2> QED  BY <1>9, <2>1 DEF EditsLast
<1>11. ASSUME NEW k \in Calls PROVE CallOf(k)'
  <2>1. ASSUME call[k].pc # "idle", call[k].op # "edit"
        PROVE  /\ Sole(k)' /\ CopyIsTrue(k)'
               /\ call'[k].op # "save" => overlap' = "none"
    <3>1. Sole(k) /\ CopyIsTrue(k) /\ (call[k].op # "save" => overlap = "none")
      BY <2>1 DEF Texts, EditsOnly, CallOf
    <3>2. /\ call[k].pc \notin {"sent", "saved", "changed", "refused"}
          /\ t \notin call[k].todo
      BY <1>4, <3>1 DEF Sole
    <3>3. ASSUME NEW u \in call'[k].todo PROVE Quiet(u)'
      BY <1>1, <1>4, <3>1, <3>2, CallParts DEF Sole, Quiet, SameEvents
    <3>4. h.op = call[k].op /\ h.path = call[k].path
      BY <1>5, <3>1 DEF Sole, h
    <3>5. ASSUME NEW u \in Tabs
          PROVE  /\ \A i \in DOMAIN queue'[u] : /\ queue'[u][i].op = call'[k].op
                                               /\ queue'[u][i].path = call'[k].path
                 /\ \A i \in DOMAIN wire'[u] : /\ wire'[u][i].op = call'[k].op
                                              /\ wire'[u][i].path = call'[k].path
      <4>1. CASE u = t
        <5>1. \A i \in DOMAIN queue'[t] :
                /\ queue'[t][i].op = call'[k].op
                /\ queue'[t][i].path = call'[k].path
          BY <1>1, <1>5, <3>1 DEF Sole
        <5>2. \A i \in DOMAIN wire'[t] :
                /\ wire'[t][i].op = call'[k].op
                /\ wire'[t][i].path = call'[k].path
          BY <1>1, <1>4, <1>7, <3>1, <3>4 DEF Sole
        <5> QED  BY <4>1, <5>1, <5>2
      <4>2. CASE u # t
        BY <1>1, <1>4, <3>1, <4>2 DEF Sole, SameEvents
      <4> QED  BY <4>1, <4>2
    <3>6. Sole(k)'
      BY <1>1, <3>1, <3>2, <3>3, <3>5 DEF Sole
    <3> QED  BY <1>1, <1>3, <3>1, <3>6 DEF CopyIsTrue
  <2> QED  BY <1>1, <2>1 DEF Texts, EditsOnly, CallOf
<1>12. EditsOnly'
  BY <1>4, <1>10, <1>11, LastKept DEF Texts, EditsOnly
<1>13. \A u \in Tabs : \A p :
         /\ Coming(u, p)' <=> Coming(u, p)
         /\ Answering(u, p)' <=> Answering(u, p)
  BY <1>1 DEF Coming, Brings, Answering, Answers, EditOf
<1>14. ASSUME NEW u \in Tabs \ missed', u # t PROVE TextOf(u)'
  BY <1>1, <1>3, <1>4, <1>13, <1>14, TextKept DEF Texts
<1>15. ASSUME t \notin missed' PROVE TextOf(t)'
  <2>1. TextOf(t)
    BY <1>1, <1>15 DEF Texts
  <2>2. /\ \A i \in DOMAIN wire'[t] :
             \/ i \in DOMAIN wire[t] /\ wire'[t][i] = wire[t][i]
             \/ i = n + 1 /\ wire'[t][i] = e
        /\ \A i \in DOMAIN wire[t] : i \in DOMAIN wire'[t] /\ wire'[t][i] = wire[t][i]
        /\ n + 1 \in DOMAIN wire'[t]
    BY <1>6
  <2>3. FocusKnown(t)'
    BY <1>1, <2>1 DEF TextOf, FocusKnown
  <2>4. SwitchOpen(t)'
    <3>1. SwitchOpen(t) /\ (h.op = "switch" => h.path \in OpenPaths)
      BY <1>5, <2>1 DEF TextOf, SwitchOpen, h
    <3> QED  BY <1>3, <1>4, <1>9, <2>2, <3>1 DEF SwitchOpen
  <2>5. ASSUME NEW p \in OpenPaths' PROVE PathOf(t, p)'
    <3>1. PathOf(t, p)
      BY <1>3, <2>1 DEF TextOf
    <3>2. EditOf(e, p) <=> EditOf(h, p)
      BY <1>4 DEF EditOf
    <3>3. Queued(t, p) => Queued(t, p)' \/ EditOf(h, p)
      BY <1>5 DEF Queued, EditOf, h
    <3>4. ASSUME NEW i \in 0..n
          PROVE  Wired(t, p, i) \/ EditOf(h, p) => Wired(t, p, i)'
      <4>1. Wired(t, p, i) => Wired(t, p, i)'
        BY <2>2 DEF Wired, EditOf
      <4>2. EditOf(h, p) => Wired(t, p, i)'
        <5>1. n + 1 > i
          BY <1>6
        <5> QED  BY <1>6, <2>2, <3>2, <5>1 DEF Wired, EditOf
      <4> QED  BY <4>1, <4>2
    <3>5. ASSUME NEW i \in 0..n PROVE Later(t, p, i) => Later(t, p, i)'
      BY <1>13, <3>3, <3>4 DEF Later
    <3>6. Later(t, p, 0) => Later(t, p, 0)'
      BY <1>6, <3>5
    <3>7. ASSUME Brought(e, p), ~Later(t, p, n + 1)'
          PROVE  e.file.buffer = files'[p].buffer
      <4>1. p = h.path /\ h.op \in {"edit", "save"} /\ e.file # NoFile
        BY <1>4, <3>7 DEF Brought
      <4>2. ~Coming(t, p)
        BY <1>13, <3>7 DEF Later
      <4>3. ~Typing(p)
        BY <4>2 DEF Coming, Brings, Typing
      <4>4. /\ h.file \in File \cup {Live} /\ (h.file = Live => h.path \in OpenPaths)
        BY <1>4, <1>5 DEF Event, Carries
      <4>5. CASE h.file = Live
        <5>1. e.file.buffer = files[h.path].buffer
          BY <1>4, <4>1, <4>3, <4>4, <4>5, MarshalFacts
        <5> QED  BY <1>3, <4>1, <5>1
      <4>6. CASE h.file # Live
        <5>1. e.file = h.file
          BY <1>4, <4>4, <4>6, MarshalFacts
        <5>2. h.op = "save" /\ wire[t] = << >>
          BY <1>9, <4>1, <4>6
        <5>3. ~Queued(t, p)
          BY <3>3, <3>7, <5>2 DEF Later, EditOf
        <5>4. ~Wired(t, p, 0)
          BY <5>2 DEF Wired
        <5>5. ~Later(t, p, 0) /\ Brought(h, p)
          BY <4>1, <4>2, <5>1, <5>3, <5>4 DEF Later, Brought
        <5> QED  BY <1>3, <1>5, <3>1, <5>1, <5>2, <5>5 DEF PathOf, LastIsTrue, h
      <4> QED  BY <4>5, <4>6
    <3>8. LastIsTrue(t, p)'
      <4>1. ASSUME NEW i \in DOMAIN wire'[t], Brought(wire[t][i], p)',
                   ~Later(t, p, i)'
            PROVE  wire'[t][i].file.buffer = files'[p].buffer
        <5>1. CASE i \in DOMAIN wire[t] /\ wire'[t][i] = wire[t][i]
          <6>1. i \in 0..n
            BY <1>6, <5>1
          <6>2. ~Later(t, p, i)
            BY <3>5, <4>1, <6>1
          <6> QED  BY <1>3, <3>1, <4>1, <5>1, <6>2 DEF PathOf, LastIsTrue, Brought
        <5>2. CASE i = n + 1 /\ wire'[t][i] = e
          <6>1. Brought(e, p)
            BY <4>1, <5>2 DEF Brought
          <6>2. ~Later(t, p, n + 1)'
            BY <4>1, <5>2, <1>6
          <6> QED  BY <3>7, <5>2, <6>1, <6>2
        <5> QED  BY <2>2, <5>1, <5>2
      <4> QED  BY <1>9, <4>1 DEF LastIsTrue
    <3>9. Shows(t, p)'
      BY <1>1, <1>3, <3>1, <3>6 DEF PathOf, Shows
    <3>10. Moved(t)' => Moved(t)
      <4>1. h.op \in Moving => Moved(t)
        BY <1>5 DEF Moved, h
      <4> QED  BY <1>4, <1>9, <2>2, <4>1 DEF Moved, Moving
    <3>11. Knows(t, p)'
      <4>1. Queued(t, p) \/ Wired(t, p, 0) => Queued(t, p)' \/ Wired(t, p, 0)'
        BY <1>6, <3>3, <3>4
      <4> QED  BY <1>1, <1>3, <1>13, <3>1, <3>6, <3>10, <4>1 DEF PathOf, Knows
    <3> QED  BY <3>8, <3>9, <3>11 DEF PathOf
  <2> QED  BY <2>3, <2>4, <2>5 DEF TextOf
<1> QED  BY <1>12, <1>14, <1>15 DEF Texts

-----------------------------------------------------------------------------
(* As long as only edits overlap: what comes back to the tab. *)

\* The tab shows the text its mirror has of the file in focus.
ShowsMirror(t) ==
    tab[t].focus \in DOMAIN tab[t].mirror =>
      tab[t].doc = tab[t].mirror[tab[t].focus].buffer

LEMMA OpenedText ==
    ASSUME TypeOK, NEW t \in Tabs, NEW p \in Paths, NEW f \in OpenFile,
           Opened(t, p, f)
    PROVE  /\ FocusKnown(t)' /\ ShowsMirror(t)'
           /\ \A u \in Tabs \ {t} : tab'[u] = tab[u]
           /\ tab'[t].mode = tab[t].mode /\ tab'[t].timer = tab[t].timer
           /\ p \in DOMAIN tab'[t].mirror /\ tab'[t].mirror[p] = f
           /\ \A q \in DOMAIN tab[t].mirror \ {p} :
                q \in DOMAIN tab'[t].mirror
                /\ tab'[t].mirror[q] = tab[t].mirror[q]
<1>1. PICK m \in FileMap : m = tab[t].mirror
  BY TabParts
<1>2. PICK n \in FileMap :
        /\ n = MirrorPut(m, p, f)
        /\ DOMAIN n = DOMAIN m \cup {p} /\ n[p] = f
        /\ \A q \in DOMAIN m \ {p} : n[q] = m[q]
  <2>1. /\ MirrorPut(m, p, f) \in FileMap
        /\ DOMAIN MirrorPut(m, p, f) = DOMAIN m \cup {p}
        /\ MirrorPut(m, p, f)[p] = f
        /\ \A q \in DOMAIN m \ {p} : MirrorPut(m, p, f)[q] = m[q]
    <3>1. MirrorPut(m, p, f) \in FileMap
      BY MirrorFacts
    <3> QED  BY <3>1 DEF MirrorPut
  <2> QED  BY <2>1, Zenon
<1>3. TabBecomes(t, tab[t].mode, n, p, Rendered(n, p), tab[t].timer)
  BY <1>1, <1>2 DEF Opened
<1>4. Rendered(n, p) = f.buffer /\ Rendered(n, p) # NoDoc
  BY <1>2, RenderedFacts
<1>5. FocusKnown(t)' /\ ShowsMirror(t)'
  BY <1>2, <1>3, <1>4 DEF TabBecomes, FocusKnown, ShowsMirror
<1> QED  BY <1>1, <1>2, <1>3, <1>5 DEF TabBecomes

LEMMA SwitchedText ==
    ASSUME TypeOK, NEW t \in Tabs, NEW p \in DOMAIN tab[t].mirror, Switched(t, p)
    PROVE  /\ FocusKnown(t)' /\ ShowsMirror(t)'
           /\ \A u \in Tabs \ {t} : tab'[u] = tab[u]
           /\ tab'[t].mode = tab[t].mode /\ tab'[t].timer = tab[t].timer
           /\ tab'[t].mirror = tab[t].mirror
<1>1. PICK m \in FileMap : m = tab[t].mirror
  BY TabParts
<1>2. p \in DOMAIN m /\ p \in Paths
  BY <1>1, FileMapMember
<1>3. TabBecomes(t, tab[t].mode, m, p, Rendered(m, p), tab[t].timer)
  BY <1>1 DEF Switched
<1>4. Rendered(m, p) = m[p].buffer /\ Rendered(m, p) # NoDoc
  BY <1>2, RenderedFacts
<1>5. FocusKnown(t)' /\ ShowsMirror(t)'
  BY <1>2, <1>3, <1>4 DEF TabBecomes, FocusKnown, ShowsMirror
<1> QED  BY <1>1, <1>3, <1>5 DEF TabBecomes

LEMMA DroppedText ==
    ASSUME TypeOK, NEW t \in Tabs, NEW p \in Paths, Dropped(t, p),
           FocusKnown(t), tab[t].mode \in Shown
    PROVE  /\ FocusKnown(t)' /\ ShowsMirror(t)'
           /\ \A u \in Tabs \ {t} : tab'[u] = tab[u]
           /\ tab'[t].mode = tab[t].mode /\ tab'[t].timer = tab[t].timer
           /\ tab'[t].focus # p
           /\ \A q \in DOMAIN tab[t].mirror \ {p} :
                q \in DOMAIN tab'[t].mirror
                /\ tab'[t].mirror[q] = tab[t].mirror[q]
<1>1. PICK m \in FileMap : m = tab[t].mirror
  BY TabParts
<1>2. FreshFile(Empty) \in OpenFile
  BY ContentsAssumption DEF FreshFile, OpenFile
<1>3. PICK n \in FileMap :
        /\ n = MirrorDelete(m, p) /\ DOMAIN n = DOMAIN m \ {p}
        /\ \A q \in DOMAIN m \ {p} : n[q] = m[q]
  <2>1. /\ MirrorDelete(m, p) \in FileMap
        /\ DOMAIN MirrorDelete(m, p) = DOMAIN m \ {p}
        /\ \A q \in DOMAIN m \ {p} : MirrorDelete(m, p)[q] = m[q]
    BY <1>2, MirrorFacts
  <2> QED  BY <2>1, Zenon
<1>4. PICK focus \in Paths \cup {NoPath} :
        /\ focus \in DOMAIN n \cup {NoPath, tab[t].focus} /\ focus # p
        /\ TabBecomes(t, tab[t].mode, n, focus, Rendered(n, focus), tab[t].timer)
  BY <1>1, <1>3 DEF Dropped
<1>5. tab[t].focus \in DOMAIN m \cup {NoPath}
  BY <1>1 DEF FocusKnown
<1>6. focus \in DOMAIN n \cup {NoPath}
  BY <1>3, <1>4, <1>5
<1>7. focus \in DOMAIN n =>
        Rendered(n, focus) = n[focus].buffer /\ Rendered(n, focus) # NoDoc
  BY RenderedFacts
<1>8. FocusKnown(t)' /\ ShowsMirror(t)'
  BY <1>4, <1>6, <1>7 DEF TabBecomes, FocusKnown, ShowsMirror
<1> QED  BY <1>1, <1>3, <1>4, <1>8 DEF TabBecomes

\* The mirror has the server's text of p, and so has the editor.
LEMMA MirrorText ==
    ASSUME NEW t \in Tabs, NEW p, ShowsMirror(t)', p \in DOMAIN tab'[t].mirror,
           tab'[t].mirror[p].buffer = files'[p].buffer
    PROVE  Shows(t, p)'
BY DEF ShowsMirror, Shows

LEMMA LastSame ==
    ASSUME NEW t \in Tabs, NEW p, LastIsTrue(t, p), SameEvents(t),
           Coming(t, p) => Coming(t, p)', files'[p].buffer = files[p].buffer
    PROVE  LastIsTrue(t, p)' /\ (Later(t, p, 0) => Later(t, p, 0)')
<1>1. ASSUME NEW i, Later(t, p, i) PROVE Later(t, p, i)'
  <2>1. Wired(t, p, i) => Wired(t, p, i)'
    BY DEF SameEvents, Wired
  <2>2. Queued(t, p) => Queued(t, p)'
    BY DEF SameEvents, Queued
  <2> QED  BY <1>1, <2>1, <2>2 DEF Later
<1>2. ASSUME NEW i \in DOMAIN wire'[t], Brought(wire[t][i], p)',
             ~Later(t, p, i)'
      PROVE  wire'[t][i].file.buffer = files'[p].buffer
  BY <1>1, <1>2 DEF LastIsTrue, SameEvents, Brought
<1>3. ASSUME NEW i \in DOMAIN queue'[t], Brought(queue[t][i], p)',
             queue'[t][i].op = "save", ~Later(t, p, 0)'
      PROVE  queue'[t][i].file.buffer = files'[p].buffer
  BY <1>1, <1>3 DEF LastIsTrue, SameEvents, Brought
<1>4. LastIsTrue(t, p)'
  BY <1>2, <1>3 DEF LastIsTrue
<1> QED  BY <1>1, <1>4

\* The answer to a request that has the server to itself: nothing else is on
\* its way, and the mirror lacks at most what the answer brings.
LEMMA AnswerAlone ==
    ASSUME TypeInv, ListenInv, AloneInv, Texts, NEW t \in Tabs \ missed,
           NEW k \in Calls, k[1] = t, call[k].pc = "answered",
           call[k].op \in {"open", "close", "switch"}
    PROVE  /\ True(call[k]) /\ tab[t].mode \in Shown
           /\ \A p \in OpenPaths \ {call[k].path} :
                p \in DOMAIN tab[t].mirror /\ tab[t].mirror[p] = files[p]
           /\ call[k].op = "switch" => tab[t].mirror = files
           /\ call[k].op = "open" => ~Moved(t)
<1> USE DEF TypeInv
<1> DEFINE c == call[k]
<1>1. /\ Sole(k) /\ overlap = "none"
      /\ \A j \in Calls \ {k} : call[j].pc = "idle" /\ call[j].todo = {}
  BY SoleFacts DEF Texts
<1>2. k = <<t, k[2]>> /\ k[2] \in Slots
  BY DEF Calls
<1>3. tab[t].mode \in Shown
  <2>1. tab[t].mode \in Mode
    BY TabParts
  <2> QED  BY <1>2, <2>1 DEF ListenInv, ListenOf, Mode, Shown
<1>4. Alone /\ True(c) /\ MirrorOf(t)
  BY <1>1, <1>3 DEF AloneInv, Alone, TrueInv, Shown
<1>5. \A j \in Calls : ~ToSend(j, t)
  <2>1. c.todo = {}
    BY DEF FormInv, CallForm
  <2> QED  BY <1>1, <2>1 DEF ToSend
<1>6. tab[t].mirror = files \/ \E x : AgreesBut(t, x) /\ x.op = c.op /\ x.path = c.path
  <2>1. CASE Quiet(t) \/ tab[t].mode # "on"
    BY <1>4, <1>5, <2>1 DEF MirrorOf
  <2>2. CASE ~Quiet(t)
    <3>1. DOMAIN queue[t] # {} \/ DOMAIN wire[t] # {}
      BY <2>2, EventParts, EmptyDomain DEF Quiet
    <3>2. ASSUME NEW i \in DOMAIN queue[t]
          PROVE  \E x : AgreesBut(t, x) /\ x.op = c.op /\ x.path = c.path
      BY <1>1, <1>4 DEF Sole, MirrorOf
    <3>3. ASSUME NEW i \in DOMAIN wire[t]
          PROVE  \E x : AgreesBut(t, x) /\ x.op = c.op /\ x.path = c.path
      BY <1>1, <1>4 DEF Sole, MirrorOf
    <3> QED  BY <3>1, <3>2, <3>3
  <2> QED  BY <2>1, <2>2
<1>7. /\ \A p \in OpenPaths \ {c.path} :
           p \in DOMAIN tab[t].mirror /\ tab[t].mirror[p] = files[p]
      /\ c.op = "switch" => tab[t].mirror = files
  <2>1. CASE tab[t].mirror = files
    BY <2>1 DEF OpenPaths
  <2>2. CASE \E x : AgreesBut(t, x) /\ x.op = c.op /\ x.path = c.path
    <3>1. PICK x : AgreesBut(t, x) /\ x.op = c.op /\ x.path = c.path
      BY <2>2
    <3> HIDE DEF c
    <3> QED  BY <3>1 DEF AgreesBut, OpenPaths
  <2> QED  BY <1>6, <2>1, <2>2
<1>8. c.op = "open" => ~Moved(t)
  BY <1>1 DEF Sole, Moved, Moving
<1> QED  BY <1>3, <1>4, <1>7, <1>8

\* What a tab shows after the answer to such a request.
LEMMA AnswerShows ==
    ASSUME TypeInv, ListenInv, AloneInv, Texts, NEW t \in Tabs \ missed,
           NEW k \in Calls, k[1] = t, call[k].pc = "answered",
           UNCHANGED <<storeVars, queue, wire>>,
           \A p : Answering(t, p)' => Answering(t, p),
           \/ call[k].op = "open" /\ call[k].file \in OpenFile
              /\ Opened(t, call[k].path, call[k].file)
           \/ call[k].op = "close" /\ Dropped(t, call[k].path)
           \/ call[k].op = "switch" /\ Switched(t, call[k].path),
           NEW p0 \in Paths, p0 = call[k].path
    PROVE  /\ \A u \in Tabs \ {t} : tab'[u] = tab[u]
           /\ tab'[t].mode = tab[t].mode /\ tab'[t].timer = tab[t].timer
           /\ FocusKnown(t)'
           /\ \A p \in OpenPaths' : Shows(t, p)' /\ Knows(t, p)'
<1> USE DEF TypeInv
<1>1. /\ True(call[k]) /\ tab[t].mode \in Shown
      /\ \A p \in OpenPaths \ {p0} :
           p \in DOMAIN tab[t].mirror /\ tab[t].mirror[p] = files[p]
      /\ call[k].op = "switch" => tab[t].mirror = files
      /\ call[k].op = "open" => ~Moved(t)
  BY AnswerAlone
<1>2. \A p : ~Coming(t, p) /\ ~Answering(t, p)
  BY SoleFacts DEF Texts
<1>3. FocusKnown(t)
  BY DEF Texts, TextOf
<1>4. files' = files /\ OpenPaths' = OpenPaths
  BY StoreSame
<1>5. /\ \A u \in Tabs \ {t} : tab'[u] = tab[u]
      /\ tab'[t].mode = tab[t].mode /\ tab'[t].timer = tab[t].timer
      /\ FocusKnown(t)' /\ ShowsMirror(t)'
      /\ \A p \in OpenPaths :
           p \in DOMAIN tab'[t].mirror /\ tab'[t].mirror[p] = files[p]
  <2>1. CASE call[k].op = "open" /\ call[k].file \in OpenFile
             /\ Opened(t, p0, call[k].file)
    <3>1. call[k].file = files[p0]
      BY <1>1, <2>1, NullAssumption DEF True, File
    <3>2. /\ \A u \in Tabs \ {t} : tab'[u] = tab[u]
          /\ tab'[t].mode = tab[t].mode /\ tab'[t].timer = tab[t].timer
          /\ FocusKnown(t)' /\ ShowsMirror(t)'
          /\ p0 \in DOMAIN tab'[t].mirror /\ tab'[t].mirror[p0] = files[p0]
          /\ \A q \in DOMAIN tab[t].mirror \ {p0} :
               q \in DOMAIN tab'[t].mirror /\ tab'[t].mirror[q] = tab[t].mirror[q]
      BY <2>1, <3>1, OpenedText
    <3> QED  BY <1>1, <3>2
  <2>2. CASE call[k].op = "close" /\ Dropped(t, p0)
    <3>1. p0 \notin OpenPaths
      BY <1>1, <2>2 DEF True
    <3>2. /\ \A u \in Tabs \ {t} : tab'[u] = tab[u]
          /\ tab'[t].mode = tab[t].mode /\ tab'[t].timer = tab[t].timer
          /\ FocusKnown(t)' /\ ShowsMirror(t)'
          /\ \A q \in DOMAIN tab[t].mirror \ {p0} :
               q \in DOMAIN tab'[t].mirror /\ tab'[t].mirror[q] = tab[t].mirror[q]
      BY <1>1, <1>3, <2>2, DroppedText
    <3> QED  BY <1>1, <3>1, <3>2
  <2>3. CASE call[k].op = "switch" /\ Switched(t, p0)
    <3>1. p0 \in OpenPaths /\ tab[t].mirror = files
      BY <1>1, <2>3 DEF True
    <3>2. p0 \in DOMAIN tab[t].mirror
      BY <3>1 DEF OpenPaths
    <3> QED  BY <2>3, <3>1, <3>2, SwitchedText DEF OpenPaths
  <2> QED  BY <2>1, <2>2, <2>3
<1>6. ASSUME NEW p \in OpenPaths' PROVE Shows(t, p)' /\ Knows(t, p)'
  <2>1. p \in DOMAIN tab'[t].mirror /\ tab'[t].mirror[p].buffer = files'[p].buffer
    BY <1>4, <1>5, <1>6
  <2>2. Shows(t, p)'
    BY <1>5, <2>1, MirrorText
  <2> QED  BY <1>2, <2>1, <2>2 DEF Knows
<1> QED  BY <1>5, <1>6

LEMMA TextReceive ==
    ASSUME TypeInv, ListenInv, AloneInv, Texts, NEW t \in Tabs,
           NEW slot \in Slots, Receive(t, slot)
    PROVE  Texts'
<1> USE DEF TypeInv
<1>1. PICK k \in Calls : k = <<t, slot>> /\ k[1] = t
  <2>1. <<t, slot>> \in Calls
    BY DEF Calls
  <2> QED  BY <2>1
<1>2. /\ CallBecomes(k, "idle", "edit", NoPath, Empty, NoFile, {})
      /\ call[k].pc \in {"answered", "refused"} /\ call[k].path \in Paths
      /\ call[k].file \in File /\ call[k].op \in Op
      /\ \/ call[k].pc = "refused" /\ tab' = tab
         \/ call[k].pc = "answered" /\
              \/ call[k].op = "open" /\ call[k].file \in OpenFile
                 /\ Opened(t, call[k].path, call[k].file)
              \/ call[k].op \in {"edit", "save"} /\ call[k].file = NoFile
                 /\ tab' = tab
              \/ call[k].op \in {"edit", "save"} /\ call[k].file \in OpenFile
                 /\ Mirrored(t, call[k].path, call[k].file)
              \/ call[k].op = "close" /\ Dropped(t, call[k].path)
              \/ call[k].op = "switch" /\ Switched(t, call[k].path)
      /\ UNCHANGED <<storeVars, queue, wire, acts, missed, overlap>>
  BY <1>1, ReceiveCall, ReceiveFacts
<1>3. files' = files /\ OpenPaths' = OpenPaths /\ \A u \in Tabs : SameEvents(u)
  BY <1>2, StoreSame DEF SameEvents
<1>4. call[k].todo = {} /\ call[k].pc # "idle"
  BY <1>2 DEF FormInv, CallForm
<1>5. EditsOnly'
  <2>1. CallOf(k)'
    BY <1>2 DEF CallBecomes, CallOf
  <2>2. \A j \in Calls \ {k} : call[j].pc = "idle" \/ call[j].op = "edit"
    BY <1>4, OthersEdit DEF Texts
  <2> QED  BY <1>2, <1>3, <2>1, <2>2, EditsCall DEF Texts, CallBecomes
<1>6. ASSUME NEW u \in Tabs, tab'[u].mode = tab[u].mode
      PROVE  \A p : /\ Coming(u, p) => Coming(u, p)'
                    /\ Answering(u, p)' => Answering(u, p)
  <2>1. \A p : ~Brings(k, u, p) /\ ~Answers(k, u, p)'
    BY <1>2, <1>4 DEF CallBecomes, Brings, Answers
  <2>2. \A j \in Calls \ {k} : call'[j] = call[j]
    BY <1>2 DEF CallBecomes
  <2> QED  BY <1>6, <2>1, <2>2, ComingKept, AnsweringKept
<1>7. ASSUME NEW u \in Tabs \ missed, tab'[u] = tab[u]
      PROVE  TextOf(u)'
  BY <1>3, <1>6, <1>7, TextKept DEF Texts
<1>8. CASE tab' = tab
  BY <1>2, <1>5, <1>7, <1>8 DEF Texts
<1>9. CASE call[k].pc = "answered" /\ call[k].op \in {"edit", "save"}
           /\ call[k].file \in OpenFile
           /\ Mirrored(t, call[k].path, call[k].file)
  <2>1. PICK m \in FileMap, p0 \in Paths, f \in OpenFile :
          m = tab[t].mirror /\ p0 = call[k].path /\ f = call[k].file
    BY <1>2, <1>9, TabParts
  <2>2. PICK n \in FileMap :
          /\ n = MirrorPut(m, p0, f) /\ DOMAIN n = DOMAIN m \cup {p0}
          /\ n[p0] = f /\ \A q \in DOMAIN m \ {p0} : n[q] = m[q]
    <3>1. MirrorPut(m, p0, f) \in FileMap
      BY MirrorFacts
    <3>2. /\ DOMAIN MirrorPut(m, p0, f) = DOMAIN m \cup {p0}
          /\ MirrorPut(m, p0, f)[p0] = f
          /\ \A q \in DOMAIN m \ {p0} : MirrorPut(m, p0, f)[q] = m[q]
      BY DEF MirrorPut
    <3> QED  BY <3>1, <3>2, Zenon
  <2>3. /\ tab'[t].mode = tab[t].mode /\ tab'[t].mirror = n
        /\ tab'[t].focus = tab[t].focus /\ tab'[t].doc = tab[t].doc
        /\ tab'[t].timer = tab[t].timer
        /\ \A u \in Tabs \ {t} : tab'[u] = tab[u]
    BY <1>9, <2>1, <2>2 DEF Mirrored, TabBecomes
  <2>4. ASSUME t \notin missed PROVE TextOf(t)'
    <3>1. TextOf(t)
      BY <2>4 DEF Texts
    <3>2. FocusKnown(t)'
      BY <2>1, <2>2, <2>3, <3>1 DEF TextOf, FocusKnown
    <3>3. SwitchOpen(t)' /\ (Moved(t)' <=> Moved(t))
      BY <1>3, <3>1 DEF TextOf, SwitchOpen, SameEvents, Moved
    <3>4. ASSUME NEW p \in OpenPaths' PROVE PathOf(t, p)'
      <4>1. PathOf(t, p)
        BY <1>3, <3>1, <3>4 DEF TextOf
      <4>2. LastIsTrue(t, p)' /\ (Later(t, p, 0) => Later(t, p, 0)')
        BY <1>3, <1>6, <2>3, <4>1, LastSame DEF PathOf
      <4>3. Shows(t, p)'
        BY <1>3, <2>3, <4>1, <4>2 DEF PathOf, Shows
      <4>4. ASSUME Moved(t), ~Later(t, p, 0), p = p0
            PROVE  f.buffer = files[p].buffer
        <5>1. CASE call[k].op = "edit"
          <6>1. Answers(k, t, p)
            BY <1>1, <1>4, <1>9, <2>1, <4>4, <5>1 DEF Answers, EditOf
          <6> QED  BY <4>1, <4>4, <6>1 DEF PathOf, Knows, Later, Answering
        <5>2. CASE call[k].op = "save"
          <6>1. CopyIsTrue(k)
            BY <1>4, <5>2, SoleFacts DEF Texts
          <6> QED  BY <1>9, <2>1, <4>4, <5>2, <6>1, NullAssumption DEF CopyIsTrue
        <5> QED  BY <1>9, <5>1, <5>2
      <4>5. (Queued(t, p) \/ Wired(t, p, 0)) => (Queued(t, p) \/ Wired(t, p, 0))'
        BY <1>3 DEF SameEvents, Queued, Wired
      <4>6. Knows(t, p)'
        <5> SUFFICES ASSUME Moved(t)'
                     PROVE  /\ p \in DOMAIN tab'[t].mirror
                            /\ ~Later(t, p, 0)' =>
                                 tab'[t].mirror[p].buffer = files'[p].buffer
                            /\ Answering(t, p)' => (Queued(t, p) \/ Wired(t, p, 0))'
          BY DEF Knows
        <5>1. /\ p \in DOMAIN m
              /\ ~Later(t, p, 0) => m[p].buffer = files[p].buffer
              /\ Answering(t, p) => Queued(t, p) \/ Wired(t, p, 0)
          BY <2>1, <3>3, <4>1 DEF PathOf, Knows
        <5>2. n[p].buffer = files[p].buffer \/ Later(t, p, 0)
          BY <2>2, <3>3, <4>4, <5>1
        <5> QED  BY <1>3, <1>6, <2>2, <2>3, <4>2, <4>5, <5>1, <5>2
      <4> QED  BY <4>2, <4>3, <4>6 DEF PathOf
    <3> QED  BY <3>2, <3>3, <3>4 DEF TextOf
  <2> QED  BY <1>2, <1>5, <1>7, <2>3, <2>4 DEF Texts
<1>10. CASE call[k].pc = "answered" /\
            \/ call[k].op = "open" /\ call[k].file \in OpenFile
               /\ Opened(t, call[k].path, call[k].file)
            \/ call[k].op = "close" /\ Dropped(t, call[k].path)
            \/ call[k].op = "switch" /\ Switched(t, call[k].path)
  <2>1. /\ \A u \in Tabs \ {t} : tab'[u] = tab[u]
        /\ tab'[t].mode = tab[t].mode /\ tab'[t].timer = tab[t].timer
    BY <1>10 DEF Opened, Dropped, Switched, TabBecomes
  <2>2. ASSUME t \notin missed PROVE TextOf(t)'
    <3>1. TextOf(t)
      BY <2>2 DEF Texts
    <3>2. \A p : Answering(t, p)' => Answering(t, p)
      BY <1>6, <2>1
    <3>3. FocusKnown(t)' /\ \A p \in OpenPaths' : Shows(t, p)' /\ Knows(t, p)'
      BY <1>1, <1>2, <1>10, <2>2, <3>2, AnswerShows
    <3>4. SwitchOpen(t)'
      BY <1>3, <3>1 DEF TextOf, SwitchOpen, SameEvents
    <3>5. ASSUME NEW p \in OpenPaths' PROVE LastIsTrue(t, p)'
      <4>1. LastIsTrue(t, p)
        BY <1>3, <3>1, <3>5 DEF TextOf, PathOf
      <4> QED  BY <1>3, <1>6, <2>1, <4>1, LastSame
    <3> QED  BY <3>3, <3>4, <3>5 DEF TextOf, PathOf
  <2> QED  BY <1>2, <1>5, <1>7, <2>1, <2>2 DEF Texts
<1> QED  BY <1>2, <1>8, <1>9, <1>10

\* What a tab makes of its first event.
LEMMA EventShows ==
    ASSUME TypeInv, Texts, NEW t \in Tabs \ missed, HandleEvent(t),
           tab[t].mode \in Shown,
           NEW e, e = wire[t][1]
    PROVE  /\ FocusKnown(t)'
           /\ \A p \in OpenPaths :
                ~Later(t, p, 1) /\ tab'[t].focus = p /\ ~tab'[t].timer =>
                  tab'[t].doc = files[p].buffer
<1> USE DEF TypeInv
<1>1. /\ 1 \in DOMAIN wire[t] /\ e \in Event /\ e.path \in Paths
      /\ e.file \in File
      /\ \/ e.op \in {"edit", "save"} /\ e.file = NoFile /\ tab' = tab
         \/ e.op \in {"edit", "save"} /\ e.file \in OpenFile
            /\ Updated(t, e.path, e.file)
         \/ e.op = "open" /\ e.file \in OpenFile
            /\ Mirrored(t, e.path, e.file)
         \/ e.op = "close" /\ Dropped(t, e.path)
         \/ e.op = "switch" /\ Switched(t, e.path)
  BY HandleFacts
<1>2. /\ FocusKnown(t) /\ SwitchOpen(t) /\ \A p \in OpenPaths : PathOf(t, p)
      /\ e.op \in {"open", "edit"} => e.file # NoFile
      /\ DOMAIN wire[t] \subseteq Nat
  <2>1. Carries(e) /\ wire[t] \in Seq(Event)
    BY <1>1, EventParts
  <2> QED  BY <2>1 DEF Texts, TextOf, Carries
<1>3. ASSUME NEW p, ~Later(t, p, 1), ~EditOf(e, p) PROVE ~Later(t, p, 0)
  <2>1. ~Coming(t, p) /\ ~Queued(t, p) /\ ~Wired(t, p, 1)
    BY <1>3 DEF Later
  <2>2. ~Wired(t, p, 0)
    <3> SUFFICES ASSUME NEW j \in DOMAIN wire[t], EditOf(wire[t][j], p), j > 0
                 PROVE  FALSE
      BY DEF Wired
    <3>1. j # 1
      BY <1>3
    <3>2. j > 1
      BY <1>2, <3>1
    <3> QED  BY <2>1, <3>2 DEF Wired
  <2> QED  BY <2>1, <2>2 DEF Later
<1>4. ASSUME NEW p \in OpenPaths, ~Later(t, p, 0), tab[t].focus = p,
             ~tab[t].timer
      PROVE  tab[t].doc = files[p].buffer
  BY <1>2, <1>4 DEF PathOf, Shows
<1>5. CASE /\ tab' = tab \/ Mirrored(t, e.path, e.file)
           /\ e.op \in {"open", "edit", "save"}
           /\ e.op # "open" => e.file = NoFile
  <2>1. /\ tab'[t].mode = tab[t].mode /\ tab'[t].focus = tab[t].focus
        /\ tab'[t].doc = tab[t].doc /\ tab'[t].timer = tab[t].timer
        /\ DOMAIN tab[t].mirror \subseteq DOMAIN tab'[t].mirror
    <3>1. CASE tab' = tab
      BY <3>1
    <3>2. CASE Mirrored(t, e.path, e.file)
      BY <3>2 DEF Mirrored, TabBecomes, MirrorPut
    <3> QED  BY <1>5, <3>1, <3>2
  <2>2. FocusKnown(t)'
    BY <1>2, <2>1 DEF FocusKnown
  <2>3. \A p : ~EditOf(e, p)
    BY <1>2, <1>5 DEF EditOf
  <2> QED  BY <1>3, <1>4, <2>1, <2>2, <2>3
<1>6. CASE e.op \in {"edit", "save"} /\ e.file \in OpenFile
           /\ Updated(t, e.path, e.file)
  <2>1. /\ tab'[t].mode = tab[t].mode /\ tab'[t].focus = tab[t].focus
        /\ tab'[t].timer = tab[t].timer
        /\ tab'[t].doc = IF e.path = tab[t].focus /\ DocText(t) # e.file.buffer
                         THEN e.file.buffer ELSE tab[t].doc
        /\ DOMAIN tab[t].mirror \subseteq DOMAIN tab'[t].mirror
    BY <1>6 DEF Updated, TabBecomes, MirrorPut
  <2>2. e.file.buffer \in Contents /\ e.file.buffer # NoDoc
    BY <1>6, NullAssumption DEF OpenFile
  <2>3. FocusKnown(t)'
    BY <1>2, <2>1, <2>2 DEF FocusKnown
  <2>4. ASSUME NEW p \in OpenPaths, ~Later(t, p, 1), tab'[t].focus = p,
               ~tab'[t].timer
        PROVE  tab'[t].doc = files[p].buffer
    <3>1. CASE p = e.path
      <4>1. Brought(e, p)
        BY <1>6, <3>1, NullAssumption DEF Brought
      <4>2. e.file.buffer = files[p].buffer
        BY <1>1, <1>2, <2>4, <4>1 DEF PathOf, LastIsTrue
      <4>3. tab[t].doc = DocText(t)
        <5>1. p # NoPath
          BY <1>1, <3>1, PathAssumption
        <5> QED  BY <1>2, <2>1, <2>4, <5>1 DEF FocusKnown, DocText
      <4> QED  BY <2>1, <2>4, <3>1, <4>2, <4>3
    <3>2. CASE p # e.path
      <4>1. ~EditOf(e, p)
        BY <3>2 DEF EditOf
      <4> QED  BY <1>3, <1>4, <2>1, <2>4, <3>2, <4>1
    <3> QED  BY <3>1, <3>2
  <2> QED  BY <2>3, <2>4
<1>7. CASE e.op \in Moving
  <2>1. Moved(t) /\ \A p : ~EditOf(e, p)
    BY <1>1, <1>7 DEF Moved, EditOf, Moving
  <2>2. ASSUME NEW p \in OpenPaths
        PROVE  /\ p \in DOMAIN tab[t].mirror
               /\ ~Later(t, p, 1) => tab[t].mirror[p].buffer = files[p].buffer
    BY <1>2, <1>3, <2>1, <2>2 DEF PathOf, Knows
  <2>3. CASE e.op = "close" /\ Dropped(t, e.path)
    <3>1. /\ FocusKnown(t)' /\ ShowsMirror(t)' /\ tab'[t].focus # e.path
          /\ \A q \in DOMAIN tab[t].mirror \ {e.path} :
               q \in DOMAIN tab'[t].mirror /\ tab'[t].mirror[q] = tab[t].mirror[q]
      BY <1>1, <1>2, <2>3, DroppedText
    <3> QED  BY <2>2, <3>1 DEF ShowsMirror
  <2>4. CASE e.op = "switch" /\ Switched(t, e.path)
    <3>1. e.path \in OpenPaths
      BY <1>1, <1>2, <2>4 DEF SwitchOpen
    <3>2. e.path \in DOMAIN tab[t].mirror
      BY <2>2, <3>1
    <3>3. FocusKnown(t)' /\ ShowsMirror(t)' /\ tab'[t].mirror = tab[t].mirror
      BY <2>4, <3>2, SwitchedText
    <3> QED  BY <2>2, <3>3 DEF ShowsMirror
  <2> QED  BY <1>1, <1>7, <2>3, <2>4 DEF Moving
<1> QED  BY <1>1, <1>5, <1>6, <1>7 DEF Moving

LEMMA TextHandle ==
    ASSUME TypeInv, ListenInv, Texts, NEW t \in Tabs, HandleEvent(t)
    PROVE  Texts'
<1> USE DEF TypeInv
<1>1. PICK e : e = wire[t][1]
  OBVIOUS
<1>2. /\ wire[t] # << >> /\ 1 \in DOMAIN wire[t]
      /\ UNCHANGED <<storeVars, call, queue, acts, missed, overlap>>
  BY HandleFacts
<1>3. /\ \A u \in Tabs \ {t} : tab'[u] = tab[u]
      /\ tab'[t].mode = tab[t].mode /\ tab'[t].timer = tab[t].timer
  BY HandleFacts DEF Updated, Mirrored, Dropped, Switched, TabBecomes
<1>4. /\ \A u \in Tabs \ {t} : SameEvents(u)
      /\ queue'[t] = queue[t]
      /\ \A i \in DOMAIN wire'[t] :
           /\ i \in Nat \ {0} /\ i + 1 \in DOMAIN wire[t]
           /\ wire'[t][i] = wire[t][i + 1]
      /\ \A i \in DOMAIN wire[t] : i > 1 => i - 1 \in DOMAIN wire'[t]
      /\ DOMAIN wire[t] \subseteq Nat
  <2>1. wire' = [wire EXCEPT ![t] = Tail(@)]
    BY DEF HandleEvent
  <2>2. DOMAIN wire[t] \subseteq Nat
    <3>1. wire[t] \in Seq(Event)
      BY EventParts
    <3> QED  BY <3>1
  <2>3. /\ \A u \in Tabs \ {t} : wire'[u] = wire[u]
        /\ \A i \in DOMAIN wire'[t] :
             i \in Nat \ {0} /\ i + 1 \in DOMAIN wire[t]
             /\ wire'[t][i] = wire[t][i + 1]
        /\ \A i \in DOMAIN wire[t] : i > 1 => i - 1 \in DOMAIN wire'[t]
    BY <1>2, <2>1, Consumed
  <2> QED  BY <1>2, <2>2, <2>3 DEF SameEvents
<1>5. files' = files /\ OpenPaths' = OpenPaths
  BY <1>2, StoreSame
<1>6. /\ tab[t].mode = "on" /\ tab[t].mode \in Shown
      /\ ~Quiet(t)
  BY <1>2 DEF ListenInv, ListenOf, Quiet, Shown
<1>7. /\ \A i \in DOMAIN wire'[t] : wire'[t][i].op = "edit"
      /\ \A i \in DOMAIN queue'[t] :
           queue'[t][i].op = "edit" /\ queue'[t][i].file = Live
  <2>1. EditsLast(t)
    BY DEF Texts, EditsOnly
  <2>2. ASSUME NEW i \in DOMAIN wire'[t] PROVE wire'[t][i].op = "edit"
    <3>1. i + 1 > 1
      BY <1>4
    <3> QED  BY <1>4, <2>1, <3>1 DEF EditsLast
  <2> QED  BY <1>2, <1>4, <2>1, <2>2 DEF EditsLast
<1>8. ASSUME NEW k \in Calls PROVE CallOf(k)'
  <2>1. ASSUME call[k].pc # "idle", call[k].op # "edit"
        PROVE  Sole(k)' /\ CopyIsTrue(k)' /\ (call'[k].op # "save" => overlap' = "none")
    <3>1. Sole(k) /\ CopyIsTrue(k) /\ (call[k].op # "save" => overlap = "none")
      BY <2>1 DEF Texts, EditsOnly, CallOf
    <3>2. /\ call[k].pc \notin {"sent", "saved", "changed", "refused"}
          /\ t \notin call[k].todo /\ call[k].todo \subseteq Tabs
      BY <1>6, <3>1, CallParts DEF Sole
    <3>3. ASSUME NEW u \in call'[k].todo PROVE Quiet(u)'
      BY <1>2, <1>4, <3>1, <3>2 DEF Sole, Quiet, SameEvents
    <3>4. ASSUME NEW u \in Tabs
          PROVE  /\ \A i \in DOMAIN queue'[u] : /\ queue'[u][i].op = call'[k].op
                                               /\ queue'[u][i].path = call'[k].path
                 /\ \A i \in DOMAIN wire'[u] : /\ wire'[u][i].op = call'[k].op
                                              /\ wire'[u][i].path = call'[k].path
      BY <1>2, <1>4, <3>1 DEF Sole, SameEvents
    <3>5. \A u \in Tabs : ~tab'[u].timer
      BY <1>3, <3>1 DEF Sole
    <3>6. Sole(k)'
      BY <1>2, <3>1, <3>2, <3>3, <3>4, <3>5 DEF Sole
    <3> QED  BY <1>2, <1>5, <3>1, <3>6 DEF CopyIsTrue
  <2> QED  BY <1>2, <2>1 DEF Texts, EditsOnly, CallOf
<1>9. EditsOnly'
  <2>1. EditsLast(t)'
    BY <1>7 DEF EditsLast
  <2> QED  BY <1>4, <1>8, <2>1, LastKept DEF Texts, EditsOnly
<1>10. \A u \in Tabs : \A p : /\ Coming(u, p) => Coming(u, p)'
                              /\ Answering(u, p)' => Answering(u, p)
  BY <1>2, <1>3 DEF Coming, Brings, Answering, Answers, EditOf
<1>11. ASSUME NEW u \in Tabs \ missed', u # t PROVE TextOf(u)'
  BY <1>2, <1>3, <1>4, <1>5, <1>10, <1>11, TextKept DEF Texts
<1>12. ASSUME t \notin missed' PROVE TextOf(t)'
  <2>1. TextOf(t) /\ t \notin missed
    BY <1>2, <1>12 DEF Texts
  <2>2. /\ FocusKnown(t)'
        /\ \A p \in OpenPaths :
             ~Later(t, p, 1) /\ tab'[t].focus = p /\ ~tab'[t].timer =>
               tab'[t].doc = files[p].buffer
    BY <1>1, <1>6, <2>1, EventShows
  <2>3. SwitchOpen(t)' /\ ~Moved(t)'
    BY <1>7 DEF SwitchOpen, Moved, Moving
  <2>4. ASSUME NEW p, NEW i \in Nat, Later(t, p, i + 1)
        PROVE  Later(t, p, i)'
    <3>1. Queued(t, p) => Queued(t, p)'
      BY <1>4 DEF Queued
    <3>2. ASSUME Wired(t, p, i + 1) PROVE Wired(t, p, i)'
      <4>1. PICK j \in DOMAIN wire[t] : j > i + 1 /\ EditOf(wire[t][j], p)
        BY <3>2 DEF Wired
      <4>2. /\ j - 1 \in DOMAIN wire'[t] /\ j - 1 > i /\ (j - 1) + 1 = j
        BY <1>4, <4>1
      <4>3. wire'[t][j - 1] = wire[t][j]
        BY <1>4, <4>2
      <4> QED  BY <4>1, <4>2, <4>3 DEF Wired, EditOf
    <3> QED  BY <1>10, <2>4, <3>1, <3>2 DEF Later
  <2>5. ASSUME NEW p \in OpenPaths' PROVE PathOf(t, p)'
    <3>1. LastIsTrue(t, p)
      BY <1>5, <2>1, <2>5 DEF TextOf, PathOf
    <3>2. LastIsTrue(t, p)'
      <4>1. ASSUME NEW i \in DOMAIN wire'[t], Brought(wire[t][i], p)',
                   ~Later(t, p, i)'
            PROVE  wire'[t][i].file.buffer = files'[p].buffer
        <5>1. i \in Nat /\ ~Later(t, p, i + 1)
          BY <1>4, <2>4, <4>1
        <5> QED  BY <1>4, <1>5, <3>1, <4>1, <5>1 DEF LastIsTrue, Brought
      <4> QED  BY <1>7, <4>1 DEF LastIsTrue
    <3>3. ~Later(t, p, 0)' => ~Later(t, p, 1)
      <4>1. 0 \in Nat /\ 0 + 1 = 1
        OBVIOUS
      <4> QED  BY <2>4, <4>1
    <3>4. Shows(t, p)'
      BY <1>5, <2>2, <3>3 DEF Shows
    <3>5. Knows(t, p)'
      BY <2>3 DEF Knows
    <3> QED  BY <3>2, <3>4, <3>5 DEF PathOf
  <2> QED  BY <2>2, <2>3, <2>5 DEF TextOf
<1> QED  BY <1>9, <1>11, <1>12 DEF Texts

LEMMA TextStart == Init => TextInv
<1> SUFFICES ASSUME Init PROVE Texts
  BY DEF TextInv
<1>1. /\ \A t \in Tabs : tab[t] = Blank /\ queue[t] = << >> /\ wire[t] = << >>
      /\ \A k \in Calls : call[k] = Idle
  BY DEF Init
<1>2. \A t \in Tabs : Quiet(t) /\ DOMAIN queue[t] = {} /\ DOMAIN wire[t] = {}
  BY <1>1 DEF Quiet
<1>3. EditsOnly
  BY <1>1, <1>2 DEF EditsOnly, CallOf, EditsLast, Idle
<1>4. ASSUME NEW t \in Tabs PROVE TextOf(t)
  <2>1. tab[t].mode \notin Shown
    BY <1>1 DEF Blank, Shown
  <2> QED  BY <1>2, <2>1, QuietFacts DEF TextOf, FocusKnown, PathOf, Shows
<1> QED  BY <1>3, <1>4 DEF Texts

LEMMA TextStep ==
    TypeInv /\ ListenInv /\ AloneInv /\ TextInv /\ [Next]_vars => TextInv'
<1> SUFFICES ASSUME TypeInv, ListenInv, AloneInv, TextInv, [Next]_vars,
                    overlap' # "any"
             PROVE  Texts'
  BY DEF TextInv
<1>1. ASSUME NEW t \in Tabs,
             \/ FetchList(t) \/ FetchActive(t) \/ Subscribe(t) \/ Disconnect(t)
             \/ Reload(t)
      PROVE  Texts'
  <2>1. overlap' = overlap
    BY <1>1 DEF FetchList, FetchActive, Subscribe, Disconnect, Reload
  <2> QED  BY <1>1, <2>1, TextTab DEF TextInv
<1>2. ASSUME NEW t \in Tabs, NEW text \in Contents, Type(t, text)
      PROVE  Texts'
  <2>1. /\ overlap # "any"
        /\ \A k \in Calls : call[k].pc = "idle" \/ call[k].op = "edit"
    BY <1>2, NoteEdits DEF Type
  <2> QED  BY <1>2, <2>1, TextType DEF TextInv
<1>3. ASSUME NEW t \in Tabs, Push(t) PROVE Texts'
  <2>1. overlap' = overlap
    BY <1>3 DEF Push
  <2> QED  BY <1>3, <2>1, TextAsks DEF TextInv
<1>4. ASSUME NEW t \in Tabs, NEW op \in Op \ {"edit"}, NEW p \in Paths,
             Click(t, op, p)
      PROVE  Texts'
  <2>1. overlap # "any"
    BY <1>4, NoteEdits DEF Click
  <2> QED  BY <1>4, <2>1, TextAsks DEF TextInv
<1>5. ASSUME NEW t \in Tabs,
             Forward(t) \/ HandleEvent(t) \/ \E slot \in Slots : Receive(t, slot)
      PROVE  Texts'
  <2>1. overlap' = overlap
    BY <1>5 DEF Forward, HandleEvent, Receive
  <2> QED  BY <1>5, <2>1, TextForward, TextHandle, TextReceive DEF TextInv
<1>6. ASSUME NEW k \in Calls,
             \/ Serve(k) \/ Refuse(k) \/ Copy(k) \/ Publish(k) \/ Answer(k)
             \/ \E t \in Tabs : Send(k, t)
      PROVE  Texts'
  <2>1. overlap' = overlap
    BY <1>6 DEF Serve, Refuse, Copy, Publish, Answer, Send
  <2> QED  BY <1>6, <2>1, TextServe, TextCallStep, TextSend DEF TextInv
<1>7. CASE UNCHANGED vars
  <2>1. Texts
    BY <1>7 DEF vars, TextInv
  <2>2. UNCHANGED <<storeVars, tab, call, queue, wire, missed, overlap>>
    BY <1>7 DEF vars
  <2>3. /\ files' = files /\ OpenPaths' = OpenPaths
        /\ \A u \in Tabs : SameEvents(u)
    BY <2>2, StoreSame DEF SameEvents
  <2>4. EditsOnly'
    BY <2>1, <2>2, <2>3, EditsStay DEF Texts, TypeInv
  <2>5. \A u \in Tabs : \A p : /\ Coming(u, p) => Coming(u, p)'
                               /\ Answering(u, p)' => Answering(u, p)
    BY <2>2 DEF Coming, Brings, Answering, Answers, EditOf
  <2>6. \A u \in Tabs \ missed' : TextOf(u)'
    BY <2>1, <2>2, <2>3, <2>5, TextKept DEF Texts
  <2> QED  BY <2>4, <2>6 DEF Texts
<1> QED  BY <1>1, <1>2, <1>3, <1>4, <1>5, <1>6, <1>7 DEF Next

(***************************************************************************)
(* However edits of any number of tabs overlap, through channels of any    *)
(* capacity, once nothing is in flight every tab that missed no event      *)
(* shows the server's text of the file in focus.                           *)
(***************************************************************************)
THEOREM EditsMeet == Spec => []EditsConverge
<1>1. TypeInv /\ TextInv => EditsConverge
  <2> SUFFICES ASSUME TypeInv, Texts, AtRest, NEW t \in Tabs, InStep(t),
                      tab[t].focus \in OpenPaths
               PROVE  tab[t].doc = files[tab[t].focus].buffer
    BY DEF EditsConverge, TextInv, ShowsBuffer
  <2>1. PICK p \in OpenPaths : p = tab[t].focus
    OBVIOUS
  <2>2. /\ \A k \in Calls : call[k].pc = "idle" /\ call[k].todo = {}
        /\ Quiet(t) /\ ~tab[t].timer
    BY RestFacts DEF TypeInv
  <2>3. ~Later(t, p, 0)
    BY <2>2, QuietFacts DEF Coming, Brings
  <2>4. Shows(t, p) /\ tab[t].mode \in Shown
    BY DEF InStep, Texts, TextOf, PathOf, Shown
  <2> QED  BY <2>1, <2>2, <2>3, <2>4 DEF Shows
<1> QED  BY <1>1, TypeStart, TypeStep, AloneStart, ListenStep, AloneStep,
            TextStart, TextStep, PTL DEF Spec
=============================================================================
