---------------------------- MODULE BufferStore ----------------------------
(***************************************************************************)
(* The registry of open files of the web UI server                         *)
(* (simpanan/internal/webui/openfile.go) and the .simp files on disk.      *)
(*                                                                         *)
(* Every operation runs under the store's lock, the disk access included,  *)
(* so each is one action; the disk can still change between operations,    *)
(* by hands outside the server.  An operation the code refuses changes     *)
(* nothing, so its guard is the negation of the errors it returns.  The    *)
(* cursor offset, kept and returned with the text, is left out.            *)
(***************************************************************************)
EXTENDS Naturals, FiniteSets

CONSTANTS
    Paths,      \* paths that end in .simp; validatePath refuses the others
    NoPath,     \* the empty path
    Contents,   \* texts of files and buffers
    Empty,      \* the empty text
    Missing     \* on disk: no file at this path

ASSUME PathAssumption == NoPath \notin Paths
ASSUME ContentsAssumption == Empty \in Contents /\ Missing \notin Contents

VARIABLES
    files,      \* BufferStore.files: open paths to OpenFile records
    active,     \* BufferStore.active
    disk        \* the file system

storeVars == <<files, active, disk>>

OpenFile == [disk : Contents, buffer : Contents, status : {"clean", "modified"}]

\* The open files of a store, and of the session that a flush saves.
FileMap == UNION {[S -> OpenFile] : S \in SUBSET Paths}

StoreTypeOK ==
    /\ files \in FileMap
    /\ active \in Paths \cup {NoPath}
    /\ disk \in [Paths -> Contents \cup {Missing}]

OpenPaths == DOMAIN files

\* Mutant: the status is left as it was.
StaleRecompute(f) == f

\* The status says whether the buffer has diverged from the disk contents.
Recompute(f) ==
    [f EXCEPT !.status = IF f.disk = f.buffer THEN "clean" ELSE "modified"]

\* An OpenFile that was just read from disk.
FreshFile(text) == [disk |-> text, buffer |-> text, status |-> "clean"]

\* The record after an edit, and after its buffer was written to disk.
Edited(f, text) == Recompute([f EXCEPT !.buffer = text])
Written(f) == Recompute([f EXCEPT !.disk = f.buffer])

\* The map with p bound to f.
Put(p, f) ==
    [q \in OpenPaths \cup {p} |-> IF q = p THEN f ELSE files[q]]

\* The map without p.
Delete(p) == [q \in OpenPaths \ {p} |-> files[q]]

\* An empty process: nothing is open.
EmptyStore == files = << >> /\ active = NoPath

Open(p) ==
    /\ p \notin OpenPaths
    /\ disk[p] # Missing
    /\ files' = Put(p, FreshFile(disk[p]))
    /\ active' = IF active = NoPath THEN p ELSE active
    /\ UNCHANGED disk

\* Closing the active file promotes any other one, in map iteration order.
Close(p) ==
    /\ p \in OpenPaths
    /\ files' = Delete(p)
    /\ IF active # p THEN active' = active
       ELSE IF OpenPaths = {p} THEN active' = NoPath
       ELSE active' \in OpenPaths \ {p}
    /\ UNCHANGED disk

Edit(p, text) ==
    /\ p \in OpenPaths
    /\ files' = [files EXCEPT ![p] = Edited(@, text)]
    /\ UNCHANGED <<active, disk>>

Save(p) ==
    /\ p \in OpenPaths
    /\ disk' = [disk EXCEPT ![p] = files[p].buffer]
    /\ files' = [files EXCEPT ![p] = Written(@)]
    /\ UNCHANGED active

\* os.WriteFile fails, before or after it has truncated the file; the
\* store keeps what it had.
SaveFails(p) ==
    /\ p \in OpenPaths
    /\ disk' \in {disk, [disk EXCEPT ![p] = Empty]}
    /\ UNCHANGED <<files, active>>

SwitchActive(p) ==
    /\ p \in OpenPaths
    /\ active' = p
    /\ UNCHANGED <<files, disk>>

\* Someone else creates, edits or removes the file.
ExternalWrite(p, text) ==
    /\ disk[p] # text
    /\ disk' = [disk EXCEPT ![p] = text]
    /\ UNCHANGED <<files, active>>

-----------------------------------------------------------------------------
(***************************************************************************)
(* If the server has an active file, it is one of the open files: across   *)
(* Close, and across a flush that reads the two under separate locks.      *)
(***************************************************************************)
ActiveFileIsOpen == active = NoPath \/ active \in OpenPaths

\* A file is marked clean exactly when its buffer equals its disk contents.
ModifiedReflectsDivergence ==
    \A p \in OpenPaths :
        files[p].status = "clean" <=> files[p].buffer = files[p].disk

=============================================================================
