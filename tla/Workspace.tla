----------------------------- MODULE Workspace -----------------------------
(***************************************************************************)
(* The life of the web UI server (simpanan/internal/webui/server.go): it   *)
(* is launched, restores the last session from the recovery file           *)
(* (recovery.go), serves file operations, flushes the session when it is   *)
(* told to stop, and exits; or it dies at any moment.                      *)
(*                                                                         *)
(* Requests are still served while shutdown flushes and until the process  *)
(* exits, because httpServer.Shutdown is called after the flush and then   *)
(* waits for the requests in flight.  The flush reads the active file and  *)
(* the open files under two separate locks.                                *)
(***************************************************************************)
EXTENDS BufferStore

CONSTANTS
    NoRecovery,   \* there is no recovery file
    BadRecovery,  \* it is corrupt or of another version
    NoSession     \* ghost: nothing that must come back

VARIABLES
    phase,        \* where the process is
    flushActive,  \* recoveryPayload.Active, once read
    flushFiles,   \* recoveryPayload.Files, once read
    recovery,     \* the recovery file
    session,      \* ghost: what the flush that the signal has set off must
                  \* save, unless something excuses losing it
    synced        \* ghost: paths whose file on disk is the one the store
                  \* last read or completely wrote

vars == <<files, active, disk, phase, flushActive, flushFiles, recovery,
          session, synced>>

flushVars == <<flushActive, flushFiles>>

Phase == {"down", "starting", "running",
          "stopping", "active_read", "listed", "flushed", "unflushed"}

\* Phases in which requests are handled.
Serving == phase \in Phase \ {"down", "starting"}

\* What the recovery file holds.
Session == [active : Paths \cup {NoPath}, files : FileMap]

\* Between the signal and the moment the flush lists the files: the texts of
\* each file that was neither opened nor closed, and the active file, or
\* NoSession once a file was opened, closed or switched to.
Saved == [texts : UNION {[S -> SUBSET Contents] : S \in SUBSET Paths},
          active : Paths \cup {NoPath, NoSession}]

ASSUME GhostAssumption == {NoRecovery, BadRecovery, NoSession} \cap Session = {}

TypeOK ==
    /\ StoreTypeOK
    /\ phase \in Phase
    /\ flushActive \in Paths \cup {NoPath}
    /\ flushFiles \in FileMap
    /\ recovery \in Session \cup {NoRecovery, BadRecovery}
    /\ session \in Saved \cup {NoSession}
    /\ synced \subseteq Paths

Init ==
    /\ EmptyStore
    /\ disk \in [Paths -> Contents \cup {Missing}]
    /\ phase = "down"
    /\ flushActive = NoPath
    /\ flushFiles = << >>
    /\ recovery = NoRecovery
    /\ session = NoSession
    /\ synced = {}

-----------------------------------------------------------------------------
(* Requests. *)

Unfocused(s) == [s EXCEPT !.active = NoSession]
Touched(s, p) ==
    [Unfocused(s) EXCEPT !.texts = [q \in DOMAIN @ \ {p} |-> @[q]]]
Retyped(s, p, text) ==
    IF p \in DOMAIN s.texts
    THEN [s EXCEPT !.texts[p] = @ \cup {text}] ELSE s

Listing == phase \in {"stopping", "active_read"}

\* The ghost follows requests until the flush lists the files.
Follow(s) ==
    session' = IF Listing /\ session # NoSession THEN s ELSE session

Request ==
    /\ Serving
    /\ \E p \in Paths :
         \/ Open(p) /\ synced' = synced \cup {p} /\ Follow(Touched(session, p))
         \/ Close(p) /\ UNCHANGED synced /\ Follow(Touched(session, p))
         \/ SwitchActive(p) /\ UNCHANGED synced /\ Follow(Unfocused(session))
         \/ \E text \in Contents :
                /\ Edit(p, text) /\ UNCHANGED synced
                /\ Follow(Retyped(session, p, text))
         \/ Save(p) /\ synced' = synced \cup {p} /\ UNCHANGED session
         \/ SaveFails(p) /\ synced' = synced \ {p} /\ UNCHANGED session
    /\ UNCHANGED <<phase, flushVars, recovery>>

-----------------------------------------------------------------------------
(* Launch and restore. *)

\* The port is bound; a second instance would be refused here.
Launch ==
    /\ phase = "down"
    /\ phase' = "starting"
    /\ UNCHANGED <<storeVars, flushVars, recovery, session, synced>>

\* Mutant: a file that is gone is not told apart.
RestoredBlindly(f, text, readable) ==
    Recompute([f EXCEPT !.disk = IF readable THEN text ELSE f.disk])

\* Mutant: the disk contents are those of the last session.
RestoredOnTrust(f, text, readable) == Recompute(f)

\* What LoadRecovery makes of a saved file whose disk copy is now text.
\* An unreadable file keeps the disk contents that were saved.
Restored(f, text, readable) ==
    Recompute([f EXCEPT !.disk = IF ~readable THEN f.disk
                                ELSE IF text = Missing THEN Empty ELSE text])

\* Mutant: the recorded active file is taken as it is.
RestoreActiveAsIs(readable) ==
    /\ files' = [p \in DOMAIN recovery.files |->
                   Restored(recovery.files[p], disk[p], p \in readable)]
    /\ active' = recovery.active

\* The files come back with their buffers; the active one if it is there.
RestoreFiles(readable) ==
    /\ files' = [p \in DOMAIN recovery.files |->
                   Restored(recovery.files[p], disk[p], p \in readable)]
    /\ active' = IF recovery.active \in DOMAIN recovery.files
                 THEN recovery.active ELSE NoPath

\* LoadRecovery, then the server reports itself running.
Restore ==
    /\ phase = "starting"
    /\ phase' = "running"
    /\ \E readable \in SUBSET Paths :
         IF recovery \in {NoRecovery, BadRecovery}
         THEN UNCHANGED <<files, active>> /\ synced' = {}
         ELSE /\ RestoreFiles(readable)
              /\ synced' = {p \in readable : disk[p] # Missing}
    /\ session' = NoSession
    /\ UNCHANGED <<disk, flushVars, recovery>>

-----------------------------------------------------------------------------
(* Shutdown. *)

\* SIGINT or SIGTERM reaches Start's select.
Signal ==
    /\ phase = "running"
    /\ phase' = "stopping"
    /\ session' = [texts |-> [p \in OpenPaths |-> {files[p].buffer}],
                   active |-> active]
    /\ UNCHANGED <<storeVars, flushVars, recovery, synced>>

\* FlushRecovery evaluates s.Active() ...
FlushActive ==
    /\ phase = "stopping"
    /\ phase' = "active_read"
    /\ flushActive' = active
    /\ UNCHANGED <<storeVars, flushFiles, recovery, session, synced>>

\* Mutant: only modified files are worth saving.
FlushListModified ==
    /\ phase = "active_read"
    /\ phase' = "listed"
    /\ LET modified == {p \in OpenPaths : files[p].status = "modified"}
       IN  flushFiles' = [p \in modified |-> files[p]]
    /\ UNCHANGED <<storeVars, flushActive, recovery, session, synced>>

\* ... and then s.List().
FlushList ==
    /\ phase = "active_read"
    /\ phase' = "listed"
    /\ flushFiles' = files
    /\ UNCHANGED <<storeVars, flushActive, recovery, session, synced>>

\* The temporary file replaces the recovery file.
FlushRename ==
    /\ phase = "listed"
    /\ phase' = "flushed"
    /\ recovery' = [active |-> flushActive, files |-> flushFiles]
    /\ flushActive' = NoPath /\ flushFiles' = << >>
    /\ UNCHANGED <<storeVars, session, synced>>

\* Any step of the flush fails: a warning, and the old file stays.
FlushFails ==
    /\ phase \in {"stopping", "listed"}
    /\ phase' = "unflushed"
    /\ flushActive' = NoPath /\ flushFiles' = << >>
    /\ session' = NoSession
    /\ UNCHANGED <<storeVars, recovery, synced>>

\* The memory of the process is gone.
Forget ==
    /\ phase' = "down"
    /\ files' = << >>
    /\ active' = NoPath
    /\ flushActive' = NoPath
    /\ flushFiles' = << >>
    /\ synced' = {}
    /\ UNCHANGED <<disk, recovery>>

\* httpServer.Shutdown has returned, or its five seconds are over.
Exit ==
    /\ phase \in {"flushed", "unflushed"}
    /\ Forget
    /\ UNCHANGED session

\* SIGKILL, a panic, a signal before signal.Notify, a lost machine.
Crash ==
    /\ phase # "down"
    /\ Forget
    /\ session' = IF phase = "flushed" THEN session ELSE NoSession

-----------------------------------------------------------------------------
(* The world outside the server. *)

External ==
    /\ \E p \in Paths, text \in Contents \cup {Missing} :
         ExternalWrite(p, text) /\ synced' = synced \ {p}
    /\ UNCHANGED <<phase, flushVars, recovery, session>>

\* While the server is down the recovery file is damaged or replaced.
Damage ==
    /\ phase = "down"
    /\ recovery \notin {NoRecovery, BadRecovery}
    /\ recovery' = BadRecovery
    /\ session' = NoSession
    /\ UNCHANGED <<storeVars, phase, flushVars, synced>>

-----------------------------------------------------------------------------
Next ==
    \/ Request
    \/ Launch \/ Restore \/ Signal
    \/ FlushActive \/ FlushList \/ FlushRename \/ FlushFails
    \/ Exit \/ Crash
    \/ External \/ Damage

Spec == Init /\ [][Next]_vars

-----------------------------------------------------------------------------
(* Properties *)

(***************************************************************************)
(* A file marked clean can be closed without loss: its buffer is what the  *)
(* file on disk holds, unless the file changed behind the server's back or *)
(* a save of it failed half-way.                                           *)
(***************************************************************************)
CleanIsOnDisk ==
    \A p \in OpenPaths \cap synced :
        files[p].status = "clean" => disk[p] = files[p].buffer

(***************************************************************************)
(* What a flush that succeeded has saved comes back with the next launch,  *)
(* whatever happened to the .simp files, and although requests are served  *)
(* while it flushes: every file that was open when the signal came and was *)
(* not opened or closed before the flush listed the files, with a text     *)
(* that it has had in between; and no other file, and the active file, if  *)
(* nothing was opened, closed or switched to.  A request that the flush    *)
(* overtakes is lost by itself.                                            *)
(***************************************************************************)
SessionSurvivesRestart ==
    [][Restore /\ session # NoSession =>
         /\ \A p \in DOMAIN session.texts :
                p \in OpenPaths' /\ files'[p].buffer \in session.texts[p]
         /\ session.active # NoSession =>
                OpenPaths' = DOMAIN session.texts /\ active' = session.active
      ]_vars

-----------------------------------------------------------------------------
(* A promise of a comment that the code does not keep.                     *)

\* "the buffer state stays in the server's recovery file until shutdown":
\* closing a modified file leaves its buffer in the recovery file.
ClosedBufferIsKept ==
    [][\A p \in OpenPaths \ OpenPaths' :
         Serving' /\ files[p].status = "modified" =>
           /\ recovery \notin {NoRecovery, BadRecovery}
           /\ p \in DOMAIN recovery.files
           /\ recovery.files[p].buffer = files[p].buffer
      ]_vars

=============================================================================
