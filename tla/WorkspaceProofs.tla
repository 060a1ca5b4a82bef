-------------------------- MODULE WorkspaceProofs --------------------------
(***************************************************************************)
(* Proofs about the server's workspace, for any sets of paths and texts:   *)
(* the types, that the active file is open, that the status of a file says *)
(* whether its buffer diverged, and that a clean file is on disk.          *)
(***************************************************************************)
EXTENDS Workspace, TLAPS

\* A file map is a function on some of the paths to file records.
LEMMA FileMapMember ==
    ASSUME NEW f
    PROVE  f \in FileMap <=> DOMAIN f \subseteq Paths /\ f \in [DOMAIN f -> OpenFile]
<1>1. ASSUME f \in FileMap
      PROVE  DOMAIN f \subseteq Paths /\ f \in [DOMAIN f -> OpenFile]
  <2>1. PICK S \in SUBSET Paths : f \in [S -> OpenFile]
    BY <1>1 DEF FileMap
  <2>2. DOMAIN f = S
    BY <2>1
  <2> QED
    BY <2>1, <2>2
<1>2. ASSUME DOMAIN f \subseteq Paths, f \in [DOMAIN f -> OpenFile]
      PROVE  f \in FileMap
  BY <1>2 DEF FileMap
<1> QED
  BY <1>1, <1>2

\* The process starts with no open file.
LEMMA EmptyFileMap == << >> \in FileMap /\ DOMAIN << >> = {}
<1>1. DOMAIN << >> = {}
  OBVIOUS
<1>2. << >> \in [{} -> OpenFile]
  OBVIOUS
<1> QED
  BY <1>1, <1>2, FileMapMember

\* The records that Open, Edit and Save make are well-formed, and their
\* status tells the truth.
LEMMA RecordFacts ==
    ASSUME NEW f \in OpenFile, NEW text \in Contents
    PROVE  /\ FreshFile(text) \in OpenFile
           /\ FreshFile(text) = [disk |-> text, buffer |-> text, status |-> "clean"]
           /\ Edited(f, text) \in OpenFile
           /\ Edited(f, text).status = "clean" <=> Edited(f, text).buffer = f.disk
           /\ Edited(f, text).disk = f.disk
           /\ Written(f) \in OpenFile
           /\ Written(f).status = "clean"
           /\ Written(f).buffer = f.buffer
           /\ Written(f).disk = f.buffer
BY DEF FreshFile, Edited, Written, Recompute, OpenFile

\* So are those that LoadRecovery makes; they keep the saved buffer.
LEMMA RestoredFacts ==
    ASSUME NEW f \in OpenFile, NEW text \in Contents \cup {Missing},
           NEW readable \in BOOLEAN
    PROVE  LET g == Restored(f, text, readable)
           IN  /\ g \in OpenFile
               /\ g.status = "clean" <=> g.buffer = g.disk
               /\ g.buffer = f.buffer
               /\ readable /\ text # Missing => g.disk = text
<1> DEFINE d == IF ~readable THEN f.disk
                ELSE IF text = Missing THEN Empty ELSE text
<1>1. d \in Contents /\ (readable /\ text # Missing => d = text)
  BY ContentsAssumption DEF OpenFile
<1>2. [f EXCEPT !.disk = d] = [disk |-> d, buffer |-> f.buffer, status |-> f.status]
  BY DEF OpenFile
<1>3. Restored(f, text, readable) = Recompute([f EXCEPT !.disk = d])
  BY DEF Restored
<1> HIDE DEF d
<1>4. f.buffer \in Contents /\ f.status \in {"clean", "modified"}
  BY DEF OpenFile
<1> DEFINE g == Recompute([disk |-> d, buffer |-> f.buffer, status |-> f.status])
<1>5. /\ g \in OpenFile
      /\ g.disk = d /\ g.buffer = f.buffer
      /\ g.status = "clean" <=> g.buffer = g.disk
  BY <1>1, <1>4 DEF Recompute, OpenFile
<1>6. Restored(f, text, readable) = g
  BY <1>2, <1>3
<1> HIDE DEF g
<1> QED
  BY <1>1, <1>5, <1>6

-----------------------------------------------------------------------------
(***************************************************************************)
(* The store's invariant.  That a clean file is on disk needs more than it *)
(* says: whatever its status, the disk contents the store remembers are    *)
(* those on disk while nobody else has touched them.                       *)
(***************************************************************************)
MemoryMatchesDisk ==
    \A p \in OpenPaths \cap synced : files[p].disk = disk[p]

StoreInv == /\ StoreTypeOK
            /\ synced \subseteq Paths
            /\ ActiveFileIsOpen
            /\ ModifiedReflectsDivergence
            /\ MemoryMatchesDisk

\* The operations on the store that a request can make, with the ghost.
Operation(p) ==
    \/ (Open(p) \/ Save(p)) /\ synced' = synced \cup {p}
    \/ SaveFails(p) /\ synced' = synced \ {p}
    \/ (Close(p) \/ SwitchActive(p)) /\ UNCHANGED synced
    \/ (\E text \in Contents : Edit(p, text)) /\ UNCHANGED synced

LEMMA OpenKeeps ==
    ASSUME StoreInv, NEW p \in Paths, Open(p), synced' = synced \cup {p}
    PROVE  StoreInv'
<1> USE DEF StoreInv, StoreTypeOK
<1>1. disk[p] \in Contents
  BY DEF Open
<1>2. DOMAIN files \subseteq Paths /\ files \in [DOMAIN files -> OpenFile]
  BY FileMapMember
<1> DEFINE f == FreshFile(disk[p])
<1>3. /\ f \in OpenFile
      /\ f.status = "clean"
      /\ f.buffer = disk[p]
      /\ f.disk = disk[p]
  BY <1>1 DEF FreshFile, OpenFile
<1>4. files' = [q \in OpenPaths \cup {p} |-> IF q = p THEN f ELSE files[q]]
  BY DEF Open, Put
<1> HIDE DEF f
<1>5. DOMAIN files' = OpenPaths \cup {p} /\ files' \in [DOMAIN files' -> OpenFile]
  BY <1>2, <1>3, <1>4 DEF OpenPaths
<1>6. files' \in FileMap
  BY <1>2, <1>5, FileMapMember DEF OpenPaths
<1>7. /\ active' \in OpenPaths' /\ active' \in Paths \cup {NoPath}
      /\ disk' = disk
  BY <1>5 DEF Open, OpenPaths, ActiveFileIsOpen
<1>8. ModifiedReflectsDivergence' /\ MemoryMatchesDisk'
  BY <1>3, <1>4, <1>5, <1>7
     DEF ModifiedReflectsDivergence, MemoryMatchesDisk, OpenPaths
<1> QED
  BY <1>6, <1>7, <1>8 DEF ActiveFileIsOpen

LEMMA CloseKeeps ==
    ASSUME StoreInv, NEW p \in Paths, Close(p), synced' = synced
    PROVE  StoreInv'
<1> USE DEF StoreInv, StoreTypeOK
<1>1. DOMAIN files \subseteq Paths /\ files \in [DOMAIN files -> OpenFile]
  BY FileMapMember
<1>2. files' = [q \in OpenPaths \ {p} |-> files[q]]
  BY DEF Close, Delete
<1>3. DOMAIN files' = OpenPaths \ {p} /\ files' \in [DOMAIN files' -> OpenFile]
  BY <1>1, <1>2 DEF OpenPaths
<1>4. files' \in FileMap
  BY <1>1, <1>3, FileMapMember DEF OpenPaths
<1>5. ActiveFileIsOpen' /\ active' \in Paths \cup {NoPath} /\ disk' = disk
  BY <1>1, <1>3 DEF Close, OpenPaths, ActiveFileIsOpen
<1>6. ModifiedReflectsDivergence' /\ MemoryMatchesDisk'
  BY <1>2, <1>3, <1>5
     DEF ModifiedReflectsDivergence, MemoryMatchesDisk, OpenPaths
<1> QED
  BY <1>4, <1>5, <1>6

\* Edit and Save rebind one open path to a record f.
LEMMA RebindKeeps ==
    ASSUME StoreInv, NEW p \in OpenPaths, NEW f \in OpenFile,
           f.status = "clean" <=> f.buffer = f.disk,
           files' = [files EXCEPT ![p] = f],
           active' = active, disk' \in [Paths -> Contents \cup {Missing}],
           \A q \in Paths \ {p} : disk'[q] = disk[q],
           synced' \in SUBSET Paths,
           synced' \subseteq synced \cup {p},
           p \in synced' => f.disk = disk'[p]
    PROVE  StoreInv'
<1> USE DEF StoreInv, StoreTypeOK
<1>1. DOMAIN files \subseteq Paths /\ files \in [DOMAIN files -> OpenFile]
  BY FileMapMember
<1>2. DOMAIN files' = OpenPaths /\ files' \in [DOMAIN files' -> OpenFile]
  BY <1>1 DEF OpenPaths
<1>3. files' \in FileMap
  BY <1>1, <1>2, FileMapMember DEF OpenPaths
<1>4. ActiveFileIsOpen'
  BY <1>2 DEF ActiveFileIsOpen, OpenPaths
<1>5. ModifiedReflectsDivergence'
  BY <1>1, <1>2 DEF ModifiedReflectsDivergence, OpenPaths
<1>6. MemoryMatchesDisk'
  BY <1>1, <1>2 DEF MemoryMatchesDisk, OpenPaths
<1> QED
  BY <1>3, <1>4, <1>5, <1>6

\* Every operation a request makes keeps the store's invariant.
LEMMA OperationKeeps ==
    ASSUME StoreInv, NEW p \in Paths, Operation(p)
    PROVE  StoreInv'
<1>1. CASE Open(p) /\ synced' = synced \cup {p}
  BY <1>1, OpenKeeps
<1>2. CASE Save(p) /\ synced' = synced \cup {p}
  <2>1. p \in OpenPaths /\ files[p] \in OpenFile
    BY <1>2, FileMapMember DEF Save, StoreInv, StoreTypeOK, OpenPaths
  <2>2. files[p].buffer \in Contents
    BY <2>1 DEF OpenFile
  <2>3. /\ Written(files[p]) \in OpenFile
        /\ Written(files[p]).status = "clean"
        /\ Written(files[p]).buffer = Written(files[p]).disk
        /\ Written(files[p]).disk = files[p].buffer
    BY <2>1, RecordFacts, ContentsAssumption
  <2>4. /\ files' = [files EXCEPT ![p] = Written(files[p])]
        /\ disk' = [disk EXCEPT ![p] = files[p].buffer]
        /\ active' = active
    BY <1>2 DEF Save
  <2>5. /\ disk' \in [Paths -> Contents \cup {Missing}]
        /\ disk'[p] = files[p].buffer
        /\ \A q \in Paths \ {p} : disk'[q] = disk[q]
    BY <2>2, <2>4 DEF StoreInv, StoreTypeOK
  <2>6. synced' \in SUBSET Paths
    BY <1>2 DEF StoreInv
  <2> QED
    BY <1>2, <2>1, <2>3, <2>4, <2>5, <2>6, RebindKeeps
<1>3. CASE SaveFails(p) /\ synced' = synced \ {p}
  BY <1>3, ContentsAssumption
     DEF SaveFails, StoreInv, StoreTypeOK, ActiveFileIsOpen,
         ModifiedReflectsDivergence, MemoryMatchesDisk, OpenPaths
<1>4. CASE Close(p) /\ UNCHANGED synced
  BY <1>4, CloseKeeps
<1>5. CASE SwitchActive(p) /\ UNCHANGED synced
  BY <1>5
     DEF SwitchActive, StoreInv, StoreTypeOK, ActiveFileIsOpen,
         ModifiedReflectsDivergence, MemoryMatchesDisk, OpenPaths
<1>6. ASSUME NEW text \in Contents, Edit(p, text), UNCHANGED synced
      PROVE  StoreInv'
  <2>1. p \in OpenPaths /\ files[p] \in OpenFile
    BY <1>6, FileMapMember DEF Edit, StoreInv, StoreTypeOK, OpenPaths
  <2>2. /\ Edited(files[p], text) \in OpenFile
        /\ Edited(files[p], text).disk = files[p].disk
        /\ Edited(files[p], text).status = "clean"
             <=> Edited(files[p], text).buffer = Edited(files[p], text).disk
    BY <2>1, RecordFacts
  <2>3. /\ files' = [files EXCEPT ![p] = Edited(files[p], text)]
        /\ active' = active
        /\ disk' = disk
    BY <1>6 DEF Edit
  <2>4. p \in synced' => Edited(files[p], text).disk = disk'[p]
    BY <1>6, <2>1, <2>2, <2>3 DEF StoreInv, MemoryMatchesDisk
  <2>5. /\ disk' \in [Paths -> Contents \cup {Missing}]
        /\ \A q \in Paths \ {p} : disk'[q] = disk[q]
        /\ synced' \in SUBSET Paths
    BY <1>6, <2>3 DEF StoreInv, StoreTypeOK
  <2> QED
    BY <1>6, <2>1, <2>2, <2>3, <2>4, <2>5, RebindKeeps
<1> QED
  BY <1>1, <1>2, <1>3, <1>4, <1>5, <1>6 DEF Operation

\* So does a restore, from whatever session the recovery file holds.
LEMMA RestoreKeeps ==
    ASSUME StoreTypeOK, NEW readable \in SUBSET Paths, RestoreFiles(readable),
           recovery \in Session, disk' = disk,
           synced' = {p \in readable : disk[p] # Missing}
    PROVE  StoreInv'
<1>1. /\ DOMAIN recovery.files \subseteq Paths
      /\ recovery.files \in [DOMAIN recovery.files -> OpenFile]
      /\ recovery.active \in Paths \cup {NoPath}
  BY FileMapMember DEF Session
<1> DEFINE g(p) == Restored(recovery.files[p], disk[p], p \in readable)
<1>2. ASSUME NEW p \in DOMAIN recovery.files
      PROVE  /\ g(p) \in OpenFile
             /\ g(p).status = "clean" <=> g(p).buffer = g(p).disk
             /\ p \in synced' => g(p).disk = disk[p]
  <2>1. /\ recovery.files[p] \in OpenFile
        /\ disk[p] \in Contents \cup {Missing}
        /\ (p \in readable) \in BOOLEAN
    BY <1>1 DEF StoreTypeOK
  <2> QED
    BY <2>1, RestoredFacts
<1>3. files' = [p \in DOMAIN recovery.files |-> g(p)]
  BY DEF RestoreFiles
<1> HIDE DEF g
<1>4. DOMAIN files' = DOMAIN recovery.files /\ files' \in [DOMAIN files' -> OpenFile]
  BY <1>2, <1>3
<1>5. files' \in FileMap
  BY <1>1, <1>4, FileMapMember
<1>6. ActiveFileIsOpen' /\ active' \in Paths \cup {NoPath}
  BY <1>1, <1>4 DEF RestoreFiles, ActiveFileIsOpen, OpenPaths
<1>7. ModifiedReflectsDivergence' /\ MemoryMatchesDisk'
  BY <1>2, <1>3, <1>4 DEF ModifiedReflectsDivergence, MemoryMatchesDisk, OpenPaths
<1> QED
  BY <1>5, <1>6, <1>7 DEF StoreInv, StoreTypeOK

-----------------------------------------------------------------------------
\* The ghost is made of the texts of some paths and a focus.
LEMMA SavedMember ==
    ASSUME NEW s
    PROVE  s \in Saved <=>
             /\ s = [texts |-> s.texts, active |-> s.active]
             /\ DOMAIN s.texts \subseteq Paths
             /\ s.texts \in [DOMAIN s.texts -> SUBSET Contents]
             /\ s.active \in Paths \cup {NoPath, NoSession}
<1> DEFINE T == UNION {[S -> SUBSET Contents] : S \in SUBSET Paths}
<1>1. \A t : t \in T <=> DOMAIN t \subseteq Paths
                            /\ t \in [DOMAIN t -> SUBSET Contents]
  <2>1. ASSUME NEW t \in T
        PROVE  DOMAIN t \subseteq Paths /\ t \in [DOMAIN t -> SUBSET Contents]
    <3>1. PICK S \in SUBSET Paths : t \in [S -> SUBSET Contents]
      OBVIOUS
    <3> QED
      BY <3>1
  <2> QED
    BY <2>1
<1>2. s \in Saved <=>
        /\ s = [texts |-> s.texts, active |-> s.active]
        /\ s.texts \in T
        /\ s.active \in Paths \cup {NoPath, NoSession}
  BY DEF Saved
<1> QED
  BY <1>1, <1>2

\* What requests make of the ghost.
LEMMA FollowFacts ==
    ASSUME NEW s \in Saved, NEW p, NEW text \in Contents
    PROVE  /\ Unfocused(s) = [texts |-> s.texts, active |-> NoSession]
           /\ Unfocused(s) \in Saved
           /\ Touched(s, p) =
                [texts |-> [q \in DOMAIN s.texts \ {p} |-> s.texts[q]],
                 active |-> NoSession]
           /\ Touched(s, p) \in Saved
           /\ p \notin DOMAIN s.texts => Retyped(s, p, text) = s
           /\ Retyped(s, p, text) \in Saved
<1>1. /\ s = [texts |-> s.texts, active |-> s.active]
      /\ DOMAIN s.texts \subseteq Paths
      /\ s.texts \in [DOMAIN s.texts -> SUBSET Contents]
      /\ s.active \in Paths \cup {NoPath, NoSession}
  BY SavedMember
<1>2. Unfocused(s) = [texts |-> s.texts, active |-> NoSession]
  BY <1>1 DEF Unfocused
<1>3. Unfocused(s) \in Saved
  BY <1>1, <1>2, SavedMember
<1> DEFINE less == [q \in DOMAIN s.texts \ {p} |-> s.texts[q]]
<1>4. Touched(s, p) = [texts |-> less, active |-> NoSession]
  BY <1>2 DEF Touched
<1>5. Touched(s, p) \in Saved
  <2>1. DOMAIN less \subseteq Paths /\ less \in [DOMAIN less -> SUBSET Contents]
    BY <1>1
  <2> QED
    BY <1>4, <2>1, SavedMember
<1>6. p \notin DOMAIN s.texts => Retyped(s, p, text) = s
  BY DEF Retyped
<1> DEFINE more == [s.texts EXCEPT ![p] = @ \cup {text}]
<1>7. p \in DOMAIN s.texts =>
        Retyped(s, p, text) = [texts |-> more, active |-> s.active]
  BY <1>1 DEF Retyped
<1>8. Retyped(s, p, text) \in Saved
  <2>1. CASE p \notin DOMAIN s.texts
    BY <1>6, <2>1
  <2>2. CASE p \in DOMAIN s.texts
    <3>1. /\ DOMAIN more = DOMAIN s.texts
          /\ more \in [DOMAIN s.texts -> SUBSET Contents]
      BY <1>1, <2>2
    <3> QED
      BY <1>1, <1>7, <2>2, <3>1, SavedMember
  <2> QED
    BY <2>1, <2>2
<1> QED
  BY <1>2, <1>3, <1>4, <1>5, <1>6, <1>8

\* What TypeOK says of the variables that are not the store's.
ProcessTypeOK ==
    /\ phase \in Phase
    /\ flushActive \in Paths \cup {NoPath}
    /\ flushFiles \in FileMap
    /\ recovery \in Session \cup {NoRecovery, BadRecovery}
    /\ session \in Saved \cup {NoSession}

\* The inductive invariant: the store's, and the types of the rest.
WorkspaceInv == StoreInv /\ ProcessTypeOK

\* A dead process has an empty store, whatever is on disk.
LEMMA ForgetKeeps ==
    ASSUME WorkspaceInv, Forget, session' \in Saved \cup {NoSession}
    PROVE  WorkspaceInv'
<1>1. StoreInv'
  BY EmptyFileMap
     DEF WorkspaceInv, Forget, StoreInv, StoreTypeOK, ActiveFileIsOpen,
         ModifiedReflectsDivergence, MemoryMatchesDisk, OpenPaths
<1>2. ProcessTypeOK'
  BY EmptyFileMap DEF WorkspaceInv, Forget, ProcessTypeOK, Phase
<1> QED
  BY <1>1, <1>2 DEF WorkspaceInv

LEMMA GhostKeepsType ==
    ASSUME Request, session \in Saved \cup {NoSession}
    PROVE  session' \in Saved \cup {NoSession}
<1>1. PICK p \in Paths :
        \/ session' = session
        \/ Follow(Touched(session, p))
        \/ Follow(Unfocused(session))
        \/ \E text \in Contents : Follow(Retyped(session, p, text))
  BY DEF Request
<1>2. CASE session = NoSession
  BY <1>1, <1>2 DEF Follow
<1>3. CASE session \in Saved
  <2>1. Touched(session, p) \in Saved /\ Unfocused(session) \in Saved
    BY <1>3, FollowFacts, ContentsAssumption
  <2>2. \A text \in Contents : Retyped(session, p, text) \in Saved
    BY <1>3, FollowFacts
  <2> QED
    BY <1>1, <1>3, <2>1, <2>2 DEF Follow
<1> QED
  BY <1>2, <1>3

\* A text typed into a file that must be saved becomes one of its texts.
LEMMA RetypedFacts ==
    ASSUME NEW s \in Saved, NEW p, NEW text \in Contents,
           p \in DOMAIN s.texts
    PROVE  /\ DOMAIN Retyped(s, p, text).texts = DOMAIN s.texts
           /\ Retyped(s, p, text).active = s.active
           /\ \A q \in DOMAIN s.texts \ {p} :
                 Retyped(s, p, text).texts[q] = s.texts[q]
           /\ text \in Retyped(s, p, text).texts[p]
<1>1. Retyped(s, p, text) =
        [texts |-> [s.texts EXCEPT ![p] = @ \cup {text}],
         active |-> s.active]
  <2>1. s = [texts |-> s.texts, active |-> s.active]
    BY SavedMember
  <2> QED
    BY <2>1 DEF Retyped
<1> QED
  BY <1>1, SavedMember

\* What must be saved is well-formed when the signal comes.
LEMMA SignalSaves == ASSUME WorkspaceInv, Signal PROVE session' \in Saved
<1> DEFINE now == [p \in OpenPaths |-> {files[p].buffer}]
<1>1. /\ OpenPaths \subseteq Paths
      /\ files \in [OpenPaths -> OpenFile]
  BY FileMapMember DEF WorkspaceInv, StoreInv, StoreTypeOK, OpenPaths
<1>2. DOMAIN now = OpenPaths /\ now \in [OpenPaths -> SUBSET Contents]
  BY <1>1 DEF OpenFile
<1>3. session' = [texts |-> now, active |-> active]
  BY DEF Signal
<1>4. active \in Paths \cup {NoPath, NoSession}
  BY DEF WorkspaceInv, StoreInv, StoreTypeOK
<1> QED
  BY <1>1, <1>2, <1>3, <1>4, SavedMember

\* Types, ActiveFileIsOpen, ModifiedReflectsDivergence and the agreement of
\* memory and disk hold in every reachable state.
LEMMA WorkspaceInvariant == Spec => []WorkspaceInv
<1>1. Init => WorkspaceInv
  BY EmptyFileMap
     DEF Init, EmptyStore, WorkspaceInv, ProcessTypeOK, Phase, StoreInv, StoreTypeOK,
         ActiveFileIsOpen, ModifiedReflectsDivergence, MemoryMatchesDisk,
         OpenPaths
<1>2. WorkspaceInv /\ [Next]_vars => WorkspaceInv'
  <2> SUFFICES ASSUME WorkspaceInv, [Next]_vars
               PROVE  WorkspaceInv'
    OBVIOUS
  <2>1. CASE Request
    <3>1. PICK p \in Paths : Operation(p)
      BY <2>1 DEF Request, Operation
    <3>2. StoreInv'
      BY <3>1, OperationKeeps DEF WorkspaceInv
    <3>3. session' \in Saved \cup {NoSession}
      BY <2>1, GhostKeepsType DEF WorkspaceInv, ProcessTypeOK
    <3>4. ProcessTypeOK'
      BY <2>1, <3>3 DEF Request, flushVars, WorkspaceInv, ProcessTypeOK
    <3> QED
      BY <3>2, <3>4 DEF WorkspaceInv
  <2>2. CASE Restore
    <3>1. PICK readable \in SUBSET Paths :
            IF recovery \in {NoRecovery, BadRecovery}
            THEN UNCHANGED <<files, active>> /\ synced' = {}
            ELSE /\ RestoreFiles(readable)
                 /\ synced' = {p \in readable : disk[p] # Missing}
      BY <2>2 DEF Restore
    <3>2. ASSUME recovery \in {NoRecovery, BadRecovery}
          PROVE  StoreInv'
      BY <2>2, <3>1, <3>2
         DEF Restore, WorkspaceInv, StoreInv, StoreTypeOK, ActiveFileIsOpen,
             ModifiedReflectsDivergence, MemoryMatchesDisk, OpenPaths
    <3>3. ASSUME recovery \notin {NoRecovery, BadRecovery}
          PROVE  StoreInv'
      BY <2>2, <3>1, <3>3, RestoreKeeps
         DEF Restore, WorkspaceInv, StoreInv, ProcessTypeOK
    <3>4. ProcessTypeOK'
      BY <2>2
         DEF Restore, Phase, flushVars, WorkspaceInv, ProcessTypeOK
    <3> QED
      BY <3>2, <3>3, <3>4 DEF WorkspaceInv
  <2>3. CASE External
    <3>1. PICK p \in Paths, text \in Contents \cup {Missing} :
            ExternalWrite(p, text) /\ synced' = synced \ {p}
      BY <2>3 DEF External
    <3>2. StoreInv'
      BY <3>1
         DEF ExternalWrite, WorkspaceInv, StoreInv, StoreTypeOK,
             ActiveFileIsOpen, ModifiedReflectsDivergence, MemoryMatchesDisk,
             OpenPaths
    <3>3. ProcessTypeOK'
      BY <2>3 DEF External, flushVars, WorkspaceInv, ProcessTypeOK
    <3> QED
      BY <3>2, <3>3 DEF WorkspaceInv
  <2>4. CASE Exit
    BY <2>4, ForgetKeeps DEF Exit, WorkspaceInv, ProcessTypeOK
  <2>5. CASE Crash
    BY <2>5, ForgetKeeps DEF Crash, WorkspaceInv, ProcessTypeOK
  <2>6. ASSUME UNCHANGED <<storeVars, synced>>, ProcessTypeOK'
        PROVE  WorkspaceInv'
    <3>1. StoreInv'
      BY <2>6
         DEF storeVars, WorkspaceInv, StoreInv, StoreTypeOK, ActiveFileIsOpen,
             ModifiedReflectsDivergence, MemoryMatchesDisk, OpenPaths
    <3> QED
      BY <2>6, <3>1 DEF WorkspaceInv
  <2>7. CASE Launch
    BY <2>6, <2>7 DEF Launch, Phase, flushVars, WorkspaceInv, ProcessTypeOK
  <2>8. CASE Signal
    <3>1. session' \in Saved
      BY <2>8, SignalSaves
    <3> QED
      BY <2>6, <2>8, <3>1
         DEF Signal, Phase, flushVars, WorkspaceInv, ProcessTypeOK
  <2>9. CASE FlushActive
    BY <2>6, <2>9
       DEF FlushActive, Phase, WorkspaceInv, StoreInv, StoreTypeOK, ProcessTypeOK
  <2>10. CASE FlushList
    BY <2>6, <2>10
       DEF FlushList, Phase, WorkspaceInv, StoreInv, StoreTypeOK, ProcessTypeOK
  <2>11. CASE FlushRename
    <3>1. [active |-> flushActive, files |-> flushFiles] \in Session
      BY DEF Session, WorkspaceInv, ProcessTypeOK
    <3> QED
      BY <2>6, <2>11, <3>1, EmptyFileMap
         DEF FlushRename, Phase, WorkspaceInv, ProcessTypeOK
  <2>12. CASE FlushFails
    BY <2>6, <2>12, EmptyFileMap
       DEF FlushFails, Phase, WorkspaceInv, ProcessTypeOK
  <2>13. CASE Damage
    BY <2>6, <2>13 DEF Damage, flushVars, WorkspaceInv, ProcessTypeOK
  <2>14. CASE UNCHANGED vars
    BY <2>6, <2>14 DEF vars, storeVars, WorkspaceInv, ProcessTypeOK
  <2> QED
    BY <2>1, <2>2, <2>3, <2>4, <2>5, <2>7, <2>8, <2>9, <2>10, <2>11, <2>12,
       <2>13, <2>14 DEF Next
<1> QED
  BY <1>1, <1>2, PTL DEF Spec

-----------------------------------------------------------------------------
\* The variables hold values of their types in every reachable state.
THEOREM TypeCorrect == Spec => []TypeOK
<1>1. WorkspaceInv => TypeOK
  BY DEF WorkspaceInv, StoreInv, ProcessTypeOK, TypeOK
<1> QED
  BY <1>1, WorkspaceInvariant, PTL

\* No sequence of opens, closes, switches, shutdowns and restarts makes a
\* file active that is not open.
THEOREM ActiveOpen == Spec => []ActiveFileIsOpen
BY WorkspaceInvariant, PTL DEF WorkspaceInv, StoreInv

\* The status of an open file always says whether its buffer has diverged.
THEOREM StatusTruthful == Spec => []ModifiedReflectsDivergence
BY WorkspaceInvariant, PTL DEF WorkspaceInv, StoreInv

\* A file marked clean is on disk with the text of its buffer, unless the
\* file was changed by others or a save of it failed half-way.
THEOREM CleanOnDisk == Spec => []CleanIsOnDisk
<1>1. WorkspaceInv => CleanIsOnDisk
  BY DEF WorkspaceInv, StoreInv, ModifiedReflectsDivergence,
         MemoryMatchesDisk, CleanIsOnDisk
<1> QED
  BY <1>1, WorkspaceInvariant, PTL

-----------------------------------------------------------------------------
(***************************************************************************)
(* Why what is flushed survives.  While the ghost says what must be saved, *)
(* the store has it until the flush lists the files, then the list has it, *)
(* and then the recovery file, which nothing replaces before the next      *)
(* launch reads it.                                                        *)
(***************************************************************************)
Bears(fs) ==
    /\ \A p \in DOMAIN session.texts :
          p \in DOMAIN fs /\ fs[p].buffer \in session.texts[p]
    /\ session.active # NoSession => DOMAIN fs = DOMAIN session.texts

HasFocus(p) == session.active # NoSession => p = session.active

SessionKept ==
    session # NoSession =>
      /\ session \in Saved
      /\ session.active \in DOMAIN session.texts \cup {NoPath, NoSession}
      /\ phase \in {"stopping", "active_read", "listed", "flushed", "down",
                    "starting"}
      /\ Listing => Bears(files) /\ HasFocus(active)
      /\ phase \in {"active_read", "listed"} => HasFocus(flushActive)
      /\ phase = "listed" => Bears(flushFiles)
      /\ phase \in {"flushed", "down", "starting"} =>
            /\ recovery \notin {NoRecovery, BadRecovery}
            /\ Bears(recovery.files)
            /\ HasFocus(recovery.active)

\* A request before the files are listed changes the store and the ghost
\* alike.
LEMMA RequestListing ==
    ASSUME WorkspaceInv, SessionKept, Request, Listing, session # NoSession
    PROVE  SessionKept'
<1>1. /\ session \in Saved
      /\ session.active \in DOMAIN session.texts \cup {NoPath, NoSession}
      /\ Bears(files) /\ HasFocus(active)
      /\ phase = "active_read" => HasFocus(flushActive)
  BY DEF SessionKept
<1>2. phase' = phase /\ flushActive' = flushActive /\ Listing'
  BY DEF Request, flushVars, Listing
<1>3. SUFFICES /\ session' \in Saved
               /\ session'.active \in
                    DOMAIN session'.texts \cup {NoPath, NoSession}
               /\ Bears(files)' /\ HasFocus(active)'
               /\ phase = "active_read" => HasFocus(flushActive)'
  BY <1>2 DEF SessionKept, Listing
<1>4. session' \in Saved \/ session' = NoSession
  BY <1>1, GhostKeepsType
<1>5. PICK p \in Paths :
        \/ (Open(p) \/ Close(p)) /\ session' = Touched(session, p)
        \/ SwitchActive(p) /\ session' = Unfocused(session)
        \/ \E text \in Contents :
              Edit(p, text) /\ session' = Retyped(session, p, text)
        \/ (Save(p) \/ SaveFails(p)) /\ session' = session
  BY DEF Request, Follow
<1>6. CASE (Open(p) \/ Close(p)) /\ session' = Touched(session, p)
  <2>1. /\ session' \in Saved
        /\ session' = [texts |-> [q \in DOMAIN session.texts \ {p} |->
                                     session.texts[q]],
                       active |-> NoSession]
    BY <1>1, <1>6, FollowFacts, ContentsAssumption
  <2>2. \A q \in DOMAIN files \ {p} : q \in DOMAIN files' /\ files'[q] = files[q]
    BY <1>6 DEF Open, Close, Put, Delete, OpenPaths
  <2> QED
    BY <1>1, <2>1, <2>2 DEF Bears, HasFocus
<1>7. CASE SwitchActive(p) /\ session' = Unfocused(session)
  <2>1. /\ session' \in Saved
        /\ session' = [texts |-> session.texts, active |-> NoSession]
    BY <1>1, <1>7, FollowFacts, ContentsAssumption
  <2> QED
    BY <1>1, <1>7, <2>1 DEF SwitchActive, Bears, HasFocus
<1>8. ASSUME NEW text \in Contents,
             Edit(p, text), session' = Retyped(session, p, text)
      PROVE  /\ session' \in Saved
             /\ session'.active \in
                  DOMAIN session'.texts \cup {NoPath, NoSession}
             /\ Bears(files)' /\ HasFocus(active)'
             /\ phase = "active_read" => HasFocus(flushActive)'
  <2>1. /\ files' = [files EXCEPT ![p] = Edited(files[p], text)]
        /\ p \in DOMAIN files /\ active' = active
    BY <1>8 DEF Edit, OpenPaths
  <2>2. files[p] \in OpenFile
    BY <2>1, FileMapMember DEF WorkspaceInv, StoreInv, StoreTypeOK
  <2>3. files'[p].buffer = text
    BY <2>1, <2>2 DEF Edited, Recompute, OpenFile
  <2>4. session' \in Saved
    BY <1>1, <1>8, FollowFacts
  <2>5. CASE p \notin DOMAIN session.texts
    <3>1. session' = session
      BY <1>1, <1>8, <2>5, FollowFacts
    <3> QED
      BY <1>1, <1>2, <2>1, <2>5, <3>1 DEF Bears, HasFocus
  <2>6. CASE p \in DOMAIN session.texts
    <3>1. session' = Retyped(session, p, text)
      BY <1>8
    <3>2. /\ DOMAIN session'.texts = DOMAIN session.texts
          /\ session'.active = session.active
          /\ \A q \in DOMAIN session.texts \ {p} :
                session'.texts[q] = session.texts[q]
          /\ text \in session'.texts[p]
      BY <1>1, <2>6, <3>1, RetypedFacts
    <3>3. Bears(files)'
      BY <1>1, <2>1, <2>3, <3>2 DEF Bears
    <3> QED
      BY <1>1, <1>2, <2>1, <2>4, <3>2, <3>3 DEF HasFocus
  <2> QED
    BY <2>5, <2>6
<1>9. CASE (Save(p) \/ SaveFails(p)) /\ session' = session
  <2>1. /\ DOMAIN files' = DOMAIN files /\ active' = active
        /\ \A q \in DOMAIN files : files'[q].buffer = files[q].buffer
    <3>1. CASE Save(p)
      <4>1. p \in DOMAIN files /\ files[p] \in OpenFile
        BY <3>1, FileMapMember
           DEF Save, OpenPaths, WorkspaceInv, StoreInv, StoreTypeOK
      <4>2. Written(files[p]).buffer = files[p].buffer
        BY <4>1 DEF Written, Recompute, OpenFile
      <4> QED
        BY <3>1, <4>1, <4>2 DEF Save
    <3>2. CASE SaveFails(p)
      BY <3>2 DEF SaveFails
    <3> QED
      BY <1>9, <3>1, <3>2
  <2> QED
    BY <1>1, <1>2, <1>9, <2>1 DEF Bears, HasFocus
<1> QED
  BY <1>5, <1>6, <1>7, <1>8, <1>9

LEMMA SessionInvariant == Spec => []SessionKept
<1>1. Init => SessionKept
  BY DEF Init, SessionKept
<1>2. WorkspaceInv /\ SessionKept /\ [Next]_vars => SessionKept'
  <2> SUFFICES ASSUME WorkspaceInv, SessionKept, [Next]_vars
               PROVE  SessionKept'
    OBVIOUS
  <2>1. CASE Request
    <3>1. CASE session = NoSession \/ ~Listing
      <4>1. session' = session
        BY <2>1, <3>1 DEF Request, Follow
      <4>2. UNCHANGED <<phase, flushActive, flushFiles, recovery>>
        BY <2>1 DEF Request, flushVars
      <4> QED
        BY <3>1, <4>1, <4>2 DEF SessionKept, Listing, Bears, HasFocus
    <3> QED
      BY <2>1, <3>1, RequestListing
  <2>2. CASE Restore
    BY <2>2 DEF Restore, SessionKept
  <2>3. CASE External
    BY <2>3 DEF External, ExternalWrite, flushVars, SessionKept, Listing,
                Bears, HasFocus
  <2>4. CASE Exit
    BY <2>4 DEF Exit, Forget, SessionKept, Listing, Bears, HasFocus
  <2>5. CASE Crash
    BY <2>5 DEF Crash, Forget, SessionKept, Listing, Bears, HasFocus
  <2>6. CASE Launch
    BY <2>6 DEF Launch, storeVars, flushVars, SessionKept, Listing, Bears,
                HasFocus
  <2>7. CASE Signal
    <3>1. session' \in Saved
      BY <2>7, SignalSaves
    <3>2. /\ session'.texts = [p \in OpenPaths |-> {files[p].buffer}]
          /\ session'.active = active
      BY <2>7 DEF Signal
    <3>3. active \in OpenPaths \cup {NoPath}
      BY DEF WorkspaceInv, StoreInv, ActiveFileIsOpen
    <3>4. Bears(files)' /\ HasFocus(active)'
      BY <2>7, <3>2 DEF Signal, storeVars, Bears, HasFocus, OpenPaths
    <3> QED
      BY <2>7, <3>1, <3>2, <3>3, <3>4 DEF Signal, SessionKept, Listing
  <2>8. CASE FlushActive
    BY <2>8 DEF FlushActive, storeVars, SessionKept, Listing, Bears, HasFocus
  <2>9. CASE FlushList
    BY <2>9 DEF FlushList, storeVars, SessionKept, Listing, Bears, HasFocus
  <2>10. CASE FlushRename
    <3>1. recovery' = [active |-> flushActive, files |-> flushFiles]
      BY <2>10 DEF FlushRename
    <3>2. recovery' \in Session
      BY <3>1 DEF Session, WorkspaceInv, ProcessTypeOK
    <3>3. recovery' \notin {NoRecovery, BadRecovery}
      BY <3>2, GhostAssumption
    <3> QED
      BY <2>10, <3>1, <3>3
         DEF FlushRename, storeVars, SessionKept, Listing, Bears, HasFocus
  <2>11. CASE FlushFails
    BY <2>11 DEF FlushFails, SessionKept
  <2>12. CASE Damage
    BY <2>12 DEF Damage, SessionKept
  <2>13. CASE UNCHANGED vars
    BY <2>13 DEF vars, SessionKept, Listing, Bears, HasFocus
  <2> QED
    BY <2>1, <2>2, <2>3, <2>4, <2>5, <2>6, <2>7, <2>8, <2>9, <2>10, <2>11,
       <2>12, <2>13 DEF Next
<1> QED
  BY <1>1, <1>2, WorkspaceInvariant, PTL DEF Spec

\* A restore changes no buffer.
LEMMA RestoredBuffer ==
    ASSUME NEW f \in OpenFile, NEW text, NEW readable
    PROVE  Restored(f, text, readable).buffer = f.buffer
BY DEF Restored, Recompute, OpenFile

\* What a flush has saved comes back with the next launch, whatever happened
\* to the .simp files and whatever requests the flush has overtaken.
THEOREM SessionSurvives == Spec => SessionSurvivesRestart
<1> DEFINE Survives ==
        /\ \A p \in DOMAIN session.texts :
              p \in OpenPaths' /\ files'[p].buffer \in session.texts[p]
        /\ session.active # NoSession =>
              OpenPaths' = DOMAIN session.texts /\ active' = session.active
<1>1. SessionKept /\ WorkspaceInv /\ Restore /\ session # NoSession => Survives
  <2> SUFFICES ASSUME SessionKept, WorkspaceInv, Restore, session # NoSession
               PROVE  Survives
    OBVIOUS
  <2>1. /\ recovery \notin {NoRecovery, BadRecovery}
        /\ Bears(recovery.files) /\ HasFocus(recovery.active)
        /\ session.active \in DOMAIN session.texts \cup {NoPath, NoSession}
    BY DEF Restore, SessionKept
  <2>2. PICK readable \in SUBSET Paths : RestoreFiles(readable)
    BY <2>1 DEF Restore
  <2>3. files' = [p \in DOMAIN recovery.files |->
                    Restored(recovery.files[p], disk[p], p \in readable)]
    BY <2>2 DEF RestoreFiles
  <2>4. recovery.files \in [DOMAIN recovery.files -> OpenFile]
    BY <2>1, FileMapMember DEF WorkspaceInv, ProcessTypeOK, Session
  <2>5. \A p \in DOMAIN recovery.files :
          p \in OpenPaths' /\ files'[p].buffer = recovery.files[p].buffer
    BY <2>3, <2>4, RestoredBuffer DEF OpenPaths
  <2>6. OpenPaths' = DOMAIN recovery.files
    BY <2>3 DEF OpenPaths
  <2>7. session.active # NoSession => active' = session.active
    BY <2>1, <2>2 DEF RestoreFiles, Bears, HasFocus
  <2> QED
    BY <2>1, <2>5, <2>6, <2>7 DEF Bears
<1>2. SessionKept /\ WorkspaceInv /\ [Next]_vars =>
        [Restore /\ session # NoSession => Survives]_vars
  BY <1>1
<1> QED
  BY <1>2, SessionInvariant, WorkspaceInvariant, PTL
     DEF Spec, SessionSurvivesRestart

=============================================================================
