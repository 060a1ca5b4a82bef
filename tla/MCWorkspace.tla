---------------------------- MODULE MCWorkspace ----------------------------
(***************************************************************************)
(* Workspace with two .simp files and two texts, one of them empty: enough *)
(* for a closed file to hand the focus on, for a file to be clean or       *)
(* modified, and for its disk copy to vanish, change or be truncated.      *)
(*                                                                         *)
(* Requests that overtake the flush are followed while the recovery file   *)
(* it replaces holds no files; a flush over files is followed as long as   *)
(* what it must save is what the process has open.                         *)
(***************************************************************************)
EXTENDS Workspace, TLC

CONSTANTS p1, p2, text

MCPaths    == {p1, p2}
MCContents == {Empty, text}
MCSymmetry == Permutations(MCPaths)

FlushOverFiles ==
    /\ phase \in {"stopping", "active_read", "listed"}
    /\ session # NoSession
    /\ recovery \notin {NoRecovery, BadRecovery}
    /\ recovery.files # << >>

QuietOverFiles ==
    FlushOverFiles =>
        /\ active = session.active
        /\ session.texts = [p \in OpenPaths |-> {files[p].buffer}]
=============================================================================
