------------------------------- MODULE FolderMap -------------------------------
(***************************************************************************)
(* Mail folders: the paths a run gives them in mailcow, computed from the  *)
(* folder tree as it is now, against mail_folder_map, which remembers from *)
(* run to run which folders have been created there.                       *)
(*                                                                         *)
(* A name stands for a display name in which the server's delimiter has    *)
(* been replaced; siblings may then share one.  A well-known folder stands *)
(* for the name mailcow has for it.  Joining segments with the delimiter   *)
(* is one to one, so a path is the sequence of its segments.  Column       *)
(* imap_mailbox_name is written and never read, and is left out.           *)
(***************************************************************************)
EXTENDS Naturals, Sequences

CONSTANTS
    Folders,    \* mail folders, by Graph id
    WellKnown,  \* Inbox, Sent Items ... among them
    Names,      \* names a folder may be given
    Root,       \* parentFolderId of a top-level folder: not in the listing
    MaxMoves    \* bound: folders renamed or moved

ASSUME FolderAssumption == WellKnown \subseteq Folders /\ Root \notin Folders

VARIABLES
    parent,   \* Exchange: parent folder
    name,     \* Exchange: name
    boxes,    \* mailcow: paths of the folders that exist
    row,      \* mail_folder_map: "none", "known" or "created"
    pc,       \* "idle", "walk", "ensure", "mark", "fill"
    dry,      \* migration_job.dry_run
    path,     \* build_imap_paths of the run's listing
    todo,     \* folders the run has not reached; it may take them in any order
    cur,      \* the folder it is at, Root between two
    refused,  \* folders of this run whose messages mailcow refused
    done,     \* the last run went through all of its folders
    moved,    \* history: folders that went elsewhere once they had been seen
    moves

treeVars == <<parent, name>>
runVars  == <<pc, dry, path, todo, cur, refused, done>>
vars == <<treeVars, boxes, row, runVars, moved, moves>>

Segment(nm, f) == IF f \in WellKnown THEN f ELSE nm[f]

\* build_imap_paths: the segments from the top of the listing down.
Paths(par, nm) ==
    LET P[f \in Folders] ==
          IF par[f] = Root THEN <<Segment(nm, f)>>
                           ELSE Append(P[par[f]], Segment(nm, f))
    IN P

\* A folder and all it lies in.
Above(par, f) ==
    LET A[g \in Folders] == IF par[g] = Root THEN {g} ELSE {g} \cup A[par[g]]
    IN A[f]

Init ==
    /\ parent \in [Folders -> {Root} \cup WellKnown]
    /\ \A f \in WellKnown : parent[f] = Root
    /\ name \in [Folders -> Names \cup {Root}]
    /\ \A f \in Folders : name[f] = Root <=> f \in WellKnown
    /\ boxes \in SUBSET {<<f>> : f \in WellKnown}
    /\ row = [f \in Folders |-> "none"]
    /\ pc = "idle" /\ dry = FALSE
    /\ path = [f \in Folders |-> << >>]
    /\ todo = {} /\ cur = Root /\ refused = {} /\ done = FALSE
    /\ moved = {} /\ moves = 0

\* A user renames a folder or moves it, and with it all that lies in it.
Relocate(f, to, as) ==
    LET par == [parent EXCEPT ![f] = to]
        nm  == [name EXCEPT ![f] = as] IN
    /\ moves < MaxMoves /\ moves' = moves + 1
    /\ f \notin WellKnown
    /\ to # Root => f \notin Above(parent, to)
    /\ parent' = par /\ name' = nm
    /\ moved' = moved \cup {g \in Folders :
                    /\ Paths(par, nm)[g] # Paths(parent, name)[g]
                    /\ row[g] = "created" \/ pc # "idle"}
    /\ UNCHANGED <<boxes, row, runVars>>

-----------------------------------------------------------------------------
(* _migrate_mail.                                                          *)

\* list_mail_folders and the paths of this run.
Begin ==
    /\ pc = "idle"
    /\ dry' \in BOOLEAN
    /\ path' = Paths(parent, name)
    /\ todo' = Folders /\ cur' = Root /\ refused' = {} /\ done' = FALSE
    /\ pc' = "walk"
    /\ UNCHANGED <<treeVars, boxes, row, moved, moves>>

\* Mutant: a dry run marks the folders it would have created.
EnterMarking(f) ==
    /\ pc = "walk" /\ f \in todo
    /\ todo' = todo \ {f} /\ cur' = f
    /\ row' = [row EXCEPT ![f] = IF dry THEN "created" ELSE IF @ = "none" THEN "known" ELSE @]
    /\ pc' = IF row[f] # "created" /\ ~dry THEN "ensure" ELSE "fill"
    /\ UNCHANGED <<treeVars, boxes, dry, path, refused, done, moved, moves>>

\* get_or_create_folder_map, in a dry run too.
Enter(f) ==
    /\ pc = "walk" /\ f \in todo
    /\ todo' = todo \ {f} /\ cur' = f
    /\ row' = [row EXCEPT ![f] = IF @ = "none" THEN "known" ELSE @]
    /\ pc' = IF row[f] # "created" /\ ~dry THEN "ensure" ELSE "fill"
    /\ UNCHANGED <<treeVars, boxes, dry, path, refused, done, moved, moves>>

\* Mutant: the row is written before the folder is created.
EnsureLate ==
    /\ pc = "ensure"
    /\ row' = [row EXCEPT ![cur] = "created"]
    /\ pc' = "mark"
    /\ UNCHANGED <<treeVars, boxes, dry, path, todo, cur, refused, done, moved, moves>>

Ensure ==
    /\ pc = "ensure"
    /\ boxes' = boxes \cup {path[cur]}
    /\ pc' = "mark"
    /\ UNCHANGED <<treeVars, row, dry, path, todo, cur, refused, done, moved, moves>>

Mark ==
    /\ pc = "mark"
    /\ row' = [row EXCEPT ![cur] = "created"]
    /\ pc' = "fill"
    /\ UNCHANGED <<treeVars, boxes, dry, path, todo, cur, refused, done, moved, moves>>

\* The folder's messages: mailcow refuses an append to a folder it does not
\* have, and each of them ends up as failed.
Fill ==
    /\ pc = "fill"
    /\ refused' = IF dry \/ path[cur] \in boxes THEN refused ELSE refused \cup {cur}
    /\ cur' = Root /\ pc' = "walk"
    /\ UNCHANGED <<treeVars, boxes, row, dry, path, todo, done, moved, moves>>

Complete ==
    /\ pc = "walk" /\ todo = {}
    /\ done' = TRUE /\ pc' = "idle"
    /\ UNCHANGED <<treeVars, boxes, row, dry, path, todo, cur, refused, moved, moves>>

\* Cancelled, failed, or the container restarts.
Stop ==
    /\ pc # "idle"
    /\ pc' = "idle" /\ cur' = Root
    /\ path' = [f \in Folders |-> << >>] /\ todo' = {} /\ refused' = {}
    /\ UNCHANGED <<treeVars, boxes, row, dry, done, moved, moves>>

Next ==
    \/ Begin \/ Ensure \/ Mark \/ Fill \/ Complete \/ Stop
    \/ \E f \in Folders :
         Enter(f) \/ \E to \in Folders \cup {Root}, as \in Names : Relocate(f, to, as)

Spec == Init /\ [][Next]_vars

-----------------------------------------------------------------------------
(* Properties.                                                             *)

\* mailcow refuses the messages of a folder only if it was renamed or moved,
\* by itself or with a folder above it, after it had been created there or
\* while a run was going on: not because of a dry run, nor of a run that
\* stopped between creating a folder and recording it.
RefusedOnlyIfMoved == refused \subseteq moved

\* A real run that went through all folders leaves each of them in mailcow,
\* those without messages too, unless it was renamed or moved.
StructureKept ==
    done /\ ~dry => \A f \in Folders \ moved : path[f] \in boxes
=============================================================================
