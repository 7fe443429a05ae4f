----------------------------- MODULE Migration ------------------------------
(***************************************************************************)
(* Migration of a chain into a new directory (editchain-store,             *)
(* migration.rs): converts segment by segment into a staging directory     *)
(* with a checkpoint after each, validates, and publishes by renaming the  *)
(* directory.  The command may be killed, cancelled or lose power at any   *)
(* step and is then run again; between two runs the source may be used.    *)
(*                                                                         *)
(* A segment is the sequence of its records; SegmentStore models how the   *)
(* output is appended, so that a page is durable when it counts as written.*)
(***************************************************************************)
EXTENDS Naturals, Sequences, Folds

CONSTANTS
    Rec,                \* records of the source
    Out,                \* records of the destination
    ConvertOf,          \* ConvertOf[r]: the output records of a record
    Source0,            \* the chain before the first run
    MaxRecords,         \* bound: records in the source
    MaxInterruptions    \* bound: kills and power losses

ASSUME MigrationAssumption ==
    /\ ConvertOf \in [Rec -> Seq(Out)]
    /\ Source0 \in Seq(Seq(Rec))
    /\ MaxRecords \in Nat /\ MaxInterruptions \in Nat

VARIABLES
    input,          \* the segments of the source chain
    cursors,        \* auxiliary files of the source, as a version
    policy,         \* its sharing policy: "whole", or "partial" while its
                    \* revision is incomplete
    place,          \* name of the output directory: "none", "staging" or "destination"
    placeDurable,   \* the name a power loss leaves
    state,          \* the .migration.json in it, if any
    stateDurable,   \* what a power loss leaves of it
    leftover,       \* a temporary file of the first checkpoint is left behind
    archived,       \* migration-v1/original
    out,            \* records of the output segments
    copied,         \* version of the auxiliary files copied, 0 unless all are
    run,            \* the command: pc, its checkpoint, records still to append
    refused,        \* why a run gave up, if one did
    interruptions,
    written         \* somebody has written to the published chain

migrationVars == <<input, cursors, policy, place, placeDurable, state, stateDurable, leftover,
                   archived, out, copied, run, refused, interruptions, written>>

directory == <<place, placeDurable, state, stateDurable, leftover, archived, out, copied>>
outside == <<input, cursors, policy, interruptions, written>>

None == << >>
Some(v) == <<v>>

\* The sequences of ss, one after the other.
Joined(ss) ==
    MapThenFoldSet(\o, << >>, LAMBDA i : ss[i], LAMBDA S : CHOOSE i \in S : \A j \in S : i <= j, DOMAIN ss)

converted(segment) == Joined([i \in DOMAIN segment |-> ConvertOf[segment[i]]])

\* transformed_digest of the whole source.
transformed == Joined([i \in DOMAIN input |-> converted(input[i])])

Fresh == [originals |-> << >>, frontier |-> 0, complete |-> FALSE, digest |-> << >>]

NoRun == [pc |-> "idle", locked |-> FALSE, state |-> Fresh, pending |-> << >>]

Running == run.pc # "idle"

At(pc) == run.pc = pc
Goto(pc) == run' = [run EXCEPT !.pc = pc]

Refuse(why) ==
    /\ run' = NoRun
    /\ refused' = why
    /\ UNCHANGED <<directory, outside>>
-----------------------------------------------------------------------------
\* migrate_with: lock the source against writers until the run ends, find or
\* create the staging directory and its checkpoint.
Start ==
    /\ ~Running /\ place # "destination"
    /\ IF state # None
       THEN /\ run' = [NoRun EXCEPT !.pc = "check", !.locked = TRUE, !.state = state[1]]
            /\ UNCHANGED <<directory, refused, outside>>
       ELSE IF leftover
       THEN Refuse("unowned")
       ELSE /\ run' = [NoRun EXCEPT !.pc = "create", !.locked = TRUE]
            /\ place' = "staging"
            /\ placeDurable' = "staging"
            /\ UNCHANGED <<state, stateDurable, leftover, archived, out, copied, refused,
                           outside>>

\* The first save: a temporary file, its rename, the sync of the directory.
CreateTemporary ==
    /\ At("create")
    /\ leftover' = TRUE
    /\ Goto("create_rename")
    /\ UNCHANGED <<place, placeDurable, state, stateDurable, archived, out, copied, refused,
                   outside>>

CreateRename ==
    /\ At("create_rename")
    /\ leftover' = FALSE
    /\ state' = Some(Fresh)
    /\ run' = [run EXCEPT !.pc = "create_sync", !.state = Fresh]
    /\ UNCHANGED <<place, placeDurable, stateDurable, archived, out, copied, refused, outside>>

\* sync_directory_tree, the end of every save, or the sync after the removal,
\* which ends the run.
SyncState(pc, next) ==
    /\ At(pc)
    /\ stateDurable' = state
    /\ IF next = "idle" THEN run' = NoRun ELSE Goto(next)
    /\ UNCHANGED <<place, placeDurable, state, leftover, archived, out, copied, refused, outside>>

\* Segments converted already must be unchanged, in the source and in the
\* archive; what was written after the checkpoint is rolled back.
unchanged_originals ==
    /\ Len(run.state.originals) <= Len(input)
    /\ \A i \in DOMAIN run.state.originals :
         input[i] = run.state.originals[i] /\ archived[i] = run.state.originals[i]

rollback(frontier) == SubSeq(out, 1, frontier)

CheckSource ==
    /\ At("check")
    /\ IF ~unchanged_originals THEN Refuse("changed")
       ELSE IF Len(out) < run.state.frontier THEN Refuse("truncated")
       ELSE /\ out' = rollback(run.state.frontier)
            /\ Goto("convert")
            /\ UNCHANGED <<place, placeDurable, state, stateDurable, leftover, archived, copied,
                           refused, outside>>

\* The next segment is archived and converted.
ConvertSegment ==
    LET n == Len(run.state.originals) + 1
    IN  /\ At("convert")
        /\ IF n <= Len(input)
           THEN /\ archived' = SubSeq(archived, 1, n - 1) \o <<input[n]>>
                /\ run' = [run EXCEPT !.pc = "append", !.pending = converted(input[n])]
           ELSE Goto("copy") /\ UNCHANGED archived
        /\ UNCHANGED <<place, placeDurable, state, stateDurable, leftover, out, copied,
                       refused, outside>>

AppendOutput ==
    /\ At("append")
    /\ run.pending # << >>
    /\ out' = Append(out, Head(run.pending))
    /\ run' = [run EXCEPT !.pending = Tail(@)]
    /\ UNCHANGED <<place, placeDurable, state, stateDurable, leftover, archived, copied,
                   refused, outside>>

\* All pages of the segment are durable: the checkpoint moves.
SaveProgress ==
    LET n    == Len(run.state.originals) + 1
        next == [run.state EXCEPT !.originals = Append(@, input[n]), !.frontier = Len(out)]
    IN  /\ At("append")
        /\ run.pending = << >>
        /\ state' = Some(next)
        /\ run' = [run EXCEPT !.pc = "progress_sync", !.state = next]
        /\ UNCHANGED <<place, placeDurable, stateDurable, leftover, archived, out, copied,
                       refused, outside>>

CopyOnce ==
    /\ At("copy")
    /\ copied' = IF copied = 0 THEN cursors ELSE copied
    /\ Goto("validate")
    /\ UNCHANGED <<place, placeDurable, state, stateDurable, leftover, archived, out, refused,
                   outside>>

\* copy_tree and scope::migrate overwrite what an earlier run copied.  A
\* selection of the sharing scope that was interrupted in the source is to be
\* repaired first; by then copy_tree has copied the other files.
CopyAuxiliary ==
    /\ At("copy")
    /\ IF policy = "partial"
       THEN copied' = 0 /\ run' = NoRun /\ refused' = "policy"
       ELSE copied' = cursors /\ Goto("validate") /\ UNCHANGED refused
    /\ UNCHANGED <<place, placeDurable, state, stateDurable, leftover, archived, out, outside>>

\* The whole output is compared with the whole source converted again.
Validate ==
    LET next == [run.state EXCEPT !.complete = TRUE, !.digest = out]
    IN  /\ At("validate")
        /\ IF transformed # out THEN Refuse("differs")
           ELSE /\ state' = Some(next)
                /\ run' = [run EXCEPT !.pc = "complete_sync", !.state = next]
                /\ UNCHANGED <<place, placeDurable, stateDurable, leftover, archived, out, copied,
                               refused, outside>>

RenameUnsynced ==
    /\ At("rename")
    /\ place' = "destination"
    /\ Goto("remove")
    /\ UNCHANGED <<placeDurable, state, stateDurable, leftover, archived, out, copied, refused,
                   outside>>

Rename ==
    /\ At("rename")
    /\ place' = "destination"
    /\ Goto("sync_parent")
    /\ UNCHANGED <<placeDurable, state, stateDurable, leftover, archived, out, copied, refused,
                   outside>>

SyncParent ==
    /\ At("sync_parent")
    /\ placeDurable' = "destination"
    /\ Goto("remove")
    /\ UNCHANGED <<place, state, stateDurable, leftover, archived, out, copied, refused, outside>>

\* Only now may ordinary writers open the chain.
RemoveState ==
    /\ At("remove")
    /\ state' = None
    /\ Goto("remove_sync")
    /\ UNCHANGED <<place, placeDurable, stateDurable, leftover, archived, out, copied, refused,
                   outside>>

already_exists ==
    ~Running /\ place = "destination" /\ state # None /\ Refuse("exists")

\* The destination exists already: finish a verified publication, without
\* the source's lock.
finish_publication ==
    /\ ~Running /\ place = "destination" /\ state # None
    /\ IF ~state[1].complete \/ out # state[1].digest THEN Refuse("unverified")
       ELSE /\ run' = [NoRun EXCEPT !.pc = "sync_parent", !.state = state[1]]
            /\ UNCHANGED <<directory, refused, outside>>
-----------------------------------------------------------------------------
\* The command is killed or cancelled.
Kill ==
    /\ Running
    /\ interruptions < MaxInterruptions
    /\ interruptions' = interruptions + 1
    /\ run' = NoRun
    /\ UNCHANGED <<directory, input, cursors, policy, refused, written>>

\* What was not yet synced may be there afterwards or not.
LosePower ==
    /\ interruptions < MaxInterruptions
    /\ interruptions' = interruptions + 1
    /\ run' = NoRun
    /\ place' \in {place, placeDurable} /\ placeDurable' = place'
    /\ state' \in {state, stateDurable} /\ stateDurable' = state'
    /\ leftover' \in {leftover, FALSE}
    /\ UNCHANGED <<archived, out, copied, input, cursors, policy, refused, written>>

\* Somebody records into the source while no command holds its lock, and may
\* be interrupted in selecting what it shares.
UseSource ==
    /\ ~run.locked
    /\ Len(Joined(input)) < MaxRecords
    /\ \E r \in Rec :
         \/ input' = Append(input, <<r>>)
         \/ input # << >> /\ input' = [input EXCEPT ![Len(input)] = Append(@, r)]
    /\ cursors' = cursors + 1
    /\ policy' \in {"whole", "partial"}
    /\ UNCHANGED <<directory, run, refused, interruptions, written>>

\* The selection is made again.
RepairPolicy ==
    /\ ~run.locked
    /\ policy = "partial"
    /\ policy' = "whole"
    /\ cursors' = cursors + 1
    /\ UNCHANGED <<directory, run, input, refused, interruptions, written>>

\* Somebody records into the published chain.  Opening it syncs its directory
\* and the ones above, so the removal of the marker is durable by then.
UseDestination ==
    /\ place = "destination" /\ state = None
    /\ ~written
    /\ placeDurable' = place
    /\ stateDurable' = state
    /\ written' = TRUE
    /\ \E o \in Out : out' = Append(out, o)
    /\ UNCHANGED <<place, state, leftover, archived, copied, run,
                   input, cursors, policy, refused, interruptions>>

MigrationInit ==
    /\ input = Source0 /\ cursors = 1 /\ policy = "whole"
    /\ place = "none" /\ placeDurable = "none"
    /\ state = None /\ stateDurable = None /\ leftover = FALSE
    /\ archived = << >> /\ out = << >> /\ copied = 0
    /\ run = NoRun /\ refused = "no"
    /\ interruptions = 0 /\ written = FALSE

Step ==
    \/ CreateTemporary
    \/ CreateRename
    \/ SyncState("create_sync", "check")
    \/ CheckSource
    \/ ConvertSegment
    \/ AppendOutput
    \/ SaveProgress
    \/ SyncState("progress_sync", "convert")
    \/ CopyAuxiliary
    \/ Validate
    \/ SyncState("complete_sync", "rename")
    \/ Rename
    \/ SyncParent
    \/ RemoveState
    \/ SyncState("remove_sync", "idle")

MigrationNext ==
    \/ Start
    \/ finish_publication
    \/ Step
    \/ Kill
    \/ LosePower
    \/ UseSource
    \/ RepairPolicy
    \/ UseDestination

MigrationSpec == MigrationInit /\ [][MigrationNext]_migrationVars

\* Whoever wants the migration runs the command again until it succeeds.
FairMigrationSpec ==
    /\ MigrationSpec
    /\ WF_migrationVars(Start)
    /\ WF_migrationVars(finish_publication)
    /\ WF_migrationVars(Step)
-----------------------------------------------------------------------------
\* What is renamed to the destination is the whole source of that moment: its
\* records converted, each once and in order, its segments in the archive and
\* its auxiliary files, however often the run was interrupted before.
PublishMigration ==
    place # "destination" /\ place' = "destination" =>
      out = transformed /\ archived = input /\ copied = cursors

PublishesWhole == [][PublishMigration]_migrationVars

Released == place = "destination" /\ state = None

\* The name and the content of a chain in use survive a power loss: the
\* marker is removed only after the rename is durable.
ReleasedDurable == Released => placeDurable = "destination"

\* Run again after every interruption, the command ends with a published
\* chain.  It never finds its own output wrong: only a source that was used in
\* between, an interrupted first checkpoint, or a sharing policy that nobody
\* repairs, makes it give up.
Completes == <>[](Released \/ refused \in {"changed", "unowned"} \/ policy = "partial")

\* Interrupted work remains resumable.
Resumable == refused # "unowned"
=============================================================================
