----------------------------- MODULE CopyProofs ----------------------------
(***************************************************************************)
(* Proofs about copying a chain: into a new directory (Migration) and from *)
(* an archive or a peer (ChainCopy).                                       *)
(*                                                                         *)
(* Migration: whatever the source holds and however often the command is   *)
(* interrupted, what is published is the whole source of that moment, and  *)
(* a chain that writers may open is durable.  The conversion itself stays  *)
(* opaque.  That the output is the converted source comes from the         *)
(* comparison before publication, and stays true because the source is     *)
(* locked until the rename; that the archive is the source comes from the  *)
(* checkpoint, which counts the archived segments.                         *)
(*                                                                         *)
(* ChainCopy: what a restore or a replication session has answered for is  *)
(* durable, and the evidence the sync adapter caches is exact.             *)
(***************************************************************************)
EXTENDS ChainCopy, Migration, TLAPS

\* Zenon proves most leaves; those that need arithmetic, records or
\* sequences cite SMT.
USE Zenon

-----------------------------------------------------------------------------
(* Migration.                                                              *)

\* A checkpoint, and a run; what other fields hold does not matter.
IsState(s) ==
    s \in [originals : Seq(Seq(Rec)), frontier : {s.frontier}, complete : {s.complete},
           digest : {s.digest}]

IsRun(r) == r \in [pc : {r.pc}, locked : {r.locked}, state : {r.state}, pending : {r.pending}]

MigrationTypeOK ==
    /\ input \in Seq(Seq(Rec)) /\ archived \in Seq(Seq(Rec))
    /\ IsRun(run)
    /\ IsState(run.state)
    /\ state # None => state = Some(state[1]) /\ IsState(state[1])
    /\ stateDurable # None => stateDurable = Some(stateDurable[1]) /\ IsState(stateDurable[1])

Validated == {"complete_sync", "rename"}
Copied == {"validate"} \cup Validated
Archived == {"copy"} \cup Copied
Checked == {"convert", "append", "progress_sync"} \cup Archived
Saved == {"create_sync", "check"} \cup Checked
Staging == {"create", "create_rename"} \cup Saved
Removing == {"remove", "remove_sync"}
Publishing == {"sync_parent"} \cup Removing

\* Where the directory is: the source is locked while it is staged, and the
\* checkpoint outlives a rename that is not durable.
PlaceInv ==
    /\ run.pc \in {"idle"} \cup Staging \cup Publishing
    /\ run.pc \in Staging => run.locked /\ place # "destination"
    /\ run.pc \in Publishing => place = "destination"
    /\ run.pc \in Removing => placeDurable = "destination"
    /\ placeDurable = "destination" => place = "destination"
    /\ place = "destination" /\ placeDurable # "destination" => state # None /\ stateDurable # None
    /\ place # "destination" /\ state = None => stateDurable = None
    /\ run.pc = "rename" => stateDurable # None

Originals(sc) == IF sc = None THEN << >> ELSE sc[1].originals

\* Which checkpoint the run has: no checkpoint counts more segments than are
\* archived, and the one a power loss leaves is not ahead.
StateInv ==
    /\ run.pc \in {"create", "create_rename"} => state = None /\ run.state = Fresh
    /\ run.pc \in Saved => state = Some(run.state)
    /\ Len(archived) <= Len(input)
    /\ placeDurable # "destination" =>
         /\ Len(Originals(state)) <= Len(archived)
         /\ Len(Originals(stateDurable)) <= Len(Originals(state))

\* What the run has done so far of the source as it is now.
RunInv ==
    LET o == run.state.originals
    IN  /\ run.pc \in Checked =>
             /\ Len(o) <= Len(input)
             /\ \A i \in 1 .. Len(o) : input[i] = o[i] /\ archived[i] = o[i]
        /\ run.pc = "append" =>
             /\ Len(o) + 1 <= Len(input) /\ Len(archived) = Len(o) + 1
             /\ archived[Len(o) + 1] = input[Len(o) + 1]
        /\ run.pc \in Archived => Len(o) = Len(input)
        /\ run.pc \in Copied => copied = cursors
        /\ run.pc \in Validated => out = transformed

MigrationInv == MigrationTypeOK /\ PlaceInv /\ StateInv /\ RunInv
-----------------------------------------------------------------------------
(* The run.                                                                *)

\* A checkpoint is made from its fields.
LEMMA StateMade ==
    ASSUME NEW o \in Seq(Seq(Rec)), NEW f, NEW c, NEW d
    PROVE  LET n == [originals |-> o, frontier |-> f, complete |-> c, digest |-> d]
           IN  IsState(n) /\ n.originals = o
  BY DEF IsState

\* The run that has ended, and the first checkpoint.
LEMMA NoRunFacts ==
    /\ IsRun(NoRun) /\ NoRun.pc = "idle" /\ NoRun.state = Fresh /\ ~NoRun.locked
    /\ IsState(Fresh) /\ Fresh.originals = << >>
  <1>1. IsState(Fresh) /\ Fresh.originals = << >>
    <2>1. << >> \in Seq(Seq(Rec))
      BY SMT
    <2> QED BY <2>1, StateMade DEF Fresh
  <1>2. NoRun.pc = "idle" /\ NoRun.state = Fresh /\ NoRun.locked = FALSE
    BY DEF NoRun
  <1>3. ASSUME NEW pc, NEW l, NEW st, NEW p
        PROVE  IsRun([pc |-> pc, locked |-> l, state |-> st, pending |-> p])
    BY DEF IsRun
  <1> QED BY <1>1, <1>2, <1>3 DEF NoRun

\* An optional checkpoint.
LEMMA SomeFacts ==
    ASSUME NEW v
    PROVE  Some(v) # None /\ Some(v)[1] = v
  BY DEF None, Some


\* The output the source stands for depends on the source alone.
LEMMA TransformedKept ==
    ASSUME UNCHANGED input
    PROVE  transformed' = transformed
  BY DEF transformed, converted
-----------------------------------------------------------------------------
(* Each step keeps the invariant.                                          *)

\* A run that ends before it renames keeps the invariant.
LEMMA EndedStep ==
    ASSUME MigrationInv, run' = NoRun,
           UNCHANGED <<input, archived, place, placeDurable, state, stateDurable>>
    PROVE  MigrationInv'
  <1>1. MigrationTypeOK'
    BY NoRunFacts DEF MigrationInv, MigrationTypeOK
  <1>2. PlaceInv' /\ StateInv' /\ RunInv'
    BY NoRunFacts DEF MigrationInv, PlaceInv, StateInv, RunInv, Originals, Validated, Copied, Archived, Checked,
                      Saved, Staging, Removing, Publishing
  <1> QED BY <1>1, <1>2 DEF MigrationInv

\* A run that gives up leaves the directory as it is (Refuse).
LEMMA RefuseStep ==
    ASSUME MigrationInv, NEW why, Refuse(why)
    PROVE  MigrationInv'
  <1>1. run' = NoRun /\ UNCHANGED <<input, archived, place, placeDurable, state, stateDurable>>
    BY DEF Refuse, directory, outside
  <1> QED BY <1>1, EndedStep

\* A run that starts finds the checkpoint of an earlier one or makes the
\* staging directory.
LEMMA StartStep ==
    ASSUME MigrationInv, Start
    PROVE  MigrationInv'
  <1>0. place # "destination" /\ MigrationTypeOK
    BY DEF Start, MigrationInv
  <1>1. CASE state # None
    <2>1. /\ run' = [NoRun EXCEPT !.pc = "check", !.locked = TRUE, !.state = state[1]]
          /\ UNCHANGED <<input, archived, place, placeDurable, state, stateDurable>>
      BY <1>1 DEF Start, directory, outside
    <2>2. IsRun(run') /\ run'.pc = "check" /\ run'.state = state[1] /\ run'.locked = TRUE
      BY <2>1, NoRunFacts DEF IsRun
    <2>3. state = Some(state[1]) /\ IsState(state[1])
      BY <1>1 DEF MigrationInv, MigrationTypeOK
    <2>4. MigrationTypeOK'
      BY <2>1, <2>2, <2>3 DEF MigrationInv, MigrationTypeOK
    <2>5. PlaceInv' /\ StateInv' /\ RunInv'
      BY <1>0, <2>1, <2>2, <2>3 DEF MigrationInv, PlaceInv, StateInv, RunInv, Originals, Validated, Copied, Archived,
                               Checked, Saved, Staging, Removing, Publishing
    <2> QED BY <2>4, <2>5 DEF MigrationInv
  <1>2. CASE state = None /\ leftover
    BY <1>2, RefuseStep DEF Start
  <1>3. CASE state = None /\ ~leftover
    <2>1. /\ run' = [NoRun EXCEPT !.pc = "create", !.locked = TRUE]
          /\ place' = "staging" /\ placeDurable' = "staging"
          /\ UNCHANGED <<input, archived, state, stateDurable>>
      BY <1>3 DEF Start, outside
    <2>2. IsRun(run') /\ run'.pc = "create" /\ run'.state = Fresh /\ run'.locked = TRUE
      BY <2>1, NoRunFacts DEF IsRun
    <2>3. MigrationTypeOK'
      BY <2>1, <2>2, NoRunFacts DEF MigrationInv, MigrationTypeOK
    <2>4. PlaceInv' /\ StateInv' /\ RunInv'
      BY <1>0, <1>3, <2>1, <2>2 DEF MigrationInv, PlaceInv, StateInv, RunInv, Originals, Validated, Copied, Archived,
                               Checked, Saved, Staging, Removing, Publishing
    <2> QED BY <2>3, <2>4 DEF MigrationInv
  <1> QED BY <1>1, <1>2, <1>3

\* The first checkpoint counts no segment.
LEMMA CreateStep ==
    ASSUME MigrationInv, CreateTemporary \/ CreateRename
    PROVE  MigrationInv'
  <1>0. MigrationTypeOK
    BY DEF MigrationInv
  <1>1. CASE CreateTemporary
    <2>1. /\ run.pc = "create" /\ run' = [run EXCEPT !.pc = "create_rename"]
          /\ UNCHANGED <<input, archived, place, placeDurable, state, stateDurable>>
      BY <1>1 DEF CreateTemporary, At, Goto, outside
    <2>2. IsRun(run') /\ run'.pc = "create_rename" /\ run'.state = run.state /\ run'.locked = run.locked
      BY <1>0, <2>1 DEF MigrationTypeOK, IsRun
    <2>3. MigrationTypeOK'
      BY <1>0, <2>1, <2>2 DEF MigrationTypeOK
    <2>4. PlaceInv' /\ StateInv' /\ RunInv'
      BY <2>1, <2>2 DEF MigrationInv, PlaceInv, StateInv, RunInv, Originals, Validated, Copied, Archived,
                        Checked, Saved, Staging, Removing, Publishing
    <2> QED BY <2>3, <2>4 DEF MigrationInv
  <1>2. CASE CreateRename
    <2>1. /\ run.pc = "create_rename" /\ run' = [run EXCEPT !.pc = "create_sync", !.state = Fresh]
          /\ state' = Some(Fresh)
          /\ UNCHANGED <<input, archived, place, placeDurable, stateDurable>>
      BY <1>2 DEF CreateRename, At, outside
    <2>2. IsRun(run') /\ run'.pc = "create_sync" /\ run'.state = Fresh /\ run'.locked = run.locked
      BY <1>0, <2>1 DEF MigrationTypeOK, IsRun
    <2>3. MigrationTypeOK'
      BY <1>0, <2>1, <2>2, NoRunFacts, SomeFacts DEF MigrationTypeOK
    <2>4. PlaceInv'
      BY <2>1, <2>2, SomeFacts DEF MigrationInv, PlaceInv, StateInv, Validated, Copied, Archived, Checked, Saved,
                        Staging, Removing, Publishing
    <2>5. RunInv'
      BY <2>2 DEF RunInv, Validated, Copied, Archived, Checked
    <2>6. Originals(state') = << >> /\ Originals(stateDurable') = << >>
      BY <2>1, SomeFacts, NoRunFacts DEF MigrationInv, StateInv, PlaceInv, Staging, Originals
    <2>7. Len(archived) \in Nat /\ Len(<< >>) = 0
      BY <1>0, SMT DEF MigrationTypeOK
    <2>8. StateInv'
      BY <2>1, <2>2, <2>6, <2>7 DEF MigrationInv, StateInv, Originals, Validated, Copied, Archived, Checked, Saved
    <2> QED BY <2>3, <2>4, <2>5, <2>8 DEF MigrationInv
  <1> QED BY <1>1, <1>2

\* A checkpoint that is synced is the one a power loss leaves (SyncState).
LEMMA SyncStep ==
    ASSUME MigrationInv, NEW pc, NEW next, SyncState(pc, next),
           <<pc, next>> \in {<<"create_sync", "check">>, <<"progress_sync", "convert">>,
                             <<"complete_sync", "rename">>, <<"remove_sync", "idle">>}
    PROVE  MigrationInv'
  <1>0. MigrationTypeOK /\ PlaceInv /\ StateInv /\ RunInv
    BY DEF MigrationInv
  <1>1. /\ run.pc = pc /\ stateDurable' = state
        /\ UNCHANGED <<input, cursors, archived, out, copied, place, placeDurable, state>>
    BY DEF SyncState, At, outside
  <1>2. CASE next = "idle"
    <2>1. run' = NoRun /\ pc = "remove_sync"
      BY <1>2 DEF SyncState
    <2>2. MigrationTypeOK'
      BY <1>0, <1>1, <2>1, NoRunFacts DEF MigrationTypeOK
    <2>3. PlaceInv' /\ StateInv' /\ RunInv'
      BY <1>0, <1>1, <2>1, NoRunFacts DEF PlaceInv, StateInv, RunInv, Originals, Validated, Copied, Archived,
                                         Checked, Saved, Staging, Removing, Publishing
    <2> QED BY <2>2, <2>3 DEF MigrationInv
  <1>3. CASE next # "idle"
    <2>1. /\ run' = [run EXCEPT !.pc = next]
          /\ <<pc, next>> \in {<<"create_sync", "check">>, <<"progress_sync", "convert">>,
                               <<"complete_sync", "rename">>}
      BY <1>3 DEF SyncState, Goto
    <2>2. IsRun(run') /\ run'.pc = next /\ run'.state = run.state /\ run'.locked = run.locked
      BY <1>0, <2>1 DEF MigrationTypeOK, IsRun
    <2>3. MigrationTypeOK'
      BY <1>0, <1>1, <2>2 DEF MigrationTypeOK
    <2>4. PlaceInv'
      BY <1>0, <1>1, <2>1, <2>2, SomeFacts, SMT
         DEF PlaceInv, StateInv, Validated, Copied, Archived, Checked, Saved, Staging, Removing, Publishing
    <2>5. StateInv'
      <3>1. Len(Originals(state)) \in Nat
        BY <1>0, <1>1, <2>1, SMT DEF StateInv, MigrationTypeOK, IsState, Originals, Saved, Checked, Archived, Copied, Validated
      <3> QED BY <1>0, <1>1, <2>1, <2>2, <3>1, SMT
              DEF StateInv, Originals, Validated, Copied, Archived, Checked, Saved
    <2>6. RunInv'
      BY <1>0, <1>1, <2>1, <2>2, TransformedKept, SMT DEF RunInv, Validated, Copied, Archived, Checked
    <2> QED BY <2>3, <2>4, <2>5, <2>6 DEF MigrationInv
  <1> QED BY <1>2, <1>3

\* A resumed run goes on only with the segments it has counted (CheckSource).
LEMMA CheckStep ==
    ASSUME MigrationInv, CheckSource
    PROVE  MigrationInv'
  <1>0. MigrationTypeOK /\ PlaceInv /\ StateInv /\ RunInv
    BY DEF MigrationInv
  <1>1. CASE \E why \in {"changed", "truncated"} : Refuse(why)
    BY <1>1, RefuseStep
  <1>2. CASE ~\E why \in {"changed", "truncated"} : Refuse(why)
    <2>1. /\ run.pc = "check" /\ unchanged_originals /\ run' = [run EXCEPT !.pc = "convert"]
          /\ UNCHANGED <<input, archived, place, placeDurable, state, stateDurable>>
      BY <1>2 DEF CheckSource, At, Goto, outside
    <2>2. IsRun(run') /\ run'.pc = "convert" /\ run'.state = run.state /\ run'.locked = run.locked
      BY <1>0, <2>1 DEF MigrationTypeOK, IsRun
    <2>3. MigrationTypeOK'
      BY <1>0, <2>1, <2>2 DEF MigrationTypeOK
    <2>4. PlaceInv' /\ StateInv'
      BY <1>0, <2>1, <2>2 DEF PlaceInv, StateInv, Originals, Validated, Copied, Archived, Checked, Saved,
                              Staging, Removing, Publishing
    <2>5. RunInv'
      <3>1. DOMAIN run.state.originals = 1 .. Len(run.state.originals)
        BY <1>0, SMT DEF MigrationTypeOK, IsState
      <3> QED BY <2>1, <2>2, <3>1 DEF RunInv, unchanged_originals, Validated, Copied, Archived, Checked
    <2> QED BY <2>3, <2>4, <2>5 DEF MigrationInv
  <1> QED BY <1>1, <1>2

\* The next segment is archived before it counts (ConvertSegment).
LEMMA ConvertStep ==
    ASSUME MigrationInv, ConvertSegment
    PROVE  MigrationInv'
  <1> DEFINE o == run.state.originals
             n == Len(o) + 1
  <1>0. MigrationTypeOK /\ PlaceInv /\ StateInv /\ RunInv
    BY DEF MigrationInv
  <1>1. /\ run.pc = "convert"
        /\ UNCHANGED <<input, place, placeDurable, state, stateDurable>>
    BY DEF ConvertSegment, At, outside
  <1>2. /\ Len(o) \in Nat /\ Len(input) \in Nat /\ Len(archived) \in Nat
        /\ placeDurable # "destination" /\ state = Some(run.state) /\ Originals(state) = o
    BY <1>0, <1>1, SomeFacts, SMT DEF MigrationTypeOK, IsState, PlaceInv, StateInv, Originals, Staging, Saved, Checked
  <1>3. Len(o) <= Len(archived) /\ Len(o) <= Len(input)
        /\ \A i \in 1 .. Len(o) : input[i] = o[i] /\ archived[i] = o[i]
    BY <1>0, <1>1, <1>2 DEF StateInv, RunInv, Checked
  <1>4. CASE n <= Len(input)
    <2>1. /\ archived' = SubSeq(archived, 1, n - 1) \o <<input[n]>>
          /\ run' = [run EXCEPT !.pc = "append", !.pending = converted(input[n])]
      BY <1>4 DEF ConvertSegment
    <2>2. IsRun(run') /\ run'.pc = "append" /\ run'.state = run.state /\ run'.locked = run.locked
      BY <1>0, <2>1 DEF MigrationTypeOK, IsRun
    <2>3. input[n] \in Seq(Rec) /\ n - 1 = Len(o)
      BY <1>0, <1>2, <1>4, SMT DEF MigrationTypeOK
    <2>4. /\ archived' \in Seq(Seq(Rec)) /\ Len(archived') = n
          /\ \A i \in 1 .. Len(o) : archived'[i] = archived[i]
          /\ archived'[n] = input[n]
      <3> DEFINE t == SubSeq(archived, 1, Len(o))
                 y == input[n]
                 Segment == Seq(Rec)
      <3>1. archived' = t \o <<y>> /\ y \in Segment
        BY <2>1, <2>3
      <3>2. archived \in Seq(Segment) /\ Len(o) \in 0 .. Len(archived)
        BY <1>0, <1>2, <1>3, SMT DEF MigrationTypeOK
      <3>3. /\ t \o <<y>> \in Seq(Segment) /\ Len(t \o <<y>>) = Len(o) + 1
            /\ \A i \in 1 .. Len(o) : (t \o <<y>>)[i] = archived[i]
            /\ (t \o <<y>>)[Len(o) + 1] = y
        <4> HIDE DEF y, o, Segment
        <4>1. t \in Seq(Segment) /\ Len(t) = Len(o) /\ \A i \in 1 .. Len(o) : t[i] = archived[i]
          BY <3>2, SMT
        <4> HIDE DEF t
        <4> QED BY <3>1, <3>2, <4>1, SMT
      <3> HIDE DEF y, o, t, Segment
      <3>4. /\ archived' \in Seq(Segment) /\ Len(archived') = Len(o) + 1
            /\ \A i \in 1 .. Len(o) : archived'[i] = archived[i]
            /\ archived'[Len(o) + 1] = y
        BY <3>1, <3>3
      <3> QED BY <3>4 DEF y, Segment
    <2>5. MigrationTypeOK'
      BY <1>0, <1>1, <2>2, <2>4 DEF MigrationTypeOK
    <2>6. PlaceInv'
      BY <1>0, <1>1, <2>2 DEF PlaceInv, Validated, Copied, Archived, Checked, Saved, Staging, Removing, Publishing
    <2>7. StateInv'
      BY <1>0, <1>1, <1>2, <1>4, <2>2, <2>4, SMT
         DEF StateInv, Originals, Validated, Copied, Archived, Checked, Saved
    <2>8. RunInv'
      BY <1>1, <1>2, <1>3, <1>4, <2>2, <2>4 DEF RunInv, Validated, Copied, Archived, Checked
    <2> QED BY <2>5, <2>6, <2>7, <2>8 DEF MigrationInv
  <1>5. CASE ~(n <= Len(input))
    <2>1. run' = [run EXCEPT !.pc = "copy"] /\ UNCHANGED archived
      BY <1>5 DEF ConvertSegment, Goto
    <2>2. IsRun(run') /\ run'.pc = "copy" /\ run'.state = run.state /\ run'.locked = run.locked
      BY <1>0, <2>1 DEF MigrationTypeOK, IsRun
    <2>3. MigrationTypeOK'
      BY <1>0, <1>1, <2>1, <2>2 DEF MigrationTypeOK
    <2>4. PlaceInv' /\ StateInv'
      BY <1>0, <1>1, <2>1, <2>2 DEF PlaceInv, StateInv, Originals, Validated, Copied, Archived, Checked,
                                    Saved, Staging, Removing, Publishing
    <2>5. RunInv'
      BY <1>1, <1>2, <1>3, <1>5, <2>1, <2>2, SMT DEF RunInv, Validated, Copied, Archived, Checked
    <2> QED BY <2>3, <2>4, <2>5 DEF MigrationInv
  <1> QED BY <1>4, <1>5

\* Appending output changes neither archive nor checkpoint (AppendOutput).
LEMMA AppendConvertedStep ==
    ASSUME MigrationInv, AppendOutput
    PROVE  MigrationInv'
  <1>0. MigrationTypeOK /\ PlaceInv /\ StateInv /\ RunInv
    BY DEF MigrationInv
  <1>1. /\ run.pc = "append" /\ run' = [run EXCEPT !.pending = Tail(run.pending)]
        /\ UNCHANGED <<input, archived, place, placeDurable, state, stateDurable>>
    BY DEF AppendOutput, At, outside
  <1>2. IsRun(run') /\ run'.pc = "append" /\ run'.state = run.state /\ run'.locked = run.locked
    BY <1>0, <1>1 DEF MigrationTypeOK, IsRun
  <1>3. MigrationTypeOK'
    BY <1>0, <1>1, <1>2 DEF MigrationTypeOK
  <1>4. PlaceInv' /\ StateInv'
    BY <1>0, <1>1, <1>2 DEF PlaceInv, StateInv, Originals, Validated, Copied, Archived, Checked, Saved,
                            Staging, Removing, Publishing
  <1>5. RunInv'
    BY <1>0, <1>1, <1>2 DEF RunInv, Validated, Copied, Archived, Checked
  <1> QED BY <1>3, <1>4, <1>5 DEF MigrationInv

\* The checkpoint counts the segment that was archived (SaveProgress).
LEMMA ProgressStep ==
    ASSUME MigrationInv, SaveProgress
    PROVE  MigrationInv'
  <1> DEFINE o == run.state.originals
             n == Len(o) + 1
             next == [run.state EXCEPT !.originals = Append(o, input[n]), !.frontier = Len(out)]
  <1>0. MigrationTypeOK /\ PlaceInv /\ StateInv /\ RunInv
    BY DEF MigrationInv
  <1>1. /\ run.pc = "append" /\ state' = Some(next)
        /\ run' = [run EXCEPT !.pc = "progress_sync", !.state = next]
        /\ UNCHANGED <<input, archived, place, placeDurable, stateDurable>>
    BY DEF SaveProgress, At, outside
  <1>2. /\ o \in Seq(Seq(Rec)) /\ Len(o) \in Nat /\ Len(input) \in Nat
        /\ n <= Len(input) /\ Len(archived) = n /\ archived[n] = input[n]
        /\ \A i \in 1 .. Len(o) : input[i] = o[i] /\ archived[i] = o[i]
        /\ state = Some(run.state) /\ Originals(state) = o /\ placeDurable # "destination"
    BY <1>0, <1>1, SomeFacts, SMT DEF MigrationTypeOK, IsState, RunInv, PlaceInv, StateInv, Originals, Checked, Saved, Staging
  <1>3. input[n] \in Seq(Rec)
    BY <1>0, <1>2, SMT DEF MigrationTypeOK
  <1>4. /\ Append(o, input[n]) \in Seq(Seq(Rec)) /\ Len(Append(o, input[n])) = n
        /\ \A i \in 1 .. Len(o) : Append(o, input[n])[i] = o[i]
        /\ Append(o, input[n])[n] = input[n]
    BY <1>2, <1>3, SMT
  <1>5. IsState(next) /\ next.originals = Append(o, input[n])
    <2>1. ASSUME NEW a \in Seq(Seq(Rec)), NEW f
          PROVE  LET x == [run.state EXCEPT !.originals = a, !.frontier = f]
                 IN  IsState(x) /\ x.originals = a
      BY <1>0 DEF MigrationTypeOK, IsState
    <2> QED BY <1>4, <2>1
  <1> HIDE DEF next
  <1>6. IsRun(run') /\ run'.pc = "progress_sync" /\ run'.state = next /\ run'.locked = run.locked
    BY <1>0, <1>1 DEF MigrationTypeOK, IsRun
  <1>7. MigrationTypeOK'
    BY <1>0, <1>1, <1>5, <1>6, SomeFacts DEF MigrationTypeOK
  <1>8. PlaceInv'
    BY <1>0, <1>1, <1>6, SomeFacts DEF PlaceInv, Validated, Copied, Archived, Checked, Saved,
                            Staging, Removing, Publishing
  <1>9. StateInv'
    <2>1. Originals(state') = Append(o, input[n])
      BY <1>1, <1>5, SomeFacts DEF Originals
    <2>2. Len(Originals(stateDurable)) <= Len(o) /\ Len(Originals(stateDurable)) \in Nat
      <3>1. Originals(stateDurable) \in Seq(Seq(Rec))
        BY <1>0, SMT DEF MigrationTypeOK, IsState, Originals
      <3> QED BY <1>0, <1>2, <3>1, SMT DEF StateInv
    <2>3. /\ run'.pc \notin {"create", "create_rename"} /\ state' = Some(run'.state)
          /\ Len(archived') <= Len(input')
      BY <1>1, <1>2, <1>6
    <2>4. /\ Len(Originals(state')) <= Len(archived')
          /\ Len(Originals(stateDurable')) <= Len(Originals(state'))
      BY <1>1, <1>2, <1>4, <2>1, <2>2, SMT
    <2> QED BY <2>3, <2>4 DEF StateInv, Originals
  <1>10. RunInv'
    <2>1. run'.state.originals = Append(o, input[n]) /\ Len(Append(o, input[n])) <= Len(input)
      BY <1>2, <1>4, <1>5, <1>6
    <2>2. ASSUME NEW i \in 1 .. n
          PROVE  input[i] = Append(o, input[n])[i] /\ archived[i] = Append(o, input[n])[i]
      <3>1. i = n \/ i \in 1 .. Len(o)
        BY <1>2, <2>2, SMT
      <3> QED BY <1>2, <1>4, <3>1
    <2>3. run'.pc \notin Archived \cup {"append"}
      BY <1>6 DEF Archived, Copied, Validated
    <2> QED BY <1>1, <1>4, <2>1, <2>2, <2>3 DEF RunInv, Archived, Copied
  <1> QED BY <1>7, <1>8, <1>9, <1>10 DEF MigrationInv

\* The auxiliary files are those of the locked source (CopyAuxiliary).
LEMMA CopyStep ==
    ASSUME MigrationInv, CopyAuxiliary
    PROVE  MigrationInv'
  <1>0. MigrationTypeOK /\ PlaceInv /\ StateInv /\ RunInv
    BY DEF MigrationInv
  <1>1. run.pc = "copy" /\ UNCHANGED <<input, cursors, archived, place, placeDurable, state, stateDurable>>
    BY DEF CopyAuxiliary, At, outside
  <1>2. CASE policy = "partial"
    <2>1. run' = NoRun
      BY <1>2 DEF CopyAuxiliary
    <2> QED BY <1>1, <2>1, EndedStep
  <1>3. CASE policy # "partial"
    <2>1. run' = [run EXCEPT !.pc = "validate"] /\ copied' = cursors
      BY <1>3 DEF CopyAuxiliary, Goto
    <2>2. IsRun(run') /\ run'.pc = "validate" /\ run'.state = run.state /\ run'.locked = run.locked
      BY <1>0, <2>1 DEF MigrationTypeOK, IsRun
    <2>3. MigrationTypeOK'
      BY <1>0, <1>1, <2>2 DEF MigrationTypeOK
    <2>4. PlaceInv' /\ StateInv'
      BY <1>0, <1>1, <2>2 DEF PlaceInv, StateInv, Originals, Validated, Copied, Archived, Checked, Saved,
                              Staging, Removing, Publishing
    <2>5. RunInv'
      BY <1>0, <1>1, <2>1, <2>2 DEF RunInv, Validated, Copied, Archived, Checked
    <2> QED BY <2>3, <2>4, <2>5 DEF MigrationInv
  <1> QED BY <1>2, <1>3

\* Output that passes is the source converted (Validate).
LEMMA ValidateStep ==
    ASSUME MigrationInv, Validate
    PROVE  MigrationInv'
  <1> DEFINE next == [run.state EXCEPT !.complete = TRUE, !.digest = out]
  <1>0. MigrationTypeOK /\ PlaceInv /\ StateInv /\ RunInv
    BY DEF MigrationInv
  <1>1. CASE Refuse("differs")
    BY <1>1, RefuseStep
  <1>2. CASE ~Refuse("differs")
    <2>1. /\ run.pc = "validate" /\ transformed = out /\ state' = Some(next)
          /\ run' = [run EXCEPT !.pc = "complete_sync", !.state = next]
          /\ UNCHANGED <<input, cursors, archived, out, copied, place, placeDurable, stateDurable>>
      BY <1>2 DEF Validate, At, outside
    <2>2. IsState(next) /\ next.originals = run.state.originals
      <3>1. ASSUME NEW c, NEW d
            PROVE  LET x == [run.state EXCEPT !.complete = c, !.digest = d]
                   IN  IsState(x) /\ x.originals = run.state.originals
        BY <1>0 DEF MigrationTypeOK, IsState
      <3> QED BY <3>1
    <2> HIDE DEF next
    <2>3. IsRun(run') /\ run'.pc = "complete_sync" /\ run'.state = next /\ run'.locked = run.locked
      BY <1>0, <2>1 DEF MigrationTypeOK, IsRun
    <2>4. MigrationTypeOK'
      BY <1>0, <2>1, <2>2, <2>3, SomeFacts DEF MigrationTypeOK
    <2>5. PlaceInv'
      BY <1>0, <2>1, <2>3, SomeFacts DEF PlaceInv, Validated, Copied, Archived, Checked, Saved, Staging,
                                         Removing, Publishing
    <2>6. StateInv'
      <3>1. Originals(state') = Originals(state)
        BY <1>0, <2>1, <2>2, SomeFacts DEF StateInv, Originals, Saved, Checked, Archived, Copied
      <3>2. /\ run'.pc \notin {"create", "create_rename"} /\ state' = Some(run'.state)
            /\ UNCHANGED <<input, archived, placeDurable, stateDurable>>
        BY <2>1, <2>3
      <3> QED BY <1>0, <3>1, <3>2 DEF StateInv, Originals
    <2>7. RunInv'
      BY <1>0, <2>1, <2>2, <2>3, TransformedKept, SMT DEF RunInv, Validated, Copied, Archived, Checked
    <2> QED BY <2>4, <2>5, <2>6, <2>7 DEF MigrationInv
  <1> QED BY <1>1, <1>2

\* Publication: the rename, which a power loss may undo, its sync, and only
\* then the removal of the checkpoint.
LEMMA PublishMigrationStep ==
    ASSUME MigrationInv, Rename \/ SyncParent \/ RemoveState
    PROVE  MigrationInv'
  <1>0. MigrationTypeOK /\ PlaceInv /\ StateInv /\ RunInv
    BY DEF MigrationInv
  <1>1. UNCHANGED <<input, archived, stateDurable>>
    BY DEF Rename, SyncParent, RemoveState, outside
  <1>2. ASSUME NEW pc \in Publishing, run' = [run EXCEPT !.pc = pc]
        PROVE  /\ IsRun(run') /\ run'.pc = pc /\ run'.state = run.state
               /\ RunInv'
    <2>1. IsRun(run') /\ run'.pc = pc /\ run'.state = run.state
      BY <1>0, <1>2 DEF MigrationTypeOK, IsRun
    <2> QED BY <1>2, <2>1 DEF RunInv, Publishing, Removing, Checked, Archived, Copied, Validated
  <1>3. CASE Rename
    <2>1. /\ run.pc = "rename" /\ place' = "destination" /\ run' = [run EXCEPT !.pc = "sync_parent"]
          /\ UNCHANGED <<placeDurable, state>>
      BY <1>3 DEF Rename, At, Goto
    <2>2. IsRun(run') /\ run'.pc = "sync_parent" /\ run'.state = run.state /\ RunInv'
      BY <1>2, <2>1 DEF Publishing
    <2>3. MigrationTypeOK'
      BY <1>0, <1>1, <2>1, <2>2 DEF MigrationTypeOK
    <2>4. PlaceInv' /\ StateInv'
      BY <1>0, <1>1, <2>1, <2>2, SomeFacts DEF PlaceInv, StateInv, Originals, Validated, Copied, Archived,
                                               Checked, Saved, Staging, Removing, Publishing
    <2> QED BY <2>2, <2>3, <2>4 DEF MigrationInv
  <1>4. CASE SyncParent
    <2>1. /\ run.pc = "sync_parent" /\ placeDurable' = "destination" /\ run' = [run EXCEPT !.pc = "remove"]
          /\ UNCHANGED <<place, state>>
      BY <1>4 DEF SyncParent, At, Goto
    <2>2. IsRun(run') /\ run'.pc = "remove" /\ run'.state = run.state /\ RunInv'
      BY <1>2, <2>1 DEF Publishing, Removing
    <2>3. MigrationTypeOK'
      BY <1>0, <1>1, <2>1, <2>2 DEF MigrationTypeOK
    <2>4. PlaceInv' /\ StateInv'
      BY <1>0, <1>1, <2>1, <2>2 DEF PlaceInv, StateInv, Originals, Validated, Copied, Archived,
                                    Checked, Saved, Staging, Removing, Publishing
    <2> QED BY <2>2, <2>3, <2>4 DEF MigrationInv
  <1>5. CASE RemoveState
    <2>1. /\ run.pc = "remove" /\ state' = None /\ run' = [run EXCEPT !.pc = "remove_sync"]
          /\ UNCHANGED <<place, placeDurable>>
      BY <1>5 DEF RemoveState, At, Goto
    <2>2. IsRun(run') /\ run'.pc = "remove_sync" /\ run'.state = run.state /\ RunInv'
      BY <1>2, <2>1 DEF Publishing, Removing
    <2>3. MigrationTypeOK'
      BY <1>0, <1>1, <2>1, <2>2 DEF MigrationTypeOK
    <2>4. PlaceInv' /\ StateInv'
      BY <1>0, <1>1, <2>1, <2>2 DEF PlaceInv, StateInv, Originals, Validated, Copied, Archived,
                                    Checked, Saved, Staging, Removing, Publishing
    <2> QED BY <2>2, <2>3, <2>4 DEF MigrationInv
  <1> QED BY <1>3, <1>4, <1>5

\* A publication that was interrupted is finished from the rename's sync on.
LEMMA FinishStep ==
    ASSUME MigrationInv, finish_publication
    PROVE  MigrationInv'
  <1>0. MigrationTypeOK /\ PlaceInv /\ StateInv /\ RunInv
    BY DEF MigrationInv
  <1>1. CASE Refuse("unverified")
    BY <1>1, RefuseStep
  <1>2. CASE ~Refuse("unverified")
    <2>1. /\ place = "destination" /\ state # None
          /\ run' = [NoRun EXCEPT !.pc = "sync_parent", !.state = state[1]]
          /\ UNCHANGED <<input, archived, place, placeDurable, state, stateDurable>>
      BY <1>2 DEF finish_publication, directory, outside
    <2>2. IsRun(run') /\ run'.pc = "sync_parent" /\ run'.state = state[1]
      BY <2>1, NoRunFacts DEF IsRun
    <2>3. MigrationTypeOK'
      BY <1>0, <2>1, <2>2 DEF MigrationTypeOK
    <2>4. PlaceInv' /\ StateInv' /\ RunInv'
      BY <1>0, <2>1, <2>2 DEF PlaceInv, StateInv, RunInv, Originals, Validated, Copied, Archived,
                              Checked, Saved, Staging, Removing, Publishing
    <2> QED BY <2>3, <2>4 DEF MigrationInv
  <1> QED BY <1>1, <1>2

\* A killed run leaves what it wrote; a power loss may undo what was not synced.
LEMMA InterruptStep ==
    ASSUME MigrationInv, Kill \/ LosePower
    PROVE  MigrationInv'
  <1>0. MigrationTypeOK /\ PlaceInv /\ StateInv /\ RunInv
    BY DEF MigrationInv
  <1>1. run' = NoRun /\ UNCHANGED <<input, archived>>
    BY DEF Kill, LosePower, directory
  <1>2. RunInv'
    BY <1>1, NoRunFacts DEF RunInv, Checked, Archived, Copied, Validated
  <1>3. CASE Kill
    <2>1. UNCHANGED <<place, placeDurable, state, stateDurable>>
      BY <1>3 DEF Kill, directory
    <2>2. MigrationTypeOK'
      BY <1>0, <1>1, <2>1, NoRunFacts DEF MigrationTypeOK
    <2>3. PlaceInv' /\ StateInv'
      BY <1>0, <1>1, <2>1, NoRunFacts DEF PlaceInv, StateInv, Originals, Validated, Copied, Archived,
                                         Checked, Saved, Staging, Removing, Publishing
    <2> QED BY <1>2, <2>2, <2>3 DEF MigrationInv
  <1>4. CASE LosePower
    <2>1. /\ place' \in {place, placeDurable} /\ placeDurable' = place'
          /\ state' \in {state, stateDurable} /\ stateDurable' = state'
      BY <1>4 DEF LosePower
    <2>2. MigrationTypeOK'
      BY <1>0, <1>1, <2>1, NoRunFacts DEF MigrationTypeOK
    <2>3. PlaceInv'
      BY <1>1, <2>1, NoRunFacts DEF PlaceInv, Validated, Copied, Archived, Checked, Saved, Staging, Removing,
                                   Publishing
    <2>4. StateInv'
      <3>1. /\ Len(Originals(state)) \in Nat /\ Len(Originals(stateDurable)) \in Nat
            /\ Len(archived) \in Nat
        BY <1>0, SMT DEF MigrationTypeOK, IsState, Originals
      <3>2. placeDurable' # "destination" => placeDurable # "destination"
        BY <1>0, <2>1 DEF PlaceInv
      <3>3. placeDurable' # "destination" =>
              /\ Len(Originals(state')) <= Len(archived)
              /\ Len(Originals(stateDurable')) <= Len(Originals(state'))
        BY <1>0, <2>1, <3>1, <3>2, SMT DEF StateInv
      <3>4. run'.pc = "idle"
        BY <1>1, NoRunFacts
      <3> QED BY <1>0, <1>1, <3>3, <3>4 DEF StateInv, Originals, Validated, Copied, Archived, Checked, Saved
    <2> QED BY <1>2, <2>2, <2>3, <2>4 DEF MigrationInv
  <1> QED BY <1>3, <1>4

\* A source that is used was not locked, and it only grows.
LEMMA UseSourceStep ==
    ASSUME MigrationInv, UseSource
    PROVE  MigrationInv'
  <1>0. MigrationTypeOK /\ PlaceInv /\ StateInv /\ RunInv
    BY DEF MigrationInv
  <1>1. ~run.locked /\ UNCHANGED <<archived, place, placeDurable, state, stateDurable, run>>
    BY DEF UseSource, directory
  <1>2. PICK r \in Rec : \/ input' = Append(input, <<r>>)
                         \/ input # << >> /\ input' = [input EXCEPT ![Len(input)] = Append(@, r)]
    BY DEF UseSource
  <1>3. input' \in Seq(Seq(Rec)) /\ Len(input) <= Len(input')
    <2>1. CASE input' = Append(input, <<r>>)
      <3>1. <<r>> \in Seq(Rec)
        BY SMT
      <3> QED BY <1>0, <2>1, <3>1, SMT DEF MigrationTypeOK
    <2>2. CASE input # << >> /\ input' = [input EXCEPT ![Len(input)] = Append(@, r)]
      <3>1. Append(input[Len(input)], r) \in Seq(Rec)
        BY <1>0, <2>2, SMT DEF MigrationTypeOK
      <3> QED BY <1>0, <2>2, <3>1, SMT DEF MigrationTypeOK
    <2> QED BY <1>2, <2>1, <2>2
  <1>4. Len(archived) \in Nat /\ Len(input) \in Nat /\ Len(input') \in Nat
    BY <1>0, <1>3, SMT DEF MigrationTypeOK
  <1>5. run.pc \notin Staging
    BY <1>0, <1>1 DEF PlaceInv
  <1>6. MigrationTypeOK'
    BY <1>0, <1>1, <1>3 DEF MigrationTypeOK
  <1>7. PlaceInv'
    BY <1>0, <1>1 DEF PlaceInv
  <1>8. StateInv'
    BY <1>0, <1>1, <1>3, <1>4, SMT DEF StateInv, Originals
  <1>9. RunInv'
    BY <1>1, <1>5 DEF RunInv, Staging, Saved, Checked, Archived, Copied, Validated
  <1> QED BY <1>6, <1>7, <1>8, <1>9 DEF MigrationInv

\* A selection is repaired in a source that nobody migrates just then.
LEMMA RepairStep ==
    ASSUME MigrationInv, RepairPolicy
    PROVE  MigrationInv'
  <1>0. MigrationTypeOK /\ PlaceInv /\ StateInv /\ RunInv
    BY DEF MigrationInv
  <1>1. ~run.locked /\ UNCHANGED <<input, archived, place, placeDurable, state, stateDurable, run>>
    BY DEF RepairPolicy, directory
  <1>2. run.pc \notin Staging
    BY <1>0, <1>1 DEF PlaceInv
  <1>3. MigrationTypeOK' /\ PlaceInv' /\ StateInv'
    BY <1>0, <1>1 DEF MigrationTypeOK, PlaceInv, StateInv, Originals
  <1>4. RunInv'
    BY <1>1, <1>2 DEF RunInv, Staging, Saved, Checked, Archived, Copied, Validated
  <1> QED BY <1>3, <1>4 DEF MigrationInv

\* A published chain that is used was released, and is durable.
LEMMA UseDestinationStep ==
    ASSUME MigrationInv, UseDestination
    PROVE  MigrationInv'
  <1>0. MigrationTypeOK /\ PlaceInv /\ StateInv /\ RunInv
    BY DEF MigrationInv
  <1>1. /\ place = "destination" /\ state = None /\ placeDurable' = place /\ stateDurable' = state
        /\ UNCHANGED <<input, archived, place, state, run>>
    BY DEF UseDestination
  <1>2. run.pc \notin Staging
    BY <1>0, <1>1 DEF PlaceInv
  <1>3. MigrationTypeOK'
    BY <1>0, <1>1 DEF MigrationTypeOK
  <1>4. PlaceInv' /\ StateInv'
    BY <1>0, <1>1, <1>2 DEF PlaceInv, StateInv, Originals, Staging, Saved, Checked, Archived, Copied, Validated
  <1>5. RunInv'
    BY <1>1, <1>2 DEF RunInv, Staging, Saved, Checked, Archived, Copied, Validated
  <1> QED BY <1>3, <1>4, <1>5 DEF MigrationInv
-----------------------------------------------------------------------------
(* The theorems.                                                           *)

\* The invariant holds before the first run (MigrationInit).
LEMMA MigrationInvInit == MigrationInit => MigrationInv
  <1> SUFFICES ASSUME MigrationInit
               PROVE  MigrationInv
    OBVIOUS
  <1>1. MigrationTypeOK
    BY MigrationAssumption, NoRunFacts, SMT DEF MigrationInit, MigrationTypeOK
  <1>2. PlaceInv /\ RunInv
    BY NoRunFacts DEF MigrationInit, PlaceInv, RunInv, Validated, Copied, Archived, Checked, Saved, Staging,
                     Removing, Publishing
  <1>3. StateInv
    <2>1. Len(input) \in Nat /\ Len(<< >>) = 0
      BY <1>1, SMT DEF MigrationTypeOK
    <2> QED BY <2>1, NoRunFacts, SMT DEF MigrationInit, StateInv, Originals, Validated, Copied, Archived, Checked,
                                   Saved
  <1> QED BY <1>1, <1>2, <1>3 DEF MigrationInv

\* Every step keeps it (MigrationNext).
LEMMA MigrationInvStep == MigrationInv /\ [MigrationNext]_migrationVars => MigrationInv'
  <1> SUFFICES ASSUME MigrationInv, [MigrationNext]_migrationVars
               PROVE  MigrationInv'
    OBVIOUS
  <1>1. CASE Step
    BY <1>1, CreateStep, SyncStep, CheckStep, ConvertStep, AppendConvertedStep, ProgressStep, CopyStep, ValidateStep,
       PublishMigrationStep DEF Step
  <1>2. CASE Start \/ finish_publication \/ Kill \/ LosePower \/ UseSource \/ RepairPolicy \/ UseDestination
    BY <1>2, StartStep, FinishStep, InterruptStep, UseSourceStep, RepairStep, UseDestinationStep
  <1>3. CASE UNCHANGED migrationVars
    <2>1. UNCHANGED <<input, cursors, place, placeDurable, state, stateDurable, archived, out, copied, run>>
      BY <1>3 DEF migrationVars
    <2>2. MigrationTypeOK' /\ PlaceInv' /\ StateInv'
      BY <2>1 DEF MigrationInv, MigrationTypeOK, PlaceInv, StateInv, Originals
    <2>3. RunInv'
      BY <2>1, TransformedKept DEF MigrationInv, RunInv
    <2> QED BY <2>2, <2>3 DEF MigrationInv
  <1> QED BY <1>1, <1>2, <1>3 DEF MigrationNext

\* The invariant of migration, for any source and conversion, however often
\* the command is interrupted (migrate_with).
THEOREM MigrationInvariant == MigrationSpec => []MigrationInv
  BY MigrationInvInit, MigrationInvStep, PTL DEF MigrationSpec

\* A chain that ordinary writers may open survives a power loss under its
\* name: the checkpoint is removed after the rename is durable.
THEOREM ReleasedIsDurable == MigrationSpec => []ReleasedDurable
  <1>1. MigrationInv => ReleasedDurable
    BY DEF MigrationInv, PlaceInv, ReleasedDurable, Released
  <1> QED BY <1>1, MigrationInvariant, PTL

\* Sequences with the same elements are the same.
LEMMA SameElements ==
    ASSUME NEW S, NEW s \in Seq(S), NEW t \in Seq(S), Len(s) = Len(t),
           \A i \in 1 .. Len(t) : s[i] = t[i]
    PROVE  s = t
  <1>1. s \in [1 .. Len(s) -> S] /\ t \in [1 .. Len(s) -> S]
    BY SMT
  <1> QED BY <1>1, SMT

\* What is renamed to the destination is the whole source of that moment:
\* records, archive and auxiliary files (publish).
THEOREM PublishesTheWhole == MigrationSpec => PublishesWhole
  <1>1. ASSUME MigrationInv, Rename
        PROVE  out = transformed /\ archived = input /\ copied = cursors
    <2> DEFINE o == run.state.originals
    <2>1. /\ run.pc = "rename" /\ placeDurable # "destination" /\ state = Some(run.state)
          /\ Originals(state) = o
      BY <1>1, SomeFacts DEF MigrationInv, Rename, At, PlaceInv, StateInv, Originals, Staging, Saved, Checked,
                             Archived, Copied, Validated
    <2>2. /\ Len(o) = Len(input) /\ Len(archived) <= Len(input) /\ Len(o) <= Len(archived)
          /\ \A i \in 1 .. Len(o) : input[i] = o[i] /\ archived[i] = o[i]
          /\ out = transformed /\ copied = cursors
      BY <1>1, <2>1 DEF MigrationInv, StateInv, RunInv, Checked, Archived, Copied, Validated
    <2>3. Len(input) \in Nat /\ Len(archived) \in Nat
      BY <1>1, SMT DEF MigrationInv, MigrationTypeOK
    <2>4. Len(archived) = Len(input) /\ \A i \in 1 .. Len(input) : archived[i] = input[i]
      BY <2>2, <2>3, SMT
    <2>5. archived = input
      <3>1. archived \in Seq(Seq(Rec)) /\ input \in Seq(Seq(Rec))
        BY <1>1 DEF MigrationInv, MigrationTypeOK
      <3> QED BY <2>4, <3>1, SameElements
    <2> QED BY <2>2, <2>5
  <1>2. ASSUME MigrationInv, [MigrationNext]_migrationVars, place # "destination", place' = "destination"
        PROVE  Rename
    <2>1. placeDurable # "destination"
      BY <1>2 DEF MigrationInv, PlaceInv
    <2>2. ~LosePower /\ ~UNCHANGED migrationVars
      BY <1>2, <2>1 DEF LosePower, migrationVars
    <2>3. ~(Start \/ finish_publication \/ Kill \/ UseSource \/ RepairPolicy \/ UseDestination)
      BY <1>2 DEF Start, finish_publication, Kill, UseSource, RepairPolicy, UseDestination, Refuse, directory
    <2>4. Step
      BY <1>2, <2>2, <2>3 DEF MigrationNext
    <2> QED BY <1>2, <2>4 DEF Step, CreateTemporary, CreateRename, SyncState, CheckSource, ConvertSegment,
               AppendOutput, SaveProgress, CopyAuxiliary, Validate, SyncParent, RemoveState, Refuse, directory
  <1>3. MigrationInv /\ [MigrationNext]_migrationVars => [PublishMigration]_migrationVars
    BY <1>1, <1>2 DEF PublishMigration
  <1> QED BY <1>3, MigrationInvariant, PTL DEF MigrationSpec, PublishesWhole

-----------------------------------------------------------------------------
(* Copying from an archive or a peer.                                      *)

(***************************************************************************)
(* The inductive invariant.                                                *)
(***************************************************************************)
JobStage == {"idle", "open", "verify", "link", "done", "failed"}

JobType ==
    [stage : JobStage, rest : Seq(Blob), at : Nat \ {0}, staged : Seq(Blob), linked : BOOLEAN]

BatchStage == {"off", "read", "flush", "blobs", "reply"}

BatchShape(r) ==
    r \in [stage : {r.stage}, at : {r.at}, records : {r.records}, blobs : {r.blobs},
           replies : {r.replies}, bytes : {r.bytes}, count : {r.count}, last : {r.last},
           summary : {r.summary}, missing : {r.missing}, conflict : {r.conflict}]

IsBatch(r) ==
    /\ BatchShape(r)
    /\ r.stage \in BatchStage /\ r.records \in Seq(Record) /\ r.blobs \in Seq(Blob)

\* The shape of the state, as far as the argument needs it: a batch only ever
\* holds records that decode and blobs that have their address.
ShapeInv ==
    /\ files \in [Blob -> FileState]
    /\ job \in JobType
    /\ IsBatch(batch)
    /\ publishing \in Seq(Blob)
    /\ owner \in {"none", "restore", "replica"}

\* Only the holder of the writer lock has a batch, a cache or a publication.
LockInv ==
    /\ batch.stage # "off" <=> owner = "restore"
    /\ cache # <<>> \/ shown # <<>> \/ publishing # <<>> => owner = "replica"
    /\ job.stage # "idle" => batch.stage = "blobs" \/ publishing # <<>>

\* The blobs the publication in progress is for.
Wanted == IF owner = "restore" THEN Elements(batch.blobs) ELSE Elements(publishing)

\* Every wanted blob is durable or still ahead of the publication; in the
\* cohort at hand it is durable, waits to be linked, or is linked and waits
\* for the directory fence.
JobInv ==
    /\ job.stage \in {"open", "verify", "link", "done"} =>
         \A b \in Wanted : files[b] = "durable" \/ b \in Elements(job.rest)
    /\ job.stage = "open" => job.at = 1
    /\ job.stage = "done" => job.rest = <<>>
    /\ job.stage = "verify" =>
         \A i \in 1 .. Len(Cohort) :
            i < job.at => files[Cohort[i]] = "durable" \/ Cohort[i] \in Elements(job.staged)
    /\ job.stage = "link" =>
         \A b \in Elements(Cohort) :
            \/ files[b] = "durable"
            \/ b \in Elements(job.staged)
            \/ job.linked /\ files[b] = "linked"

\* What is durable is readable, and what is about to be answered for is
\* durable already.
ReplyInv ==
    /\ safe \subseteq retained
    /\ batch.stage = "reply" =>
         /\ Elements(batch.records) \subseteq safe
         /\ \A b \in Elements(batch.blobs) : files[b] = "durable"

Inv == ShapeInv /\ LockInv /\ JobInv /\ ReplyInv /\ AdapterExact /\ RepliesDurable

\* What is left of a sequence behind a prefix.
LEMMA SuffixFacts ==
    ASSUME NEW S, NEW s \in Seq(S), NEW n \in 0 .. Len(s)
    PROVE  /\ SubSeq(s, n + 1, Len(s)) \in Seq(S)
           /\ Len(SubSeq(s, n + 1, Len(s))) = Len(s) - n
           /\ \A i \in 1 .. (Len(s) - n) : SubSeq(s, n + 1, Len(s))[i] = s[n + i]
  <1>1. Len(s) \in Nat /\ n \in Nat /\ n + 1 \in Nat
    BY SMT
  <1>2. Len(SubSeq(s, n + 1, Len(s))) = Len(s) - n
    BY <1>1, SMT
  <1>3. \A i \in 1 .. (Len(s) - n) : SubSeq(s, n + 1, Len(s))[i] = s[n + i]
    BY <1>1, SMT
  <1>4. SubSeq(s, n + 1, Len(s)) \in Seq(S)
    <2>1. \A i \in (n + 1) .. Len(s) : s[i] \in S
      BY <1>1, SMT
    <2> QED BY <1>1, <2>1, SMT
  <1> QED BY <1>2, <1>3, <1>4

(***************************************************************************)
(* Sequences as bags of what they hold.                                    *)
(***************************************************************************)
\* The elements of a sequence are in its set, and the empty one has none.
LEMMA ElementsTyped ==
    ASSUME NEW S, NEW s \in Seq(S)
    PROVE  Elements(s) \subseteq S /\ Elements(<<>>) = {}
  BY SMT DEF Elements

\* Appending adds one element.
LEMMA ElementsAppend ==
    ASSUME NEW S, NEW s \in Seq(S), NEW x \in S
    PROVE  /\ Append(s, x) \in Seq(S)
           /\ Elements(Append(s, x)) = Elements(s) \cup {x}
  <1>1. Append(s, x) \in Seq(S) /\ Len(Append(s, x)) = Len(s) + 1
    BY SMT
  <1>2. \A i \in 1 .. Len(s) : Append(s, x)[i] = s[i]
    BY SMT
  <1>3. Append(s, x)[Len(s) + 1] = x
    BY SMT
  <1>4. DOMAIN s = 1 .. Len(s) /\ DOMAIN Append(s, x) = 1 .. (Len(s) + 1) /\ Len(s) \in Nat
    BY <1>1, SMT
  <1>5. Elements(Append(s, x)) \subseteq Elements(s) \cup {x}
    BY <1>2, <1>3, <1>4, SMT DEF Elements
  <1>6. Elements(s) \cup {x} \subseteq Elements(Append(s, x))
    <2>1. x \in Elements(Append(s, x))
      BY <1>3, <1>4, SMT DEF Elements
    <2>2. ASSUME NEW i \in 1 .. Len(s)
          PROVE  s[i] \in Elements(Append(s, x))
      <3>1. i \in 1 .. (Len(s) + 1)
        BY <1>4, SMT
      <3> QED BY <3>1, <1>2, <1>4 DEF Elements
    <2> QED BY <2>1, <2>2, <1>4 DEF Elements
  <1> QED BY <1>1, <1>5, <1>6

\* Taking the head off removes at most that element.
LEMMA ElementsTail ==
    ASSUME NEW S, NEW s \in Seq(S), s # <<>>
    PROVE  /\ Head(s) \in S
           /\ Tail(s) \in Seq(S)
           /\ Elements(s) = {Head(s)} \cup Elements(Tail(s))
  <1>1. Len(s) \in Nat \ {0} /\ DOMAIN s = 1 .. Len(s)
    BY SMT
  <1>2. Head(s) = s[1] /\ Tail(s) \in Seq(S) /\ Len(Tail(s)) = Len(s) - 1
    BY SMT
  <1>3. \A i \in 1 .. (Len(s) - 1) : Tail(s)[i] = s[i + 1]
    BY SMT
  <1>4. DOMAIN Tail(s) = 1 .. (Len(s) - 1)
    BY <1>2, SMT
  <1>5. Elements(Tail(s)) \subseteq Elements(s)
    BY <1>1, <1>3, <1>4, SMT DEF Elements
  <1>6. ASSUME NEW i \in 1 .. Len(s)
        PROVE  s[i] = Head(s) \/ s[i] \in Elements(Tail(s))
    <2>1. CASE i = 1
      BY <2>1, <1>2
    <2>2. CASE i # 1
      <3>1. i - 1 \in 1 .. (Len(s) - 1) /\ (i - 1) + 1 = i
        BY <2>2, <1>1, SMT
      <3>2. Tail(s)[i - 1] = s[i]
        BY <3>1, <1>3
      <3> QED BY <3>1, <3>2, <1>4 DEF Elements
    <2> QED BY <2>1, <2>2
  <1>7. Head(s) \in Elements(s) /\ Head(s) \in S
    BY <1>1, <1>2, SMT DEF Elements
  <1> QED BY <1>1, <1>2, <1>5, <1>6, <1>7 DEF Elements

\* The cohort at hand is a prefix of what is left, and every blob left is in
\* it or behind it.
LEMMA CohortFacts ==
    ASSUME job \in JobType
    PROVE  /\ Cohort \in Seq(Blob)
           /\ Len(Cohort) \in Nat
           /\ SubSeq(job.rest, Len(Cohort) + 1, Len(job.rest)) \in Seq(Blob)
           /\ \A b \in Elements(job.rest) :
                 \/ b \in Elements(Cohort)
                 \/ b \in Elements(SubSeq(job.rest, Len(Cohort) + 1, Len(job.rest)))
  <1> DEFINE rest == job.rest
             n == IF Len(rest) < CohortSize THEN Len(rest) ELSE CohortSize
             left == SubSeq(rest, n + 1, Len(rest))
  <1>1. rest \in Seq(Blob) /\ Len(rest) \in Nat
    BY SMT DEF JobType
  <1>2. n \in 0 .. Len(rest)
    BY <1>1, CohortAssumption, SMT
  <1>3. Cohort = SubSeq(rest, 1, n)
    BY DEF Cohort
  <1> HIDE DEF n, rest
  <1>4. Cohort \in Seq(Blob) /\ Len(Cohort) = n /\ \A i \in 1 .. n : Cohort[i] = rest[i]
    BY <1>1, <1>2, <1>3, SMT
  <1>5. left \in Seq(Blob) /\ Len(left) = Len(rest) - n
        /\ \A i \in 1 .. (Len(rest) - n) : left[i] = rest[n + i]
    BY <1>1, <1>2, SuffixFacts
  <1>6. ASSUME NEW i \in 1 .. Len(rest)
        PROVE  rest[i] \in Elements(Cohort) \/ rest[i] \in Elements(left)
    <2>1. CASE i <= n
      <3>1. i \in 1 .. n /\ DOMAIN Cohort = 1 .. n
        BY <2>1, <1>1, <1>2, <1>4, SMT
      <3>2. Cohort[i] = rest[i]
        BY <3>1, <1>4
      <3> QED BY <3>1, <3>2 DEF Elements
    <2>2. CASE i > n
      <3>1. i - n \in 1 .. (Len(rest) - n) /\ n + (i - n) = i
        BY <2>2, <1>1, <1>2, SMT
      <3>2. left[i - n] = rest[i] /\ DOMAIN left = 1 .. (Len(rest) - n)
        BY <3>1, <1>5, SMT
      <3> QED BY <3>1, <3>2 DEF Elements
    <2> QED BY <2>1, <2>2, <1>1, <1>2, SMT
  <1>7. DOMAIN rest = 1 .. Len(rest)
    BY <1>1, SMT
  <1>8. \A b \in Elements(rest) : b \in Elements(Cohort) \/ b \in Elements(left)
    BY <1>6, <1>7 DEF Elements
  <1>9. n \in Nat
    BY <1>1, <1>2, SMT
  <1> QED BY <1>4, <1>5, <1>8, <1>9 DEF rest

\* The cohort depends on what is left only.
LEMMA CohortKept == ASSUME job'.rest = job.rest PROVE Cohort' = Cohort
  BY DEF Cohort

(***************************************************************************)
(* The directory.                                                          *)
(***************************************************************************)
\* A step that takes no fence back.
Keeps(f, g) ==
    /\ g \in [Blob -> FileState]
    /\ \A b \in Blob : /\ f[b] = "durable" => g[b] = "durable"
                       /\ f[b] = "linked" => g[b] \in {"linked", "durable"}

\* A directory fence makes linked files durable and takes nothing back.
LEMMA FencedFacts ==
    ASSUME NEW f \in [Blob -> FileState]
    PROVE  /\ Keeps(f, DirectoryFenced(f))
           /\ \A b \in Blob : f[b] = "linked" => DirectoryFenced(f)[b] = "durable"
  <1>1. \A b \in Blob : f[b] \in FileState
    OBVIOUS
  <1>2. \A b \in Blob : DirectoryFenced(f)[b] = CASE f[b] = "linked" -> "durable"
                                                  [] f[b] = "copied" -> "named"
                                                  [] OTHER -> f[b]
    BY DEF DirectoryFenced
  <1>3. ASSUME NEW b \in Blob
        PROVE  /\ DirectoryFenced(f)[b] \in FileState
               /\ f[b] = "durable" => DirectoryFenced(f)[b] = "durable"
               /\ f[b] = "linked" => DirectoryFenced(f)[b] = "durable"
    BY <1>1, <1>2 DEF FileState
  <1>4. DirectoryFenced(f) \in [Blob -> FileState]
    BY <1>3 DEF DirectoryFenced
  <1> QED BY <1>3, <1>4 DEF Keeps

\* A readable file that was verified is durable.
LEMMA VerifiedFacts ==
    ASSUME NEW f \in [Blob -> FileState], NEW b \in Blob
    PROVE  Keeps(f, Verified(f, b)) /\ Verified(f, b)[b] = "durable"
  <1> DEFINE now == IF f[b] \in {"copied", "linked"} THEN "linked" ELSE "durable"
             g == [f EXCEPT ![b] = now]
  <1>1. now \in {"linked", "durable"} /\ (f[b] = "durable" => now = "durable")
    OBVIOUS
  <1>2. Verified(f, b) = DirectoryFenced(g)
    BY DEF Verified
  <1> HIDE DEF now
  <1>3. g \in [Blob -> FileState] /\ g[b] = now /\ \A c \in Blob : c # b => g[c] = f[c]
    BY <1>1 DEF FileState
  <1> HIDE DEF g
  <1>4. Keeps(g, DirectoryFenced(g))
        /\ \A c \in Blob : g[c] = "linked" => DirectoryFenced(g)[c] = "durable"
    BY <1>3, FencedFacts
  <1>5. DirectoryFenced(g)[b] = "durable"
    BY <1>1, <1>3, <1>4 DEF Keeps
  <1>6. ASSUME NEW c \in Blob
        PROVE  /\ f[c] = "durable" => DirectoryFenced(g)[c] = "durable"
               /\ f[c] = "linked" => DirectoryFenced(g)[c] \in {"linked", "durable"}
    <2>1. CASE c = b
      BY <2>1, <1>5
    <2>2. CASE c # b
      BY <2>2, <1>3, <1>4 DEF Keeps
    <2> QED BY <2>1, <2>2
  <1> QED BY <1>2, <1>4, <1>5, <1>6 DEF Keeps

\* A verification that fails takes no fence back.
LEMMA InterruptedFacts ==
    ASSUME NEW f \in [Blob -> FileState], NEW b \in Blob, NEW g \in VerifyInterrupted(f, b)
    PROVE  Keeps(f, g)
  <1> DEFINE now == CASE f[b] = "copied" -> "linked" [] f[b] = "named" -> "durable" [] OTHER -> f[b]
  <1>1. f[b] \in FileState
    OBVIOUS
  <1>2. now \in FileState /\ (f[b] \in {"linked", "durable"} => now = f[b])
    BY <1>1 DEF FileState
  <1>3. g = f \/ g = [f EXCEPT ![b] = now]
    BY DEF VerifyInterrupted
  <1> HIDE DEF now
  <1>4. CASE g = f
    BY <1>4 DEF Keeps
  <1>5. CASE g = [f EXCEPT ![b] = now]
    <2>1. g \in [Blob -> FileState] /\ g[b] = now /\ \A c \in Blob : c # b => g[c] = f[c]
      BY <1>5, <1>2
    <2> QED BY <2>1, <1>2 DEF Keeps
  <1> QED BY <1>3, <1>4, <1>5

\* Linking an absent name takes no fence back.
LEMMA LinkedFacts ==
    ASSUME NEW f \in [Blob -> FileState], NEW b \in Blob, f[b] = "absent",
           NEW g, g = [f EXCEPT ![b] = "linked"]
    PROVE  Keeps(f, g) /\ g[b] = "linked"
  <1>1. g \in [Blob -> FileState] /\ g[b] = "linked" /\ \A c \in Blob : c # b => g[c] = f[c]
    BY DEF FileState
  <1> QED BY <1>1 DEF Keeps

\* Nothing changes for the worse when nothing changes.
LEMMA KeepsSame ==
    ASSUME NEW f \in [Blob -> FileState]
    PROVE  Keeps(f, f)
  BY DEF Keeps

\* A power loss spares what is durable.
LEMMA PowerLossFacts ==
    ASSUME NEW f \in [Blob -> FileState], NEW g \in FilesAfterPowerLoss(f)
    PROVE  /\ g \in [Blob -> FileState]
           /\ \A b \in Blob : f[b] = "durable" => g[b] = "durable"
  BY DEF FilesAfterPowerLoss, Surviving

(***************************************************************************)
(* The publication.                                                        *)
(***************************************************************************)
Ahead == \A b \in Wanted : files[b] = "durable" \/ b \in Elements(job.rest)

Verifying ==
    \A i \in 1 .. Len(Cohort) :
        i < job.at => files[Cohort[i]] = "durable" \/ Cohort[i] \in Elements(job.staged)

Linking ==
    \A b \in Elements(Cohort) :
        files[b] = "durable" \/ b \in Elements(job.staged) \/ (job.linked /\ files[b] = "linked")

\* A publication step's result: the files keep their fences and the
\* publication its invariant.
Published == job' \in JobType /\ job'.stage # "idle" /\ Keeps(files, files') /\ JobInv'

\* A step that leaves what is left alone loses no wanted blob.
LEMMA AheadKept ==
    ASSUME Ahead, Keeps(files, files'), Wanted \subseteq Blob, Wanted' = Wanted, job'.rest = job.rest
    PROVE  Ahead'
  <1>1. ASSUME NEW b \in Wanted
        PROVE  files'[b] = "durable" \/ b \in Elements(job.rest)
    BY <1>1 DEF Ahead, Keeps
  <1>2. Elements(job.rest)' = Elements(job.rest)
    BY DEF Elements
  <1> QED BY <1>1, <1>2 DEF Ahead

\* JobInv in these words.
LEMMA JobInvWords ==
    JobInv <=> /\ job.stage \in {"open", "verify", "link", "done"} => Ahead
               /\ job.stage = "open" => job.at = 1
               /\ job.stage = "done" => job.rest = <<>>
               /\ job.stage = "verify" => Verifying
               /\ job.stage = "link" => Linking
  BY DEF JobInv, Ahead, Verifying, Linking

\* A publication that failed promises nothing.
LEMMA FailStep ==
    ASSUME job \in JobType, Fail, Keeps(files, files')
    PROVE  Published
  <1>1. job' \in JobType /\ job'.stage = "failed"
    BY DEF Fail, JobType, JobStage
  <1>2. JobInv'
    BY <1>1 DEF JobInv
  <1> QED BY <1>1, <1>2 DEF Published

\* Opening the directory.
LEMMA OpenStep ==
    ASSUME files \in [Blob -> FileState], job \in JobType, JobInv,
           Wanted \subseteq Blob, Wanted' = Wanted, OpenDirectory
    PROVE  Published
  <1>1. /\ job' = [job EXCEPT !.stage = "verify"]
        /\ job.stage = "open" /\ job.at = 1
        /\ files' = DirectoryFenced(files)
    BY DEF OpenDirectory, JobInv
  <1>2. job' \in JobType /\ job'.stage = "verify" /\ job'.rest = job.rest /\ job'.at = 1
    BY <1>1 DEF JobType, JobStage
  <1>3. Keeps(files, files')
    BY <1>1, FencedFacts
  <1>4. Ahead
    BY <1>1, JobInvWords
  <1>5. Ahead'
    BY <1>2, <1>3, <1>4, AheadKept
  <1>6. Verifying'
    BY <1>2, SMT DEF Verifying
  <1>7. JobInv'
    BY <1>2, <1>5, <1>6 DEF JobInv, Ahead, Verifying
  <1> QED BY <1>2, <1>3, <1>7 DEF Published

\* What was verified of the cohort stays durable or staged.
LEMMA VerifyingKept ==
    ASSUME job \in JobType, job' \in JobType, Verifying, Keeps(files, files'),
           job'.rest = job.rest, job'.at = job.at + 1, job.at \in 1 .. Len(Cohort),
           Elements(job.staged) \subseteq Elements(job'.staged),
           files'[Cohort[job.at]] = "durable" \/ Cohort[job.at] \in Elements(job'.staged)
    PROVE  Verifying'
  <1>1. Cohort' = Cohort
    BY CohortKept
  <1>2. Cohort \in Seq(Blob) /\ Len(Cohort) \in Nat /\ job.at \in Nat
    BY CohortFacts DEF JobType
  <1>3. ASSUME NEW i \in 1 .. Len(Cohort), i < job.at + 1
        PROVE  files'[Cohort[i]] = "durable" \/ Cohort[i] \in Elements(job'.staged)
    <2>1. CASE i = job.at
      BY <2>1
    <2>2. CASE i # job.at
      <3>1. i < job.at /\ Cohort[i] \in Blob
        BY <2>2, <1>2, <1>3, SMT
      <3>2. files[Cohort[i]] = "durable" \/ Cohort[i] \in Elements(job.staged)
        BY <3>1 DEF Verifying
      <3> QED BY <3>1, <3>2 DEF Keeps
    <2> QED BY <2>1, <2>2
  <1>4. Elements(job.staged)' = Elements(job'.staged)
    BY DEF Elements
  <1>5. \A i \in 1 .. Len(Cohort) :
           i < job'.at => files'[Cohort[i]] = "durable" \/ Cohort[i] \in Elements(job'.staged)
    BY <1>3
  <1> HIDE DEF Elements
  <1> QED BY <1>1, <1>4, <1>5 DEF Verifying

\* Verifying an existing blob, or failing at it.
LEMMA VerifyStep ==
    ASSUME files \in [Blob -> FileState], job \in JobType, NEW b \in Blob, NEW next,
           VerifyExisting(b, next)
    PROVE  \/ Fail /\ Keeps(files, files')
           \/ job' = next /\ Keeps(files, files') /\ files'[b] = "durable"
  <1>1. CASE Readable(b) /\ files' = Verified(files, b) /\ job' = next
    BY <1>1, VerifiedFacts
  <1>2. CASE files[b] = "torn" /\ Fail /\ UNCHANGED files
    BY <1>2, KeepsSame
  <1> QED BY <1>1, <1>2 DEF VerifyExisting

\* The first loop of publish_batch.
LEMMA StageStep ==
    ASSUME files \in [Blob -> FileState], job \in JobType, JobInv,
           Wanted \subseteq Blob, Wanted' = Wanted, Stage
    PROVE  Published
  <1> DEFINE b == Cohort[job.at]
             next == [job EXCEPT !.at = job.at + 1]
             seen == \E i \in 1 .. (job.at - 1) : Cohort[i] = b
             more == [next EXCEPT !.staged = Append(next.staged, b)]
  <1>1. /\ job.stage = "verify" /\ job.at <= Len(Cohort)
        /\ \/ seen /\ job' = next /\ UNCHANGED files
           \/ VerifyExisting(b, next)
           \/ files[b] = "absent" /\ job' = more /\ UNCHANGED files
    BY DEF Stage
  <1>2. Cohort \in Seq(Blob) /\ Len(Cohort) \in Nat /\ job.at \in Nat \ {0} /\ job.staged \in Seq(Blob)
    BY CohortFacts DEF JobType
  <1>3. job.at \in 1 .. Len(Cohort) /\ b \in Blob
    BY <1>1, <1>2, SMT
  <1>4. Ahead /\ Verifying
    BY <1>1, JobInvWords
  <1>5. /\ next \in JobType /\ next.stage = "verify" /\ next.rest = job.rest
        /\ next.at = job.at + 1 /\ next.staged = job.staged
    <2>1. job.stage = "verify" /\ job.at + 1 \in Nat \ {0}
      BY <1>1, <1>2, SMT
    <2> QED BY <2>1 DEF JobType, JobStage
  <1> HIDE DEF b
  <1>6. /\ Append(job.staged, b) \in Seq(Blob)
        /\ Elements(Append(job.staged, b)) = Elements(job.staged) \cup {b}
    BY <1>2, <1>3, ElementsAppend, SMT
  <1>7. /\ more \in JobType /\ more.stage = "verify" /\ more.rest = job.rest
        /\ more.at = job.at + 1 /\ more.staged = Append(job.staged, b)
    <2> HIDE DEF next
    <2> QED BY <1>5, <1>6 DEF JobType
  <1> HIDE DEF next, more
  <1>8. ASSUME job' \in JobType, job'.stage = "verify", job'.rest = job.rest, job'.at = job.at + 1,
               Keeps(files, files'), Elements(job.staged) \subseteq Elements(job'.staged),
               files'[b] = "durable" \/ b \in Elements(job'.staged)
        PROVE  Published
    <2>1. Ahead'
      BY <1>4, <1>8, AheadKept
    <2>2. Verifying'
      BY <1>3, <1>4, <1>8, VerifyingKept DEF b
    <2>3. JobInv'
      BY <2>1, <2>2, <1>8 DEF JobInv, Ahead, Verifying
    <2> QED BY <2>3, <1>8 DEF Published
  <1>9. CASE seen /\ job' = next /\ UNCHANGED files
    <2>1. PICK i \in 1 .. (job.at - 1) : Cohort[i] = b
      BY <1>9
    <2>2. i \in 1 .. Len(Cohort) /\ i < job.at
      BY <1>2, <1>3, SMT
    <2>3. files[b] = "durable" \/ b \in Elements(job.staged)
      BY <2>1, <2>2, <1>4 DEF Verifying
    <2>4. Keeps(files, files') /\ files' = files
      BY <1>9, KeepsSame
    <2> QED BY <2>3, <2>4, <1>5, <1>8, <1>9
  <1>10. CASE VerifyExisting(b, next)
    <2>1. \/ Fail /\ Keeps(files, files')
          \/ job' = next /\ Keeps(files, files') /\ files'[b] = "durable"
      BY <1>3, <1>10, VerifyStep
    <2>2. CASE Fail /\ Keeps(files, files')
      BY <2>2, FailStep
    <2>3. CASE job' = next /\ Keeps(files, files') /\ files'[b] = "durable"
      BY <2>3, <1>5, <1>8
    <2> QED BY <2>1, <2>2, <2>3
  <1>11. CASE files[b] = "absent" /\ job' = more /\ UNCHANGED files
    <2>1. Keeps(files, files')
      BY <1>11, KeepsSame
    <2> QED BY <2>1, <1>6, <1>7, <1>8, <1>11
  <1> QED BY <1>1, <1>9, <1>10, <1>11

\* Fencing the staged files: the whole cohort is durable or staged.
LEMMA FenceStep ==
    ASSUME files \in [Blob -> FileState], job \in JobType, JobInv,
           Wanted \subseteq Blob, Wanted' = Wanted, Fence
    PROVE  Published
  <1>1. /\ job.stage = "verify" /\ job.at > Len(Cohort) /\ files' = files
        /\ job' = [job EXCEPT !.stage = "link"]
    BY DEF Fence
  <1>2. /\ job' \in JobType /\ job'.stage = "link" /\ job'.rest = job.rest
        /\ job'.staged = job.staged
    BY <1>1 DEF JobType, JobStage
  <1>3. Keeps(files, files')
    BY <1>1, KeepsSame
  <1>4. Ahead /\ Verifying
    BY <1>1, JobInvWords
  <1>5. Ahead'
    BY <1>2, <1>3, <1>4, AheadKept
  <1>6. Cohort' = Cohort
    BY <1>2, CohortKept
  <1>7. Cohort \in Seq(Blob) /\ DOMAIN Cohort = 1 .. Len(Cohort) /\ Len(Cohort) \in Nat /\ job.at \in Nat
    BY CohortFacts, SMT DEF JobType
  <1>8. ASSUME NEW i \in 1 .. Len(Cohort)
        PROVE  files[Cohort[i]] = "durable" \/ Cohort[i] \in Elements(job.staged)
    <2>1. i < job.at
      BY <1>1, <1>7, SMT
    <2> QED BY <2>1, <1>4 DEF Verifying
  <1>9. \A b \in Elements(Cohort) : files[b] = "durable" \/ b \in Elements(job.staged)
    BY <1>7, <1>8 DEF Elements
  <1>10. Elements(job.staged)' = Elements(job.staged) /\ Elements(Cohort)' = Elements(Cohort)
    BY <1>2, <1>6 DEF Elements
  <1>11. Linking'
    BY <1>1, <1>9, <1>10 DEF Linking
  <1>12. JobInv'
    BY <1>2, <1>5, <1>11 DEF JobInv, Ahead, Linking
  <1> QED BY <1>2, <1>3, <1>12 DEF Published

\* A step of the linking loop that settles the head of the staged names.
LEMMA LinkingKept ==
    ASSUME job \in JobType, job' \in JobType, job.staged # <<>>, job.stage = "link",
           job'.stage = "link", job'.rest = job.rest, job'.staged = Tail(job.staged),
           JobInv, Wanted \subseteq Blob, Wanted' = Wanted, Keeps(files, files'),
           job.linked => job'.linked,
           \/ files'[Head(job.staged)] = "durable"
           \/ job'.linked /\ files'[Head(job.staged)] = "linked"
    PROVE  Published
  <1>1. Ahead /\ Linking
    BY JobInvWords
  <1>2. Ahead'
    BY <1>1, AheadKept
  <1>3. Cohort' = Cohort /\ Cohort \in Seq(Blob)
    BY CohortKept, CohortFacts
  <1>4. Elements(Cohort) \subseteq Blob
    BY <1>3, ElementsTyped
  <1>5. job.staged \in Seq(Blob)
    BY DEF JobType
  <1>6. Elements(job.staged) = {Head(job.staged)} \cup Elements(job'.staged)
    BY <1>5, ElementsTail, SMT
  <1>7. ASSUME NEW b \in Elements(Cohort)
        PROVE  \/ files'[b] = "durable"
               \/ b \in Elements(job'.staged)
               \/ job'.linked /\ files'[b] = "linked"
    <2>1. b \in Blob
      BY <1>4
    <2>2. CASE files[b] = "durable"
      BY <2>1, <2>2 DEF Keeps
    <2>3. CASE b \in Elements(job.staged)
      BY <2>3, <1>6
    <2>4. CASE job.linked /\ files[b] = "linked"
      BY <2>1, <2>4 DEF Keeps
    <2> QED BY <1>1, <2>2, <2>3, <2>4 DEF Linking
  <1>8. Elements(job.staged)' = Elements(job'.staged) /\ Elements(Cohort)' = Elements(Cohort)
    BY <1>3 DEF Elements
  <1>9. Linking'
    BY <1>7, <1>8 DEF Linking
  <1>10. JobInv'
    BY <1>2, <1>9 DEF JobInv, Ahead, Linking
  <1> QED BY <1>10 DEF Published

\* Linking a name, or verifying the file that won the race for it.
LEMMA LinkStep ==
    ASSUME files \in [Blob -> FileState], job \in JobType, JobInv,
           Wanted \subseteq Blob, Wanted' = Wanted, Link
    PROVE  Published
  <1> DEFINE b == Head(job.staged)
             next == [job EXCEPT !.staged = Tail(job.staged)]
             more == [next EXCEPT !.linked = TRUE]
  <1>1. /\ job.stage = "link" /\ job.staged # <<>>
        /\ \/ VerifyExisting(b, next)
           \/ /\ files[b] = "absent"
              /\ files' = [files EXCEPT ![b] = "linked"]
              /\ job' = more
    BY DEF Link
  <1>2. job.stage = "link" /\ job.staged # <<>> /\ job.staged \in Seq(Blob)
    BY <1>1 DEF JobType
  <1>3. b \in Blob /\ Tail(job.staged) \in Seq(Blob)
    BY <1>2, ElementsTail
  <1>4. /\ next \in JobType /\ next.stage = "link" /\ next.rest = job.rest
        /\ next.staged = Tail(job.staged) /\ next.linked = job.linked
    BY <1>2, <1>3 DEF JobType, JobStage
  <1>5. /\ more \in JobType /\ more.stage = "link" /\ more.rest = job.rest
        /\ more.staged = Tail(job.staged) /\ more.linked = TRUE
    <2> HIDE DEF next
    <2> QED BY <1>4 DEF JobType
  <1> HIDE DEF next, more, b
  <1>6. CASE VerifyExisting(b, next)
    <2>1. \/ Fail /\ Keeps(files, files')
          \/ job' = next /\ Keeps(files, files') /\ files'[b] = "durable"
      BY <1>3, <1>6, VerifyStep
    <2>2. CASE Fail /\ Keeps(files, files')
      BY <2>2, FailStep
    <2>3. CASE job' = next /\ Keeps(files, files') /\ files'[b] = "durable"
      BY <2>3, <1>2, <1>4, LinkingKept DEF b
    <2> QED BY <2>1, <2>2, <2>3
  <1>7. CASE files[b] = "absent" /\ files' = [files EXCEPT ![b] = "linked"] /\ job' = more
    <2>1. Keeps(files, files') /\ files'[b] = "linked"
      BY <1>3, <1>7, LinkedFacts
    <2> QED BY <2>1, <1>2, <1>5, <1>7, LinkingKept DEF b
  <1> QED BY <1>1, <1>6, <1>7

\* A publication, or its next cohort, starts at the first blob.
LEMMA FreshJobs ==
    ASSUME NEW blobs \in Seq(Blob)
    PROVE  /\ NextCohort(blobs) \in JobType /\ NextCohort(blobs).rest = blobs
           /\ NextCohort(blobs).at = 1 /\ NextCohort(blobs).stage \in {"verify", "done"}
           /\ NextCohort(blobs).stage = "done" => blobs = <<>>
           /\ StartPublish(blobs) \in JobType /\ StartPublish(blobs).rest = blobs
           /\ StartPublish(blobs).at = 1 /\ StartPublish(blobs).stage \in {"open", "done"}
           /\ StartPublish(blobs).stage = "done" => blobs = <<>>
  <1>1. ASSUME NEW stage \in JobStage
        PROVE  /\ [Idle EXCEPT !.stage = stage, !.rest = blobs] \in JobType
               /\ [Idle EXCEPT !.stage = stage, !.rest = blobs].rest = blobs
               /\ [Idle EXCEPT !.stage = stage, !.rest = blobs].at = 1
               /\ [Idle EXCEPT !.stage = stage, !.rest = blobs].stage = stage
    <2>1. Idle \in JobType /\ Idle.at = 1
      <3>1. << >> \in Seq(Blob) /\ 1 \in Nat \ {0}
        BY SMT
      <3> QED BY <3>1 DEF Idle, JobType, JobStage
    <2> QED BY <2>1 DEF JobType
  <1>2. CASE blobs = <<>>
    <2>1. /\ NextCohort(blobs) = [Idle EXCEPT !.stage = "done", !.rest = blobs]
          /\ StartPublish(blobs) = [Idle EXCEPT !.stage = "done", !.rest = blobs]
      BY <1>2 DEF NextCohort, StartPublish
    <2>2. "done" \in JobStage
      BY DEF JobStage
    <2> QED BY <1>1, <1>2, <2>1, <2>2, ZenonT(30)
  <1>3. CASE blobs # <<>>
    <2>1. /\ NextCohort(blobs) = [Idle EXCEPT !.stage = "verify", !.rest = blobs]
          /\ StartPublish(blobs) = [Idle EXCEPT !.stage = "open", !.rest = blobs]
      BY <1>3 DEF NextCohort, StartPublish
    <2>2. "verify" \in JobStage /\ "open" \in JobStage
      BY DEF JobStage
    <2> QED BY <1>1, <2>1, <2>2
  <1> QED BY <1>2, <1>3

\* The directory fence ends the cohort.
LEMMA SyncDirectoryStep ==
    ASSUME files \in [Blob -> FileState], job \in JobType, JobInv,
           Wanted \subseteq Blob, Wanted' = Wanted, SyncDirectory
    PROVE  Published
  <1> DEFINE left == SubSeq(job.rest, Len(Cohort) + 1, Len(job.rest))
  <1>1. /\ job.stage = "link" /\ job.staged = <<>>
        /\ files' = IF job.linked THEN DirectoryFenced(files) ELSE files
        /\ job' = NextCohort(left)
    BY DEF SyncDirectory
  <1>2. /\ Cohort \in Seq(Blob)
        /\ left \in Seq(Blob)
        /\ \A b \in Elements(job.rest) : b \in Elements(Cohort) \/ b \in Elements(left)
    BY CohortFacts
  <1> HIDE DEF left
  <1>3. /\ job' \in JobType /\ job'.rest = left /\ job'.at = 1
        /\ job'.stage \in {"verify", "done"} /\ (job'.stage = "done" => left = <<>>)
    BY <1>1, <1>2, FreshJobs
  <1>4. Ahead /\ Linking
    BY <1>1, JobInvWords
  <1>5. Keeps(files, files') /\ (job.linked => \A b \in Blob : files[b] = "linked" => files'[b] = "durable")
    BY <1>1, FencedFacts, KeepsSame
  <1>6. Elements(Cohort) \subseteq Blob
    BY <1>2, ElementsTyped
  <1>7. Elements(job.staged) = {}
    BY <1>1, SMT DEF Elements
  <1>8. ASSUME NEW b \in Elements(Cohort)
        PROVE  files'[b] = "durable"
    BY <1>4, <1>5, <1>6, <1>7 DEF Linking, Keeps
  <1>9. ASSUME NEW b \in Wanted
        PROVE  files'[b] = "durable" \/ b \in Elements(left)
    <2>1. CASE files[b] = "durable"
      BY <2>1, <1>5 DEF Keeps
    <2>2. CASE b \in Elements(job.rest)
      BY <2>2, <1>2, <1>8
    <2> QED BY <1>4, <2>1, <2>2 DEF Ahead
  <1>10. Elements(job.rest)' = Elements(left)
    BY <1>3 DEF Elements
  <1>11. Ahead'
    BY <1>9, <1>10 DEF Ahead
  <1>12. Verifying'
    BY <1>3, SMT DEF Verifying
  <1>13. JobInv'
    BY <1>3, <1>11, <1>12 DEF JobInv, Ahead, Verifying
  <1> QED BY <1>3, <1>5, <1>13 DEF Published

\* Every step of a publication.
LEMMA PublishStepKeeps ==
    ASSUME files \in [Blob -> FileState], job \in JobType, JobInv,
           Wanted \subseteq Blob, Wanted' = Wanted, PublishStep
    PROVE  Published /\ job.stage # "idle"
  <1>1. Published
    BY OpenStep, StageStep, FenceStep, LinkStep, SyncDirectoryStep DEF PublishStep
  <1>2. job.stage \in {"open", "verify", "link"}
    BY DEF PublishStep, OpenDirectory, Stage, Fence, Link, SyncDirectory
  <1> QED BY <1>1, <1>2

\* Every way a publication fails.
LEMMA PublishFailsKeeps ==
    ASSUME files \in [Blob -> FileState], job \in JobType, PublishFails
    PROVE  Published /\ job.stage # "idle"
  <1>1. job.stage \in {"open", "verify", "link"}
    BY DEF PublishFails, OpenDirectoryFails, StageFails, FenceFails, LinkFails, SyncDirectoryFails
  <1>2. ASSUME NEW b \in Blob, VerifyFails(b)
        PROVE  Published
    BY <1>2, InterruptedFacts, FailStep DEF VerifyFails
  <1>3. ASSUME Fail, UNCHANGED files
        PROVE  Published
    BY <1>3, KeepsSame, FailStep
  <1>4. CASE StageFails
    <2>1. Cohort \in Seq(Blob) /\ Len(Cohort) \in Nat /\ job.at \in Nat \ {0}
      BY CohortFacts DEF JobType
    <2>2. job.at <= Len(Cohort)
      BY <1>4 DEF StageFails
    <2>3. Cohort[job.at] \in Blob
      BY <2>1, <2>2, SMT
    <2>4. CASE VerifyFails(Cohort[job.at])
      BY <1>1, <1>2, <2>3, <2>4
    <2>5. CASE files[Cohort[job.at]] = "absent" /\ Fail /\ UNCHANGED files
      BY <1>1, <1>3, <2>5
    <2> QED BY <1>4, <2>4, <2>5 DEF StageFails
  <1>5. CASE LinkFails
    <2>1. job.staged \in Seq(Blob) /\ job.staged # <<>>
      BY <1>5 DEF LinkFails, JobType
    <2>2. Head(job.staged) \in Blob
      BY <2>1, ElementsTail
    <2>3. CASE VerifyFails(Head(job.staged))
      BY <1>1, <1>2, <2>2, <2>3
    <2>4. CASE files[Head(job.staged)] = "absent" /\ Fail /\ UNCHANGED files
      BY <1>1, <1>3, <2>4
    <2> QED BY <1>5, <2>3, <2>4 DEF LinkFails
  <1>6. CASE OpenDirectoryFails \/ FenceFails \/ SyncDirectoryFails
    BY <1>1, <1>3, <1>6 DEF OpenDirectoryFails, FenceFails, SyncDirectoryFails
  <1> QED BY <1>1, <1>4, <1>5, <1>6 DEF PublishFails

(***************************************************************************)
(* The whole invariant.                                                    *)
(***************************************************************************)
\* The files that are durable stay so.
DurableKept == \A b \in Blob : files[b] = "durable" => files'[b] = "durable"

\* Answers stay durable when the new ones are and nothing durable is lost.
LEMMA RepliesKept ==
    ASSUME RepliesDurable, DurableKept, safe \subseteq safe', NEW D,
           answered' \cup receipts' \subseteq answered \cup receipts \cup D,
           \A x \in D : (x \in Blob => files'[x] = "durable") /\ (x \notin Blob => x \in safe')
    PROVE  RepliesDurable'
  <1>1. ASSUME NEW x \in answered' \cup receipts'
        PROVE  IF x \in Blob THEN files'[x] = "durable" ELSE x \in safe'
    <2>1. CASE x \in D
      BY <2>1
    <2>2. CASE x \in answered \cup receipts
      <3>1. IF x \in Blob THEN files[x] = "durable" ELSE x \in safe
        BY <2>2 DEF RepliesDurable, Durable
      <3> QED BY <3>1 DEF DurableKept
    <2> QED BY <2>1, <2>2
  <1> QED BY <1>1 DEF RepliesDurable, Durable

\* The same when no answer is new.
LEMMA SameReplies ==
    ASSUME RepliesDurable, DurableKept, safe \subseteq safe', UNCHANGED <<answered, receipts>>
    PROVE  RepliesDurable'
  <1>1. ASSUME NEW x \in answered \cup receipts
        PROVE  IF x \in Blob THEN files'[x] = "durable" ELSE x \in safe'
    <2>1. IF x \in Blob THEN files[x] = "durable" ELSE x \in safe
      BY DEF RepliesDurable, Durable
    <2> QED BY <2>1 DEF DurableKept
  <1> QED BY <1>1 DEF RepliesDurable, Durable

\* An idle publication promises nothing; an unfinished batch neither.
LEMMA IdleFacts ==
    /\ Idle \in JobType /\ Idle.stage = "idle"
    /\ IsBatch(Off) /\ Off.stage = "off"
    /\ job' = Idle => JobInv'
  <1>1. Idle \in JobType /\ Idle.stage = "idle"
    BY SMT DEF Idle, JobType, JobStage
  <1>2. IsBatch(Off) /\ Off.stage = "off"
    <2>1. ASSUME NEW a, NEW b, NEW c, NEW d, NEW e, NEW f
          PROVE  IsBatch([stage |-> "off", at |-> a, records |-> <<>>, blobs |-> <<>>, replies |-> b,
                          bytes |-> b, count |-> c, last |-> d, summary |-> e, missing |-> f, conflict |-> f])
      BY SMT DEF IsBatch, BatchShape, BatchStage
    <2>2. IsBatch(Off)
      BY <2>1 DEF Off
    <2>3. Off.stage = "off"
      BY DEF Off
    <2> QED BY <2>2, <2>3
  <1>3. job' = Idle => JobInv'
    BY <1>1 DEF JobInv
  <1> QED BY <1>1, <1>2, <1>3

\* The stage of a batch can be set.
LEMMA StageSet ==
    ASSUME NEW r, IsBatch(r), NEW v \in BatchStage
    PROVE  /\ IsBatch([r EXCEPT !.stage = v]) /\ [r EXCEPT !.stage = v].stage = v
           /\ [r EXCEPT !.stage = v].records = r.records /\ [r EXCEPT !.stage = v].blobs = r.blobs
  BY DEF IsBatch, BatchShape

\* The list of records or of blobs can be replaced.
LEMMA ShapeSet ==
    ASSUME NEW r, BatchShape(r), NEW w
    PROVE  BatchShape([r EXCEPT !.records = w]) /\ BatchShape([r EXCEPT !.blobs = w])
  BY DEF BatchShape

\* A list of records stays one.
LEMMA RecordsSet ==
    ASSUME NEW r, IsBatch(r), NEW v \in Seq(Record)
    PROVE  IsBatch([r EXCEPT !.records = v]) /\ [r EXCEPT !.records = v].stage = r.stage
  <1> DEFINE s == [r EXCEPT !.records = v]
  <1>1. BatchShape(r)
    BY DEF IsBatch
  <1>2. BatchShape(s)
    BY <1>1, ShapeSet
  <1>3. s.records = v /\ s.stage = r.stage /\ s.blobs = r.blobs
    BY <1>1 DEF BatchShape
  <1> HIDE DEF s
  <1>4. IsBatch(s) /\ s.stage = r.stage
    BY <1>2, <1>3 DEF IsBatch
  <1> QED BY <1>4 DEF s

\* A list of blobs stays one.
LEMMA BlobsSet ==
    ASSUME NEW r, IsBatch(r), NEW v \in Seq(Blob)
    PROVE  IsBatch([r EXCEPT !.blobs = v]) /\ [r EXCEPT !.blobs = v].stage = r.stage
  <1> DEFINE s == [r EXCEPT !.blobs = v]
  <1>1. BatchShape(r)
    BY DEF IsBatch
  <1>2. BatchShape(s)
    BY <1>1, ShapeSet
  <1>3. s.blobs = v /\ s.stage = r.stage /\ s.records = r.records
    BY <1>1 DEF BatchShape
  <1> HIDE DEF s
  <1>4. IsBatch(s) /\ s.stage = r.stage
    BY <1>2, <1>3 DEF IsBatch
  <1> QED BY <1>4 DEF s

\* The counters and flags do not matter.
LEMMA FieldsSet ==
    ASSUME NEW r, IsBatch(r), NEW v
    PROVE  /\ IsBatch([r EXCEPT !.at = v]) /\ [r EXCEPT !.at = v].stage = r.stage
           /\ IsBatch([r EXCEPT !.replies = v]) /\ [r EXCEPT !.replies = v].stage = r.stage
           /\ IsBatch([r EXCEPT !.bytes = v]) /\ [r EXCEPT !.bytes = v].stage = r.stage
           /\ IsBatch([r EXCEPT !.count = v]) /\ [r EXCEPT !.count = v].stage = r.stage
           /\ IsBatch([r EXCEPT !.last = v]) /\ [r EXCEPT !.last = v].stage = r.stage
           /\ IsBatch([r EXCEPT !.summary = v]) /\ [r EXCEPT !.summary = v].stage = r.stage
           /\ IsBatch([r EXCEPT !.missing = v]) /\ [r EXCEPT !.missing = v].stage = r.stage
           /\ IsBatch([r EXCEPT !.conflict = v]) /\ [r EXCEPT !.conflict = v].stage = r.stage
           /\ [r EXCEPT !.conflict = v].records = r.records /\ [r EXCEPT !.conflict = v].blobs = r.blobs
  <1>1. IsBatch([r EXCEPT !.at = v]) /\ [r EXCEPT !.at = v].stage = r.stage
    BY DEF IsBatch, BatchShape
  <1>2. IsBatch([r EXCEPT !.replies = v]) /\ [r EXCEPT !.replies = v].stage = r.stage
    BY DEF IsBatch, BatchShape
  <1>3. IsBatch([r EXCEPT !.count = v]) /\ [r EXCEPT !.count = v].stage = r.stage
    BY DEF IsBatch, BatchShape
  <1>4. IsBatch([r EXCEPT !.last = v]) /\ [r EXCEPT !.last = v].stage = r.stage
    BY DEF IsBatch, BatchShape
  <1>5. IsBatch([r EXCEPT !.summary = v]) /\ [r EXCEPT !.summary = v].stage = r.stage
    BY DEF IsBatch, BatchShape
  <1>6. IsBatch([r EXCEPT !.missing = v]) /\ [r EXCEPT !.missing = v].stage = r.stage
    BY DEF IsBatch, BatchShape
  <1>7. /\ IsBatch([r EXCEPT !.conflict = v]) /\ [r EXCEPT !.conflict = v].stage = r.stage
        /\ [r EXCEPT !.conflict = v].records = r.records /\ [r EXCEPT !.conflict = v].blobs = r.blobs
    BY DEF IsBatch, BatchShape
  <1>8. IsBatch([r EXCEPT !.bytes = v]) /\ [r EXCEPT !.bytes = v].stage = r.stage
    BY DEF IsBatch, BatchShape
  <1> QED BY <1>1, <1>2, <1>3, <1>4, <1>5, <1>6, <1>7, <1>8

\* The blobs a publication is for are blobs.
LEMMA WantedTyped == ASSUME ShapeInv PROVE Wanted \subseteq Blob
  <1>1. batch.blobs \in Seq(Blob) /\ publishing \in Seq(Blob)
    BY DEF ShapeInv, IsBatch
  <1>2. Elements(batch.blobs) \subseteq Blob /\ Elements(publishing) \subseteq Blob
    BY <1>1, ElementsTyped
  <1> QED BY <1>2 DEF Wanted

\* Where nothing the invariant speaks of changes.
LEMMA InvSame ==
    ASSUME Inv, UNCHANGED <<batch, answered, owner, replicaVars, blobVars, logVars>>
    PROVE  Inv'
  <1>1. UNCHANGED <<batch, answered, owner, cache, shown, publishing, receipts, files, job, retained, safe>>
    BY DEF replicaVars, blobVars, logVars
  <1>2. ShapeInv' /\ LockInv' /\ AdapterExact'
    BY <1>1 DEF Inv, ShapeInv, LockInv, AdapterExact
  <1>3. Wanted' = Wanted /\ Cohort' = Cohort
    BY <1>1 DEF Wanted, Cohort, Elements
  <1>4. /\ Elements(job.rest)' = Elements(job.rest) /\ Elements(job.staged)' = Elements(job.staged)
        /\ Elements(Cohort)' = Elements(Cohort)
    BY <1>1, <1>3 DEF Elements
  <1>5. JobInv'
    BY <1>1, <1>3, <1>4 DEF Inv, JobInv
  <1>6. ReplyInv' /\ RepliesDurable'
    BY <1>1 DEF Inv, ReplyInv, RepliesDurable, Durable, Elements
  <1> QED BY <1>2, <1>5, <1>6 DEF Inv

\* Opening the archive for a restore.
LEMMA RestoresStep == ASSUME Inv, Restores PROVE Inv'
  <1>1. /\ owner = "none" /\ owner' = "restore"
        /\ batch' = [Off EXCEPT !.stage = "read", !.at = 1]
        /\ UNCHANGED <<answered, cache, shown, publishing, receipts, files, job, retained, safe>>
    BY DEF Restores, StartRestore, replicaVars, blobVars, logVars
  <1>2. IsBatch(batch') /\ batch'.stage = "read"
    <2> DEFINE first == [Off EXCEPT !.stage = "read"]
    <2>1. IsBatch(first) /\ first.stage = "read"
      <3>1. "read" \in BatchStage
        BY DEF BatchStage
      <3> QED BY <3>1, IdleFacts, StageSet
    <2>2. batch' = [first EXCEPT !.at = 1]
      BY <1>1
    <2> HIDE DEF first
    <2> QED BY <2>1, <2>2, FieldsSet
  <1>3. ShapeInv'
    BY <1>1, <1>2 DEF Inv, ShapeInv
  <1>4. job.stage = "idle" /\ cache = <<>> /\ shown = <<>> /\ publishing = <<>>
    BY <1>1 DEF Inv, LockInv
  <1>5. LockInv'
    BY <1>1, <1>2, <1>4 DEF LockInv
  <1>6. JobInv'
    BY <1>1, <1>4 DEF JobInv
  <1>7. ReplyInv' /\ AdapterExact' /\ RepliesDurable'
    BY <1>1, <1>2 DEF Inv, ReplyInv, AdapterExact, RepliesDurable, Durable
  <1> QED BY <1>3, <1>5, <1>6, <1>7 DEF Inv

\* A restore that ends, whether or not it answered before.
LEMMA EndsStep ==
    ASSUME Inv, owner = "restore", NEW code, Ends(code), UNCHANGED <<replicaVars, files>>,
           safe' \subseteq retained', RepliesDurable'
    PROVE  Inv'
  <1>1. /\ batch' = Off /\ owner' = "none" /\ job' = Idle
        /\ UNCHANGED <<cache, shown, publishing, receipts, files>>
    BY DEF Ends, replicaVars
  <1>2. ShapeInv' /\ JobInv'
    BY <1>1, IdleFacts DEF Inv, ShapeInv
  <1>3. cache = <<>> /\ shown = <<>> /\ publishing = <<>>
    BY DEF Inv, LockInv
  <1>4. LockInv' /\ ReplyInv' /\ AdapterExact'
    BY <1>1, <1>3, IdleFacts DEF LockInv, ReplyInv, AdapterExact
  <1> QED BY <1>2, <1>4 DEF Inv


\* A batch that took an entry is a batch, full or not.
LEMMA CollectedFacts ==
    ASSUME NEW next, IsBatch(next)
    PROVE  IsBatch(Collected(next)) /\ Collected(next).stage \in {"read", "flush"}
  <1> DEFINE at == next.at + 1
             moved == [next EXCEPT !.at = at]
             stage == IF next.replies >= FlushReplies \/ next.bytes >= FlushBytes THEN "flush" ELSE "read"
  <1>1. Collected(next) = [moved EXCEPT !.stage = stage]
    BY DEF Collected
  <1>2. stage \in BatchStage /\ stage \in {"read", "flush"}
    BY DEF BatchStage
  <1> HIDE DEF stage, at
  <1>3. IsBatch(moved)
    BY FieldsSet
  <1> HIDE DEF moved
  <1>4. IsBatch([moved EXCEPT !.stage = stage]) /\ [moved EXCEPT !.stage = stage].stage = stage
    BY <1>2, <1>3, StageSet
  <1> QED BY <1>1, <1>2, <1>4

\* An entry that is not refused leaves a batch of records and blobs.
LEMMA CollectFacts ==
    ASSUME IsBatch(batch), batch.stage = "read", Refusal = "none"
    PROVE  IsBatch(Collect) /\ Collect.stage \in {"read", "flush"}
  <1>1. batch.records \in Seq(Record) /\ batch.blobs \in Seq(Blob)
    BY DEF IsBatch
  <1> DEFINE type == Entry.type
             at == batch.at + 1
             replies == batch.replies + 1
             count == batch.count + 1
  <1>2. CASE type = "header"
    <2>1. Collect = [batch EXCEPT !.at = at]
      BY <1>2 DEF Collect
    <2> HIDE DEF at
    <2>2. IsBatch(Collect) /\ Collect.stage = "read"
      BY <2>1, FieldsSet
    <2> QED BY <2>2
  <1>3. CASE type = "operation"
    <2> DEFINE records == Append(batch.records, Entry.record)
               with == [batch EXCEPT !.records = records]
               counted == [with EXCEPT !.replies = replies]
               bytes == batch.bytes + Length[Entry.record]
               sized == [counted EXCEPT !.bytes = bytes]
               next == [sized EXCEPT !.count = count]
    <2>1. Entry.record \in Record
      BY <1>3 DEF Refusal
    <2>2. records \in Seq(Record)
      BY <1>1, <2>1, SMT
    <2>3. Collect = Collected(next)
      BY <1>3 DEF Collect
    <2> HIDE DEF records, replies, bytes, count
    <2>4. IsBatch(with)
      BY <2>2, RecordsSet
    <2> HIDE DEF with
    <2>5. IsBatch(counted)
      BY <2>4, FieldsSet
    <2> HIDE DEF counted
    <2>6. IsBatch(sized)
      BY <2>5, FieldsSet
    <2> HIDE DEF sized
    <2>7. IsBatch(next)
      BY <2>6, FieldsSet
    <2> HIDE DEF next
    <2> QED BY <2>3, <2>7, CollectedFacts
  <1>4. CASE type = "blob"
    <2> DEFINE blobs == Append(batch.blobs, Entry.blob)
               with == [batch EXCEPT !.blobs = blobs]
               counted == [with EXCEPT !.replies = replies]
               bytes == batch.bytes + Length[Entry.blob]
               next == [counted EXCEPT !.bytes = bytes]
    <2>1. Entry.blob \in Blob
      BY <1>4 DEF Refusal
    <2>2. blobs \in Seq(Blob)
      BY <1>1, <2>1, SMT
    <2>3. Collect = Collected(next)
      BY <1>4 DEF Collect
    <2> HIDE DEF blobs, replies, bytes
    <2>4. IsBatch(with)
      BY <2>2, BlobsSet
    <2> HIDE DEF with
    <2>5. IsBatch(counted)
      BY <2>4, FieldsSet
    <2> HIDE DEF counted
    <2>6. IsBatch(next)
      BY <2>5, FieldsSet
    <2> HIDE DEF next
    <2> QED BY <2>3, <2>6, CollectedFacts
  <1>5. CASE type = "missing"
    <2> DEFINE next == [batch EXCEPT !.missing = TRUE]
    <2>1. Collect = Collected(next)
      BY <1>5 DEF Collect
    <2>2. IsBatch(next)
      BY FieldsSet
    <2> HIDE DEF next
    <2> QED BY <2>1, <2>2, CollectedFacts
  <1>6. CASE type \notin {"header", "operation", "blob", "missing"}
    <2> DEFINE next == [batch EXCEPT !.summary = TRUE]
    <2>1. Collect = Collected(next)
      BY <1>6 DEF Collect
    <2>2. IsBatch(next)
      BY FieldsSet
    <2> HIDE DEF next
    <2> QED BY <2>1, <2>2, CollectedFacts
  <1> QED BY <1>2, <1>3, <1>4, <1>5, <1>6

\* A restore that only goes on reading.
LEMMA ReadingStep ==
    ASSUME Inv, batch.stage \in {"read", "reply"}, IsBatch(batch'),
           batch'.stage \in {"read", "flush"}, RepliesDurable',
           UNCHANGED <<owner, replicaVars, blobVars, logVars>>
    PROVE  Inv'
  <1>1. UNCHANGED <<owner, cache, shown, publishing, receipts, files, job, retained, safe>>
    BY DEF replicaVars, blobVars, logVars
  <1>2. owner = "restore" /\ publishing = <<>> /\ job.stage = "idle"
    BY DEF Inv, LockInv
  <1>3. ShapeInv' /\ AdapterExact'
    BY <1>1 DEF Inv, ShapeInv, AdapterExact
  <1>4. LockInv'
    BY <1>1, <1>2 DEF Inv, LockInv
  <1>5. JobInv'
    BY <1>1, <1>2 DEF JobInv
  <1>6. ReplyInv'
    BY <1>1 DEF Inv, ReplyInv
  <1> QED BY <1>3, <1>4, <1>5, <1>6 DEF Inv

\* Nothing durable is lost where the files and the log are left alone.
LEMMA RepliesUntouched ==
    ASSUME RepliesDurable, UNCHANGED <<files, logVars, answered, receipts>>
    PROVE  RepliesDurable'
  BY DEF RepliesDurable, Durable, logVars

\* Reading an entry, and reaching the end.
LEMMA ReadStep ==
    ASSUME Inv, ReadEntry \/ EndOfInput, UNCHANGED replicaVars
    PROVE  Inv'
  <1>1. IsBatch(batch) /\ batch.stage = "read" /\ owner = "restore"
    BY DEF ReadEntry, EndOfInput, Inv, ShapeInv, LockInv
  <1>2. UNCHANGED receipts
    BY DEF replicaVars
  <1>3. CASE ReadEntry /\ Refusal # "none"
    <2>1. Ends(Refusal) /\ UNCHANGED <<answered, files, logVars>>
      BY <1>3 DEF ReadEntry
    <2>2. RepliesDurable'
      BY <1>2, <2>1, RepliesUntouched DEF Inv
    <2>3. safe' \subseteq retained'
      BY <2>1 DEF logVars, Inv, ReplyInv
    <2> QED BY <1>1, <2>1, <2>2, <2>3, EndsStep
  <1>4. CASE ReadEntry /\ Refusal = "none"
    <2>1. batch' = Collect /\ UNCHANGED <<answered, owner, blobVars, logVars>>
      BY <1>4 DEF ReadEntry
    <2>2. IsBatch(batch') /\ batch'.stage \in {"read", "flush"}
      BY <1>1, <1>4, <2>1, CollectFacts
    <2>3. RepliesDurable'
      BY <1>2, <2>1, RepliesUntouched DEF Inv, blobVars
    <2> QED BY <1>1, <2>1, <2>2, <2>3, ReadingStep
  <1>5. CASE EndOfInput
    <2> DEFINE first == [batch EXCEPT !.stage = "flush"]
    <2>1. batch' = [first EXCEPT !.last = TRUE] /\ UNCHANGED <<answered, owner, blobVars, logVars>>
      BY <1>5 DEF EndOfInput
    <2>2. IsBatch(first) /\ first.stage = "flush"
      <3>1. "flush" \in BatchStage
        BY DEF BatchStage
      <3> QED BY <3>1, <1>1, StageSet
    <2> HIDE DEF first
    <2>3. IsBatch(batch') /\ batch'.stage = "flush"
      BY <2>1, <2>2, FieldsSet
    <2>4. RepliesDurable'
      BY <1>2, <2>1, RepliesUntouched DEF Inv, blobVars
    <2> QED BY <1>1, <2>1, <2>3, <2>4, ReadingStep
  <1> QED BY <1>3, <1>4, <1>5

\* Handing the blobs of a full batch to the blob store.
LEMMA StoreStep ==
    ASSUME Inv, StoreBlobs, UNCHANGED replicaVars
    PROVE  Inv'
  <1>1. /\ batch.stage = "flush" /\ job' = StartPublish(batch.blobs)
        /\ batch' = [batch EXCEPT !.stage = "blobs"]
        /\ UNCHANGED <<answered, owner, files, retained, safe, cache, shown, publishing, receipts>>
    BY DEF StoreBlobs, logVars, replicaVars
  <1>2. IsBatch(batch) /\ batch.blobs \in Seq(Blob) /\ owner = "restore" /\ publishing = <<>>
    BY <1>1 DEF Inv, ShapeInv, LockInv, IsBatch
  <1>3. IsBatch(batch') /\ batch'.stage = "blobs" /\ batch'.blobs = batch.blobs
    <2>1. "blobs" \in BatchStage
      BY DEF BatchStage
    <2> QED BY <1>1, <1>2, <2>1, StageSet
  <1>4. /\ job' \in JobType /\ job'.rest = batch.blobs /\ job'.at = 1
        /\ job'.stage \in {"open", "done"} /\ (job'.stage = "done" => batch.blobs = <<>>)
    BY <1>1, <1>2, FreshJobs
  <1>5. ShapeInv' /\ AdapterExact' /\ RepliesDurable'
    BY <1>1, <1>3, <1>4 DEF Inv, ShapeInv, AdapterExact, RepliesDurable, Durable
  <1>6. LockInv' /\ ReplyInv'
    BY <1>1, <1>2, <1>3, <1>4 DEF Inv, LockInv, ReplyInv
  <1>7. Wanted' = Elements(batch.blobs)
    BY <1>1, <1>2, <1>3 DEF Wanted, Elements
  <1>8. Elements(job.rest)' = Elements(batch.blobs)
    BY <1>4 DEF Elements
  <1>9. JobInv'
    BY <1>4, <1>7, <1>8 DEF JobInv
  <1> QED BY <1>5, <1>6, <1>9 DEF Inv

\* A publication that is done has made every wanted blob durable.
LEMMA DoneFacts ==
    ASSUME Inv, job.stage = "done"
    PROVE  \A b \in Wanted : files[b] = "durable"
  BY SMT DEF Inv, JobInv, Elements

\* Appending the records once the blobs are published.
LEMMA AppendStep ==
    ASSUME Inv, AppendRecords, UNCHANGED replicaVars
    PROVE  Inv'
  <1> DEFINE conflict == \/ batch.conflict
                         \/ \E i \in DOMAIN batch.records :
                              Admissions(retained, batch.records)[i] = "Conflict"
             first == [batch EXCEPT !.stage = "reply"]
  <1>1. /\ batch.stage = "blobs" /\ job.stage = "done" /\ job' = Idle
        /\ retained' = retained \cup Elements(batch.records)
        /\ safe' = safe \cup Elements(batch.records)
        /\ batch' = [first EXCEPT !.conflict = conflict]
        /\ UNCHANGED <<answered, owner, files, cache, shown, publishing, receipts>>
    BY DEF AppendRecords, AppendReturns, replicaVars
  <1> HIDE DEF conflict
  <1>2. IsBatch(batch) /\ owner = "restore" /\ cache = <<>> /\ shown = <<>> /\ publishing = <<>>
    BY <1>1 DEF Inv, ShapeInv, LockInv
  <1>3. IsBatch(first) /\ first.stage = "reply" /\ first.records = batch.records /\ first.blobs = batch.blobs
    <2>1. "reply" \in BatchStage
      BY DEF BatchStage
    <2> QED BY <1>2, <2>1, StageSet
  <1> HIDE DEF first
  <1>4. /\ IsBatch(batch') /\ batch'.stage = "reply"
        /\ batch'.records = batch.records /\ batch'.blobs = batch.blobs
    <2>1. /\ IsBatch(batch') /\ batch'.stage = first.stage
          /\ batch'.records = first.records /\ batch'.blobs = first.blobs
      BY <1>1, <1>3, FieldsSet
    <2> QED BY <1>3, <2>1
  <1>5. \A b \in Elements(batch.blobs) : files[b] = "durable"
    BY <1>1, <1>2, DoneFacts DEF Wanted
  <1>6. ShapeInv' /\ JobInv'
    BY <1>1, <1>4, IdleFacts DEF Inv, ShapeInv
  <1>7. LockInv' /\ AdapterExact'
    BY <1>1, <1>2, <1>4, IdleFacts DEF LockInv, AdapterExact
  <1>8. Elements(batch.records)' = Elements(batch.records) /\ Elements(batch.blobs)' = Elements(batch.blobs)
    BY <1>4 DEF Elements
  <1>9. ReplyInv'
    <2>1. safe' \subseteq retained'
      BY <1>1 DEF Inv, ReplyInv
    <2> QED BY <1>1, <1>5, <1>8, <2>1 DEF ReplyInv
  <1>10. RepliesDurable'
    BY <1>1, SameReplies DEF Inv, DurableKept
  <1> QED BY <1>6, <1>7, <1>9, <1>10 DEF Inv

\* Answering for a batch, and going on or ending.
LEMMA EmitStep ==
    ASSUME Inv, EmitReplies, UNCHANGED replicaVars
    PROVE  Inv'
  <1>1. /\ batch.stage = "reply"
        /\ answered' = answered \cup Elements(batch.records) \cup Elements(batch.blobs)
        /\ UNCHANGED <<files, retained, safe, receipts>>
    BY DEF EmitReplies, logVars, replicaVars
  <1>2. IsBatch(batch) /\ owner = "restore"
    BY <1>1 DEF Inv, ShapeInv, LockInv
  <1>3. /\ Elements(batch.records) \subseteq safe /\ safe \subseteq retained
        /\ \A b \in Elements(batch.blobs) : files[b] = "durable"
    BY <1>1 DEF Inv, ReplyInv
  <1>4. Elements(batch.records) \subseteq Record /\ Elements(batch.blobs) \subseteq Blob
    BY <1>2, ElementsTyped DEF IsBatch
  <1>5. RepliesDurable'
    <2> DEFINE D == Elements(batch.records) \cup Elements(batch.blobs)
    <2>1. \A x \in D : (x \in Blob => files'[x] = "durable") /\ (x \notin Blob => x \in safe')
      BY <1>1, <1>3, <1>4, DistinctAssumption
    <2>2. answered' \cup receipts' \subseteq answered \cup receipts \cup D
      BY <1>1
    <2>3. RepliesDurable /\ DurableKept /\ safe \subseteq safe'
      BY <1>1 DEF Inv, DurableKept
    <2> HIDE DEF D
    <2> QED BY <2>1, <2>2, <2>3, RepliesKept
  <1>6. CASE batch.last
    <2>1. Ends(ExitCode)
      BY <1>6 DEF EmitReplies
    <2>2. safe' \subseteq retained'
      BY <1>1, <1>3
    <2> QED BY <1>1, <1>2, <1>5, <2>1, <2>2, EndsStep
  <1>7. CASE ~batch.last
    <2> DEFINE first == [batch EXCEPT !.stage = "read"]
               second == [first EXCEPT !.records = <<>>]
               third == [second EXCEPT !.blobs = <<>>]
               fourth == [third EXCEPT !.replies = 0]
    <2>1. batch' = [fourth EXCEPT !.bytes = 0] /\ UNCHANGED <<owner, job>>
      BY <1>7 DEF EmitReplies
    <2>2. IsBatch(first) /\ first.stage = "read"
      <3>1. "read" \in BatchStage
        BY DEF BatchStage
      <3> QED BY <3>1, <1>2, StageSet
    <2> HIDE DEF first
    <2>3. IsBatch(second) /\ second.stage = "read"
      <3>1. <<>> \in Seq(Record)
        BY SMT
      <3> QED BY <3>1, <2>2, RecordsSet
    <2> HIDE DEF second
    <2>4. IsBatch(third) /\ third.stage = "read"
      <3>1. <<>> \in Seq(Blob)
        BY SMT
      <3> QED BY <3>1, <2>3, BlobsSet
    <2> HIDE DEF third
    <2>5. IsBatch(fourth) /\ fourth.stage = "read"
      BY <2>4, FieldsSet
    <2> HIDE DEF fourth
    <2>6. IsBatch(batch') /\ batch'.stage = "read"
      BY <2>1, <2>5, FieldsSet
    <2>7. UNCHANGED <<owner, replicaVars, blobVars, logVars>>
      BY <1>1, <2>1 DEF blobVars, logVars
    <2> QED BY <1>1, <1>5, <2>6, <2>7, ReadingStep
  <1> QED BY <1>6, <1>7

\* A restore that ends with an error.
LEMMA ErrorStep ==
    ASSUME Inv, BlobsFailed \/ AppendStops \/ OutputFails, UNCHANGED replicaVars
    PROVE  Inv'
  <1>1. /\ batch.stage \in {"blobs", "reply"} /\ Ends("io") /\ UNCHANGED <<answered, files, safe>>
        /\ retained \subseteq retained'
    BY DEF BlobsFailed, AppendStops, OutputFails, AppendFails, logVars
  <1>2. owner = "restore"
    BY <1>1 DEF Inv, LockInv
  <1>3. safe' \subseteq retained'
    BY <1>1 DEF Inv, ReplyInv
  <1>4. RepliesDurable'
    BY <1>1, SameReplies DEF Inv, DurableKept, replicaVars
  <1> QED BY <1>1, <1>2, <1>3, <1>4, EndsStep

\* What keeps every fence keeps the rest of the invariant.
LEMMA FilesStep ==
    ASSUME Inv, Keeps(files, files'), job' \in JobType, JobInv',
           job.stage = "idle" => job'.stage = "idle",
           UNCHANGED <<batch, answered, owner, replicaVars, logVars>>
    PROVE  Inv'
  <1>1. UNCHANGED <<batch, answered, owner, cache, shown, publishing, receipts, retained, safe>>
    BY DEF replicaVars, logVars
  <1>2. ShapeInv' /\ LockInv' /\ AdapterExact'
    BY <1>1 DEF Inv, ShapeInv, LockInv, AdapterExact, Keeps
  <1>3. Elements(batch.blobs) \subseteq Blob
    BY ElementsTyped DEF Inv, ShapeInv, IsBatch
  <1>4. ReplyInv'
    <2>1. Elements(batch.records)' = Elements(batch.records) /\ Elements(batch.blobs)' = Elements(batch.blobs)
      BY <1>1 DEF Elements
    <2> QED BY <1>1, <1>3, <2>1 DEF Inv, ReplyInv, Keeps
  <1>5. RepliesDurable'
    BY <1>1, SameReplies DEF Inv, DurableKept, Keeps
  <1> QED BY <1>2, <1>4, <1>5 DEF Inv

\* A step of a publication or its failure.
LEMMA PublicationStep ==
    ASSUME Inv, PublishStep \/ PublishFails,
           UNCHANGED <<batch, answered, owner, replicaVars, logVars>>
    PROVE  Inv'
  <1>1. files \in [Blob -> FileState] /\ job \in JobType /\ JobInv /\ Wanted \subseteq Blob
    BY WantedTyped DEF Inv, ShapeInv
  <1>2. Wanted' = Wanted
    BY DEF Wanted, Elements, replicaVars
  <1>3. Published /\ job.stage # "idle"
    BY <1>1, <1>2, PublishStepKeeps, PublishFailsKeeps
  <1> QED BY <1>3, FilesStep DEF Published

\* Another program's publication.
LEMMA OtherStep ==
    ASSUME Inv, NEW b \in Blob, OtherPublishes(b),
           UNCHANGED <<batch, answered, owner, replicaVars, logVars>>
    PROVE  Inv'
  <1>1. files \in [Blob -> FileState] /\ job \in JobType /\ JobInv /\ Wanted \subseteq Blob
    BY WantedTyped DEF Inv, ShapeInv
  <1>2. Wanted' = Wanted /\ job' = job /\ Keeps(files, files')
    <2>1. Wanted' = Wanted
      BY DEF Wanted, Elements, replicaVars
    <2>2. files[b] = "absent" /\ files' = [files EXCEPT ![b] = "linked"] /\ job' = job
      BY DEF OtherPublishes
    <2>3. Keeps(files, files')
      BY <1>1, <2>2, LinkedFacts
    <2> QED BY <2>1, <2>2, <2>3
  <1>3. Cohort' = Cohort /\ Cohort \in Seq(Blob)
    BY <1>1, <1>2, CohortKept, CohortFacts
  <1>4. /\ Elements(Cohort) \subseteq Blob /\ Elements(Cohort)' = Elements(Cohort)
        /\ Elements(job.staged)' = Elements(job.staged)
    BY <1>2, <1>3, ElementsTyped, SMT DEF Elements
  <1>5. Ahead => Ahead'
    BY <1>1, <1>2, AheadKept
  <1>6. ASSUME Verifying PROVE Verifying'
    <2>1. ASSUME NEW i \in 1 .. Len(Cohort), i < job.at
          PROVE  files'[Cohort[i]] = "durable" \/ Cohort[i] \in Elements(job.staged)
      <3>1. Cohort[i] \in Blob
        BY <1>3, SMT
      <3>2. files[Cohort[i]] = "durable" \/ Cohort[i] \in Elements(job.staged)
        BY <1>6, <2>1 DEF Verifying
      <3> QED BY <1>2, <3>1, <3>2 DEF Keeps
    <2> QED BY <1>2, <1>3, <1>4, <2>1 DEF Verifying
  <1>7. ASSUME Linking PROVE Linking'
    <2>1. ASSUME NEW c \in Elements(Cohort)
          PROVE  \/ files'[c] = "durable"
                 \/ c \in Elements(job.staged)
                 \/ job.linked /\ files'[c] = "linked"
      <3>1. c \in Blob
        BY <1>4
      <3>2. files[c] = "durable" \/ c \in Elements(job.staged) \/ (job.linked /\ files[c] = "linked")
        BY <1>7 DEF Linking
      <3> QED BY <1>2, <3>1, <3>2 DEF Keeps
    <2> QED BY <1>2, <1>4, <2>1 DEF Linking
  <1>8. JobInv'
    BY <1>1, <1>2, <1>5, <1>6, <1>7 DEF JobInv, Ahead, Verifying, Linking
  <1> QED BY <1>1, <1>2, <1>8, FilesStep

\* Nobody publishes while no batch or session waits for it.
LEMMA IdleKept ==
    ASSUME job' = job, job.stage = "idle"
    PROVE  JobInv'
  BY DEF JobInv

\* A session opens.
LEMMA OpenReplicaStep == ASSUME Inv, Opens PROVE Inv'
  <1>1. /\ owner = "none" /\ owner' = "replica" /\ cache' = <<>> /\ shown' = <<>> /\ publishing' = <<>>
        /\ UNCHANGED <<batch, answered, receipts, files, job, retained, safe>>
    BY DEF Opens, OpenReplica, archiveVars, blobVars, logVars
  <1>2. batch.stage = "off" /\ job.stage = "idle"
    BY <1>1 DEF Inv, LockInv
  <1>3. ShapeInv' /\ LockInv' /\ AdapterExact'
    BY <1>1, <1>2 DEF Inv, ShapeInv, LockInv, AdapterExact
  <1>4. JobInv'
    BY <1>1, <1>2, IdleKept
  <1>5. ReplyInv' /\ RepliesDurable'
    BY <1>1, <1>2 DEF Inv, ReplyInv, RepliesDurable, Durable
  <1> QED BY <1>3, <1>4, <1>5 DEF Inv

\* The adapter's own steps between publications.
LEMMA AdapterStep ==
    ASSUME Inv, owner = "replica", publishing = <<>>, UNCHANGED <<batch, answered, publishing, blobVars>>,
           owner' \in {"none", "replica"}, owner' = "none" => cache' = <<>> /\ shown' = <<>>,
           safe' \subseteq retained', AdapterExact', RepliesDurable'
    PROVE  Inv'
  <1>1. UNCHANGED <<batch, answered, publishing, files, job>>
    BY DEF blobVars
  <1>2. batch.stage = "off" /\ job.stage = "idle"
    BY DEF Inv, LockInv
  <1>3. ShapeInv' /\ LockInv'
    BY <1>1, <1>2 DEF Inv, ShapeInv, LockInv
  <1>4. JobInv'
    BY <1>1, <1>2, IdleKept
  <1>5. ReplyInv'
    BY <1>1, <1>2 DEF ReplyInv
  <1> QED BY <1>3, <1>4, <1>5 DEF Inv

\* Fencing the log, closing, and failing to fence.
LEMMA QuietStep ==
    ASSUME Inv, CloseReplica \/ Snapshot \/ SnapshotFails, UNCHANGED archiveVars
    PROVE  Inv'
  <1>1. owner = "replica" /\ publishing = <<>> /\ UNCHANGED <<batch, answered, publishing, receipts, blobVars, files>>
    BY DEF CloseReplica, Snapshot, SnapshotFails, Ready, archiveVars, blobVars
  <1>2. safe \subseteq retained /\ (cache # <<>> => cache[1] = retained) /\ RepliesDurable
    BY DEF Inv, ReplyInv, AdapterExact
  <1>3. CASE CloseReplica \/ SnapshotFails
    <2>1. /\ owner' \in {"none", "replica"} /\ cache' = <<>> /\ shown' = <<>>
          /\ UNCHANGED <<retained, safe>>
      BY <1>1, <1>3 DEF CloseReplica, SnapshotFails, logVars
    <2>2. AdapterExact'
      BY <2>1 DEF AdapterExact
    <2>3. RepliesDurable'
      BY <1>1, <1>2, <2>1, SameReplies DEF DurableKept
    <2> QED BY <1>1, <1>2, <2>1, <2>2, <2>3, AdapterStep
  <1>4. CASE Snapshot
    <2>1. /\ owner' = owner /\ cache' = <<Known>> /\ shown' = <<Known>>
          /\ safe' = retained /\ retained' = retained
      BY <1>4 DEF Snapshot, SyncLog
    <2>2. Known = retained
      BY <1>2 DEF Known
    <2>3. AdapterExact'
      BY <2>1, <2>2 DEF AdapterExact
    <2>4. RepliesDurable'
      BY <1>1, <1>2, <2>1, SameReplies DEF DurableKept
    <2> QED BY <1>1, <1>2, <2>1, <2>3, <2>4, AdapterStep
  <1> QED BY <1>3, <1>4

\* Records of a peer that were stored and fenced.
LEMMA IngestStep ==
    ASSUME Inv, NEW records \in Offers, Ingest(records), UNCHANGED archiveVars
    PROVE  Inv'
  <1> DEFINE all == Elements(records)
  <1>1. /\ owner = "replica" /\ publishing = <<>> /\ shown # <<>> /\ owner' = owner
        /\ UNCHANGED <<batch, answered, publishing, blobVars, files>>
    BY DEF Ingest, Ready, archiveVars, blobVars
  <1>2. /\ safe \subseteq retained /\ (cache # <<>> => cache[1] = retained) /\ RepliesDurable
        /\ shown[1] \subseteq safe
    BY <1>1 DEF Inv, ReplyInv, AdapterExact
  <1>3. Known = retained
    BY <1>2 DEF Known
  <1>4. /\ retained' = retained \cup all
        /\ safe \cup all \subseteq safe' /\ safe' \subseteq retained'
        /\ cache' = <<retained \cup all>> /\ shown' = <<shown[1] \cup all>>
        /\ receipts' = receipts \cup all
    BY <1>2, <1>3 DEF Ingest
  <1>5. AdapterExact'
    BY <1>2, <1>4 DEF AdapterExact
  <1>6. records \in Seq(Record)
    BY CopyAssumption
  <1>7. all \subseteq Record
    BY <1>6, ElementsTyped
  <1> HIDE DEF all
  <1>8. RepliesDurable'
    <2>1. \A x \in all : (x \in Blob => files'[x] = "durable") /\ (x \notin Blob => x \in safe')
      BY <1>4, <1>7, DistinctAssumption
    <2>2. answered' \cup receipts' \subseteq answered \cup receipts \cup all
      BY <1>1, <1>4
    <2>3. DurableKept /\ safe \subseteq safe'
      BY <1>1, <1>4 DEF DurableKept
    <2> QED BY <1>2, <2>1, <2>2, <2>3, RepliesKept
  <1> QED BY <1>1, <1>4, <1>5, <1>8, AdapterStep

\* A write that failed half-way.
LEMMA IngestFailsStep ==
    ASSUME Inv, NEW records, IngestFails(records), UNCHANGED archiveVars
    PROVE  Inv'
  <1>1. /\ owner = "replica" /\ publishing = <<>> /\ owner' = owner /\ cache' = <<>> /\ shown' = <<>>
        /\ UNCHANGED <<batch, answered, publishing, receipts, blobVars, files, safe>>
        /\ retained \subseteq retained'
    BY DEF IngestFails, AppendFails, Ready, archiveVars, blobVars
  <1>2. safe \subseteq retained /\ RepliesDurable
    BY DEF Inv, ReplyInv
  <1>3. AdapterExact'
    BY <1>1 DEF AdapterExact
  <1>4. RepliesDurable'
    BY <1>1, <1>2, SameReplies DEF DurableKept
  <1> QED BY <1>1, <1>2, <1>3, <1>4, AdapterStep

\* A session starts to publish a blob.
LEMMA PublishBlobStep ==
    ASSUME Inv, NEW b \in Blob, PublishBlob(b), UNCHANGED archiveVars
    PROVE  Inv'
  <1>1. /\ owner = "replica" /\ owner' = owner /\ publishing' = <<b>> /\ job' = StartPublish(<<b>>)
        /\ UNCHANGED <<batch, answered, cache, shown, receipts, files, retained, safe>>
    BY DEF PublishBlob, Ready, archiveVars, logVars
  <1>2. <<b>> \in Seq(Blob) /\ <<b>> # <<>>
    BY SMT
  <1>3. /\ job' \in JobType /\ job'.rest = <<b>> /\ job'.at = 1
        /\ job'.stage \in {"open", "done"} /\ (job'.stage = "done" => <<b>> = <<>>)
    <2> DEFINE one == <<b>>
    <2>1. one \in Seq(Blob) /\ job' = StartPublish(one)
      BY <1>1, <1>2
    <2> HIDE DEF one
    <2>2. /\ job' \in JobType /\ job'.rest = one /\ job'.at = 1
          /\ job'.stage \in {"open", "done"} /\ (job'.stage = "done" => one = <<>>)
      BY <2>1, FreshJobs
    <2> QED BY <2>2 DEF one
  <1>4. ShapeInv' /\ LockInv' /\ AdapterExact'
    BY <1>1, <1>2, <1>3 DEF Inv, ShapeInv, LockInv, AdapterExact
  <1>5. ReplyInv' /\ RepliesDurable'
    BY <1>1 DEF Inv, ReplyInv, RepliesDurable, Durable, Elements
  <1>6. Wanted' = Elements(<<b>>) /\ Elements(job.rest)' = Elements(<<b>>)
    BY <1>1, <1>3 DEF Wanted, Elements
  <1>7. JobInv'
    BY <1>2, <1>3, <1>6 DEF JobInv
  <1> QED BY <1>4, <1>5, <1>7 DEF Inv

\* The session learns how the publication ended.
LEMMA BlobPublishedStep ==
    ASSUME Inv, BlobPublished, UNCHANGED archiveVars
    PROVE  Inv'
  <1>1. /\ owner = "replica" /\ owner' = owner /\ publishing' = <<>> /\ job' = Idle
        /\ UNCHANGED <<batch, answered, cache, files, retained, safe>>
        /\ shown' = shown \/ shown' = <<>>
        /\ receipts' = IF job.stage = "done" THEN receipts \cup Elements(publishing) ELSE receipts
    BY DEF BlobPublished, archiveVars, logVars
  <1>2. ShapeInv' /\ JobInv'
    <2>1. <<>> \in Seq(Blob)
      BY SMT
    <2> QED BY <1>1, <2>1, IdleFacts DEF Inv, ShapeInv
  <1>3. LockInv' /\ AdapterExact'
    BY <1>1, IdleFacts DEF Inv, LockInv, AdapterExact
  <1>4. ReplyInv'
    BY <1>1 DEF Inv, ReplyInv, Elements
  <1>5. Elements(publishing) \subseteq Blob
    BY ElementsTyped DEF Inv, ShapeInv
  <1>6. RepliesDurable /\ DurableKept /\ safe \subseteq safe'
    BY <1>1 DEF Inv, DurableKept
  <1>7. RepliesDurable'
    <2>1. CASE job.stage = "done"
      <3>1. \A x \in Elements(publishing) : files[x] = "durable"
        BY <1>1, <2>1, DoneFacts DEF Wanted
      <3>2. \A x \in Elements(publishing) :
               (x \in Blob => files'[x] = "durable") /\ (x \notin Blob => x \in safe')
        BY <1>1, <1>5, <3>1
      <3>3. answered' \cup receipts' \subseteq answered \cup receipts \cup Elements(publishing)
        BY <1>1, <2>1
      <3> QED BY <1>6, <3>2, <3>3, RepliesKept
    <2>2. CASE job.stage # "done"
      BY <1>1, <1>6, <2>2, SameReplies
    <2> QED BY <2>1, <2>2
  <1> QED BY <1>2, <1>3, <1>4, <1>7 DEF Inv

\* The process that holds the lock dies, with or without the machine.
LEMMA CrashStep ==
    ASSUME Inv, Crash \/ PowerLoss
    PROVE  Inv'
  <1>1. /\ owner' = "none" /\ batch' = Off /\ job' = Idle /\ cache' = <<>> /\ shown' = <<>>
        /\ publishing' = <<>> /\ UNCHANGED <<answered, receipts>>
    BY DEF Crash, PowerLoss, ProcessEnds
  <1>2. files \in [Blob -> FileState] /\ safe \subseteq retained /\ RepliesDurable
    BY DEF Inv, ShapeInv, ReplyInv
  <1>3. /\ files' \in [Blob -> FileState] /\ DurableKept
        /\ safe \subseteq safe' /\ safe' \subseteq retained'
    <2>1. CASE Crash
      BY <1>2, <2>1 DEF Crash, logVars, DurableKept
    <2>2. CASE PowerLoss
      <3>1. files' \in [Blob -> FileState] /\ DurableKept
        BY <1>2, <2>2, PowerLossFacts DEF PowerLoss, DurableKept
      <3>2. safe \subseteq safe' /\ safe' \subseteq retained'
        BY <1>2, <2>2 DEF PowerLoss, LogPowerLoss
      <3> QED BY <3>1, <3>2
    <2> QED BY <2>1, <2>2
  <1>4. ShapeInv' /\ JobInv'
    <2>1. <<>> \in Seq(Blob)
      BY SMT
    <2> QED BY <1>1, <1>3, <2>1, IdleFacts DEF ShapeInv
  <1>5. LockInv' /\ AdapterExact'
    BY <1>1, IdleFacts DEF LockInv, AdapterExact
  <1>6. ReplyInv'
    BY <1>1, <1>3, IdleFacts DEF ReplyInv
  <1>7. RepliesDurable'
    BY <1>1, <1>2, <1>3, SameReplies
  <1> QED BY <1>4, <1>5, <1>6, <1>7 DEF Inv

\* The invariant holds initially.
LEMMA InvInit == Init => Inv
  <1> SUFFICES ASSUME Init PROVE Inv
    OBVIOUS
  <1>1. /\ batch = Off /\ job = Idle /\ owner = "none" /\ cache = <<>> /\ shown = <<>>
        /\ publishing = <<>> /\ answered = {} /\ receipts = {} /\ safe = retained
        /\ files \in [Blob -> FileState]
    BY CopyAssumption DEF Init, ArchiveInit, ReplicaInit
  <1>2. <<>> \in Seq(Blob)
    BY SMT
  <1>3. ShapeInv /\ LockInv /\ ReplyInv
    BY <1>1, <1>2, IdleFacts DEF ShapeInv, LockInv, ReplyInv
  <1>4. JobInv
    BY <1>1, IdleFacts DEF JobInv
  <1>5. AdapterExact /\ RepliesDurable
    BY <1>1 DEF AdapterExact, RepliesDurable
  <1> QED BY <1>3, <1>4, <1>5 DEF Inv

\* Every step keeps it.
LEMMA InvStep == Inv /\ [Next]_vars => Inv'
  <1> SUFFICES ASSUME Inv, [Next]_vars PROVE Inv'
    OBVIOUS
  <1>1. CASE Exports \/ Arrives \/ UNCHANGED vars
    <2>1. UNCHANGED <<batch, answered, owner, replicaVars, blobVars, logVars>>
      BY <1>1 DEF Exports, Export, Arrives, SourceBlobArrives, vars, archiveVars
    <2> QED BY <2>1, InvSame
  <1>2. CASE Restores
    BY <1>2, RestoresStep
  <1>3. CASE RestoreSteps
    BY <1>3, ReadStep, StoreStep, AppendStep, EmitStep, ErrorStep DEF RestoreSteps, RestoreStep
  <1>4. CASE Publishes
    BY <1>4, PublicationStep DEF Publishes, archiveVars
  <1>5. CASE Opens
    BY <1>5, OpenReplicaStep
  <1>6. CASE SessionSteps
    BY <1>6, QuietStep, IngestStep, PublishBlobStep, BlobPublishedStep DEF SessionSteps
  <1>7. CASE Faults
    <2>1. CASE PublishFails /\ UNCHANGED <<archiveVars, replicaVars, logVars, owner>>
      BY <2>1, PublicationStep DEF archiveVars
    <2>2. CASE (\E b \in Blob : OtherPublishes(b)) /\ UNCHANGED <<archiveVars, replicaVars, logVars, owner>>
      BY <2>2, OtherStep DEF archiveVars
    <2>3. CASE (AppendStops \/ OutputFails) /\ UNCHANGED replicaVars
      BY <2>3, ErrorStep
    <2>4. CASE SnapshotFails /\ UNCHANGED archiveVars
      BY <2>4, QuietStep
    <2>5. CASE (\E records \in Offers : IngestFails(records)) /\ UNCHANGED archiveVars
      BY <2>5, IngestFailsStep
    <2>6. CASE Crash \/ PowerLoss
      BY <2>6, CrashStep
    <2> QED BY <1>7, <2>1, <2>2, <2>3, <2>4, <2>5, <2>6 DEF Faults
  <1> QED BY <1>1, <1>2, <1>3, <1>4, <1>5, <1>6, <1>7 DEF Next

\* The copy invariant is an invariant of ChainCopy.
THEOREM CopyInvariant == Spec => []Inv
  BY InvInit, InvStep, PTL DEF Spec

\* RepliesDurable: what archive.rs flush has answered for, and what a session
\* was told is received, survives every crash and power loss.
THEOREM RepliesAreDurable == Spec => []RepliesDurable
  <1>1. Inv => RepliesDurable
    BY DEF Inv
  <1> QED BY <1>1, CopyInvariant, PTL

\* AdapterExact: the evidence StoreReplica caches is what the log holds, also
\* after a write that failed half-way.
THEOREM AdapterStaysExact == Spec => []AdapterExact
  <1>1. Inv => AdapterExact
    BY DEF Inv
  <1> QED BY <1>1, CopyInvariant, PTL
=============================================================================
