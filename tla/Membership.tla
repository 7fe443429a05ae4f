---------------------------- MODULE Membership -----------------------------
(***************************************************************************)
(* The approved devices of a shared space (editchain-sync, membership.rs). *)
(*                                                                         *)
(* Peer workers are processes of one host that share a chain directory.    *)
(* An approval or revocation reads the member file, edits its copy and     *)
(* replaces the file atomically, all under the chain's writer lock.        *)
(* Connections read the file without the lock.                             *)
(***************************************************************************)
EXTENDS Naturals, Sequences, FiniteSets

CONSTANTS
    Worker,         \* peer worker processes
    Device,         \* remote device identities
    MaxDevices      \* MAX_DEVICES

ASSUME MembershipAssumption ==
    /\ MaxDevices \in Nat
    /\ IsFiniteSet(Device)
    /\ "free" \notin Worker

VARIABLES
    members,    \* devices in the member file
    survivors,  \* member sets a power loss may leave in the file
    lock,       \* holder of the chain's writer lock, if any
    call,       \* the request each worker is handling
    approved,   \* devices whose approval returned, and no revocation since
    revoked     \* devices whose revocation returned, and no approval since

fileVars == <<members, survivors, lock>>
ghostVars == <<approved, revoked>>
membershipVars == <<fileVars, ghostVars, call>>

\* A worker without a request.  "barred" holds the devices whose revocation
\* returned before the worker's turn began.
None == [op |-> "none", stage |-> "none", devices |-> {}, copy |-> {}, key |-> 0, barred |-> {}]

At(w, op, stage) == call[w].op \in op /\ call[w].stage = stage

Moves(w, stage) == call' = [call EXCEPT ![w].stage = stage]

Returns(w) == call' = [call EXCEPT ![w] = None]

Edits == {"approve", "revoke"}

\* A request to approve or to revoke one device.
BeginEdit(w, op, d) ==
    /\ call[w] = None
    /\ call' = [call EXCEPT ![w] = [None EXCEPT !.op = op, !.stage = "lock", !.devices = {d}]]
    /\ UNCHANGED <<fileVars, ghostVars>>

\* Reading the members before the lock is there.
LoadUnlocked(w) ==
    /\ At(w, Edits, "lock")
    /\ lock' = w
    /\ call' = [call EXCEPT ![w].stage = "save", ![w].copy = members]
    /\ UNCHANGED <<members, survivors, ghostVars>>

Load(w) ==
    /\ At(w, Edits, "lock")
    /\ lock = "free"
    /\ Cardinality(members) <= MaxDevices
    /\ lock' = w
    /\ call' = [call EXCEPT ![w].stage = "save", ![w].copy = members]
    /\ UNCHANGED <<members, survivors, ghostVars>>

\* A writer that stays busy, or a member file that cannot be read.
LoadFails(w) ==
    /\ At(w, Edits, "lock")
    /\ lock # "free" \/ Cardinality(members) > MaxDevices
    /\ Returns(w)
    /\ UNCHANGED <<fileVars, ghostVars>>

Edited(w) ==
    IF call[w].op = "approve" THEN call[w].copy \cup call[w].devices
    ELSE call[w].copy \ call[w].devices

\* Too many devices: nothing is saved.
Refuse(w) ==
    /\ At(w, {"approve"}, "save")
    /\ Cardinality(Edited(w)) > MaxDevices
    /\ lock' = "free"
    /\ Returns(w)
    /\ UNCHANGED <<members, survivors, ghostVars>>

\* The complete new file takes the old one's name.  A device that is approved
\* again is barred from no turn any more.
Save(w) ==
    /\ At(w, Edits, "save")
    /\ call[w].op = "approve" => Cardinality(Edited(w)) <= MaxDevices
    /\ members' = Edited(w)
    /\ survivors' = survivors \cup {Edited(w)}
    /\ approved' = IF call[w].op = "revoke" THEN approved \ call[w].devices ELSE approved
    /\ revoked' = IF call[w].op = "approve" THEN revoked \ call[w].devices ELSE revoked
    /\ call' = [v \in Worker |->
         [call[v] EXCEPT !.stage = IF v = w THEN "saved" ELSE @, !.barred = @ \cap revoked']]
    /\ UNCHANGED lock

\* The directory is fenced and the request returns.
SaveReturns(w) ==
    /\ At(w, Edits, "saved")
    /\ survivors' = {members}
    /\ approved' = IF call[w].op = "approve" THEN approved \cup call[w].devices ELSE approved
    /\ revoked' = IF call[w].op = "revoke" THEN revoked \cup call[w].devices ELSE revoked
    /\ lock' = "free"
    /\ Returns(w)
    /\ UNCHANGED members

\* Writing or fencing the new file fails; the lock is dropped.
SaveFails(w) ==
    /\ At(w, Edits, "save") \/ At(w, Edits, "saved")
    /\ lock' = "free"
    /\ Returns(w)
    /\ UNCHANGED <<members, survivors, ghostVars>>

EditStep(w) == Load(w) \/ LoadFails(w) \/ Refuse(w) \/ Save(w) \/ SaveReturns(w)

\* require: the file is read as it is now, without the lock.
require(d) == Cardinality(members) <= MaxDevices /\ d \in members

MembershipInit ==
    /\ members = {}
    /\ survivors = {{}}
    /\ lock = "free"
    /\ call = [w \in Worker |-> None]
    /\ approved = {}
    /\ revoked = {}
=============================================================================
