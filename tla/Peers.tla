------------------------------- MODULE Peers -------------------------------
(***************************************************************************)
(* Peer workers (editchain-sync, ipc.rs) and their secure connections      *)
(* (secure.rs): each worker handles one local request at a time and owns   *)
(* at most one connection.  Member file, credentials and locks are shared  *)
(* with the other workers of the host, so a revocation in one worker runs  *)
(* beside the turns of another.                                            *)
(*                                                                         *)
(* TLS is external: a handshake completes only with a certificate from the *)
(* roots the connection was opened with.  What a session answers to a      *)
(* message is the subject of Session and Sharing; here a turn serves the   *)
(* device or does not.                                                     *)
(***************************************************************************)
EXTENDS Identity

CONSTANTS
    Editors,        \* workers that are asked to approve and revoke
    Hosts,          \* workers that are asked to open connections
    MaxMessages,    \* messages one turn may carry (512)
    MaxEdits,       \* bound on approvals and revocations
    MaxOpens,       \* bound on connections opened
    MaxFaults       \* bound on I/O errors, crashes and power losses

ASSUME PeersAssumption == Editors \subseteq Worker /\ Hosts \subseteq Worker

VARIABLES
    peer,       \* each worker's connection
    used        \* how much of each bound is spent

vars == <<membershipVars, deviceVars, peer, used>>

Spend(what, bound) ==
    /\ used[what] < bound
    /\ used' = [used EXCEPT ![what] = @ + 1]

Closed == [open |-> FALSE, roots |-> {}, expected |-> {}, device |-> {}, failed |-> FALSE]

(***************************************************************************)
(* Open                                                                    *)
(***************************************************************************)
\* The devices asked for: one to connect to, none to accept a client.  A
\* worker whose connection is open refuses, also after it failed.
BeginOpen(w, remote) ==
    /\ call[w] = None
    /\ ~peer[w].open
    /\ call' = [call EXCEPT ![w] = [None EXCEPT !.op = "open", !.stage = "device", !.devices = remote]]
    /\ UNCHANGED <<fileVars, ghostVars, deviceVars, peer>>

\* A client pins one approved certificate; a server accepts the ones approved
\* now, and needs one.  Opening the replica takes the writer lock for a moment.
Connect(w) ==
    /\ At(w, {"open"}, "connect")
    /\ lock = "free"
    /\ IF call[w].devices # {} THEN \A d \in call[w].devices : require(d)
       ELSE members # {} /\ Cardinality(members) <= MaxDevices
    /\ peer' = [peer EXCEPT ![w] =
         [open |-> TRUE, expected |-> call[w].devices, device |-> {}, failed |-> FALSE,
          roots |-> IF call[w].devices # {} THEN call[w].devices ELSE members]]
    /\ Returns(w)
    /\ UNCHANGED <<fileVars, ghostVars, deviceVars>>

ConnectFails(w) ==
    /\ At(w, {"open"}, "connect")
    /\ \/ lock # "free"
       \/ \E d \in call[w].devices : ~require(d)
       \/ call[w].devices = {} /\ (members = {} \/ Cardinality(members) > MaxDevices)
    /\ Returns(w)
    /\ UNCHANGED <<fileVars, ghostVars, deviceVars, peer>>

(***************************************************************************)
(* Turn                                                                    *)
(***************************************************************************)
FailTurn(w) ==
    /\ peer' = [peer EXCEPT ![w].failed = TRUE]
    /\ Returns(w)

\* An authenticated device is only looked up when it is authenticated.
BeginTurnTrusting(w) ==
    /\ call[w] = None
    /\ peer[w].open /\ ~peer[w].failed
    /\ call' = [call EXCEPT ![w] = [None EXCEPT !.op = "turn", !.stage = "input", !.barred = revoked]]
    /\ UNCHANGED <<fileVars, ghostVars, deviceVars, peer>>

\* Every turn of an authenticated connection rechecks the member file.  A chunk
\* that is too long fails the turn like any other bad input (TurnFails).
BeginTurn(w) ==
    /\ call[w] = None
    /\ peer[w].open /\ ~peer[w].failed
    /\ IF \A d \in peer[w].device : require(d)
       THEN /\ call' = [call EXCEPT ![w] = [None EXCEPT !.op = "turn", !.stage = "input", !.barred = revoked]]
            /\ UNCHANGED peer
       ELSE FailTurn(w)
    /\ UNCHANGED <<fileVars, ghostVars, deviceVars>>

\* The handshake completes with a certificate of the roots; the device must
\* be approved at that moment and be the one that was asked for.
Handshake(w, d) ==
    /\ At(w, {"turn"}, "input")
    /\ peer[w].device = {}
    /\ IF d \in peer[w].roots /\ require(d) /\ peer[w].expected \in {{}, {d}}
       THEN /\ peer' = [peer EXCEPT ![w].device = {d}]
            /\ UNCHANGED call
       ELSE FailTurn(w)
    /\ UNCHANGED <<fileVars, ghostVars, deviceVars>>

\* Messages, a tick or both: an authenticated device is answered, up to the
\* bound on messages; any other application bytes end the connection.
Serve(w, messages, tick) ==
    /\ At(w, {"turn"}, "input")
    /\ messages > 0 \/ tick
    /\ IF (messages > 0 /\ peer[w].device = {}) \/ messages > MaxMessages
       THEN FailTurn(w)
       ELSE Returns(w) /\ UNCHANGED peer
    /\ UNCHANGED <<fileVars, ghostVars, deviceVars>>

\* A turn whose bytes complete nothing returns what TLS has to say.
EndTurn(w) ==
    /\ At(w, {"turn"}, "input")
    /\ Returns(w)
    /\ UNCHANGED <<fileVars, ghostVars, deviceVars, peer>>

\* The remote closes TLS, or the session or the transport fails.
TurnFails(w) ==
    /\ At(w, {"turn"}, "input")
    /\ FailTurn(w)
    /\ UNCHANGED <<fileVars, ghostVars, deviceVars>>

Close(w) ==
    /\ call[w] = None
    /\ peer[w].open
    /\ peer' = [peer EXCEPT ![w] = Closed]
    /\ UNCHANGED <<membershipVars, deviceVars>>

(***************************************************************************)
(* Faults                                                                  *)
(***************************************************************************)
\* A worker dies: the system releases its locks.
Crash(w) ==
    /\ call' = [call EXCEPT ![w] = None]
    /\ peer' = [peer EXCEPT ![w] = Closed]
    /\ lock' = IF lock = w THEN "free" ELSE lock
    /\ deviceLock' = IF deviceLock = w THEN "free" ELSE deviceLock
    /\ UNCHANGED <<members, survivors, ghostVars, device, deviceSurvivors, generated, returned, created>>

PowerLoss ==
    /\ members' \in survivors
    /\ survivors' = {members'}
    /\ device' \in deviceSurvivors
    /\ deviceSurvivors' = {device'}
    /\ lock' = "free" /\ deviceLock' = "free"
    /\ call' = [w \in Worker |-> None]
    /\ peer' = [w \in Worker |-> Closed]
    /\ returned' = {}
    /\ UNCHANGED <<ghostVars, generated, created>>

Faults ==
    /\ Spend("faults", MaxFaults)
    /\ \/ \E w \in Worker : SaveFails(w) /\ UNCHANGED <<deviceVars, peer>>
       \/ \E w \in Worker : IdentityFails(w) /\ UNCHANGED peer
       \/ \E w \in Worker : TurnFails(w)
       \/ \E w \in Worker : Crash(w)
       \/ PowerLoss

(***************************************************************************)
(* Requests and their steps                                                *)
(***************************************************************************)
Requests ==
    \/ \E w \in Editors, op \in Edits, d \in Device :
         BeginEdit(w, op, d) /\ Spend("edits", MaxEdits) /\ UNCHANGED <<deviceVars, peer>>
    \/ \E w \in Worker : BeginIdentity(w) /\ Spend("opens", MaxOpens) /\ UNCHANGED peer
    \/ \E w \in Hosts, remote \in {{}} \cup {{d} : d \in Device} :
         BeginOpen(w, remote) /\ Spend("opens", MaxOpens)
    \/ \E w \in Hosts : (BeginTurn(w) \/ Close(w)) /\ UNCHANGED used

Locks(w) == LockIdentity(w) /\ UNCHANGED <<peer, used>>

Steps(w) ==
    \/ EditStep(w) /\ UNCHANGED <<deviceVars, peer, used>>
    \/ IdentityStep(w) /\ UNCHANGED <<peer, used>>
    \/ (Connect(w) \/ ConnectFails(w) \/ EndTurn(w)) /\ UNCHANGED used
    \/ (\E d \in Device : Handshake(w, d)) /\ UNCHANGED used
    \/ (\E n \in 0 .. (MaxMessages + 1), tick \in BOOLEAN : Serve(w, n, tick)) /\ UNCHANGED used

Next == Requests \/ (\E w \in Worker : Locks(w) \/ Steps(w)) \/ Faults

Init ==
    /\ MembershipInit
    /\ IdentityInit
    /\ peer = [w \in Worker |-> Closed]
    /\ used = [edits |-> 0, opens |-> 0, faults |-> 0]

PeersSpec == Init /\ [][Next]_vars

\* A worker goes on with the request it handles, and the lock file is granted
\* to a waiting worker that finds it free again and again.
Fairness == \A w \in Worker : WF_vars(Steps(w)) /\ SF_vars(Locks(w))

Spec == PeersSpec /\ Fairness

(***************************************************************************)
(* Properties                                                              *)
(***************************************************************************)
\* A turn that begins after a device's revocation has returned does not
\* serve it, although the member file is read without the lock and the device
\* was authenticated before (membership.rs revoke: "Live peer turns recheck
\* this durable policy").
RevokedNotServed ==
    \A w \in Worker : At(w, {"turn"}, "input") => peer[w].device \cap call[w].barred = {}

\* Approvals and revocations that returned are in the member file whatever
\* other workers edit, whichever request fails half-way and whatever a power
\* loss leaves; and the file never holds more devices than a reader accepts
\* (membership.rs approve, revoke and load).
MembershipKept ==
    \A file \in survivors \cup {members} :
        /\ approved \subseteq file
        /\ revoked \cap file = {}
        /\ Cardinality(file) <= MaxDevices

\* All workers are given the same credentials for as long as the host runs,
\* and credentials whose creation returned are never replaced, not even after
\* a power loss (identity.rs load_or_create).
IdentityStable ==
    /\ \A key \in returned : device = key
    /\ \A key \in created : deviceSurvivors = {key}

\* Every request a worker handles returns: no lock is left behind by a request
\* that fails or a worker that dies (identity.rs load_or_create, membership.rs
\* approve and revoke).
RequestsReturn == \A w \in Worker : call[w] # None ~> call[w] = None
=============================================================================
