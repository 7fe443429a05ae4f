------------------------------ MODULE Identity -----------------------------
(***************************************************************************)
(* This host's long-lived device credentials (editchain-sync, identity.rs).*)
(* Competing workers are serialized by a file lock; the first one creates  *)
(* the credentials, the others load them.                                  *)
(***************************************************************************)
EXTENDS Membership

CONSTANT MaxKeys    \* bound on generated credentials

VARIABLES
    device,         \* credentials in device.json, 0 when there are none
    deviceSurvivors,\* what a power loss may leave there
    deviceLock,     \* holder of identity.lock
    generated,      \* number of credentials generated
    returned,       \* credentials returned to a caller since the last power loss
    created         \* credentials whose creation returned

deviceVars == <<device, deviceSurvivors, deviceLock, generated, returned, created>>

Loads == {"identity", "open"}

\* Once it has its credentials, a request for them returns; one that opens a
\* connection goes on.
HasIdentity(w, key) ==
    call' = IF call[w].op = "identity" THEN [call EXCEPT ![w] = None]
            ELSE [call EXCEPT ![w].stage = "connect", ![w].key = key]

BeginIdentity(w) ==
    /\ call[w] = None
    /\ call' = [call EXCEPT ![w] = [None EXCEPT !.op = "identity", !.stage = "device"]]
    /\ UNCHANGED <<fileVars, ghostVars, deviceVars>>

\* Not waiting for another creator.
LockIdentityUnheld(w) ==
    /\ At(w, Loads, "device")
    /\ deviceLock' = w
    /\ Moves(w, "load")
    /\ UNCHANGED <<fileVars, ghostVars, device, deviceSurvivors, generated, returned, created>>

LockIdentity(w) ==
    /\ At(w, Loads, "device")
    /\ deviceLock = "free"
    /\ deviceLock' = w
    /\ Moves(w, "load")
    /\ UNCHANGED <<fileVars, ghostVars, device, deviceSurvivors, generated, returned, created>>

LoadIdentity(w) ==
    /\ At(w, Loads, "load")
    /\ device # 0
    /\ returned' = returned \cup {device}
    /\ deviceLock' = "free"
    /\ HasIdentity(w, device)
    /\ UNCHANGED <<fileVars, ghostVars, device, deviceSurvivors, generated, created>>

\* New credentials are complete and fenced in a pending file first.
Generate(w) ==
    /\ At(w, Loads, "load")
    /\ device = 0
    /\ generated < MaxKeys
    /\ generated' = generated + 1
    /\ call' = [call EXCEPT ![w].stage = "pending", ![w].key = generated + 1]
    /\ UNCHANGED <<fileVars, ghostVars, device, deviceSurvivors, deviceLock, returned, created>>

RenameIdentity(w) ==
    /\ At(w, Loads, "pending")
    /\ device' = call[w].key
    /\ deviceSurvivors' = deviceSurvivors \cup {call[w].key}
    /\ Moves(w, "renamed")
    /\ UNCHANGED <<fileVars, ghostVars, deviceLock, generated, returned, created>>

CreateReturns(w) ==
    /\ At(w, Loads, "renamed")
    /\ deviceSurvivors' = {device}
    /\ returned' = returned \cup {call[w].key}
    /\ created' = created \cup {call[w].key}
    /\ deviceLock' = "free"
    /\ HasIdentity(w, call[w].key)
    /\ UNCHANGED <<fileVars, ghostVars, device, generated>>

\* An error that forgets to give the lock back.
IdentityFailsLocked(w) ==
    /\ call[w].op \in Loads
    /\ call[w].stage \in {"load", "pending", "renamed"}
    /\ Returns(w)
    /\ UNCHANGED <<fileVars, ghostVars, deviceVars>>

\* An error at any point closes the lock file, and with it the lock.
IdentityFails(w) ==
    /\ call[w].op \in Loads
    /\ call[w].stage \in {"load", "pending", "renamed"}
    /\ deviceLock' = "free"
    /\ Returns(w)
    /\ UNCHANGED <<fileVars, ghostVars, device, deviceSurvivors, generated, returned, created>>

IdentityStep(w) == LoadIdentity(w) \/ Generate(w) \/ RenameIdentity(w) \/ CreateReturns(w)

IdentityInit ==
    /\ device = 0
    /\ deviceSurvivors = {0}
    /\ deviceLock = "free"
    /\ generated = 0
    /\ returned = {}
    /\ created = {}
=============================================================================
