----------------------------- MODULE PeersProofs ----------------------------
(***************************************************************************)
(* Proofs about Peers: for any number of workers and devices, any device   *)
(* limit and any number of requests and faults, the member file keeps what *)
(* was returned, revoked devices are not served, and credentials are       *)
(* stable.  The arguments meet in the requests under way: whoever holds a  *)
(* lock is the only one who can be behind it.                              *)
(***************************************************************************)
EXTENDS Peers, FiniteSetTheorems, TLAPS

\* Zenon proves most leaves; those that need arithmetic, records or
\* sequences cite SMT.
USE Zenon

Ops == {"none", "approve", "revoke", "identity", "open", "turn"}

Stages == {"none", "lock", "save", "saved", "device", "load", "pending", "renamed",
           "connect", "input"}

CallType == [op : Ops, stage : Stages, devices : SUBSET Device, copy : SUBSET Device,
             key : Nat, barred : SUBSET Device]

PeerType == [open : BOOLEAN, roots : SUBSET Device, expected : SUBSET Device,
             device : SUBSET Device, failed : BOOLEAN]

TypeOK ==
    /\ call \in [Worker -> CallType]
    /\ peer \in [Worker -> PeerType]
    /\ members \in SUBSET Device
    /\ survivors \in SUBSET SUBSET Device
    /\ approved \in SUBSET Device /\ revoked \in SUBSET Device
    /\ device \in Nat /\ generated \in Nat
    /\ deviceSurvivors \in SUBSET Nat

\* An edit past its lock is the holder's, works on the file's content and,
\* once saved, has its effect there.
EditInv ==
    \A w \in Worker :
      call[w].op \in Edits =>
        /\ call[w].stage \in {"save", "saved"} => lock = w
        /\ call[w].stage = "save" => call[w].copy = members
        /\ call[w].stage = "saved" =>
             IF call[w].op = "approve" THEN call[w].devices \subseteq members
             ELSE call[w].devices \cap members = {}

MemberInv == EditInv /\ members \in survivors /\ MembershipKept

\* Only devices that are still revoked are barred from a turn.
TurnInv ==
    \A w \in Worker :
      At(w, {"turn"}, "input") =>
        call[w].barred \subseteq revoked /\ peer[w].device \cap call[w].barred = {}

\* A creator holds the lock and finds no credentials until it has renamed its
\* own into place.
CreatorInv ==
    \A w \in Worker :
      call[w].op \in Loads =>
        /\ call[w].stage \in {"load", "pending", "renamed"} => deviceLock = w
        /\ call[w].stage = "pending" => device = 0 /\ call[w].key # 0
        /\ call[w].stage = "renamed" => device = call[w].key /\ call[w].key # 0

KeyInv ==
    /\ CreatorInv
    /\ device \in deviceSurvivors
    /\ 0 \notin returned /\ 0 \notin created
    /\ IdentityStable

Inv == TypeOK /\ MemberInv /\ TurnInv /\ KeyInv
-----------------------------------------------------------------------------
(* The steps of Next, one by one.                                          *)

\* Steps of one worker that leave the member file to itself.
OpenStep(w) ==
    \/ Connect(w) \/ ConnectFails(w) \/ EndTurn(w) \/ TurnFails(w) \/ Close(w) \/ BeginTurn(w)
    \/ \E remote \in {{}} \cup {{d} : d \in Device} : BeginOpen(w, remote)
    \/ \E d \in Device : Handshake(w, d)
    \/ \E n \in 0 .. (MaxMessages + 1), tick \in BOOLEAN : Serve(w, n, tick)

KeyStep(w) ==
    /\ UNCHANGED peer
    /\ BeginIdentity(w) \/ LockIdentity(w) \/ IdentityStep(w) \/ IdentityFails(w)

MemberStep(w) ==
    /\ UNCHANGED <<deviceVars, peer>>
    /\ \/ \E op \in Edits, d \in Device : BeginEdit(w, op, d)
       \/ EditStep(w) \/ SaveFails(w)

\* Every step of Next is one of these: a step of one worker over its
\* connection, its credentials or its edit, or a fault (Peers!Next).
LEMMA StepCases ==
    ASSUME [Next]_vars
    PROVE  \/ \E w \in Worker : OpenStep(w) \/ KeyStep(w) \/ MemberStep(w) \/ Crash(w)
           \/ PowerLoss
           \/ UNCHANGED vars
  <1>1. CASE Requests
    <2>1. CASE \E w \in Editors, op \in Edits, d \in Device :
                 BeginEdit(w, op, d) /\ Spend("edits", MaxEdits) /\ UNCHANGED <<deviceVars, peer>>
      BY <2>1, PeersAssumption DEF MemberStep
    <2>2. CASE \E w \in Worker : BeginIdentity(w) /\ Spend("opens", MaxOpens) /\ UNCHANGED peer
      BY <2>2 DEF KeyStep
    <2>3. CASE \E w \in Hosts, remote \in {{}} \cup {{d} : d \in Device} :
                 BeginOpen(w, remote) /\ Spend("opens", MaxOpens)
      BY <2>3, PeersAssumption DEF OpenStep
    <2>4. CASE \E w \in Hosts : (BeginTurn(w) \/ Close(w)) /\ UNCHANGED used
      BY <2>4, PeersAssumption DEF OpenStep
    <2> QED BY <1>1, <2>1, <2>2, <2>3, <2>4 DEF Requests
  <1>2. CASE \E w \in Worker : Locks(w) \/ Steps(w)
    BY <1>2 DEF Locks, Steps, OpenStep, KeyStep, MemberStep
  <1>3. CASE Faults
    BY <1>3 DEF Faults, OpenStep, KeyStep, MemberStep
  <1> QED BY <1>1, <1>2, <1>3 DEF Next
-----------------------------------------------------------------------------
(* Types.                                                                  *)

\* A request record that is idle is well formed.
LEMMA NoneType == None \in CallType
  BY DEF None, CallType, Ops, Stages

\* What a connection's record becomes when it fails or authenticates a device.
LEMMA PeerUpdate ==
    ASSUME NEW p \in PeerType, NEW d \in Device
    PROVE  /\ [p EXCEPT !.failed = TRUE] \in PeerType
           /\ [p EXCEPT !.device = {d}] \in PeerType
           /\ [p EXCEPT !.failed = TRUE].device = p.device
           /\ [p EXCEPT !.device = {d}].device = {d}
  BY DEF PeerType

\* A worker's step on its connection keeps the types.
LEMMA OpenStepType ==
    ASSUME TypeOK, NEW w \in Worker, OpenStep(w)
    PROVE  TypeOK'
  <1>0. UNCHANGED <<members, survivors, approved, revoked, device, generated, deviceSurvivors>>
    BY DEF OpenStep, Connect, ConnectFails, EndTurn, TurnFails, Close, BeginTurn, BeginOpen,
           Handshake, Serve, fileVars, ghostVars, deviceVars, membershipVars
  <1>1. call' \in [Worker -> CallType]
    <2>1. CASE \E remote \in {{}} \cup {{d} : d \in Device} : BeginOpen(w, remote)
      <3>1. PICK remote \in SUBSET Device :
              call' = [call EXCEPT ![w] = [None EXCEPT !.op = "open", !.stage = "device",
                                                       !.devices = remote]]
        BY <2>1 DEF BeginOpen
      <3> QED BY <3>1 DEF TypeOK, CallType, None, Ops, Stages
    <2>2. CASE BeginTurn(w)
      <3>1. [None EXCEPT !.op = "turn", !.stage = "input", !.barred = revoked] \in CallType
        BY DEF TypeOK, CallType, None, Ops, Stages
      <3> QED BY <2>2, <3>1, NoneType DEF TypeOK, BeginTurn, FailTurn, Returns
    <2>3. CASE Connect(w) \/ ConnectFails(w) \/ EndTurn(w) \/ TurnFails(w) \/ Close(w)
                 \/ \E d \in Device : Handshake(w, d)
      BY <2>3, NoneType DEF TypeOK, Connect, ConnectFails, EndTurn, TurnFails, Close, Handshake,
                            FailTurn, Returns, membershipVars
    <2>4. CASE \E n \in 0 .. (MaxMessages + 1), tick \in BOOLEAN : Serve(w, n, tick)
      BY <2>4, NoneType DEF TypeOK, Serve, FailTurn, Returns
    <2> QED BY <2>1, <2>2, <2>3, <2>4 DEF OpenStep
  <1>2. peer' \in [Worker -> PeerType]
    <2>0. peer \in [Worker -> PeerType] /\ peer[w] \in PeerType
      BY DEF TypeOK
    <2>1. CASE Connect(w)
      <3>1. [open |-> TRUE, expected |-> call[w].devices, device |-> {}, failed |-> FALSE,
             roots |-> IF call[w].devices # {} THEN call[w].devices ELSE members] \in PeerType
        BY DEF TypeOK, CallType, PeerType
      <3> QED BY <2>0, <2>1, <3>1 DEF Connect
    <2>2. CASE \E d \in Device : Handshake(w, d)
      <3>1. PICK d \in Device : Handshake(w, d)
        BY <2>2
      <3>2. \/ peer' = [peer EXCEPT ![w] = [peer[w] EXCEPT !.device = {d}]]
            \/ peer' = [peer EXCEPT ![w] = [peer[w] EXCEPT !.failed = TRUE]]
        BY <3>1 DEF Handshake, FailTurn
      <3> QED BY <2>0, <3>2, PeerUpdate, ZenonT(30)
    <2>3. CASE Close(w)
      <3>1. Closed \in PeerType
        BY DEF Closed, PeerType
      <3> QED BY <2>0, <2>3, <3>1 DEF Close
    <2>4. CASE UNCHANGED peer \/ peer' = [peer EXCEPT ![w] = [peer[w] EXCEPT !.failed = TRUE]]
      <3>1. [peer[w] EXCEPT !.failed = TRUE] \in PeerType
        BY <2>0 DEF PeerType
      <3> QED BY <2>0, <2>4, <3>1
    <2>5. CASE TurnFails(w) \/ BeginTurn(w)
                 \/ \E n \in 0 .. (MaxMessages + 1), tick \in BOOLEAN : Serve(w, n, tick)
      BY <2>4, <2>5 DEF TurnFails, BeginTurn, Serve, FailTurn
    <2>6. CASE ConnectFails(w) \/ EndTurn(w)
                 \/ \E remote \in {{}} \cup {{d} : d \in Device} : BeginOpen(w, remote)
      BY <2>4, <2>6 DEF ConnectFails, EndTurn, BeginOpen
    <2> QED BY <2>1, <2>2, <2>3, <2>5, <2>6 DEF OpenStep
  <1> QED BY <1>0, <1>1, <1>2 DEF TypeOK

\* A worker's step on its credentials keeps the types.
LEMMA KeyStepType ==
    ASSUME TypeOK, NEW w \in Worker, KeyStep(w)
    PROVE  TypeOK'
  <1>0. call[w] \in CallType
    BY DEF TypeOK
  <1>1. UNCHANGED <<members, survivors, approved, revoked, peer>>
    BY DEF KeyStep, BeginIdentity, LockIdentity, IdentityStep, LoadIdentity, Generate,
           RenameIdentity, CreateReturns, IdentityFails, fileVars, ghostVars
  <1>2. device' \in Nat /\ generated' \in Nat /\ deviceSurvivors' \in SUBSET Nat
    BY <1>0, SMT DEF KeyStep, BeginIdentity, LockIdentity, IdentityStep, LoadIdentity, Generate,
           RenameIdentity, CreateReturns, IdentityFails, deviceVars, TypeOK, CallType
  <1>3. call' \in [Worker -> CallType]
    <2>1. CASE BeginIdentity(w)
      BY <2>1 DEF TypeOK, BeginIdentity, CallType, None, Ops, Stages
    <2>2. CASE LockIdentity(w) \/ RenameIdentity(w)
      <3>1. [call[w] EXCEPT !.stage = "load"] \in CallType
              /\ [call[w] EXCEPT !.stage = "renamed"] \in CallType
        BY <1>0 DEF CallType, Stages
      <3> QED BY <2>2, <3>1 DEF TypeOK, LockIdentity, RenameIdentity, Moves
    <2>3. CASE LoadIdentity(w) \/ CreateReturns(w)
      <3>1. ASSUME NEW key \in Nat
            PROVE  [[call[w] EXCEPT !.stage = "connect"] EXCEPT !.key = key] \in CallType
        BY <1>0 DEF CallType, Stages
      <3>2. call[w].key \in Nat /\ device \in Nat
        BY <1>0 DEF CallType, TypeOK
      <3>3. HasIdentity(w, device) \/ HasIdentity(w, call[w].key)
        BY <2>3 DEF LoadIdentity, CreateReturns
      <3>4. ASSUME NEW key \in Nat, HasIdentity(w, key)
            PROVE  call' \in [Worker -> CallType]
        <4>1. CASE call[w].op = "identity"
          BY <3>4, <4>1, NoneType DEF TypeOK, HasIdentity
        <4>2. CASE call[w].op # "identity"
          <5>1. call' = [call EXCEPT ![w] = [[call[w] EXCEPT !.stage = "connect"] EXCEPT !.key = key]]
            BY <3>4, <4>2 DEF HasIdentity, TypeOK
          <5> QED BY <3>1, <5>1 DEF TypeOK
        <4> QED BY <4>1, <4>2
      <3> QED BY <3>2, <3>3, <3>4
    <2>4. CASE Generate(w)
      <3>1. ASSUME NEW key \in Nat
            PROVE  [[call[w] EXCEPT !.stage = "pending"] EXCEPT !.key = key] \in CallType
        BY <1>0 DEF CallType, Stages
      <3>2. generated + 1 \in Nat
        BY SMT DEF TypeOK
      <3> QED BY <2>4, <3>1, <3>2 DEF TypeOK, Generate
    <2>5. CASE IdentityFails(w)
      BY <2>5, NoneType DEF TypeOK, IdentityFails, Returns
    <2> QED BY <2>1, <2>2, <2>3, <2>4, <2>5 DEF KeyStep, IdentityStep
  <1> QED BY <1>1, <1>2, <1>3 DEF TypeOK

\* A worker's step on an approval or revocation keeps the types.
LEMMA MemberStepType ==
    ASSUME TypeOK, NEW w \in Worker, MemberStep(w)
    PROVE  TypeOK'
  <1>0. call[w] \in CallType /\ Edited(w) \in SUBSET Device
    BY DEF TypeOK, CallType, Edited
  <1>1. UNCHANGED <<device, generated, deviceSurvivors, peer>>
    BY DEF MemberStep, deviceVars
  <1>2. CASE \E op \in Edits, d \in Device : BeginEdit(w, op, d)
    <2>1. PICK op \in Edits, d \in Device : BeginEdit(w, op, d)
      BY <1>2
    <2>2. [None EXCEPT !.op = op, !.stage = "lock", !.devices = {d}] \in CallType
      BY DEF CallType, None, Ops, Stages, Edits
    <2> QED BY <1>1, <2>1, <2>2 DEF TypeOK, BeginEdit, fileVars, ghostVars
  <1>3. CASE Load(w)
    <2>1. [[call[w] EXCEPT !.stage = "save"] EXCEPT !.copy = members] \in CallType
      BY <1>0 DEF CallType, Stages, TypeOK
    <2> QED BY <1>1, <1>3, <2>1 DEF TypeOK, Load, ghostVars
  <1>4. CASE LoadFails(w) \/ Refuse(w) \/ SaveFails(w)
    BY <1>1, <1>4, NoneType DEF TypeOK, LoadFails, Refuse, SaveFails, Returns, fileVars, ghostVars
  <1>5. CASE Save(w)
    <2>1. /\ members' \in SUBSET Device /\ survivors' \in SUBSET SUBSET Device
          /\ approved' \in SUBSET Device /\ revoked' \in SUBSET Device
      BY <1>0, <1>5 DEF TypeOK, Save
    <2>2. ASSUME NEW v \in Worker
          PROVE  [call[v] EXCEPT !.stage = IF v = w THEN "saved" ELSE @,
                                 !.barred = @ \cap revoked'] \in CallType
      <3>1. call[v] \in CallType
        BY DEF TypeOK
      <3> QED BY <3>1, <2>1 DEF CallType, Stages
    <2> QED BY <1>1, <1>5, <2>1, <2>2 DEF TypeOK, Save
  <1>6. CASE SaveReturns(w)
    BY <1>0, <1>1, <1>6, NoneType DEF TypeOK, SaveReturns, Returns, CallType
  <1> QED BY <1>2, <1>3, <1>4, <1>5, <1>6 DEF MemberStep, EditStep

\* Faults keep the types.
LEMMA FaultType ==
    ASSUME TypeOK, (\E w \in Worker : Crash(w)) \/ PowerLoss
    PROVE  TypeOK'
  <1>1. Closed \in PeerType
    BY DEF Closed, PeerType
  <1>2. CASE \E w \in Worker : Crash(w)
    BY <1>1, <1>2, NoneType, SMT DEF TypeOK, Crash, ghostVars
  <1>3. CASE PowerLoss
    BY <1>1, <1>3, NoneType, SMT DEF TypeOK, PowerLoss, ghostVars
  <1> QED BY <1>2, <1>3

\* Every step keeps the types.
LEMMA TypeStep ==
    ASSUME TypeOK, [Next]_vars
    PROVE  TypeOK'
  <1>1. CASE UNCHANGED vars
    BY <1>1 DEF TypeOK, vars, membershipVars, fileVars, ghostVars, deviceVars
  <1> QED BY <1>1, StepCases, OpenStepType, KeyStepType, MemberStepType, FaultType
-----------------------------------------------------------------------------
(* The member file.                                                        *)

\* Nothing that concerns edits changes: a step that leaves the file alone and
\* begins or ends requests, none of them past its lock.
EditsLeft ==
    /\ UNCHANGED <<members, survivors, approved, revoked>>
    /\ \A v \in Worker :
         \/ call'[v].op \notin Edits
         \/ call'[v].stage = "lock"
         \/ call'[v] = call[v] /\ (lock = v => lock' = v)

\* Such a step keeps the invariant of the member file.
LEMMA EditsLeftInv ==
    ASSUME MemberInv, EditsLeft
    PROVE  MemberInv'
  <1>1. EditInv'
    BY DEF MemberInv, EditInv, EditsLeft
  <1> QED BY <1>1 DEF MemberInv, EditsLeft, MembershipKept

\* Steps on connections are of that kind.
LEMMA OpenStepEdits ==
    ASSUME TypeOK, NEW w \in Worker, OpenStep(w)
    PROVE  EditsLeft
  <1>1. UNCHANGED <<members, survivors, approved, revoked, lock>>
    BY DEF OpenStep, Connect, ConnectFails, EndTurn, TurnFails, Close, BeginTurn, BeginOpen,
           Handshake, Serve, fileVars, ghostVars, membershipVars
  <1>2. ASSUME NEW v \in Worker, v # w
        PROVE  call'[v] = call[v]
    BY <1>2 DEF OpenStep, Connect, ConnectFails, EndTurn, TurnFails, Close, BeginTurn, BeginOpen,
           Handshake, Serve, Returns, FailTurn, TypeOK, membershipVars
  <1>3. call'[w].op \notin Edits \/ call'[w] = call[w]
    <2>0. None.op \notin Edits
      BY DEF None, Edits
    <2>1. CASE \E remote \in {{}} \cup {{d} : d \in Device} : BeginOpen(w, remote)
      BY <2>1, SMT DEF BeginOpen, TypeOK, None, Edits
    <2>2. CASE BeginTurn(w)
      <3>1. call'[w] = [None EXCEPT !.op = "turn", !.stage = "input", !.barred = revoked]
              \/ call'[w] = None
        BY <2>2 DEF BeginTurn, FailTurn, Returns, TypeOK
      <3> QED BY <2>0, <3>1 DEF None, Edits
    <2>3. CASE Connect(w) \/ ConnectFails(w) \/ EndTurn(w) \/ TurnFails(w) \/ Close(w)
                 \/ \E d \in Device : Handshake(w, d)
      BY <2>0, <2>3 DEF Connect, ConnectFails, EndTurn, TurnFails, Close, Handshake,
                        FailTurn, Returns, TypeOK, membershipVars
    <2>4. CASE \E n \in 0 .. (MaxMessages + 1), tick \in BOOLEAN : Serve(w, n, tick)
      BY <2>0, <2>4 DEF Serve, FailTurn, Returns, TypeOK
    <2> QED BY <2>1, <2>2, <2>3, <2>4 DEF OpenStep
  <1> QED BY <1>1, <1>2, <1>3 DEF EditsLeft

\* A step on credentials changes the request of its worker only, and goes on
\* with it or ends it.
LEMMA KeyStepCall ==
    ASSUME TypeOK, NEW w \in Worker, KeyStep(w)
    PROVE  /\ \A v \in Worker : v # w => call'[v] = call[v]
           /\ call'[w].op \in {"none", "identity", "open"}
  <1>0. call[w] \in CallType
    BY DEF TypeOK
  <1>1. ASSUME NEW v \in Worker, v # w
        PROVE  call'[v] = call[v]
    BY <1>1 DEF KeyStep, BeginIdentity, LockIdentity, IdentityStep, LoadIdentity, Generate,
           RenameIdentity, CreateReturns, IdentityFails, HasIdentity, Moves, Returns, TypeOK
  <1>2. call'[w].op \in {"none", "identity", "open"}
    <2>1. CASE BeginIdentity(w)
      BY <2>1 DEF BeginIdentity, TypeOK, None
    <2>2. CASE call'[w] = None
      BY <2>2, SMT DEF None
    <2>3. CASE call[w].op \in Loads /\ call'[w].op = call[w].op
      BY <2>3 DEF Loads
    <2>4. CASE LockIdentity(w) \/ RenameIdentity(w) \/ Generate(w)
      BY <1>0, <2>3, <2>4, SMT DEF LockIdentity, RenameIdentity, Generate, Moves, At, TypeOK, CallType
    <2>5. CASE LoadIdentity(w) \/ CreateReturns(w)
      BY <1>0, <2>2, <2>3, <2>5, SMT DEF LoadIdentity, CreateReturns, HasIdentity, At, TypeOK, CallType
    <2>6. CASE IdentityFails(w)
      BY <2>2, <2>6 DEF IdentityFails, Returns, TypeOK
    <2> QED BY <2>1, <2>4, <2>5, <2>6 DEF KeyStep, IdentityStep
  <1> QED BY <1>1, <1>2

\* Steps on credentials leave edits alone.
LEMMA KeyStepEdits ==
    ASSUME TypeOK, NEW w \in Worker, KeyStep(w)
    PROVE  EditsLeft
  <1>1. UNCHANGED <<members, survivors, approved, revoked, lock>>
    BY DEF KeyStep, BeginIdentity, LockIdentity, IdentityStep, LoadIdentity, Generate,
           RenameIdentity, CreateReturns, IdentityFails, fileVars, ghostVars
  <1> QED BY <1>1, KeyStepCall DEF EditsLeft, Edits

\* A saved edit keeps the device limit: an approval was counted, and a
\* revocation removes devices from a file that was within it.
LEMMA EditedBound ==
    ASSUME TypeOK, MemberInv, NEW w \in Worker, Save(w)
    PROVE  Cardinality(Edited(w)) <= MaxDevices
  <1>1. CASE call[w].op = "approve"
    BY <1>1 DEF Save
  <1>2. CASE call[w].op # "approve"
    <2>1. call[w].copy = members /\ Cardinality(members) <= MaxDevices
      BY DEF Save, At, MemberInv, EditInv, MembershipKept
    <2>2. IsFiniteSet(members)
      BY MembershipAssumption, FS_Subset DEF TypeOK
    <2>3. Edited(w) \subseteq members
      BY <1>2, <2>1 DEF Edited
    <2>4. Cardinality(Edited(w)) <= Cardinality(members) /\ IsFiniteSet(Edited(w))
      BY <2>2, <2>3, FS_Subset
    <2>5. Cardinality(members) \in Nat /\ Cardinality(Edited(w)) \in Nat
      BY <2>2, <2>4, FS_CardinalityType
    <2> QED BY <2>1, <2>4, <2>5, MembershipAssumption, SMT
  <1> QED BY <1>1, <1>2

\* Saving an edit: the file takes it over, and it holds what was promised.
LEMMA SaveInv ==
    ASSUME TypeOK, MemberInv, NEW w \in Worker, Save(w)
    PROVE  MemberInv'
  <1>0. call[w] \in CallType /\ call[w].op \in Edits /\ call[w].copy = members /\ lock = w
    BY DEF Save, At, MemberInv, EditInv, TypeOK
  <1>1. Cardinality(Edited(w)) <= MaxDevices
    BY EditedBound
  <1>2. MembershipKept'
    <2>1. /\ members' = Edited(w) /\ survivors' = survivors \cup {Edited(w)}
          /\ approved' = IF call[w].op = "revoke" THEN approved \ call[w].devices ELSE approved
          /\ revoked' = IF call[w].op = "approve" THEN revoked \ call[w].devices ELSE revoked
      BY DEF Save
    <2>2. ASSUME NEW file \in survivors \cup {members}
          PROVE  approved' \subseteq file /\ revoked' \cap file = {}
                   /\ Cardinality(file) <= MaxDevices
      BY <2>1 DEF MemberInv, MembershipKept
    <2>3. approved \subseteq call[w].copy /\ revoked \cap call[w].copy = {}
      BY <1>0 DEF MemberInv, MembershipKept
    <2>4. approved' \subseteq Edited(w) /\ revoked' \cap Edited(w) = {}
      BY <1>0, <2>1, <2>3 DEF Edited, Edits
    <2> QED BY <1>1, <2>1, <2>2, <2>4, SMT DEF MembershipKept
  <1>3. ASSUME NEW v \in Worker
        PROVE  /\ call'[v].op = call[v].op /\ call'[v].devices = call[v].devices
               /\ call'[v].stage = IF v = w THEN "saved" ELSE call[v].stage
    <2>1. call[v] \in CallType
      BY DEF TypeOK
    <2>2. call'[v] = [call[v] EXCEPT !.stage = IF v = w THEN "saved" ELSE @,
                                     !.barred = @ \cap revoked']
      BY DEF Save
    <2> QED BY <2>1, <2>2 DEF CallType
  <1>4. ASSUME NEW v \in Worker, v # w, call[v].op \in Edits
        PROVE  call[v].stage \notin {"save", "saved"}
    BY <1>0, <1>4 DEF MemberInv, EditInv
  <1>5. IF call[w].op = "approve" THEN call[w].devices \subseteq Edited(w)
        ELSE call[w].devices \cap Edited(w) = {}
    BY DEF Edited
  <1>6. EditInv'
    <2>1. members' = Edited(w) /\ lock' = lock
      BY DEF Save
    <2>2. ASSUME NEW v \in Worker, v # w, call'[v].op \in Edits
          PROVE  call'[v].stage \notin {"save", "saved"}
      BY <1>3, <1>4, <2>2
    <2> QED BY <1>0, <1>3, <1>5, <2>1, <2>2 DEF EditInv
  <1> QED BY <1>2, <1>6 DEF MemberInv, Save

\* An edit that returns is durable, so that its promise holds from then on.
LEMMA SaveReturnsInv ==
    ASSUME TypeOK, MemberInv, NEW w \in Worker, SaveReturns(w)
    PROVE  MemberInv'
  <1>0. /\ call[w].op \in Edits /\ lock = w
        /\ IF call[w].op = "approve" THEN call[w].devices \subseteq members
           ELSE call[w].devices \cap members = {}
    BY DEF SaveReturns, At, MemberInv, EditInv
  <1>1. /\ survivors' = {members} /\ members' = members
        /\ approved' = IF call[w].op = "approve" THEN approved \cup call[w].devices ELSE approved
        /\ revoked' = IF call[w].op = "revoke" THEN revoked \cup call[w].devices ELSE revoked
    BY DEF SaveReturns
  <1>2. approved \subseteq members /\ revoked \cap members = {} /\ Cardinality(members) <= MaxDevices
    BY DEF MemberInv, MembershipKept
  <1>3. approved' \subseteq members /\ revoked' \cap members = {}
    BY <1>0, <1>1, <1>2 DEF Edits
  <1>4. MembershipKept'
    BY <1>1, <1>2, <1>3 DEF MembershipKept
  <1>5. ASSUME NEW v \in Worker, v # w
        PROVE  call'[v] = call[v] /\ (call[v].op \in Edits => call[v].stage \notin {"save", "saved"})
    BY <1>0, <1>5 DEF SaveReturns, Returns, TypeOK, MemberInv, EditInv
  <1>6. call'[w].op \notin Edits
    BY DEF SaveReturns, Returns, TypeOK, None, Edits
  <1>7. EditInv'
    BY <1>1, <1>5, <1>6 DEF EditInv
  <1> QED BY <1>1, <1>4, <1>7 DEF MemberInv

\* Every step keeps the invariant of the member file.
LEMMA MemberStepInv ==
    ASSUME TypeOK, MemberInv, [Next]_vars
    PROVE  MemberInv'
  <1>0. None.op \notin Edits
    BY DEF None, Edits
  <1>1. ASSUME NEW w \in Worker, MemberStep(w)
        PROVE  MemberInv'
    <2>1. CASE \E op \in Edits, d \in Device : BeginEdit(w, op, d)
      <3>1. UNCHANGED <<members, survivors, approved, revoked, lock>>
        BY <2>1 DEF BeginEdit, fileVars, ghostVars
      <3>2. \A v \in Worker : call'[v] = call[v] \/ call'[v].stage = "lock"
        BY <2>1, SMT DEF BeginEdit, TypeOK, None
      <3> QED BY <3>1, <3>2, EditsLeftInv DEF EditsLeft
    <2>2. CASE Load(w)
      <3>1. UNCHANGED <<members, survivors, approved, revoked>> /\ lock = "free" /\ lock' = w
        BY <2>2 DEF Load, ghostVars
      <3>2. call'[w].stage = "save" /\ call'[w].copy = members
        BY <2>2 DEF Load, TypeOK, CallType
      <3>3. ASSUME NEW v \in Worker, v # w
            PROVE  call'[v] = call[v]
        BY <2>2, <3>3 DEF Load, TypeOK
      <3>4. ASSUME NEW v \in Worker, call[v].op \in Edits
            PROVE  call[v].stage \notin {"save", "saved"}
        BY <3>1, <3>4, MembershipAssumption DEF MemberInv, EditInv
      <3>5. EditInv'
        BY <3>1, <3>2, <3>3, <3>4 DEF EditInv
      <3> QED BY <3>1, <3>5 DEF MemberInv, MembershipKept
    <2>3. CASE LoadFails(w)
      <3>1. UNCHANGED <<members, survivors, approved, revoked, lock>>
        BY <2>3 DEF LoadFails, fileVars, ghostVars
      <3>2. \A v \in Worker : call'[v] = call[v] \/ call'[v] = None
        BY <2>3 DEF LoadFails, Returns, TypeOK
      <3> QED BY <1>0, <3>1, <3>2, EditsLeftInv DEF EditsLeft
    <2>4. CASE Refuse(w) \/ SaveFails(w)
      <3>1. UNCHANGED <<members, survivors, approved, revoked>> /\ lock = w
        BY <2>4 DEF Refuse, SaveFails, ghostVars, At, MemberInv, EditInv, Edits
      <3>2. \A v \in Worker : (v # w /\ call'[v] = call[v]) \/ call'[v] = None
        BY <2>4 DEF Refuse, SaveFails, Returns, TypeOK
      <3> QED BY <1>0, <3>1, <3>2, EditsLeftInv DEF EditsLeft
    <2>5. CASE Save(w)
      BY <2>5, SaveInv
    <2>6. CASE SaveReturns(w)
      BY <2>6, SaveReturnsInv
    <2> QED BY <1>1, <2>1, <2>2, <2>3, <2>4, <2>5, <2>6 DEF MemberStep, EditStep
  <1>2. ASSUME NEW w \in Worker, Crash(w)
        PROVE  MemberInv'
    <2>1. UNCHANGED <<members, survivors, approved, revoked>>
      BY <1>2 DEF Crash, ghostVars
    <2>2. \A v \in Worker : (v # w /\ call'[v] = call[v]) \/ call'[v] = None
      BY <1>2 DEF Crash, TypeOK
    <2>3. \A v \in Worker : v # w /\ lock = v => lock' = v
      BY <1>2 DEF Crash
    <2> QED BY <1>0, <2>1, <2>2, <2>3, EditsLeftInv DEF EditsLeft
  <1>3. CASE PowerLoss
    <2>1. EditInv'
      BY <1>0, <1>3 DEF PowerLoss, EditInv
    <2> QED BY <1>3, <2>1 DEF PowerLoss, ghostVars, MemberInv, MembershipKept
  <1>4. CASE UNCHANGED vars
    BY <1>4, EditsLeftInv DEF vars, membershipVars, fileVars, ghostVars, EditsLeft
  <1> QED BY <1>1, <1>2, <1>3, <1>4, StepCases, OpenStepEdits, KeyStepEdits, EditsLeftInv
-----------------------------------------------------------------------------
(* Turns.                                                                  *)

\* A step that lets no device out of revocation and changes no turn under way.
TurnsLeft ==
    /\ revoked \subseteq revoked'
    /\ \A v \in Worker :
         call'[v].op # "turn" \/ (call'[v] = call[v] /\ peer'[v].device = peer[v].device)

\* Such a step keeps the invariant of turns.
LEMMA TurnsLeftInv ==
    ASSUME TurnInv, TurnsLeft
    PROVE  TurnInv'
  BY DEF TurnInv, TurnsLeft, At

\* A device that is served is a member, a barred one is not: steps on a
\* connection look at the member file before they serve.
LEMMA OpenStepTurns ==
    ASSUME TypeOK, MemberInv, TurnInv, NEW w \in Worker, OpenStep(w)
    PROVE  TurnInv'
  <1>0. None.op # "turn"
    BY DEF None
  <1>1. revoked' = revoked
    BY DEF OpenStep, Connect, ConnectFails, EndTurn, TurnFails, Close, BeginTurn, BeginOpen,
           Handshake, Serve, fileVars, ghostVars, membershipVars
  <1>2. ASSUME NEW v \in Worker, v # w
        PROVE  call'[v] = call[v] /\ peer'[v] = peer[v]
    BY <1>2 DEF OpenStep, Connect, ConnectFails, EndTurn, TurnFails, Close, BeginTurn, BeginOpen,
           Handshake, Serve, Returns, FailTurn, TypeOK, membershipVars
  <1>3. members \cap revoked = {}
    BY DEF MemberInv, MembershipKept
  <1>4. CASE call'[w].op # "turn"
    BY <1>1, <1>2, <1>4, TurnsLeftInv DEF TurnsLeft
  <1>5. CASE \E remote \in {{}} \cup {{d} : d \in Device} : BeginOpen(w, remote)
    <2>1. call'[w].op = "open"
      BY <1>5 DEF BeginOpen, TypeOK, None
    <2> QED BY <1>4, <2>1
  <1>6. CASE BeginTurn(w)
    <2>1. CASE call'[w] = None
      BY <1>0, <1>4, <2>1
    <2>2. CASE call'[w] # None
      <3>1. /\ call'[w] = [None EXCEPT !.op = "turn", !.stage = "input", !.barred = revoked]
            /\ peer' = peer /\ \A d \in peer[w].device : require(d)
        BY <1>6, <2>2 DEF BeginTurn, FailTurn, Returns, TypeOK
      <3>2. call'[w].barred = revoked
        BY <3>1 DEF None
      <3>3. peer'[w].device \cap revoked = {}
        BY <1>3, <3>1 DEF require
      <3>4. ASSUME NEW v \in Worker, v # w, At(v, {"turn"}, "input")'
            PROVE  call'[v].barred \subseteq revoked' /\ peer'[v].device \cap call'[v].barred = {}
        BY <1>1, <1>2, <3>4 DEF TurnInv, At
      <3> QED BY <1>1, <3>2, <3>3, <3>4 DEF TurnInv
    <2> QED BY <2>1, <2>2
  <1>7. CASE \E d \in Device : Handshake(w, d)
    <2>1. PICK d \in Device : Handshake(w, d)
      BY <1>7
    <2>2. CASE call'[w] = None
      BY <1>0, <1>4, <2>2
    <2>3. CASE call'[w] # None
      <3>1. call' = call /\ require(d) /\ peer' = [peer EXCEPT ![w] = [peer[w] EXCEPT !.device = {d}]]
        BY <2>1, <2>3 DEF Handshake, FailTurn, Returns, TypeOK
      <3>2. peer'[w].device = {d}
        BY <3>1, PeerUpdate DEF TypeOK
      <3>3. At(w, {"turn"}, "input") => d \notin call[w].barred
        BY <1>3, <3>1 DEF TurnInv, require
      <3>4. ASSUME NEW v \in Worker, At(v, {"turn"}, "input")'
            PROVE  call'[v].barred \subseteq revoked' /\ peer'[v].device \cap call'[v].barred = {}
        BY <1>1, <1>2, <3>1, <3>2, <3>3, <3>4, SMT DEF TurnInv, At
      <3> QED BY <3>4 DEF TurnInv
    <2> QED BY <2>2, <2>3
  <1>8. CASE Close(w)
    <2>1. call'[w] = None
      BY <1>8 DEF Close, membershipVars
    <2> QED BY <1>0, <1>4, <2>1
  <1>9. CASE \/ Connect(w) \/ ConnectFails(w) \/ EndTurn(w) \/ TurnFails(w)
             \/ \E n \in 0 .. (MaxMessages + 1), tick \in BOOLEAN : Serve(w, n, tick)
    <2>1. call'[w] = None
      BY <1>9 DEF Connect, ConnectFails, EndTurn, TurnFails, Serve, FailTurn, Returns, TypeOK
    <2> QED BY <1>0, <1>4, <2>1
  <1> QED BY <1>5, <1>6, <1>7, <1>8, <1>9 DEF OpenStep

\* Every step keeps the invariant of turns.
LEMMA TurnStepInv ==
    ASSUME TypeOK, MemberInv, TurnInv, [Next]_vars
    PROVE  TurnInv'
  <1>0. None.op # "turn"
    BY DEF None
  <1>1. ASSUME NEW w \in Worker, KeyStep(w)
        PROVE  TurnInv'
    <2>1. revoked' = revoked /\ peer' = peer
      BY <1>1 DEF KeyStep, BeginIdentity, LockIdentity, IdentityStep, LoadIdentity, Generate,
             RenameIdentity, CreateReturns, IdentityFails, ghostVars
    <2> QED BY <1>1, <2>1, KeyStepCall, TurnsLeftInv DEF TurnsLeft
  <1>2. ASSUME NEW w \in Worker, MemberStep(w), ~Save(w)
        PROVE  TurnInv'
    <2>0. call[w] \in CallType /\ peer' = peer
      BY <1>2 DEF TypeOK, MemberStep
    <2>1. revoked \subseteq revoked'
      BY <1>2 DEF MemberStep, BeginEdit, EditStep, Load, LoadFails, Refuse, SaveReturns, SaveFails,
                  ghostVars
    <2>2. ASSUME NEW v \in Worker, v # w
          PROVE  call'[v] = call[v]
      BY <1>2, <2>2 DEF MemberStep, BeginEdit, EditStep, Load, LoadFails, Refuse, SaveReturns,
                        SaveFails, Returns, TypeOK
    <2>3. call'[w].op # "turn"
      <3>1. CASE \E op \in Edits, d \in Device : BeginEdit(w, op, d)
        BY <3>1 DEF BeginEdit, TypeOK, None, Edits
      <3>2. CASE Load(w)
        BY <2>0, <3>2 DEF Load, At, Edits, TypeOK, CallType
      <3>3. CASE LoadFails(w) \/ Refuse(w) \/ SaveReturns(w) \/ SaveFails(w)
        BY <1>0, <3>3 DEF LoadFails, Refuse, SaveReturns, SaveFails, Returns, TypeOK
      <3> QED BY <1>2, <3>1, <3>2, <3>3 DEF MemberStep, EditStep
    <2> QED BY <2>0, <2>1, <2>2, <2>3, TurnsLeftInv DEF TurnsLeft
  <1>3. ASSUME NEW w \in Worker, Save(w), UNCHANGED peer
        PROVE  TurnInv'
    <2>1. ASSUME NEW v \in Worker, At(v, {"turn"}, "input")'
          PROVE  call'[v].barred \subseteq revoked' /\ peer'[v].device \cap call'[v].barred = {}
      <3>1. call[v] \in CallType /\ call[w] \in CallType /\ call[w].op \in Edits
        BY <1>3 DEF TypeOK, Save, At
      <3>2. call'[v] = [call[v] EXCEPT !.stage = IF v = w THEN "saved" ELSE @,
                                       !.barred = @ \cap revoked']
        BY <1>3 DEF Save
      <3>3. /\ call'[v].barred = call[v].barred \cap revoked'
            /\ call'[v].op = call[v].op
            /\ v # w => call'[v].stage = call[v].stage
        BY <3>1, <3>2 DEF CallType
      <3>4. v # w /\ At(v, {"turn"}, "input")
        BY <2>1, <3>1, <3>3 DEF At, Edits
      <3>5. peer'[v].device \cap call[v].barred = {}
        BY <1>3, <3>4 DEF TurnInv
      <3> QED BY <3>3, <3>5
    <2> QED BY <2>1 DEF TurnInv
  <1>4. ASSUME NEW w \in Worker, Crash(w)
        PROVE  TurnInv'
    <2>1. revoked' = revoked
      BY <1>4 DEF Crash, ghostVars
    <2>2. \A v \in Worker : call'[v] = None \/ (call'[v] = call[v] /\ peer'[v] = peer[v])
      BY <1>4 DEF Crash, TypeOK
    <2> QED BY <1>0, <2>1, <2>2, TurnsLeftInv DEF TurnsLeft
  <1>5. CASE PowerLoss
    BY <1>0, <1>5, TurnsLeftInv DEF PowerLoss, ghostVars, TurnsLeft
  <1>6. CASE UNCHANGED vars
    BY <1>6, TurnsLeftInv DEF vars, membershipVars, ghostVars, TurnsLeft
  <1>7. ASSUME NEW w \in Worker, MemberStep(w)
        PROVE  TurnInv'
    BY <1>2, <1>3, <1>7 DEF MemberStep
  <1> QED BY <1>1, <1>4, <1>5, <1>6, <1>7, StepCases, OpenStepTurns
-----------------------------------------------------------------------------
(* Credentials.                                                            *)

Holding == {"load", "pending", "renamed"}

\* A step that leaves the credentials and whoever works on them alone.
KeysLeft ==
    /\ UNCHANGED <<device, deviceSurvivors, returned, created>>
    /\ \A v \in Worker :
         \/ call'[v].op \notin Loads
         \/ call'[v].stage \notin Holding
         \/ /\ call'[v].op = call[v].op /\ call'[v].stage = call[v].stage
            /\ call'[v].key = call[v].key
            /\ deviceLock = v => deviceLock' = v

\* Such a step keeps the invariant of the credentials.
LEMMA KeysLeftInv ==
    ASSUME KeyInv, KeysLeft
    PROVE  KeyInv'
  <1>1. CreatorInv'
    BY DEF KeyInv, CreatorInv, KeysLeft, Holding
  <1> QED BY <1>1 DEF KeyInv, KeysLeft, IdentityStable

\* Steps on connections are of that kind.
LEMMA OpenStepKeys ==
    ASSUME TypeOK, NEW w \in Worker, OpenStep(w)
    PROVE  KeysLeft
  <1>0. None.op \notin Loads
    BY DEF None, Loads
  <1>1. UNCHANGED <<device, deviceSurvivors, deviceLock, returned, created>>
    BY DEF OpenStep, Connect, ConnectFails, EndTurn, TurnFails, Close, BeginTurn, BeginOpen,
           Handshake, Serve, deviceVars
  <1>2. ASSUME NEW v \in Worker, v # w
        PROVE  call'[v] = call[v]
    BY <1>2 DEF OpenStep, Connect, ConnectFails, EndTurn, TurnFails, Close, BeginTurn, BeginOpen,
           Handshake, Serve, Returns, FailTurn, TypeOK, membershipVars
  <1>3. call'[w].op \notin Loads \/ call'[w].stage \notin Holding \/ call'[w] = call[w]
    <2>1. CASE \E remote \in {{}} \cup {{d} : d \in Device} : BeginOpen(w, remote)
      BY <2>1, SMT DEF BeginOpen, TypeOK, None, Holding
    <2>2. CASE BeginTurn(w)
      <3>1. call'[w] = [None EXCEPT !.op = "turn", !.stage = "input", !.barred = revoked]
              \/ call'[w] = None
        BY <2>2 DEF BeginTurn, FailTurn, Returns, TypeOK
      <3> QED BY <1>0, <3>1 DEF None, Loads
    <2>3. CASE Connect(w) \/ ConnectFails(w) \/ EndTurn(w) \/ TurnFails(w) \/ Close(w)
                 \/ \E d \in Device : Handshake(w, d)
      BY <1>0, <2>3 DEF Connect, ConnectFails, EndTurn, TurnFails, Close, Handshake,
                        FailTurn, Returns, TypeOK, membershipVars
    <2>4. CASE \E n \in 0 .. (MaxMessages + 1), tick \in BOOLEAN : Serve(w, n, tick)
      BY <1>0, <2>4 DEF Serve, FailTurn, Returns, TypeOK
    <2> QED BY <2>1, <2>2, <2>3, <2>4 DEF OpenStep
  <1> QED BY <1>1, <1>2, <1>3 DEF KeysLeft

\* So are edits of the member file.
LEMMA MemberStepKeys ==
    ASSUME TypeOK, NEW w \in Worker, MemberStep(w)
    PROVE  KeysLeft
  <1>0. None.op \notin Loads
    BY DEF None, Loads
  <1>1. UNCHANGED <<device, deviceSurvivors, deviceLock, returned, created>>
    BY DEF MemberStep, deviceVars
  <1>2. CASE Save(w)
    <2>1. ASSUME NEW v \in Worker
          PROVE  /\ call'[v].op = call[v].op /\ call'[v].key = call[v].key
                 /\ call'[v].op \in Edits \/ call'[v].stage = call[v].stage
      <3>1. call[v] \in CallType /\ call[w] \in CallType /\ call[w].op \in Edits
        BY <1>2 DEF TypeOK, Save, At
      <3>2. call'[v] = [call[v] EXCEPT !.stage = IF v = w THEN "saved" ELSE @,
                                       !.barred = @ \cap revoked']
        BY <1>2 DEF Save
      <3>3. /\ call'[v].op = call[v].op /\ call'[v].key = call[v].key
            /\ v # w => call'[v].stage = call[v].stage
        BY <3>1, <3>2 DEF CallType
      <3> QED BY <3>1, <3>3
    <2> QED BY <1>1, <2>1 DEF KeysLeft, Loads, Edits
  <1>3. CASE ~Save(w)
    <2>1. ASSUME NEW v \in Worker, v # w
          PROVE  call'[v] = call[v]
      BY <1>3, <2>1 DEF MemberStep, BeginEdit, EditStep, Load, LoadFails, Refuse, SaveReturns,
                        SaveFails, Returns, TypeOK
    <2>2. call'[w].op \notin Loads
      <3>1. CASE \E op \in Edits, d \in Device : BeginEdit(w, op, d)
        BY <3>1, SMT DEF BeginEdit, TypeOK, None, Edits, Loads
      <3>2. CASE Load(w)
        BY <3>2 DEF Load, At, Edits, TypeOK, CallType, Loads
      <3>3. CASE LoadFails(w) \/ Refuse(w) \/ SaveReturns(w) \/ SaveFails(w)
        BY <1>0, <3>3 DEF LoadFails, Refuse, SaveReturns, SaveFails, Returns, TypeOK
      <3> QED BY <1>3, <3>1, <3>2, <3>3 DEF MemberStep, EditStep
    <2> QED BY <1>1, <2>1, <2>2 DEF KeysLeft
  <1> QED BY <1>2, <1>3

\* While one worker holds the lock of the credentials no other is behind it.
LEMMA OneCreator ==
    ASSUME KeyInv, NEW w \in Worker, deviceLock = w \/ deviceLock = "free",
           NEW v \in Worker, v # w, call[v].op \in Loads
    PROVE  call[v].stage \notin Holding
  BY MembershipAssumption DEF KeyInv, CreatorInv, Holding

\* Once credentials were returned or created, they are the device's, and
\* there are some.
LEMMA KeyPresent ==
    ASSUME KeyInv, device = 0
    PROVE  returned = {} /\ created = {}
  BY DEF KeyInv, IdentityStable

\* Steps on credentials keep their invariant.
LEMMA KeyStepInv ==
    ASSUME TypeOK, KeyInv, NEW w \in Worker, KeyStep(w)
    PROVE  KeyInv'
  <1>0. call[w] \in CallType /\ None.op \notin Loads
    BY DEF TypeOK, None, Loads
  <1>1. \A v \in Worker : v # w => call'[v] = call[v]
    BY KeyStepCall
  <1>2. CASE BeginIdentity(w)
    <2>1. call'[w].stage \notin Holding
      BY <1>2 DEF BeginIdentity, TypeOK, None, Holding
    <2>2. UNCHANGED <<device, deviceSurvivors, deviceLock, returned, created>>
      BY <1>2 DEF BeginIdentity, deviceVars
    <2> QED BY <1>1, <2>1, <2>2, KeysLeftInv DEF KeysLeft
  <1>3. CASE LockIdentity(w)
    <2>1. /\ UNCHANGED <<device, deviceSurvivors, returned, created>>
          /\ deviceLock = "free" /\ deviceLock' = w
      BY <1>3 DEF LockIdentity
    <2>2. call'[w].stage = "load"
      BY <1>0, <1>3 DEF LockIdentity, Moves, TypeOK, CallType
    <2>3. CreatorInv'
      BY <1>1, <2>1, <2>2, OneCreator DEF CreatorInv, Holding
    <2> QED BY <2>1, <2>3 DEF KeyInv, IdentityStable
  <1>4. CASE LoadIdentity(w)
    <2>1. /\ device' = device /\ device # 0 /\ UNCHANGED <<deviceSurvivors, created>>
          /\ returned' = returned \cup {device}
          /\ deviceLock = w
      BY <1>4 DEF LoadIdentity, At, KeyInv, CreatorInv
    <2>2. call'[w].op \notin Loads \/ call'[w].stage \notin Holding
      BY <1>0, <1>4 DEF LoadIdentity, HasIdentity, TypeOK, CallType, Holding
    <2>3. CreatorInv'
      BY <1>1, <2>1, <2>2, OneCreator DEF CreatorInv, Holding
    <2> QED BY <2>1, <2>3 DEF KeyInv, IdentityStable
  <1>5. CASE Generate(w)
    <2>1. /\ UNCHANGED <<device, deviceSurvivors, deviceLock, returned, created>>
          /\ device = 0 /\ deviceLock = w
      BY <1>5 DEF Generate, At, KeyInv, CreatorInv
    <2>2. call'[w].stage = "pending" /\ call'[w].key = generated + 1
      BY <1>0, <1>5 DEF Generate, TypeOK, CallType
    <2>3. call'[w].key # 0
      BY <2>2, SMT DEF TypeOK
    <2>4. CreatorInv'
      BY <1>1, <2>1, <2>2, <2>3, OneCreator DEF CreatorInv, Holding
    <2> QED BY <2>1, <2>4 DEF KeyInv, IdentityStable
  <1>6. CASE RenameIdentity(w)
    <2>1. /\ UNCHANGED <<deviceLock, returned, created>> /\ device' = call[w].key
          /\ deviceSurvivors' = deviceSurvivors \cup {call[w].key}
          /\ device = 0 /\ deviceLock = w /\ call[w].key # 0
      BY <1>6 DEF RenameIdentity, At, KeyInv, CreatorInv
    <2>2. call'[w].stage = "renamed" /\ call'[w].key = call[w].key
      BY <1>0, <1>6 DEF RenameIdentity, Moves, TypeOK, CallType
    <2>3. CreatorInv'
      BY <1>1, <2>1, <2>2, OneCreator DEF CreatorInv, Holding
    <2>4. returned = {} /\ created = {}
      BY <2>1, KeyPresent
    <2> QED BY <2>1, <2>3, <2>4 DEF KeyInv, IdentityStable
  <1>7. CASE CreateReturns(w)
    <2>1. /\ device' = device /\ deviceSurvivors' = {device}
          /\ returned' = returned \cup {call[w].key} /\ created' = created \cup {call[w].key}
          /\ device = call[w].key /\ deviceLock = w /\ call[w].key # 0
      BY <1>7 DEF CreateReturns, At, KeyInv, CreatorInv
    <2>2. call'[w].op \notin Loads \/ call'[w].stage \notin Holding
      BY <1>0, <1>7 DEF CreateReturns, HasIdentity, TypeOK, CallType, Holding
    <2>3. CreatorInv'
      BY <1>1, <2>1, <2>2, OneCreator DEF CreatorInv, Holding
    <2>4. \A key \in created : key = device
      BY DEF KeyInv, IdentityStable
    <2> QED BY <2>1, <2>3, <2>4 DEF KeyInv, IdentityStable
  <1>8. CASE IdentityFails(w)
    <2>1. UNCHANGED <<device, deviceSurvivors, returned, created>> /\ deviceLock = w
      BY <1>8 DEF IdentityFails, KeyInv, CreatorInv
    <2>2. call'[w] = None
      BY <1>8 DEF IdentityFails, Returns, TypeOK
    <2> QED BY <1>0, <1>1, <2>1, <2>2, KeysLeftInv DEF KeysLeft
  <1> QED BY <1>2, <1>3, <1>4, <1>5, <1>6, <1>7, <1>8 DEF KeyStep, IdentityStep

\* Every step keeps the invariant of the credentials.
LEMMA KeyNextInv ==
    ASSUME TypeOK, KeyInv, [Next]_vars
    PROVE  KeyInv'
  <1>0. None.op \notin Loads
    BY DEF None, Loads
  <1>1. ASSUME NEW w \in Worker, Crash(w)
        PROVE  KeyInv'
    <2>1. UNCHANGED <<device, deviceSurvivors, returned, created>>
      BY <1>1 DEF Crash
    <2>2. \A v \in Worker : (v # w /\ call'[v] = call[v]) \/ call'[v] = None
      BY <1>1 DEF Crash, TypeOK
    <2>3. \A v \in Worker : v # w /\ deviceLock = v => deviceLock' = v
      BY <1>1 DEF Crash
    <2> QED BY <1>0, <2>1, <2>2, <2>3, KeysLeftInv DEF KeysLeft
  <1>2. CASE PowerLoss
    <2>1. CreatorInv'
      BY <1>0, <1>2 DEF PowerLoss, CreatorInv
    <2>2. /\ device' \in deviceSurvivors /\ deviceSurvivors' = {device'}
          /\ returned' = {} /\ created' = created
      BY <1>2 DEF PowerLoss
    <2> QED BY <2>1, <2>2 DEF KeyInv, IdentityStable
  <1>3. CASE UNCHANGED vars
    BY <1>3, KeysLeftInv DEF vars, membershipVars, deviceVars, KeysLeft
  <1> QED BY <1>1, <1>2, <1>3, StepCases, OpenStepKeys, MemberStepKeys, KeyStepInv, KeysLeftInv
-----------------------------------------------------------------------------
\* The initial state satisfies the invariant.
LEMMA PeersInitInv == Init => Inv
  <1> SUFFICES ASSUME Init PROVE Inv
    OBVIOUS
  <1> USE DEF Init, MembershipInit, IdentityInit
  <1>1. Closed \in PeerType
    BY DEF Closed, PeerType
  <1>2. TypeOK
    BY <1>1, NoneType, SMT DEF TypeOK
  <1>3. Cardinality({}) = 0
    BY FS_EmptySet
  <1>4. MemberInv
    BY <1>3, MembershipAssumption, SMT DEF MemberInv, EditInv, MembershipKept, None, Edits
  <1>5. TurnInv
    BY DEF TurnInv, At, None
  <1>6. KeyInv
    BY DEF KeyInv, CreatorInv, IdentityStable, None, Loads
  <1> QED BY <1>2, <1>4, <1>5, <1>6 DEF Inv

\* Every step keeps it.
LEMMA PeersNextInv == Inv /\ [Next]_vars => Inv'
  BY TypeStep, MemberStepInv, TurnStepInv, KeyNextInv DEF Inv

\* The inductive invariant of peer workers, type correctness included.
THEOREM PeersInvariant == Spec => []Inv
  <1>1. PeersSpec => []Inv
    BY PeersInitInv, PeersNextInv, PTL DEF PeersSpec
  <1> QED BY <1>1, PTL DEF Spec

\* Approvals and revocations that returned are in the member file and in
\* whatever a power loss leaves of it, and the file is within its limit
\* (membership.rs approve, revoke).
THEOREM MembershipKeptHolds == Spec => []MembershipKept
  <1>1. Inv => MembershipKept
    BY DEF Inv, MemberInv
  <1> QED BY <1>1, PeersInvariant, PTL

\* A turn that begins after a revocation returned does not serve the device
\* (secure.rs, the recheck of every turn).
THEOREM RevokedNotServedHolds == Spec => []RevokedNotServed
  <1>1. Inv => RevokedNotServed
    BY DEF Inv, TurnInv, RevokedNotServed
  <1> QED BY <1>1, PeersInvariant, PTL

\* Workers that race for the credentials are all given the same ones, and
\* created ones are never replaced (identity.rs load_or_create).
THEOREM IdentityStableHolds == Spec => []IdentityStable
  <1>1. Inv => IdentityStable
    BY DEF Inv, KeyInv
  <1> QED BY <1>1, PeersInvariant, PTL
=============================================================================
