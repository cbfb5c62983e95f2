--------------------------- MODULE RotationProofs ---------------------------
(***************************************************************************)
(* Rotation of a peer's credential for any number of slots, generations,   *)
(* rotations and faults: a start never loads a mixed identity, and Control *)
(* never depends on an identity the peer does not hold.                    *)
(***************************************************************************)
EXTENDS CredentialRotation, WellFoundedInduction, TLAPS

-----------------------------------------------------------------------------
(* The inductive invariant, in parts.                                      *)

\* What the files are worth under each marker.
DiskInv ==
    /\ disk.marker.state = "none" <=> disk.marker.id = None
    /\ disk.marker.id # 1 /\ disk.marker.id <= last
    /\ disk.marker.state # "committing" => \E g \in Gens : Holds(g)
    /\ disk.marker.state \in {"requested", "staged"} =>
         \A p \in Keys : disk.next[p] = disk.marker.id
    /\ disk.marker.state = "staged" => disk.next["credential"] = disk.marker.id
    /\ disk.marker.state = "committing" =>
         \A p \in Parts : \/ disk.next[p] = disk.marker.id
                          \/ disk.next[p] = None /\ disk.cur[p] = disk.marker.id

\* Where the running call stands: the operations left and what the ones behind
\* them have done.
Asking(g) ==
    \/ /\ disk.marker.state = "none"
       /\ \/ work.ops = StageKeys(g)
          \/ /\ work.ops = <<Put("noise", g), Put("wireguard", g), Mark("requested", g)>>
             /\ disk.next["identity"] = g
          \/ /\ work.ops = <<Put("wireguard", g), Mark("requested", g)>>
             /\ disk.next["identity"] = g /\ disk.next["noise"] = g
          \/ /\ work.ops = <<Mark("requested", g)>>
             /\ \A p \in Keys : disk.next[p] = g
    \/ work.ops = <<>> /\ disk.marker = [state |-> "requested", id |-> g]

Staging(g) ==
    /\ disk.marker.id = g /\ disk.marker.state \in {"requested", "staged"}
    /\ \/ work.ops = StageIdentity(g)
       \/ work.ops = <<Put("noise", g), Put("wireguard", g), Put("credential", g),
                       Mark("staged", g)>>
       \/ work.ops = <<Put("wireguard", g), Put("credential", g), Mark("staged", g)>>
       \/ work.ops = <<Put("credential", g), Mark("staged", g)>>
       \/ work.ops = <<Mark("staged", g)>> /\ disk.next["credential"] = g
       \/ work.ops = <<>> /\ disk.marker.state = "staged"

Finishing ==
    /\ disk.marker.state = "committing"
    /\ \/ work.ops = FinishCommit
       \/ /\ work.ops = <<Move("wireguard"), Move("noise"), Move("identity"), Unmark>>
          /\ disk.next["credential"] = None
       \/ /\ work.ops = <<Move("noise"), Move("identity"), Unmark>>
          /\ disk.next["credential"] = None /\ disk.next["wireguard"] = None
       \/ /\ work.ops = <<Move("identity"), Unmark>>
          /\ disk.next["credential"] = None /\ disk.next["wireguard"] = None
          /\ disk.next["noise"] = None
       \/ work.ops = <<Unmark>> /\ \A p \in Parts : disk.next[p] = None

Committing(g) ==
    \/ disk.marker = [state |-> "staged", id |-> g] /\ work.ops = CommitIdentity(g)
    \/ disk.marker.id = g /\ Finishing

\* Control has made a generation active at some time.
WasActive(g) == control.cred[g] \in {"active", "overlap", "revoked"}

\* Nobody has heard of a generation.
Unused(g) == control.status[g] = "none" /\ \A m \in uplink : m.gen # g

WorkInv ==
    \/ /\ work = Idle
       /\ peer.pc # "down" => disk.marker.state # "committing"
       /\ peer.pc = "up" => disk.marker.id \in {peer.pending, peer.commit}
    \/ /\ work.then \in {"send", "report", "stuck"} /\ work.ops = <<>> /\ work.gen = None
       /\ peer.pc = "up" /\ disk.marker.state # "committing"
       /\ disk.marker.id \in {peer.pending, peer.commit}
       /\ work.then = "send" => peer.pending # None
    \/ /\ work.then = "ask" /\ peer.pc = "up" /\ peer.pending = None /\ peer.commit = None
       /\ work.gen = last /\ last # 1 /\ Unused(last) /\ Asking(last)
    \/ /\ work.then = "activate" /\ peer.pc = "up" /\ peer.commit = None
       /\ work.gen = peer.pending /\ work.gen # None /\ Staging(work.gen)
    \/ /\ work.then = "commit" /\ peer.pc = "up" /\ work.gen = peer.commit /\ work.gen # None
       /\ peer.pending = None
       /\ \/ Committing(work.gen) /\ WasActive(work.gen)
          \/ disk.marker.state = "none" /\ work.ops = <<>>
    \/ /\ work.then = "nothing" /\ work.gen = None
       /\ \/ peer.pc = "recovered" /\ Finishing
          \/ /\ peer.pc = "load" /\ disk.marker.id # None
             /\ Committing(disk.marker.id) /\ WasActive(disk.marker.id)

\* What the rotator remembers is in its journal.
PeerInv ==
    /\ peer.pc = "down" => work = Idle
    /\ IF peer.pc = "up" THEN peer.identity # None
       ELSE peer.pending = None /\ peer.commit = None
    /\ peer.pending # None => peer.pending = disk.marker.id /\ peer.commit = None
                              /\ disk.marker.state \in {"requested", "staged"}
    /\ peer.commit # None => \/ work.then = "commit"
                             \/ /\ work = Idle \/ work.then \in {"send", "report", "stuck"}
                                /\ disk.marker = [state |-> "staged", id |-> peer.commit]
    /\ peer.published # None => WasActive(peer.published)

\* The rows of Control.
ControlInv ==
    /\ control.status[1] = "none" /\ WasActive(1)
    /\ \A g \in Gens \ {1} :
         /\ control.status[g] \in {"none", "pending"} => control.cred[g] = "none"
         /\ control.status[g] = "issued" => control.cred[g] = "staged"
         /\ control.status[g] = "activated" => WasActive(g)
    /\ \E g \in Gens : control.cred[g] = "active"
    /\ \A g, h \in Gens : control.cred[g] = "active" /\ control.cred[h] = "active" => g = h
    /\ WasActive(control.directory.active)

\* Records on their way.
WireInv ==
    /\ last + budget.rotations <= MaxKeys
    /\ \A g \in Gens : g > last => Unused(g)
    /\ \A m \in uplink : m.gen # 1
    /\ \A m \in uplink : m.kind = "activation" =>
         \/ WasActive(m.gen)
         \/ disk.marker = [state |-> "staged", id |-> m.gen]
    /\ \A i \in DOMAIN inbox : inbox[i].kind = "directory" => WasActive(inbox[i].gen)

\* The identity under rotation is the active one as soon as it has been, and
\* nothing is moved before.
MarkerInv ==
    /\ disk.marker.id # None /\ WasActive(disk.marker.id) =>
         control.cred[disk.marker.id] = "active"
    /\ disk.marker.state = "committing" => WasActive(disk.marker.id)

RotationInv ==
    /\ TypeOK /\ DiskInv /\ WorkInv /\ PeerInv
    /\ ControlInv /\ WireInv /\ MarkerInv /\ ActiveIsHeld

-----------------------------------------------------------------------------
(* Facts about the operators of the model.                                 *)

\* What an activation does to the rows.
NowActive(m) ==
    /\ control.status[m.gen] = "issued"
    /\ control'.status[m.gen] = "activated" /\ control'.cred[m.gen] = "active"
    /\ \A g \in Gens \ {m.gen} :
         /\ control'.status[g] = control.status[g]
         /\ control.cred[g] = "active" => control'.cred[g] = "overlap"
         /\ control.cred[g] = "overlap" => control'.cred[g] = "revoked"
         /\ control.cred[g] \notin {"active", "overlap"} => control'.cred[g] = control.cred[g]
    /\ control'.directory = control.directory

\* activate_peer_rotation changes nothing else.
LEMMA ActivationEffect ==
    ASSUME control \in Rows, NEW m, m.gen \in Gens, ReceiveActivation(m)
    PROVE  UNCHANGED control \/ NowActive(m)
<1>1. CASE control.status[m.gen] # "issued" BY <1>1 DEF ReceiveActivation
<1>2. CASE control.status[m.gen] = "issued"
  <2>1. control' = [control EXCEPT !.status = [control.status EXCEPT ![m.gen] = "activated"],
                                   !.cred = Activated(control.cred, m.gen)]
    BY <1>2 DEF ReceiveActivation
  <2>2. /\ control'.status = [control.status EXCEPT ![m.gen] = "activated"]
        /\ control'.cred = Activated(control.cred, m.gen)
        /\ control'.directory = control.directory
    BY <2>1
  <2>3. \A g \in Gens : control'.cred[g] =
          IF g = m.gen THEN "active" ELSE IF control.cred[g] = "active" THEN "overlap"
          ELSE IF control.cred[g] = "overlap" THEN "revoked" ELSE control.cred[g]
    BY <2>2 DEF Activated
  <2>4. control.status \in [Gens -> {"none", "pending", "issued", "activated"}] BY DEF Rows
  <2>5. \A g \in Gens : control'.status[g] = IF g = m.gen THEN "activated" ELSE control.status[g]
    BY <2>2, <2>4
  <2> QED BY <1>2, <2>2, <2>3, <2>5 DEF NowActive
<1> QED BY <1>1, <1>2

\* What the issuer does to them.
NowIssued ==
    /\ \A g \in Gens :
         /\ control.status[g] = "pending" =>
              control'.status[g] = "issued" /\ control'.cred[g] = "staged"
         /\ control.status[g] # "pending" => /\ control'.status[g] = control.status[g]
                                             /\ control'.cred[g] = control.cred[g]
    /\ control'.directory = control.directory

\* issue_pending_peer_rotations changes nothing else.
LEMMA IssueEffect ==
    ASSUME control \in Rows, IssueRotations
    PROVE  NowIssued
<1> DEFINE pending == {g \in Gens : control.status[g] = "pending"}
<1>1. control' = [control EXCEPT
         !.status = [g \in Gens |-> IF g \in pending THEN "issued" ELSE control.status[g]],
         !.cred = [g \in Gens |-> IF g \in pending THEN "staged" ELSE control.cred[g]]]
  BY DEF IssueRotations
<1>2. /\ control'.status = [g \in Gens |-> IF g \in pending THEN "issued" ELSE control.status[g]]
      /\ control'.cred = [g \in Gens |-> IF g \in pending THEN "staged" ELSE control.cred[g]]
      /\ control'.directory = control.directory
  BY <1>1
<1> QED BY <1>2 DEF NowIssued

\* What a recorded request does to them.
NowPending(m) ==
    /\ control.status[m.gen] = "none" /\ control'.status[m.gen] = "pending"
    /\ \A g \in Gens \ {m.gen} : control'.status[g] = control.status[g]
    /\ control'.cred = control.cred /\ control'.directory = control.directory

\* request_peer_rotation changes nothing else.
LEMMA RequestEffect ==
    ASSUME control \in Rows, NEW m, m.gen \in Gens, ReceiveRequest(m)
    PROVE  UNCHANGED control \/ NowPending(m)
<1>1. CASE control.status[m.gen] # "none" BY <1>1 DEF ReceiveRequest
<1>2. CASE control.status[m.gen] = "none"
  <2>1. control' = [control EXCEPT !.status = [control.status EXCEPT ![m.gen] = "pending"],
                                   !.by = [control.by EXCEPT ![m.gen] = m.from]]
    BY <1>2 DEF ReceiveRequest
  <2>2. /\ control'.status = [control.status EXCEPT ![m.gen] = "pending"]
        /\ control'.cred = control.cred /\ control'.directory = control.directory
    BY <2>1
  <2>3. control.status \in [Gens -> {"none", "pending", "issued", "activated"}] BY DEF Rows
  <2> QED BY <1>2, <2>2, <2>3 DEF NowPending
<1> QED BY <1>1, <1>2

\* The operations of the calls.
LEMMA OperationsType ==
    ASSUME NEW g \in Gens
    PROVE  /\ StageKeys(g) \in Seq(Operation) /\ StageIdentity(g) \in Seq(Operation)
           /\ CommitIdentity(g) \in Seq(Operation) /\ FinishCommit \in Seq(Operation)
<1>1. \A p \in Parts : Put(p, g) \in Operation /\ Move(p) \in Operation
  BY DEF Put, Move, Operation
<1>2. /\ Mark("requested", g) \in Operation /\ Mark("staged", g) \in Operation
      /\ Mark("committing", g) \in Operation /\ Unmark \in Operation
  BY DEF Mark, Unmark, Operation
<1>3. /\ "identity" \in Parts /\ "noise" \in Parts /\ "wireguard" \in Parts
      /\ "credential" \in Parts
  BY DEF Parts, Keys
<1> QED BY <1>1, <1>2, <1>3 DEF StageKeys, StageIdentity, CommitIdentity, FinishCommit

\* The replacement a session delivers is a generation.
LEMMA IssuedType ==
    ASSUME NEW serial, Issued(serial) # None
    PROVE  Issued(serial) \in Gens /\ control.status[Issued(serial)] \in {"issued", "activated"}
<1> DEFINE gs == {g \in Gens : control.by[g] = serial
                               /\ control.status[g] \in {"issued", "activated"}}
<1>1. gs # {} BY DEF Issued
<1>2. Issued(serial) = CHOOSE g \in gs : \A h \in gs : g <= h BY DEF Issued
<1>3. \E g \in gs : \A h \in gs : g <= h
  <2> DEFINE Lt == OpToRel(<, Nat)
  <2>1. gs \subseteq Nat BY DEF Gens
  <2>2. IsWellFoundedOn(Lt, Nat) BY NatLessThanWellFounded
  <2>3. \A x, y \in Nat : x < y => <<x, y>> \in Lt BY DEF OpToRel
  <2> HIDE DEF Lt
  <2>4. \E g \in gs : \A h \in gs : ~ (<<h, g>> \in Lt) BY <1>1, <2>1, <2>2, WFMin
  <2> HIDE DEF gs
  <2>5. PICK g \in gs : \A h \in gs : ~ (<<h, g>> \in Lt) BY <2>4
  <2>6. \A h \in gs : ~ (h < g) BY <2>1, <2>3, <2>5
  <2>7. \A h \in gs : g <= h BY <2>1, <2>6
  <2> QED BY <2>7
<1> HIDE DEF gs
<1>4. Issued(serial) \in gs BY <1>2
<1> QED BY <1>4 DEF gs

\* Records stay true when the rows move forward.
LEMMA WireGrows ==
    ASSUME RotationInv, uplink' \subseteq uplink, UNCHANGED <<disk, last, inbox, budget>>,
           \A g \in Gens : WasActive(g) => control'.cred[g] \in {"active", "overlap", "revoked"},
           \A g \in Gens : g > last => control'.status[g] = "none"
    PROVE  WireInv'
<1>1. \A r \in uplink : r.gen \in Gens BY DEF RotationInv, TypeOK, Upward
<1>2. \A i \in DOMAIN inbox : inbox[i].kind = "directory" => inbox[i].gen \in Gens
  <2>1. inbox \in Seq(Downward) BY DEF RotationInv, TypeOK
  <2>2. \A i \in DOMAIN inbox : inbox[i] \in Downward BY <2>1
  <2> QED BY <2>2 DEF Downward
<1>3. \A g \in Gens : g > last =>
        control'.status[g] = "none" /\ \A r \in uplink' : r.gen # g
  BY DEF RotationInv, WireInv, Unused
<1>4. \A r \in uplink' : r.gen # 1 BY DEF RotationInv, WireInv
<1>5. \A r \in uplink' : r.kind = "activation" =>
        \/ control'.cred[r.gen] \in {"active", "overlap", "revoked"}
        \/ disk'.marker = [state |-> "staged", id |-> r.gen]
  BY <1>1 DEF RotationInv, WireInv
<1>6. \A i \in DOMAIN inbox' : inbox'[i].kind = "directory" =>
        control'.cred[inbox'[i].gen] \in {"active", "overlap", "revoked"}
  BY <1>2 DEF RotationInv, WireInv
<1>7. last' + budget'.rotations <= MaxKeys BY DEF RotationInv, WireInv
<1> QED BY <1>3, <1>4, <1>5, <1>6, <1>7 DEF WireInv, WasActive, Unused

\* What has been active stays known as such, and what nobody has heard of stays so
\* until it is requested.
LEMMA ControlGrows ==
    ASSUME RotationInv, [Next]_vars
    PROVE  \A g \in Gens : WasActive(g) => control'.cred[g] \in {"active", "overlap", "revoked"}
<1> USE DEF WasActive
<1>1. control \in Rows BY DEF RotationInv, TypeOK
<1>2. 1 \in Gens BY BoundsAssumption DEF Gens
<1>3. ASSUME NEW m \in uplink, ReceiveRequest(m)
      PROVE  \A g \in Gens : WasActive(g) => control'.cred[g] \in {"active", "overlap", "revoked"}
  <2>1. m.gen \in Gens BY DEF RotationInv, TypeOK, Upward
  <2> QED BY <1>1, <1>3, <2>1, RequestEffect DEF NowPending
<1>4. ASSUME NEW m \in uplink, ReceiveActivation(m)
      PROVE  \A g \in Gens : WasActive(g) => control'.cred[g] \in {"active", "overlap", "revoked"}
  <2>1. m.gen \in Gens BY DEF RotationInv, TypeOK, Upward
  <2> QED BY <1>1, <1>4, <2>1, ActivationEffect DEF NowActive
<1>5. CASE IssueRotations
  <2>1. NowIssued BY <1>1, <1>5, IssueEffect
  <2> QED BY <1>2, <2>1 DEF NowIssued, RotationInv, ControlInv
<1>6. CASE Publish BY <1>1, <1>6 DEF Publish
<1>7. ASSUME NEW g \in Gens, OverlapLapses(g)
      PROVE  \A h \in Gens : WasActive(h) => control'.cred[h] \in {"active", "overlap", "revoked"}
  BY <1>1, <1>7 DEF OverlapLapses
<1>8. CASE UNCHANGED control BY <1>8
<1> QED BY <1>3, <1>4, <1>5, <1>6, <1>7, <1>8 DEF Next, Start, Recover, CommitStaged,
   SkipStaged, Load, Rotator, FileStep, Requested, AcceptReplacement, RejectReplacement,
   InstallDirectory, Committed, SendPending, Activate, RequestNow, Relay, Connect, Replace,
   NoticeDeath, DeliverDirectory, DeliverReplacement, Deliver, Break, Receive, RefuseRequest,
   LoseRequest, Publisher, Crash, RequestFails, vars,
   CheckRotation, SendSlowly, Report, Reported, QueueFills, ReceivePacket, Traffic

\* A call goes on as the rows move forward.
LEMMA WorkGrows ==
    ASSUME RotationInv, [Next]_vars, UNCHANGED <<disk, work, peer, last>>,
           work.then = "ask" /\ Unused(last) => Unused(last)'
    PROVE  WorkInv'
<1>1. /\ work.gen \in Gens \cup {None} /\ disk.marker.id \in Gens \cup {None}
  BY DEF RotationInv, TypeOK, Call, Files
<1>2. /\ work.gen # None /\ WasActive(work.gen) => WasActive(work.gen)'
      /\ disk.marker.id # None /\ WasActive(disk.marker.id) => WasActive(disk.marker.id)'
  BY <1>1, ControlGrows DEF WasActive
<1>3. Asking(last) => Asking(last)' BY DEF Asking
<1>4. Staging(work.gen) => Staging(work.gen)' BY DEF Staging
<1>5. Finishing => Finishing' BY DEF Finishing
<1>6. /\ Committing(work.gen) => Committing(work.gen)'
      /\ Committing(disk.marker.id) => Committing(disk.marker.id)'
  BY <1>5 DEF Committing
<1> QED BY <1>2, <1>3, <1>4, <1>5, <1>6 DEF RotationInv, WorkInv

-----------------------------------------------------------------------------
(* The file operations of the calls.                                       *)

\* What every operation keeps, and what it leaves alone.
FilesKept == disk' \in Files /\ DiskInv' /\ MarkerInv' /\ ActiveIsHeld' /\ WireInv'

Elsewhere == UNCHANGED <<peer, last, uplink, inbox, control, budget>>

\* A file is staged when there is no journal, or by its own journal.
LEMMA PutKeeps ==
    ASSUME RotationInv, Elsewhere, NEW p \in Parts, NEW g \in Gens,
           \/ disk.marker.state = "none"
           \/ disk.marker.id = g /\ disk.marker.state \in {"requested", "staged"},
           disk' = After(disk, Put(p, g))
    PROVE  /\ FilesKept /\ disk'.marker = disk.marker
           /\ disk'.next = [disk.next EXCEPT ![p] = g]
<1>1. disk \in Files /\ disk' = [disk EXCEPT !.next = [@ EXCEPT ![p] = g]]
  BY DEF After, Put, RotationInv, TypeOK
<1>2. /\ disk' \in Files /\ disk'.marker = disk.marker /\ disk'.cur = disk.cur
      /\ disk'.next = [disk.next EXCEPT ![p] = g]
  BY <1>1 DEF Files
<1>3. /\ disk'.next[p] = g /\ \A q \in Parts \ {p} : disk'.next[q] = disk.next[q]
  BY <1>1 DEF Files
<1>4. DiskInv'
  BY <1>2, <1>3 DEF RotationInv, DiskInv, Holds, Elsewhere
<1>5. MarkerInv' /\ WireInv'
  BY <1>2 DEF RotationInv, MarkerInv, WireInv, WasActive, Unused, Elsewhere
<1>6. ActiveIsHeld'
  BY <1>2, <1>3 DEF RotationInv, ActiveIsHeld, Elsewhere
<1> QED BY <1>2, <1>4, <1>5, <1>6 DEF FilesKept

\* A request is journalled once its keys are staged.
LEMMA RequestedKeeps ==
    ASSUME RotationInv, Elsewhere, NEW g \in Gens, g # 1, g <= last, Unused(g),
           disk.marker.state = "none", \A p \in Keys : disk.next[p] = g,
           disk' = After(disk, Mark("requested", g))
    PROVE  FilesKept /\ disk'.marker = [state |-> "requested", id |-> g] /\ disk'.next = disk.next
<1>1. disk \in Files /\ disk' = [disk EXCEPT !.marker = [state |-> "requested", id |-> g]]
  BY DEF After, Mark, RotationInv, TypeOK
<1>2. /\ disk' \in Files /\ disk'.marker = [state |-> "requested", id |-> g]
      /\ disk'.cur = disk.cur /\ disk'.next = disk.next
  BY <1>1 DEF Files
<1>3. ~WasActive(g)
  BY DEF RotationInv, ControlInv, WasActive, Unused
<1>4. DiskInv'
  BY <1>2 DEF RotationInv, DiskInv, Holds, Elsewhere, Keys, Parts, Gens, None
<1>5. MarkerInv'
  BY <1>2, <1>3 DEF MarkerInv, WasActive, Elsewhere
<1>6. WireInv'
  BY <1>2 DEF RotationInv, WireInv, WasActive, Unused, Elsewhere
<1>7. ActiveIsHeld'
  BY <1>2 DEF RotationInv, ActiveIsHeld, Elsewhere
<1> QED BY <1>2, <1>4, <1>5, <1>6, <1>7 DEF FilesKept

\* It is marked as staged once its credential is there.
LEMMA StagedKeeps ==
    ASSUME RotationInv, Elsewhere, NEW g \in Gens, disk.marker.id = g,
           disk.marker.state \in {"requested", "staged"}, disk.next["credential"] = g,
           disk' = After(disk, Mark("staged", g))
    PROVE  FilesKept /\ disk'.marker = [state |-> "staged", id |-> g] /\ disk'.next = disk.next
<1>1. disk \in Files /\ disk' = [disk EXCEPT !.marker = [state |-> "staged", id |-> g]]
  BY DEF After, Mark, RotationInv, TypeOK
<1>2. /\ disk' \in Files /\ disk'.marker = [state |-> "staged", id |-> g]
      /\ disk'.cur = disk.cur /\ disk'.next = disk.next
  BY <1>1 DEF Files
<1>4. DiskInv'
  BY <1>2 DEF RotationInv, DiskInv, Holds, Elsewhere, Keys
<1>5. MarkerInv'
  BY <1>2 DEF RotationInv, MarkerInv, WasActive, Elsewhere
<1>6. WireInv'
  BY <1>2 DEF RotationInv, WireInv, WasActive, Unused, Elsewhere
<1>7. ActiveIsHeld'
  BY <1>2 DEF RotationInv, ActiveIsHeld, Elsewhere
<1> QED BY <1>2, <1>4, <1>5, <1>6, <1>7 DEF FilesKept

\* Its commit begins once it has been active.
LEMMA CommittingKeeps ==
    ASSUME RotationInv, Elsewhere, NEW g \in Gens, WasActive(g),
           disk.marker = [state |-> "staged", id |-> g],
           disk' = After(disk, Mark("committing", g))
    PROVE  FilesKept /\ disk'.marker = [state |-> "committing", id |-> g] /\ disk'.next = disk.next
<1>1. disk \in Files /\ disk' = [disk EXCEPT !.marker = [state |-> "committing", id |-> g]]
  BY DEF After, Mark, RotationInv, TypeOK
<1>2. /\ disk' \in Files /\ disk'.marker = [state |-> "committing", id |-> g]
      /\ disk'.cur = disk.cur /\ disk'.next = disk.next
  BY <1>1 DEF Files
<1>4. DiskInv'
  BY <1>2 DEF RotationInv, DiskInv, Elsewhere, Keys, Parts
<1>5. MarkerInv'
  BY <1>2 DEF RotationInv, MarkerInv, WasActive, Elsewhere
<1>6. WireInv'
  BY <1>2 DEF RotationInv, WireInv, WasActive, Unused, Elsewhere
<1>7. ActiveIsHeld'
  BY <1>2 DEF RotationInv, ActiveIsHeld, Elsewhere
<1> QED BY <1>2, <1>4, <1>5, <1>6, <1>7 DEF FilesKept

\* A commit moves what is staged into place.
LEMMA MoveKeeps ==
    ASSUME RotationInv, Elsewhere, NEW p \in Parts, disk.marker.state = "committing",
           disk' = After(disk, Move(p))
    PROVE  /\ FilesKept /\ disk'.marker = disk.marker /\ disk'.next[p] = None
           /\ \A q \in Parts \ {p} : disk'.next[q] = disk.next[q]
<1>1. disk \in Files BY DEF RotationInv, TypeOK
<1>2. CASE disk.next[p] = None
  <2>1. disk' = disk BY <1>2 DEF After, Move
  <2> QED BY <1>1, <1>2, <2>1 DEF FilesKept, RotationInv, DiskInv, Holds, MarkerInv,
     ActiveIsHeld, WireInv, WasActive, Unused, Elsewhere
<1>3. CASE disk.next[p] # None
  <2>1. disk' = [disk EXCEPT !.cur = [@ EXCEPT ![p] = disk.next[p]],
                             !.next = [@ EXCEPT ![p] = None]]
    BY <1>3 DEF After, Move
  <2>2. disk.next[p] = disk.marker.id /\ disk.marker.id \in Gens
    BY <1>1, <1>3 DEF RotationInv, DiskInv, Files
  <2>3. /\ disk'.marker = disk.marker
        /\ disk'.cur = [disk.cur EXCEPT ![p] = disk.marker.id]
        /\ disk'.next = [disk.next EXCEPT ![p] = None]
    BY <1>1, <2>1, <2>2
  <2>4. disk' \in Files
    <3>1. /\ [disk.cur EXCEPT ![p] = disk.next[p]] \in [Parts -> Gens]
          /\ [disk.next EXCEPT ![p] = None] \in [Parts -> Gens \cup {None}]
      BY <1>1, <2>2 DEF Files
    <3> QED BY <1>1, <2>1, <3>1 DEF Files
  <2>5. /\ disk'.cur[p] = disk.marker.id /\ disk'.next[p] = None
        /\ \A q \in Parts \ {p} : disk'.next[q] = disk.next[q] /\ disk'.cur[q] = disk.cur[q]
    BY <1>1, <2>3 DEF Files
  <2>6. DiskInv' BY <2>3, <2>5 DEF RotationInv, DiskInv, Elsewhere
  <2>7. MarkerInv' BY <2>3 DEF RotationInv, MarkerInv, WasActive, Elsewhere
  <2>8. WireInv' BY <2>3 DEF RotationInv, WireInv, WasActive, Unused, Elsewhere
  <2>9. \A g \in Gens : control.cred[g] = "active" => g = disk.marker.id
    BY <2>2 DEF RotationInv, MarkerInv, ControlInv, Gens, None
  <2>10. ActiveIsHeld' BY <2>3, <2>5, <2>9 DEF RotationInv, ActiveIsHeld, Elsewhere
  <2> QED BY <2>3, <2>4, <2>5, <2>6, <2>7, <2>8, <2>10 DEF FilesKept
<1> QED BY <1>2, <1>3

\* The journal ends when nothing is staged any more.
LEMMA UnmarkKeeps ==
    ASSUME RotationInv, Elsewhere, disk.marker.state = "committing",
           \A p \in Parts : disk.next[p] = None,
           disk' = After(disk, Unmark)
    PROVE  FilesKept /\ disk'.marker = [state |-> "none", id |-> None]
<1>1. disk \in Files /\ disk' = [disk EXCEPT !.marker = [state |-> "none", id |-> None]]
  BY DEF After, Unmark, RotationInv, TypeOK
<1>2. /\ disk' \in Files /\ disk'.marker = [state |-> "none", id |-> None]
      /\ disk'.cur = disk.cur /\ disk'.next = disk.next
  BY <1>1 DEF Files
<1>3. disk.marker.id \in Gens /\ \A p \in Parts : disk.cur[p] = disk.marker.id
  BY <1>1 DEF RotationInv, DiskInv, Files
<1>4. DiskInv'
  BY SMTT(60), <1>2, <1>3, BoundsAssumption DEF RotationInv, TypeOK, DiskInv, Holds, Elsewhere, Gens, None
<1>5. MarkerInv'
  BY <1>2 DEF MarkerInv
<1>6. WireInv'
  BY <1>2, <1>3 DEF RotationInv, WireInv, WasActive, Unused, Elsewhere
<1>7. \A g \in Gens : control.cred[g] = "active" => g = disk.marker.id
  BY <1>3 DEF RotationInv, MarkerInv, ControlInv, Gens, None
<1>8. ActiveIsHeld'
  BY <1>2, <1>3, <1>7 DEF ActiveIsHeld, Elsewhere
<1> QED BY <1>2, <1>4, <1>5, <1>6, <1>8 DEF FilesKept

\* What a file step is, whatever the call.
LEMMA FileStepIs ==
    ASSUME RotationInv, FileStep
    PROVE  /\ Elsewhere /\ work.ops # <<>> /\ peer.pc # "down"
           /\ disk' = After(disk, Head(work.ops)) /\ work'.ops = Tail(work.ops)
           /\ work'.then = work.then /\ work'.gen = work.gen
BY DEF RotationInv, TypeOK, Call, FileStep, Elsewhere

\* A step of a request.
LEMMA AskingStep ==
    ASSUME RotationInv, FileStep, Asking(last), Unused(last), last # 1
    PROVE  FilesKept /\ Asking(last)'
<1>1. /\ Elsewhere /\ work.ops # <<>> /\ disk' = After(disk, Head(work.ops))
      /\ work'.ops = Tail(work.ops) /\ last' = last
  BY FileStepIs DEF Elsewhere
<1>2. disk \in Files /\ last \in Gens /\ last <= last BY DEF RotationInv, TypeOK, Gens
<1>3. Keys = {"identity", "noise", "wireguard"} /\ Keys \subseteq Parts BY DEF Parts, Keys
<1>4. CASE /\ disk.marker.state = "none" /\ work.ops = StageKeys(last)
  <2>1. Head(work.ops) = Put("identity", last) /\ Tail(work.ops) = <<Put("noise", last), Put("wireguard", last), Mark("requested", last)>>
    BY <1>4 DEF StageKeys
  <2>2. FilesKept /\ disk'.marker = disk.marker /\ disk'.next = [disk.next EXCEPT !["identity"] = last]
    BY <1>1, <1>2, <1>3, <1>4, <2>1, PutKeeps
  <2>3. disk'.next["identity"] = last
    BY <1>2, <1>3, <1>4, <2>2 DEF Files
  <2> QED BY <1>1, <1>3, <1>4, <2>1, <2>2, <2>3 DEF Asking
<1>5. CASE /\ disk.marker.state = "none" /\ work.ops = <<Put("noise", last), Put("wireguard", last), Mark("requested", last)>>
            /\ disk.next["identity"] = last
  <2>1. Head(work.ops) = Put("noise", last) /\ Tail(work.ops) = <<Put("wireguard", last), Mark("requested", last)>>
    BY <1>5
  <2>2. FilesKept /\ disk'.marker = disk.marker /\ disk'.next = [disk.next EXCEPT !["noise"] = last]
    BY <1>1, <1>2, <1>3, <1>5, PutKeeps
  <2>3. disk'.next["identity"] = last /\ disk'.next["noise"] = last
    BY <1>2, <1>3, <1>5, <2>2 DEF Files
  <2> QED BY <1>1, <1>3, <1>5, <2>1, <2>2, <2>3 DEF Asking
<1>6. CASE /\ disk.marker.state = "none" /\ work.ops = <<Put("wireguard", last), Mark("requested", last)>>
            /\ disk.next["identity"] = last /\ disk.next["noise"] = last
  <2>1. Head(work.ops) = Put("wireguard", last) /\ Tail(work.ops) = <<Mark("requested", last)>>
    BY <1>6
  <2>2. FilesKept /\ disk'.marker = disk.marker /\ disk'.next = [disk.next EXCEPT !["wireguard"] = last]
    BY <1>1, <1>2, <1>3, <1>6, PutKeeps
  <2>3. disk'.next["identity"] = last /\ disk'.next["noise"] = last /\ disk'.next["wireguard"] = last
    BY <1>2, <1>3, <1>6, <2>2 DEF Files
  <2> QED BY <1>1, <1>3, <1>6, <2>1, <2>2, <2>3 DEF Asking
<1>7. CASE /\ disk.marker.state = "none" /\ work.ops = <<Mark("requested", last)>>
            /\ \A p \in Keys : disk.next[p] = last
  <2>1. Head(work.ops) = Mark("requested", last) /\ Tail(work.ops) = <<>> BY <1>7
  <2>2. FilesKept /\ disk'.marker = [state |-> "requested", id |-> last]
    BY <1>1, <1>2, <1>7, RequestedKeeps
  <2> QED BY <1>1, <2>1, <2>2 DEF Asking
<1> QED BY <1>1, <1>4, <1>5, <1>6, <1>7 DEF Asking

\* A step of the staging of a replacement.
LEMMA StagingStep ==
    ASSUME RotationInv, FileStep, NEW g \in Gens, Staging(g)
    PROVE  FilesKept /\ Staging(g)'
<1>1. /\ Elsewhere /\ work.ops # <<>> /\ disk' = After(disk, Head(work.ops))
      /\ work'.ops = Tail(work.ops)
  BY FileStepIs
<1>2. disk \in Files /\ disk.marker.id = g /\ disk.marker.state \in {"requested", "staged"}
  BY DEF RotationInv, TypeOK, Staging
<1>3. CASE work.ops = StageIdentity(g)
  <2>1. Head(work.ops) = Put("identity", g) /\ Tail(work.ops) = <<Put("noise", g), Put("wireguard", g), Put("credential", g), Mark("staged", g)>>
    BY <1>3 DEF StageIdentity
  <2>2. "identity" \in Parts BY DEF Parts, Keys
  <2>3. FilesKept /\ disk'.marker = disk.marker /\ disk'.next = [disk.next EXCEPT !["identity"] = g]
    BY <1>1, <1>2, <2>1, <2>2, PutKeeps
  <2> QED BY <1>1, <1>2, <2>1, <2>3 DEF Staging
<1>4. CASE work.ops = <<Put("noise", g), Put("wireguard", g), Put("credential", g), Mark("staged", g)>>
  <2>1. Head(work.ops) = Put("noise", g) /\ Tail(work.ops) = <<Put("wireguard", g), Put("credential", g), Mark("staged", g)>>
    BY <1>4
  <2>2. "noise" \in Parts BY DEF Parts, Keys
  <2>3. FilesKept /\ disk'.marker = disk.marker /\ disk'.next = [disk.next EXCEPT !["noise"] = g]
    BY <1>1, <1>2, <2>1, <2>2, PutKeeps
  <2> QED BY <1>1, <1>2, <2>1, <2>3 DEF Staging
<1>5. CASE work.ops = <<Put("wireguard", g), Put("credential", g), Mark("staged", g)>>
  <2>1. Head(work.ops) = Put("wireguard", g) /\ Tail(work.ops) = <<Put("credential", g), Mark("staged", g)>>
    BY <1>5
  <2>2. "wireguard" \in Parts BY DEF Parts, Keys
  <2>3. FilesKept /\ disk'.marker = disk.marker /\ disk'.next = [disk.next EXCEPT !["wireguard"] = g]
    BY <1>1, <1>2, <2>1, <2>2, PutKeeps
  <2> QED BY <1>1, <1>2, <2>1, <2>3 DEF Staging
<1>6. CASE work.ops = <<Put("credential", g), Mark("staged", g)>>
  <2>1. Head(work.ops) = Put("credential", g) /\ Tail(work.ops) = <<Mark("staged", g)>>
    BY <1>6
  <2>2. "credential" \in Parts BY DEF Parts
  <2>3. FilesKept /\ disk'.marker = disk.marker /\ disk'.next = [disk.next EXCEPT !["credential"] = g]
    BY <1>1, <1>2, <2>1, <2>2, PutKeeps
  <2>4. disk'.next["credential"] = g BY <1>2, <2>2, <2>3 DEF Files
  <2> QED BY <1>1, <1>2, <2>1, <2>3, <2>4 DEF Staging
<1>7. CASE work.ops = <<Mark("staged", g)>> /\ disk.next["credential"] = g
  <2>1. Head(work.ops) = Mark("staged", g) /\ Tail(work.ops) = <<>> BY <1>7
  <2>2. FilesKept /\ disk'.marker = [state |-> "staged", id |-> g]
    BY <1>1, <1>2, <1>7, StagedKeeps
  <2> QED BY <1>1, <2>1, <2>2 DEF Staging
<1> QED BY <1>1, <1>3, <1>4, <1>5, <1>6, <1>7 DEF Staging

\* A step of the renames of a commit.
LEMMA FinishingStep ==
    ASSUME RotationInv, FileStep, Finishing
    PROVE  /\ FilesKept
           /\ \/ Finishing' /\ disk'.marker = disk.marker
              \/ disk'.marker = [state |-> "none", id |-> None] /\ work'.ops = <<>>
<1>1. /\ Elsewhere /\ work.ops # <<>> /\ disk' = After(disk, Head(work.ops))
      /\ work'.ops = Tail(work.ops) /\ disk.marker.state = "committing"
  BY FileStepIs DEF Finishing
<1>2. Parts = {"credential", "wireguard", "noise", "identity"} BY DEF Parts, Keys
<1>3. CASE /\ work.ops = FinishCommit
  <2>1. Head(work.ops) = Move("credential") /\ Tail(work.ops) = <<Move("wireguard"), Move("noise"), Move("identity"), Unmark>>
    BY <1>3 DEF FinishCommit
  <2>2. /\ FilesKept /\ disk'.marker = disk.marker /\ disk'.next["credential"] = None
        /\ \A q \in Parts \ {"credential"} : disk'.next[q] = disk.next[q]
    BY <1>1, <1>2, <2>1, MoveKeeps
  <2> QED BY <1>1, <1>2, <1>3, <2>1, <2>2 DEF Finishing
<1>4. CASE /\ work.ops = <<Move("wireguard"), Move("noise"), Move("identity"), Unmark>>
            /\ disk.next["credential"] = None
  <2>1. Head(work.ops) = Move("wireguard") /\ Tail(work.ops) = <<Move("noise"), Move("identity"), Unmark>>
    BY <1>4
  <2>2. /\ FilesKept /\ disk'.marker = disk.marker /\ disk'.next["wireguard"] = None
        /\ \A q \in Parts \ {"wireguard"} : disk'.next[q] = disk.next[q]
    BY <1>1, <1>2, <2>1, MoveKeeps
  <2> QED BY <1>1, <1>2, <1>4, <2>1, <2>2 DEF Finishing
<1>5. CASE /\ work.ops = <<Move("noise"), Move("identity"), Unmark>>
            /\ disk.next["credential"] = None /\ disk.next["wireguard"] = None
  <2>1. Head(work.ops) = Move("noise") /\ Tail(work.ops) = <<Move("identity"), Unmark>>
    BY <1>5
  <2>2. /\ FilesKept /\ disk'.marker = disk.marker /\ disk'.next["noise"] = None
        /\ \A q \in Parts \ {"noise"} : disk'.next[q] = disk.next[q]
    BY <1>1, <1>2, <2>1, MoveKeeps
  <2> QED BY <1>1, <1>2, <1>5, <2>1, <2>2 DEF Finishing
<1>6. CASE /\ work.ops = <<Move("identity"), Unmark>>
            /\ disk.next["credential"] = None /\ disk.next["wireguard"] = None /\ disk.next["noise"] = None
  <2>1. Head(work.ops) = Move("identity") /\ Tail(work.ops) = <<Unmark>>
    BY <1>6
  <2>2. /\ FilesKept /\ disk'.marker = disk.marker /\ disk'.next["identity"] = None
        /\ \A q \in Parts \ {"identity"} : disk'.next[q] = disk.next[q]
    BY <1>1, <1>2, <2>1, MoveKeeps
  <2> QED BY <1>1, <1>2, <1>6, <2>1, <2>2 DEF Finishing
<1>7. CASE work.ops = <<Unmark>> /\ \A p \in Parts : disk.next[p] = None
  <2>1. Head(work.ops) = Unmark /\ Tail(work.ops) = <<>> BY <1>7
  <2> QED BY <1>1, <1>7, UnmarkKeeps
<1> QED BY <1>3, <1>4, <1>5, <1>6, <1>7 DEF Finishing

\* A step of a commit.
LEMMA CommittingStep ==
    ASSUME RotationInv, FileStep, NEW g \in Gens, Committing(g), WasActive(g)
    PROVE  /\ FilesKept
           /\ \/ Committing(g)'
              \/ disk'.marker = [state |-> "none", id |-> None] /\ work'.ops = <<>>
<1>1. /\ Elsewhere /\ disk' = After(disk, Head(work.ops)) /\ work'.ops = Tail(work.ops)
  BY FileStepIs
<1>2. CASE disk.marker = [state |-> "staged", id |-> g] /\ work.ops = CommitIdentity(g)
  <2>1. Head(work.ops) = Mark("committing", g) /\ Tail(work.ops) = FinishCommit
    BY <1>2 DEF CommitIdentity, FinishCommit
  <2>2. FilesKept /\ disk'.marker = [state |-> "committing", id |-> g]
    BY <1>1, <1>2, <2>1, CommittingKeeps
  <2> QED BY <1>1, <2>1, <2>2 DEF Committing, Finishing
<1>3. CASE disk.marker.id = g /\ Finishing
  BY SMTT(60), <1>3, FinishingStep DEF Committing
<1> QED BY <1>2, <1>3 DEF Committing

-----------------------------------------------------------------------------
(* Every step keeps every part.                                            *)

\* The type of work.
LEMMA WorkType ==
    ASSUME RotationInv, [Next]_vars
    PROVE  work' \in Call
<1>1. ASSUME Recover PROVE work' \in Call
  <2>1. 1 \in Gens BY BoundsAssumption DEF Gens
  <2>2. FinishCommit \in Seq(Operation) BY <2>1, OperationsType
  <2>3. Idle \in Call BY DEF Idle, Call
  <2>4. [Idle EXCEPT !.ops = FinishCommit] \in Call BY <2>2 DEF Idle, Call
  <2> QED BY <1>1, <2>3, <2>4 DEF Recover
<1>2. ASSUME CommitStaged PROVE work' \in Call
  <2>1. disk.marker.id \in Gens BY <1>2 DEF CommitStaged, RotationInv, TypeOK, DiskInv, Files
  <2>2. CommitIdentity(disk.marker.id) \in Seq(Operation) BY <2>1, OperationsType
  <2>3. [Idle EXCEPT !.ops = CommitIdentity(disk.marker.id)] \in Call BY <2>2 DEF Idle, Call
  <2> QED BY <1>2, <2>3 DEF CommitStaged
<1>3. ASSUME FileStep PROVE work' \in Call
  <2>1. work \in Call BY DEF RotationInv, TypeOK
  <2>2. work.ops \in Seq(Operation) BY <2>1 DEF Call
  <2>3. Tail(work.ops) \in Seq(Operation) BY <1>3, <2>2 DEF FileStep
  <2> QED BY <1>3, <2>1, <2>3 DEF FileStep, Call
<1>4. ASSUME NEW t \in {"nothing", "send", "report", "stuck"}, work' = [Idle EXCEPT !.then = t]
      PROVE  work' \in Call
  <2>1. work' = [ops |-> <<>>, then |-> t, gen |-> None] BY <1>4 DEF Idle
  <2> QED BY <2>1 DEF Call
<1>5. ASSUME AcceptReplacement PROVE work' \in Call
  <2>1. peer.pending \in Gens
    <3>1. inbox \in Seq(Downward) /\ inbox # <<>> BY <1>5 DEF AcceptReplacement, RotationInv,
       TypeOK
    <3>2. Head(inbox) \in Downward BY <3>1
    <3> QED BY <1>5, <3>2 DEF AcceptReplacement, Downward
  <2>2. StageIdentity(peer.pending) \in Seq(Operation) BY <2>1, OperationsType
  <2> QED BY <1>5, <2>1, <2>2 DEF AcceptReplacement, Call
<1>6. ASSUME RejectReplacement PROVE work' \in Call
  BY <1>6, BoundsAssumption DEF RejectReplacement, Ready, Dies, Idle, Down, None, RotationInv,
     TypeOK, Call
<1>7. ASSUME InstallDirectory PROVE work' \in Call
  <2>1. peer.commit \in Gens \cup {None} /\ work \in Call BY DEF RotationInv, TypeOK, Process
  <2>2. ASSUME NEW g \in Gens \cup {None}, NEW h PROVE Commits(g, h) \in Call
    <3>1. g # None => CommitIdentity(g) \in Seq(Operation) BY OperationsType
    <3> QED BY <3>1 DEF Commits, Idle, Call
  <2> QED BY <1>7, <2>1, <2>2 DEF InstallDirectory
<1>8. ASSUME Committed PROVE work' \in Call
  BY <1>8, BoundsAssumption DEF Committed, Done, None, Idle, RotationInv, TypeOK, Call
<1>9. ASSUME RequestNow PROVE work' \in Call
  <2>1. last + 1 \in Gens
    <3>1. last \in Gens /\ budget.rotations \in Nat /\ last + budget.rotations <= MaxKeys
      BY DEF RotationInv, TypeOK, WireInv
    <3> QED BY <1>9, <3>1, BoundsAssumption DEF RequestNow, Gens
  <2>2. StageKeys(last + 1) \in Seq(Operation) BY <2>1, OperationsType
  <2> QED BY <1>9, <2>1, <2>2 DEF RequestNow, Call
<1>10. ASSUME NEW s \in Slots, Activate(s) PROVE work' \in Call
  BY <1>10, BoundsAssumption DEF Activate, Done, Uplinks, None, Commits, CommitIdentity, Idle,
     Mark, Move, Unmark, RotationInv, TypeOK, Call, Operation, Gens, Parts, Keys
<1>11. ASSUME Crash PROVE work' \in Call
  BY <1>11, BoundsAssumption DEF Crash, Fault, Dies, Down, Idle, None, RotationInv, TypeOK, Call
<1>12. ASSUME RequestFails PROVE work' \in Call
  BY <1>12, BoundsAssumption DEF RequestFails, Fault, Idle, None, RotationInv, TypeOK, Call
<1>13. CASE UNCHANGED <<work>>
  BY <1>13 DEF RotationInv, TypeOK
<1>14. ASSUME Requested \/ CheckRotation \/ Report \/ Reported \/ QueueFills
              \/ \E s \in Slots : SendPending(s)
       PROVE  \E t \in {"nothing", "send", "report", "stuck"} : work' = [Idle EXCEPT !.then = t]
  <2>1. Idle = [Idle EXCEPT !.then = "nothing"] BY DEF Idle
  <2> QED BY <1>14, <2>1 DEF Requested, CheckRotation, Report, Reported, QueueFills, SendPending
<1> QED BY <1>14, <1>1, <1>2, <1>3, <1>4, <1>5, <1>6, <1>7, <1>8, <1>9, <1>10, <1>11, <1>12,
   <1>13 DEF Next, Start, Rotator, Relay, Receive, Publisher, vars, SkipStaged, Load,
   SendPending, Connect, Replace, EndSession, NoticeDeath, DeliverDirectory, Deliver,
   DeliverReplacement, Break, Fault, ReceiveRequest, RefuseRequest, ReceiveActivation,
   LoseRequest, IssueRotations, Publish, OverlapLapses,
   SendSlowly, ReceivePacket, Traffic

\* Every file step fits the call it belongs to.
LEMMA FileStepKeeps ==
    ASSUME RotationInv, FileStep
    PROVE  FilesKept /\ WorkInv' /\ PeerInv'
<1>1. /\ Elsewhere /\ work.ops # <<>> /\ peer.pc # "down" /\ work'.ops = Tail(work.ops)
      /\ work'.then = work.then /\ work'.gen = work.gen
      /\ UNCHANGED <<peer, last, control, uplink>>
  BY FileStepIs DEF Elsewhere
<1>2. /\ last \in Gens /\ work \in Call /\ work' \in Call /\ disk \in Files
      /\ work.gen \in Gens \cup {None} /\ disk.marker.id \in Gens \cup {None}
  BY WorkType DEF RotationInv, TypeOK, Next, Rotator, Call, Files
<1>3. \A g \in Gens : WasActive(g)' <=> WasActive(g)
  BY <1>1 DEF WasActive
<1>4. work.ops = <<>> => FALSE BY <1>1
<1>5. work # Idle BY <1>1 DEF Idle
<1>6. CASE /\ work.then = "ask" /\ peer.pc = "up" /\ peer.pending = None /\ peer.commit = None
           /\ work.gen = last /\ last # 1 /\ Unused(last) /\ Asking(last)
  <2>1. FilesKept /\ Asking(last)' BY <1>6, AskingStep
  <2>2. WorkInv' BY <1>1, <1>6, <2>1 DEF WorkInv, Unused
  <2>3. PeerInv' BY <1>1, <1>3, <1>6 DEF RotationInv, PeerInv, WasActive
  <2> QED BY <2>1, <2>2, <2>3
<1>7. CASE /\ work.then = "activate" /\ peer.pc = "up" /\ peer.commit = None
           /\ work.gen = peer.pending /\ work.gen # None /\ Staging(work.gen)
  <2>1. work.gen \in Gens BY <1>2, <1>7
  <2>2. FilesKept /\ Staging(work.gen)' BY <1>1, <1>7, <2>1, StagingStep
  <2>3. WorkInv' BY <1>1, <1>7, <2>2 DEF WorkInv
  <2>4. PeerInv' BY <1>1, <1>7, <2>2 DEF RotationInv, PeerInv, WasActive, Staging
  <2> QED BY <2>2, <2>3, <2>4
<1>8. CASE /\ work.then = "commit" /\ peer.pc = "up" /\ work.gen = peer.commit
           /\ work.gen # None /\ peer.pending = None
           /\ Committing(work.gen) /\ WasActive(work.gen)
  <2>1. work.gen \in Gens BY <1>2, <1>8
  <2>2. /\ FilesKept
        /\ \/ Committing(work.gen)'
           \/ disk'.marker = [state |-> "none", id |-> None] /\ work'.ops = <<>>
    BY <1>1, <1>8, <2>1, CommittingStep
  <2>3. WorkInv' BY <1>1, <1>8, <2>2 DEF WorkInv, WasActive
  <2>4. PeerInv' BY <1>1, <1>8 DEF RotationInv, PeerInv, WasActive
  <2> QED BY <2>2, <2>3, <2>4
<1>9. ASSUME work.then = "nothing", work.gen = None, work'.ops = <<>> PROVE work' = Idle
  BY <1>1, <1>2, <1>9 DEF Call, Idle
<1>10. CASE work.then = "nothing" /\ work.gen = None /\ peer.pc = "recovered" /\ Finishing
  <2>1. /\ FilesKept
        /\ \/ Finishing' /\ disk'.marker = disk.marker
           \/ disk'.marker = [state |-> "none", id |-> None] /\ work'.ops = <<>>
    BY <1>10, FinishingStep
  <2>2. WorkInv' BY <1>1, <1>9, <1>10, <2>1 DEF WorkInv
  <2>3. PeerInv' BY <1>1, <1>10 DEF RotationInv, PeerInv, WasActive
  <2> QED BY <2>1, <2>2, <2>3
<1>11. CASE /\ work.then = "nothing" /\ work.gen = None
            /\ peer.pc = "load" /\ disk.marker.id # None
            /\ Committing(disk.marker.id) /\ WasActive(disk.marker.id)
  <2>1. disk.marker.id \in Gens BY <1>2, <1>11
  <2>2. PICK g \in Gens : g = disk.marker.id BY <2>1
  <2>3. /\ FilesKept
        /\ \/ Committing(g)'
           \/ disk'.marker = [state |-> "none", id |-> None] /\ work'.ops = <<>>
    BY <1>11, <2>2, CommittingStep
  <2>4. CASE Committing(g)'
    <3>1. disk'.marker.id = g BY <2>4 DEF Committing
    <3>2. g # None BY <1>11, <2>2
    <3> QED BY <1>1, <1>11, <2>2, <2>3, <2>4, <3>1, <3>2 DEF WorkInv, RotationInv, PeerInv,
       WasActive
  <2>5. CASE disk'.marker = [state |-> "none", id |-> None] /\ work'.ops = <<>>
    <3>1. work' = Idle BY <1>9, <1>11, <2>5
    <3>2. WorkInv' BY <1>1, <1>11, <2>5, <3>1 DEF WorkInv
    <3>3. PeerInv' BY SMTT(60), <1>1, <1>11 DEF RotationInv, PeerInv, WasActive
    <3> QED BY <2>3, <3>2, <3>3
  <2> QED BY <2>3, <2>4, <2>5
<1> QED BY <1>4, <1>5, <1>6, <1>7, <1>8, <1>10, <1>11 DEF RotationInv, WorkInv

\* The type of disk.
LEMMA DiskType ==
    ASSUME RotationInv, [Next]_vars
    PROVE  disk' \in Files
<1>1. ASSUME FileStep PROVE disk' \in Files
  BY <1>1, FileStepKeeps DEF FilesKept
<1>2. CASE UNCHANGED <<disk>>
  BY <1>2 DEF RotationInv, TypeOK, Files
<1> QED
  BY ZenonT(60), <1>1, <1>2 DEF Next, Start, Rotator, Relay, Receive, Publisher, vars, Recover,
   CommitStaged, SkipStaged, Load, Requested, AcceptReplacement, RejectReplacement, Dies,
   InstallDirectory, Committed, RequestNow, SendPending, Activate, Connect, Replace,
   EndSession, NoticeDeath, DeliverDirectory, Deliver, DeliverReplacement, Break, Fault,
   ReceiveRequest, RefuseRequest, ReceiveActivation, LoseRequest, IssueRotations, Publish,
   OverlapLapses, Crash, RequestFails,
   CheckRotation, SendSlowly, Report, Reported, QueueFills, ReceivePacket, Traffic

\* The type of peer.
LEMMA PeerType ==
    ASSUME RotationInv, [Next]_vars
    PROVE  peer' \in Process
<1>1. ASSUME Recover PROVE peer' \in Process
  BY <1>1, BoundsAssumption DEF Recover, Complete, Down, Idle, FinishCommit, Keys, None, Move,
     Unmark, RotationInv, TypeOK, Process, Gens
<1>2. ASSUME CommitStaged PROVE peer' \in Process
  BY <1>2, BoundsAssumption DEF CommitStaged, Idle, CommitIdentity, None, Mark, Move, Unmark,
     RotationInv, TypeOK, Process, Gens
<1>3. ASSUME SkipStaged PROVE peer' \in Process
  BY <1>3, BoundsAssumption DEF SkipStaged, Idle, None, RotationInv, TypeOK, Process, Gens
<1>4. ASSUME Load PROVE peer' \in Process
  <2>1. disk.cur["credential"] \in Gens /\ disk.marker.id \in Gens \cup {None} /\ peer \in Process
    BY DEF RotationInv, TypeOK, Files, Parts
  <2> QED BY <1>4, <2>1 DEF Load, Process
<1>5. ASSUME Requested PROVE peer' \in Process
  <2>1. work.gen \in Gens \cup {None} /\ peer \in Process BY DEF RotationInv, TypeOK, Call
  <2> QED BY <1>5, <2>1 DEF Requested, Process
<1>6. ASSUME RejectReplacement PROVE peer' \in Process
  BY <1>6, BoundsAssumption DEF RejectReplacement, Ready, Dies, Idle, Down, None, RotationInv,
     TypeOK, Process
<1>7. ASSUME InstallDirectory PROVE peer' \in Process
  <2>1. Head(inbox) \in Downward
    <3>1. inbox \in Seq(Downward) /\ inbox # <<>> BY <1>7 DEF InstallDirectory, RotationInv,
       TypeOK
    <3> QED BY <3>1
  <2>2. Head(inbox).gen \in Gens /\ peer \in Process
    BY <1>7, <2>1 DEF InstallDirectory, Downward, RotationInv, TypeOK
  <2> QED BY <1>7, <2>2 DEF InstallDirectory, Process
<1>8. ASSUME Committed PROVE peer' \in Process
  <2>1. work.gen \in Gens \cup {None} /\ peer \in Process BY DEF RotationInv, TypeOK, Call
  <2> QED BY <1>8, <2>1 DEF Committed, None, Process
<1>9. ASSUME NEW s \in Slots, SendPending(s) PROVE peer' \in Process
  BY <1>9, BoundsAssumption DEF SendPending, Ready, None, Uplinks, Idle, RotationInv, TypeOK,
     Process, Gens
<1>10. ASSUME NEW s \in Slots, Activate(s) PROVE peer' \in Process
  <2>1. work.gen \in Gens \cup {None} /\ peer \in Process BY DEF RotationInv, TypeOK, Call
  <2> QED BY <1>10, <2>1 DEF Activate, None, Process
<1>11. ASSUME Crash PROVE peer' \in Process
  BY <1>11, BoundsAssumption DEF Crash, Fault, Dies, Down, Idle, None, RotationInv, TypeOK,
     Process
<1>12. CASE UNCHANGED <<peer>>
  BY <1>12 DEF RotationInv, TypeOK
<1> QED BY <1>1, <1>2, <1>3, <1>4, <1>5, <1>6, <1>7, <1>8, <1>9, <1>10, <1>11, <1>12 DEF Next,
   Start, Rotator, Relay, Receive, Publisher, vars, FileStep, AcceptReplacement, RequestNow,
   Connect, Replace, EndSession, NoticeDeath, DeliverDirectory, Deliver, DeliverReplacement,
   Break, Fault, ReceiveRequest, RefuseRequest, ReceiveActivation, LoseRequest, IssueRotations,
   Publish, OverlapLapses, RequestFails,
   CheckRotation, SendSlowly, Report, Reported, QueueFills, ReceivePacket, Traffic

\* The type of last.
LEMMA LastType ==
    ASSUME RotationInv, [Next]_vars
    PROVE  last' \in Gens
<1>1. ASSUME RequestNow PROVE last' \in Gens
  BY SMTT(60), <1>1, BoundsAssumption DEF RequestNow, Ready, None, StageKeys, Idle, Put, Mark,
     RotationInv, TypeOK, WireInv, Gens
<1>2. CASE UNCHANGED <<last>>
  BY <1>2 DEF RotationInv, TypeOK
<1> QED BY <1>1, <1>2 DEF Next, Start, Rotator, Relay, Receive, Publisher, vars, Recover,
   CommitStaged, SkipStaged, Load, FileStep, Requested, AcceptReplacement, RejectReplacement,
   Dies, InstallDirectory, Committed, SendPending, Activate, Connect, Replace, EndSession,
   NoticeDeath, DeliverDirectory, Deliver, DeliverReplacement, Break, Fault, ReceiveRequest,
   RefuseRequest, ReceiveActivation, LoseRequest, IssueRotations, Publish, OverlapLapses,
   Crash, RequestFails,
   CheckRotation, SendSlowly, Report, Reported, QueueFills, ReceivePacket, Traffic

\* The type of session.
LEMMA SessionType ==
    ASSUME RotationInv, [Next]_vars
    PROVE  session' \in [Slots -> RelaySession]
<1>1. ASSUME RejectReplacement PROVE session' \in [Slots -> RelaySession]
  BY ZenonT(60), <1>1, BoundsAssumption DEF RejectReplacement, Ready, Dies, Idle, Down, None,
     RotationInv,
     TypeOK, RelaySession, Gens
<1>2. ASSUME NEW s \in Slots, Connect(s) PROVE session' \in [Slots -> RelaySession]
  <2>1. /\ peer.identity \in Gens \cup {None} /\ session \in [Slots -> RelaySession]
    BY DEF RotationInv, TypeOK, Process
  <2>2. [Ended EXCEPT !.serial = peer.identity, !.live = TRUE] \in RelaySession
    BY <2>1 DEF Ended, RelaySession
  <2> QED BY <1>2, <2>1, <2>2 DEF Connect
<1>3. ASSUME NEW s \in Slots, Replace(s) PROVE session' \in [Slots -> RelaySession]
  BY <1>3, BoundsAssumption DEF Replace, EndSession, Ended, On, None, RotationInv, TypeOK,
     RelaySession
<1>4. ASSUME NEW s \in Slots, NoticeDeath(s) PROVE session' \in [Slots -> RelaySession]
  BY <1>4, BoundsAssumption DEF NoticeDeath, Ended, On, EndSession, None, RotationInv, TypeOK,
     RelaySession
<1>5. ASSUME NEW s \in Slots, DeliverDirectory(s) PROVE session' \in [Slots -> RelaySession]
  <2>1. /\ session \in [Slots -> RelaySession] /\ control.directory.active \in Gens
    BY DEF RotationInv, TypeOK, Rows
  <2>2. [session[s] EXCEPT !.seen = control.directory.active] \in RelaySession
    BY <2>1 DEF RelaySession
  <2> QED BY <1>5, <2>1, <2>2 DEF DeliverDirectory
<1>6. ASSUME NEW s \in Slots, DeliverReplacement(s) PROVE session' \in [Slots -> RelaySession]
  <2>1. Issued(session[s].serial) \in Gens BY <1>6, IssuedType DEF DeliverReplacement
  <2>2. session \in [Slots -> RelaySession] BY DEF RotationInv, TypeOK
  <2>3. [session[s] EXCEPT !.delivered = Issued(session[s].serial)] \in RelaySession
    BY <2>1, <2>2 DEF RelaySession
  <2> QED BY <1>6, <2>2, <2>3 DEF DeliverReplacement
<1>7. ASSUME NEW s \in Slots, Break(s) PROVE session' \in [Slots -> RelaySession]
  BY <1>7, BoundsAssumption DEF Break, Ended, Fault, EndSession, None, On, RotationInv, TypeOK,
     RelaySession
<1>8. ASSUME NEW m \in uplink, RefuseRequest(m) PROVE session' \in [Slots -> RelaySession]
  BY <1>8, BoundsAssumption DEF RefuseRequest, Requestable, EndSession, Usable, Ended, On,
     None, RotationInv, TypeOK, RelaySession, Gens
<1>9. ASSUME Crash PROVE session' \in [Slots -> RelaySession]
  BY <1>9, BoundsAssumption DEF Crash, Fault, Dies, Down, Idle, None, RotationInv, TypeOK,
     RelaySession, Gens
<1>10. CASE UNCHANGED <<session>>
  BY <1>10 DEF RotationInv, TypeOK
<1> QED BY <1>1, <1>2, <1>3, <1>4, <1>5, <1>6, <1>7, <1>8, <1>9, <1>10 DEF Next, Start,
   Rotator, Relay, Receive, Publisher, vars, Recover, CommitStaged, SkipStaged, Load, FileStep,
   Requested, AcceptReplacement, InstallDirectory, Committed, RequestNow, SendPending,
   Activate, ReceiveRequest, ReceiveActivation, LoseRequest, Fault, IssueRotations, Publish,
   OverlapLapses, RequestFails,
   CheckRotation, SendSlowly, Report, Reported, QueueFills, ReceivePacket, Traffic

\* The type of uplink.
LEMMA UplinkType ==
    ASSUME RotationInv, [Next]_vars
    PROVE  uplink' \in SUBSET Upward
<1>1. ASSUME NEW s \in Slots, SendPending(s) PROVE uplink' \in SUBSET Upward
  <2>1. peer.pending \in Gens /\ peer.identity \in Gens /\ uplink \in SUBSET Upward
    BY <1>1 DEF SendPending, Done, RotationInv, TypeOK, PeerInv, WorkInv, Process, Idle
  <2> QED BY <1>1, <2>1 DEF SendPending, Upward
<1>2. ASSUME NEW s \in Slots, Activate(s) PROVE uplink' \in SUBSET Upward
  <2>1. work.gen \in Gens /\ peer.identity \in Gens /\ uplink \in SUBSET Upward
    BY <1>2 DEF Activate, Done, RotationInv, TypeOK, PeerInv, WorkInv, Process, Call, Idle
  <2> QED BY <1>2, <2>1 DEF Activate, Upward
<1>3. ASSUME NEW s \in Slots, Replace(s) PROVE uplink' \in SUBSET Upward
  BY <1>3, BoundsAssumption DEF Replace, EndSession, Ended, On, None, RotationInv, TypeOK
<1>4. ASSUME NEW s \in Slots, NoticeDeath(s) PROVE uplink' \in SUBSET Upward
  BY <1>4, BoundsAssumption DEF NoticeDeath, Ended, On, EndSession, None, RotationInv, TypeOK
<1>5. ASSUME NEW s \in Slots, Break(s) PROVE uplink' \in SUBSET Upward
  BY <1>5, BoundsAssumption DEF Break, Ended, Fault, EndSession, None, On, RotationInv, TypeOK
<1>6. ASSUME NEW m \in uplink, ReceiveRequest(m) PROVE uplink' \in SUBSET Upward
  BY <1>6, BoundsAssumption DEF ReceiveRequest, Requestable, Usable, RotationInv, TypeOK
<1>7. ASSUME NEW m \in uplink, RefuseRequest(m) PROVE uplink' \in SUBSET Upward
  BY <1>7, BoundsAssumption DEF RefuseRequest, Requestable, EndSession, Usable, Ended, On,
     None, RotationInv, TypeOK
<1>8. ASSUME NEW m \in uplink, ReceiveActivation(m) PROVE uplink' \in SUBSET Upward
  BY <1>8, BoundsAssumption DEF ReceiveActivation, Activated, Gens, RotationInv, TypeOK
<1>9. ASSUME NEW m \in uplink, LoseRequest(m) PROVE uplink' \in SUBSET Upward
  BY <1>9, BoundsAssumption DEF LoseRequest, Fault, RotationInv, TypeOK
<1>10. CASE UNCHANGED <<uplink>>
  BY SMTT(60), <1>10 DEF RotationInv, TypeOK
<1>11. ASSUME NEW s \in Slots, SendSlowly(s) PROVE uplink' \in SUBSET Upward
  <2>1. peer.pending \in Gens /\ peer.identity \in Gens /\ uplink \in SUBSET Upward
    BY SMTT(60), <1>11 DEF SendSlowly, Done, RotationInv, TypeOK, PeerInv, WorkInv, Process, Idle
  <2> QED BY <1>11, <2>1 DEF SendSlowly, Upward
<1> QED BY <1>11, <1>1, <1>2, <1>3, <1>4, <1>5, <1>6, <1>7, <1>8, <1>9, <1>10 DEF Next, Start,
   Rotator, Relay, Receive, Publisher, vars, Recover, CommitStaged, SkipStaged, Load, FileStep,
   Requested, AcceptReplacement, RejectReplacement, Dies, InstallDirectory, Committed,
   RequestNow, Connect, DeliverDirectory, Deliver, DeliverReplacement, IssueRotations, Publish,
   OverlapLapses, Crash, Fault, RequestFails,
   CheckRotation, Report, Reported, QueueFills, ReceivePacket, Traffic

\* The type of inbox.
LEMMA InboxType ==
    ASSUME RotationInv, [Next]_vars
    PROVE  inbox' \in Seq(Downward)
<1>1. ASSUME AcceptReplacement PROVE inbox' \in Seq(Downward)
  BY <1>1, BoundsAssumption DEF AcceptReplacement, Ready, StageIdentity, Idle, Put, Mark, None,
     RotationInv, TypeOK
<1>2. ASSUME RejectReplacement PROVE inbox' \in Seq(Downward)
  BY <1>2, BoundsAssumption DEF RejectReplacement, Ready, Dies, Idle
<1>3. ASSUME InstallDirectory PROVE inbox' \in Seq(Downward)
  BY <1>3, BoundsAssumption DEF InstallDirectory, Ready, Commits, Idle, None, CommitIdentity,
     Mark, Move, Unmark, RotationInv, TypeOK
<1>4. ASSUME NEW s \in Slots, DeliverDirectory(s) PROVE inbox' \in Seq(Downward)
  <2>1. inbox \in Seq(Downward) /\ control.directory.active \in Gens
    BY DEF RotationInv, TypeOK, Rows
  <2>2. [slot |-> s, kind |-> "directory", gen |-> control.directory.active] \in Downward
    BY <2>1 DEF Downward
  <2> QED BY <1>4, <2>1, <2>2 DEF DeliverDirectory, Deliver
<1>5. ASSUME NEW s \in Slots, DeliverReplacement(s) PROVE inbox' \in Seq(Downward)
  <2>1. Issued(session[s].serial) \in Gens BY <1>5, IssuedType DEF DeliverReplacement
  <2>2. inbox \in Seq(Downward) BY DEF RotationInv, TypeOK
  <2>3. [slot |-> s, kind |-> "replacement", gen |-> Issued(session[s].serial)] \in Downward
    BY <2>1 DEF Downward
  <2> QED BY <1>5, <2>2, <2>3 DEF DeliverReplacement, Deliver
<1>6. ASSUME Crash PROVE inbox' \in Seq(Downward)
  BY <1>6, BoundsAssumption DEF Crash, Fault, Dies, Down
<1>7. CASE UNCHANGED <<inbox>>
  BY <1>7 DEF RotationInv, TypeOK
<1>8. ASSUME ReceivePacket PROVE inbox' \in Seq(Downward)
  BY <1>8 DEF ReceivePacket, RotationInv, TypeOK
<1>9. ASSUME NEW s \in Slots, Traffic(s) PROVE inbox' \in Seq(Downward)
  <2>1. inbox \in Seq(Downward) BY DEF RotationInv, TypeOK
  <2>2. [slot |-> s, kind |-> "data", gen |-> None] \in Downward BY DEF Downward
  <2> QED BY <1>9, <2>1, <2>2 DEF Traffic, Deliver
<1> QED BY <1>8, <1>9, <1>1, <1>2, <1>3, <1>4, <1>5, <1>6, <1>7 DEF Next, Start, Rotator, Relay, Receive,
   Publisher, vars, Recover, CommitStaged, SkipStaged, Load, FileStep, Requested, Committed,
   RequestNow, SendPending, Activate, Connect, Replace, EndSession, NoticeDeath, Break, Fault,
   ReceiveRequest, RefuseRequest, ReceiveActivation, LoseRequest, IssueRotations, Publish,
   OverlapLapses, RequestFails,
   CheckRotation, Report, Reported, QueueFills, SendSlowly

\* The type of control.
LEMMA ControlType ==
    ASSUME RotationInv, [Next]_vars
    PROVE  control' \in Rows
<1>1. ASSUME NEW m \in uplink, ReceiveRequest(m) PROVE control' \in Rows
  <2>1. m \in Upward /\ control \in Rows BY DEF RotationInv, TypeOK
  <2>2. m.gen \in Gens /\ m.from \in Gens BY <2>1 DEF Upward
  <2> QED BY <1>1, <2>1, <2>2 DEF ReceiveRequest, Rows
<1>2. ASSUME NEW m \in uplink, ReceiveActivation(m) PROVE control' \in Rows
  BY ZenonT(60), <1>2, BoundsAssumption DEF ReceiveActivation, Activated, Gens, RotationInv, TypeOK, Rows,
     None
<1>3. ASSUME IssueRotations PROVE control' \in Rows
  BY <1>3, BoundsAssumption DEF IssueRotations, Gens, RotationInv, TypeOK, Rows, None
<1>4. ASSUME Publish PROVE control' \in Rows
  <2>1. \E g \in Gens : control.cred[g] = "active" BY DEF RotationInv, ControlInv
  <2>2. (CHOOSE g \in Gens : control.cred[g] = "active") \in Gens BY <2>1
  <2>3. Directory \in [active : Gens, accepted : SUBSET Gens] BY <2>2 DEF Directory
  <2>4. control \in Rows BY DEF RotationInv, TypeOK
  <2> QED BY <1>4, <2>3, <2>4 DEF Publish, Rows
<1>5. ASSUME NEW g \in Gens, OverlapLapses(g) PROVE control' \in Rows
  BY SMTT(60), <1>5, BoundsAssumption DEF OverlapLapses, RotationInv, TypeOK, Rows
<1>6. CASE UNCHANGED <<control>>
  BY <1>6 DEF RotationInv, TypeOK
<1> QED BY <1>1, <1>2, <1>3, <1>4, <1>5, <1>6 DEF Next, Start, Rotator, Relay, Receive,
   Publisher, vars, Recover, CommitStaged, SkipStaged, Load, FileStep, Requested,
   AcceptReplacement, RejectReplacement, Dies, InstallDirectory, Committed, RequestNow,
   SendPending, Activate, Connect, Replace, EndSession, NoticeDeath, DeliverDirectory, Deliver,
   DeliverReplacement, Break, Fault, RefuseRequest, LoseRequest, Crash, RequestFails,
   CheckRotation, SendSlowly, Report, Reported, QueueFills, ReceivePacket, Traffic

\* The type of budget.
LEMMA BudgetType ==
    ASSUME RotationInv, [Next]_vars
    PROVE  budget' \in [rotations : Nat, faults : Nat, traffic : Nat]
<1>1. ASSUME RequestNow PROVE budget' \in [rotations : Nat, faults : Nat, traffic : Nat]
  <2>1. /\ budget \in [rotations : Nat, faults : Nat, traffic : Nat] /\ budget.rotations > 0
        /\ budget' = [budget EXCEPT !.rotations = budget.rotations - 1]
    BY <1>1 DEF RequestNow, RotationInv, TypeOK
  <2>2. budget.rotations - 1 \in Nat BY <2>1
  <2> QED BY <2>1, <2>2
<1>2. ASSUME NEW s \in Slots, Break(s) PROVE budget' \in [rotations : Nat, faults : Nat, traffic : Nat]
  BY <1>2, BoundsAssumption DEF Break, Ended, Fault, EndSession, None, On, RotationInv, TypeOK
<1>3. ASSUME NEW m \in uplink, LoseRequest(m) PROVE budget' \in [rotations : Nat, faults : Nat, traffic : Nat]
  BY <1>3, BoundsAssumption DEF LoseRequest, Fault, RotationInv, TypeOK
<1>4. ASSUME Crash PROVE budget' \in [rotations : Nat, faults : Nat, traffic : Nat]
  BY <1>4, BoundsAssumption DEF Crash, Fault, Dies, Down, Idle, None, RotationInv, TypeOK
<1>5. ASSUME RequestFails PROVE budget' \in [rotations : Nat, faults : Nat, traffic : Nat]
  BY SMTT(60), <1>5, BoundsAssumption DEF RequestFails, Fault, Idle, None, RotationInv, TypeOK
<1>6. CASE UNCHANGED <<budget>>
  BY <1>6 DEF RotationInv, TypeOK
<1>7. ASSUME NEW s \in Slots, SendSlowly(s) \/ Traffic(s)
       PROVE  budget' \in [rotations : Nat, faults : Nat, traffic : Nat]
  BY <1>7 DEF SendSlowly, Fault, Traffic, RotationInv, TypeOK
<1>8. ASSUME Report PROVE budget' \in [rotations : Nat, faults : Nat, traffic : Nat]
  BY <1>8 DEF Report, RotationInv, TypeOK
<1> QED BY <1>7, <1>8, <1>1, <1>2, <1>3, <1>4, <1>5, <1>6 DEF Next, Start, Rotator, Relay, Receive,
   Publisher, vars, Recover, CommitStaged, SkipStaged, Load, FileStep, Requested,
   AcceptReplacement, RejectReplacement, Dies, InstallDirectory, Committed, SendPending,
   Activate, Connect, Replace, EndSession, NoticeDeath, DeliverDirectory, Deliver,
   DeliverReplacement, ReceiveRequest, RefuseRequest, ReceiveActivation, IssueRotations,
   Publish, OverlapLapses,
   CheckRotation, Reported, QueueFills, ReceivePacket

\* Every step keeps every variable in its type.
LEMMA TypeStep ==
    ASSUME RotationInv, [Next]_vars
    PROVE  TypeOK'
BY SMTT(60), DiskType, WorkType, PeerType, LastType, SessionType, UplinkType, InboxType,
   ControlType,
   BudgetType DEF TypeOK

\* The journal tells what the files are worth.
LEMMA DiskStep ==
    ASSUME RotationInv, [Next]_vars
    PROVE  DiskInv'
<1>1. ASSUME FileStep PROVE DiskInv'
  BY <1>1, FileStepKeeps DEF FilesKept
<1>2. ASSUME RequestNow PROVE DiskInv'
  <2>1. disk' = disk /\ last' = last + 1 BY <1>2 DEF RequestNow
  <2>2. last \in Nat /\ disk.marker.id \in Nat /\ disk.marker.id <= last
    BY DEF RotationInv, TypeOK, DiskInv, Files, Gens, None
  <2>3. disk.marker.id <= last + 1 BY <2>2
  <2> QED BY <2>1, <2>3 DEF RotationInv, DiskInv, Holds
<1>3. CASE UNCHANGED <<disk, last>>
  BY <1>3 DEF RotationInv, DiskInv, None, Gens, Holds
<1> QED BY <1>1, <1>2, <1>3 DEF Next, Start, Rotator, Relay, Receive, Publisher, vars, Recover,
   CommitStaged, SkipStaged, Load, Requested, AcceptReplacement, RejectReplacement, Dies,
   InstallDirectory, Committed, SendPending, Activate, Connect, Replace, EndSession,
   NoticeDeath, DeliverDirectory, Deliver, DeliverReplacement, Break, Fault, ReceiveRequest,
   RefuseRequest, ReceiveActivation, LoseRequest, IssueRotations, Publish, OverlapLapses,
   Crash, RequestFails,
   CheckRotation, SendSlowly, Report, Reported, QueueFills, ReceivePacket, Traffic

\* A call's remaining operations fit what it has done.
LEMMA WorkStep ==
    ASSUME RotationInv, [Next]_vars
    PROVE  WorkInv'
<1>1. ASSUME Recover PROVE WorkInv'
  BY <1>1, BoundsAssumption DEF Recover, Complete, Down, Idle, FinishCommit, Keys, None, Move,
     Unmark, RotationInv, TypeOK, WorkInv, PeerInv, DiskInv, ControlInv, WireInv, MarkerInv,
     Unused, Asking, Staging, Committing, WasActive, Finishing, StageKeys, Put, Mark
<1>2. ASSUME CommitStaged PROVE WorkInv'
  <2>1. /\ peer.pc = "recovered" /\ work = Idle /\ disk.marker.state = "staged"
        /\ control.directory.active = disk.marker.id /\ UNCHANGED <<disk, last, uplink, control>>
        /\ peer' = [peer EXCEPT !.pc = "load"]
        /\ work' = [Idle EXCEPT !.ops = CommitIdentity(disk.marker.id)]
    BY <1>2 DEF CommitStaged
  <2>2. /\ disk.marker.id # None /\ WasActive(disk.marker.id)
        /\ disk.marker = [state |-> "staged", id |-> disk.marker.id]
    BY <2>1 DEF RotationInv, TypeOK, Files, DiskInv, ControlInv
  <2>3. /\ work'.ops = CommitIdentity(disk.marker.id) /\ work'.then = "nothing" /\ work'.gen = None
        /\ peer'.pc = "load"
    BY <2>1 DEF Idle
  <2>4. Committing(disk.marker.id)' BY <2>1, <2>2 DEF Committing
  <2>5. WasActive(disk.marker.id)' BY <2>1, <2>2 DEF WasActive
  <2> QED BY <2>1, <2>2, <2>3, <2>4, <2>5 DEF WorkInv
<1>3. ASSUME SkipStaged PROVE WorkInv'
  BY <1>3, BoundsAssumption DEF SkipStaged, Idle, None, RotationInv, TypeOK, WorkInv, PeerInv,
     DiskInv, ControlInv, WireInv, MarkerInv, Unused, Asking, Staging, Committing, WasActive,
     Finishing
<1>4. ASSUME Load PROVE WorkInv'
  BY <1>4, BoundsAssumption DEF Load, Idle, None, RotationInv, TypeOK, WorkInv, PeerInv,
     DiskInv, ControlInv, WireInv, MarkerInv, Unused, Asking, Staging, Committing, WasActive,
     Finishing, StageKeys, Put, Mark, Keys, StageIdentity, CommitIdentity, FinishCommit, Move
<1>5. ASSUME FileStep PROVE WorkInv'
  BY <1>5, FileStepKeeps
<1>6. ASSUME Requested PROVE WorkInv'
  <2>1. /\ peer.pc = "up" /\ work.ops = <<>> /\ work.then = "ask" /\ UNCHANGED disk
        /\ peer' = [peer EXCEPT !.pending = work.gen, !.sent = FALSE]
        /\ work' = [Idle EXCEPT !.then = "send"] /\ peer \in Process
    BY <1>6 DEF Requested, Done, RotationInv, TypeOK
  <2>2. work.gen = last /\ Asking(last) BY <2>1 DEF RotationInv, WorkInv, Idle
  <2>3. disk.marker = [state |-> "requested", id |-> last] BY <2>1, <2>2 DEF Asking, StageKeys
  <2>4. /\ peer'.pc = "up" /\ peer'.pending = last /\ last # None
        /\ work'.then = "send" /\ work'.ops = <<>> /\ work'.gen = None
    BY <2>1, <2>2 DEF Idle, RotationInv, TypeOK, Gens, None
  <2> QED BY <2>1, <2>3, <2>4 DEF WorkInv
<1>7. ASSUME AcceptReplacement PROVE WorkInv'
  <2>1. /\ peer.pc = "up" /\ work = Idle /\ UNCHANGED <<disk, peer, last, uplink, control>>
        /\ work' = [ops |-> StageIdentity(peer.pending), then |-> "activate", gen |-> peer.pending]
    BY <1>7 DEF AcceptReplacement, Ready
  <2>2. peer.pending \in Gens
    <3>1. inbox \in Seq(Downward) /\ inbox # <<>> BY <1>7 DEF AcceptReplacement, RotationInv,
       TypeOK
    <3>2. Head(inbox) \in Downward BY <3>1
    <3> QED BY <1>7, <3>2 DEF AcceptReplacement, Downward
  <2>3. /\ peer.pending # None /\ peer.commit = None /\ disk.marker.id = peer.pending
        /\ disk.marker.state \in {"requested", "staged"}
    BY <2>2 DEF RotationInv, PeerInv, Gens, None
  <2>4. work'.then = "activate" /\ work'.gen = peer.pending /\ work'.ops = StageIdentity(peer.pending)
    BY <2>1
  <2> QED BY <2>1, <2>3, <2>4 DEF WorkInv, Staging
<1>8. ASSUME RejectReplacement PROVE WorkInv'
  BY <1>8, BoundsAssumption DEF RejectReplacement, Ready, Dies, Idle, Down, None, RotationInv,
     TypeOK, WorkInv, PeerInv, DiskInv, ControlInv, WireInv, MarkerInv
<1>9. ASSUME InstallDirectory PROVE WorkInv'
  <2>1. /\ peer.pc = "up" /\ work = Idle /\ inbox # <<>> /\ inbox \in Seq(Downward)
        /\ Head(inbox).kind = "directory" /\ UNCHANGED <<disk, last, uplink, control>>
        /\ peer \in Process
    BY <1>9 DEF InstallDirectory, Ready, RotationInv, TypeOK
  <2>2. CASE UNCHANGED <<peer, work>>
    BY <2>1, <2>2 DEF RotationInv, WorkInv, WasActive, Unused, Idle, Asking
  <2>3. CASE /\ peer' = [peer EXCEPT !.published = Head(inbox).gen]
             /\ work' = Commits(peer.commit, Head(inbox).gen)
    <3>1. WasActive(Head(inbox).gen)
      <4>1. 1 \in DOMAIN inbox /\ Head(inbox) = inbox[1] BY <2>1
      <4> QED BY <2>1 DEF RotationInv, WireInv
    <3>2. /\ peer'.pc = "up" /\ peer'.pending = peer.pending /\ peer'.commit = peer.commit
          /\ peer'.identity = peer.identity /\ peer'.published = Head(inbox).gen
      BY <2>1, <2>3
    <3>3. peer.commit # None =>
            disk.marker = [state |-> "staged", id |-> peer.commit] /\ peer.pending = None
      BY <2>1 DEF RotationInv, PeerInv, Idle
    <3>4. CASE peer.commit # None /\ Head(inbox).gen = peer.commit
      <4>1. /\ work'.ops = CommitIdentity(peer.commit) /\ work'.then = "commit"
            /\ work'.gen = peer.commit
        BY <2>3, <3>4 DEF Commits
      <4> QED BY <2>1, <3>1, <3>2, <3>3, <3>4, <4>1 DEF WorkInv, Committing, WasActive
    <3>5. CASE ~(peer.commit # None /\ Head(inbox).gen = peer.commit)
      <4>1. work' = Idle BY <2>3, <3>5 DEF Commits
      <4> QED BY <2>1, <3>1, <3>2, <3>3, <4>1 DEF RotationInv, WorkInv, Idle, Finishing
    <3> QED BY <3>4, <3>5
  <2> QED BY <1>9, <2>2, <2>3 DEF InstallDirectory
<1>10. ASSUME Committed PROVE WorkInv'
  BY <1>10, BoundsAssumption DEF Committed, Done, None, Idle, RotationInv, TypeOK, WorkInv,
     PeerInv, DiskInv, ControlInv, WireInv, MarkerInv, Unused, Asking, Staging, Committing,
     WasActive, Finishing, StageKeys, Put, Mark, Keys, StageIdentity, CommitIdentity,
     FinishCommit, Move
<1>11. ASSUME RequestNow PROVE WorkInv'
  <2>1. /\ peer.pc = "up" /\ work = Idle /\ peer.pending = None /\ peer.commit = None
        /\ last' = last + 1 /\ UNCHANGED <<disk, peer, uplink, control>> /\ budget.rotations > 0
        /\ work' = [ops |-> StageKeys(last + 1), then |-> "ask", gen |-> last + 1]
    BY <1>11 DEF RequestNow, Ready
  <2>2. last + 1 \in Gens /\ last + 1 > last /\ last + 1 # 1
    <3>1. last \in Gens /\ budget.rotations \in Nat /\ last + budget.rotations <= MaxKeys
      BY DEF RotationInv, TypeOK, WireInv
    <3> QED BY <2>1, <3>1, BoundsAssumption DEF Gens
  <2>3. Unused(last + 1) BY <2>2 DEF RotationInv, WireInv
  <2>4. Unused(last)' BY <2>1, <2>3 DEF Unused
  <2>5. disk.marker.state = "none"
    <3>1. disk.marker.id = None
      BY <2>1 DEF RotationInv, WorkInv, Idle
    <3> QED BY <3>1 DEF RotationInv, DiskInv
  <2>6. work'.ops = StageKeys(last') /\ work'.then = "ask" /\ work'.gen = last' BY <2>1
  <2>7. Asking(last)' BY <2>1, <2>5 DEF Asking
  <2> QED BY <2>1, <2>2, <2>4, <2>6, <2>7 DEF WorkInv
<1>12. ASSUME NEW s \in Slots, SendPending(s) PROVE WorkInv'
  <2>1. /\ work.then = "send" /\ work' = Idle /\ UNCHANGED disk
        /\ peer' = [peer EXCEPT !.sent = TRUE] /\ peer \in Process
    BY <1>12 DEF SendPending, Done, RotationInv, TypeOK
  <2>2. disk.marker.state # "committing" /\ disk.marker.id \in {peer.pending, peer.commit}
    BY <2>1 DEF RotationInv, WorkInv, Idle
  <2> QED BY <2>1, <2>2 DEF WorkInv
<1>13. ASSUME NEW s \in Slots, Activate(s) PROVE WorkInv'
  <2>1. /\ peer.pc = "up" /\ work.ops = <<>> /\ work.then = "activate" /\ UNCHANGED <<disk, last, control>>
        /\ peer' = [peer EXCEPT !.pending = None, !.sent = FALSE, !.commit = work.gen]
        /\ work' = Commits(work.gen, peer.published) /\ peer \in Process
    BY <1>13 DEF Activate, Done, RotationInv, TypeOK
  <2>2. work.gen # None /\ Staging(work.gen) BY <2>1 DEF RotationInv, WorkInv, Idle
  <2>3. disk.marker = [state |-> "staged", id |-> work.gen]
    <3>1. disk.marker.state = "staged" /\ disk.marker.id = work.gen
      BY <2>1, <2>2 DEF Staging, StageIdentity
    <3> QED BY <3>1 DEF RotationInv, TypeOK, Files
  <2>4. /\ peer'.pc = "up" /\ peer'.pending = None /\ peer'.commit = work.gen
        /\ peer'.identity = peer.identity /\ peer'.published = peer.published
    BY <2>1
  <2>5. CASE peer.published = work.gen
    <3>1. /\ work'.ops = CommitIdentity(work.gen) /\ work'.then = "commit" /\ work'.gen = work.gen
      BY <2>1, <2>2, <2>5 DEF Commits
    <3>2. WasActive(work.gen) BY <2>2, <2>5 DEF RotationInv, PeerInv
    <3> QED BY <2>1, <2>2, <2>3, <2>4, <3>1, <3>2 DEF WorkInv, Committing, WasActive
  <2>6. CASE peer.published # work.gen
    <3>1. work' = Idle BY <2>1, <2>6 DEF Commits
    <3> QED BY <2>1, <2>3, <2>4, <3>1 DEF WorkInv
  <2> QED BY <2>5, <2>6
<1>14. ASSUME NEW s \in Slots, Replace(s) PROVE WorkInv'
  <2>1. /\ UNCHANGED <<disk, work, peer, last>> /\ uplink' \subseteq uplink
        /\ UNCHANGED control
    BY <1>14 DEF Replace, EndSession
  <2>2. Unused(last) => Unused(last)' BY <2>1 DEF Unused
  <2> QED BY <1>14, <2>1, <2>2, WorkGrows
<1>15. ASSUME NEW s \in Slots, NoticeDeath(s) PROVE WorkInv'
  <2>1. /\ UNCHANGED <<disk, work, peer, last>> /\ uplink' \subseteq uplink
        /\ UNCHANGED control
    BY <1>15 DEF NoticeDeath, EndSession
  <2>2. Unused(last) => Unused(last)' BY <2>1 DEF Unused
  <2> QED BY <1>15, <2>1, <2>2, WorkGrows
<1>16. ASSUME NEW s \in Slots, Break(s) PROVE WorkInv'
  <2>1. /\ UNCHANGED <<disk, work, peer, last>> /\ uplink' \subseteq uplink
        /\ UNCHANGED control
    BY <1>16 DEF Break, EndSession
  <2>2. Unused(last) => Unused(last)' BY <2>1 DEF Unused
  <2> QED BY <1>16, <2>1, <2>2, WorkGrows
<1>17. ASSUME NEW m \in uplink, ReceiveRequest(m) PROVE WorkInv'
  <2>1. /\ UNCHANGED <<disk, work, peer, last>> /\ uplink' \subseteq uplink
    BY <1>17 DEF ReceiveRequest
  <2>2. m.gen \in Gens /\ control \in Rows /\ last \in Gens BY DEF RotationInv, TypeOK, Upward
  <2>3. UNCHANGED control \/ NowPending(m) BY <1>17, <2>2, RequestEffect
  <2>4. Unused(last) => Unused(last)' BY <2>1, <2>2, <2>3 DEF Unused, NowPending
  <2> QED BY <1>17, <2>1, <2>4, WorkGrows
<1>18. ASSUME NEW m \in uplink, RefuseRequest(m) PROVE WorkInv'
  <2>1. /\ UNCHANGED <<disk, work, peer, last>> /\ uplink' \subseteq uplink
        /\ UNCHANGED control
    BY <1>18 DEF RefuseRequest, EndSession
  <2>2. Unused(last) => Unused(last)' BY <2>1 DEF Unused
  <2> QED BY <1>18, <2>1, <2>2, WorkGrows
<1>19. ASSUME NEW m \in uplink, ReceiveActivation(m) PROVE WorkInv'
  <2>1. /\ UNCHANGED <<disk, work, peer, last>> /\ uplink' \subseteq uplink
    BY <1>19 DEF ReceiveActivation
  <2>2. m.gen \in Gens /\ control \in Rows /\ last \in Gens BY DEF RotationInv, TypeOK, Upward
  <2>3. UNCHANGED control \/ NowActive(m) BY <1>19, <2>2, ActivationEffect
  <2>4. Unused(last) => Unused(last)' BY <2>1, <2>2, <2>3 DEF Unused, NowActive
  <2> QED BY <1>19, <2>1, <2>4, WorkGrows
<1>20. ASSUME NEW m \in uplink, LoseRequest(m) PROVE WorkInv'
  <2>1. /\ UNCHANGED <<disk, work, peer, last>> /\ uplink' \subseteq uplink
        /\ UNCHANGED control
    BY <1>20 DEF LoseRequest
  <2>2. Unused(last) => Unused(last)' BY <2>1 DEF Unused
  <2> QED BY <1>20, <2>1, <2>2, WorkGrows
<1>21. ASSUME IssueRotations PROVE WorkInv'
  <2>1. /\ UNCHANGED <<disk, work, peer, last, uplink>> /\ last \in Gens /\ NowIssued
    BY <1>21, IssueEffect DEF IssueRotations, RotationInv, TypeOK
  <2>2. Unused(last) => Unused(last)' BY <2>1 DEF Unused, NowIssued
  <2> QED BY <1>21, <2>1, <2>2, WorkGrows
<1>22. ASSUME Publish PROVE WorkInv'
  <2>1. /\ UNCHANGED <<disk, work, peer, last, uplink>> /\ control'.status = control.status
    BY <1>22 DEF Publish
  <2>2. Unused(last) => Unused(last)' BY <2>1 DEF Unused
  <2> QED BY <1>22, <2>1, <2>2, WorkGrows
<1>23. ASSUME NEW g \in Gens, OverlapLapses(g) PROVE WorkInv'
  <2>1. /\ UNCHANGED <<disk, work, peer, last, uplink>> /\ control'.status = control.status
    BY <1>23 DEF OverlapLapses
  <2>2. Unused(last) => Unused(last)' BY <2>1 DEF Unused
  <2> QED BY <1>23, <2>1, <2>2, WorkGrows
<1>24. ASSUME Crash PROVE WorkInv'
  BY <1>24, BoundsAssumption DEF Crash, Fault, Dies, Down, Idle, None, RotationInv, TypeOK,
     WorkInv, PeerInv, DiskInv, ControlInv, WireInv, MarkerInv
<1>25. ASSUME RequestFails PROVE WorkInv'
  BY <1>25, BoundsAssumption DEF RequestFails, Fault, Idle, None, RotationInv, TypeOK, WorkInv,
     PeerInv, DiskInv, ControlInv, WireInv, MarkerInv, Unused, Asking
<1>26. CASE UNCHANGED <<disk, work, peer, last, uplink, control>>
  BY <1>26 DEF RotationInv, WorkInv, Idle, None, Unused, Asking, Staging, Committing,
     WasActive, Finishing, StageKeys
<1>27. ASSUME NEW s \in Slots, SendSlowly(s) PROVE WorkInv'
  <2>1. UNCHANGED <<disk, work, peer, last, control>> /\ work.then # "ask"
    BY <1>27 DEF SendSlowly, Done
  <2> QED BY <2>1, WorkGrows
<1>28. ASSUME CheckRotation \/ Report PROVE WorkInv'
  <2>1. /\ peer.pc = "up" /\ work = Idle /\ UNCHANGED <<disk, peer>>
        /\ \/ work' = [Idle EXCEPT !.then = "send"] /\ peer.pending # None
           \/ work' = [Idle EXCEPT !.then = "report"]
    BY <1>28 DEF CheckRotation, Report, Ready
  <2>2. disk.marker.state # "committing" /\ disk.marker.id \in {peer.pending, peer.commit}
    BY <2>1 DEF RotationInv, WorkInv, Idle, Finishing, FinishCommit
  <2>3. /\ work'.ops = <<>> /\ work'.gen = None /\ work'.then \in {"send", "report"}
        /\ work'.then = "send" => peer.pending # None
    BY <2>1 DEF Idle
  <2> QED BY <2>1, <2>2, <2>3 DEF WorkInv
<1>29. ASSUME Reported \/ QueueFills PROVE WorkInv'
  <2>1. /\ work.then \in {"send", "report", "activate"} /\ work.ops = <<>> /\ peer.pc = "up"
        /\ UNCHANGED <<disk, peer>>
        /\ work' = Idle \/ work' = [Idle EXCEPT !.then = "stuck"]
    BY <1>29 DEF Reported, QueueFills, Dispatching, Done
  <2>2. disk.marker.state # "committing" /\ disk.marker.id \in {peer.pending, peer.commit}
    BY <2>1 DEF RotationInv, WorkInv, Idle, Staging
  <2>3. \/ work' = Idle
        \/ work'.ops = <<>> /\ work'.gen = None /\ work'.then = "stuck"
    BY <2>1 DEF Idle
  <2> QED BY <2>1, <2>2, <2>3 DEF WorkInv
<1> QED BY <1>27, <1>28, <1>29, <1>1, <1>2, <1>3, <1>4, <1>5, <1>6, <1>7, <1>8, <1>9, <1>10, <1>11, <1>12, <1>13,
   <1>14, <1>15, <1>16, <1>17, <1>18, <1>19, <1>20, <1>21, <1>22, <1>23, <1>24, <1>25,
   <1>26 DEF Next, Start, Rotator, Relay, Receive, Publisher, vars, Connect, DeliverDirectory,
   Deliver, DeliverReplacement,
   ReceivePacket, Traffic

\* The rotator agrees with its journal.
LEMMA PeerStep ==
    ASSUME RotationInv, [Next]_vars
    PROVE  PeerInv'
<1>1. ASSUME Recover PROVE PeerInv'
  BY <1>1, BoundsAssumption DEF Recover, Complete, Down, Idle, FinishCommit, Keys, None, Move,
     Unmark, RotationInv, TypeOK, PeerInv, WorkInv
<1>2. ASSUME CommitStaged PROVE PeerInv'
  BY <1>2, BoundsAssumption DEF CommitStaged, Idle, CommitIdentity, None, Mark, Move, Unmark,
     RotationInv, TypeOK, PeerInv, WorkInv, ControlInv, DiskInv, WireInv, WasActive
<1>3. ASSUME SkipStaged PROVE PeerInv'
  BY <1>3, BoundsAssumption DEF SkipStaged, Idle, None, RotationInv, TypeOK, PeerInv, WorkInv,
     ControlInv, DiskInv, WireInv, WasActive
<1>4. ASSUME Load PROVE PeerInv'
  <2>1. /\ peer.pc = "load" /\ work = Idle /\ UNCHANGED <<disk, work, control>>
        /\ peer' = [peer EXCEPT !.pc = "up", !.identity = disk.cur["credential"],
                                !.pending = disk.marker.id]
    BY <1>4 DEF Load
  <2>2. peer \in Process /\ disk \in Files /\ disk.cur["credential"] \in Gens
    BY DEF RotationInv, TypeOK, Files, Parts
  <2>3. /\ peer'.pc = "up" /\ peer'.identity = disk.cur["credential"] /\ peer'.commit = peer.commit
        /\ peer'.pending = disk.marker.id /\ peer'.published = peer.published
    BY <2>1
  <2>4. disk.marker.state # "committing" /\ peer.commit = None
    BY <2>1 DEF RotationInv, WorkInv, PeerInv, Finishing, Committing, Idle, FinishCommit
  <2>5. disk.marker.id # None => disk.marker.state \in {"requested", "staged"}
    BY <2>2, <2>4 DEF RotationInv, DiskInv, Files
  <2> QED BY <2>1, <2>2, <2>3, <2>4, <2>5 DEF RotationInv, PeerInv, WasActive, Gens, None
<1>5. ASSUME FileStep PROVE PeerInv'
  BY <1>5, FileStepKeeps
<1>6. ASSUME Requested PROVE PeerInv'
  <2>1. /\ peer.pc = "up" /\ work.ops = <<>> /\ work.then = "ask" /\ UNCHANGED <<disk, control>>
        /\ peer' = [peer EXCEPT !.pending = work.gen, !.sent = FALSE] /\ peer \in Process
    BY <1>6 DEF Requested, Done, RotationInv, TypeOK
  <2>2. work.gen = last /\ peer.commit = None /\ Asking(last)
    BY <2>1 DEF RotationInv, WorkInv, Idle
  <2>3. disk.marker = [state |-> "requested", id |-> last]
    BY <2>1, <2>2 DEF Asking, StageKeys
  <2>4. /\ peer'.pc = "up" /\ peer'.pending = last /\ peer'.commit = None
        /\ peer'.identity = peer.identity /\ peer'.published = peer.published
    BY <2>1, <2>2
  <2> QED BY <2>1, <2>3, <2>4 DEF RotationInv, PeerInv, WasActive
<1>7. ASSUME AcceptReplacement PROVE PeerInv'
  <2>1. /\ peer.pc = "up" /\ work = Idle /\ UNCHANGED <<disk, peer, last, uplink, control>>
        /\ work' = [ops |-> StageIdentity(peer.pending), then |-> "activate", gen |-> peer.pending]
    BY <1>7 DEF AcceptReplacement, Ready
  <2>2. peer.pending \in Gens
    <3>1. inbox \in Seq(Downward) /\ inbox # <<>> BY <1>7 DEF AcceptReplacement, RotationInv,
       TypeOK
    <3>2. Head(inbox) \in Downward BY <3>1
    <3> QED BY <1>7, <3>2 DEF AcceptReplacement, Downward
  <2>3. /\ peer.pending # None /\ peer.commit = None /\ disk.marker.id = peer.pending
        /\ disk.marker.state \in {"requested", "staged"}
    BY <2>2 DEF RotationInv, PeerInv, Gens, None
  <2> QED BY <2>1, <2>3 DEF RotationInv, PeerInv, WasActive
<1>8. ASSUME RejectReplacement PROVE PeerInv'
  BY <1>8, BoundsAssumption DEF RejectReplacement, Ready, Dies, Idle, Down, None, RotationInv,
     TypeOK, PeerInv, WorkInv, ControlInv
<1>9. ASSUME InstallDirectory PROVE PeerInv'
  <2>1. /\ peer.pc = "up" /\ work = Idle /\ inbox # <<>> /\ inbox \in Seq(Downward)
        /\ Head(inbox).kind = "directory" /\ UNCHANGED <<disk, last, uplink, control>>
        /\ peer \in Process
    BY <1>9 DEF InstallDirectory, Ready, RotationInv, TypeOK
  <2>2. CASE UNCHANGED <<peer, work>>
    BY <2>1, <2>2 DEF RotationInv, PeerInv, WasActive
  <2>3. CASE /\ peer' = [peer EXCEPT !.published = Head(inbox).gen]
             /\ work' = Commits(peer.commit, Head(inbox).gen)
    <3>1. WasActive(Head(inbox).gen)
      <4>1. 1 \in DOMAIN inbox /\ Head(inbox) = inbox[1] BY <2>1
      <4> QED BY <2>1 DEF RotationInv, WireInv
    <3>2. /\ peer'.pc = "up" /\ peer'.pending = peer.pending /\ peer'.commit = peer.commit
          /\ peer'.identity = peer.identity /\ peer'.published = Head(inbox).gen
      BY <2>1, <2>3
    <3>3. peer.commit # None =>
            disk.marker = [state |-> "staged", id |-> peer.commit] /\ peer.pending = None
      BY <2>1 DEF RotationInv, PeerInv, Idle
    <3>4. CASE peer.commit # None /\ Head(inbox).gen = peer.commit
      <4>1. /\ work'.ops = CommitIdentity(peer.commit) /\ work'.then = "commit"
            /\ work'.gen = peer.commit
        BY <2>3, <3>4 DEF Commits
      <4> QED BY <2>1, <3>1, <3>2, <3>3, <3>4, <4>1 DEF RotationInv, PeerInv, WasActive
    <3>5. CASE ~(peer.commit # None /\ Head(inbox).gen = peer.commit)
      <4>1. work' = Idle BY <2>3, <3>5 DEF Commits
      <4> QED BY <2>1, <3>1, <3>2, <3>3, <4>1 DEF RotationInv, PeerInv, WasActive
    <3> QED BY <3>4, <3>5
  <2> QED BY <1>9, <2>2, <2>3 DEF InstallDirectory
<1>10. ASSUME Committed PROVE PeerInv'
  BY <1>10, BoundsAssumption DEF Committed, Done, None, Idle, RotationInv, TypeOK, PeerInv,
     WorkInv, ControlInv, DiskInv, WireInv, WasActive
<1>11. ASSUME RequestNow PROVE PeerInv'
  BY <1>11, BoundsAssumption DEF RequestNow, Ready, None, StageKeys, Idle, Put, Mark,
     RotationInv, TypeOK, PeerInv, WorkInv, ControlInv, DiskInv, WireInv, WasActive
<1>12. ASSUME NEW s \in Slots, SendPending(s) PROVE PeerInv'
  <2>1. /\ work.then = "send" /\ peer.pc = "up" /\ work' = Idle /\ UNCHANGED <<disk, control>>
        /\ peer' = [peer EXCEPT !.sent = TRUE] /\ peer \in Process
    BY <1>12 DEF SendPending, Done, RotationInv, TypeOK
  <2>2. /\ peer'.pc = "up" /\ peer'.pending = peer.pending /\ peer'.commit = peer.commit
        /\ peer'.identity = peer.identity /\ peer'.published = peer.published
    BY <2>1
  <2> QED BY <2>1, <2>2 DEF RotationInv, PeerInv, WasActive
<1>13. ASSUME NEW s \in Slots, Activate(s) PROVE PeerInv'
  <2>1. /\ peer.pc = "up" /\ work.ops = <<>> /\ work.then = "activate" /\ UNCHANGED <<disk, last, control>>
        /\ peer' = [peer EXCEPT !.pending = None, !.sent = FALSE, !.commit = work.gen]
        /\ work' = Commits(work.gen, peer.published) /\ peer \in Process
    BY <1>13 DEF Activate, Done, RotationInv, TypeOK
  <2>2. work.gen # None /\ Staging(work.gen) BY <2>1 DEF RotationInv, WorkInv, Idle
  <2>3. disk.marker = [state |-> "staged", id |-> work.gen]
    <3>1. disk.marker.state = "staged" /\ disk.marker.id = work.gen
      BY <2>1, <2>2 DEF Staging, StageIdentity
    <3> QED BY <3>1 DEF RotationInv, TypeOK, Files
  <2>4. /\ peer'.pc = "up" /\ peer'.pending = None /\ peer'.commit = work.gen
        /\ peer'.identity = peer.identity /\ peer'.published = peer.published
    BY <2>1
  <2>5. CASE peer.published = work.gen
    <3>1. /\ work'.ops = CommitIdentity(work.gen) /\ work'.then = "commit" /\ work'.gen = work.gen
      BY <2>1, <2>2, <2>5 DEF Commits
    <3>2. WasActive(work.gen) BY <2>2, <2>5 DEF RotationInv, PeerInv
    <3> QED BY <2>1, <2>2, <2>3, <2>4, <3>1, <3>2 DEF RotationInv, PeerInv, WasActive
  <2>6. CASE peer.published # work.gen
    <3>1. work' = Idle BY <2>1, <2>6 DEF Commits
    <3> QED BY <2>1, <2>3, <2>4, <3>1 DEF RotationInv, PeerInv, WasActive
  <2> QED BY <2>5, <2>6
<1>14. ASSUME NEW m \in uplink, ReceiveRequest(m) PROVE PeerInv'
  BY <1>14, BoundsAssumption DEF ReceiveRequest, Requestable, Usable, RotationInv, TypeOK,
     PeerInv, WorkInv, ControlInv, DiskInv, WireInv, Idle, None, WasActive
<1>15. ASSUME NEW m \in uplink, ReceiveActivation(m) PROVE PeerInv'
  <2>1. UNCHANGED <<disk, work, peer>> BY <1>15 DEF ReceiveActivation
  <2>2. \A g \in Gens : WasActive(g) => control'.cred[g] \in {"active", "overlap", "revoked"}
    BY <1>15, ControlGrows
  <2>3. peer.published \in Gens \cup {None} BY DEF RotationInv, TypeOK, Process
  <2> QED BY <2>1, <2>2, <2>3 DEF RotationInv, PeerInv, WasActive
<1>16. ASSUME IssueRotations PROVE PeerInv'
  <2>1. UNCHANGED <<disk, work, peer>> BY <1>16 DEF IssueRotations
  <2>2. \A g \in Gens : WasActive(g) => control'.cred[g] \in {"active", "overlap", "revoked"}
    BY <1>16, ControlGrows
  <2>3. peer.published \in Gens \cup {None} BY DEF RotationInv, TypeOK, Process
  <2> QED BY <2>1, <2>2, <2>3 DEF RotationInv, PeerInv, WasActive
<1>17. ASSUME Publish PROVE PeerInv'
  BY <1>17, BoundsAssumption DEF Publish, Directory, Gens, Usable, RotationInv, TypeOK,
     PeerInv, WorkInv, ControlInv, DiskInv, WireInv, Idle, None, WasActive
<1>18. ASSUME NEW g \in Gens, OverlapLapses(g) PROVE PeerInv'
  BY <1>18, BoundsAssumption DEF OverlapLapses, RotationInv, TypeOK, PeerInv, WorkInv,
     ControlInv, DiskInv, WireInv, Idle, None, WasActive
<1>19. ASSUME Crash PROVE PeerInv'
  BY <1>19, BoundsAssumption DEF Crash, Fault, Dies, Down, Idle, None, RotationInv, TypeOK,
     PeerInv, WorkInv, ControlInv
<1>20. ASSUME RequestFails PROVE PeerInv'
  BY <1>20, BoundsAssumption DEF RequestFails, Fault, Idle, None, RotationInv, TypeOK, PeerInv,
     WorkInv, ControlInv, DiskInv, WireInv, WasActive
<1>21. CASE UNCHANGED <<disk, work, peer, control>>
  BY <1>21 DEF RotationInv, PeerInv, Idle, WasActive
<1>22. ASSUME CheckRotation \/ Report \/ Reported \/ QueueFills PROVE PeerInv'
  <2>1. /\ work = Idle \/ work.then \in {"send", "report", "activate"}
        /\ peer.pc = "up" /\ UNCHANGED <<disk, peer, control>>
        /\ \/ work' = Idle
           \/ work' = [Idle EXCEPT !.then = "send"]
           \/ work' = [Idle EXCEPT !.then = "report"]
           \/ work' = [Idle EXCEPT !.then = "stuck"]
    BY <1>22 DEF CheckRotation, Report, Reported, QueueFills, Ready, Dispatching, Done
  <2>2. peer.commit # None => disk.marker = [state |-> "staged", id |-> peer.commit]
    BY <2>1 DEF RotationInv, PeerInv, Idle
  <2>3. work' = Idle \/ work'.then \in {"send", "report", "stuck"} BY <2>1 DEF Idle
  <2> QED BY <2>1, <2>2, <2>3 DEF RotationInv, PeerInv, WasActive
<1> QED BY <1>22, <1>1, <1>2, <1>3, <1>4, <1>5, <1>6, <1>7, <1>8, <1>9, <1>10, <1>11, <1>12, <1>13,
   <1>14, <1>15, <1>16, <1>17, <1>18, <1>19, <1>20, <1>21 DEF Next, Start, Rotator, Relay,
   Receive, Publisher, vars, Connect, Replace, EndSession, NoticeDeath, DeliverDirectory,
   Deliver, DeliverReplacement, Break, Fault, RefuseRequest, LoseRequest,
   SendSlowly, ReceivePacket, Traffic

\* One credential is active, and it stays known that one was.
LEMMA ControlStep ==
    ASSUME RotationInv, [Next]_vars
    PROVE  ControlInv'
<1>1. ASSUME NEW m \in uplink, ReceiveRequest(m) PROVE ControlInv'
  BY <1>1, BoundsAssumption DEF ReceiveRequest, Requestable, Usable, RotationInv, TypeOK,
     ControlInv, WireInv, WasActive
<1>2. ASSUME NEW m \in uplink, ReceiveActivation(m) PROVE ControlInv'
  <2>1. /\ m \in Upward /\ m.gen \in Gens /\ m.gen # 1 /\ m.kind = "activation"
        /\ control \in Rows /\ uplink' = uplink \ {m} /\ UNCHANGED <<disk, work, peer, last, inbox, budget>>
    BY <1>2 DEF RotationInv, TypeOK, WireInv, Upward, ReceiveActivation
  <2>2. UNCHANGED control \/ NowActive(m) BY <1>2, <2>1, ActivationEffect
  <2>3. CASE UNCHANGED control
    BY <2>1, <2>3 DEF RotationInv, TypeOK, Rows, ControlInv, WasActive
  <2>4. CASE NowActive(m)
    <3>1. control.cred[m.gen] = "staged" /\ ~WasActive(m.gen)
      BY <2>1, <2>4 DEF RotationInv, ControlInv, NowActive, WasActive
    <3>2. disk.marker = [state |-> "staged", id |-> m.gen]
      BY <2>1, <3>1 DEF RotationInv, WireInv
    <3>3. \A g \in Gens : control.cred[g] \in {"none", "staged", "active", "overlap", "revoked"}
      BY <2>1 DEF Rows
    <3>4. /\ 1 \in Gens /\ control.directory.active \in Gens
          /\ control'.directory.active = control.directory.active
      BY <2>1, <2>4, BoundsAssumption DEF Rows, Gens, NowActive
    <3>5. \A g \in Gens : WasActive(g) => WasActive(g)'
      BY <2>1, <2>4 DEF NowActive, WasActive
    <3>6. control'.status[1] = "none" /\ WasActive(1)' /\ WasActive(control.directory.active)'
      BY <2>1, <2>4, <3>4, <3>5 DEF RotationInv, ControlInv, NowActive
    <3>7. \A g \in Gens \ {1} :
            /\ control'.status[g] \in {"none", "pending"} => control'.cred[g] = "none"
            /\ control'.status[g] = "issued" => control'.cred[g] = "staged"
            /\ control'.status[g] = "activated" => WasActive(g)'
      BY <2>1, <2>4, <3>3, <3>5 DEF RotationInv, ControlInv, NowActive, WasActive
    <3>8. /\ \E g \in Gens : control'.cred[g] = "active"
          /\ \A g, h \in Gens : control'.cred[g] = "active" /\ control'.cred[h] = "active" => g = h
      BY <2>1, <2>4, <3>3, <3>4 DEF RotationInv, ControlInv, NowActive
    <3> QED BY <3>6, <3>7, <3>8 DEF ControlInv
  <2> QED BY <2>2, <2>3, <2>4
<1>3. ASSUME IssueRotations PROVE ControlInv'
  <2>1. /\ control \in Rows /\ NowIssued
        /\ UNCHANGED <<disk, work, peer, last, session, uplink, inbox, budget>>
    BY <1>3, IssueEffect DEF RotationInv, TypeOK, IssueRotations
  <2>2. \A g \in Gens : /\ control.status[g] \in {"none", "pending", "issued", "activated"}
                       /\ control.cred[g] \in {"none", "staged", "active", "overlap", "revoked"}
    BY <2>1 DEF Rows
  <2>4. /\ 1 \in Gens /\ control.directory.active \in Gens
        /\ control'.directory.active = control.directory.active
    BY <2>1, BoundsAssumption DEF Rows, Gens, NowIssued
  <2>5. \A g \in Gens : WasActive(g) => WasActive(g)'
    BY <2>1 DEF NowIssued, WasActive, RotationInv, ControlInv
  <2>6. control'.status[1] = "none" /\ WasActive(1)' /\ WasActive(control.directory.active)'
    BY <2>1, <2>4, <2>5 DEF RotationInv, ControlInv, NowIssued
  <2>7. \A g \in Gens \ {1} :
          /\ control'.status[g] \in {"none", "pending"} => control'.cred[g] = "none"
          /\ control'.status[g] = "issued" => control'.cred[g] = "staged"
          /\ control'.status[g] = "activated" => WasActive(g)'
    BY <2>1, <2>2, <2>5 DEF RotationInv, ControlInv, NowIssued
  <2>8. /\ \E g \in Gens : control'.cred[g] = "active"
        /\ \A g, h \in Gens : control'.cred[g] = "active" /\ control'.cred[h] = "active" => g = h
    BY <2>1, <2>2, <2>4 DEF RotationInv, ControlInv, NowIssued
  <2> QED BY <2>6, <2>7, <2>8 DEF ControlInv
<1>4. ASSUME Publish PROVE ControlInv'
  BY <1>4, BoundsAssumption DEF Publish, Directory, Gens, Usable, RotationInv, TypeOK,
     ControlInv, WireInv, WasActive
<1>5. ASSUME NEW g \in Gens, OverlapLapses(g) PROVE ControlInv'
  BY <1>5, BoundsAssumption DEF OverlapLapses, RotationInv, TypeOK, ControlInv, WireInv,
     WasActive
<1>6. CASE UNCHANGED <<control>>
  BY <1>6 DEF RotationInv, ControlInv, WasActive
<1> QED BY <1>1, <1>2, <1>3, <1>4, <1>5, <1>6 DEF Next, Start, Rotator, Relay, Receive,
   Publisher, vars, Recover, CommitStaged, SkipStaged, Load, FileStep, Requested,
   AcceptReplacement, RejectReplacement, Dies, InstallDirectory, Committed, RequestNow,
   SendPending, Activate, Connect, Replace, EndSession, NoticeDeath, DeliverDirectory, Deliver,
   DeliverReplacement, Break, Fault, RefuseRequest, LoseRequest, Crash, RequestFails,
   CheckRotation, SendSlowly, Report, Reported, QueueFills, ReceivePacket, Traffic

\* Records speak of what has been journalled.
LEMMA WireStep ==
    ASSUME RotationInv, [Next]_vars
    PROVE  WireInv'
<1>1. ASSUME FileStep PROVE WireInv'
  BY <1>1, FileStepKeeps DEF FilesKept
<1>2. ASSUME AcceptReplacement PROVE WireInv'
  BY SMTT(60), <1>2, BoundsAssumption DEF AcceptReplacement, Ready, StageIdentity, Idle, Put, Mark,
     None,
     RotationInv, TypeOK, WireInv, ControlInv, WorkInv, PeerInv, DiskInv, MarkerInv, Gens,
     Unused, WasActive, Holds
<1>3. ASSUME RejectReplacement PROVE WireInv'
  BY <1>3, BoundsAssumption DEF RejectReplacement, Ready, Dies, Idle, Down, None, RotationInv,
     TypeOK, WireInv, ControlInv, WorkInv, PeerInv, DiskInv, MarkerInv, Gens, Unused,
     WasActive, Holds
<1>4. ASSUME InstallDirectory PROVE WireInv'
  <2>1. /\ inbox \in Seq(Downward) /\ inbox # <<>> /\ inbox' = Tail(inbox)
        /\ UNCHANGED <<disk, last, uplink, control, budget>>
    BY <1>4 DEF InstallDirectory, RotationInv, TypeOK
  <2>2. \A i \in DOMAIN inbox' : i + 1 \in DOMAIN inbox /\ inbox'[i] = inbox[i + 1]
    BY <2>1
  <2> QED BY <2>1, <2>2 DEF RotationInv, WireInv, WasActive, Unused
<1>5. ASSUME RequestNow PROVE WireInv'
  BY SMTT(60), <1>5, BoundsAssumption DEF RequestNow, Ready, None, StageKeys, Idle, Put, Mark,
     RotationInv, TypeOK, WireInv, ControlInv, WorkInv, PeerInv, DiskInv, MarkerInv, Gens,
     Unused, WasActive, Holds
<1>6. ASSUME NEW s \in Slots, SendPending(s) PROVE WireInv'
  <2>1. /\ peer.pending \in Gens /\ peer.identity \in Gens /\ peer.pending # 1
        /\ peer.pending <= last
    BY <1>6 DEF SendPending, Done, RotationInv, TypeOK, PeerInv, WorkInv, DiskInv, Process, Idle
  <2>2. PICK r \in Upward : uplink' = uplink \cup {r} /\ r.gen = peer.pending /\ r.kind = "request"
    <3> DEFINE r == [slot |-> s, kind |-> "request", gen |-> peer.pending, from |-> peer.identity]
    <3>1. r \in Upward BY <2>1 DEF Upward
    <3> WITNESS r \in Upward
    <3> QED BY <1>6 DEF SendPending
  <2>3. UNCHANGED <<disk, last, inbox, control, budget>> BY <1>6 DEF SendPending
  <2>4. \A g \in Gens : g > last => Unused(g)'
    <3>1. \A g \in Gens : g > last => g # peer.pending
      BY <2>1 DEF RotationInv, TypeOK, Gens
    <3> QED BY <2>2, <2>3, <3>1 DEF RotationInv, WireInv, Unused
  <2> QED BY <2>1, <2>2, <2>3, <2>4 DEF RotationInv, WireInv, WasActive
<1>7. ASSUME NEW s \in Slots, Activate(s) PROVE WireInv'
  <2>1. /\ work.gen \in Gens /\ work.gen # 1 /\ work.gen <= last
        /\ disk.marker = [state |-> "staged", id |-> work.gen]
    <3>1. /\ work.ops = <<>> /\ work.then = "activate" /\ work.gen # None /\ Staging(work.gen)
          /\ work \in Call /\ disk \in Files
      BY <1>7 DEF Activate, Done, RotationInv, TypeOK, WorkInv, Idle
    <3>2. disk.marker.id = work.gen /\ disk.marker.state = "staged"
      BY <3>1 DEF Staging, StageIdentity
    <3>3. work.gen # 1 /\ work.gen <= last BY <3>2 DEF RotationInv, DiskInv
    <3> QED BY <3>1, <3>2, <3>3 DEF Files
  <2>2. PICK r \in Upward : /\ uplink' = uplink \cup {r}
                            /\ r.gen = work.gen /\ r.kind = "activation"
    <3>1. peer.identity \in Gens
      BY <1>7 DEF Activate, Done, RotationInv, TypeOK, PeerInv, Process
    <3> DEFINE r == [slot |-> s, kind |-> "activation", gen |-> work.gen, from |-> peer.identity]
    <3>2. r \in Upward BY <2>1, <3>1 DEF Upward
    <3> WITNESS r \in Upward
    <3> QED BY <1>7 DEF Activate
  <2>3. UNCHANGED <<disk, last, inbox, control, budget>> BY <1>7 DEF Activate
  <2>4. \A g \in Gens : g > last => Unused(g)'
    <3>1. \A g \in Gens : g > last => g # work.gen
      BY <2>1 DEF RotationInv, TypeOK, Gens
    <3> QED BY <2>2, <2>3, <3>1 DEF RotationInv, WireInv, Unused
  <2> QED BY <2>1, <2>2, <2>3, <2>4 DEF RotationInv, WireInv, WasActive
<1>8. ASSUME NEW s \in Slots, Replace(s) PROVE WireInv'
  BY <1>8, BoundsAssumption DEF Replace, EndSession, Ended, On, None, RotationInv, TypeOK,
     WireInv, ControlInv, WorkInv, PeerInv, DiskInv, MarkerInv, Gens, Unused, WasActive, Holds
<1>9. ASSUME NEW s \in Slots, NoticeDeath(s) PROVE WireInv'
  BY <1>9, BoundsAssumption DEF NoticeDeath, Ended, On, EndSession, None, RotationInv, TypeOK,
     WireInv, ControlInv, WorkInv, PeerInv, DiskInv, MarkerInv, Gens, Unused, WasActive, Holds
<1>10. ASSUME NEW s \in Slots, DeliverDirectory(s) PROVE WireInv'
  <2>1. /\ inbox \in Seq(Downward) /\ UNCHANGED <<disk, last, uplink, control, budget>>
        /\ inbox' = Append(inbox, [slot |-> s, kind |-> "directory",
                                   gen |-> control.directory.active])
    BY <1>10 DEF DeliverDirectory, Deliver, RotationInv, TypeOK
  <2>2. \A i \in DOMAIN inbox' : \/ i \in DOMAIN inbox /\ inbox'[i] = inbox[i]
                               \/ inbox'[i].gen = control.directory.active
    BY <2>1
  <2> QED BY <2>1, <2>2 DEF RotationInv, WireInv, ControlInv, WasActive, Unused
<1>11. ASSUME NEW s \in Slots, DeliverReplacement(s) PROVE WireInv'
  <2>1. /\ inbox \in Seq(Downward) /\ UNCHANGED <<disk, last, uplink, control, budget>>
        /\ inbox' = Append(inbox, [slot |-> s, kind |-> "replacement",
                                   gen |-> Issued(session[s].serial)])
    BY <1>11 DEF DeliverReplacement, Deliver, RotationInv, TypeOK
  <2>2. \A i \in DOMAIN inbox' : \/ i \in DOMAIN inbox /\ inbox'[i] = inbox[i]
                               \/ inbox'[i].kind = "replacement"
    BY <2>1
  <2> QED BY <2>1, <2>2 DEF RotationInv, WireInv, WasActive, Unused
<1>12. ASSUME NEW s \in Slots, Break(s) PROVE WireInv'
  BY <1>12, BoundsAssumption DEF Break, Ended, Fault, EndSession, None, On, RotationInv,
     TypeOK, WireInv, ControlInv, WorkInv, PeerInv, DiskInv, MarkerInv, Gens, Unused,
     WasActive, Holds
<1>13. ASSUME NEW m \in uplink, ReceiveRequest(m) PROVE WireInv'
  BY <1>13, BoundsAssumption DEF ReceiveRequest, Requestable, Usable, RotationInv, TypeOK,
     WireInv, ControlInv, WorkInv, PeerInv, DiskInv, MarkerInv, Gens, Unused, WasActive, Holds
<1>14. ASSUME NEW m \in uplink, RefuseRequest(m) PROVE WireInv'
  BY <1>14, BoundsAssumption DEF RefuseRequest, Requestable, EndSession, Usable, Ended, On,
     None, RotationInv, TypeOK, WireInv, ControlInv, WorkInv, PeerInv, DiskInv, MarkerInv,
     Gens, Unused, WasActive, Holds
<1>15. ASSUME NEW m \in uplink, ReceiveActivation(m) PROVE WireInv'
  <2>1. /\ m \in Upward /\ m.gen \in Gens /\ m.gen # 1 /\ m.kind = "activation"
        /\ control \in Rows /\ uplink' = uplink \ {m} /\ UNCHANGED <<disk, work, peer, last, inbox, budget>>
    BY <1>15 DEF RotationInv, TypeOK, WireInv, Upward, ReceiveActivation
  <2>2. UNCHANGED control \/ NowActive(m) BY <1>15, <2>1, ActivationEffect
  <2>3. CASE UNCHANGED control
    BY <2>1, <2>3 DEF RotationInv, WireInv, WasActive, Unused
  <2>4. CASE NowActive(m)
    <3>1. control.cred[m.gen] = "staged" /\ ~WasActive(m.gen)
      BY <2>1, <2>4 DEF RotationInv, ControlInv, NowActive, WasActive
    <3>2. disk.marker = [state |-> "staged", id |-> m.gen]
      BY <2>1, <3>1 DEF RotationInv, WireInv
    <3>3. \A g \in Gens : control.cred[g] \in {"none", "staged", "active", "overlap", "revoked"}
      BY <2>1 DEF Rows
    <3>4. \A g \in Gens : WasActive(g) => control'.cred[g] \in {"active", "overlap", "revoked"}
      BY <2>1, <2>4, <3>1 DEF NowActive, WasActive
    <3>5. \A g \in Gens : g > last => g # m.gen /\ control.status[g] = "none"
      BY DEF RotationInv, WireInv, Unused
    <3>6. \A g \in Gens : g > last => control'.status[g] = "none"
      BY <2>4, <3>5 DEF NowActive
    <3> QED BY <2>1, <3>4, <3>6, WireGrows
  <2> QED BY <2>2, <2>3, <2>4
<1>16. ASSUME NEW m \in uplink, LoseRequest(m) PROVE WireInv'
  BY <1>16, BoundsAssumption DEF LoseRequest, Fault, RotationInv, TypeOK, WireInv, ControlInv,
     WorkInv, PeerInv, DiskInv, MarkerInv, Gens, Unused, WasActive
<1>17. ASSUME IssueRotations PROVE WireInv'
  <2>1. /\ control \in Rows /\ NowIssued
        /\ UNCHANGED <<disk, work, peer, last, session, uplink, inbox, budget>>
    BY <1>17, IssueEffect DEF RotationInv, TypeOK, IssueRotations
  <2>2. \A g \in Gens : /\ control.status[g] \in {"none", "pending", "issued", "activated"}
                       /\ control.cred[g] \in {"none", "staged", "active", "overlap", "revoked"}
    BY <2>1 DEF Rows
  <2>3. 1 \in Gens BY BoundsAssumption DEF Gens
  <2>4. \A g \in Gens : WasActive(g) => control'.cred[g] \in {"active", "overlap", "revoked"}
    BY <2>1, <2>2, <2>3 DEF NowIssued, WasActive, RotationInv, ControlInv
  <2>5. \A g \in Gens : g > last => control'.status[g] = "none"
    BY <2>1, <2>2 DEF RotationInv, WireInv, Unused, NowIssued
  <2> QED BY <2>1, <2>4, <2>5, WireGrows
<1>18. ASSUME Publish PROVE WireInv'
  BY <1>18, BoundsAssumption DEF Publish, Directory, Gens, Usable, RotationInv, TypeOK,
     WireInv, ControlInv, WorkInv, PeerInv, DiskInv, MarkerInv, Unused, WasActive, Holds
<1>19. ASSUME NEW g \in Gens, OverlapLapses(g) PROVE WireInv'
  BY <1>19, BoundsAssumption DEF OverlapLapses, RotationInv, TypeOK, WireInv, ControlInv,
     WorkInv, PeerInv, DiskInv, MarkerInv, Gens, Unused, WasActive
<1>20. ASSUME Crash PROVE WireInv'
  BY <1>20, BoundsAssumption DEF Crash, Fault, Dies, Down, Idle, None, RotationInv, TypeOK,
     WireInv, ControlInv, WorkInv, PeerInv, DiskInv, MarkerInv, Gens, Unused, WasActive, Holds
<1>21. ASSUME RequestFails PROVE WireInv'
  BY <1>21, BoundsAssumption DEF RequestFails, Fault, Idle, None, RotationInv, TypeOK, WireInv,
     ControlInv, WorkInv, PeerInv, DiskInv, MarkerInv, Gens, Unused, WasActive, Holds
<1>22. CASE UNCHANGED <<disk, last, uplink, inbox, control, budget>>
  BY <1>22 DEF RotationInv, WireInv, Gens, Unused, WasActive
<1>23. ASSUME NEW s \in Slots, SendSlowly(s) PROVE WireInv'
  <2>1. /\ peer.pending \in Gens /\ peer.identity \in Gens /\ peer.pending # 1
        /\ peer.pending <= last
    BY <1>23 DEF SendSlowly, Done, RotationInv, TypeOK, PeerInv, WorkInv, DiskInv, Process, Idle
  <2>2. PICK r \in Upward : /\ uplink' = uplink \cup {r} /\ r.gen = peer.pending
                            /\ r.kind = "activation" => work.then = "activate"
    <3> DEFINE r == [slot |-> s, kind |-> IF work.then = "send" THEN "request" ELSE "activation",
                     gen |-> peer.pending, from |-> peer.identity]
    <3>1. r \in Upward BY <2>1 DEF Upward
    <3>2. uplink' = uplink \cup {r} /\ (r.kind = "activation" => work.then = "activate")
      BY <1>23 DEF SendSlowly, Done
    <3> WITNESS r \in Upward
    <3> QED BY <3>2
  <2>3. UNCHANGED <<disk, last, inbox, control>> /\ budget'.rotations = budget.rotations
    BY <1>23 DEF SendSlowly, Fault, RotationInv, TypeOK
  <2>4. work.then = "activate" => disk.marker = [state |-> "staged", id |-> peer.pending]
    <3> SUFFICES ASSUME work.then = "activate"
                 PROVE  disk.marker = [state |-> "staged", id |-> peer.pending]
      OBVIOUS
    <3>1. work.ops = <<>> /\ Staging(work.gen) /\ work.gen = peer.pending /\ disk \in Files
      BY <1>23 DEF SendSlowly, Done, RotationInv, TypeOK, WorkInv, Idle
    <3>2. disk.marker.id = peer.pending /\ disk.marker.state = "staged"
      BY <3>1 DEF Staging, StageIdentity
    <3> QED BY <3>1, <3>2 DEF Files
  <2>5. \A g \in Gens : g > last => Unused(g)'
    <3>1. \A g \in Gens : g > last => g # peer.pending
      BY <2>1 DEF RotationInv, TypeOK, Gens
    <3> QED BY <2>2, <2>3, <3>1 DEF RotationInv, WireInv, Unused
  <2> QED BY <2>1, <2>2, <2>3, <2>4, <2>5 DEF RotationInv, WireInv, WasActive
<1>24. ASSUME ReceivePacket PROVE WireInv'
  <2>1. /\ inbox \in Seq(Downward) /\ inbox # <<>> /\ inbox' = Tail(inbox)
        /\ UNCHANGED <<disk, last, uplink, control, budget>>
    BY <1>24 DEF ReceivePacket, RotationInv, TypeOK
  <2>2. \A i \in DOMAIN inbox' : i + 1 \in DOMAIN inbox /\ inbox'[i] = inbox[i + 1]
    BY <2>1
  <2> QED BY <2>1, <2>2 DEF RotationInv, WireInv, WasActive, Unused
<1>25. ASSUME NEW s \in Slots, Traffic(s) PROVE WireInv'
  <2>1. /\ inbox \in Seq(Downward) /\ UNCHANGED <<disk, last, uplink, control>>
        /\ inbox' = Append(inbox, [slot |-> s, kind |-> "data", gen |-> None])
        /\ budget'.rotations = budget.rotations
    BY <1>25 DEF Traffic, Deliver, RotationInv, TypeOK
  <2>2. \A i \in DOMAIN inbox' : \/ i \in DOMAIN inbox /\ inbox'[i] = inbox[i]
                               \/ inbox'[i].kind = "data"
    BY <2>1
  <2> QED BY <2>1, <2>2 DEF RotationInv, WireInv, WasActive, Unused
<1>26. ASSUME Report PROVE WireInv'
  <2>1. UNCHANGED <<disk, last, uplink, inbox, control>> /\ budget'.rotations = budget.rotations
    BY <1>26 DEF Report, RotationInv, TypeOK
  <2> QED BY <2>1 DEF RotationInv, WireInv, WasActive, Unused
<1> QED BY <1>23, <1>24, <1>25, <1>26, <1>1, <1>2, <1>3, <1>4, <1>5, <1>6, <1>7, <1>8, <1>9, <1>10, <1>11, <1>12, <1>13,
   <1>14, <1>15, <1>16, <1>17, <1>18, <1>19, <1>20, <1>21, <1>22 DEF Next, Start, Rotator,
   Relay, Receive, Publisher, vars, Recover, CommitStaged, SkipStaged, Load, Requested,
   Committed, Connect,
   CheckRotation, Reported, QueueFills

\* Only an active identity is moved into place.
LEMMA MarkerStep ==
    ASSUME RotationInv, [Next]_vars
    PROVE  MarkerInv'
<1>1. ASSUME FileStep PROVE MarkerInv'
  BY <1>1, FileStepKeeps DEF FilesKept
<1>2. ASSUME NEW m \in uplink, ReceiveRequest(m) PROVE MarkerInv'
  BY <1>2, BoundsAssumption DEF ReceiveRequest, Requestable, Usable, RotationInv, TypeOK,
     MarkerInv, ControlInv, WireInv, None, WasActive
<1>3. ASSUME NEW m \in uplink, ReceiveActivation(m) PROVE MarkerInv'
  <2>1. /\ m \in Upward /\ m.gen \in Gens /\ m.gen # 1 /\ m.kind = "activation"
        /\ control \in Rows /\ uplink' = uplink \ {m} /\ UNCHANGED <<disk, work, peer, last, inbox, budget>>
    BY <1>3 DEF RotationInv, TypeOK, WireInv, Upward, ReceiveActivation
  <2>2. UNCHANGED control \/ NowActive(m) BY <1>3, <2>1, ActivationEffect
  <2>3. CASE UNCHANGED control
    BY <2>1, <2>3 DEF RotationInv, ControlInv, DiskInv, MarkerInv, WasActive, TypeOK
  <2>4. CASE NowActive(m)
    <3>1. control.cred[m.gen] = "staged" /\ ~WasActive(m.gen)
      BY <2>1, <2>4 DEF RotationInv, ControlInv, NowActive, WasActive
    <3>2. disk.marker = [state |-> "staged", id |-> m.gen]
      BY <2>1, <3>1 DEF RotationInv, WireInv
    <3>3. \A g \in Gens : control.cred[g] \in {"none", "staged", "active", "overlap", "revoked"}
      BY <2>1 DEF Rows
    <3> QED BY <2>1, <2>4, <3>1, <3>2, <3>3 DEF RotationInv, NowActive, ControlInv, DiskInv,
       MarkerInv, WasActive
  <2> QED BY <2>2, <2>3, <2>4
<1>4. ASSUME IssueRotations PROVE MarkerInv'
  <2>1. /\ control \in Rows /\ NowIssued
        /\ UNCHANGED <<disk, work, peer, last, session, uplink, inbox, budget>>
    BY <1>4, IssueEffect DEF RotationInv, TypeOK, IssueRotations
  <2>2. \A g \in Gens : /\ control.status[g] \in {"none", "pending", "issued", "activated"}
                       /\ control.cred[g] \in {"none", "staged", "active", "overlap", "revoked"}
    BY <2>1 DEF Rows
  <2> QED BY <2>1, <2>2, BoundsAssumption DEF RotationInv, TypeOK, NowIssued, ControlInv,
     DiskInv, MarkerInv, WasActive, TypeOK, Files
<1>5. ASSUME Publish PROVE MarkerInv'
  BY <1>5, BoundsAssumption DEF Publish, Directory, Gens, Usable, RotationInv, TypeOK,
     MarkerInv, ControlInv, WireInv, None, WasActive
<1>6. ASSUME NEW g \in Gens, OverlapLapses(g) PROVE MarkerInv'
  BY <1>6, BoundsAssumption DEF OverlapLapses, RotationInv, TypeOK, MarkerInv, ControlInv,
     WireInv, None, WasActive
<1>7. CASE UNCHANGED <<disk, control>>
  BY <1>7 DEF RotationInv, MarkerInv, WasActive
<1> QED BY <1>1, <1>2, <1>3, <1>4, <1>5, <1>6, <1>7 DEF Next, Start, Rotator, Relay, Receive,
   Publisher, vars, Recover, CommitStaged, SkipStaged, Load, Requested, AcceptReplacement,
   RejectReplacement, Dies, InstallDirectory, Committed, RequestNow, SendPending, Activate,
   Connect, Replace, EndSession, NoticeDeath, DeliverDirectory, Deliver, DeliverReplacement,
   Break, Fault, RefuseRequest, LoseRequest, Crash, RequestFails,
   CheckRotation, SendSlowly, Report, Reported, QueueFills, ReceivePacket, Traffic

\* The active identity stays on the disk.
LEMMA HeldStep ==
    ASSUME RotationInv, [Next]_vars
    PROVE  ActiveIsHeld'
<1>1. ASSUME FileStep PROVE ActiveIsHeld'
  BY <1>1, FileStepKeeps DEF FilesKept
<1>2. ASSUME NEW m \in uplink, ReceiveRequest(m) PROVE ActiveIsHeld'
  BY <1>2, BoundsAssumption DEF ReceiveRequest, Requestable, Usable, RotationInv, TypeOK,
     ActiveIsHeld
<1>3. ASSUME NEW m \in uplink, ReceiveActivation(m) PROVE ActiveIsHeld'
  <2>1. /\ m \in Upward /\ m.gen \in Gens /\ m.gen # 1 /\ m.kind = "activation"
        /\ control \in Rows /\ uplink' = uplink \ {m} /\ UNCHANGED <<disk, work, peer, last, inbox, budget>>
    BY <1>3 DEF RotationInv, TypeOK, WireInv, Upward, ReceiveActivation
  <2>2. UNCHANGED control \/ NowActive(m) BY <1>3, <2>1, ActivationEffect
  <2>3. CASE UNCHANGED control
    BY <2>1, <2>3 DEF RotationInv, ControlInv, DiskInv, MarkerInv, ActiveIsHeld
  <2>4. CASE NowActive(m)
    <3>1. control.cred[m.gen] = "staged" /\ ~WasActive(m.gen)
      BY <2>1, <2>4 DEF RotationInv, ControlInv, NowActive, WasActive
    <3>2. disk.marker = [state |-> "staged", id |-> m.gen]
      BY <2>1, <3>1 DEF RotationInv, WireInv
    <3>3. \A g \in Gens : control.cred[g] \in {"none", "staged", "active", "overlap", "revoked"}
      BY <2>1 DEF Rows
    <3> QED BY <2>1, <2>4, <3>1, <3>2, <3>3 DEF RotationInv, NowActive, ControlInv, DiskInv,
       MarkerInv, ActiveIsHeld, WasActive, Keys, Parts
  <2> QED BY <2>2, <2>3, <2>4
<1>4. ASSUME IssueRotations PROVE ActiveIsHeld'
  <2>1. /\ control \in Rows /\ NowIssued
        /\ UNCHANGED <<disk, work, peer, last, session, uplink, inbox, budget>>
    BY <1>4, IssueEffect DEF RotationInv, TypeOK, IssueRotations
  <2>2. \A g \in Gens : /\ control.status[g] \in {"none", "pending", "issued", "activated"}
                       /\ control.cred[g] \in {"none", "staged", "active", "overlap", "revoked"}
    BY <2>1 DEF Rows
  <2> QED BY <2>1, <2>2, BoundsAssumption DEF RotationInv, TypeOK, NowIssued, ControlInv,
     DiskInv, MarkerInv, ActiveIsHeld, WasActive
<1>5. ASSUME Publish PROVE ActiveIsHeld'
  BY <1>5, BoundsAssumption DEF Publish, Directory, Gens, Usable, RotationInv, TypeOK,
     ActiveIsHeld, ControlInv
<1>6. ASSUME NEW g \in Gens, OverlapLapses(g) PROVE ActiveIsHeld'
  BY <1>6, BoundsAssumption DEF OverlapLapses, RotationInv, TypeOK, ActiveIsHeld, ControlInv,
     WireInv
<1>7. CASE UNCHANGED <<disk, control>>
  BY <1>7 DEF RotationInv, ActiveIsHeld
<1> QED BY <1>1, <1>2, <1>3, <1>4, <1>5, <1>6, <1>7 DEF Next, Start, Rotator, Relay, Receive,
   Publisher, vars, Recover, CommitStaged, SkipStaged, Load, Requested, AcceptReplacement,
   RejectReplacement, Dies, InstallDirectory, Committed, RequestNow, SendPending, Activate,
   Connect, Replace, EndSession, NoticeDeath, DeliverDirectory, Deliver, DeliverReplacement,
   Break, Fault, RefuseRequest, LoseRequest, Crash, RequestFails,
   CheckRotation, SendSlowly, Report, Reported, QueueFills, ReceivePacket, Traffic

-----------------------------------------------------------------------------
(* The theorems.                                                           *)

\* A joined peer satisfies every part.
LEMMA RotationInitially == Init => RotationInv
<1> SUFFICES ASSUME Init PROVE RotationInv OBVIOUS
<1>1. 1 \in Gens /\ 1 <= MaxKeys BY BoundsAssumption DEF Gens
<1>2. budget \in [rotations : 0..(MaxKeys - 1), faults : Nat, traffic : Nat]
  BY BoundsAssumption DEF Init
<1>3. budget \in [rotations : Nat, faults : Nat, traffic : Nat] /\ 1 + budget.rotations <= MaxKeys
  BY <1>2, BoundsAssumption
<1>4. disk \in Files BY <1>1 DEF Init, Files
<1>5. work \in Call /\ peer \in Process BY DEF Init, Call, Process, Idle, Down
<1>6. session \in [Slots -> RelaySession] BY DEF Init, RelaySession, Ended
<1>7. uplink \subseteq Upward /\ inbox \in Seq(Downward) BY DEF Init
<1>8. control \in Rows BY <1>1 DEF Init, Rows
<1>9. TypeOK BY <1>1, <1>3, <1>4, <1>5, <1>6, <1>7, <1>8 DEF TypeOK, Init
<1>10. DiskInv BY <1>1 DEF Init, DiskInv, Holds, None
<1>11. WorkInv BY DEF Init, WorkInv, Down
<1>12. PeerInv BY DEF Init, PeerInv, Down
<1>13. ControlInv BY <1>1 DEF Init, ControlInv, WasActive
<1>14. WireInv
  <2>1. uplink = {} /\ inbox = <<>> /\ last = 1 /\ \A g \in Gens : control.status[g] = "none"
    BY DEF Init
  <2> QED BY <1>3, <2>1 DEF WireInv, Unused
<1>15. MarkerInv BY DEF Init, MarkerInv
<1>16. ActiveIsHeld BY DEF Init, ActiveIsHeld
<1> QED BY <1>9, <1>10, <1>11, <1>12, <1>13, <1>14, <1>15, <1>16 DEF RotationInv

\* A rotation keeps its journal, its calls, the rows of Control and the records
\* between them consistent (credential_rotation.rs, credential_rotation_files.rs,
\* rotation.rs).
THEOREM RotationInvariant == Spec => []RotationInv
<1>1. RotationInv /\ [Next]_vars => RotationInv'
  BY TypeStep, DiskStep, WorkStep, PeerStep, ControlStep, WireStep, MarkerStep,
     HeldStep DEF RotationInv
<1> QED BY <1>1, RotationInitially, PTL DEF Spec

\* Wherever the process dies among the renames of a commit, the next start reads
\* four files of one generation (credential_recovery.rs).
THEOREM StartsReadOneIdentity == Spec => []IdentityWhole
<1>1. RotationInv => IdentityWhole
  <2> SUFFICES ASSUME RotationInv, peer.pc = "load", work = Idle PROVE \E g \in Gens : Holds(g)
    BY DEF IdentityWhole
  <2>1. disk.marker.state # "committing"
    BY DEF RotationInv, WorkInv, Idle, Finishing, FinishCommit, Committing
  <2> QED BY <2>1 DEF RotationInv, DiskInv
<1> QED BY <1>1, RotationInvariant, PTL

\* Control never makes a credential active that the peer does not hold with all
\* its keys (accept_replacement stages before it proves possession).
THEOREM ActiveIdentityIsHeld == Spec => []ActiveIsHeld
<1>1. RotationInv => ActiveIsHeld BY DEF RotationInv
<1> QED BY <1>1, RotationInvariant, PTL
=============================================================================
