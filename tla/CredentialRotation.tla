-------------------------- MODULE CredentialRotation --------------------------
(***************************************************************************)
(* Rotation of a peer's credential: the rotator of the Linux peer with its *)
(* four identity files, their staged siblings and the marker that is the   *)
(* journal (credential_rotation.rs, credential_rotation_files.rs,          *)
(* credential_recovery.rs); the Relay sessions that carry requests,        *)
(* replacements, activations and directories (runtime_peer.rs); and the    *)
(* rows of Control (rotation.rs), its issuer and its signed directory.     *)
(*                                                                         *)
(* A generation is one set of keys together with the credential issued for *)
(* it, its rotation ID and its serial.  Every file operation is a step of  *)
(* its own, and the process may die before any of them.  The rotator is    *)
(* used under its lock by the control loop, which is also the only one who *)
(* takes records from the control channel: while a call waits for a slot   *)
(* to take its record, the channel fills, and a worker that finds it full  *)
(* waits too and takes nothing.                                            *)
(***************************************************************************)
EXTENDS Naturals, Sequences

CONSTANTS Slots,       \* Relay slots of the peer, one Relay each
          MaxKeys,     \* bound on generations of keys, the first one included
          Budgets,     \* rotations, faults (crashes, broken sessions, failed or slow
                       \* calls) and other traffic of the control loop
          InboxBound   \* capacity of the peer's control channel

ASSUME BoundsAssumption ==
    /\ MaxKeys \in Nat \ {0} /\ InboxBound \in Nat \ {0}
    /\ Budgets \subseteq [rotations : 0..(MaxKeys - 1), faults : Nat, traffic : Nat]

VARIABLES disk,      \* identity files, their ".next" siblings and the marker
          work,      \* file operations of the running call and what follows
          peer,      \* the process: stage of its start and its rotator
          last,      \* generations of keys made so far
          session,   \* per slot the session at its Relay
          uplink,    \* records on their way to a Relay
          inbox,     \* control channel of the peer, and behind its capacity the
                     \* records of the workers that wait for a place
          control,   \* credential and request rows, published directory
          budget     \* rotations, faults and traffic left

vars == <<disk, work, peer, last, session, uplink, inbox, control, budget>>

None == 0            \* no generation
Gens == 1..MaxKeys
Keys == {"identity", "noise", "wireguard"}
Parts == Keys \cup {"credential"}

Ended == [serial |-> None, live |-> FALSE, delivered |-> None, seen |-> None]
Down == [pc |-> "down", pending |-> None, sent |-> FALSE, commit |-> None,
         published |-> None, identity |-> None]
Idle == [ops |-> <<>>, then |-> "nothing", gen |-> None]

Operation == [op : {"put", "mark", "move", "unmark"},
              part : Parts \cup {"requested", "staged", "committing", "none"},
              gen : Gens \cup {None}]

Files == [cur : [Parts -> Gens], next : [Parts -> Gens \cup {None}],
          marker : [state : {"none", "requested", "staged", "committing"},
                    id : Gens \cup {None}]]
Call == [ops : Seq(Operation), then : {"nothing", "ask", "send", "report", "activate",
                                     "commit", "stuck"},
         gen : Gens \cup {None}]
Process == [pc : {"down", "recovered", "load", "up"}, pending : Gens \cup {None},
            sent : BOOLEAN, commit : Gens \cup {None}, published : Gens \cup {None},
            identity : Gens \cup {None}]
RelaySession == [serial : Gens \cup {None}, live : BOOLEAN, delivered : Gens \cup {None},
                 seen : Gens \cup {None}]
Upward == [slot : Slots, kind : {"request", "activation"}, gen : Gens, from : Gens]
Downward == [slot : Slots, kind : {"replacement", "directory"}, gen : Gens]
            \cup [slot : Slots, kind : {"data"}, gen : {None}]
Rows == [cred : [Gens -> {"none", "staged", "active", "overlap", "revoked"}],
         status : [Gens -> {"none", "pending", "issued", "activated"}],
         by : [Gens -> Gens \cup {None}],
         directory : [active : Gens, accepted : SUBSET Gens]]

TypeOK ==
    /\ disk \in Files /\ work \in Call /\ peer \in Process /\ last \in Gens
    /\ session \in [Slots -> RelaySession]
    /\ uplink \subseteq Upward /\ inbox \in Seq(Downward)
    /\ control \in Rows
    /\ budget \in [rotations : Nat, faults : Nat, traffic : Nat]

\* A joined peer: its first credential is active and published.
Init ==
    /\ disk = [cur |-> [p \in Parts |-> 1], next |-> [p \in Parts |-> None],
               marker |-> [state |-> "none", id |-> None]]
    /\ work = Idle /\ peer = Down /\ last = 1
    /\ session = [s \in Slots |-> Ended]
    /\ uplink = {} /\ inbox = <<>>
    /\ control = [cred |-> [g \in Gens |-> IF g = 1 THEN "active" ELSE "none"],
                  status |-> [g \in Gens |-> "none"],
                  by |-> [g \in Gens |-> None],
                  directory |-> [active |-> 1, accepted |-> {1}]]
    /\ budget \in Budgets

-----------------------------------------------------------------------------
(***************************************************************************)
(* File operations.                                                        *)
(***************************************************************************)
Put(p, g) == [op |-> "put", part |-> p, gen |-> g]
Mark(state, g) == [op |-> "mark", part |-> state, gen |-> g]
Move(p) == [op |-> "move", part |-> p, gen |-> None]
Unmark == [op |-> "unmark", part |-> "none", gen |-> None]

\* request_now stages the keys before the request is journalled.
StageKeys(g) == <<Put("identity", g), Put("noise", g), Put("wireguard", g), Mark("requested", g)>>
StageIdentity(g) == <<Put("identity", g), Put("noise", g), Put("wireguard", g),
                      Put("credential", g), Mark("staged", g)>>

\* Mutant: the marker is removed before the private keys are in place.
CommitUnmarked(g) ==
    <<Mark("committing", g), Move("credential"), Unmark, Move("wireguard"), Move("noise"),
      Move("identity")>>

CommitIdentity(g) ==
    <<Mark("committing", g), Move("credential"), Move("wireguard"), Move("noise"),
      Move("identity"), Unmark>>

\* What a start finishes: the renames whose staged file is still there.
FinishCommit ==
    <<Move("credential"), Move("wireguard"), Move("noise"), Move("identity"), Unmark>>

\* The effect of one operation; each is atomic (write_private_atomic, rename).
After(d, o) ==
    CASE o.op = "put"    -> [d EXCEPT !.next = [@ EXCEPT ![o.part] = o.gen]]
      [] o.op = "mark"   -> [d EXCEPT !.marker = [state |-> o.part, id |-> o.gen]]
      [] o.op = "move"   -> IF d.next[o.part] = None THEN d
                            ELSE [d EXCEPT !.cur = [@ EXCEPT ![o.part] = d.next[o.part]],
                                           !.next = [@ EXCEPT ![o.part] = None]]
      [] o.op = "unmark" -> [d EXCEPT !.marker = [state |-> "none", id |-> None]]

FileStep ==
    /\ peer.pc # "down" /\ work.ops # <<>>
    /\ disk' = After(disk, Head(work.ops))
    /\ work' = [work EXCEPT !.ops = Tail(work.ops)]
    /\ UNCHANGED <<peer, last, session, uplink, inbox, control, budget>>

Fault == budget.faults > 0 /\ budget' = [budget EXCEPT !.faults = @ - 1]

\* The end of the process: its memory and its control channel are gone, and its
\* sessions live on at the Relays until they notice.
Dies ==
    /\ peer' = Down /\ work' = Idle /\ inbox' = <<>>
    /\ session' = [s \in Slots |-> [session[s] EXCEPT !.live = FALSE]]

\* Death by any cause, a failed file operation included.
Crash ==
    /\ peer.pc # "down" /\ Fault
    /\ Dies
    /\ UNCHANGED <<disk, last, uplink, control>>

\* A failed file operation of a request from the console is only logged.
RequestFails ==
    /\ work.ops # <<>> /\ work.then = "ask" /\ Fault
    /\ work' = Idle
    /\ UNCHANGED <<disk, peer, last, session, uplink, inbox, control>>

-----------------------------------------------------------------------------
(***************************************************************************)
(* Start of the process.                                                   *)
(***************************************************************************)
\* What recovery asks of a journal it keeps.
Complete ==
    /\ \A p \in Keys : disk.next[p] # None
    /\ disk.marker.state = "staged" => disk.next["credential"] # None

\* recover_peer_identity_files: an interrupted commit is finished, a request or a
\* staged identity is kept; an incomplete one stops the start.
Recover ==
    /\ peer.pc = "down"
    /\ disk.marker.state \in {"requested", "staged"} => Complete
    /\ peer' = [Down EXCEPT !.pc = "recovered"]
    /\ work' = IF disk.marker.state = "committing"
               THEN [Idle EXCEPT !.ops = FinishCommit] ELSE Idle
    /\ UNCHANGED <<disk, last, session, uplink, inbox, control, budget>>

\* recover_activated_peer_identity: a Relay admits the staged identity and shows
\* a directory in which it is the active one, so it is committed.
CommitStaged ==
    /\ peer.pc = "recovered" /\ work = Idle /\ disk.marker.state = "staged"
    /\ disk.marker.id \in control.directory.accepted
    /\ control.directory.active = disk.marker.id
    /\ peer' = [peer EXCEPT !.pc = "load"]
    /\ work' = [Idle EXCEPT !.ops = CommitIdentity(disk.marker.id)]
    /\ UNCHANGED <<disk, last, session, uplink, inbox, control, budget>>

\* No staged identity, no Relay within three seconds, or none that knows it.  An
\* unreadable file, a staged credential that no longer verifies or a session that
\* fails while its directory is read ends the start with an error: that is Crash.
SkipStaged ==
    /\ peer.pc = "recovered" /\ work = Idle
    /\ peer' = [peer EXCEPT !.pc = "load"]
    /\ UNCHANGED <<disk, work, last, session, uplink, inbox, control, budget>>

\* CredentialRotator::new: the identity is read, and a request or a staged identity
\* becomes the pending rotation again, not yet sent by this process.
Load ==
    /\ peer.pc = "load" /\ work = Idle
    /\ peer' = [peer EXCEPT !.pc = "up", !.identity = disk.cur["credential"],
                            !.pending = disk.marker.id]
    /\ UNCHANGED <<disk, work, last, session, uplink, inbox, control, budget>>

-----------------------------------------------------------------------------
(***************************************************************************)
(* The rotator.                                                            *)
(***************************************************************************)
Ready == peer.pc = "up" /\ work = Idle
Done(then) == peer.pc = "up" /\ work.ops = <<>> /\ work.then = then

\* The worker of a slot waits for a place in the control channel, and polls neither
\* its commands nor its identity; waiting senders are served in order.
Blocked(s) == \E i \in DOMAIN inbox : i > InboxBound /\ inbox[i].slot = s

\* The slots that can take a record; the worker of a slot without a session rejects.
Uplinks == {s \in Slots : session[s].live /\ ~Blocked(s)}

\* The control loop waits in dispatch, and the control channel with it.
Dispatching == Done("send") \/ Done("report") \/ Done("activate")

\* request_if_due at its deadline, or request_from_console at any time.
RequestNow ==
    /\ Ready /\ peer.pending = None /\ peer.commit = None /\ budget.rotations > 0
    /\ budget' = [budget EXCEPT !.rotations = @ - 1]
    /\ last' = last + 1
    /\ work' = [ops |-> StageKeys(last + 1), then |-> "ask", gen |-> last + 1]
    /\ UNCHANGED <<disk, peer, session, uplink, inbox, control>>

Requested ==
    /\ Done("ask")
    /\ peer' = [peer EXCEPT !.pending = work.gen, !.sent = FALSE]
    /\ work' = [Idle EXCEPT !.then = "send"]
    /\ UNCHANGED <<disk, last, session, uplink, inbox, control, budget>>

\* A rotation that a start has found in the journal is requested again at the next
\* check, or by a command from the console.
CheckRotation ==
    /\ Ready /\ peer.pending # None /\ ~peer.sent
    /\ work' = [Idle EXCEPT !.then = "send"]
    /\ UNCHANGED <<disk, peer, last, session, uplink, inbox, control, budget>>

\* The request goes out once per process, on any slot that answers.
SendPending(s) ==
    /\ Done("send") /\ s \in Uplinks
    /\ uplink' = uplink \cup {[slot |-> s, kind |-> "request", gen |-> peer.pending,
                               from |-> peer.identity]}
    /\ peer' = [peer EXCEPT !.sent = TRUE]
    /\ work' = Idle
    /\ UNCHANGED <<disk, last, session, inbox, control, budget>>

\* A slot takes the record but answers after two seconds, when dispatch has turned
\* to another one: the record is on its way and goes out again.
SendSlowly(s) ==
    /\ Done("send") \/ Done("activate")
    /\ s \in Uplinks /\ Fault
    /\ uplink' = uplink \cup
         {[slot |-> s, kind |-> IF work.then = "send" THEN "request" ELSE "activation",
           gen |-> peer.pending, from |-> peer.identity]}
    /\ UNCHANGED <<disk, work, peer, last, session, inbox, control>>

\* What the loop sends besides (receipts, service changes, answers to probes) waits
\* in dispatch like a rotation.
Report ==
    /\ Ready /\ budget.traffic > 0
    /\ budget' = [budget EXCEPT !.traffic = @ - 1]
    /\ work' = [Idle EXCEPT !.then = "report"]
    /\ UNCHANGED <<disk, peer, last, session, uplink, inbox, control>>

Reported ==
    /\ Done("report") /\ Uplinks # {}
    /\ work' = Idle
    /\ UNCHANGED <<disk, peer, last, session, uplink, inbox, control, budget>>

\* Every attempt leaves a command with a blocked worker.  While no slot takes the
\* record, the queue of that worker fills, and dispatch waits for a place in it: for
\* the worker, which waits for the loop.
QueueFills ==
    /\ Dispatching /\ Uplinks = {} /\ \E s \in Slots : Blocked(s)
    /\ work' = [Idle EXCEPT !.then = "stuck"]
    /\ UNCHANGED <<disk, peer, last, session, uplink, inbox, control, budget>>

\* The commit begins when the directory shows the staged serial as the active one.
Commits(g, published) ==
    IF g # None /\ published = g
    THEN [ops |-> CommitIdentity(g), then |-> "commit", gen |-> g] ELSE Idle

\* accept_replacement: the answer to the pending request is staged.
AcceptReplacement ==
    /\ Ready /\ inbox # <<>> /\ Head(inbox).kind = "replacement"
    /\ Head(inbox).gen = peer.pending
    /\ inbox' = Tail(inbox)
    /\ work' = [ops |-> StageIdentity(peer.pending), then |-> "activate",
                gen |-> peer.pending]
    /\ UNCHANGED <<disk, peer, last, session, uplink, control, budget>>

\* Any other replacement is an invalid control message, which ends the control
\* loop and with it the process.
RejectReplacement ==
    /\ Ready /\ inbox # <<>> /\ Head(inbox).kind = "replacement"
    /\ Head(inbox).gen # peer.pending
    /\ Dies
    /\ UNCHANGED <<disk, last, uplink, control, budget>>

\* Mutant: the proof goes out before the credential is on disk.
ActivateFirst(s) ==
    /\ Ready /\ inbox # <<>> /\ Head(inbox).kind = "replacement"
    /\ Head(inbox).gen = peer.pending /\ s \in Uplinks
    /\ inbox' = Tail(inbox)
    /\ uplink' = uplink \cup {[slot |-> s, kind |-> "activation", gen |-> peer.pending,
                               from |-> peer.identity]}
    /\ peer' = [peer EXCEPT !.pending = None, !.sent = FALSE, !.commit = peer.pending]
    /\ work' = [Idle EXCEPT !.ops = StageIdentity(peer.pending)]
    /\ UNCHANGED <<disk, last, session, control, budget>>

\* The new identity proves possession on a slot that answers, and the rotation waits
\* for the directory, unless it has been seen already.
Activate(s) ==
    /\ Done("activate") /\ s \in Uplinks
    /\ uplink' = uplink \cup {[slot |-> s, kind |-> "activation", gen |-> work.gen,
                               from |-> peer.identity]}
    /\ peer' = [peer EXCEPT !.pending = None, !.sent = FALSE, !.commit = work.gen]
    /\ work' = Commits(work.gen, peer.published)
    /\ UNCHANGED <<disk, last, session, inbox, control, budget>>

\* A directory that is not newer is dropped before it gets to the rotator.
InstallDirectory ==
    /\ Ready /\ inbox # <<>> /\ Head(inbox).kind = "directory"
    /\ inbox' = Tail(inbox)
    /\ IF Head(inbox).gen > peer.published
       THEN /\ peer' = [peer EXCEPT !.published = Head(inbox).gen]
            /\ work' = Commits(peer.commit, Head(inbox).gen)
       ELSE UNCHANGED <<peer, work>>
    /\ UNCHANGED <<disk, last, session, uplink, control, budget>>

\* Relayed packets go to the WireGuard runtime.
ReceivePacket ==
    /\ Ready /\ inbox # <<>> /\ Head(inbox).kind = "data"
    /\ inbox' = Tail(inbox)
    /\ UNCHANGED <<disk, work, peer, last, session, uplink, control, budget>>

Committed ==
    /\ Done("commit")
    /\ peer' = [peer EXCEPT !.identity = work.gen, !.commit = None]
    /\ work' = Idle
    /\ UNCHANGED <<disk, last, session, uplink, inbox, control, budget>>

-----------------------------------------------------------------------------
(***************************************************************************)
(* Sessions at the Relays.                                                 *)
(***************************************************************************)
On(s) == {m \in uplink : m.slot = s}
EndSession(s) ==
    /\ session' = [session EXCEPT ![s] = Ended]
    /\ uplink' = uplink \ On(s)

\* A Relay admits a serial that its signed directory accepts.
Connect(s) ==
    /\ peer.pc = "up" /\ session[s] = Ended /\ ~Blocked(s)
    /\ peer.identity \in control.directory.accepted
    /\ session' = [session EXCEPT ![s] = [Ended EXCEPT !.serial = peer.identity,
                                                       !.live = TRUE]]
    /\ UNCHANGED <<disk, work, peer, last, uplink, inbox, control, budget>>

\* The slot reconnects with the committed identity, or the Relay ends a session
\* whose serial is no longer accepted.
Replace(s) ==
    /\ session[s].live
    /\ \/ session[s].serial # peer.identity /\ ~Blocked(s)
       \/ session[s].serial \notin control.directory.accepted
    /\ EndSession(s)
    /\ UNCHANGED <<disk, work, peer, last, inbox, control, budget>>

\* The session of a process that died, once its records have been read.
NoticeDeath(s) ==
    /\ session[s] # Ended /\ ~session[s].live /\ On(s) = {}
    /\ EndSession(s)
    /\ UNCHANGED <<disk, work, peer, last, inbox, control, budget>>

\* A session breaks, and what is on its way is lost.
Break(s) ==
    /\ session[s] # Ended /\ Fault
    /\ EndSession(s)
    /\ UNCHANGED <<disk, work, peer, last, inbox, control>>

\* The worker passes a record on; beyond the capacity it has to wait.
Deliver(s, kind, g) ==
    /\ session[s].live /\ ~Blocked(s)
    /\ inbox' = Append(inbox, [slot |-> s, kind |-> kind, gen |-> g])
    /\ UNCHANGED <<disk, work, peer, last, uplink, control>>

\* The directory comes first in a session and again when it changes.
DeliverDirectory(s) ==
    /\ session[s].seen # control.directory.active
    /\ Deliver(s, "directory", control.directory.active)
    /\ session' = [session EXCEPT ![s].seen = control.directory.active]
    /\ UNCHANGED budget

\* Mutant: only replacements that wait for their activation.
IssuedWaiting(serial) ==
    LET gs == {g \in Gens : control.by[g] = serial /\ control.status[g] = "issued"}
    IN  IF gs = {} THEN None ELSE CHOOSE g \in gs : \A h \in gs : g <= h

\* issued_peer_rotation: the oldest replacement for the serial of the session.
Issued(serial) ==
    LET gs == {g \in Gens : control.by[g] = serial
                            /\ control.status[g] \in {"issued", "activated"}}
    IN  IF gs = {} THEN None ELSE CHOOSE g \in gs : \A h \in gs : g <= h

\* Every session delivers it once.
DeliverReplacement(s) ==
    /\ session[s].seen # None /\ Issued(session[s].serial) \notin {None, session[s].delivered}
    /\ Deliver(s, "replacement", Issued(session[s].serial))
    /\ session' = [session EXCEPT ![s].delivered = Issued(session[s].serial)]
    /\ UNCHANGED budget

\* Packets of other peers that the Relay forwards share the control channel.
Traffic(s) ==
    /\ session[s].seen # None /\ budget.traffic > 0
    /\ Deliver(s, "data", None)
    /\ budget' = [budget EXCEPT !.traffic = @ - 1]
    /\ UNCHANGED session

-----------------------------------------------------------------------------
(***************************************************************************)
(* Control: transactions on the rows, called by the Relay, and the         *)
(* publisher.                                                              *)
(***************************************************************************)
Usable(g) == control.cred[g] \in {"active", "overlap"}

\* request_peer_rotation accepts a new request and an exact repetition.  A request
\* ID is never used for other keys, and the peer stays enabled: the two refusals of
\* rotation.rs that rest on them do not occur.
Requestable(m) ==
    /\ m.from = session[m.slot].serial /\ Usable(m.from)
    /\ control.status[m.gen] = "none" \/ control.by[m.gen] = m.from

ReceiveRequest(m) ==
    /\ m.kind = "request" /\ Requestable(m)
    /\ uplink' = uplink \ {m}
    /\ control' = IF control.status[m.gen] = "none"
                  THEN [control EXCEPT !.status = [@ EXCEPT ![m.gen] = "pending"],
                                       !.by = [@ EXCEPT ![m.gen] = m.from]]
                  ELSE control
    /\ UNCHANGED <<disk, work, peer, last, session, inbox, budget>>

\* A conflict ends the session.
RefuseRequest(m) ==
    /\ m.kind = "request" /\ ~Requestable(m)
    /\ EndSession(m.slot)
    /\ UNCHANGED <<disk, work, peer, last, inbox, control, budget>>

\* The database fails: the Relay logs it and goes on without the request.
LoseRequest(m) ==
    /\ m.kind = "request" /\ Fault
    /\ uplink' = uplink \ {m}
    /\ UNCHANGED <<disk, work, peer, last, session, inbox, control>>

\* The rows after an activation: one previous generation is kept.
Activated(cred, g) ==
    [h \in Gens |-> IF h = g THEN "active"
                   ELSE IF cred[h] = "active" THEN "overlap"
                   ELSE IF cred[h] = "overlap" THEN "revoked" ELSE cred[h]]

\* activate_peer_rotation; a repetition of an activation changes nothing.
ReceiveActivation(m) ==
    /\ m.kind = "activation" /\ control.status[m.gen] \in {"issued", "activated"}
    /\ uplink' = uplink \ {m}
    /\ control' = IF control.status[m.gen] = "issued"
                  THEN [control EXCEPT !.status = [@ EXCEPT ![m.gen] = "activated"],
                                       !.cred = Activated(control.cred, m.gen)]
                  ELSE control
    /\ UNCHANGED <<disk, work, peer, last, session, inbox, budget>>

\* Every pending request gets a staged credential.
IssueRotations ==
    LET pending == {g \in Gens : control.status[g] = "pending"} IN
    /\ pending # {}
    /\ control' = [control EXCEPT
         !.status = [g \in Gens |-> IF g \in pending THEN "issued" ELSE control.status[g]],
         !.cred = [g \in Gens |-> IF g \in pending THEN "staged" ELSE control.cred[g]]]
    /\ UNCHANGED <<disk, work, peer, last, session, uplink, inbox, budget>>

Directory ==
    [active |-> CHOOSE g \in Gens : control.cred[g] = "active",
     accepted |-> {g \in Gens : Usable(g)}]

Publish ==
    /\ control.directory # Directory
    /\ control' = [control EXCEPT !.directory = Directory]
    /\ UNCHANGED <<disk, work, peer, last, session, uplink, inbox, budget>>

\* The overlap of the previous credential ends.
OverlapLapses(g) ==
    /\ control.cred[g] = "overlap"
    /\ control' = [control EXCEPT !.cred = [@ EXCEPT ![g] = "revoked"]]
    /\ UNCHANGED <<disk, work, peer, last, session, uplink, inbox, budget>>

-----------------------------------------------------------------------------
Start == Recover \/ CommitStaged \/ SkipStaged \/ Load

Rotator ==
    \/ FileStep \/ Requested \/ CheckRotation \/ AcceptReplacement \/ RejectReplacement
    \/ InstallDirectory \/ ReceivePacket \/ Committed \/ Reported \/ QueueFills
    \/ \E s \in Slots : SendPending(s) \/ Activate(s)

Relay(s) ==
    \/ Connect(s) \/ Replace(s) \/ NoticeDeath(s)
    \/ DeliverDirectory(s) \/ DeliverReplacement(s)

Receive(m) == ReceiveRequest(m) \/ RefuseRequest(m) \/ ReceiveActivation(m)

Publisher == IssueRotations \/ Publish

Next ==
    \/ Start \/ Rotator \/ RequestNow \/ Report
    \/ \E s \in Slots : Relay(s) \/ Break(s) \/ Traffic(s) \/ SendSlowly(s)
    \/ \E m \in uplink : Receive(m) \/ LoseRequest(m)
    \/ Publisher \/ \E g \in Gens : OverlapLapses(g)
    \/ Crash \/ RequestFails

Spec == Init /\ [][Next]_vars

(***************************************************************************)
(* The service manager restarts the peer, the rotator and the sessions run *)
(* on timers, and the publisher has its interval.  Requests, faults and    *)
(* deadlines are not promised.                                             *)
(***************************************************************************)
FairSpec ==
    /\ Spec
    /\ WF_vars(Start) /\ WF_vars(Rotator) /\ WF_vars(Publisher)
    /\ \A s \in Slots : WF_vars(Relay(s)) /\ WF_vars(\E m \in On(s) : Receive(m))

-----------------------------------------------------------------------------
Holds(g) == \A p \in Parts : disk.cur[p] = g

\* Wherever the process died among the four renames of a commit
\* (credential_rotation_files.rs), of the running rotator or of a start, the next
\* start reads four files of one generation.
IdentityWhole == peer.pc = "load" /\ work = Idle => \E g \in Gens : Holds(g)

\* The credential that Control has made active is on the peer's disk with all its
\* keys, in place or staged under a marker that keeps it there: no crash, loss or
\* repetition makes Control depend on an identity the peer cannot present.
ActiveIsHeld ==
    \A g \in Gens : control.cred[g] = "active" =>
      \A p \in Parts :
        \/ disk.cur[p] = g
        \/ /\ disk.next[p] = g /\ disk.marker.id = g
           /\ disk.marker.state \in {"staged", "committing"}

\* The running process still presents an identity that is no longer accepted:
\* only a start tries the staged one.
Stranded == peer.pc = "up" /\ peer.identity # None /\ ~Usable(peer.identity)

\* The control loop waits in dispatch (relay_pool.rs) for a worker that waits for
\* the loop to take a record from the full control channel (relay_pool_worker.rs):
\* only the end of the process helps.
Jammed == work.then = "stuck"

\* No rotation that Control has recorded is open: its identity is in place, or a
\* later one.
Settled == \A g \in Gens : control.status[g] # "none" => \E h \in g..MaxKeys : Holds(h)

\* Again and again every rotation whose request Control has recorded has ended with
\* the new identity in place, or with a later one, although processes die, sessions
\* break, records go out twice and every slot delivers the replacement, unless the
\* overlap ends under a process that still runs with the old identity, or the
\* control channel fills while the loop waits for a slot and none takes the record.
RotationCompletes == []<>(Settled \/ Stranded \/ Jammed)
=============================================================================
