---------------------------- MODULE ControlProofs ----------------------------
(***************************************************************************)
(* Signed state of a Mesh for every number of Authorities, devices,        *)
(* Relays, services and Control instances, and any number of transactions, *)
(* lapses and aborted passes: what is stored at the current revision of a  *)
(* kind is the projection of the rows, a configuration fits together and   *)
(* never reuses a version, and a stopped device stays out.                 *)
(***************************************************************************)
EXTENDS ControlState, FiniteSetTheorems, TLAPS

-----------------------------------------------------------------------------
(* How the rows of a Mesh may change from r to s: what a kind shows stays  *)
(* the same while its revision does.                                       *)

\* The two row sets look alike in a kind, whatever the time.
SameView(kind, r, s) ==
    \A c \in Clocks : UpToDeleted(kind, s, Projection(kind, r, c), Projection(kind, s, c))

\* No revision goes back, and whatever moves the Authorities moves the directory.
RevisionsGrow(r, s) ==
    /\ \A k \in Revisions : r.rev[k] <= s.rev[k]
    /\ r.rev["directory"] = s.rev["directory"] => r.rev["authority"] = s.rev["authority"]

\* A serial is used once, a row keeps its issuer, a deleted row is not restored,
\* and only a new Peer gets addresses.
RowsAge(r, s) ==
    /\ \A x \in Serials : /\ r.life[x] # "none" => s.life[x] # "none"
                          /\ r.life[x] = "gone" => s.life[x] = "gone"
    /\ \A x \in Subjects : r.life[x] # "none" => s.issuer[x] = r.issuer[x]
    /\ \A p \in Peers : /\ s.addressed[p] => r.addressed[p] \/ r.peer[p] = "none"
                        /\ r.peer[p] # "none" => s.peer[p] # "none"

Evolves(r, s) ==
    /\ RevisionsGrow(r, s) /\ RowsAge(r, s)
    /\ \A kind \in Kinds :
         r.rev[RevisionOf(kind)] = s.rev[RevisionOf(kind)] => SameView(kind, r, s)

\* Conditions on the rows alone that keep the view of a kind.  A row may change
\* between lifecycles that nothing shows, or be deleted once it is revoked.
Unseen == {"none", "staged", "gone"}

LifeKept(r, s, x) ==
    \/ s.life[x] = r.life[x]
    \/ r.life[x] \in Unseen /\ s.life[x] \in Unseen
    \/ r.life[x] = "revoked" /\ s.life[x] = "gone"

CredentialKept(r, s, x) ==
    /\ LifeKept(r, s, x)
    /\ r.life[x] \in {"active", "overlap"} => s.issuer[x] = r.issuer[x]

AuthoritiesKept(r, s) == \A a \in Authorities : LifeKept(r, s, a)

PeersKept(r, s) ==
    /\ AuthoritiesKept(r, s) /\ \A x \in PeerSerials : CredentialKept(r, s, x)
    /\ s.peer = r.peer /\ s.addressed = r.addressed

RelaysKept(r, s) ==
    /\ AuthoritiesKept(r, s) /\ \A x \in RelaySerials : CredentialKept(r, s, x)
    /\ s.relay = r.relay /\ s.suspended = r.suspended

\* A Peer that offers nothing, or has no address, shows in no service.
ProviderKept(r, s, p) ==
    \/ \A v \in Services : ProviderOf[v] = p => r.service[v] # "enabled"
    \/ ~r.addressed[p] /\ ~s.addressed[p]
    \/ /\ s.peer[p] = r.peer[p] /\ s.addressed[p] = r.addressed[p]
       /\ \A x \in CredentialsOf(p) : CredentialKept(r, s, x)

ServicesKept(r, s) ==
    /\ AuthoritiesKept(r, s) /\ \A p \in Peers : ProviderKept(r, s, p)
    /\ s.service = r.service /\ s.paused = r.paused

Revoked(r, x) ==
    \/ r.life[x] = "revoked"
    \/ x \in Subjects /\ r.life[x] \notin {"none", "gone"} /\ r.life[r.issuer[x]] = "revoked"

RevocationsKept(r, s) ==
    \A x \in Serials : /\ Revoked(s, x) => Revoked(r, x)
                       /\ Revoked(r, x) => Revoked(s, x) \/ s.life[x] = "gone"

\* What a transaction shows it has moved.
Kept(r, s) ==
    /\ r.rev["authority"] = s.rev["authority"] => AuthoritiesKept(r, s)
    /\ r.rev["directory"] = s.rev["directory"] => PeersKept(r, s)
    /\ r.rev["relay"] = s.rev["relay"] => RelaysKept(r, s)
    /\ r.rev["policy"] = s.rev["policy"] => s.policy = r.policy
    /\ r.rev["service"] = s.rev["service"] => ServicesKept(r, s)
    /\ r.rev["revocation"] = s.rev["revocation"] => RevocationsKept(r, s)

-----------------------------------------------------------------------------
(* The inductive invariant, in parts.                                      *)

\* Only an enabled Peer has addresses, and one that never was offers nothing.
RowsInv(r) ==
    /\ \A p \in Peers : r.peer[p] # "enabled" => ~r.addressed[p]
    /\ \A v \in Services : r.peer[ProviderOf[v]] = "none" => r.service[v] # "enabled"

\* A deadline of an overlap is one of the present overlap.
OverdueInv == \A x \in clock.overdue : db.life[x] = "overlap"

\* Nothing is stored ahead of the rows.
StoredInv ==
    \A kind \in Kinds : \A n \in DOMAIN signed[kind] : n <= db.rev[RevisionOf(kind)]

\* The directory is signed no earlier than the bundle of Authorities it goes with.
Shows(kind, c) ==
    LET n == db.rev[RevisionOf(kind)]
    IN  n \in DOMAIN signed[kind] /\ UpToDeleted(kind, db, signed[kind][n], Projection(kind, db, c))

BundleInv ==
    db.rev["directory"] \in DOMAIN signed["peers"] =>
        \E c, d \in EarlierClocks :
            /\ d.expired \subseteq c.expired /\ d.overdue \subseteq c.overdue
            /\ Shows("peers", c) /\ Shows("authorities", d)

\* A pass works on earlier rows, and what it took for stored is, if it is current.
PassInv ==
    \A k \in Controls :
        /\ \A r \in pub[k].rows : Evolves(r, db)
        /\ \A t \in pub[k].stored : \A kind \in Kinds : \A m \in t[kind] :
             /\ m <= db.rev[RevisionOf(kind)]
             /\ m = db.rev[RevisionOf(kind)] => m \in DOMAIN signed[kind]

\* The newest configuration: its versions are not ahead of the rows, a current
\* version has the stored bytes, and its bindings are those of used serials.
ConfigInv ==
    /\ \A c, d \in config : c = d
    /\ \A c \in config :
         /\ DOMAIN c = ConfigurationKinds \cup {"resources"}
         /\ c["resources"] = Component(c["resources"].version, c["resources"].bytes)
         /\ c["resources"].version \in Nat /\ c["resources"].version <= db.rev["management"]
         /\ \A kind \in ConfigurationKinds :
              LET n == db.rev[RevisionOf(kind)]
              IN  /\ c[kind].version \in Nat /\ c[kind].version <= n
                  /\ c[kind].version = n =>
                       n \in DOMAIN signed[kind] /\ c[kind] = Component(n, signed[kind][n])
         /\ \A p \in DOMAIN c["peers"].bytes : \A x \in c["peers"].bytes[p] :
              x \in PeerSerials /\ db.life[x] # "none"

ControlInv ==
    /\ TypeOK /\ RowsInv(db) /\ OverdueInv /\ StoredInv
    /\ NoStaleProjection /\ BundleInv /\ PassInv
    /\ ConfigInv /\ ConfigurationConsistent

\* What every transaction does to the rows.
Steps(r, s) ==
    /\ s \in MeshRows /\ RowsInv(s)
    /\ RevisionsGrow(r, s) /\ RowsAge(r, s) /\ Kept(r, s)

\* Deadlines pass, and an overlap that ends takes its deadline with it.
ClockMoves ==
    /\ clock' \in Clocks /\ clock.expired \subseteq clock'.expired
    /\ \A x \in clock.overdue : x \in clock'.overdue \/ db'.life[x] # "overlap"
    /\ OverdueInv'

\* A step that changes rows or passes and signs nothing, nor a configuration.
RowsMove ==
    /\ TypeOK' /\ Steps(db, db') /\ ClockMoves
    /\ UNCHANGED signed
    /\ \A k \in Controls : /\ pub'[k].rows \subseteq pub[k].rows
                           /\ pub'[k].stored \subseteq pub[k].stored

Moves == RowsMove /\ UNCHANGED config

-----------------------------------------------------------------------------
(* Rows that are kept look the same.                                       *)

\* What each kind projects: the cases of Projection.
LEMMA ProjectionByKind ==
    ASSUME NEW r, NEW c
    PROVE  /\ Projection("authorities", r, c) = AuthoritiesBody(r, c)
           /\ Projection("peers", r, c) = PeersBody(r, c)
           /\ Projection("relays", r, c) = RelaysBody(r, c)
           /\ Projection("policy", r, c) = r.policy
           /\ Projection("services", r, c) = ServicesBody(r, c)
           /\ Projection("revocations", r, c) = RevocationsBody(r)
BY DEF Projection

\* Which bodies match a projection: the cases of UpToDeleted.
LEMMA MatchByKind ==
    ASSUME NEW s, NEW body, NEW projection
    PROVE  /\ \A kind \in {"peers", "relays", "policy", "services"} :
                UpToDeleted(kind, s, body, projection) <=> body = projection
           /\ UpToDeleted("revocations", s, body, projection) <=>
                /\ projection \subseteq body
                /\ \A x \in body : x \in projection \/ (x \in Serials /\ s.life[x] = "gone")
           /\ UpToDeleted("authorities", s, body, projection) <=>
                /\ projection.trusted = body.trusted
                /\ projection.revoked \subseteq body.revoked
                /\ \A x \in body.revoked :
                      x \in projection.revoked \/ (x \in Serials /\ s.life[x] = "gone")
BY DEF UpToDeleted

\* The revision column of each kind.
LEMMA ColumnsByKind ==
    /\ RevisionOf("authorities") = "authority" /\ RevisionOf("peers") = "directory"
    /\ RevisionOf("relays") = "relay" /\ RevisionOf("policy") = "policy"
    /\ RevisionOf("services") = "service" /\ RevisionOf("revocations") = "revocation"
    /\ \A kind \in Kinds : RevisionOf(kind) \in Revisions
BY DEF RevisionOf, Kinds, Revisions

\* A kept row is accepted when it was: Accepted of publish_mesh_state's queries.
LEMMA KeptAccepted ==
    ASSUME NEW r, NEW s, NEW c, NEW x, LifeKept(r, s, x)
    PROVE  /\ Accepted(s, c, x) <=> Accepted(r, c, x)
           /\ s.life[x] = "active" <=> r.life[x] = "active"
BY DEF LifeKept, Unseen, Accepted

\* An active credential stays active under the same issuer.
LEMMA KeptActive ==
    ASSUME NEW r \in MeshRows, NEW s \in MeshRows, NEW c, NEW x \in Subjects,
           AuthoritiesKept(r, s), CredentialKept(r, s, x)
    PROVE  /\ ActiveSubject(s, c, x) <=> ActiveSubject(r, c, x)
           /\ Accepted(s, c, x) <=> Accepted(r, c, x)
           /\ Accepted(r, c, x) =>
                /\ s.issuer[x] = r.issuer[x]
                /\ Accepted(s, c, r.issuer[x]) <=> Accepted(r, c, r.issuer[x])
<1>1. r.issuer[x] \in Authorities
  BY DEF MeshRows
<1>2. Accepted(r, c, x) => r.life[x] \in {"active", "overlap"}
  BY DEF Accepted
<1>3. Accepted(s, c, r.issuer[x]) <=> Accepted(r, c, r.issuer[x])
  BY <1>1, KeptAccepted DEF AuthoritiesKept
<1>4. /\ Accepted(s, c, x) <=> Accepted(r, c, x)
      /\ s.life[x] = "active" <=> r.life[x] = "active"
  BY KeptAccepted DEF CredentialKept
<1>5. Accepted(r, c, x) => s.issuer[x] = r.issuer[x]
  BY <1>2 DEF CredentialKept
<1>6. r.life[x] = "active" => Accepted(r, c, x)
  BY DEF Accepted
<1>7. QED
  BY <1>3, <1>4, <1>5, <1>6 DEF ActiveSubject

\* The bundle of Authorities shows the accepted and the revoked ones.
LEMMA AuthoritiesView ==
    ASSUME NEW r \in MeshRows, NEW s \in MeshRows, AuthoritiesKept(r, s)
    PROVE  SameView("authorities", r, s)
<1> SUFFICES ASSUME NEW c \in Clocks
             PROVE  UpToDeleted("authorities", s, Projection("authorities", r, c),
                                Projection("authorities", s, c))
  BY DEF SameView
<1> DEFINE br == AuthoritiesBody(r, c)
           bs == AuthoritiesBody(s, c)
<1>1. \A a \in Authorities : Accepted(s, c, a) <=> Accepted(r, c, a)
  BY KeptAccepted DEF AuthoritiesKept
<1>2. bs.trusted = br.trusted
  BY <1>1 DEF AuthoritiesBody
<1>3. /\ br.revoked = {a \in Authorities : r.life[a] = "revoked"}
      /\ bs.revoked = {a \in Authorities : s.life[a] = "revoked"}
  BY DEF AuthoritiesBody
<1>4. /\ bs.revoked \subseteq br.revoked
      /\ \A a \in br.revoked : a \in bs.revoked \/ (a \in Serials /\ s.life[a] = "gone")
  BY <1>3 DEF AuthoritiesKept, LifeKept, Unseen, Serials
<1>5. QED
  BY <1>2, <1>4, ProjectionByKind, MatchByKind

\* The directory shows the bindings of enabled and addressed Peers.
LEMMA PeersView ==
    ASSUME NEW r \in MeshRows, NEW s \in MeshRows, PeersKept(r, s)
    PROVE  SameView("peers", r, s)
<1> SUFFICES ASSUME NEW c \in Clocks PROVE PeersBody(r, c) = PeersBody(s, c)
  BY ProjectionByKind, MatchByKind DEF SameView
<1>1. \A x \in PeerSerials :
        /\ ActiveSubject(s, c, x) <=> ActiveSubject(r, c, x)
        /\ Accepted(s, c, x) <=> Accepted(r, c, x)
        /\ Accepted(r, c, x) =>
             /\ s.issuer[x] = r.issuer[x]
             /\ Accepted(s, c, r.issuer[x]) <=> Accepted(r, c, r.issuer[x])
  BY KeptActive DEF PeersKept, Subjects
<1>2. ListedPeers(r, c) = ListedPeers(s, c)
  BY <1>1 DEF ListedPeers, PeersKept
<1>3. \A p : PeerBindings(r, c, p) = PeerBindings(s, c, p)
  BY <1>1 DEF PeerBindings
<1>4. QED
  BY <1>2, <1>3 DEF PeersBody

\* The Relay directory shows the active credentials of enabled Relays.
LEMMA RelaysView ==
    ASSUME NEW r \in MeshRows, NEW s \in MeshRows, RelaysKept(r, s)
    PROVE  SameView("relays", r, s)
<1>1. \A c \in Clocks : \A x \in RelaySerials : ActiveSubject(s, c, x) <=> ActiveSubject(r, c, x)
  BY KeptActive DEF RelaysKept, Subjects
<1>2. \A c \in Clocks : RelaysBody(r, c) = RelaysBody(s, c)
  BY <1>1 DEF RelaysBody, RelaysKept
<1>3. QED
  BY <1>2, ProjectionByKind, MatchByKind DEF SameView

\* Services show the active credentials of enabled, addressed providers.
LEMMA ServicesView ==
    ASSUME NEW r \in MeshRows, NEW s \in MeshRows, ServicesKept(r, s)
    PROVE  SameView("services", r, s)
<1> SUFFICES ASSUME NEW c \in Clocks PROVE ServicesBody(r, c) = ServicesBody(s, c)
  BY ProjectionByKind, MatchByKind DEF SameView
<1>1. ASSUME NEW v \in Services, NEW x \in PeerSerials
      PROVE  Reachable(r, c, v, x) <=> Reachable(s, c, v, x)
  <2> DEFINE p == ProviderOf[v]
  <2>1. p \in Peers
    BY InstallationAssumption
  <2>2. CASE \A w \in Services : ProviderOf[w] = p => r.service[w] # "enabled"
    BY <2>2 DEF ServicesKept, Reachable
  <2>3. CASE ~r.addressed[p] /\ ~s.addressed[p]
    BY <2>3 DEF Reachable
  <2>4. CASE /\ s.peer[p] = r.peer[p] /\ s.addressed[p] = r.addressed[p]
             /\ \A y \in CredentialsOf(p) : CredentialKept(r, s, y)
    <3>1. PeerOf[x] = p => (ActiveSubject(s, c, x) <=> ActiveSubject(r, c, x))
      BY <2>4, KeptActive DEF ServicesKept, CredentialsOf, Subjects
    <3>2. QED
      BY <2>4, <3>1 DEF ServicesKept, Reachable
  <2>5. QED
    BY <2>1, <2>2, <2>3, <2>4 DEF ServicesKept, ProviderKept
<1>2. \A o \in Services \X PeerSerials : Reachable(r, c, o[1], o[2]) <=> Reachable(s, c, o[1], o[2])
  BY <1>1
<1>3. QED
  BY <1>2 DEF ServicesBody

\* The revocation list shows revoked rows and the rows of revoked Authorities.
LEMMA RevocationsView ==
    ASSUME NEW r \in MeshRows, NEW s \in MeshRows, RevocationsKept(r, s)
    PROVE  SameView("revocations", r, s)
<1>1. /\ RevocationsBody(r) = {x \in Serials : Revoked(r, x)}
      /\ RevocationsBody(s) = {x \in Serials : Revoked(s, x)}
  BY DEF RevocationsBody, Revoked
<1>2. /\ RevocationsBody(s) \subseteq RevocationsBody(r)
      /\ \A x \in RevocationsBody(r) :
            x \in RevocationsBody(s) \/ (x \in Serials /\ s.life[x] = "gone")
  BY <1>1 DEF RevocationsKept
<1>3. QED
  BY <1>2, ProjectionByKind, MatchByKind DEF SameView

\* Rows that keep what their unmoved revisions stand for evolve.
LEMMA KeptEvolves ==
    ASSUME NEW r \in MeshRows, NEW s \in MeshRows,
           Kept(r, s), RevisionsGrow(r, s), RowsAge(r, s)
    PROVE  Evolves(r, s)
<1>1. s.policy = r.policy => SameView("policy", r, s)
  BY ProjectionByKind, MatchByKind DEF SameView
<1>2. ASSUME NEW kind \in Kinds, r.rev[RevisionOf(kind)] = s.rev[RevisionOf(kind)]
      PROVE  SameView(kind, r, s)
  BY <1>1, <1>2, ColumnsByKind, AuthoritiesView, PeersView, RelaysView, ServicesView,
     RevocationsView DEF Kept, Kinds
<1>3. QED
  BY <1>2 DEF Evolves

\* A view that holds for two steps holds for both: deleted rows stay deleted.
LEMMA ViewsCompose ==
    ASSUME NEW kind \in Kinds, NEW s, NEW t, NEW body, NEW between, NEW projection,
           \A x \in Serials : s.life[x] = "gone" => t.life[x] = "gone",
           UpToDeleted(kind, s, body, between), UpToDeleted(kind, t, between, projection)
    PROVE  UpToDeleted(kind, t, body, projection)
<1>1. CASE kind = "revocations"
  BY <1>1, ProjectionByKind, MatchByKind
<1>2. CASE kind = "authorities"
  BY <1>2, ProjectionByKind, MatchByKind
<1>3. CASE kind \in {"peers", "relays", "policy", "services"}
  BY <1>3, ProjectionByKind, MatchByKind
<1>4. QED
  BY <1>1, <1>2, <1>3 DEF Kinds

\* Evolution is reflexive.
LEMMA EvolvesReflexive ==
    ASSUME NEW r \in MeshRows
    PROVE  Evolves(r, r)
<1>1. Kept(r, r)
  BY DEF Kept, AuthoritiesKept, PeersKept, RelaysKept, ServicesKept, RevocationsKept,
         ProviderKept, CredentialKept, LifeKept
<1>2. RevisionsGrow(r, r)
  BY DEF RevisionsGrow, MeshRows
<1>3. RowsAge(r, r)
  BY DEF RowsAge
<1>4. QED
  BY <1>1, <1>2, <1>3, KeptEvolves

\* Evolution is transitive.
LEMMA EvolvesTransitive ==
    ASSUME NEW r \in MeshRows, NEW s \in MeshRows, NEW t \in MeshRows,
           Evolves(r, s), Evolves(s, t)
    PROVE  Evolves(r, t)
<1>1. \A k \in Revisions : r.rev[k] \in Nat /\ s.rev[k] \in Nat /\ t.rev[k] \in Nat
  BY DEF MeshRows
<1>2. RevisionsGrow(r, s) /\ RevisionsGrow(s, t)
  BY DEF Evolves
<1>3. \A k \in Revisions : r.rev[k] = t.rev[k] => r.rev[k] = s.rev[k] /\ s.rev[k] = t.rev[k]
  BY <1>1, <1>2 DEF RevisionsGrow
<1>4. \A k \in Revisions : r.rev[k] <= t.rev[k]
  BY <1>1, <1>2 DEF RevisionsGrow
<1>5. RevisionsGrow(r, t)
  <2>1. "directory" \in Revisions /\ "authority" \in Revisions
    BY DEF Revisions
  <2>2. QED
    BY <1>1, <1>2, <1>3, <1>4, <2>1 DEF RevisionsGrow
<1>6. RowsAge(r, s) /\ RowsAge(s, t)
  BY DEF Evolves
<1>7. RowsAge(r, t)
  <2>1. /\ \A x \in Serials : /\ r.life[x] # "none" => t.life[x] # "none"
                              /\ r.life[x] = "gone" => t.life[x] = "gone"
        /\ \A x \in Subjects : r.life[x] # "none" => t.issuer[x] = r.issuer[x]
    BY <1>6 DEF RowsAge, Serials
  <2>2. \A p \in Peers : /\ t.addressed[p] => r.addressed[p] \/ r.peer[p] = "none"
                         /\ r.peer[p] # "none" => t.peer[p] # "none"
    BY <1>6 DEF RowsAge
  <2>3. QED
    BY <2>1, <2>2 DEF RowsAge
<1>8. ASSUME NEW kind \in Kinds, r.rev[RevisionOf(kind)] = t.rev[RevisionOf(kind)]
      PROVE  SameView(kind, r, t)
  <2>1. RevisionOf(kind) \in Revisions
    BY ColumnsByKind
  <2>2. SameView(kind, r, s) /\ SameView(kind, s, t)
    BY <1>3, <1>8, <2>1 DEF Evolves
  <2>3. \A x \in Serials : s.life[x] = "gone" => t.life[x] = "gone"
    BY <1>6 DEF RowsAge
  <2>4. QED
    BY <2>2, <2>3, ViewsCompose DEF SameView
<1>9. QED
  BY <1>5, <1>7, <1>8 DEF Evolves

-----------------------------------------------------------------------------
(* Ways of changing the rows that move the revisions they must.            *)

\* Revisions that move n times, on rows b that have the revisions of r: the
\* other fields are those of b.
LEMMA RaiseFields ==
    ASSUME NEW r, NEW b \in MeshRows, b.rev = r.rev, NEW columns, NEW n \in Nat,
           "authority" \in columns => "directory" \in columns
    PROVE  LET s == Raise(b, columns, n)
           IN  /\ s \in MeshRows /\ RevisionsGrow(r, s)
               /\ n # 0 => \A k \in Revisions : k \in columns => s.rev[k] # r.rev[k]
               /\ s.life = b.life /\ s.issuer = b.issuer
               /\ s.peer = b.peer /\ s.addressed = b.addressed
               /\ s.relay = b.relay /\ s.suspended = b.suspended
               /\ s.service = b.service /\ s.paused = b.paused
               /\ s.policy = b.policy
<1> DEFINE rev == [k \in Revisions |-> b.rev[k] + IF k \in columns THEN n ELSE 0]
           s == Raise(b, columns, n)
<1>1. rev \in [Revisions -> Nat]
  BY DEF MeshRows
<1>2. s = [b EXCEPT !.rev = rev]
  BY DEF Raise
<1>3. /\ s.life = b.life /\ s.issuer = b.issuer
      /\ s.peer = b.peer /\ s.addressed = b.addressed
      /\ s.relay = b.relay /\ s.suspended = b.suspended
      /\ s.service = b.service /\ s.paused = b.paused
      /\ s.policy = b.policy /\ s.rev = rev
  BY <1>2 DEF MeshRows
<1>4. s \in MeshRows
  BY <1>1, <1>2 DEF MeshRows
<1>5. \A k \in Revisions : b.rev[k] \in Nat /\ r.rev[k] = b.rev[k]
  BY DEF MeshRows
<1>6. \A k \in Revisions : s.rev[k] = r.rev[k] + IF k \in columns THEN n ELSE 0
  BY <1>3, <1>5
<1> HIDE DEF s
<1>7. RevisionsGrow(r, s)
  BY <1>5, <1>6 DEF RevisionsGrow, Revisions
<1>8. n # 0 => \A k \in Revisions : k \in columns => s.rev[k] # r.rev[k]
  BY <1>5, <1>6
<1>9. QED
  BY <1>3, <1>4, <1>7, <1>8 DEF s

\* The same when the revisions move once.
LEMMA BumpFields ==
    ASSUME NEW r, NEW b \in MeshRows, b.rev = r.rev, NEW columns,
           "authority" \in columns => "directory" \in columns
    PROVE  LET s == Bump(b, columns)
           IN  /\ s \in MeshRows /\ RevisionsGrow(r, s)
               /\ \A k \in Revisions : k \in columns => s.rev[k] # r.rev[k]
               /\ s.life = b.life /\ s.issuer = b.issuer
               /\ s.peer = b.peer /\ s.addressed = b.addressed
               /\ s.relay = b.relay /\ s.suspended = b.suspended
               /\ s.service = b.service /\ s.paused = b.paused
               /\ s.policy = b.policy
BY RaiseFields DEF Bump

\* Lifecycles that are written.
LEMMA SetFields ==
    ASSUME NEW r \in MeshRows, NEW xs, NEW lifecycle \in Lifecycles
    PROVE  LET s == Set(r, xs, lifecycle)
           IN  /\ s \in MeshRows
               /\ \A x \in Serials : s.life[x] = IF x \in xs THEN lifecycle ELSE r.life[x]
               /\ s.issuer = r.issuer /\ s.rotation = r.rotation
               /\ s.peer = r.peer /\ s.addressed = r.addressed
               /\ s.relay = r.relay /\ s.suspended = r.suspended
               /\ s.service = r.service /\ s.paused = r.paused
               /\ s.policy = r.policy /\ s.rev = r.rev
<1>1. [x \in Serials |-> IF x \in xs THEN lifecycle ELSE r.life[x]] \in [Serials -> Lifecycles]
  BY DEF MeshRows
<1>2. QED
  BY <1>1 DEF Set, MeshRows

\* The subjects and the serials.
LEMMA SerialFacts ==
    /\ \A x \in PeerSerials : x \in Subjects /\ x \in Serials /\ x \notin Authorities
                              /\ x \notin RelaySerials
    /\ \A x \in RelaySerials : x \in Subjects /\ x \in Serials /\ x \notin Authorities
                               /\ x \notin PeerSerials
    /\ \A a \in Authorities : a \in Serials /\ a \notin Subjects
    /\ \A x \in Subjects : x \in PeerSerials \/ x \in RelaySerials
    /\ \A x \in Serials : x \in Authorities \/ x \in PeerSerials \/ x \in RelaySerials
BY InstallationAssumption DEF Serials, Subjects

\* No credential changes: Peers, Relays, services and policy move the revision
\* of the kind that shows them.
LEMMA AdministrationSteps ==
    ASSUME NEW r \in MeshRows, NEW s \in MeshRows, RowsInv(r), RowsInv(s),
           RevisionsGrow(r, s), s.life = r.life, s.issuer = r.issuer,
           \A p \in Peers : /\ s.addressed[p] => r.addressed[p] \/ r.peer[p] = "none"
                            /\ r.peer[p] # "none" => s.peer[p] # "none",
           s.rev["directory"] # r.rev["directory"]
             \/ (s.peer = r.peer /\ s.addressed = r.addressed),
           s.rev["relay"] # r.rev["relay"] \/ (s.relay = r.relay /\ s.suspended = r.suspended),
           s.rev["policy"] # r.rev["policy"] \/ s.policy = r.policy,
           \/ s.rev["service"] # r.rev["service"]
           \/ /\ s.service = r.service /\ s.paused = r.paused
              /\ \A p \in Peers : ProviderKept(r, s, p)
    PROVE  Steps(r, s)
<1>1. \A x : LifeKept(r, s, x) /\ CredentialKept(r, s, x)
  BY DEF LifeKept, CredentialKept
<1>2. RowsAge(r, s)
  BY DEF RowsAge
<1>3. AuthoritiesKept(r, s)
  BY <1>1 DEF AuthoritiesKept
<1>4. RevocationsKept(r, s)
  BY DEF RevocationsKept, Revoked
<1>5. s.rev["directory"] # r.rev["directory"] \/ PeersKept(r, s)
  BY <1>1, <1>3 DEF PeersKept
<1>6. s.rev["relay"] # r.rev["relay"] \/ RelaysKept(r, s)
  BY <1>1, <1>3 DEF RelaysKept
<1>7. s.rev["service"] # r.rev["service"] \/ ServicesKept(r, s)
  BY <1>3 DEF ServicesKept
<1>8. Kept(r, s)
  BY <1>3, <1>4, <1>5, <1>6, <1>7 DEF Kept
<1>9. QED
  BY <1>2, <1>8 DEF Steps

\* Credentials change lifecycle: an Authority moves every kind that depends on
\* it, a Peer credential directory, services and revocations, a Relay credential
\* Relays and revocations (TransitionColumns).
LEMMA TransitionSteps ==
    ASSUME NEW r \in MeshRows, NEW s \in MeshRows, RowsInv(r),
           RevisionsGrow(r, s), s.issuer = r.issuer,
           s.peer = r.peer, s.addressed = r.addressed, s.relay = r.relay,
           s.suspended = r.suspended, s.service = r.service, s.paused = r.paused,
           s.policy = r.policy,
           \A x \in Serials : s.life[x] # r.life[x] =>
               /\ r.life[x] \notin {"none", "gone"} /\ s.life[x] # "none"
               /\ \A k \in TransitionColumns(x) : s.rev[k] # r.rev[k]
    PROVE  Steps(r, s)
<1>1. \A x \in Serials : s.life[x] # r.life[x] =>
         /\ s.rev["revocation"] # r.rev["revocation"]
         /\ x \in Authorities => /\ s.rev["authority"] # r.rev["authority"]
                                 /\ s.rev["directory"] # r.rev["directory"]
                                 /\ s.rev["relay"] # r.rev["relay"]
                                 /\ s.rev["service"] # r.rev["service"]
         /\ x \in PeerSerials => /\ s.rev["directory"] # r.rev["directory"]
                                 /\ s.rev["service"] # r.rev["service"]
         /\ x \in RelaySerials => s.rev["relay"] # r.rev["relay"]
  BY SerialFacts DEF TransitionColumns
<1>2. RowsAge(r, s)
  BY DEF RowsAge
<1>3. RowsInv(s)
  BY DEF RowsInv
<1>4. \A x : s.life[x] = r.life[x] => LifeKept(r, s, x) /\ CredentialKept(r, s, x)
  BY DEF LifeKept, CredentialKept
<1>5. s.rev["authority"] # r.rev["authority"] \/ AuthoritiesKept(r, s)
  BY <1>1, <1>4, SerialFacts DEF AuthoritiesKept
<1>6. \/ s.rev["directory"] # r.rev["directory"]
      \/ AuthoritiesKept(r, s) /\ \A x \in PeerSerials : CredentialKept(r, s, x)
  BY <1>1, <1>4, SerialFacts DEF AuthoritiesKept
<1>7. \/ s.rev["relay"] # r.rev["relay"]
      \/ AuthoritiesKept(r, s) /\ \A x \in RelaySerials : CredentialKept(r, s, x)
  BY <1>1, <1>4, SerialFacts DEF AuthoritiesKept
<1>8. \/ s.rev["service"] # r.rev["service"]
      \/ AuthoritiesKept(r, s) /\ \A p \in Peers : ProviderKept(r, s, p)
  BY <1>1, <1>4, SerialFacts DEF AuthoritiesKept, ProviderKept, CredentialsOf
<1>9. s.rev["revocation"] # r.rev["revocation"] \/ RevocationsKept(r, s)
  <2>1. ASSUME \A x \in Serials : s.life[x] = r.life[x]
        PROVE  s.life = r.life
    BY <2>1 DEF MeshRows
  <2>2. QED
    BY <1>1, <2>1 DEF RevocationsKept, Revoked
<1>10. Kept(r, s)
  BY <1>5, <1>6, <1>7, <1>8, <1>9 DEF Kept, PeersKept, RelaysKept, ServicesKept
<1>11. QED
  BY <1>2, <1>3, <1>10 DEF Steps

\* New rows are staged under an Authority that is not revoked.
LEMMA StagedSteps ==
    ASSUME NEW r \in MeshRows, NEW s \in MeshRows, RowsInv(r),
           RevisionsGrow(r, s), NEW fresh,
           \A x \in fresh : x \in Serials /\ r.life[x] = "none",
           \A x \in Serials : s.life[x] = IF x \in fresh THEN "staged" ELSE r.life[x],
           \A x \in Subjects : IF x \in fresh THEN r.life[s.issuer[x]] # "revoked"
                               ELSE s.issuer[x] = r.issuer[x],
           s.peer = r.peer, s.addressed = r.addressed, s.relay = r.relay,
           s.suspended = r.suspended, s.service = r.service, s.paused = r.paused,
           s.policy = r.policy
    PROVE  Steps(r, s)
<1>1. RowsAge(r, s)
  BY SerialFacts DEF RowsAge, Serials
<1>2. RowsInv(s)
  BY DEF RowsInv
<1>3. \A x \in Serials : LifeKept(r, s, x)
  BY DEF LifeKept, Unseen
<1>4. \A x \in Subjects : CredentialKept(r, s, x)
  BY <1>3 DEF CredentialKept, Serials
<1>5. AuthoritiesKept(r, s)
  BY <1>3 DEF AuthoritiesKept, Serials
<1>6. PeersKept(r, s) /\ RelaysKept(r, s)
  BY <1>4, <1>5 DEF PeersKept, RelaysKept, Subjects
<1>7. ServicesKept(r, s)
  BY <1>4, <1>5 DEF ServicesKept, ProviderKept, CredentialsOf, Subjects
<1>8. RevocationsKept(r, s)
  <2>1. \A x \in Subjects : r.issuer[x] \in Serials /\ s.issuer[x] \in Serials
    BY DEF MeshRows, Serials
  <2>2. \A x \in Serials : s.life[x] = "revoked" <=> r.life[x] = "revoked"
    OBVIOUS
  <2>3. \A x \in Serials : Revoked(s, x) <=> Revoked(r, x)
    BY <2>1, <2>2 DEF Revoked
  <2>4. QED
    BY <2>3 DEF RevocationsKept
<1>9. QED
  BY <1>1, <1>2, <1>5, <1>6, <1>7, <1>8 DEF Steps, Kept

\* A Relay gets an active credential under an Authority that is not revoked,
\* its earlier one overlaps, and the Relay directory moves.
LEMMA RelayCredentialSteps ==
    ASSUME NEW r \in MeshRows, NEW s \in MeshRows, RowsInv(r),
           RevisionsGrow(r, s), s.rev["relay"] # r.rev["relay"],
           NEW x \in RelaySerials, r.life[x] = "none", s.life[x] = "active",
           r.life[s.issuer[x]] # "revoked",
           \A y \in Serials \ {x} :
               \/ s.life[y] = r.life[y]
               \/ y \in RelaySerials /\ r.life[y] = "active" /\ s.life[y] = "overlap",
           \A y \in Subjects \ {x} : s.issuer[y] = r.issuer[y],
           s.peer = r.peer, s.addressed = r.addressed,
           s.service = r.service, s.paused = r.paused, s.policy = r.policy
    PROVE  Steps(r, s)
<1>1. \A y \in Serials : r.life[y] # "none" => /\ y # x /\ s.life[y] # "none"
                                               /\ r.life[y] = "gone" => s.life[y] = "gone"
  OBVIOUS
<1>2. RowsAge(r, s)
  BY <1>1, SerialFacts DEF RowsAge, Serials
<1>3. RowsInv(s)
  BY DEF RowsInv
<1>4. \A y \in Authorities \cup PeerSerials : s.life[y] = r.life[y] /\ LifeKept(r, s, y)
  BY SerialFacts DEF LifeKept
<1>5. \A y \in PeerSerials : CredentialKept(r, s, y)
  BY <1>4, SerialFacts DEF CredentialKept
<1>6. AuthoritiesKept(r, s)
  BY <1>4 DEF AuthoritiesKept
<1>7. PeersKept(r, s) /\ ServicesKept(r, s)
  BY <1>5, <1>6 DEF PeersKept, ServicesKept, ProviderKept, CredentialsOf
<1>8. RevocationsKept(r, s)
  <2>1. \A y \in Subjects : r.issuer[y] \in Authorities /\ s.issuer[y] \in Authorities
    BY DEF MeshRows
  <2>2. \A y \in Serials : s.life[y] = "revoked" <=> r.life[y] = "revoked"
    BY SerialFacts
  <2>3. \A y \in Serials \ {x} : Revoked(s, y) <=> Revoked(r, y)
    <3>1. SUFFICES ASSUME NEW y \in Serials \ {x}, y \in Subjects
                   PROVE  /\ s.life[y] \in {"none", "gone"} <=> r.life[y] \in {"none", "gone"}
                          /\ r.life[r.issuer[y]] = "revoked" <=> s.life[s.issuer[y]] = "revoked"
      BY <2>2 DEF Revoked
    <3>2. s.life[y] \in {"none", "gone"} <=> r.life[y] \in {"none", "gone"}
      BY <3>1
    <3>3. s.issuer[y] = r.issuer[y] /\ r.issuer[y] \in Authorities
      BY <2>1, <3>1
    <3>4. s.life[r.issuer[y]] = r.life[r.issuer[y]]
      BY <1>4, <3>3
    <3>5. QED
      BY <3>2, <3>3, <3>4
  <2>4. ~Revoked(s, x) /\ ~Revoked(r, x)
    BY <1>4, <2>1, SerialFacts DEF Revoked
  <2>5. QED
    BY <2>3, <2>4 DEF RevocationsKept
<1>9. QED
  BY <1>2, <1>3, <1>6, <1>7, <1>8 DEF Steps, Kept

\* The access of Peers is stopped: directory, services and revocations move.
LEMMA StopSteps ==
    ASSUME NEW r \in MeshRows, NEW s \in MeshRows, RowsInv(r),
           RevisionsGrow(r, s), s.rev["directory"] # r.rev["directory"],
           s.rev["service"] # r.rev["service"], s.rev["revocation"] # r.rev["revocation"],
           NEW ps \in SUBSET Peers,
           \A x \in Serials : s.life[x] = IF x \in Rows(r, CredentialsOfAll(ps)) THEN "revoked"
                                          ELSE r.life[x],
           s.issuer = r.issuer,
           \A p \in Peers : IF p \in ps THEN s.peer[p] \in {"disabled", "deleted"}
                            ELSE s.peer[p] = r.peer[p],
           \A p \in Peers : s.addressed[p] <=> p \notin ps /\ r.addressed[p],
           \A v \in Services : s.service[v] = IF ProviderOf[v] \in ps /\ r.service[v] = "enabled"
                                              THEN "disabled" ELSE r.service[v],
           s.relay = r.relay, s.suspended = r.suspended, s.policy = r.policy
    PROVE  Steps(r, s)
<1>1. RowsAge(r, s)
  BY SerialFacts DEF RowsAge, Rows
<1>2. RowsInv(s)
  BY InstallationAssumption DEF RowsInv
<1>3. \A x \in Authorities \cup RelaySerials : s.life[x] = r.life[x]
  BY SerialFacts DEF Rows, CredentialsOfAll
<1>4. AuthoritiesKept(r, s) /\ RelaysKept(r, s)
  BY <1>3 DEF AuthoritiesKept, RelaysKept, CredentialKept, LifeKept
<1>5. QED
  BY <1>1, <1>2, <1>4 DEF Steps, Kept

-----------------------------------------------------------------------------
(* Transactions, one by one.                                               *)

\* create_peer and patch_peer that enables: a Peer without addresses, or one
\* that has offered nothing yet, shows in no service.
LEMMA EnableSteps ==
    ASSUME NEW r \in MeshRows, RowsInv(r), NEW p \in Peers
    PROVE  Steps(r, Bump([r EXCEPT !.peer[p] = "enabled"], {"directory"}))
<1> DEFINE b == [r EXCEPT !.peer[p] = "enabled"]
           s == Bump(b, {"directory"})
<1> SUFFICES Steps(r, s)
  OBVIOUS
<1>1. /\ b \in MeshRows /\ b.rev = r.rev /\ b.life = r.life /\ b.issuer = r.issuer
      /\ b.peer = [r.peer EXCEPT ![p] = "enabled"] /\ b.addressed = r.addressed
      /\ b.relay = r.relay /\ b.suspended = r.suspended
      /\ b.service = r.service /\ b.paused = r.paused /\ b.policy = r.policy
  BY DEF MeshRows
<1> HIDE DEF b
<1>2. /\ s \in MeshRows /\ RevisionsGrow(r, s) /\ s.rev["directory"] # r.rev["directory"]
      /\ s.life = r.life /\ s.issuer = r.issuer /\ s.peer = [r.peer EXCEPT ![p] = "enabled"]
      /\ s.addressed = r.addressed /\ s.relay = r.relay /\ s.suspended = r.suspended
      /\ s.service = r.service /\ s.paused = r.paused /\ s.policy = r.policy
  BY <1>1, BumpFields DEF Revisions
<1> HIDE DEF s
<1>3. r.peer \in [Peers -> {"none", "enabled", "disabled", "deleted"}]
  BY DEF MeshRows
<1>4. RowsInv(s)
  BY <1>2, <1>3, InstallationAssumption DEF RowsInv
<1>5. \A q \in Peers : ProviderKept(r, s, q)
  BY <1>2, <1>3 DEF RowsInv, ProviderKept, CredentialKept, LifeKept
<1>6. QED
  BY <1>2, <1>3, <1>4, <1>5, AdministrationSteps

\* A request for a rotation, and resources: nothing that is signed changes.
LEMMA UnsignedSteps ==
    ASSUME NEW r \in MeshRows, RowsInv(r), NEW s \in MeshRows, RevisionsGrow(r, s),
           s.life = r.life, s.issuer = r.issuer, s.peer = r.peer, s.addressed = r.addressed,
           s.service = r.service, s.paused = r.paused,
           s.rev["relay"] # r.rev["relay"] \/ (s.relay = r.relay /\ s.suspended = r.suspended),
           s.rev["policy"] # r.rev["policy"] \/ s.policy = r.policy
    PROVE  Steps(r, s)
<1>1. RowsInv(s)
  BY DEF RowsInv
<1>2. \A q \in Peers : ProviderKept(r, s, q)
  BY DEF ProviderKept, CredentialKept, LifeKept
<1>3. QED
  BY <1>1, <1>2, AdministrationSteps

\* request_peer_rotation: a request is pending, and nothing signed changes.
LEMMA RotationRequestSteps ==
    ASSUME NEW r \in MeshRows, RowsInv(r), NEW p \in Peers
    PROVE  Steps(r, [r EXCEPT !.rotation[p] = "pending"])
<1> DEFINE s == [r EXCEPT !.rotation[p] = "pending"]
<1>1. /\ s \in MeshRows /\ s.rev = r.rev /\ s.life = r.life /\ s.issuer = r.issuer
      /\ s.peer = r.peer /\ s.addressed = r.addressed
      /\ s.relay = r.relay /\ s.suspended = r.suspended
      /\ s.service = r.service /\ s.paused = r.paused /\ s.policy = r.policy
  BY DEF MeshRows
<1>2. RevisionsGrow(r, s)
  BY <1>1 DEF RevisionsGrow, MeshRows
<1> HIDE DEF s
<1>3. Steps(r, s)
  BY <1>1, <1>2, UnsignedSteps
<1>4. QED
  BY <1>3 DEF s

\* Evidence that lapses changes the resources and moves nothing.
LEMMA EvidenceSteps ==
    ASSUME NEW r \in MeshRows, RowsInv(r)
    PROVE  LET s == [r EXCEPT !.resources = @ + 1]
           IN  /\ Steps(r, s) /\ Steps(r, Bump(s, {"management"}))
<1> DEFINE s == [r EXCEPT !.resources = @ + 1]
           t == Bump(s, {"management"})
<1> SUFFICES Steps(r, s) /\ Steps(r, t)
  OBVIOUS
<1>1. /\ s \in MeshRows /\ s.rev = r.rev /\ s.life = r.life /\ s.issuer = r.issuer
      /\ s.peer = r.peer /\ s.addressed = r.addressed
      /\ s.relay = r.relay /\ s.suspended = r.suspended
      /\ s.service = r.service /\ s.paused = r.paused /\ s.policy = r.policy
  BY DEF MeshRows
<1>2. RevisionsGrow(r, s)
  BY <1>1 DEF RevisionsGrow, MeshRows
<1> HIDE DEF s
<1>3. Steps(r, s)
  BY <1>1, <1>2, UnsignedSteps
<1>4. /\ t \in MeshRows /\ RevisionsGrow(r, t) /\ t.life = r.life /\ t.issuer = r.issuer
      /\ t.peer = r.peer /\ t.addressed = r.addressed
      /\ t.relay = r.relay /\ t.suspended = r.suspended
      /\ t.service = r.service /\ t.paused = r.paused /\ t.policy = r.policy
  BY <1>1, BumpFields DEF Revisions
<1> HIDE DEF t
<1>5. Steps(r, t)
  BY <1>4, UnsignedSteps
<1>6. QED
  BY <1>3, <1>5

\* The fence of publish_configuration moves the management revision.
LEMMA FenceSteps ==
    ASSUME NEW r \in MeshRows, RowsInv(r)
    PROVE  Steps(r, r) /\ Steps(r, Bump(r, {"management"}))
<1> DEFINE t == Bump(r, {"management"})
<1>1. RevisionsGrow(r, r)
  BY DEF RevisionsGrow, MeshRows
<1>2. /\ t \in MeshRows /\ RevisionsGrow(r, t) /\ t.life = r.life /\ t.issuer = r.issuer
      /\ t.peer = r.peer /\ t.addressed = r.addressed
      /\ t.relay = r.relay /\ t.suspended = r.suspended
      /\ t.service = r.service /\ t.paused = r.paused /\ t.policy = r.policy
  BY BumpFields
<1> HIDE DEF t
<1>3. Steps(r, t)
  BY <1>2, UnsignedSteps
<1>4. Steps(r, r)
  BY <1>1, UnsignedSteps
<1>5. QED
  BY <1>3, <1>4 DEF t

\* Relays and their hosts: create_relay, patch_relay, change_host_assignments.
LEMMA RelaySteps ==
    ASSUME NEW r \in MeshRows, RowsInv(r), NEW q \in Relays,
           NEW state \in {"enabled", "disabled"}
    PROVE  /\ Steps(r, Bump([r EXCEPT !.relay[q] = state], {"relay"}))
           /\ Steps(r, Bump([r EXCEPT !.suspended = SymDiff(@, {q})], {"relay"}))
<1>1. ASSUME NEW b \in MeshRows, b.rev = r.rev, b.life = r.life, b.issuer = r.issuer,
             b.peer = r.peer, b.addressed = r.addressed,
             b.service = r.service, b.paused = r.paused, b.policy = r.policy
      PROVE  Steps(r, Bump(b, {"relay"}))
  <2> DEFINE s == Bump(b, {"relay"})
  <2>1. /\ s \in MeshRows /\ RevisionsGrow(r, s) /\ s.rev["relay"] # r.rev["relay"]
        /\ s.life = r.life /\ s.issuer = r.issuer
        /\ s.peer = r.peer /\ s.addressed = r.addressed
        /\ s.service = r.service /\ s.paused = r.paused /\ s.policy = r.policy
    BY <1>1, BumpFields DEF Revisions
  <2> HIDE DEF s
  <2>2. Steps(r, s)
    BY <2>1, UnsignedSteps
  <2>3. QED
    BY <2>2 DEF s
<1> DEFINE b == [r EXCEPT !.relay[q] = state]
<1>2. /\ b \in MeshRows /\ b.rev = r.rev /\ b.life = r.life /\ b.issuer = r.issuer
      /\ b.peer = r.peer /\ b.addressed = r.addressed
      /\ b.service = r.service /\ b.paused = r.paused /\ b.policy = r.policy
  BY DEF MeshRows
<1> DEFINE d == [r EXCEPT !.suspended = SymDiff(@, {q})]
<1>3. SymDiff(r.suspended, {q}) \in SUBSET Relays
  BY DEF MeshRows, SymDiff
<1>4. /\ d \in MeshRows /\ d.rev = r.rev /\ d.life = r.life /\ d.issuer = r.issuer
      /\ d.peer = r.peer /\ d.addressed = r.addressed
      /\ d.service = r.service /\ d.paused = r.paused /\ d.policy = r.policy
  BY <1>3 DEF MeshRows
<1> HIDE DEF b, d
<1>5. Steps(r, Bump(b, {"relay"})) /\ Steps(r, Bump(d, {"relay"}))
  BY <1>1, <1>2, <1>4
<1>6. QED
  BY <1>5 DEF b, d

\* Services are offered, removed or disabled; only a known Peer offers one.
LEMMA ServiceSteps ==
    ASSUME NEW r \in MeshRows, RowsInv(r),
           NEW service \in [Services -> {"none", "enabled", "disabled"}],
           \A v \in Services : service[v] = "enabled" =>
               r.service[v] = "enabled" \/ r.peer[ProviderOf[v]] # "none"
    PROVE  Steps(r, Bump([r EXCEPT !.service = service], {"service", "directory"}))
<1> DEFINE b == [r EXCEPT !.service = service]
           s == Bump(b, {"service", "directory"})
<1> SUFFICES Steps(r, s)
  OBVIOUS
<1>1. /\ b \in MeshRows /\ b.rev = r.rev /\ b.life = r.life /\ b.issuer = r.issuer
      /\ b.peer = r.peer /\ b.addressed = r.addressed
      /\ b.relay = r.relay /\ b.suspended = r.suspended
      /\ b.service = service /\ b.policy = r.policy
  BY DEF MeshRows
<1> HIDE DEF b
<1>2. /\ s \in MeshRows /\ RevisionsGrow(r, s) /\ s.rev["service"] # r.rev["service"]
      /\ s.life = r.life /\ s.issuer = r.issuer
      /\ s.peer = r.peer /\ s.addressed = r.addressed
      /\ s.relay = r.relay /\ s.suspended = r.suspended
      /\ s.service = service /\ s.policy = r.policy
  BY <1>1, BumpFields DEF Revisions
<1> HIDE DEF s
<1>3. RowsInv(s)
  BY <1>2 DEF RowsInv
<1>4. QED
  BY <1>2, <1>3, AdministrationSteps

\* A policy document is stored at a higher revision: stage_peer_policy.
LEMMA PolicyFields ==
    ASSUME NEW r \in MeshRows,
           NEW document \in [rules : {"open", "closed"}, denied : SUBSET Services],
           NEW revision \in Nat, revision > r.rev["policy"]
    PROVE  LET s == StagePolicy(r, document, revision)
           IN  /\ s \in MeshRows /\ RevisionsGrow(r, s) /\ s.rev["policy"] # r.rev["policy"]
               /\ s.life = r.life /\ s.issuer = r.issuer
               /\ s.peer = r.peer /\ s.addressed = r.addressed
               /\ s.relay = r.relay /\ s.suspended = r.suspended
               /\ s.service = r.service /\ s.paused = r.paused
<1> DEFINE b == Bump(r, {"directory"})
           s == StagePolicy(r, document, revision)
<1>1. /\ b \in MeshRows /\ RevisionsGrow(r, b) /\ b.life = r.life /\ b.issuer = r.issuer
      /\ b.peer = r.peer /\ b.addressed = r.addressed
      /\ b.relay = r.relay /\ b.suspended = r.suspended
      /\ b.service = r.service /\ b.paused = r.paused
      /\ b.rev["directory"] # r.rev["directory"]
  BY BumpFields DEF Revisions
<1>2. s = [b EXCEPT !.policy = document, !.rev["policy"] = revision]
  BY DEF StagePolicy
<1> HIDE DEF b, s
<1>3. /\ s \in MeshRows /\ s.life = r.life /\ s.issuer = r.issuer
      /\ s.peer = r.peer /\ s.addressed = r.addressed
      /\ s.relay = r.relay /\ s.suspended = r.suspended
      /\ s.service = r.service /\ s.paused = r.paused
      /\ s.rev = [b.rev EXCEPT !["policy"] = revision]
  BY <1>1, <1>2 DEF MeshRows
<1>4. \A k \in Revisions : r.rev[k] \in Nat /\ b.rev[k] \in Nat
  BY <1>1 DEF MeshRows
<1>5. \A k \in Revisions : s.rev[k] = IF k = "policy" THEN revision ELSE b.rev[k]
  BY <1>1, <1>3 DEF MeshRows
<1>6. RevisionsGrow(r, s) /\ s.rev["policy"] # r.rev["policy"]
  BY <1>1, <1>4, <1>5 DEF RevisionsGrow, Revisions
<1>7. QED
  BY <1>3, <1>6 DEF s

\* The policy of put_policy and of the refresh.
LEMMA PolicySteps ==
    ASSUME NEW r \in MeshRows, RowsInv(r),
           NEW document \in [rules : {"open", "closed"}, denied : SUBSET Services],
           NEW revision \in Nat, revision > r.rev["policy"]
    PROVE  Steps(r, StagePolicy(r, document, revision))
<1> DEFINE s == StagePolicy(r, document, revision)
<1>1. /\ s \in MeshRows /\ RevisionsGrow(r, s) /\ s.rev["policy"] # r.rev["policy"]
      /\ s.life = r.life /\ s.issuer = r.issuer
      /\ s.peer = r.peer /\ s.addressed = r.addressed
      /\ s.relay = r.relay /\ s.suspended = r.suspended
      /\ s.service = r.service /\ s.paused = r.paused
  BY PolicyFields
<1> HIDE DEF s
<1>2. Steps(r, s)
  BY <1>1, UnsignedSteps
<1>3. QED
  BY <1>2 DEF s

\* The policy compiled from rows is a policy document.
LEMMA EffectivePolicyType ==
    ASSUME NEW r \in MeshRows, NEW rules \in {"open", "closed"}
    PROVE  EffectivePolicy(r, rules) \in [rules : {"open", "closed"}, denied : SUBSET Services]
BY DEF EffectivePolicy, MeshRows

\* The document recompiled for the rows.
LEMMA RecompiledSteps ==
    ASSUME NEW r \in MeshRows, RowsInv(r)
    PROVE  Steps(r, Recompiled(r))
<1>1. r.policy.rules \in {"open", "closed"} /\ r.rev["policy"] \in Nat
  BY DEF MeshRows, Revisions
<1>2. r.rev["policy"] + 1 \in Nat /\ r.rev["policy"] + 1 > r.rev["policy"]
  BY <1>1
<1>3. QED
  BY <1>1, <1>2, EffectivePolicyType, PolicySteps DEF Recompiled

\* edit_console_service moves policy, services, directory and management.
LEMMA EditServiceSteps ==
    ASSUME NEW r \in MeshRows, RowsInv(r), NEW paused \in SUBSET Services
    PROVE  Steps(r, Bump(Recompiled([r EXCEPT !.paused = paused]),
                         {"service", "directory", "management"}))
<1> DEFINE b == [r EXCEPT !.paused = paused]
           m == Recompiled(b)
           s == Bump(m, {"service", "directory", "management"})
<1> SUFFICES Steps(r, s)
  OBVIOUS
<1>1. /\ b \in MeshRows /\ b.rev = r.rev /\ b.life = r.life /\ b.issuer = r.issuer
      /\ b.peer = r.peer /\ b.addressed = r.addressed
      /\ b.relay = r.relay /\ b.suspended = r.suspended
      /\ b.service = r.service /\ b.policy = r.policy
  BY DEF MeshRows
<1> HIDE DEF b
<1>2. b.policy.rules \in {"open", "closed"} /\ b.rev["policy"] \in Nat
  BY <1>1 DEF MeshRows, Revisions
<1>3. b.rev["policy"] + 1 \in Nat /\ b.rev["policy"] + 1 > b.rev["policy"]
  BY <1>2
<1>4. /\ m \in MeshRows /\ RevisionsGrow(b, m) /\ m.rev["policy"] # b.rev["policy"]
      /\ m.life = b.life /\ m.issuer = b.issuer
      /\ m.peer = b.peer /\ m.addressed = b.addressed
      /\ m.relay = b.relay /\ m.suspended = b.suspended
      /\ m.service = b.service
  BY <1>1, <1>2, <1>3, EffectivePolicyType, PolicyFields DEF Recompiled
<1> HIDE DEF m
<1>5. /\ s \in MeshRows /\ RevisionsGrow(m, s) /\ s.rev["service"] # m.rev["service"]
      /\ s.rev["directory"] # m.rev["directory"]
      /\ s.life = m.life /\ s.issuer = m.issuer
      /\ s.peer = m.peer /\ s.addressed = m.addressed
      /\ s.relay = m.relay /\ s.suspended = m.suspended
      /\ s.service = m.service
  BY <1>4, BumpFields DEF Revisions
<1> HIDE DEF s
<1>6. \A k \in Revisions : r.rev[k] \in Nat /\ m.rev[k] \in Nat /\ s.rev[k] \in Nat
  BY <1>4, <1>5 DEF MeshRows
<1>7. /\ RevisionsGrow(r, s) /\ s.rev["service"] # r.rev["service"]
      /\ s.rev["policy"] # r.rev["policy"]
  BY <1>1, <1>4, <1>5, <1>6 DEF RevisionsGrow, Revisions
<1>8. RowsInv(s)
  BY <1>1, <1>4, <1>5 DEF RowsInv
<1>9. QED
  BY <1>1, <1>4, <1>5, <1>7, <1>8, AdministrationSteps

\* Transitions of one holder touch rows of the same class.
LEMMA TransitionFacts ==
    ASSUME NEW x \in Serials
    PROVE  /\ \A y \in Holders(x) : y \in Serials /\ TransitionColumns(y) = TransitionColumns(x)
           /\ \A k \in TransitionColumns(x) : k \in Revisions
           /\ "authority" \in TransitionColumns(x) => "directory" \in TransitionColumns(x)
<1>1. CASE x \in Authorities
  BY <1>1, SerialFacts DEF Holders, TransitionColumns, Revisions
<1>2. CASE x \in PeerSerials
  BY <1>2, SerialFacts DEF Holders, TransitionColumns, Revisions, CredentialsOf
<1>3. CASE x \in RelaySerials
  BY <1>3, SerialFacts DEF Holders, TransitionColumns, Revisions
<1>4. QED
  BY <1>1, <1>2, <1>3, SerialFacts

\* transition_credential to active.
LEMMA ActivateSteps ==
    ASSUME NEW r \in MeshRows, RowsInv(r), NEW x \in Serials, r.life[x] = "staged"
    PROVE  Steps(r, Bump(Set(Set(r, {y \in Holders(x) : r.life[y] = "active"}, "overlap"),
                             {x}, "active"), TransitionColumns(x)))
<1> DEFINE ys == {y \in Holders(x) : r.life[y] = "active"}
           m == Set(r, ys, "overlap")
           b == Set(m, {x}, "active")
           s == Bump(b, TransitionColumns(x))
<1> SUFFICES Steps(r, s)
  OBVIOUS
<1>1. /\ m \in MeshRows
      /\ \A y \in Serials : m.life[y] = IF y \in ys THEN "overlap" ELSE r.life[y]
      /\ m.issuer = r.issuer /\ m.peer = r.peer /\ m.addressed = r.addressed
      /\ m.relay = r.relay /\ m.suspended = r.suspended
      /\ m.service = r.service /\ m.paused = r.paused
      /\ m.policy = r.policy /\ m.rev = r.rev
  BY SetFields DEF Lifecycles
<1> HIDE DEF m
<1>2. /\ b \in MeshRows
      /\ \A y \in Serials : b.life[y] = IF y \in {x} THEN "active" ELSE m.life[y]
      /\ b.issuer = r.issuer /\ b.peer = r.peer /\ b.addressed = r.addressed
      /\ b.relay = r.relay /\ b.suspended = r.suspended
      /\ b.service = r.service /\ b.paused = r.paused
      /\ b.policy = r.policy /\ b.rev = r.rev
  BY <1>1, SetFields DEF Lifecycles
<1> HIDE DEF b
<1>3. /\ s \in MeshRows /\ RevisionsGrow(r, s)
      /\ \A k \in TransitionColumns(x) : s.rev[k] # r.rev[k]
      /\ s.life = b.life
      /\ s.issuer = r.issuer /\ s.peer = r.peer /\ s.addressed = r.addressed
      /\ s.relay = r.relay /\ s.suspended = r.suspended
      /\ s.service = r.service /\ s.paused = r.paused
      /\ s.policy = r.policy
  BY <1>2, BumpFields, TransitionFacts
<1> HIDE DEF s
<1>4. \A y \in Serials : s.life[y] # r.life[y] =>
         /\ r.life[y] \notin {"none", "gone"} /\ s.life[y] # "none"
         /\ TransitionColumns(y) = TransitionColumns(x)
  BY <1>1, <1>2, <1>3, TransitionFacts
<1>5. QED
  BY <1>3, <1>4, TransitionSteps

\* transition_credential to revoked, and the lapses of expire_credentials.
LEMMA ExpirySteps ==
    ASSUME NEW r \in MeshRows, RowsInv(r), NEW due \in SUBSET Serials,
           \A x \in due : r.life[x] \notin {"none", "gone"}
    PROVE  Steps(r, Bump(Set(r, due, "revoked"), ExpiryColumns(due)))
<1> DEFINE b == Set(r, due, "revoked")
           s == Bump(b, ExpiryColumns(due))
<1> SUFFICES Steps(r, s)
  OBVIOUS
<1>1. /\ b \in MeshRows
      /\ \A y \in Serials : b.life[y] = IF y \in due THEN "revoked" ELSE r.life[y]
      /\ b.issuer = r.issuer /\ b.peer = r.peer /\ b.addressed = r.addressed
      /\ b.relay = r.relay /\ b.suspended = r.suspended
      /\ b.service = r.service /\ b.paused = r.paused
      /\ b.policy = r.policy /\ b.rev = r.rev
  BY SetFields DEF Lifecycles
<1> HIDE DEF b
<1>2. /\ \A k : k \in ExpiryColumns(due) <=> \E x \in due : k \in TransitionColumns(x)
      /\ "authority" \in ExpiryColumns(due) => "directory" \in ExpiryColumns(due)
  BY TransitionFacts DEF ExpiryColumns
<1>3. /\ s \in MeshRows /\ RevisionsGrow(r, s)
      /\ \A k \in Revisions : k \in ExpiryColumns(due) => s.rev[k] # r.rev[k]
      /\ s.life = b.life
      /\ s.issuer = r.issuer /\ s.peer = r.peer /\ s.addressed = r.addressed
      /\ s.relay = r.relay /\ s.suspended = r.suspended
      /\ s.service = r.service /\ s.paused = r.paused
      /\ s.policy = r.policy
  BY <1>1, <1>2, BumpFields
<1> HIDE DEF s
<1>4. \A x \in due : \A k \in TransitionColumns(x) : s.rev[k] # r.rev[k]
  BY <1>2, <1>3, TransitionFacts
<1>5. \A y \in Serials : s.life[y] # r.life[y] =>
         /\ r.life[y] \notin {"none", "gone"} /\ s.life[y] # "none"
         /\ \A k \in TransitionColumns(y) : s.rev[k] # r.rev[k]
  BY <1>1, <1>3, <1>4
<1>6. QED
  BY <1>3, <1>5, TransitionSteps

\* One credential is revoked.
LEMMA RevokeSteps ==
    ASSUME NEW r \in MeshRows, RowsInv(r), NEW x \in Serials, r.life[x] \notin {"none", "gone"}
    PROVE  Steps(r, Bump(Set(r, {x}, "revoked"), TransitionColumns(x)))
<1>1. ExpiryColumns({x}) = TransitionColumns(x)
  BY DEF ExpiryColumns
<1>2. QED
  BY <1>1, ExpirySteps

\* activate_peer_rotation: the credentials of one Peer change lifecycle.
LEMMA RotationSteps ==
    ASSUME NEW r \in MeshRows, RowsInv(r), NEW p \in Peers, NEW x \in CredentialsOf(p),
           r.life[x] = "staged"
    PROVE  LET overlap == {y \in CredentialsOf(p) : r.life[y] = "overlap"}
               active  == {y \in CredentialsOf(p) : r.life[y] = "active"}
           IN  Steps(r, Bump([Set(Set(Set(r, overlap, "revoked"), active, "overlap"),
                                  {x}, "active") EXCEPT !.rotation[p] = "activated"],
                             {"directory", "service", "revocation"}))
<1> DEFINE overlap == {y \in CredentialsOf(p) : r.life[y] = "overlap"}
           active  == {y \in CredentialsOf(p) : r.life[y] = "active"}
           m == Set(r, overlap, "revoked")
           n == Set(m, active, "overlap")
           c == Set(n, {x}, "active")
           b == [c EXCEPT !.rotation[p] = "activated"]
           s == Bump(b, {"directory", "service", "revocation"})
<1> SUFFICES Steps(r, s)
  OBVIOUS
<1>1. /\ m \in MeshRows
      /\ \A y \in Serials : m.life[y] = IF y \in overlap THEN "revoked" ELSE r.life[y]
      /\ m.issuer = r.issuer /\ m.peer = r.peer /\ m.addressed = r.addressed
      /\ m.relay = r.relay /\ m.suspended = r.suspended
      /\ m.service = r.service /\ m.paused = r.paused
      /\ m.policy = r.policy /\ m.rev = r.rev
  BY SetFields DEF Lifecycles
<1> HIDE DEF m
<1>2. /\ n \in MeshRows
      /\ \A y \in Serials : n.life[y] = IF y \in active THEN "overlap" ELSE m.life[y]
      /\ n.issuer = r.issuer /\ n.peer = r.peer /\ n.addressed = r.addressed
      /\ n.relay = r.relay /\ n.suspended = r.suspended
      /\ n.service = r.service /\ n.paused = r.paused
      /\ n.policy = r.policy /\ n.rev = r.rev
  BY <1>1, SetFields DEF Lifecycles
<1> HIDE DEF n
<1>3. /\ c \in MeshRows
      /\ \A y \in Serials : c.life[y] = IF y \in {x} THEN "active" ELSE n.life[y]
      /\ c.issuer = r.issuer /\ c.peer = r.peer /\ c.addressed = r.addressed
      /\ c.relay = r.relay /\ c.suspended = r.suspended
      /\ c.service = r.service /\ c.paused = r.paused
      /\ c.policy = r.policy /\ c.rev = r.rev
  BY <1>2, SetFields DEF Lifecycles
<1> HIDE DEF c
<1>4. /\ b \in MeshRows /\ b.life = c.life
      /\ b.issuer = r.issuer /\ b.peer = r.peer /\ b.addressed = r.addressed
      /\ b.relay = r.relay /\ b.suspended = r.suspended
      /\ b.service = r.service /\ b.paused = r.paused
      /\ b.policy = r.policy /\ b.rev = r.rev
  BY <1>3 DEF MeshRows
<1> HIDE DEF b
<1>5. /\ s \in MeshRows /\ RevisionsGrow(r, s)
      /\ \A k \in {"directory", "service", "revocation"} : s.rev[k] # r.rev[k]
      /\ s.life = c.life
      /\ s.issuer = r.issuer /\ s.peer = r.peer /\ s.addressed = r.addressed
      /\ s.relay = r.relay /\ s.suspended = r.suspended
      /\ s.service = r.service /\ s.paused = r.paused
      /\ s.policy = r.policy
  BY <1>4, BumpFields DEF Revisions
<1> HIDE DEF s
<1>6. \A y \in CredentialsOf(p) : TransitionColumns(y) = {"directory", "service", "revocation"}
  BY SerialFacts DEF CredentialsOf, TransitionColumns
<1>7. \A y \in Serials : s.life[y] # r.life[y] =>
         /\ r.life[y] \notin {"none", "gone"} /\ s.life[y] # "none"
         /\ y \in CredentialsOf(p)
  BY <1>1, <1>2, <1>3, <1>5
<1>8. QED
  BY <1>5, <1>6, <1>7, TransitionSteps

\* claim_public_join: the new Peer has offered nothing, and its credential is
\* issued by an Authority that is not revoked.
LEMMA JoinSteps ==
    ASSUME NEW r \in MeshRows, RowsInv(r), NEW x \in PeerSerials, NEW a \in Authorities,
           r.peer[PeerOf[x]] = "none", r.life[x] = "none", r.life[a] # "revoked"
    PROVE  Steps(r, Joined(r, x, a))
<1> DEFINE m == Set(r, {x}, "active")
           b == [m EXCEPT !.peer[PeerOf[x]] = "enabled", !.addressed[PeerOf[x]] = TRUE,
                          !.issuer[x] = a]
           s == Bump(b, {"directory"})
<1> SUFFICES Steps(r, s)
  BY DEF Joined
<1>1. /\ m \in MeshRows
      /\ \A y \in Serials : m.life[y] = IF y \in {x} THEN "active" ELSE r.life[y]
      /\ m.issuer = r.issuer /\ m.peer = r.peer /\ m.addressed = r.addressed
      /\ m.relay = r.relay /\ m.suspended = r.suspended
      /\ m.service = r.service /\ m.paused = r.paused
      /\ m.policy = r.policy /\ m.rev = r.rev
  BY SetFields DEF Lifecycles
<1> HIDE DEF m
<1>2. PeerOf[x] \in Peers /\ x \in Subjects
  BY InstallationAssumption, SerialFacts
<1>3. /\ b \in MeshRows /\ b.life = m.life
      /\ b.issuer = [m.issuer EXCEPT ![x] = a]
      /\ b.peer = [m.peer EXCEPT ![PeerOf[x]] = "enabled"]
      /\ b.addressed = [m.addressed EXCEPT ![PeerOf[x]] = TRUE]
      /\ b.relay = m.relay /\ b.suspended = m.suspended
      /\ b.service = m.service /\ b.paused = m.paused
      /\ b.policy = m.policy /\ b.rev = m.rev
  BY <1>1, <1>2 DEF MeshRows
<1> HIDE DEF b
<1>4. /\ s \in MeshRows /\ RevisionsGrow(r, s) /\ s.rev["directory"] # r.rev["directory"]
      /\ s.life = b.life /\ s.issuer = b.issuer /\ s.peer = b.peer /\ s.addressed = b.addressed
      /\ s.relay = b.relay /\ s.suspended = b.suspended
      /\ s.service = b.service /\ s.paused = b.paused /\ s.policy = b.policy
  BY <1>1, <1>3, BumpFields DEF Revisions
<1> HIDE DEF s
<1>5. /\ \A y \in Serials : s.life[y] = IF y = x THEN "active" ELSE r.life[y]
      /\ \A y \in Subjects : s.issuer[y] = IF y = x THEN a ELSE r.issuer[y]
      /\ \A p \in Peers : /\ s.peer[p] = IF p = PeerOf[x] THEN "enabled" ELSE r.peer[p]
                          /\ s.addressed[p] <=> p = PeerOf[x] \/ r.addressed[p]
  <2>1. /\ r.life \in [Serials -> Lifecycles] /\ r.issuer \in [Subjects -> Authorities]
        /\ r.peer \in [Peers -> {"none", "enabled", "disabled", "deleted"}]
        /\ r.addressed \in [Peers -> BOOLEAN]
    BY DEF MeshRows
  <2>2. \A y \in Serials : s.life[y] = IF y = x THEN "active" ELSE r.life[y]
    BY <1>1, <1>3, <1>4
  <2>3. \A y \in Subjects : s.issuer[y] = IF y = x THEN a ELSE r.issuer[y]
    BY <1>1, <1>3, <1>4, <2>1
  <2>4. \A p \in Peers : s.peer[p] = IF p = PeerOf[x] THEN "enabled" ELSE r.peer[p]
    BY <1>1, <1>3, <1>4, <2>1
  <2>5. \A p \in Peers : s.addressed[p] <=> p = PeerOf[x] \/ r.addressed[p]
    BY <1>1, <1>3, <1>4, <2>1
  <2>6. QED
    BY <2>2, <2>3, <2>4, <2>5
<1>6. RowsAge(r, s)
  BY <1>2, <1>5, SerialFacts DEF RowsAge
<1>7. s.service = r.service /\ s.paused = r.paused
  BY <1>1, <1>3, <1>4
<1>8. RowsInv(s)
  BY <1>5, <1>7, InstallationAssumption DEF RowsInv
<1>9. \A y \in Serials \ {x} : LifeKept(r, s, y)
  BY <1>5 DEF LifeKept
<1>10. \A y \in Subjects \ {x} : CredentialKept(r, s, y)
  BY <1>5, <1>9, SerialFacts DEF CredentialKept, Serials
<1>11. AuthoritiesKept(r, s)
  BY <1>9, SerialFacts DEF AuthoritiesKept
<1>12. RelaysKept(r, s)
  BY <1>1, <1>3, <1>4, <1>10, <1>11, SerialFacts DEF RelaysKept
<1>13. ServicesKept(r, s)
  <2>1. ProviderKept(r, s, PeerOf[x])
    BY DEF RowsInv, ProviderKept
  <2>2. \A p \in Peers \ {PeerOf[x]} : ProviderKept(r, s, p)
    BY <1>5, <1>10, SerialFacts DEF ProviderKept, CredentialsOf
  <2>3. QED
    BY <1>7, <1>11, <2>1, <2>2 DEF ServicesKept
<1>14. RevocationsKept(r, s)
  <2>1. \A y \in Subjects : r.issuer[y] \in Authorities
    BY DEF MeshRows
  <2>2. \A c \in Authorities : s.life[c] = r.life[c]
    BY <1>5, SerialFacts
  <2>3. \A y \in Serials \ {x} : Revoked(s, y) <=> Revoked(r, y)
    BY <1>5, <2>1, <2>2 DEF Revoked
  <2>4. ~Revoked(s, x) /\ ~Revoked(r, x)
    BY <1>2, <1>5, <2>2, SerialFacts DEF Revoked
  <2>5. QED
    BY <2>3, <2>4 DEF RevocationsKept
<1>15. s.policy = r.policy
  BY <1>1, <1>3, <1>4
<1>16. QED
  BY <1>4, <1>6, <1>8, <1>11, <1>12, <1>13, <1>14, <1>15 DEF Steps, Kept

\* The rows revoke_peer_access leaves, when the Peers are stopped already.
LEMMA RevokeAccessFields ==
    ASSUME NEW r \in MeshRows, NEW b \in MeshRows, b.rev = r.rev, NEW ps \in SUBSET Peers
    PROVE  LET s == RevokePeerAccess(b, ps)
           IN  /\ s \in MeshRows /\ RevisionsGrow(r, s)
               /\ ps # {} => \A k \in {"directory", "service", "revocation"} : s.rev[k] # r.rev[k]
               /\ \A x \in Serials : s.life[x] = IF x \in Rows(b, CredentialsOfAll(ps))
                                                 THEN "revoked" ELSE b.life[x]
               /\ s.issuer = b.issuer /\ s.peer = b.peer
               /\ \A p \in Peers : s.addressed[p] <=> p \notin ps /\ b.addressed[p]
               /\ \A v \in Services :
                    s.service[v] = IF ProviderOf[v] \in ps /\ b.service[v] = "enabled"
                                   THEN "disabled" ELSE b.service[v]
               /\ s.relay = b.relay /\ s.suspended = b.suspended /\ s.paused = b.paused
               /\ s.policy = b.policy
<1> DEFINE m == Set(b, Rows(b, CredentialsOfAll(ps)), "revoked")
           addressed == [p \in Peers |-> p \notin ps /\ b.addressed[p]]
           rotation == [p \in Peers |-> IF p \in ps /\ b.rotation[p] \in {"pending", "issued"}
                                        THEN "cancelled" ELSE b.rotation[p]]
           service == [v \in Services |-> IF ProviderOf[v] \in ps /\ b.service[v] = "enabled"
                                          THEN "disabled" ELSE b.service[v]]
           c == [m EXCEPT !.addressed = addressed, !.rotation = rotation, !.service = service]
           columns == {"directory", "service", "revocation", "management"}
           s == Raise(c, columns, Cardinality(ps))
<1>1. RevokePeerAccess(b, ps) = s
  BY DEF RevokePeerAccess
<1>2. /\ m \in MeshRows
      /\ \A x \in Serials : m.life[x] = IF x \in Rows(b, CredentialsOfAll(ps))
                                        THEN "revoked" ELSE b.life[x]
      /\ m.issuer = b.issuer /\ m.peer = b.peer
      /\ m.relay = b.relay /\ m.suspended = b.suspended /\ m.paused = b.paused
      /\ m.policy = b.policy /\ m.rev = b.rev
  BY SetFields DEF Lifecycles
<1> HIDE DEF m
<1>3. addressed \in [Peers -> BOOLEAN]
  BY DEF MeshRows
<1>4. rotation \in [Peers -> {"none", "pending", "issued", "activated", "cancelled"}]
  BY DEF MeshRows
<1>5. service \in [Services -> {"none", "enabled", "disabled"}]
  BY DEF MeshRows
<1>6. /\ \A p \in Peers : addressed[p] <=> p \notin ps /\ b.addressed[p]
      /\ \A v \in Services : service[v] = IF ProviderOf[v] \in ps /\ b.service[v] = "enabled"
                                          THEN "disabled" ELSE b.service[v]
  OBVIOUS
<1> HIDE DEF addressed, rotation, service
<1>7. /\ c \in MeshRows /\ c.life = m.life /\ c.issuer = m.issuer /\ c.peer = m.peer
      /\ c.addressed = addressed /\ c.service = service
      /\ c.relay = m.relay /\ c.suspended = m.suspended /\ c.paused = m.paused
      /\ c.policy = m.policy /\ c.rev = m.rev
  BY <1>2, <1>3, <1>4, <1>5 DEF MeshRows
<1> HIDE DEF c
<1>8. Cardinality(ps) \in Nat /\ (ps # {} => Cardinality(ps) # 0)
  <2>1. IsFiniteSet(ps)
    BY InstallationAssumption, FS_Subset
  <2>2. QED
    BY <2>1, FS_CardinalityType, FS_EmptySet
<1>9. /\ s \in MeshRows /\ RevisionsGrow(r, s)
      /\ ps # {} => \A k \in Revisions : k \in columns => s.rev[k] # r.rev[k]
      /\ s.life = c.life /\ s.issuer = c.issuer
      /\ s.peer = c.peer /\ s.addressed = c.addressed
      /\ s.relay = c.relay /\ s.suspended = c.suspended
      /\ s.service = c.service /\ s.paused = c.paused /\ s.policy = c.policy
  BY <1>2, <1>7, <1>8, RaiseFields DEF Revisions
<1> HIDE DEF s
<1>10. ps # {} => \A k \in {"directory", "service", "revocation"} : s.rev[k] # r.rev[k]
  BY <1>9 DEF Revisions
<1>11. QED
  BY <1>1, <1>2, <1>6, <1>7, <1>9, <1>10

\* retire_device_admission, and every other way to stop the Peers ps.
LEMMA StopPeersSteps ==
    ASSUME NEW r \in MeshRows, RowsInv(r), NEW b \in MeshRows, b.rev = r.rev,
           NEW ps \in SUBSET Peers,
           b.life = r.life, b.issuer = r.issuer, b.addressed = r.addressed,
           \A p \in Peers : IF p \in ps THEN b.peer[p] \in {"disabled", "deleted"}
                            ELSE b.peer[p] = r.peer[p],
           b.relay = r.relay, b.suspended = r.suspended,
           b.service = r.service, b.paused = r.paused, b.policy = r.policy
    PROVE  LET s == RevokePeerAccess(b, ps)
           IN  Steps(r, s) /\ (ps # {} => Steps(r, Bump(s, {"directory"})))
<1> DEFINE s == RevokePeerAccess(b, ps)
           t == Bump(s, {"directory"})
<1> SUFFICES Steps(r, s) /\ (ps # {} => Steps(r, t))
  OBVIOUS
<1>2. /\ s \in MeshRows /\ RevisionsGrow(r, s)
      /\ ps # {} => \A k \in {"directory", "service", "revocation"} : s.rev[k] # r.rev[k]
      /\ \A x \in Serials : s.life[x] = IF x \in Rows(b, CredentialsOfAll(ps))
                                        THEN "revoked" ELSE b.life[x]
      /\ s.issuer = b.issuer /\ s.peer = b.peer
      /\ \A p \in Peers : s.addressed[p] <=> p \notin ps /\ b.addressed[p]
      /\ \A v \in Services :
           s.service[v] = IF ProviderOf[v] \in ps /\ b.service[v] = "enabled"
                          THEN "disabled" ELSE b.service[v]
      /\ s.relay = b.relay /\ s.suspended = b.suspended /\ s.paused = b.paused
      /\ s.policy = b.policy
  BY RevokeAccessFields
<1> HIDE DEF s
<1>3. /\ Rows(b, CredentialsOfAll(ps)) = Rows(r, CredentialsOfAll(ps))
  BY DEF Rows
<1>4. ps # {} => Steps(r, s)
  BY <1>2, <1>3, StopSteps
<1>5. ps = {} => Steps(r, s)
  <2> SUFFICES ASSUME ps = {} PROVE Steps(r, s)
    OBVIOUS
  <2>1. Rows(b, CredentialsOfAll(ps)) = {}
    BY DEF Rows, CredentialsOfAll
  <2>2. s.life = r.life
    BY <1>2, <2>1 DEF MeshRows
  <2>3. s.addressed = r.addressed
    BY <1>2 DEF MeshRows
  <2>4. s.peer = r.peer
    BY <1>2 DEF MeshRows
  <2>5. s.service = r.service
    BY <1>2 DEF MeshRows
  <2>6. QED
    BY <1>2, <2>2, <2>3, <2>4, <2>5, UnsignedSteps
<1>6. /\ t \in MeshRows /\ RevisionsGrow(s, t)
      /\ t.life = s.life /\ t.issuer = s.issuer
      /\ t.peer = s.peer /\ t.addressed = s.addressed
      /\ t.relay = s.relay /\ t.suspended = s.suspended
      /\ t.service = s.service /\ t.paused = s.paused /\ t.policy = s.policy
  BY <1>2, BumpFields DEF Revisions
<1> HIDE DEF t
<1>7. \A k \in Revisions : r.rev[k] \in Nat /\ s.rev[k] \in Nat /\ t.rev[k] \in Nat
  BY <1>2, <1>6 DEF MeshRows
<1>8. /\ RevisionsGrow(r, t)
      /\ ps # {} => \A k \in {"directory", "service", "revocation"} : t.rev[k] # r.rev[k]
  BY <1>2, <1>6, <1>7 DEF RevisionsGrow, Revisions
<1>9. ps # {} => Steps(r, t)
  BY <1>2, <1>3, <1>6, <1>8, StopSteps
<1>10. QED
  BY <1>4, <1>5, <1>9

\* bulk_disable_peers.
LEMMA BulkStopSteps ==
    ASSUME NEW r \in MeshRows, RowsInv(r), NEW ps \in SUBSET Peers
    PROVE  Steps(r, Bump([Set(r, Rows(r, CredentialsOfAll(ps)), "revoked") EXCEPT
                            !.peer = [p \in Peers |-> IF p \in ps THEN "disabled" ELSE r.peer[p]],
                            !.addressed = [p \in Peers |-> p \notin ps /\ r.addressed[p]],
                            !.service = [s \in Services |->
                                            IF ProviderOf[s] \in ps /\ r.service[s] = "enabled"
                                            THEN "disabled" ELSE r.service[s]]],
                         {"directory", "service", "revocation"}))
<1> DEFINE m == Set(r, Rows(r, CredentialsOfAll(ps)), "revoked")
           peer == [p \in Peers |-> IF p \in ps THEN "disabled" ELSE r.peer[p]]
           addressed == [p \in Peers |-> p \notin ps /\ r.addressed[p]]
           service == [s \in Services |-> IF ProviderOf[s] \in ps /\ r.service[s] = "enabled"
                                          THEN "disabled" ELSE r.service[s]]
           c == [m EXCEPT !.peer = peer, !.addressed = addressed, !.service = service]
           s == Bump(c, {"directory", "service", "revocation"})
<1> SUFFICES Steps(r, s)
  OBVIOUS
<1>1. /\ m \in MeshRows
      /\ \A x \in Serials : m.life[x] = IF x \in Rows(r, CredentialsOfAll(ps))
                                        THEN "revoked" ELSE r.life[x]
      /\ m.issuer = r.issuer /\ m.relay = r.relay /\ m.suspended = r.suspended
      /\ m.paused = r.paused /\ m.policy = r.policy /\ m.rev = r.rev
  BY SetFields DEF Lifecycles
<1> HIDE DEF m
<1>2. addressed \in [Peers -> BOOLEAN]
  BY DEF MeshRows
<1>3. peer \in [Peers -> {"none", "enabled", "disabled", "deleted"}]
  BY DEF MeshRows
<1>4. service \in [Services -> {"none", "enabled", "disabled"}]
  BY DEF MeshRows
<1>5. /\ \A p \in Peers : addressed[p] <=> p \notin ps /\ r.addressed[p]
      /\ \A p \in Peers : peer[p] = IF p \in ps THEN "disabled" ELSE r.peer[p]
      /\ \A v \in Services : service[v] = IF ProviderOf[v] \in ps /\ r.service[v] = "enabled"
                                          THEN "disabled" ELSE r.service[v]
  OBVIOUS
<1> HIDE DEF addressed, peer, service
<1>6. /\ c \in MeshRows /\ c.life = m.life /\ c.issuer = m.issuer /\ c.peer = peer
      /\ c.addressed = addressed /\ c.service = service
      /\ c.relay = m.relay /\ c.suspended = m.suspended /\ c.paused = m.paused
      /\ c.policy = m.policy /\ c.rev = m.rev
  BY <1>1, <1>2, <1>3, <1>4 DEF MeshRows
<1> HIDE DEF c
<1>7. /\ s \in MeshRows /\ RevisionsGrow(r, s)
      /\ \A k \in {"directory", "service", "revocation"} : s.rev[k] # r.rev[k]
      /\ s.life = c.life /\ s.issuer = c.issuer
      /\ s.peer = c.peer /\ s.addressed = c.addressed
      /\ s.relay = c.relay /\ s.suspended = c.suspended
      /\ s.service = c.service /\ s.paused = c.paused /\ s.policy = c.policy
  BY <1>1, <1>6, BumpFields DEF Revisions
<1> HIDE DEF s
<1>8. \A p \in Peers : IF p \in ps THEN s.peer[p] \in {"disabled", "deleted"}
                       ELSE s.peer[p] = r.peer[p]
  BY <1>5, <1>6, <1>7
<1>9. QED
  BY <1>1, <1>5, <1>6, <1>7, <1>8, StopSteps

\* stage_authority.
LEMMA StageAuthoritySteps ==
    ASSUME NEW r \in MeshRows, RowsInv(r), NEW a \in Authorities, r.life[a] = "none"
    PROVE  Steps(r, Set(r, {a}, "staged"))
<1> DEFINE s == Set(r, {a}, "staged")
<1>1. /\ s \in MeshRows
      /\ \A x \in Serials : s.life[x] = IF x \in {a} THEN "staged" ELSE r.life[x]
      /\ s.issuer = r.issuer /\ s.peer = r.peer /\ s.addressed = r.addressed
      /\ s.relay = r.relay /\ s.suspended = r.suspended
      /\ s.service = r.service /\ s.paused = r.paused
      /\ s.policy = r.policy /\ s.rev = r.rev
  BY SetFields DEF Lifecycles
<1> HIDE DEF s
<1>2. RevisionsGrow(r, s)
  BY <1>1 DEF RevisionsGrow, MeshRows
<1> DEFINE fresh == {a}
<1>3. /\ \A x \in fresh : x \in Serials /\ r.life[x] = "none"
      /\ \A x \in Serials : s.life[x] = IF x \in fresh THEN "staged" ELSE r.life[x]
      /\ \A x \in Subjects : IF x \in fresh THEN r.life[s.issuer[x]] # "revoked"
                             ELSE s.issuer[x] = r.issuer[x]
  BY <1>1, SerialFacts
<1> HIDE DEF fresh
<1>4. Steps(r, s)
  BY <1>1, <1>2, <1>3, StagedSteps
<1>5. QED
  BY <1>4 DEF s

\* rotate_subject of a Relay.
LEMMA RotateRelaySteps ==
    ASSUME NEW r \in MeshRows, RowsInv(r), NEW x \in RelaySerials, r.life[x] = "none",
           NEW a \in Authorities, r.life[a] # "revoked"
    PROVE  Steps(r, [Set(r, {x}, "staged") EXCEPT !.issuer[x] = a])
<1> DEFINE m == Set(r, {x}, "staged")
           s == [m EXCEPT !.issuer[x] = a]
<1>1. /\ m \in MeshRows
      /\ \A y \in Serials : m.life[y] = IF y \in {x} THEN "staged" ELSE r.life[y]
      /\ m.issuer = r.issuer /\ m.peer = r.peer /\ m.addressed = r.addressed
      /\ m.relay = r.relay /\ m.suspended = r.suspended
      /\ m.service = r.service /\ m.paused = r.paused
      /\ m.policy = r.policy /\ m.rev = r.rev
  BY SetFields DEF Lifecycles
<1> HIDE DEF m
<1>2. x \in Subjects
  BY SerialFacts
<1>3. /\ s \in MeshRows /\ s.life = m.life /\ s.issuer = [m.issuer EXCEPT ![x] = a]
      /\ s.peer = m.peer /\ s.addressed = m.addressed
      /\ s.relay = m.relay /\ s.suspended = m.suspended
      /\ s.service = m.service /\ s.paused = m.paused
      /\ s.policy = m.policy /\ s.rev = m.rev
  BY <1>1, <1>2 DEF MeshRows
<1> HIDE DEF s
<1>4. RevisionsGrow(r, s)
  BY <1>1, <1>3 DEF RevisionsGrow, MeshRows
<1>5. \A y \in Subjects : s.issuer[y] = IF y = x THEN a ELSE r.issuer[y]
  BY <1>1, <1>3 DEF MeshRows
<1> DEFINE fresh == {x}
<1>6. /\ \A y \in fresh : y \in Serials /\ r.life[y] = "none"
      /\ \A y \in Serials : s.life[y] = IF y \in fresh THEN "staged" ELSE r.life[y]
      /\ \A y \in Subjects : IF y \in fresh THEN r.life[s.issuer[y]] # "revoked"
                             ELSE s.issuer[y] = r.issuer[y]
  BY <1>1, <1>3, <1>5, SerialFacts
<1> HIDE DEF fresh
<1>7. /\ s.peer = r.peer /\ s.addressed = r.addressed
      /\ s.relay = r.relay /\ s.suspended = r.suspended
      /\ s.service = r.service /\ s.paused = r.paused /\ s.policy = r.policy
  BY <1>1, <1>3
<1>8. Steps(r, s)
  BY ZenonT(60), <1>3, <1>4, <1>6, <1>7, StagedSteps
<1>9. QED
  BY <1>8 DEF s, m

\* issue_pending_peer_rotations: staged credentials for a set of Peers.
LEMMA IssueSteps ==
    ASSUME NEW r \in MeshRows, RowsInv(r), NEW fresh \in SUBSET PeerSerials,
           \A x \in fresh : r.life[x] = "none", NEW a,
           fresh # {} => a \in Authorities /\ r.life[a] # "revoked",
           NEW rotation \in [Peers -> {"none", "pending", "issued", "activated", "cancelled"}],
           NEW n \in Nat
    PROVE  Steps(r, Raise([Set(r, fresh, "staged") EXCEPT
                             !.issuer = [x \in Subjects |-> IF x \in fresh THEN a ELSE r.issuer[x]],
                             !.rotation = rotation], {"directory"}, n))
<1> DEFINE m == Set(r, fresh, "staged")
           issuer == [x \in Subjects |-> IF x \in fresh THEN a ELSE r.issuer[x]]
           b == [m EXCEPT !.issuer = issuer, !.rotation = rotation]
           s == Raise(b, {"directory"}, n)
<1> SUFFICES Steps(r, s)
  OBVIOUS
<1>1. /\ m \in MeshRows
      /\ \A y \in Serials : m.life[y] = IF y \in fresh THEN "staged" ELSE r.life[y]
      /\ m.peer = r.peer /\ m.addressed = r.addressed
      /\ m.relay = r.relay /\ m.suspended = r.suspended
      /\ m.service = r.service /\ m.paused = r.paused
      /\ m.policy = r.policy /\ m.rev = r.rev
  BY SetFields DEF Lifecycles
<1> HIDE DEF m
<1>2. issuer \in [Subjects -> Authorities]
  BY DEF MeshRows
<1>3. \A x \in Subjects : issuer[x] = IF x \in fresh THEN a ELSE r.issuer[x]
  OBVIOUS
<1> HIDE DEF issuer
<1>4. /\ b \in MeshRows /\ b.life = m.life /\ b.issuer = issuer
      /\ b.peer = m.peer /\ b.addressed = m.addressed
      /\ b.relay = m.relay /\ b.suspended = m.suspended
      /\ b.service = m.service /\ b.paused = m.paused
      /\ b.policy = m.policy /\ b.rev = m.rev
  BY <1>1, <1>2 DEF MeshRows
<1> HIDE DEF b
<1>5. /\ s \in MeshRows /\ RevisionsGrow(r, s)
      /\ s.life = b.life /\ s.issuer = b.issuer
      /\ s.peer = b.peer /\ s.addressed = b.addressed
      /\ s.relay = b.relay /\ s.suspended = b.suspended
      /\ s.service = b.service /\ s.paused = b.paused /\ s.policy = b.policy
  BY <1>1, <1>4, RaiseFields DEF Revisions
<1> HIDE DEF s
<1>6. \A x \in Subjects : IF x \in fresh THEN r.life[s.issuer[x]] # "revoked"
                          ELSE s.issuer[x] = r.issuer[x]
  BY <1>3, <1>4, <1>5
<1>7. \A x \in fresh : x \in Serials
  BY SerialFacts
<1>8. QED
  BY <1>1, <1>4, <1>5, <1>6, <1>7, StagedSteps

\* renew_relay_credentials of a managed Relay.
LEMMA RenewRelaySteps ==
    ASSUME NEW r \in MeshRows, RowsInv(r), NEW x \in RelaySerials, r.life[x] = "none",
           NEW a \in Authorities, r.life[a] # "revoked"
    PROVE  Steps(r, Bump([Set(Set(r, {y \in Holders(x) : r.life[y] = "active"}, "overlap"),
                              {x}, "active") EXCEPT !.issuer[x] = a], {"relay"}))
<1> DEFINE ys == {y \in Holders(x) : r.life[y] = "active"}
           m == Set(r, ys, "overlap")
           n == Set(m, {x}, "active")
           b == [n EXCEPT !.issuer[x] = a]
           s == Bump(b, {"relay"})
<1> SUFFICES Steps(r, s)
  OBVIOUS
<1>1. /\ m \in MeshRows
      /\ \A y \in Serials : m.life[y] = IF y \in ys THEN "overlap" ELSE r.life[y]
      /\ m.issuer = r.issuer /\ m.peer = r.peer /\ m.addressed = r.addressed
      /\ m.service = r.service /\ m.paused = r.paused
      /\ m.policy = r.policy /\ m.rev = r.rev
  BY SetFields DEF Lifecycles
<1> HIDE DEF m
<1>2. /\ n \in MeshRows
      /\ \A y \in Serials : n.life[y] = IF y \in {x} THEN "active" ELSE m.life[y]
      /\ n.issuer = r.issuer /\ n.peer = r.peer /\ n.addressed = r.addressed
      /\ n.service = r.service /\ n.paused = r.paused
      /\ n.policy = r.policy /\ n.rev = r.rev
  BY <1>1, SetFields DEF Lifecycles
<1> HIDE DEF n
<1>3. x \in Subjects
  BY SerialFacts
<1>4. /\ b \in MeshRows /\ b.life = n.life /\ b.issuer = [n.issuer EXCEPT ![x] = a]
      /\ b.peer = n.peer /\ b.addressed = n.addressed
      /\ b.service = n.service /\ b.paused = n.paused
      /\ b.policy = n.policy /\ b.rev = n.rev
  BY <1>2, <1>3 DEF MeshRows
<1> HIDE DEF b
<1>5. /\ s \in MeshRows /\ RevisionsGrow(r, s) /\ s.rev["relay"] # r.rev["relay"]
      /\ s.life = b.life /\ s.issuer = b.issuer
      /\ s.peer = b.peer /\ s.addressed = b.addressed
      /\ s.service = b.service /\ s.paused = b.paused /\ s.policy = b.policy
  BY <1>2, <1>4, BumpFields DEF Revisions
<1> HIDE DEF s
<1>6. \A y \in Subjects : s.issuer[y] = IF y = x THEN a ELSE r.issuer[y]
  BY <1>2, <1>4, <1>5 DEF MeshRows
<1>7. \A y \in Holders(x) : y \in RelaySerials
  BY SerialFacts DEF Holders
<1>8. \A y \in Serials \ {x} :
         \/ s.life[y] = r.life[y]
         \/ y \in RelaySerials /\ r.life[y] = "active" /\ s.life[y] = "overlap"
  BY <1>1, <1>2, <1>4, <1>5, <1>7
<1>9. s.life[x] = "active" /\ r.life[s.issuer[x]] # "revoked"
  BY <1>2, <1>3, <1>4, <1>5, <1>6, SerialFacts
<1>10. \A y \in Subjects \ {x} : s.issuer[y] = r.issuer[y]
  BY <1>6
<1>11. /\ s.peer = r.peer /\ s.addressed = r.addressed
       /\ s.service = r.service /\ s.paused = r.paused /\ s.policy = r.policy
  BY <1>2, <1>4, <1>5
<1>12. QED
  BY <1>5, <1>8, <1>9, <1>10, <1>11, RelayCredentialSteps

\* A managed host enrols its Relay.
LEMMA EnrolRelaySteps ==
    ASSUME NEW r \in MeshRows, RowsInv(r), NEW x \in RelaySerials, r.life[x] = "none",
           NEW a \in Authorities, r.life[a] # "revoked"
    PROVE  Steps(r, Bump([Set(r, {x}, "active") EXCEPT
                            !.issuer[x] = a, !.relay[RelayOf[x]] = "enabled"], {"relay"}))
<1> DEFINE n == Set(r, {x}, "active")
           b == [n EXCEPT !.issuer[x] = a, !.relay[RelayOf[x]] = "enabled"]
           s == Bump(b, {"relay"})
<1> SUFFICES Steps(r, s)
  OBVIOUS
<1>1. /\ n \in MeshRows
      /\ \A y \in Serials : n.life[y] = IF y \in {x} THEN "active" ELSE r.life[y]
      /\ n.issuer = r.issuer /\ n.peer = r.peer /\ n.addressed = r.addressed
      /\ n.service = r.service /\ n.paused = r.paused
      /\ n.policy = r.policy /\ n.rev = r.rev
  BY SetFields DEF Lifecycles
<1> HIDE DEF n
<1>2. x \in Subjects /\ RelayOf[x] \in Relays
  BY SerialFacts, InstallationAssumption
<1>3. /\ b \in MeshRows /\ b.life = n.life /\ b.issuer = [n.issuer EXCEPT ![x] = a]
      /\ b.peer = n.peer /\ b.addressed = n.addressed
      /\ b.service = n.service /\ b.paused = n.paused
      /\ b.policy = n.policy /\ b.rev = n.rev
  BY <1>1, <1>2 DEF MeshRows
<1> HIDE DEF b
<1>4. /\ s \in MeshRows /\ RevisionsGrow(r, s) /\ s.rev["relay"] # r.rev["relay"]
      /\ s.life = b.life /\ s.issuer = b.issuer
      /\ s.peer = b.peer /\ s.addressed = b.addressed
      /\ s.service = b.service /\ s.paused = b.paused /\ s.policy = b.policy
  BY <1>1, <1>3, BumpFields DEF Revisions
<1> HIDE DEF s
<1>5. \A y \in Subjects : s.issuer[y] = IF y = x THEN a ELSE r.issuer[y]
  BY <1>1, <1>3, <1>4 DEF MeshRows
<1>6. \A y \in Serials \ {x} : s.life[y] = r.life[y]
  BY <1>1, <1>3, <1>4
<1>7. s.life[x] = "active" /\ r.life[s.issuer[x]] # "revoked"
  BY <1>1, <1>2, <1>3, <1>4, <1>5, SerialFacts
<1>8. \A y \in Subjects \ {x} : s.issuer[y] = r.issuer[y]
  BY <1>5
<1>9. /\ s.peer = r.peer /\ s.addressed = r.addressed
      /\ s.service = r.service /\ s.paused = r.paused /\ s.policy = r.policy
  BY <1>1, <1>3, <1>4
<1>10. QED
  BY <1>4, <1>6, <1>7, <1>8, <1>9, RelayCredentialSteps

\* delete_relay and bulk_disable_relays.
LEMMA RevokeRelaysSteps ==
    ASSUME NEW r \in MeshRows, RowsInv(r), NEW qs \in SUBSET Relays
    PROVE  Steps(r, Bump(RevokeRelays(r, qs), {"relay", "directory", "revocation"}))
<1> DEFINE xs == Rows(r, {x \in RelaySerials : RelayOf[x] \in qs})
           m == Set(r, xs, "revoked")
           relay == [q \in Relays |-> IF q \in qs THEN "disabled" ELSE r.relay[q]]
           b == [m EXCEPT !.relay = relay]
           s == Bump(b, {"relay", "directory", "revocation"})
<1> SUFFICES Steps(r, s)
  BY DEF RevokeRelays
<1>1. /\ m \in MeshRows
      /\ \A y \in Serials : m.life[y] = IF y \in xs THEN "revoked" ELSE r.life[y]
      /\ m.issuer = r.issuer /\ m.peer = r.peer /\ m.addressed = r.addressed
      /\ m.service = r.service /\ m.paused = r.paused
      /\ m.policy = r.policy /\ m.rev = r.rev
  BY SetFields DEF Lifecycles
<1> HIDE DEF m
<1>2. \A x \in xs : x \in RelaySerials /\ r.life[x] \notin {"none", "gone"}
  BY DEF Rows
<1>3. relay \in [Relays -> {"none", "enabled", "disabled"}]
  BY DEF MeshRows
<1> HIDE DEF relay, xs
<1>4. /\ b \in MeshRows /\ b.life = m.life /\ b.issuer = m.issuer
      /\ b.peer = m.peer /\ b.addressed = m.addressed
      /\ b.service = m.service /\ b.paused = m.paused
      /\ b.policy = m.policy /\ b.rev = m.rev
  BY <1>1, <1>3 DEF MeshRows
<1> HIDE DEF b
<1>5. /\ s \in MeshRows /\ RevisionsGrow(r, s)
      /\ \A k \in {"relay", "directory", "revocation"} : s.rev[k] # r.rev[k]
      /\ s.life = b.life /\ s.issuer = b.issuer
      /\ s.peer = b.peer /\ s.addressed = b.addressed
      /\ s.service = b.service /\ s.paused = b.paused /\ s.policy = b.policy
  BY SMTT(60), <1>1, <1>4, BumpFields DEF Revisions
<1> HIDE DEF s
<1>6. RowsAge(r, s)
  BY <1>1, <1>4, <1>5, <1>2 DEF RowsAge
<1>7. RowsInv(s)
  BY <1>1, <1>4, <1>5 DEF RowsInv
<1>8. \A x \in Authorities \cup PeerSerials : s.life[x] = r.life[x]
  BY <1>1, <1>4, <1>5, <1>2, SerialFacts
<1>9. AuthoritiesKept(r, s)
  BY <1>8 DEF AuthoritiesKept, LifeKept
<1>10. \A p \in Peers : ProviderKept(r, s, p)
  BY <1>1, <1>4, <1>5, <1>8 DEF ProviderKept, CredentialsOf, CredentialKept, LifeKept
<1>11. ServicesKept(r, s)
  BY <1>1, <1>4, <1>5, <1>9, <1>10 DEF ServicesKept
<1>12. QED
  BY <1>1, <1>4, <1>5, <1>6, <1>7, <1>9, <1>11 DEF Steps, Kept

\* Maintenance deletes a staged or revoked row that nothing refers to.
LEMMA DeleteSteps ==
    ASSUME NEW r \in MeshRows, RowsInv(r), NEW x \in Serials,
           r.life[x] \in {"staged", "revoked"},
           x \in Authorities =>
             \A y \in Subjects : r.issuer[y] = x => r.life[y] \in {"none", "gone"}
    PROVE  Steps(r, Set(r, {x}, "gone"))
<1> DEFINE s == Set(r, {x}, "gone")
<1>1. /\ s \in MeshRows
      /\ \A y \in Serials : s.life[y] = IF y \in {x} THEN "gone" ELSE r.life[y]
      /\ s.issuer = r.issuer /\ s.peer = r.peer /\ s.addressed = r.addressed
      /\ s.relay = r.relay /\ s.suspended = r.suspended
      /\ s.service = r.service /\ s.paused = r.paused
      /\ s.policy = r.policy /\ s.rev = r.rev
  BY SetFields DEF Lifecycles
<1> HIDE DEF s
<1>2. RevisionsGrow(r, s)
  BY <1>1 DEF RevisionsGrow, MeshRows
<1>3. RowsAge(r, s)
  BY <1>1 DEF RowsAge
<1>4. RowsInv(s)
  BY <1>1 DEF RowsInv
<1>5. \A y \in Serials : LifeKept(r, s, y) /\ CredentialKept(r, s, y)
  BY <1>1 DEF LifeKept, Unseen, CredentialKept
<1>6. AuthoritiesKept(r, s)
  BY <1>5, SerialFacts DEF AuthoritiesKept
<1>7. PeersKept(r, s) /\ RelaysKept(r, s) /\ ServicesKept(r, s)
  BY <1>1, <1>5, <1>6, SerialFacts DEF PeersKept, RelaysKept, ServicesKept, ProviderKept,
                                       CredentialsOf
<1>8. RevocationsKept(r, s)
  <2>1. \A y \in Subjects : r.issuer[y] \in Authorities /\ r.issuer[y] \in Serials
    BY SerialFacts DEF MeshRows
  <2>2. \A y \in Serials : Revoked(s, y) => Revoked(r, y)
    BY <1>1, <2>1 DEF Revoked
  <2>3. ASSUME NEW y \in Serials, Revoked(r, y)
        PROVE  Revoked(s, y) \/ s.life[y] = "gone"
    <3>1. CASE y = x
      BY <1>1, <3>1
    <3>2. CASE y # x /\ r.life[y] = "revoked"
      BY <1>1, <3>2 DEF Revoked
    <3>3. CASE y # x /\ y \in Subjects /\ r.life[y] \notin {"none", "gone"}
               /\ r.life[r.issuer[y]] = "revoked"
      <4>1. r.issuer[y] # x
        BY <2>1, <3>3
      <4>2. s.life[r.issuer[y]] = "revoked" /\ s.life[y] = r.life[y]
        BY <1>1, <2>1, <3>3, <4>1
      <4>3. QED
        BY <1>1, <3>3, <4>2 DEF Revoked
    <3>4. QED
      BY <2>3, <3>1, <3>2, <3>3 DEF Revoked
  <2>4. QED
    BY <2>2, <2>3 DEF RevocationsKept
<1>9. Steps(r, s)
  BY <1>1, <1>2, <1>3, <1>4, <1>6, <1>7, <1>8 DEF Steps, Kept
<1>10. QED
  BY <1>9 DEF s

-----------------------------------------------------------------------------
(* Every transaction, lapse and pass that signs nothing is such a step.    *)

\* The clock after the rows have changed: Deadlines of Store.
LEMMA StoreClock ==
    ASSUME TypeOK, OverdueInv, NEW r \in MeshRows, Store(r)
    PROVE  db' = r /\ ClockMoves
<1>1. db' = r /\ clock' = Deadlines(db, r)
  BY DEF Store
<1>2. clock \in Clocks
  BY DEF TypeOK
<1> DEFINE xs == {x \in clock.overdue : db.life[x] = "overlap" /\ r.life[x] = "overlap"}
<1>3. /\ clock' \in Clocks /\ clock'.expired = clock.expired /\ clock'.overdue = xs
  BY <1>1, <1>2 DEF Deadlines, Clocks
<1>4. QED
  BY <1>1, <1>3 DEF ClockMoves, OverdueInv

\* Rows that a transaction commits.
LEMMA CommitMoves ==
    ASSUME TypeOK, NEW r, Steps(db, r), OverdueInv, Commit(r)
    PROVE  Moves
<1>1. r \in MeshRows
  BY DEF Steps
<1>2. db' = r /\ ClockMoves
  BY <1>1, StoreClock DEF Commit
<1>3. TypeOK'
  BY <1>1, <1>2 DEF TypeOK, Commit, ClockMoves
<1>4. QED
  BY <1>2, <1>3 DEF Moves, RowsMove, Commit

\* Rows that stay as they are.
LEMMA SameRowsMove ==
    ASSUME TypeOK, RowsInv(db), OverdueInv, TypeOK', UNCHANGED <<db, signed, config>>,
           clock.expired \subseteq clock'.expired, clock.overdue \subseteq clock'.overdue,
           \A x \in clock'.overdue : x \in clock.overdue \/ db.life[x] = "overlap",
           \A k \in Controls : /\ pub'[k].rows \subseteq pub[k].rows
                               /\ pub'[k].stored \subseteq pub[k].stored
    PROVE  Moves
<1>1. Steps(db, db')
  BY FenceSteps DEF TypeOK
<1>2. ClockMoves
  BY DEF ClockMoves, OverdueInv, TypeOK
<1>3. QED
  BY <1>1, <1>2 DEF Moves, RowsMove

\* Peers are stopped: RevokePeerAccess after the state of one Peer is written.
LEMMA StopOneSteps ==
    ASSUME NEW r \in MeshRows, RowsInv(r), NEW p \in Peers, NEW state \in {"disabled", "deleted"}
    PROVE  LET s == RevokePeerAccess([r EXCEPT !.peer[p] = state], {p})
           IN  Steps(r, s) /\ Steps(r, Bump(s, {"directory"}))
<1> DEFINE b == [r EXCEPT !.peer[p] = state]
           ps == {p}
<1>1. /\ b \in MeshRows /\ b.rev = r.rev /\ b.life = r.life /\ b.issuer = r.issuer
      /\ b.peer = [r.peer EXCEPT ![p] = state] /\ b.addressed = r.addressed
      /\ b.relay = r.relay /\ b.suspended = r.suspended
      /\ b.service = r.service /\ b.paused = r.paused /\ b.policy = r.policy
  BY DEF MeshRows
<1>2. \A q \in Peers : IF q \in ps THEN b.peer[q] \in {"disabled", "deleted"}
                       ELSE b.peer[q] = r.peer[q]
  BY <1>1 DEF MeshRows
<1>3. ps \in SUBSET Peers /\ ps # {}
  OBVIOUS
<1> HIDE DEF b, ps
<1>4. Steps(r, RevokePeerAccess(b, ps)) /\ Steps(r, Bump(RevokePeerAccess(b, ps), {"directory"}))
  BY <1>1, <1>2, <1>3, StopPeersSteps
<1>5. QED
  BY <1>4 DEF b, ps

\* Admission: create_peer, claim_public_join, retire and delete_peer.
LEMMA AdmissionMoves ==
    ASSUME TypeOK, RowsInv(db), OverdueInv, AdmissionTransactions
    PROVE  Moves
<1> db \in MeshRows
  BY DEF TypeOK
<1>1. ASSUME NEW p \in Peers, CreatePeer(p) PROVE Moves
  BY <1>1, EnableSteps, CommitMoves DEF CreatePeer
<1>2. ASSUME NEW p \in Peers, RetireConsoleDevice(p) PROVE Moves
  BY <1>2, StopOneSteps, CommitMoves DEF RetireConsoleDevice
<1>3. ASSUME NEW p \in Peers, DeletePeer(p) PROVE Moves
  BY <1>3, StopOneSteps, CommitMoves DEF DeletePeer
<1>4. ASSUME NEW x \in PeerSerials, NEW a \in Authorities, ClaimJoin(x, a) PROVE Moves
  BY <1>4, JoinSteps, CommitMoves DEF ClaimJoin, AuthorityValid
<1>5. QED
  BY <1>1, <1>2, <1>3, <1>4 DEF AdmissionTransactions

\* transition_credential, of any serial.
LEMMA CredentialMoves ==
    ASSUME TypeOK, RowsInv(db), OverdueInv, NEW x \in Serials,
           ActivateCredential(x) \/ RevokeCredential(x)
    PROVE  Moves
<1> db \in MeshRows
  BY DEF TypeOK
<1>1. CASE ActivateCredential(x)
  BY <1>1, ActivateSteps, CommitMoves DEF ActivateCredential
<1>2. CASE RevokeCredential(x)
  BY <1>2, RevokeSteps, CommitMoves DEF RevokeCredential
<1>3. QED
  BY <1>1, <1>2

\* Devices: patch_peer, disable, bulk disable, rotation and transitions.
LEMMA DeviceMoves ==
    ASSUME TypeOK, RowsInv(db), OverdueInv, DeviceTransactions
    PROVE  Moves
<1> db \in MeshRows
  BY DEF TypeOK
<1>1. ASSUME NEW p \in Peers, EnablePeer(p) PROVE Moves
  BY <1>1, EnableSteps, CommitMoves DEF EnablePeer
<1>2. ASSUME NEW p \in Peers, PatchPeerDisabled(p) PROVE Moves
  BY <1>2, StopOneSteps, CommitMoves DEF PatchPeerDisabled
<1>3. ASSUME NEW p \in Peers, DisablePeer(p) PROVE Moves
  BY <1>3, StopOneSteps, CommitMoves DEF DisablePeer
<1>4. ASSUME NEW p \in Peers, NEW x \in PeerSerials, RequestPeerRotation(p, x) PROVE Moves
  BY <1>4, RotationRequestSteps, CommitMoves DEF RequestPeerRotation
<1>5. ASSUME NEW p \in Peers, NEW x \in PeerSerials, ActivatePeerRotation(p, x) PROVE Moves
  <2>1. x \in CredentialsOf(p) /\ db.life[x] = "staged"
    BY <1>5 DEF ActivatePeerRotation, CredentialsOf
  <2>2. QED
    BY <1>5, <2>1, RotationSteps, CommitMoves DEF ActivatePeerRotation
<1>6. ASSUME NEW ps \in SUBSET Peers, BulkDisablePeers(ps) PROVE Moves
  BY <1>6, BulkStopSteps, CommitMoves DEF BulkDisablePeers
<1>7. ASSUME NEW x \in PeerSerials, ActivateCredential(x) \/ RevokeCredential(x) PROVE Moves
  BY <1>7, CredentialMoves, SerialFacts
<1>8. QED
  BY <1>1, <1>2, <1>3, <1>4, <1>5, <1>6, <1>7 DEF DeviceTransactions

\* Authorities are staged, activated and revoked.
LEMMA AuthorityMoves ==
    ASSUME TypeOK, RowsInv(db), OverdueInv, AuthorityTransactions
    PROVE  Moves
<1> db \in MeshRows
  BY DEF TypeOK
<1>1. ASSUME NEW a \in Authorities, StageAuthority(a) PROVE Moves
  BY <1>1, StageAuthoritySteps, CommitMoves DEF StageAuthority
<1>2. ASSUME NEW a \in Authorities, ActivateCredential(a) \/ RevokeCredential(a) PROVE Moves
  BY <1>2, CredentialMoves, SerialFacts
<1>3. QED
  BY <1>1, <1>2 DEF AuthorityTransactions

\* Relays, their credentials and their hosts.
LEMMA RelayMoves ==
    ASSUME TypeOK, RowsInv(db), OverdueInv, RelayTransactions
    PROVE  Moves
<1> db \in MeshRows
  BY DEF TypeOK
<1>1. ASSUME NEW x \in RelaySerials, RotateRelay(x) PROVE Moves
  BY <1>1, RotateRelaySteps, CommitMoves DEF RotateRelay, ActiveAuthority
<1>2. ASSUME NEW x \in RelaySerials, RenewRelayCredential(x) PROVE Moves
  BY <1>2, RenewRelaySteps, CommitMoves DEF RenewRelayCredential, ActiveAuthority
<1>3. ASSUME NEW x \in RelaySerials, EnrolRelay(x) PROVE Moves
  BY <1>3, EnrolRelaySteps, CommitMoves DEF EnrolRelay, ActiveAuthority
<1>4. ASSUME NEW x \in RelaySerials, ActivateCredential(x) \/ RevokeCredential(x) PROVE Moves
  BY <1>4, CredentialMoves, SerialFacts
<1>5. ASSUME NEW q \in Relays, CreateRelay(q) PROVE Moves
  BY <1>5, RelaySteps, CommitMoves DEF CreateRelay
<1>6. ASSUME NEW q \in Relays, NEW state \in {"enabled", "disabled"}, PatchRelay(q, state)
      PROVE  Moves
  BY <1>6, RelaySteps, CommitMoves DEF PatchRelay
<1>7. ASSUME NEW q \in Relays, ChangeHostAssignment(q) PROVE Moves
  BY <1>7, RelaySteps, CommitMoves DEF ChangeHostAssignment
<1>8. ASSUME NEW q \in Relays, DeleteRelay(q) PROVE Moves
  BY <1>8, RevokeRelaysSteps, CommitMoves DEF DeleteRelay
<1>9. ASSUME NEW qs \in SUBSET Relays, BulkDisableRelays(qs) PROVE Moves
  BY <1>9, RevokeRelaysSteps, CommitMoves DEF BulkDisableRelays
<1>10. QED
  BY <1>1, <1>2, <1>3, <1>4, <1>5, <1>6, <1>7, <1>8, <1>9 DEF RelayTransactions

\* Services are created, published, removed, disabled, paused and resumed.
LEMMA ServiceMoves ==
    ASSUME TypeOK, RowsInv(db), OverdueInv, ServiceTransactions
    PROVE  Moves
<1> db \in MeshRows
  BY DEF TypeOK
<1>0. db.service \in [Services -> {"none", "enabled", "disabled"}] /\ db.paused \in SUBSET Services
  BY DEF MeshRows
<1>1. ASSUME NEW v \in Services, NEW state \in {"enabled", "disabled"},
             state = "enabled" => db.peer[ProviderOf[v]] # "none"
      PROVE  Steps(db, Bump([db EXCEPT !.service[v] = state], {"service", "directory"}))
  <2> DEFINE service == [db.service EXCEPT ![v] = state]
  <2>1. /\ service \in [Services -> {"none", "enabled", "disabled"}]
        /\ \A w \in Services : service[w] = "enabled" =>
               db.service[w] = "enabled" \/ db.peer[ProviderOf[w]] # "none"
    BY <1>0, <1>1
  <2>2. [db EXCEPT !.service[v] = state] = [db EXCEPT !.service = service]
    OBVIOUS
  <2> HIDE DEF service
  <2>3. QED
    BY <2>1, <2>2, ServiceSteps
<1>2. ASSUME NEW v \in Services, CreateService(v) PROVE Moves
  BY <1>1, <1>2, CommitMoves DEF CreateService, Offered
<1>3. ASSUME NEW v \in Services, PublishPeerService(v) PROVE Moves
  BY <1>1, <1>3, CommitMoves DEF PublishPeerService, Offered, AuthenticatedPeer
<1>4. ASSUME NEW v \in Services, RemovePeerService(v) PROVE Moves
  BY <1>1, <1>4, CommitMoves DEF RemovePeerService
<1>5. ASSUME NEW v \in Services, NEW paused \in BOOLEAN, EditConsoleService(v, paused)
      PROVE  Moves
  <2> DEFINE after == IF paused THEN db.paused \cup {v} ELSE db.paused \ {v}
  <2>1. after \in SUBSET Services
    BY <1>0
  <2>2. Commit(Bump(Recompiled([db EXCEPT !.paused = after]),
                    {"service", "directory", "management"}))
    BY <1>5 DEF EditConsoleService
  <2> HIDE DEF after
  <2>3. QED
    BY <2>1, <2>2, EditServiceSteps, CommitMoves
<1>6. ASSUME NEW ss \in SUBSET Services, DisableServices(ss) PROVE Moves
  <2> DEFINE service == [v \in Services |-> IF v \in ss THEN "disabled" ELSE db.service[v]]
  <2>1. /\ service \in [Services -> {"none", "enabled", "disabled"}]
        /\ \A w \in Services : service[w] = "enabled" => db.service[w] = "enabled"
    BY <1>0
  <2>2. Commit(Bump([db EXCEPT !.service = service], {"service", "directory"}))
    BY <1>6 DEF DisableServices
  <2> HIDE DEF service
  <2>3. QED
    BY <2>1, <2>2, ServiceSteps, CommitMoves
<1>7. QED
  BY <1>2, <1>3, <1>4, <1>5, <1>6 DEF ServiceTransactions

\* put_policy in its two halves, and the network resources.
LEMMA PolicyMoves ==
    ASSUME TypeOK, RowsInv(db), OverdueInv, PolicyTransactions
    PROVE  Moves
<1> db \in MeshRows
  BY DEF TypeOK
<1>1. ASSUME NEW rules \in {"open", "closed"}, NEW ahead \in {1, 2}, ComputePolicy(rules, ahead)
      PROVE  Moves
  <2>1. db.rev["policy"] \in Nat
    BY DEF MeshRows, Revisions
  <2>2. [document |-> EffectivePolicy(db, rules), revision |-> db.rev["policy"] + ahead] \in Drafts
    BY <2>1, EffectivePolicyType DEF Drafts
  <2>3. TypeOK'
    BY <1>1, <2>2 DEF TypeOK, ComputePolicy
  <2>4. QED
    BY <1>1, <2>3, SameRowsMove DEF ComputePolicy
<1>2. CASE PutPolicy
  <2>1. PICK d \in draft :
          /\ changes' = changes + 1 /\ draft' = {}
          /\ db' = IF d.revision > db.rev["policy"]
                   THEN StagePolicy(db, d.document, d.revision) ELSE db
          /\ UNCHANGED <<signed, config, clock, pub, elected, lapses, scope>>
    BY <1>2 DEF PutPolicy
  <2>2. d.document \in [rules : {"open", "closed"}, denied : SUBSET Services] /\ d.revision \in Nat
    BY DEF TypeOK, Drafts
  <2>3. Steps(db, db')
    BY <2>1, <2>2, PolicySteps, FenceSteps
  <2>4. db'.life = db.life
    BY <2>1, <2>2, PolicyFields
  <2>5. TypeOK'
    BY <2>1, <2>3 DEF TypeOK, Steps
  <2>6. ClockMoves
    BY <2>1, <2>4 DEF ClockMoves, OverdueInv, TypeOK
  <2>7. QED
    BY <2>1, <2>3, <2>5, <2>6 DEF Moves, RowsMove
<1>3. CASE ChangeResources
  BY <1>3, EvidenceSteps, CommitMoves DEF ChangeResources
<1>4. QED
  BY <1>1, <1>2, <1>3 DEF PolicyTransactions

\* A transaction of any family.
LEMMA TransactionMoves ==
    ASSUME TypeOK, RowsInv(db), OverdueInv, Transactions
    PROVE  Moves
BY AdmissionMoves, DeviceMoves, AuthorityMoves, RelayMoves, ServiceMoves, PolicyMoves
   DEF Transactions

\* A deadline passes, or evidence does.
LEMMA TimeMoves ==
    ASSUME TypeOK, RowsInv(db), OverdueInv, Time
    PROVE  Moves
<1> db \in MeshRows /\ clock \in Clocks
  BY DEF TypeOK
<1>1. ASSUME NEW x \in Serials, PassNotAfter(x) PROVE Moves
  <2> DEFINE c == [clock EXCEPT !.expired = @ \cup {x}]
  <2>1. /\ c \in Clocks /\ c.expired = clock.expired \cup {x} /\ c.overdue = clock.overdue
    BY DEF Clocks
  <2>2. Lapse(c)
    BY <1>1 DEF PassNotAfter
  <2> HIDE DEF c
  <2>3. TypeOK'
    BY <2>1, <2>2 DEF TypeOK, Lapse
  <2>4. QED
    BY <2>1, <2>2, <2>3, SameRowsMove DEF Lapse
<1>2. ASSUME NEW x \in Serials, PassOverlapDeadline(x) PROVE Moves
  <2> DEFINE c == [clock EXCEPT !.overdue = @ \cup {x}]
  <2>1. /\ c \in Clocks /\ c.overdue = clock.overdue \cup {x} /\ c.expired = clock.expired
    BY DEF Clocks
  <2>2. Lapse(c) /\ db.life[x] = "overlap"
    BY <1>2 DEF PassOverlapDeadline
  <2> HIDE DEF c
  <2>3. TypeOK'
    BY <2>1, <2>2 DEF TypeOK, Lapse
  <2>4. QED
    BY <2>1, <2>2, <2>3, SameRowsMove DEF Lapse
<1>3. ASSUME NEW p \in Peers, PassAdmission(p) PROVE Moves
  <2> DEFINE c == [clock EXCEPT !.admissions = @ \cup {p}]
  <2>1. /\ c \in Clocks /\ c.overdue = clock.overdue /\ c.expired = clock.expired
    BY DEF Clocks
  <2>2. Lapse(c)
    BY <1>3 DEF PassAdmission
  <2> HIDE DEF c
  <2>3. TypeOK'
    BY <2>1, <2>2 DEF TypeOK, Lapse
  <2>4. QED
    BY <2>1, <2>2, <2>3, SameRowsMove DEF Lapse
<1>4. CASE EvidenceLapses
  <2>1. Steps(db, db')
    BY <1>4, EvidenceSteps DEF EvidenceLapses
  <2>2. TypeOK'
    BY <1>4, <2>1 DEF EvidenceLapses, TypeOK, Steps
  <2>3. db'.life = db.life
    BY <1>4 DEF EvidenceLapses, MeshRows
  <2>4. ClockMoves
    BY <1>4, <2>3 DEF EvidenceLapses, ClockMoves, OverdueInv
  <2>5. QED
    BY <1>4, <2>1, <2>2, <2>4 DEF EvidenceLapses, Moves, RowsMove
<1>5. QED
  BY <1>1, <1>2, <1>3, <1>4 DEF Time

\* What a pass becomes: the next step, the end of its transaction, or nothing.
LEMMA PassFacts ==
    ASSUME TypeOK, NEW k \in Controls
    PROVE  /\ \A pc \in {"expire", "refresh", "snapshot", "publish"} :
                Goto(k, pc) /\ (pc = "expire" \/ pub[k].pc \notin {"idle", "expire"}) =>
                    /\ pub' \in [Controls -> Passes]
                    /\ \A j \in Controls : /\ pub'[j].rows \subseteq pub[j].rows
                                           /\ pub'[j].stored \subseteq pub[j].stored
           /\ EndTransaction(k) /\ pub[k].pc \notin {"idle", "expire"} =>
                /\ pub' \in [Controls -> Passes]
                /\ \A j \in Controls : /\ pub'[j].rows \subseteq pub[j].rows
                                       /\ pub'[j].stored \subseteq pub[j].stored
           /\ pub' = [pub EXCEPT ![k] = Idle] =>
                /\ pub' \in [Controls -> Passes]
                /\ \A j \in Controls : /\ pub'[j].rows \subseteq pub[j].rows
                                       /\ pub'[j].stored \subseteq pub[j].stored
           /\ \A a \in Authorities :
                pub' = [pub EXCEPT ![k] = [Idle EXCEPT !.pc = "issue", !.issuer = a]] =>
                    /\ pub' \in [Controls -> Passes]
                    /\ \A j \in Controls : /\ pub'[j].rows \subseteq pub[j].rows
                                           /\ pub'[j].stored \subseteq pub[j].stored
<1>1. pub \in [Controls -> Passes]
  BY DEF TypeOK
<1>2. Idle \in Passes /\ Idle.rows = {} /\ Idle.stored = {}
  BY DEF Idle, Passes
<1>3. ASSUME NEW pc \in {"expire", "refresh", "snapshot", "publish"}, Goto(k, pc),
             pc = "expire" \/ pub[k].pc \notin {"idle", "expire"}
      PROVE  /\ pub' \in [Controls -> Passes]
             /\ \A j \in Controls : /\ pub'[j].rows \subseteq pub[j].rows
                                    /\ pub'[j].stored \subseteq pub[j].stored
  <2> DEFINE q == [pub[k] EXCEPT !.pc = pc]
  <2>1. q \in Passes /\ q.rows = pub[k].rows /\ q.stored = pub[k].stored
    BY <1>1, <1>3 DEF Passes
  <2>2. pub' = [pub EXCEPT ![k] = q]
    BY <1>3 DEF Goto
  <2> HIDE DEF q
  <2>3. QED
    BY <1>1, <2>1, <2>2
<1>4. ASSUME NEW q \in Passes, q.rows = {}, q.stored = {}, pub' = [pub EXCEPT ![k] = q]
      PROVE  /\ pub' \in [Controls -> Passes]
             /\ \A j \in Controls : /\ pub'[j].rows \subseteq pub[j].rows
                                    /\ pub'[j].stored \subseteq pub[j].stored
  BY <1>1, <1>4
<1>5. \A pc \in {"issue", "config"} : \A a \in Authorities :
        LET q == [Idle EXCEPT !.pc = pc, !.issuer = a]
        IN  q \in Passes /\ q.rows = {} /\ q.stored = {}
  BY DEF Idle, Passes
<1>6. pub[k].pc \notin {"idle", "expire"} => pub[k].issuer \in Authorities
  BY <1>1 DEF Passes
<1>7. EndTransaction(k) /\ pub[k].pc \notin {"idle", "expire"} =>
        /\ pub' \in [Controls -> Passes]
        /\ \A j \in Controls : /\ pub'[j].rows \subseteq pub[j].rows
                               /\ pub'[j].stored \subseteq pub[j].stored
  BY <1>4, <1>5, <1>6 DEF EndTransaction
<1>8. ASSUME NEW a \in Authorities,
             pub' = [pub EXCEPT ![k] = [Idle EXCEPT !.pc = "issue", !.issuer = a]]
      PROVE  /\ pub' \in [Controls -> Passes]
             /\ \A j \in Controls : /\ pub'[j].rows \subseteq pub[j].rows
                                    /\ pub'[j].stored \subseteq pub[j].stored
  BY <1>4, <1>5, <1>8
<1>9. QED
  BY <1>2, <1>3, <1>4, <1>7, <1>8

\* The four transactions a pass makes before it reads its snapshot.
LEMMA ExpireAdmissionsMoves ==
    ASSUME TypeOK, RowsInv(db), OverdueInv, NEW k \in Controls, ExpireDeviceAdmissions(k)
    PROVE  Moves
<1> DEFINE due == {p \in Peers : db.peer[p] = "enabled" /\ p \in clock.admissions}
           peer == [p \in Peers |-> IF p \in due THEN "disabled" ELSE db.peer[p]]
           b == [db EXCEPT !.peer = peer, !.ended = @ \cup due]
<1>1. Store(RevokePeerAccess(b, due)) /\ Goto(k, "expire")
      /\ UNCHANGED <<signed, config, draft, elected, changes, lapses, scope>>
  BY DEF ExpireDeviceAdmissions
<1>2. due \in SUBSET Peers
  OBVIOUS
<1> HIDE DEF due
<1>3. /\ peer \in [Peers -> {"none", "enabled", "disabled", "deleted"}]
      /\ \A p \in Peers : peer[p] = IF p \in due THEN "disabled" ELSE db.peer[p]
  BY DEF TypeOK, MeshRows
<1> HIDE DEF peer
<1>4. /\ b \in MeshRows /\ b.rev = db.rev /\ b.life = db.life /\ b.issuer = db.issuer
      /\ b.peer = peer /\ b.addressed = db.addressed
      /\ b.relay = db.relay /\ b.suspended = db.suspended
      /\ b.service = db.service /\ b.paused = db.paused /\ b.policy = db.policy
  BY <1>2, <1>3 DEF TypeOK, MeshRows
<1> HIDE DEF b
<1>5. \A p \in Peers : IF p \in due THEN b.peer[p] \in {"disabled", "deleted"}
                       ELSE b.peer[p] = db.peer[p]
  BY <1>3, <1>4
<1>6. Steps(db, RevokePeerAccess(b, due))
  BY <1>2, <1>4, <1>5, StopPeersSteps DEF TypeOK
<1>7. RevokePeerAccess(b, due) \in MeshRows
  BY <1>6 DEF Steps
<1>8. db' = RevokePeerAccess(b, due) /\ ClockMoves
  BY <1>1, <1>7, StoreClock
<1>9. TypeOK'
  BY <1>1, <1>7, <1>8, PassFacts DEF TypeOK, ClockMoves
<1>10. QED
  BY <1>1, <1>6, <1>8, <1>9, PassFacts DEF Moves, RowsMove

\* expire_credentials and active_issuer.
LEMMA ExpireCredentialsMoves ==
    ASSUME TypeOK, RowsInv(db), OverdueInv, NEW k \in Controls, ExpireCredentials(k)
    PROVE  Moves
<1> DEFINE due == {x \in Serials : Lapsed(x)}
           r == Bump(Set(db, due, "revoked"), ExpiryColumns(due))
<1>1. /\ Store(r)
      /\ \/ \E a \in Authorities :
              pub' = [pub EXCEPT ![k] = [Idle EXCEPT !.pc = "issue", !.issuer = a]]
         \/ pub' = [pub EXCEPT ![k] = Idle]
      /\ UNCHANGED <<signed, config, draft, elected, changes, lapses, scope>>
  BY DEF ExpireCredentials
<1>2. due \in SUBSET Serials /\ \A x \in due : db.life[x] \notin {"none", "gone"}
  BY DEF Lapsed
<1> HIDE DEF due
<1>3. Steps(db, r)
  BY <1>2, ExpirySteps DEF TypeOK
<1> HIDE DEF r
<1>4. r \in MeshRows
  BY <1>3 DEF Steps
<1>5. db' = r /\ ClockMoves
  BY <1>1, <1>4, StoreClock
<1>6. TypeOK'
  BY <1>1, <1>4, <1>5, PassFacts DEF TypeOK, ClockMoves
<1>7. QED
  BY <1>1, <1>3, <1>5, <1>6, PassFacts DEF Moves, RowsMove

\* issue_pending_peer_rotations.
LEMMA IssueMoves ==
    ASSUME TypeOK, RowsInv(db), OverdueInv, NEW k \in Controls, IssuePendingPeerRotations(k)
    PROVE  Moves
<1> DEFINE a == pub[k].issuer
           fresh == {FreshSerial(p) : p \in Serviceable}
           rotation == [p \in Peers |-> IF p \in Serviceable THEN "issued" ELSE db.rotation[p]]
           r == Raise([Set(db, fresh, "staged") EXCEPT
                         !.issuer = [x \in Subjects |-> IF x \in fresh THEN a ELSE db.issuer[x]],
                         !.rotation = rotation], {"directory"}, Cardinality(Serviceable))
<1>1. /\ pub[k].pc = "issue"
      /\ \/ /\ Serviceable = {} \/ AuthorityValid(a)
            /\ Store(r) /\ Goto(k, "refresh")
         \/ pub' = [pub EXCEPT ![k] = Idle] /\ UNCHANGED <<db, clock>>
      /\ UNCHANGED <<signed, config, draft, elected, changes, lapses, scope>>
  BY DEF IssuePendingPeerRotations
<1>2. \A p \in Serviceable : p \in Peers /\ FreshSerial(p) \in PeerSerials
                             /\ db.life[FreshSerial(p)] = "none"
  BY DEF Serviceable, FreshSerial, CredentialsOf
<1>3. fresh \in SUBSET PeerSerials /\ \A x \in fresh : db.life[x] = "none"
  BY <1>2
<1>4. fresh # {} => Serviceable # {}
  OBVIOUS
<1>5. rotation \in [Peers -> {"none", "pending", "issued", "activated", "cancelled"}]
  BY DEF TypeOK, MeshRows
<1>6. Cardinality(Serviceable) \in Nat
  <2>1. Serviceable \subseteq Peers
    BY <1>2
  <2>2. QED
    BY <2>1, InstallationAssumption, FS_Subset, FS_CardinalityType
<1>7. AuthorityValid(a) => a \in Authorities /\ db.life[a] # "revoked"
  <2>1. a \in Authorities
    BY DEF TypeOK, Passes, IssuePendingPeerRotations
  <2>2. QED
    BY <2>1 DEF AuthorityValid
<1> HIDE DEF a, fresh, rotation
<1>8. CASE (Serviceable = {} \/ AuthorityValid(a)) /\ Store(r) /\ Goto(k, "refresh")
  <2>1. fresh # {} => a \in Authorities /\ db.life[a] # "revoked"
    BY <1>4, <1>7, <1>8
  <2>2. Steps(db, r)
    BY <1>3, <1>5, <1>6, <2>1, IssueSteps DEF TypeOK
  <2> HIDE DEF r
  <2>3. r \in MeshRows
    BY <2>2 DEF Steps
  <2>4. db' = r /\ ClockMoves
    BY <1>8, <2>3, StoreClock
  <2>5. TypeOK'
    BY <1>1, <1>8, <2>3, <2>4, PassFacts DEF TypeOK, ClockMoves
  <2>6. QED
    BY <1>1, <1>8, <2>2, <2>4, <2>5, PassFacts DEF Moves, RowsMove
<1>9. CASE pub' = [pub EXCEPT ![k] = Idle] /\ UNCHANGED <<db, clock>>
  <2> HIDE DEF r
  <2>1. TypeOK'
    BY <1>1, <1>9, PassFacts DEF TypeOK
  <2>2. QED
    BY <1>1, <1>9, <2>1, PassFacts, SameRowsMove
<1>10. QED
  BY <1>1, <1>8, <1>9

\* refresh_console_service_policy.
LEMMA RefreshMoves ==
    ASSUME TypeOK, RowsInv(db), OverdueInv, NEW k \in Controls, RefreshConsoleServicePolicy(k)
    PROVE  Moves
<1>1. /\ pub[k].pc = "refresh"
      /\ db' = db \/ db' = Recompiled(db)
      /\ Goto(k, "snapshot")
      /\ UNCHANGED <<signed, config, clock, draft, elected, changes, lapses, scope>>
  BY DEF RefreshConsoleServicePolicy
<1>2. Steps(db, db')
  BY <1>1, RecompiledSteps, FenceSteps DEF TypeOK
<1>3. db'.life = db.life
  <2>1. db.policy.rules \in {"open", "closed"} /\ db.rev["policy"] \in Nat
    BY DEF TypeOK, MeshRows, Revisions
  <2>2. db.rev["policy"] + 1 \in Nat /\ db.rev["policy"] + 1 > db.rev["policy"]
    BY <2>1
  <2>3. QED
    BY <1>1, <2>1, <2>2, EffectivePolicyType, PolicyFields DEF Recompiled, TypeOK
<1>4. TypeOK'
  BY <1>1, <1>2, PassFacts DEF TypeOK, Steps
<1>5. ClockMoves
  BY <1>1, <1>3, <1>4 DEF ClockMoves, OverdueInv, TypeOK
<1>6. QED
  BY <1>1, <1>2, <1>4, <1>5, PassFacts DEF Moves, RowsMove

\* The advisory lock is tried, or a pass fails.
LEMMA ElectMoves ==
    ASSUME TypeOK, RowsInv(db), OverdueInv, NEW k \in Controls, Elect(k) \/ AbortPass(k)
    PROVE  Moves
<1>1. CASE Elect(k)
  <2>1. /\ pub[k].pc = "elect"
        /\ EndTransaction(k) \/ pub' = [pub EXCEPT ![k] = Idle] \/ Goto(k, "publish")
        /\ elected' \in {elected, k}
        /\ UNCHANGED <<db, signed, config, clock, draft, changes, lapses, scope>>
    BY <1>1 DEF Elect
  <2>2. TypeOK'
    BY <2>1, PassFacts DEF TypeOK
  <2>3. QED
    BY <2>1, <2>2, PassFacts, SameRowsMove
<1>2. CASE AbortPass(k)
  <2>1. TypeOK'
    <3>1. pub' \in [Controls -> Passes]
      BY <1>2, PassFacts DEF AbortPass
    <3>2. elected' \in Controls \cup {Nobody} /\ lapses' \in Nat
      BY <1>2 DEF AbortPass, TypeOK
    <3>3. QED
      BY <1>2, <3>1, <3>2 DEF TypeOK, AbortPass
  <2>2. QED
    BY <1>2, <2>1, PassFacts, SameRowsMove DEF AbortPass
<1>3. QED
  BY <1>1, <1>2

\* Maintenance deletes rows.
LEMMA DeleteMoves ==
    ASSUME TypeOK, RowsInv(db), OverdueInv, DeleteExpired
    PROVE  Moves
<1>1. PICK x \in clock.expired :
        /\ db.life[x] \in {"staged", "revoked"} /\ Unreferenced(x)
        /\ db' = Set(db, {x}, "gone")
  BY DEF DeleteExpired
<1>2. x \in Serials
  BY DEF TypeOK, Clocks
<1>3. x \in Authorities =>
        \A y \in Subjects : db.issuer[y] = x => db.life[y] \in {"none", "gone"}
  <2> SUFFICES ASSUME x \in Authorities, NEW y \in Subjects, db.issuer[y] = x
               PROVE  db.life[y] \in {"none", "gone"}
    OBVIOUS
  <2>1. Rows(db, {y}) = {}
    BY <1>1, SerialFacts DEF Unreferenced
  <2>2. y \notin Rows(db, {y})
    BY <2>1
  <2>3. QED
    BY <2>2 DEF Rows
<1>4. Steps(db, db')
  BY <1>1, <1>2, <1>3, DeleteSteps DEF TypeOK
<1>5. \A y \in Serials : db'.life[y] = IF y = x THEN "gone" ELSE db.life[y]
  BY <1>1, <1>2, SetFields DEF TypeOK, Lifecycles
<1>6. TypeOK'
  BY <1>4 DEF TypeOK, Steps, DeleteExpired
<1>7. ClockMoves
  <2>1. \A y \in clock.overdue : y \in Serials /\ y # x
    BY <1>1 DEF TypeOK, Clocks, OverdueInv
  <2>2. \A y \in clock.overdue : db'.life[y] = "overlap"
    BY <1>5, <2>1 DEF OverdueInv
  <2>3. QED
    BY <1>6, <2>2 DEF ClockMoves, OverdueInv, TypeOK, DeleteExpired
<1>8. QED
  BY <1>4, <1>6, <1>7 DEF Moves, RowsMove, DeleteExpired

-----------------------------------------------------------------------------
(* What is signed survives such a step.                                    *)

\* Only the deadlines of overlaps matter to a projection.
LEMMA ClocksLookAlike ==
    ASSUME NEW r, NEW c, NEW e, c.expired = e.expired,
           \A x : r.life[x] = "overlap" => (x \in c.overdue <=> x \in e.overdue)
    PROVE  \A kind \in Kinds : Projection(kind, r, c) = Projection(kind, r, e)
<1>1. \A x : /\ Accepted(r, c, x) <=> Accepted(r, e, x)
             /\ InValidity(c, x) <=> InValidity(e, x)
  BY DEF Accepted, InValidity
<1>2. \A x : ActiveSubject(r, c, x) <=> ActiveSubject(r, e, x)
  BY <1>1 DEF ActiveSubject
<1>3. AuthoritiesBody(r, c) = AuthoritiesBody(r, e)
  BY <1>1 DEF AuthoritiesBody
<1>4. PeersBody(r, c) = PeersBody(r, e)
  <2>1. ListedPeers(r, c) = ListedPeers(r, e)
    BY <1>2 DEF ListedPeers
  <2>2. \A p : PeerBindings(r, c, p) = PeerBindings(r, e, p)
    BY <1>1 DEF PeerBindings
  <2>3. QED
    BY <2>1, <2>2 DEF PeersBody
<1>5. RelaysBody(r, c) = RelaysBody(r, e)
  BY <1>2 DEF RelaysBody
<1>6. ServicesBody(r, c) = ServicesBody(r, e)
  BY <1>2 DEF ServicesBody, Reachable
<1>7. QED
  BY <1>3, <1>4, <1>5, <1>6, ProjectionByKind DEF Kinds

\* An earlier clock, without the deadlines of overlaps that have ended.
LEMMA ClockCarries ==
    ASSUME TypeOK, ClockMoves, NEW c \in EarlierClocks, NEW e,
           e = [expired |-> c.expired, overdue |-> c.overdue \cap clock'.overdue,
                admissions |-> clock'.admissions]
    PROVE  /\ c \in Clocks /\ e \in EarlierClocks'
           /\ \A kind \in Kinds : Projection(kind, db', c) = Projection(kind, db', e)
<1>1. clock \in Clocks /\ clock' \in Clocks
  BY DEF TypeOK, ClockMoves
<1>2. c \in Clocks /\ c.expired \subseteq clock.expired /\ c.overdue \subseteq clock.overdue
  BY <1>1 DEF EarlierClocks, Clocks
<1>3. e \in EarlierClocks'
  BY <1>2 DEF EarlierClocks, ClockMoves
<1>4. e.expired = c.expired /\ e.overdue = c.overdue \cap clock'.overdue
  OBVIOUS
<1>5. \A x : db'.life[x] = "overlap" => (x \in c.overdue <=> x \in e.overdue)
  BY <1>2, <1>4 DEF ClockMoves
<1>6. QED
  BY <1>2, <1>3, <1>4, <1>5, ClocksLookAlike

\* A kind whose revision has not moved still shows the rows.
LEMMA ShowsCarries ==
    ASSUME TypeOK, RowsMove, NEW kind \in Kinds,
           db'.rev[RevisionOf(kind)] = db.rev[RevisionOf(kind)],
           NEW c \in EarlierClocks, Shows(kind, c), NEW e,
           e = [expired |-> c.expired, overdue |-> c.overdue \cap clock'.overdue,
                admissions |-> clock'.admissions]
    PROVE  e \in EarlierClocks' /\ Shows(kind, e)'
<1> DEFINE n == db.rev[RevisionOf(kind)]
           body == signed[kind][n]
<1>1. db \in MeshRows /\ db' \in MeshRows /\ signed' = signed /\ ClockMoves
  BY DEF RowsMove, TypeOK
<1>2. /\ c \in Clocks /\ e \in EarlierClocks' /\ Projection(kind, db', c) = Projection(kind, db', e)
  BY <1>1, ClockCarries
<1>3. Evolves(db, db')
  BY <1>1, KeptEvolves DEF RowsMove, Steps
<1>4. UpToDeleted(kind, db', Projection(kind, db, c), Projection(kind, db', c))
  BY <1>2, <1>3 DEF Evolves, SameView
<1>5. n \in DOMAIN signed[kind] /\ UpToDeleted(kind, db, body, Projection(kind, db, c))
  BY DEF Shows
<1>6. \A x \in Serials : db.life[x] = "gone" => db'.life[x] = "gone"
  BY <1>3 DEF Evolves, RowsAge
<1>7. UpToDeleted(kind, db', body, Projection(kind, db', c))
  BY <1>4, <1>5, <1>6, ViewsCompose
<1>8. UpToDeleted(kind, db', body, Projection(kind, db', e))
  BY <1>2, <1>7
<1>9. QED
  BY <1>1, <1>2, <1>5, <1>8 DEF Shows

\* Stored revisions, projections and bundles.
LEMMA SignedCarries ==
    ASSUME TypeOK, StoredInv, NoStaleProjection, BundleInv, RowsMove
    PROVE  StoredInv' /\ NoStaleProjection' /\ BundleInv'
<1>0. signed' = signed /\ Steps(db, db') /\ RevisionsGrow(db, db')
  BY DEF RowsMove, Steps
<1>1. \A kind \in Kinds : /\ RevisionOf(kind) \in Revisions
                          /\ db.rev[RevisionOf(kind)] \in Nat /\ db'.rev[RevisionOf(kind)] \in Nat
                          /\ db.rev[RevisionOf(kind)] <= db'.rev[RevisionOf(kind)]
  BY <1>0, ColumnsByKind DEF TypeOK, Steps, MeshRows, RevisionsGrow
<1>2. \A kind \in Kinds : \A n \in DOMAIN signed[kind] : n \in Nat /\ n <= db.rev[RevisionOf(kind)]
  BY DEF TypeOK, StoredInv
<1>3. StoredInv'
  BY <1>0, <1>1, <1>2 DEF StoredInv
<1>4. ASSUME NEW kind \in Kinds, db'.rev[RevisionOf(kind)] \in DOMAIN signed[kind]
      PROVE  db'.rev[RevisionOf(kind)] = db.rev[RevisionOf(kind)]
  BY <1>1, <1>2, <1>4
<1>5. NoStaleProjection'
  <2> SUFFICES ASSUME NEW kind \in Kinds, db'.rev[RevisionOf(kind)] \in DOMAIN signed'[kind]
               PROVE  \E e \in EarlierClocks' : Shows(kind, e)'
    BY DEF NoStaleProjection, Shows
  <2>1. db'.rev[RevisionOf(kind)] = db.rev[RevisionOf(kind)]
    BY <1>0, <1>4
  <2>2. PICK c \in EarlierClocks : Shows(kind, c)
    BY <1>0, <2>1 DEF NoStaleProjection, Shows
  <2>3. QED
    BY <2>1, <2>2, ShowsCarries
<1>6. BundleInv'
  <2> SUFFICES ASSUME db'.rev["directory"] \in DOMAIN signed'["peers"]
               PROVE  \E c, d \in EarlierClocks' :
                         /\ d.expired \subseteq c.expired /\ d.overdue \subseteq c.overdue
                         /\ Shows("peers", c)' /\ Shows("authorities", d)'
    BY DEF BundleInv
  <2>1. "peers" \in Kinds /\ "authorities" \in Kinds
    BY DEF Kinds
  <2>2. db'.rev["directory"] = db.rev["directory"]
    BY <1>0, <1>4, <2>1, ColumnsByKind
  <2>3. db'.rev["authority"] = db.rev["authority"]
    BY <1>0, <2>2 DEF RevisionsGrow
  <2>4. PICK c \in EarlierClocks, d \in EarlierClocks :
          /\ d.expired \subseteq c.expired /\ d.overdue \subseteq c.overdue
          /\ Shows("peers", c) /\ Shows("authorities", d)
    BY <1>0, <2>2 DEF BundleInv
  <2>5. PICK e : e = [expired |-> c.expired, overdue |-> c.overdue \cap clock'.overdue,
                      admissions |-> clock'.admissions]
    OBVIOUS
  <2>6. PICK f : f = [expired |-> d.expired, overdue |-> d.overdue \cap clock'.overdue,
                      admissions |-> clock'.admissions]
    OBVIOUS
  <2>7. e \in EarlierClocks' /\ Shows("peers", e)'
    BY <2>1, <2>2, <2>4, <2>5, ShowsCarries, ColumnsByKind
  <2>8. f \in EarlierClocks' /\ Shows("authorities", f)'
    BY <2>1, <2>3, <2>4, <2>6, ShowsCarries, ColumnsByKind
  <2>9. f.expired \subseteq e.expired /\ f.overdue \subseteq e.overdue
    BY <2>4, <2>5, <2>6
  <2>10. QED
    BY <2>7, <2>8, <2>9
<1>7. QED
  BY <1>3, <1>5, <1>6

\* Rows that passes have read.
LEMMA PassCarries ==
    ASSUME TypeOK, PassInv, RowsMove
    PROVE  PassInv'
<1>1. /\ db \in MeshRows /\ db' \in MeshRows /\ signed' = signed /\ Steps(db, db')
  BY DEF RowsMove, TypeOK, Steps
<1>2. Evolves(db, db')
  BY <1>1, KeptEvolves DEF Steps
<1>3. ASSUME NEW k \in Controls, NEW r \in pub'[k].rows PROVE Evolves(r, db')
  <2>1. r \in pub[k].rows
    BY DEF RowsMove
  <2>2. r \in MeshRows
    BY <2>1 DEF TypeOK, Passes
  <2>3. Evolves(r, db)
    BY <2>1 DEF PassInv
  <2>4. QED
    BY <1>1, <1>2, <2>2, <2>3, EvolvesTransitive
<1>4. ASSUME NEW k \in Controls, NEW t \in pub'[k].stored, NEW kind \in Kinds, NEW m \in t[kind]
      PROVE  /\ m <= db'.rev[RevisionOf(kind)]
             /\ m = db'.rev[RevisionOf(kind)] => m \in DOMAIN signed'[kind]
  <2>1. t \in pub[k].stored
    BY DEF RowsMove
  <2>2. m \in Nat
    BY <2>1 DEF TypeOK, Passes
  <2>3. /\ m <= db.rev[RevisionOf(kind)]
        /\ m = db.rev[RevisionOf(kind)] => m \in DOMAIN signed[kind]
    BY <2>1 DEF PassInv
  <2>4. /\ db.rev[RevisionOf(kind)] \in Nat /\ db'.rev[RevisionOf(kind)] \in Nat
        /\ db.rev[RevisionOf(kind)] <= db'.rev[RevisionOf(kind)]
    BY <1>1, ColumnsByKind DEF MeshRows, Steps, RevisionsGrow
  <2>5. QED
    BY <1>1, <2>2, <2>3, <2>4
<1>5. QED
  BY <1>3, <1>4 DEF PassInv

\* The newest configuration.
LEMMA ConfigCarries ==
    ASSUME TypeOK, ConfigInv, ConfigurationConsistent, Moves
    PROVE  ConfigInv' /\ ConfigurationConsistent'
<1>1. /\ signed' = signed /\ config' = config /\ RevisionsGrow(db, db') /\ RowsAge(db, db')
      /\ db \in MeshRows /\ db' \in MeshRows
  BY DEF Moves, RowsMove, Steps, TypeOK
<1>2. \A k \in Revisions : db.rev[k] \in Nat /\ db'.rev[k] \in Nat /\ db.rev[k] <= db'.rev[k]
  BY <1>1 DEF MeshRows, RevisionsGrow
<1>3. ConfigurationKinds \subseteq Kinds /\ "management" \in Revisions
  BY DEF ConfigurationKinds, Kinds, Revisions
<1>4. \A c, d \in config' : c = d
  BY <1>1 DEF ConfigInv
<1>5. ASSUME NEW c \in config', NEW kind \in ConfigurationKinds
      PROVE  LET n == db'.rev[RevisionOf(kind)]
             IN  /\ c[kind].version \in Nat /\ c[kind].version <= n
                 /\ c[kind].version = n =>
                      n \in DOMAIN signed'[kind] /\ c[kind] = Component(n, signed'[kind][n])
  <2> DEFINE n == db.rev[RevisionOf(kind)]
  <2>1. /\ c[kind].version \in Nat /\ c[kind].version <= n
        /\ c[kind].version = n =>
             n \in DOMAIN signed[kind] /\ c[kind] = Component(n, signed[kind][n])
    BY <1>1 DEF ConfigInv
  <2>2. RevisionOf(kind) \in Revisions
    BY <1>3, ColumnsByKind
  <2>3. /\ n \in Nat /\ db'.rev[RevisionOf(kind)] \in Nat /\ n <= db'.rev[RevisionOf(kind)]
    BY <1>2, <2>2
  <2> HIDE DEF n
  <2>4. c[kind].version = db'.rev[RevisionOf(kind)] => n = db'.rev[RevisionOf(kind)]
    BY <2>1, <2>3
  <2>5. c[kind].version <= db'.rev[RevisionOf(kind)]
    BY <2>1, <2>3
  <2>6. QED
    BY <1>1, <2>1, <2>4, <2>5
<1>6. ASSUME NEW c \in config'
      PROVE  /\ DOMAIN c = ConfigurationKinds \cup {"resources"}
             /\ c["resources"] = Component(c["resources"].version, c["resources"].bytes)
             /\ c["resources"].version \in Nat /\ c["resources"].version <= db'.rev["management"]
  <2>1. /\ DOMAIN c = ConfigurationKinds \cup {"resources"}
        /\ c["resources"] = Component(c["resources"].version, c["resources"].bytes)
        /\ c["resources"].version \in Nat /\ c["resources"].version <= db.rev["management"]
    BY <1>1 DEF ConfigInv
  <2>2. /\ db.rev["management"] \in Nat /\ db'.rev["management"] \in Nat
        /\ db.rev["management"] <= db'.rev["management"]
    BY <1>2, <1>3
  <2>3. QED
    BY <2>1, <2>2
<1>7. ASSUME NEW c \in config', NEW p \in DOMAIN c["peers"].bytes, NEW x \in c["peers"].bytes[p]
      PROVE  /\ x \in PeerSerials /\ db'.life[x] # "none"
             /\ db'.issuer[x] = db.issuer[x]
  <2>1. x \in PeerSerials /\ db.life[x] # "none"
    BY <1>1 DEF ConfigInv
  <2>2. QED
    BY <1>1, <2>1, SerialFacts DEF RowsAge
<1>8. ConfigInv'
  BY ZenonT(60), <1>4, <1>5, <1>6, <1>7 DEF ConfigInv
<1>9. ConfigurationConsistent'
  BY <1>1, <1>7 DEF ConfigurationConsistent
<1>10. QED
  BY <1>8, <1>9

\* A step that signs nothing keeps the invariant.
LEMMA MovesKeep ==
    ASSUME ControlInv, Moves
    PROVE  ControlInv'
<1>1. TypeOK' /\ RowsInv(db') /\ OverdueInv'
  BY DEF Moves, RowsMove, Steps, ClockMoves
<1>2. StoredInv' /\ NoStaleProjection' /\ BundleInv'
  BY SignedCarries DEF ControlInv, Moves
<1>3. PassInv'
  BY PassCarries DEF ControlInv, Moves
<1>4. ConfigInv' /\ ConfigurationConsistent'
  BY ConfigCarries DEF ControlInv
<1>5. RowsInv(db)'
  BY <1>1 DEF RowsInv
<1>6. QED
  BY <1>1, <1>2, <1>3, <1>4, <1>5 DEF ControlInv

-----------------------------------------------------------------------------
(* The steps that sign: a snapshot, a publication, pruning, a configuration. *)

\* The snapshot a pass reads.
LEMMA SnapshotKeeps ==
    ASSUME ControlInv, NEW k \in Controls, Snapshot(k)
    PROVE  ControlInv' /\ RowsAge(db, db')
<1> DEFINE latest == [kind \in Kinds |-> Latest(signed, kind)]
           q == [pub[k] EXCEPT !.pc = "elect", !.rows = {db}, !.stored = {latest}]
<1>1. /\ pub[k].pc = "snapshot" /\ pub' = [pub EXCEPT ![k] = q]
      /\ UNCHANGED <<db, signed, config, clock, draft, elected, changes, lapses, scope>>
  BY DEF Snapshot
<1>2. TypeOK /\ db \in MeshRows /\ pub \in [Controls -> Passes]
  BY DEF ControlInv, TypeOK
<1>3. \A kind \in Kinds : Latest(signed, kind) \subseteq DOMAIN signed[kind]
                          /\ DOMAIN signed[kind] \subseteq Nat
  BY <1>2 DEF Latest, TypeOK
<1>4. /\ latest \in [Kinds -> SUBSET Nat]
      /\ \A kind \in Kinds : latest[kind] \subseteq DOMAIN signed[kind]
  BY <1>3
<1> HIDE DEF latest
<1>5. q \in Passes /\ q.rows = {db} /\ q.stored = {latest}
  BY <1>1, <1>2, <1>4 DEF Passes
<1> HIDE DEF q
<1>6. pub' \in [Controls -> Passes]
  BY <1>1, <1>2, <1>5
<1>7. TypeOK'
  BY <1>1, <1>2, <1>6 DEF TypeOK
<1>8. \A j \in Controls : pub'[j] = IF j = k THEN q ELSE pub[j]
  BY <1>1, <1>2
<1>9. PassInv'
  <2>1. ASSUME NEW j \in Controls, NEW r \in pub'[j].rows PROVE Evolves(r, db')
    BY <1>1, <1>2, <1>5, <1>8, EvolvesReflexive DEF ControlInv, PassInv
  <2>2. ASSUME NEW j \in Controls, NEW t \in pub'[j].stored, NEW kind \in Kinds,
               NEW m \in t[kind]
        PROVE  /\ m <= db'.rev[RevisionOf(kind)]
               /\ m = db'.rev[RevisionOf(kind)] => m \in DOMAIN signed'[kind]
    <3>1. CASE j = k
      BY <1>1, <1>4, <1>5, <1>8, <3>1 DEF ControlInv, StoredInv
    <3>2. CASE j # k
      BY <1>1, <1>8, <3>2 DEF ControlInv, PassInv
    <3>3. QED
      BY <3>1, <3>2
  <2>3. QED
    BY <2>1, <2>2 DEF PassInv
<1>10. RowsInv(db)' /\ OverdueInv' /\ StoredInv' /\ NoStaleProjection' /\ BundleInv'
  BY <1>1 DEF ControlInv, RowsInv, OverdueInv, StoredInv, NoStaleProjection, BundleInv, Shows,
              EarlierClocks
<1>11. ConfigInv' /\ ConfigurationConsistent'
  BY <1>1 DEF ControlInv, ConfigInv, ConfigurationConsistent
<1>12. RowsAge(db, db')
  BY <1>1 DEF RowsAge
<1>13. QED
  BY <1>7, <1>9, <1>10, <1>11, <1>12 DEF ControlInv

\* The stored revisions change and the rows do not: what is current stays, and
\* what becomes current is the projection of the rows at this time.
LEMMA SigningKeeps ==
    ASSUME ControlInv, UNCHANGED <<db, config, clock>>, TypeOK',
           \A k \in Controls : /\ pub'[k].rows \subseteq pub[k].rows
                               /\ pub'[k].stored \subseteq pub[k].stored,
           \A kind \in Kinds : \A m \in DOMAIN signed'[kind] : m <= db.rev[RevisionOf(kind)],
           \A kind \in Kinds : LET n == db.rev[RevisionOf(kind)]
                               IN  n \in DOMAIN signed[kind] =>
                                     /\ n \in DOMAIN signed'[kind]
                                     /\ signed'[kind][n] = signed[kind][n],
           \A kind \in Kinds : LET n == db.rev[RevisionOf(kind)]
                               IN  n \in DOMAIN signed'[kind] /\ n \notin DOMAIN signed[kind] =>
                                     UpToDeleted(kind, db, signed'[kind][n],
                                                 Projection(kind, db, clock)),
           (/\ db.rev["directory"] \in DOMAIN signed'["peers"]
            /\ db.rev["directory"] \notin DOMAIN signed["peers"])
              => db.rev["authority"] \in DOMAIN signed'["authorities"]
    PROVE  ControlInv' /\ RowsAge(db, db')
<1>1. StoredInv'
  BY DEF StoredInv
<1>2. ASSUME NEW kind \in Kinds, NEW c, Shows(kind, c) PROVE Shows(kind, c)'
  BY <1>2 DEF Shows
<1>3. clock \in EarlierClocks /\ EarlierClocks' = EarlierClocks
  BY DEF EarlierClocks, ControlInv, TypeOK, Clocks
<1>4. PICK now : now = clock
  OBVIOUS
<1>5. ASSUME NEW kind \in Kinds, db.rev[RevisionOf(kind)] \in DOMAIN signed'[kind],
             db.rev[RevisionOf(kind)] \notin DOMAIN signed[kind]
      PROVE  Shows(kind, now)'
  BY <1>4, <1>5 DEF Shows
<1>6. \A kind \in Kinds : db.rev[RevisionOf(kind)] \in DOMAIN signed[kind] =>
                              \E c \in EarlierClocks : Shows(kind, c)
  BY DEF ControlInv, NoStaleProjection, Shows
<1>7. \A kind \in Kinds : db.rev[RevisionOf(kind)] \in DOMAIN signed'[kind] =>
                              \E c \in EarlierClocks : Shows(kind, c)'
  BY <1>2, <1>3, <1>4, <1>5, <1>6
<1>8. NoStaleProjection'
  BY <1>3, <1>7 DEF NoStaleProjection, Shows
<1>9. BundleInv'
  <2> SUFFICES ASSUME db.rev["directory"] \in DOMAIN signed'["peers"]
               PROVE  \E c, d \in EarlierClocks :
                         /\ d.expired \subseteq c.expired /\ d.overdue \subseteq c.overdue
                         /\ Shows("peers", c)' /\ Shows("authorities", d)'
    BY <1>3 DEF BundleInv
  <2>1. "peers" \in Kinds /\ "authorities" \in Kinds
    BY DEF Kinds
  <2>2. CASE db.rev["directory"] \in DOMAIN signed["peers"]
    <3>1. PICK c \in EarlierClocks, d \in EarlierClocks :
            /\ d.expired \subseteq c.expired /\ d.overdue \subseteq c.overdue
            /\ Shows("peers", c) /\ Shows("authorities", d)
      BY <2>2 DEF ControlInv, BundleInv
    <3>2. Shows("peers", c)' /\ Shows("authorities", d)'
      BY <1>2, <2>1, <3>1
    <3>3. QED
      BY <3>1, <3>2
  <2>3. CASE db.rev["directory"] \notin DOMAIN signed["peers"]
    <3>1. Shows("peers", now)'
      BY <1>5, <2>1, <2>3, ColumnsByKind
    <3>2. PICK d \in EarlierClocks : Shows("authorities", d)'
      BY <1>7, <2>1, <2>3, ColumnsByKind
    <3>3. d.expired \subseteq now.expired /\ d.overdue \subseteq now.overdue
      BY <1>4 DEF EarlierClocks
    <3>4. QED
      BY <1>3, <1>4, <3>1, <3>2, <3>3
  <2>4. QED
    BY <2>2, <2>3
<1>10. PassInv'
  BY DEF ControlInv, PassInv
<1>11. ConfigInv' /\ ConfigurationConsistent'
  <2>1. ConfigurationKinds \subseteq Kinds
    BY DEF ConfigurationKinds, Kinds
  <2>2. ASSUME NEW c \in config', NEW kind \in ConfigurationKinds
        PROVE  LET n == db'.rev[RevisionOf(kind)]
               IN  /\ c[kind].version \in Nat /\ c[kind].version <= n
                   /\ c[kind].version = n =>
                        n \in DOMAIN signed'[kind] /\ c[kind] = Component(n, signed'[kind][n])
    <3> DEFINE n == db.rev[RevisionOf(kind)]
    <3>1. /\ c[kind].version \in Nat /\ c[kind].version <= n
          /\ c[kind].version = n =>
               n \in DOMAIN signed[kind] /\ c[kind] = Component(n, signed[kind][n])
      BY DEF ControlInv, ConfigInv
    <3>2. n \in DOMAIN signed[kind] => /\ n \in DOMAIN signed'[kind]
                                       /\ signed'[kind][n] = signed[kind][n]
      BY <2>1
    <3>3. QED
      BY <3>1, <3>2
  <2>3. ConfigInv'
    BY ZenonT(60), <2>2 DEF ControlInv, ConfigInv
  <2>4. QED
    BY <2>3 DEF ControlInv, ConfigurationConsistent
<1>12. RowsInv(db)' /\ OverdueInv'
  BY DEF ControlInv, RowsInv, OverdueInv
<1>13. RowsAge(db, db')
  BY DEF RowsAge
<1>14. QED
  BY <1>1, <1>8, <1>9, <1>10, <1>11, <1>12, <1>13 DEF ControlInv

\* publish_mesh_state: the projections of the snapshot are signed.
LEMMA PublishKeeps ==
    ASSUME ControlInv, NEW k \in Controls, PublishStates(k)
    PROVE  ControlInv' /\ RowsAge(db, db')
<1>1. PICK r \in pub[k].rows :
        \/ /\ pub' = [pub EXCEPT ![k] = Idle]
           /\ UNCHANGED signed
        \/ /\ signed' = [kind \in Kinds |->
                          IF kind \in Changed(k)
                          THEN [n \in DOMAIN signed[kind] \cup {r.rev[RevisionOf(kind)]} |->
                                  IF n \in DOMAIN signed[kind] THEN signed[kind][n]
                                  ELSE Projection(kind, r, clock)]
                          ELSE signed[kind]]
           /\ EndTransaction(k)
  BY DEF PublishStates
<1>2. /\ pub[k].pc = "publish" /\ elected' = Nobody
      /\ UNCHANGED <<db, config, clock, draft, changes, lapses, scope>>
  BY DEF PublishStates
<1>3. /\ TypeOK /\ RowsInv(db) /\ OverdueInv /\ StoredInv /\ PassInv /\ db \in MeshRows
      /\ clock \in Clocks /\ pub[k] \in Passes
  BY DEF ControlInv, TypeOK
<1>4. CASE pub' = [pub EXCEPT ![k] = Idle] /\ UNCHANGED signed
  <2>1. TypeOK'
    BY <1>2, <1>3, <1>4, PassFacts DEF TypeOK
  <2>2. Moves
    BY <1>2, <1>3, <1>4, <2>1, PassFacts, SameRowsMove
  <2>3. QED
    BY <2>2, MovesKeep DEF Moves, RowsMove, Steps
<1>5. CASE /\ signed' = [kind \in Kinds |->
                          IF kind \in Changed(k)
                          THEN [n \in DOMAIN signed[kind] \cup {r.rev[RevisionOf(kind)]} |->
                                  IF n \in DOMAIN signed[kind] THEN signed[kind][n]
                                  ELSE Projection(kind, r, clock)]
                          ELSE signed[kind]]
           /\ EndTransaction(k)
  <2>1. r \in MeshRows /\ Evolves(r, db)
    BY <1>3 DEF PassInv, Passes
  <2>2. ASSUME NEW kind \in Kinds
        PROVE  /\ DOMAIN signed[kind] \subseteq Nat
               /\ r.rev[RevisionOf(kind)] \in Nat
               /\ r.rev[RevisionOf(kind)] <= db.rev[RevisionOf(kind)]
    <3>1. RevisionOf(kind) \in Revisions
      BY ColumnsByKind
    <3>2. QED
      BY <1>3, <2>1, <3>1 DEF TypeOK, MeshRows, Evolves, RevisionsGrow
  <2>3. DOMAIN signed' = Kinds
    BY <1>5
  <2>4. ASSUME NEW kind \in Kinds
        PROVE  /\ DOMAIN signed'[kind] = DOMAIN signed[kind] \cup
                     (IF kind \in Changed(k) THEN {r.rev[RevisionOf(kind)]} ELSE {})
               /\ \A n \in DOMAIN signed[kind] : signed'[kind][n] = signed[kind][n]
               /\ \A n \in DOMAIN signed'[kind] :
                     n \notin DOMAIN signed[kind] =>
                        /\ n = r.rev[RevisionOf(kind)]
                        /\ signed'[kind][n] = Projection(kind, r, clock)
    <3>1. CASE kind \in Changed(k)
      <4>1. signed'[kind] = [n \in DOMAIN signed[kind] \cup {r.rev[RevisionOf(kind)]} |->
                               IF n \in DOMAIN signed[kind] THEN signed[kind][n]
                               ELSE Projection(kind, r, clock)]
        BY <1>5, <3>1
      <4>2. QED
        BY <3>1, <4>1
    <3>2. CASE kind \notin Changed(k)
      <4>1. signed'[kind] = signed[kind]
        BY <1>5, <3>2
      <4>2. QED
        BY <3>2, <4>1
    <3>3. QED
      BY <3>1, <3>2
  <2>5. \A kind \in Kinds : /\ DOMAIN signed'[kind] \subseteq Nat
                            /\ \A m \in DOMAIN signed'[kind] : m <= db.rev[RevisionOf(kind)]
    BY <1>3, <2>2, <2>4 DEF StoredInv
  <2>6. /\ pub' \in [Controls -> Passes]
        /\ \A j \in Controls : /\ pub'[j].rows \subseteq pub[j].rows
                               /\ pub'[j].stored \subseteq pub[j].stored
    BY <1>2, <1>3, <1>5, PassFacts
  <2>7. TypeOK'
    BY <1>2, <1>3, <2>3, <2>5, <2>6 DEF TypeOK
  <2>8. ASSUME NEW kind \in Kinds, db.rev[RevisionOf(kind)] \in DOMAIN signed'[kind],
               db.rev[RevisionOf(kind)] \notin DOMAIN signed[kind]
        PROVE  /\ r.rev[RevisionOf(kind)] = db.rev[RevisionOf(kind)]
               /\ UpToDeleted(kind, db, signed'[kind][db.rev[RevisionOf(kind)]],
                              Projection(kind, db, clock))
    <3>1. /\ db.rev[RevisionOf(kind)] = r.rev[RevisionOf(kind)]
          /\ signed'[kind][db.rev[RevisionOf(kind)]] = Projection(kind, r, clock)
      BY <2>4, <2>8
    <3>2. UpToDeleted(kind, db, Projection(kind, r, clock), Projection(kind, db, clock))
      BY <1>3, <2>1, <3>1 DEF Evolves, SameView
    <3>3. QED
      BY <3>1, <3>2
  <2>9. ASSUME db.rev["directory"] \in DOMAIN signed'["peers"],
               db.rev["directory"] \notin DOMAIN signed["peers"]
        PROVE  db.rev["authority"] \in DOMAIN signed'["authorities"]
    <3>1. "peers" \in Kinds /\ "authorities" \in Kinds
      BY DEF Kinds
    <3>2. "peers" \in Changed(k)
      BY <2>4, <2>9, <3>1
    <3>3. r.rev["directory"] = db.rev["directory"]
      BY <2>8, <2>9, <3>1, ColumnsByKind
    <3>4. r.rev["authority"] = db.rev["authority"]
      BY <2>1, <3>3 DEF Evolves, RevisionsGrow
    <3>5. CASE "authorities" \in Changed(k)
      BY <2>4, <3>1, <3>4, <3>5, ColumnsByKind
    <3>6. CASE "authorities" \notin Changed(k)
      <4>1. PICK t \in pub[k].stored : TRUE
        BY <3>2 DEF Changed
      <4>2. t["authorities"] = {db.rev["authority"]}
        BY <3>1, <3>4, <3>6, ColumnsByKind DEF Changed
      <4>3. db.rev["authority"] \in DOMAIN signed["authorities"]
        BY <1>3, <3>1, <4>2, ColumnsByKind DEF PassInv
      <4>4. QED
        BY <2>4, <3>1, <4>3
    <3>7. QED
      BY <3>5, <3>6
  <2>10. QED
    BY <1>2, <2>4, <2>5, <2>6, <2>7, <2>8, <2>9, SigningKeeps
<1>6. QED
  BY <1>1, <1>4, <1>5

\* Maintenance keeps the newest revision of every kind.
LEMMA PruneKeeps ==
    ASSUME ControlInv, PruneSignedStates
    PROVE  ControlInv' /\ RowsAge(db, db')
<1> DEFINE newest(kind) ==
             {n \in DOMAIN signed[kind] :
                Cardinality({m \in DOMAIN signed[kind] : m > n}) < SignedStateVersions}
<1>1. /\ signed' = [kind \in Kinds |-> [n \in newest(kind) |-> signed[kind][n]]]
      /\ UNCHANGED <<db, config, clock, draft, pub, elected, changes, lapses, scope>>
  BY DEF PruneSignedStates
<1>2. ASSUME NEW kind \in Kinds
      PROVE  /\ DOMAIN signed'[kind] = newest(kind)
             /\ \A n \in newest(kind) : signed'[kind][n] = signed[kind][n]
  BY <1>1
<1>3. \A kind \in Kinds : newest(kind) \subseteq DOMAIN signed[kind]
  OBVIOUS
<1>4. ASSUME NEW kind \in Kinds, db.rev[RevisionOf(kind)] \in DOMAIN signed[kind]
      PROVE  db.rev[RevisionOf(kind)] \in newest(kind)
  <2> DEFINE n == db.rev[RevisionOf(kind)]
             above == {m \in DOMAIN signed[kind] : m > n}
  <2>1. n \in Nat /\ \A m \in DOMAIN signed[kind] : m \in Nat /\ m <= n
    BY <1>4 DEF ControlInv, TypeOK, StoredInv
  <2>2. above = {}
    BY <2>1
  <2>3. Cardinality(above) = 0 /\ SignedStateVersions \in Nat \ {0}
    BY <2>2, FS_EmptySet, InstallationAssumption
  <2>4. QED
    BY <1>4, <2>3
<1> HIDE DEF newest
<1>5. DOMAIN signed' = Kinds
  BY <1>1
<1>6. TypeOK'
  BY <1>1, <1>2, <1>3, <1>5 DEF ControlInv, TypeOK
<1>7. \A kind \in Kinds : \A m \in DOMAIN signed'[kind] : m <= db.rev[RevisionOf(kind)]
  BY <1>2, <1>3 DEF ControlInv, StoredInv
<1>8. "peers" \in Kinds
  BY DEF Kinds
<1>9. QED
  BY <1>1, <1>2, <1>3, <1>4, <1>6, <1>7, <1>8, SigningKeeps

\* The bindings of the current directory, and the list and the bundle that go
\* with it: none is revoked and each has an issuer the bundle trusts.
LEMMA DirectoryFits ==
    ASSUME ControlInv, \A kind \in ConfigurationKinds :
                           db.rev[RevisionOf(kind)] \in DOMAIN signed[kind],
           NEW p \in DOMAIN signed["peers"][db.rev["directory"]],
           NEW x \in signed["peers"][db.rev["directory"]][p]
    PROVE  /\ x \in PeerSerials /\ db.life[x] # "none"
           /\ x \notin signed["revocations"][db.rev["revocation"]]
           /\ db.issuer[x] \in signed["authorities"][db.rev["authority"]].trusted
<1> DEFINE peers == signed["peers"][db.rev["directory"]]
           revoked == signed["revocations"][db.rev["revocation"]]
           bundle == signed["authorities"][db.rev["authority"]]
<1>1. /\ db.rev["directory"] \in DOMAIN signed["peers"]
      /\ db.rev["revocation"] \in DOMAIN signed["revocations"]
      /\ "revocations" \in Kinds /\ db \in MeshRows
  BY ColumnsByKind DEF ConfigurationKinds, Kinds, ControlInv, TypeOK
<1>2. PICK c \in EarlierClocks, d \in EarlierClocks :
        /\ d.expired \subseteq c.expired /\ d.overdue \subseteq c.overdue
        /\ Shows("peers", c) /\ Shows("authorities", d)
  BY <1>1 DEF ControlInv, BundleInv
<1>3. peers = PeersBody(db, c)
  BY <1>2, ColumnsByKind, ProjectionByKind, MatchByKind DEF Shows
<1>4. bundle.trusted = AuthoritiesBody(db, d).trusted
  BY <1>2, ColumnsByKind, ProjectionByKind, MatchByKind DEF Shows
<1>5. \A y \in revoked : y \in RevocationsBody(db) \/ db.life[y] = "gone"
  <2>1. \E e \in EarlierClocks : UpToDeleted("revocations", db, revoked,
                                             Projection("revocations", db, e))
    BY <1>1, ColumnsByKind DEF ControlInv, NoStaleProjection
  <2>2. QED
    BY <2>1, ProjectionByKind, MatchByKind
<1>6. x \in PeerBindings(db, c, p)
  BY <1>3 DEF PeersBody
<1>7. /\ x \in PeerSerials /\ Accepted(db, c, x)
      /\ Accepted(db, c, db.issuer[x]) /\ InValidity(c, db.issuer[x])
  BY <1>6 DEF PeerBindings
<1>8. db.life[x] \in {"active", "overlap"} /\ db.life[db.issuer[x]] \in {"active", "overlap"}
  BY <1>7 DEF Accepted
<1>9. x \notin revoked
  BY <1>5, <1>8 DEF RevocationsBody
<1>10. db.issuer[x] \in Authorities
  BY <1>1, <1>7, SerialFacts DEF MeshRows
<1>11. Accepted(db, d, db.issuer[x]) /\ InValidity(d, db.issuer[x])
  BY <1>2, <1>7 DEF Accepted, InValidity
<1>12. db.issuer[x] \in AuthoritiesBody(db, d).trusted
  BY <1>10, <1>11 DEF AuthoritiesBody
<1>13. QED
  BY <1>4, <1>7, <1>8, <1>9, <1>12

\* The rows and the configuration that publish_configuration leaves.
LEMMA ConfigurationFields ==
    ASSUME TypeOK, NEW k \in Controls, PublishConfiguration(k), config' # config
    PROVE  /\ \A kind \in ConfigurationKinds : db.rev[RevisionOf(kind)] \in DOMAIN signed[kind]
           /\ config' = {Parts(db')}
           /\ db' = IF ReusedVersion THEN Bump(db, {"management"}) ELSE db
           /\ db'.rev["management"] = IF ReusedVersion THEN db.rev["management"] + 1
                                      ELSE db.rev["management"]
           /\ \A kind \in ConfigurationKinds : db'.rev[RevisionOf(kind)] = db.rev[RevisionOf(kind)]
           /\ db'.resources = db.resources /\ db'.life = db.life /\ db'.issuer = db.issuer
<1>1. /\ \A kind \in ConfigurationKinds : db.rev[RevisionOf(kind)] \in DOMAIN signed[kind]
      /\ db' = IF ReusedVersion THEN Bump(db, {"management"}) ELSE db
      /\ config' = {Parts(IF ReusedVersion THEN Bump(db, {"management"}) ELSE db)}
  BY DEF PublishConfiguration
<1>2. config' = {Parts(db')}
  BY <1>1
<1> DEFINE b == Bump(db, {"management"})
<1>3. /\ b.resources = db.resources /\ b.life = db.life /\ b.issuer = db.issuer
      /\ b.rev = [j \in Revisions |-> db.rev[j] + IF j \in {"management"} THEN 1 ELSE 0]
  BY DEF Bump, Raise, TypeOK, MeshRows
<1>4. \A j \in Revisions : db.rev[j] \in Nat
  BY DEF TypeOK, MeshRows
<1>5. b.rev["management"] = db.rev["management"] + 1
  BY <1>3, <1>4 DEF Revisions
<1>6. \A j \in Revisions : j # "management" => b.rev[j] = db.rev[j]
  BY <1>3, <1>4
<1>7. \A kind \in ConfigurationKinds :
        RevisionOf(kind) \in Revisions /\ RevisionOf(kind) # "management"
  BY ColumnsByKind DEF ConfigurationKinds, Revisions
<1> HIDE DEF b
<1>8. QED
  BY <1>1, <1>2, <1>3, <1>5, <1>6, <1>7 DEF b

\* The parts of the configuration that publish_configuration builds.
LEMMA PartsFields ==
    ASSUME NEW r
    PROVE  /\ DOMAIN Parts(r) = ConfigurationKinds \cup {"resources"}
           /\ Parts(r)["resources"] = Component(r.rev["management"], r.resources)
           /\ \A kind \in ConfigurationKinds :
                Parts(r)[kind] = Component(r.rev[RevisionOf(kind)],
                                           signed[kind][r.rev[RevisionOf(kind)]])
BY DEF Parts, ConfigurationKinds

\* publish_configuration keeps the invariant.
LEMMA ConfigurationKeeps ==
    ASSUME ControlInv, NEW k \in Controls, PublishConfiguration(k)
    PROVE  ControlInv' /\ RowsAge(db, db')
<1>1. /\ TypeOK /\ RowsInv(db) /\ OverdueInv /\ db \in MeshRows /\ clock \in Clocks
  BY DEF ControlInv, TypeOK
<1>2. /\ pub' = [pub EXCEPT ![k] = Idle]
      /\ db' = db \/ db' = Bump(db, {"management"})
      /\ UNCHANGED <<signed, clock, draft, elected, changes, lapses, scope>>
  BY DEF PublishConfiguration
<1>3. Steps(db, db')
  BY <1>1, <1>2, FenceSteps
<1>4. TypeOK'
  BY <1>1, <1>2, <1>3, PassFacts DEF TypeOK, Steps
<1>5. db'.life = db.life
  BY <1>1, <1>2, BumpFields DEF Revisions
<1>6. ClockMoves
  BY <1>1, <1>2, <1>5 DEF ClockMoves, OverdueInv
<1>7. RowsMove
  BY <1>1, <1>2, <1>3, <1>4, <1>6, PassFacts DEF RowsMove
<1>8. CASE config' = config
  BY <1>3, <1>7, <1>8, MovesKeep DEF Moves, Steps
<1>9. CASE config' # config
  <2>1. /\ \A kind \in ConfigurationKinds : db.rev[RevisionOf(kind)] \in DOMAIN signed[kind]
        /\ config' = {Parts(db')}
        /\ \A kind \in ConfigurationKinds : db'.rev[RevisionOf(kind)] = db.rev[RevisionOf(kind)]
        /\ db'.life = db.life /\ db'.issuer = db.issuer
    BY <1>1, <1>9, ConfigurationFields
  <2> DEFINE c == Parts(db')
  <2>2. /\ DOMAIN c = ConfigurationKinds \cup {"resources"}
        /\ c["resources"] = Component(db'.rev["management"], db'.resources)
        /\ \A kind \in ConfigurationKinds :
             c[kind] = Component(db'.rev[RevisionOf(kind)], signed[kind][db'.rev[RevisionOf(kind)]])
    BY PartsFields
  <2> HIDE DEF c
  <2>3. ConfigurationKinds \subseteq Kinds /\ {"peers", "revocations", "authorities"}
                                              \subseteq ConfigurationKinds
    BY DEF ConfigurationKinds, Kinds
  <2>4. \A j \in Revisions : db'.rev[j] \in Nat
    BY <1>3 DEF Steps, MeshRows
  <2>5. ASSUME NEW kind \in ConfigurationKinds
        PROVE  LET n == db'.rev[RevisionOf(kind)]
               IN  /\ c[kind].version \in Nat /\ c[kind].version <= n
                   /\ n \in DOMAIN signed'[kind] /\ c[kind] = Component(n, signed'[kind][n])
    <3>1. db'.rev[RevisionOf(kind)] \in Nat
      BY <2>3, <2>4, ColumnsByKind
    <3>2. QED
      BY <1>2, <2>1, <2>2, <3>1 DEF Component
  <2>6. /\ c["resources"] = Component(c["resources"].version, c["resources"].bytes)
        /\ c["resources"].version = db'.rev["management"] /\ db'.rev["management"] \in Nat
    BY <2>2, <2>4 DEF Component, Revisions
  <2>7. /\ c["peers"].bytes = signed["peers"][db.rev["directory"]]
        /\ c["revocations"].bytes = signed["revocations"][db.rev["revocation"]]
        /\ c["authorities"].bytes = signed["authorities"][db.rev["authority"]]
    BY <2>1, <2>2, <2>3, ColumnsByKind DEF Component
  <2>8. ASSUME NEW p \in DOMAIN c["peers"].bytes, NEW x \in c["peers"].bytes[p]
        PROVE  /\ x \in PeerSerials /\ db'.life[x] # "none"
               /\ x \notin c["revocations"].bytes
               /\ db'.issuer[x] \in c["authorities"].bytes.trusted
    BY <2>1, <2>7, <2>8, DirectoryFits
  <2>9. ConfigInv'
    <3>1. config' = {c}
      BY <2>1 DEF c
    <3>2. c["resources"].version <= db'.rev["management"]
      BY <2>6
    <3>3. QED
      BY <2>2, <2>5, <2>6, <2>8, <3>1, <3>2 DEF ConfigInv
  <2>10. ConfigurationConsistent'
    <3>1. config' = {c}
      BY <2>1 DEF c
    <3>2. QED
      BY <2>8, <3>1 DEF ConfigurationConsistent
  <2>11. StoredInv' /\ NoStaleProjection' /\ BundleInv'
    BY <1>7, SignedCarries DEF ControlInv
  <2>12. PassInv'
    BY <1>7, PassCarries DEF ControlInv
  <2>13. RowsInv(db)' /\ OverdueInv'
    BY <1>3, <1>6 DEF Steps, ClockMoves, RowsInv
  <2>14. QED
    BY <1>3, <1>4, <2>9, <2>10, <2>11, <2>12, <2>13 DEF ControlInv, Steps
<1>10. QED
  BY <1>8, <1>9

-----------------------------------------------------------------------------
(* The invariant.                                                          *)

\* Every step keeps the invariant, and the rows age.
LEMMA NextKeeps ==
    ASSUME ControlInv, Next
    PROVE  ControlInv' /\ RowsAge(db, db')
<1>1. TypeOK /\ RowsInv(db) /\ OverdueInv /\ scope.controls \subseteq Controls
  BY InstallationAssumption DEF ControlInv, TypeOK
<1>2. ASSUME Moves PROVE ControlInv' /\ RowsAge(db, db')
  BY <1>2, MovesKeep DEF Moves, RowsMove, Steps
<1>3. CASE Transactions \/ Time \/ DeleteExpired
  BY <1>1, <1>2, <1>3, TransactionMoves, TimeMoves, DeleteMoves
<1>4. CASE PruneSignedStates
  BY <1>4, PruneKeeps
<1>5. ASSUME NEW k \in Controls, Pass(k) \/ AbortPass(k)
      PROVE  ControlInv' /\ RowsAge(db, db')
  <2>1. CASE ExpireDeviceAdmissions(k) \/ ExpireCredentials(k) \/ IssuePendingPeerRotations(k)
             \/ RefreshConsoleServicePolicy(k) \/ Elect(k) \/ AbortPass(k)
    BY <1>1, <1>2, <2>1, ExpireAdmissionsMoves, ExpireCredentialsMoves, IssueMoves,
       RefreshMoves, ElectMoves
  <2>2. CASE Snapshot(k)
    BY <2>2, SnapshotKeeps
  <2>3. CASE PublishStates(k)
    BY <2>3, PublishKeeps
  <2>4. CASE PublishConfiguration(k)
    BY <2>4, ConfigurationKeeps
  <2>5. QED
    BY <1>5, <2>1, <2>2, <2>3, <2>4 DEF Pass
<1>6. QED
  BY <1>1, <1>3, <1>4, <1>5 DEF Next

\* A step that changes nothing keeps it too.
LEMMA StutterKeeps ==
    ASSUME ControlInv, UNCHANGED vars
    PROVE  ControlInv' /\ RowsAge(db, db')
<1>1. /\ TypeOK /\ RowsInv(db) /\ OverdueInv
  BY DEF ControlInv
<1>2. TypeOK'
  BY <1>1 DEF TypeOK, vars
<1>3. Moves
  BY <1>1, <1>2, SameRowsMove DEF vars
<1>4. QED
  BY <1>3, MovesKeep DEF Moves, RowsMove, Steps

\* The installation as initialize_installation leaves it.
LEMMA ProvisionedRows ==
    Provisioned \in MeshRows /\ RowsInv(Provisioned)
<1>1. /\ FirstAuthority \in Authorities /\ FirstRelay \in Relays
      /\ \A v \in Services : ProviderOf[v] \in Peers
  BY InstallationAssumption
<1>2. QED
  BY <1>1 DEF Provisioned, MeshRows, RowsInv, Lifecycles, Revisions

\* The initial states.
LEMMA InitKeeps ==
    ASSUME Init
    PROVE  ControlInv
<1>1. db \in MeshRows /\ RowsInv(db)
  <2>1. CASE db = Provisioned
    BY <2>1, ProvisionedRows
  <2>2. CASE db = Offered(Joined(Provisioned, FirstSerial, FirstAuthority), FirstService)
    <3> DEFINE j == Joined(Provisioned, FirstSerial, FirstAuthority)
               service == [j.service EXCEPT ![FirstService] = "enabled"]
    <3>1. /\ FirstSerial \in PeerSerials /\ FirstAuthority \in Authorities
          /\ FirstService \in Services /\ PeerOf[FirstSerial] \in Peers
          /\ ProviderOf[FirstService] = PeerOf[FirstSerial]
      BY InstallationAssumption
    <3>2. /\ Provisioned.peer[PeerOf[FirstSerial]] = "none"
          /\ Provisioned.life[FirstSerial] = "none" /\ Provisioned.life[FirstAuthority] = "active"
      BY <3>1, SerialFacts, InstallationAssumption DEF Provisioned
    <3>3. Steps(Provisioned, j)
      BY <3>1, <3>2, ProvisionedRows, JoinSteps
    <3>4. j \in MeshRows /\ RowsInv(j)
      BY <3>3 DEF Steps
    <3>5. j.peer[PeerOf[FirstSerial]] = "enabled"
      BY <3>1 DEF Joined, Provisioned, Bump, Raise, Set
    <3> HIDE DEF j
    <3>6. /\ service \in [Services -> {"none", "enabled", "disabled"}]
          /\ \A v \in Services : service[v] = "enabled" =>
                 j.service[v] = "enabled" \/ j.peer[ProviderOf[v]] # "none"
      BY <3>1, <3>4, <3>5 DEF MeshRows
    <3>7. db = Bump([j EXCEPT !.service = service], {"service", "directory"})
      BY <2>2 DEF Offered, j
    <3> HIDE DEF service
    <3>8. Steps(j, db)
      BY <3>4, <3>6, <3>7, ServiceSteps
    <3>9. QED
      BY <3>8 DEF Steps
  <2>3. QED
    BY <2>1, <2>2 DEF Init
<1>2. clock \in Clocks /\ clock \in EarlierClocks /\ clock.overdue = {}
  BY DEF Init, Clocks, EarlierClocks
<1>3. pub \in [Controls -> Passes] /\ \A k \in Controls : pub[k].rows = {} /\ pub[k].stored = {}
  BY DEF Init, Idle, Passes
<1>4. \A kind \in Kinds : /\ DOMAIN signed[kind] = {db.rev[RevisionOf(kind)]}
                          /\ signed[kind][db.rev[RevisionOf(kind)]] = Projection(kind, db, clock)
  BY DEF Init
<1>5. \A kind \in Kinds : db.rev[RevisionOf(kind)] \in Nat
  BY <1>1, ColumnsByKind DEF MeshRows
<1>6. TypeOK
  BY <1>1, <1>2, <1>3, <1>4, <1>5 DEF Init, TypeOK
<1>7. OverdueInv /\ StoredInv
  BY <1>2, <1>4, <1>5 DEF OverdueInv, StoredInv
<1>8. \A kind \in Kinds : SameView(kind, db, db)
  BY <1>1, EvolvesReflexive DEF Evolves
<1>9. \A kind \in Kinds : Shows(kind, clock)
  BY <1>2, <1>4, <1>8 DEF Shows, SameView
<1>10. NoStaleProjection
  BY <1>2, <1>9 DEF NoStaleProjection, Shows
<1>11. BundleInv
  <2>1. "peers" \in Kinds /\ "authorities" \in Kinds
    BY DEF Kinds
  <2>2. QED
    BY <1>2, <1>9, <2>1 DEF BundleInv
<1>12. PassInv
  BY <1>3 DEF PassInv
<1>13. ConfigInv /\ ConfigurationConsistent
  BY DEF Init, ConfigInv, ConfigurationConsistent
<1>14. QED
  BY <1>1, <1>6, <1>7, <1>10, <1>11, <1>12, <1>13 DEF ControlInv

\* The rows, the stored revisions, the passes of every Control instance and the
\* newest configuration stay in step, whatever transactions, lapses, aborted
\* passes and maintenance do, in any order.
THEOREM ControlInvariant == Spec => []ControlInv
<1>1. Init => ControlInv
  BY InitKeeps
<1>2. ControlInv /\ [Next]_vars => ControlInv'
  BY NextKeeps, StutterKeeps
<1>3. QED
  BY <1>1, <1>2, PTL DEF Spec

\* Type correctness of the rows, the stored revisions and the passes.
THEOREM ControlTypes == Spec => []TypeOK
<1>1. ControlInv => TypeOK
  BY DEF ControlInv
<1>2. QED
  BY <1>1, ControlInvariant, PTL

\* publish_mesh_state: what is stored at the current revision of a kind is the
\* projection of the present rows, up to deadlines that have passed and rows
\* that have been deleted since.  No transaction changes what a kind shows
\* without moving its revision, and no pass stores a body that is out of date.
THEOREM ProjectionsAreCurrent == Spec => []NoStaleProjection
<1>1. ControlInv => NoStaleProjection
  BY DEF ControlInv
<1>2. QED
  BY <1>1, ControlInvariant, PTL

\* publish_configuration: no binding of the newest configuration's directory is
\* in its revocation list, and its bundle trusts the issuer of every binding.
THEOREM ConfigurationsFit == Spec => []ConfigurationConsistent
<1>1. ControlInv => ConfigurationConsistent
  BY DEF ControlInv
<1>2. QED
  BY <1>1, ControlInvariant, PTL

\* Only a pass that publishes a configuration changes it.
LEMMA ConfigurationChanges ==
    ASSUME ControlInv, [Next]_vars, config' # config
    PROVE  \E k \in Controls : PublishConfiguration(k)
<1>1. TypeOK /\ RowsInv(db) /\ OverdueInv /\ scope.controls \subseteq Controls
  BY InstallationAssumption DEF ControlInv, TypeOK
<1>2. ~Moves
  BY DEF Moves
<1>3. ~(Transactions \/ Time \/ DeleteExpired)
  BY <1>1, <1>2, TransactionMoves, TimeMoves, DeleteMoves
<1>4. ~PruneSignedStates
  BY SMTT(60) DEF PruneSignedStates
<1>5. ASSUME NEW k \in Controls, Pass(k) \/ AbortPass(k)
      PROVE  PublishConfiguration(k)
  BY <1>5 DEF Pass, AbortPass, ExpireDeviceAdmissions, ExpireCredentials,
              IssuePendingPeerRotations, RefreshConsoleServicePolicy, Snapshot, Elect,
              PublishStates
<1>6. QED
  BY <1>1, <1>3, <1>4, <1>5 DEF Next, vars

\* publish_configuration: from one configuration to the next a part moves to a
\* higher version or stays byte for byte the same.
THEOREM VersionsAreNotReused == Spec => NoVersionReuse
<1>1. ASSUME ControlInv, [Next]_vars, NEW old \in config, NEW new \in config',
             NEW part \in DOMAIN old
      PROVE  new[part].version > old[part].version \/ new[part] = old[part]
  <2>1. CASE config' = config
    BY <1>1, <2>1 DEF ControlInv, ConfigInv
  <2>2. CASE config' # config
    <3>1. PICK k \in Controls : PublishConfiguration(k)
      BY <1>1, <2>2, ConfigurationChanges
    <3>2. TypeOK /\ ConfigInv /\ db \in MeshRows
      BY <1>1 DEF ControlInv, TypeOK
    <3>3. /\ config' = {Parts(db')}
          /\ db'.rev["management"] = IF ReusedVersion THEN db.rev["management"] + 1
                                     ELSE db.rev["management"]
          /\ \A kind \in ConfigurationKinds : db'.rev[RevisionOf(kind)] = db.rev[RevisionOf(kind)]
          /\ db'.resources = db.resources
      BY <2>2, <3>1, <3>2, ConfigurationFields
    <3>4. /\ new["resources"] = Component(db'.rev["management"], db.resources)
          /\ \A kind \in ConfigurationKinds :
               new[kind] = Component(db.rev[RevisionOf(kind)],
                                     signed[kind][db.rev[RevisionOf(kind)]])
      <4>1. new = Parts(db')
        BY <1>1, <3>3
      <4>2. QED
        BY <3>3, <4>1, PartsFields
    <3>5. CASE part \in ConfigurationKinds
      <4> DEFINE n == db.rev[RevisionOf(part)]
      <4>1. /\ old[part].version \in Nat /\ old[part].version <= n
            /\ old[part].version = n => old[part] = Component(n, signed[part][n])
        BY <1>1, <3>2, <3>5 DEF ConfigInv
      <4>2. new[part] = Component(n, signed[part][n]) /\ new[part].version = n
        BY <3>4, <3>5 DEF Component
      <4>3. n \in Nat
        BY <3>2, <3>5, ColumnsByKind DEF MeshRows, ConfigurationKinds, Kinds
      <4> HIDE DEF n
      <4>4. QED
        BY <4>1, <4>2, <4>3
    <3>6. CASE part = "resources"
      <4>1. /\ old["resources"] = Component(old["resources"].version, old["resources"].bytes)
            /\ old["resources"].version \in Nat
            /\ old["resources"].version <= db.rev["management"]
        BY <1>1, <3>2 DEF ConfigInv
      <4>2. db.rev["management"] \in Nat
        BY <3>2 DEF MeshRows, Revisions
      <4>3. new["resources"].version = db'.rev["management"]
        BY <3>4 DEF Component
      <4>4. CASE old["resources"].version < db'.rev["management"]
        BY <3>3, <3>6, <4>1, <4>2, <4>3, <4>4
      <4>5. CASE ~(old["resources"].version < db'.rev["management"])
        <5>1. ~ReusedVersion /\ old["resources"].version = db.rev["management"]
              /\ db'.rev["management"] = db.rev["management"]
          BY <3>3, <4>1, <4>2, <4>5
        <5>2. old["resources"].bytes = db.resources
          BY <1>1, <5>1 DEF ReusedVersion
        <5>3. QED
          BY <3>4, <3>6, <4>1, <5>1, <5>2
      <4>6. QED
        BY <4>4, <4>5
    <3>7. DOMAIN old = ConfigurationKinds \cup {"resources"}
      BY <1>1, <3>2 DEF ConfigInv
    <3>8. QED
      BY <1>1, <3>5, <3>6, <3>7
  <2>3. QED
    BY <2>1, <2>2
<1>2. ControlInv /\ [Next]_vars =>
        [\A old \in config, new \in config' :
            \A part \in DOMAIN old :
                \/ new[part].version > old[part].version
                \/ new[part] = old[part]]_vars
  BY <1>1
<1>3. QED
  BY <1>2, ControlInvariant, PTL DEF Spec, NoVersionReuse

-----------------------------------------------------------------------------
(* Stopped devices.                                                        *)

\* A Peer that lost its addresses: nothing gives them back to a known Peer.
Out(p) == db.peer[p] # "none" /\ ~db.addressed[p]

\* A device whose access was stopped is never listed again, whatever enabling,
\* rotation or activation follows: only claim_public_join of a new Peer assigns
\* addresses, and the directory shows addressed Peers.
THEOREM StoppedStaysOut == Spec => StoppedDeviceStaysOut
<1>1. ASSUME NEW p \in Peers
      PROVE  Spec => [](db.peer[p] \in {"disabled", "deleted"} => []~Listed(p))
  <2>1. ControlInv /\ db.peer[p] \in {"disabled", "deleted"} => Out(p)
    BY DEF ControlInv, RowsInv, Out
  <2>2. ControlInv /\ Out(p) /\ [Next]_vars => Out(p)'
    <3>1. ControlInv /\ [Next]_vars => RowsAge(db, db')
      BY NextKeeps, StutterKeeps
    <3>2. QED
      BY <3>1 DEF Out, RowsAge
  <2>3. ControlInv /\ Out(p) => ~Listed(p)
    <3> SUFFICES ASSUME ControlInv, ~db.addressed[p], Listed(p) PROVE FALSE
      BY DEF Out
    <3>1. /\ db.rev["directory"] \in DOMAIN signed["peers"]
          /\ p \in DOMAIN signed["peers"][db.rev["directory"]]
      BY DEF Listed
    <3>2. PICK c \in EarlierClocks : Shows("peers", c)
      BY <3>1 DEF ControlInv, BundleInv
    <3>3. signed["peers"][db.rev["directory"]] = PeersBody(db, c)
      BY <3>2, ColumnsByKind, ProjectionByKind, MatchByKind DEF Shows
    <3>4. p \in ListedPeers(db, c)
      BY <3>1, <3>3 DEF PeersBody
    <3>5. QED
      BY <3>4 DEF ListedPeers
  <2>4. QED
    BY <2>1, <2>2, <2>3, ControlInvariant, PTL DEF Spec
<1>2. QED
  BY <1>1 DEF StoppedDeviceStaysOut

====
