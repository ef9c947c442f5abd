--------------------------- MODULE ServiceProofs ---------------------------
(* Theorems about Service, for any finite set of connections and any       *)
(* identities, tokens, calls of Stop and bounds.                           *)
EXTENDS Service, FiniteSetTheorems, TLAPS

ConnType == [pc : ConnPCs, id : Nat \cup {None},
             agent : Identities \cup {None}, label : Identities \cup {None},
             session : Sessions \cup {None}, job : Jobs \cup {None},
             closed : BOOLEAN]

\* The daemon's own state, without its agents.
LifeType ==
    /\ stage \in {"new", "running", "failed"} /\ ctxDone \in BOOLEAN
    /\ listening \subseteq Listeners /\ loops \subseteq Listeners \cup {"web"}
    /\ stops \in [Stops -> [pc : StopPCs, left : SUBSET Conns]]
    /\ nextConnID \in Nat
    /\ messages \in 0..MaxMessages

\* What enrolment has stored.
EnrolType ==
    /\ keys \in [Identities -> PublicKeys \cup {None}]
    /\ owner \in Identities \cup {None} /\ grantee \in Identities \cup {None}
    /\ invites \in [Tokens -> {"none", "partial", "unused", "used"}]
    /\ upsets \in 0..MaxUpsets

Enrolling == {"checked", "verified", "consumed"}

ConnsType ==
    /\ conns \in [Conns -> ConnType]
    /\ \A c \in Conns : conns[c].pc \in Enrolling <=> conns[c].job # None

TypeInv == LifeType /\ EnrolType /\ ConnsType

\* A connection that has an id, and one whose goroutine has drawn one.
HasID(c) == conns[c].pc \in Registered \cup {"created"}
Drawn == {c \in Conns : conns[c].pc \notin {"none", "accepted"}}

\* Ids are drawn once each, and the map is the inverse of the ids of the
\* registered connections.
RegistryInv ==
    /\ \A c \in Conns : HasID(c) => conns[c].id \in Nat /\ conns[c].id < nextConnID
    /\ \A c \in Conns : ~HasID(c) => conns[c].id = None
    /\ \A c, d \in Conns : HasID(c) /\ HasID(d) /\ conns[c].id = conns[d].id => c = d
    /\ \A n \in DOMAIN registry :
          /\ registry[n] \in Conns
          /\ conns[registry[n]].pc \in Registered /\ conns[registry[n]].id = n
    /\ \A c \in Conns : conns[c].pc \in Registered =>
          conns[c].id \in DOMAIN registry /\ registry[conns[c].id] = c

CountInv == nextConnID = Cardinality(Drawn)

\* Every key ever stored for an identity, and that key is one of E's for i.
Stored == enrolled \cup written
StoredFor(E, i, key) == \E e \in E : e.identity = i /\ e.key = key

\* Keys in the tree, and the challenges made from them, were stored for
\* their identity.
KeyInv ==
    /\ \A i \in Identities : keys[i] # None => StoredFor(Stored, i, keys[i])
    /\ \A c \in Conns : conns[c].session # None =>
          StoredFor(Stored, conns[c].session.identity, conns[c].session.key)
    /\ IdentityProven

\* A walk has closed every registered connection it no longer has before it;
\* after a walk, an open one is on its way to the cancelled context.
WalkInv ==
    /\ \A s \in Stops : stops[s].pc # "idle" => ctxDone
    /\ \A s \in Stops : stops[s].pc = "walking" =>
          \A c \in Conns : conns[c].pc \in Registered /\ c \notin stops[s].left => conns[c].closed
    /\ \A s \in Stops : stops[s].pc \in {"walked", "returned"} =>
          \A c \in Conns : conns[c].pc \in Registered \ {"loop", "closing"} => conns[c].closed

\* A client's message that writes one of the daemon's records.
WritesRecord(c) == HandleExecute(c) \/ \E k \in {KeyOf[c], None} : HandleWrite(c, k)

\* It stores a key of the client's, or none, for some identity, or leaves the
\* keys alone; it redeems and enrols nothing.
LEMMA WritesRecordFields ==
    ASSUME ConnsType, NEW c \in Conns, WritesRecord(c)
    PROVE  /\ Receives(c) /\ Handled /\ Upset /\ conns' = Answer(c)
           /\ UNCHANGED <<grantee, enrolled, redeemed, burnt>>
           /\ \/ /\ \E i \in Identities, k \in {KeyOf[c], None} : WriteKey(i, k)
                 /\ UNCHANGED <<owner, invites>>
              \/ /\ UNCHANGED <<keys, written>>
                 /\ \/ owner' \in Identities \cup {None} /\ invites' = invites
                    \/ /\ owner' = owner
                       /\ \E t \in Tokens, mark \in {"partial", "unused", "used"} :
                             invites' = [invites EXCEPT ![t] = mark]
<1>1. CASE HandleExecute(c)
  BY <1>1 DEF HandleExecute, WriteKey
<1>2. CASE \E k \in {KeyOf[c], None} : HandleWrite(c, k)
  <2>1. conns[c].agent # None => conns[c].agent \in Identities
    BY DEF ConnsType, ConnType
  <2>2. QED
    BY <1>2, <2>1 DEF HandleWrite, WriteKey
<1>3. QED
  BY <1>1, <1>2 DEF WritesRecord

\* The service's own variables keep their types.
LEMMA LifeTypeInductive ==
    /\ Init => LifeType
    /\ LifeType /\ RegistryInv /\ [Next]_vars => LifeType'
<1> USE ServiceAssumption DEF LifeType
<1>1. Init => LifeType
  <2>1. [pc |-> "idle", left |-> {}] \in [pc : StopPCs, left : SUBSET Conns]
    BY DEF StopPCs
  <2>2. Init => stops \in [Stops -> [pc : StopPCs, left : SUBSET Conns]]
    BY <2>1 DEF Init
  <2>3. Init => messages \in 0..MaxMessages /\ nextConnID \in Nat
    BY DEF Init
  <2>4. Init => /\ stage \in {"new", "running", "failed"}
                /\ listening \subseteq Listeners /\ loops \subseteq Listeners \cup {"web"}
                /\ ctxDone \in BOOLEAN
    BY DEF Init
  <2>5. QED
    BY <2>2, <2>3, <2>4
<1>2. ASSUME LifeType, Start PROVE LifeType'
  BY <1>2 DEF Start, Listeners
<1>3. ASSUME LifeType, NEW l \in Listeners \cup {"web"}, EndLoop(l) PROVE LifeType'
  BY <1>3 DEF EndLoop
<1>4. ASSUME LifeType, NEW s \in Stops, Signal(s) \/ CloseListeners(s) \/ EndWalk(s) \/ ReturnFromStop(s)
      PROVE LifeType'
  <2>1. PICK from, to \in StopPCs : Step(s, from, to)
    BY <1>4 DEF Signal, BeginStop, CloseListeners, EndWalk, ReturnFromStop, StopPCs
  <2>2. stops' \in [Stops -> [pc : StopPCs, left : SUBSET Conns]]
    BY <1>4, <2>1 DEF Step
  <2>3. QED
    BY <1>4, <2>2 DEF Signal, BeginStop, CloseListeners, EndWalk, ReturnFromStop, lifecycle
<1>5. ASSUME LifeType, RegistryInv, NEW s \in Stops, BeginWalk(s) PROVE LifeType'
  BY <1>5 DEF BeginWalk, lifecycle, StopPCs, RegistryInv, Range
<1>6. ASSUME LifeType, NEW s \in Stops, NEW c \in Conns, CloseConnection(s, c) PROVE LifeType'
  BY <1>6 DEF CloseConnection, lifecycle
<1>7. ASSUME LifeType, NEW s \in Stops, NEW c \in Conns, HandleStop(c, s) PROVE LifeType'
  BY <1>7 DEF HandleStop, BeginStop, Step, Receives, StopPCs
<1>8. ASSUME LifeType, NEW c \in Conns,
             \/ Register(c) \/ Unregister(c) \/ AssignID(c) \/ Accept(c) \/ CheckContext(c)
             \/ ReadAfterClose(c) \/ HangUp(c) \/ BeginSend(c) \/ EndSend(c)
      PROVE LifeType'
  BY <1>8 DEF Register, Unregister, AssignID, Accept, CheckContext, ReadAfterClose, HangUp,
              BeginSend, EndSend, Quiet, lifecycle
<1>9. ASSUME LifeType, NEW c \in Conns,
             \/ HandleData(c) \/ HandleStatus(c) \/ WritesRecord(c)
             \/ VerifyInvite(c) \/ ConsumeInvite(c) \/ StoreKey(c)
             \/ \E i \in Identities : HandleAuthInit(c, i) \/ HandleAuthResponse(c, i)
             \/ \E t \in Tokens : HandleInviteCreate(c, t)
             \/ \E i \in Identities, t \in Tokens, k \in {KeyOf[c], None} : HandleRegister(c, i, t, k)
      PROVE LifeType'
  <2>1. UNCHANGED <<lifecycle, nextConnID, stops>> /\ (messages' = messages \/ Receives(c))
    BY <1>9 DEF HandleData, HandleStatus, WritesRecord, HandleWrite, HandleExecute,
                VerifyInvite, ConsumeInvite, StoreKey, Handled, HandleAuthInit, HandleAuthResponse, HandleInviteCreate, HandleRegister
  <2>2. QED
    BY <1>9, <2>1 DEF Receives, lifecycle
<1>10. ASSUME LifeType, NEW done \in 0..4, InitOwner(done) PROVE LifeType'
  BY <1>10 DEF InitOwner, lifecycle
<1>11. ASSUME LifeType, UNCHANGED vars PROVE LifeType'
  BY <1>11 DEF vars, lifecycle
<1>12. QED
  BY <1>1, <1>2, <1>3, <1>4, <1>5, <1>6, <1>7, <1>8, <1>9, <1>10, <1>11
     DEF Next, StopSteps, GoroutineSteps, ClientSteps, WritesRecord

\* Keys, invites and registrations keep their types.
LEMMA EnrolTypeInductive ==
    /\ Init => EnrolType
    /\ TypeInv /\ [Next]_vars => EnrolType'
<1> USE DEF EnrolType
<1>1. Init => EnrolType
  BY ServiceAssumption DEF Init
<1>2. ASSUME EnrolType, NEW done \in 0..4, InitOwner(done) PROVE EnrolType'
  <2>1. Owner \in Identities /\ OwnerKey \in PublicKeys
    BY ServiceAssumption DEF PublicKeys
  <2>2. QED
    BY <1>2, <2>1, ServiceAssumption DEF InitOwner
<1>3. ASSUME EnrolType, NEW c \in Conns, NEW t \in Tokens, HandleInviteCreate(c, t)
      PROVE EnrolType'
  BY <1>3, ServiceAssumption DEF HandleInviteCreate
<1>4. ASSUME EnrolType, NEW c \in Conns, ConsumeInvite(c) PROVE EnrolType'
  BY <1>4, ServiceAssumption DEF ConsumeInvite
<1>5. ASSUME TypeInv, NEW c \in Conns, StoreKey(c) PROVE EnrolType'
  <2>1. conns[c].job \in Jobs
    BY <1>5 DEF TypeInv, ConnsType, ConnType, Enrolling, StoreKey, At
  <2>2. conns[c].job.identity \in Identities /\ conns[c].job.key \in PublicKeys \cup {None}
    BY <2>1 DEF Jobs
  <2>3. QED
    BY <1>5, <2>2, ServiceAssumption DEF TypeInv, StoreKey
<1>6. ASSUME EnrolType, UNCHANGED enrolment PROVE EnrolType'
  BY <1>6 DEF enrolment
<1>7. ASSUME NEW c \in Conns,
             GoroutineSteps(c) \/ ClientSteps(c)
      PROVE  \/ UNCHANGED enrolment \/ ConsumeInvite(c) \/ StoreKey(c) \/ WritesRecord(c)
             \/ \E t \in Tokens : HandleInviteCreate(c, t)
  BY <1>7 DEF GoroutineSteps, ClientSteps, WritesRecord, AssignID, Register, CheckContext, ReadAfterClose,
              VerifyInvite, BeginSend, EndSend, Unregister, Accept, HangUp, HandleData,
              HandleStatus, HandleStop, HandleAuthInit, HandleAuthResponse, HandleRegister, Quiet
<1>8. Start \/ (\E l \in Listeners \cup {"web"} : EndLoop(l))
            \/ (\E s \in Stops : Signal(s) \/ StopSteps(s))
      => UNCHANGED enrolment
  BY DEF Start, EndLoop, Signal, StopSteps, CloseListeners, BeginWalk, EndWalk, ReturnFromStop,
         CloseConnection
<1>9. ASSUME TypeInv, NEW c \in Conns, WritesRecord(c) PROVE EnrolType'
  <2>1. upsets' \in 0..MaxUpsets /\ grantee' = grantee
    BY <1>9, WritesRecordFields, ServiceAssumption DEF TypeInv, Upset
  <2>2. CASE /\ \E i \in Identities, k \in {KeyOf[c], None} : WriteKey(i, k)
             /\ UNCHANGED <<owner, invites>>
    <3>1. KeyOf[c] \in PublicKeys
      BY ServiceAssumption DEF PublicKeys, Range
    <3>2. QED
      BY <1>9, <2>1, <2>2, <3>1 DEF TypeInv, WriteKey
  <2>3. CASE /\ UNCHANGED <<keys, written>>
             /\ \/ owner' \in Identities \cup {None} /\ invites' = invites
                \/ /\ owner' = owner
                   /\ \E t \in Tokens, mark \in {"partial", "unused", "used"} :
                         invites' = [invites EXCEPT ![t] = mark]
    BY <1>9, <2>1, <2>3 DEF TypeInv
  <2>4. QED
    BY <1>9, <2>2, <2>3, WritesRecordFields DEF TypeInv
<1>10. QED
  BY <1>1, <1>2, <1>3, <1>4, <1>5, <1>6, <1>7, <1>8, <1>9 DEF Next, vars, TypeInv

\* A connection after its goroutine moved on.
LEMMA GotoFields ==
    ASSUME conns \in [Conns -> ConnType], NEW c \in Conns, NEW pc \in ConnPCs, Goto(c, pc)
    PROVE  /\ conns' \in [Conns -> ConnType]
           /\ conns'[c] = [conns[c] EXCEPT !.pc = pc]
           /\ \A d \in Conns \ {c} : conns'[d] = conns[d]
BY DEF Goto, ConnType

\* A connection whose message is handled: only the place and the job change.
LEMMA AnswerFields ==
    ASSUME conns \in [Conns -> ConnType], NEW c \in Conns
    PROVE  /\ Answer(c) \in [Conns -> ConnType]
           /\ Answer(c)[c] = [conns[c] EXCEPT !.pc = "reply", !.job = None]
           /\ Answer(c)[c].pc = "reply" /\ Answer(c)[c].job = None
           /\ Answer(c)[c].id = conns[c].id /\ Answer(c)[c].agent = conns[c].agent
           /\ Answer(c)[c].label = conns[c].label /\ Answer(c)[c].session = conns[c].session
           /\ Answer(c)[c].closed = conns[c].closed
           /\ \A d \in Conns \ {c} : Answer(c)[d] = conns[d]
<1> DEFINE r == [conns[c] EXCEPT !.pc = "reply", !.job = None]
<1>1. conns[c] \in ConnType
  OBVIOUS
<1>2. r \in ConnType
  BY <1>1 DEF ConnType, ConnPCs
<1>3. Answer(c) = [conns EXCEPT ![c] = r]
  BY DEF Answer
<1>4. r.pc = "reply" /\ r.job = None /\ r.id = conns[c].id /\ r.agent = conns[c].agent
      /\ r.label = conns[c].label /\ r.session = conns[c].session
  BY <1>1 DEF ConnType
<1>5. r.closed = conns[c].closed
  BY <1>1 DEF ConnType
<1> HIDE DEF r
<1>6. Answer(c)[c] = r /\ Answer(c) \in [Conns -> ConnType]
      /\ \A d \in Conns \ {c} : Answer(c)[d] = conns[d]
  BY <1>2, <1>3
<1>7. QED
  BY <1>4, <1>5, <1>6 DEF r

\* A connection whose wrapper is made.
LEMMA NewConnectionFields ==
    ASSUME TypeInv, NEW c \in Conns
    PROVE  LET r == [conns[c] EXCEPT !.pc = "created", !.id = nextConnID,
                                     !.agent = IF c \in Locals THEN owner ELSE None]
           IN  r \in ConnType /\ NewConnection(c, nextConnID) = [conns EXCEPT ![c] = r]
<1> DEFINE a == IF c \in Locals THEN owner ELSE None
           r == [conns[c] EXCEPT !.pc = "created", !.id = nextConnID, !.agent = a]
<1>1. conns[c] \in ConnType /\ a \in Identities \cup {None} /\ nextConnID \in Nat
  BY DEF TypeInv, ConnsType, EnrolType, LifeType
<1>2. r \in ConnType
  <2> HIDE DEF a
  <2> QED
    BY <1>1 DEF ConnType, ConnPCs
<1>3. NewConnection(c, nextConnID) = [conns EXCEPT ![c] = r]
  BY DEF NewConnection, OwnerIdentity
<1>4. QED
  BY <1>2, <1>3

\* The locals of the connections keep their types.
LEMMA ConnsTypeInductive ==
    /\ Init => ConnsType
    /\ TypeInv /\ [Next]_vars => ConnsType'
<1> USE DEF ConnsType
<1>0. /\ None \notin Jobs /\ None \notin Sessions
      /\ \A c \in Conns : KeyOf[c] \in PublicKeys
  BY ServiceAssumption DEF PublicKeys, Range
<1>1. Init => ConnsType
  <2>1. NewConn \in ConnType
    BY DEF NewConn, ConnType, ConnPCs
  <2>2. Init => conns = [c \in Conns |-> NewConn]
    BY DEF Init
  <2>3. NewConn.pc \notin Enrolling /\ NewConn.job = None
    BY DEF NewConn, Enrolling
  <2>4. QED
    BY <2>1, <2>2, <2>3
<1>2. ASSUME ConnsType, NEW c \in Conns, NEW pc \in ConnPCs, Goto(c, pc),
             conns[c].pc \in Enrolling <=> pc \in Enrolling
      PROVE ConnsType'
  BY <1>2 DEF Goto, ConnType
<1>3. ASSUME ConnsType, NEW c \in Conns, conns' = Answer(c) PROVE ConnsType'
  <2>1. /\ Answer(c) \in [Conns -> ConnType]
        /\ Answer(c)[c].pc = "reply" /\ Answer(c)[c].job = None
        /\ \A d \in Conns \ {c} : Answer(c)[d] = conns[d]
    BY <1>3, AnswerFields DEF ConnType
  <2>2. QED
    BY <1>3, <2>1 DEF Enrolling
<1>4. ASSUME TypeInv, NEW c \in Conns, AssignID(c) PROVE ConnsType'
  <2> DEFINE r == [conns[c] EXCEPT !.pc = "created", !.id = nextConnID,
                                   !.agent = IF c \in Locals THEN owner ELSE None]
  <2>1. r \in ConnType /\ conns' = [conns EXCEPT ![c] = r]
    BY <1>4, NewConnectionFields DEF AssignID
  <2>2. conns[c] \in ConnType /\ conns[c].pc = "accepted"
    BY <1>4 DEF TypeInv, AssignID, At
  <2>3. r.pc = "created" /\ r.job = conns[c].job
    BY <2>2 DEF ConnType
  <2> HIDE DEF r
  <2>4. QED
    BY <1>4, <2>1, <2>2, <2>3 DEF TypeInv, Enrolling
<1>5. ASSUME ConnsType, NEW c \in Conns, Unregister(c) PROVE ConnsType'
  BY <1>5 DEF Unregister, At, NewConn, ConnType, ConnPCs, Enrolling
<1>6. ASSUME ConnsType, NEW c \in Conns, NEW s \in Stops, CloseConnection(s, c) PROVE ConnsType'
  BY <1>6 DEF CloseConnection, ConnType
<1>7. ASSUME TypeInv, NEW c \in Conns, NEW i \in Identities, HandleAuthInit(c, i) PROVE ConnsType'
  <2>1. CASE LookupAgentPublicKey(i) = None
    BY <1>3, <1>7, <2>1 DEF HandleAuthInit, TypeInv
  <2>2. CASE LookupAgentPublicKey(i) # None
    <3> DEFINE x == [identity |-> i, key |-> keys[i]]
               r == [Answer(c)[c] EXCEPT !.session = x]
    <3>1. conns' = [Answer(c) EXCEPT ![c].session = x]
      BY <1>7, <2>2 DEF HandleAuthInit, LookupAgentPublicKey
    <3>2. x \in Sessions
      BY <1>7, <2>2 DEF TypeInv, EnrolType, LookupAgentPublicKey, Sessions
    <3>3. /\ Answer(c) \in [Conns -> ConnType]
          /\ Answer(c)[c].pc = "reply" /\ Answer(c)[c].job = None
          /\ \A d \in Conns \ {c} : Answer(c)[d] = conns[d]
      BY <1>7, AnswerFields DEF TypeInv, ConnType
    <3> HIDE DEF x
    <3>4. r \in ConnType /\ r.pc = "reply" /\ r.job = None
      BY <3>2, <3>3 DEF ConnType
    <3>5. conns' = [Answer(c) EXCEPT ![c] = r]
      BY <3>1
    <3> HIDE DEF r
    <3>6. QED
      BY <1>7, <3>3, <3>4, <3>5 DEF TypeInv, Enrolling
  <2>3. QED
    BY <2>1, <2>2
<1>8. ASSUME ConnsType, NEW c \in Conns, NEW i \in Identities, HandleAuthResponse(c, i)
      PROVE ConnsType'
  BY <1>8 DEF HandleAuthResponse, Answer, Receives, At, ConnType, ConnPCs, Enrolling
<1>9. ASSUME ConnsType, NEW c \in Conns, NEW i \in Identities, NEW t \in Tokens,
             NEW k \in {KeyOf[c], None}, HandleRegister(c, i, t, k)
      PROVE ConnsType'
  <2> DEFINE j == [identity |-> i, token |-> t, key |-> k]
             r == [conns[c] EXCEPT !.pc = "checked", !.job = j]
  <2>1. CASE LookupAgentPublicKey(i) # None
    BY <1>3, <1>9, <2>1 DEF HandleRegister
  <2>2. CASE LookupAgentPublicKey(i) = None
    <3>1. conns' = [conns EXCEPT ![c] = r]
      BY <1>9, <2>2 DEF HandleRegister
    <3>2. j \in Jobs
      BY <1>0 DEF Jobs
    <3> HIDE DEF j
    <3>3. r \in ConnType /\ r.pc = "checked" /\ r.job = j
      BY <1>9, <3>2 DEF ConnType, ConnPCs
    <3> HIDE DEF r
    <3>4. QED
      BY <1>0, <1>9, <3>1, <3>2, <3>3 DEF Enrolling
  <2>3. QED
    BY <2>1, <2>2
<1>10. ASSUME ConnsType, NEW c \in Conns,
              \/ Register(c) \/ Accept(c) \/ CheckContext(c) \/ ReadAfterClose(c)
              \/ HangUp(c) \/ BeginSend(c) \/ EndSend(c)
       PROVE ConnsType'
  <2>1. PICK pc \in ConnPCs \ Enrolling : Goto(c, pc)
    BY <1>10 DEF Register, Accept, CheckContext, ReadAfterClose, HangUp, BeginSend, EndSend,
                 ConnPCs, Enrolling
  <2>2. conns[c].pc \notin Enrolling
    BY <1>10 DEF Register, Accept, CheckContext, ReadAfterClose, HangUp, BeginSend, EndSend,
                 At, Enrolling
  <2>3. QED
    BY <1>2, <1>10, <2>1, <2>2
<1>11. ASSUME ConnsType, NEW c \in Conns, VerifyInvite(c) \/ ConsumeInvite(c) \/ StoreKey(c)
       PROVE ConnsType'
  <2>1. CASE conns' = Answer(c)
    BY <1>3, <1>11, <2>1
  <2>2. CASE Goto(c, "verified") \/ Goto(c, "consumed")
    BY <1>2, <1>11, <2>2
       DEF VerifyInvite, ConsumeInvite, StoreKey, At, ConnPCs, Enrolling
  <2>3. QED
    BY <1>11, <2>1, <2>2 DEF VerifyInvite, ConsumeInvite, StoreKey
<1>12. ASSUME ConnsType, NEW c \in Conns,
              \/ HandleData(c) \/ HandleStatus(c) \/ WritesRecord(c)
              \/ \E s \in Stops : HandleStop(c, s)
              \/ \E t \in Tokens : HandleInviteCreate(c, t)
       PROVE ConnsType'
  <2>1. conns' = Answer(c)
    BY <1>12, WritesRecordFields DEF HandleData, HandleStatus, HandleStop, HandleInviteCreate
  <2>2. QED
    BY <1>3, <1>12, <2>1
<1>13. ASSUME ConnsType, UNCHANGED conns PROVE ConnsType'
  BY <1>13
<1>14. Start \/ (\E done \in 0..4 : InitOwner(done))
             \/ (\E l \in Listeners \cup {"web"} : EndLoop(l))
             \/ (\E s \in Stops : \/ Signal(s) \/ CloseListeners(s) \/ BeginWalk(s)
                                  \/ EndWalk(s) \/ ReturnFromStop(s))
       => UNCHANGED conns
  BY DEF Start, InitOwner, EndLoop, Signal, CloseListeners, BeginWalk, EndWalk, ReturnFromStop
<1>15. QED
  BY <1>1, <1>4, <1>5, <1>6, <1>7, <1>8, <1>9, <1>10, <1>11, <1>12, <1>13, <1>14
     DEF Next, StopSteps, GoroutineSteps, ClientSteps, WritesRecord, vars, TypeInv

\* What the goroutine of a registered connection does with a message.
Serves(c) ==
    \/ CheckContext(c) \/ ReadAfterClose(c) \/ HangUp(c) \/ BeginSend(c) \/ EndSend(c)
    \/ HandleData(c) \/ HandleStatus(c) \/ WritesRecord(c)
    \/ VerifyInvite(c) \/ ConsumeInvite(c) \/ StoreKey(c)
    \/ \E s \in Stops : HandleStop(c, s)
    \/ \E i \in Identities : HandleAuthInit(c, i) \/ HandleAuthResponse(c, i)
    \/ \E t \in Tokens : HandleInviteCreate(c, t)
    \/ \E i \in Identities, t \in Tokens, k \in {KeyOf[c], None} : HandleRegister(c, i, t, k)

\* A connection that is served stays registered, under its id, closed or
\* not; one that sees the cancelled context ends.
LEMMA ServesFields ==
    ASSUME TypeInv, NEW c \in Conns, Serves(c)
    PROVE  /\ UNCHANGED <<registry, nextConnID>>
           /\ conns[c].pc \in Registered \ {"closing"} /\ conns'[c].pc \in Registered
           /\ conns[c].pc = "loop" /\ ctxDone => conns'[c].pc = "closing"
           /\ conns'[c].id = conns[c].id /\ conns'[c].closed = conns[c].closed
           /\ \A d \in Conns \ {c} : conns'[d] = conns[d]
<1> DEFINE P == /\ conns'[c].pc \in Registered
                /\ conns'[c].id = conns[c].id /\ conns'[c].closed = conns[c].closed
                /\ \A d \in Conns \ {c} : conns'[d] = conns[d]
<1>1. conns \in [Conns -> ConnType]
  BY DEF TypeInv, ConnsType
<1>2. UNCHANGED <<registry, nextConnID>>
  BY DEF Serves, CheckContext, ReadAfterClose, HangUp, BeginSend, EndSend, HandleData,
         HandleStatus, WritesRecord, HandleWrite, HandleExecute, VerifyInvite, ConsumeInvite,
         StoreKey, HandleStop, HandleAuthInit, HandleAuthResponse, HandleInviteCreate,
         HandleRegister, Handled
<1>3. conns[c].pc \in Registered \ {"closing"}
  BY DEF Serves, CheckContext, ReadAfterClose, HangUp, BeginSend, EndSend, HandleData,
         HandleStatus, WritesRecord, HandleWrite, HandleExecute, VerifyInvite, ConsumeInvite,
         StoreKey, HandleStop, HandleAuthInit, HandleAuthResponse, HandleInviteCreate,
         HandleRegister, Receives, At, Registered
<1>4. ASSUME NEW pc \in Registered, Goto(c, pc) PROVE P
  <2>1. conns[c] \in ConnType /\ conns'[c] = [conns[c] EXCEPT !.pc = pc]
        /\ \A d \in Conns \ {c} : conns'[d] = conns[d]
    BY <1>1, <1>4 DEF Goto
  <2>2. QED
    BY <2>1 DEF ConnType
<1>5. /\ Answer(c) \in [Conns -> ConnType]
      /\ Answer(c)[c].pc = "reply" /\ Answer(c)[c].id = conns[c].id
      /\ Answer(c)[c].closed = conns[c].closed
      /\ \A d \in Conns \ {c} : Answer(c)[d] = conns[d]
  BY <1>1, AnswerFields
<1>6. ASSUME conns' = Answer(c) PROVE P
  BY <1>5, <1>6 DEF Registered
<1>7. CASE CheckContext(c) \/ ReadAfterClose(c) \/ HangUp(c) \/ BeginSend(c) \/ EndSend(c)
  <2>1. PICK pc \in Registered : Goto(c, pc)
    BY <1>7 DEF CheckContext, ReadAfterClose, HangUp, BeginSend, EndSend, Registered
  <2>2. conns[c].pc = "loop" /\ ctxDone => conns'[c].pc = "closing"
    BY <1>1, <1>7 DEF CheckContext, ReadAfterClose, HangUp, BeginSend, EndSend, At, Goto, ConnType
  <2>3. QED
    BY <1>2, <1>3, <1>4, <2>1, <2>2
<1>8. CASE \/ HandleData(c) \/ HandleStatus(c) \/ WritesRecord(c)
           \/ \E s \in Stops : HandleStop(c, s)
           \/ \E t \in Tokens : HandleInviteCreate(c, t)
  <2>1. conns' = Answer(c) /\ conns[c].pc = "reading"
    BY <1>8 DEF WritesRecord, HandleWrite, HandleExecute, HandleData, HandleStatus, HandleStop, HandleInviteCreate, Receives, At
  <2>2. QED
    BY <1>2, <1>3, <1>6, <2>1
<1>9. CASE VerifyInvite(c) \/ ConsumeInvite(c) \/ StoreKey(c)
  <2>1. conns' = Answer(c) \/ \E pc \in Registered : Goto(c, pc)
    BY <1>9 DEF VerifyInvite, ConsumeInvite, StoreKey, Registered
  <2>2. conns[c].pc # "loop"
    BY <1>9 DEF VerifyInvite, ConsumeInvite, StoreKey, At
  <2>3. QED
    BY <1>2, <1>3, <1>4, <1>6, <2>1, <2>2
<1>10. ASSUME NEW x, conns' = [Answer(c) EXCEPT ![c].session = x] PROVE P
  <2>1. Answer(c)[c] \in ConnType /\ conns'[c] = [Answer(c)[c] EXCEPT !.session = x]
        /\ \A d \in Conns \ {c} : conns'[d] = conns[d]
    BY <1>5, <1>10
  <2>2. QED
    BY <1>5, <2>1 DEF ConnType, Registered
<1>11. ASSUME NEW i \in Identities, HandleAuthInit(c, i) \/ HandleAuthResponse(c, i)
       PROVE P /\ conns[c].pc = "reading"
  <2>1. CASE conns' = Answer(c)
    BY <1>6, <1>11, <2>1 DEF HandleAuthInit, HandleAuthResponse, Receives, At
  <2>2. CASE \E x : conns' = [Answer(c) EXCEPT ![c].session = x]
    BY <1>10, <1>11, <2>2 DEF HandleAuthInit, HandleAuthResponse, Receives, At
  <2>3. CASE conns' = [Answer(c) EXCEPT ![c].session = None, ![c].agent = i, ![c].label = i]
    <3>1. Answer(c)[c] \in ConnType
          /\ conns'[c] = [Answer(c)[c] EXCEPT !.session = None, !.agent = i, !.label = i]
          /\ \A d \in Conns \ {c} : conns'[d] = conns[d]
      BY <1>5, <2>3
    <3>2. P
      BY <1>5, <3>1 DEF ConnType, Registered
    <3>3. QED
      BY <1>11, <3>2 DEF HandleAuthInit, HandleAuthResponse, Receives, At
  <2>4. QED
    BY <1>11, <2>1, <2>2, <2>3 DEF HandleAuthInit, HandleAuthResponse
<1>12. ASSUME NEW i \in Identities, NEW t \in Tokens, NEW k \in {KeyOf[c], None},
              HandleRegister(c, i, t, k)
       PROVE P /\ conns[c].pc = "reading"
  <2>1. CASE conns' = Answer(c)
    BY <1>6, <1>12, <2>1 DEF HandleRegister, Receives, At
  <2>2. CASE conns' = [conns EXCEPT ![c].pc = "checked",
                                    ![c].job = [identity |-> i, token |-> t, key |-> k]]
    <3>1. conns[c] \in ConnType
          /\ conns'[c] = [conns[c] EXCEPT !.pc = "checked",
                                          !.job = [identity |-> i, token |-> t, key |-> k]]
          /\ \A d \in Conns \ {c} : conns'[d] = conns[d]
      BY <1>1, <2>2
    <3>2. P
      BY <3>1 DEF ConnType, Registered
    <3>3. QED
      BY <1>12, <3>2 DEF HandleRegister, Receives, At
  <2>3. QED
    BY <1>12, <2>1, <2>2 DEF HandleRegister
<1>13. QED
  BY <1>2, <1>3, <1>7, <1>8, <1>9, <1>11, <1>12 DEF Serves

\* The steps that are no connection's leave the connections alone, the
\* closing of one by a walk apart.
LEMMA OtherSteps ==
    ASSUME TypeInv,
           \/ Start \/ (\E done \in 0..4 : InitOwner(done))
           \/ (\E l \in Listeners \cup {"web"} : EndLoop(l))
           \/ (\E s \in Stops : Signal(s) \/ StopSteps(s))
    PROVE  /\ UNCHANGED <<registry, nextConnID>>
           /\ \A d \in Conns : /\ conns'[d].pc = conns[d].pc /\ conns'[d].id = conns[d].id
                               /\ conns'[d].label = conns[d].label
                               /\ conns'[d].session = conns[d].session
                               /\ conns'[d].job = conns[d].job
<1>1. CASE \E s \in Stops, c \in Conns : CloseConnection(s, c)
  <2>1. PICK s \in Stops, c \in Conns : CloseConnection(s, c)
    BY <1>1
  <2>2. UNCHANGED <<registry, nextConnID>> /\ conns' = [conns EXCEPT ![c].closed = TRUE]
    BY <2>1 DEF CloseConnection
  <2>3. QED
    BY <2>2 DEF TypeInv, ConnsType, ConnType
<1>2. CASE UNCHANGED <<registry, nextConnID, conns>>
  BY <1>2
<1>3. QED
  BY <1>1, <1>2 DEF Start, InitOwner, EndLoop, Signal, StopSteps, CloseListeners, BeginWalk,
                    EndWalk, ReturnFromStop

\* RegistryInv holds at first and every step keeps it.
LEMMA RegistryInvInductive ==
    /\ Init => RegistryInv
    /\ TypeInv /\ RegistryInv /\ [Next]_vars => RegistryInv'
<1>1. Init => RegistryInv
  <2>1. Init => \A c \in Conns : conns[c].pc = "none" /\ conns[c].id = None
    BY DEF Init, NewConn
  <2>2. Init => DOMAIN registry = {}
    BY DEF Init
  <2>3. QED
    BY <2>1, <2>2 DEF RegistryInv, HasID, Registered
<1>2. ASSUME TypeInv, RegistryInv, UNCHANGED <<registry, nextConnID>>,
             \A d \in Conns : /\ conns'[d].id = conns[d].id
                              /\ conns'[d].pc \in Registered <=> conns[d].pc \in Registered
                              /\ HasID(d)' <=> HasID(d)
      PROVE RegistryInv'
  BY <1>2 DEF RegistryInv
<1>3. ASSUME TypeInv, RegistryInv, NEW c \in Conns, AssignID(c) PROVE RegistryInv'
  <2> DEFINE r == [conns[c] EXCEPT !.pc = "created", !.id = nextConnID,
                                   !.agent = IF c \in Locals THEN owner ELSE None]
  <2>1. r \in ConnType /\ conns' = [conns EXCEPT ![c] = r]
    BY <1>3, NewConnectionFields DEF AssignID
  <2>2. conns[c] \in ConnType /\ conns[c].pc = "accepted"
    BY <1>3 DEF TypeInv, ConnsType, AssignID, At
  <2>3. r.pc = "created" /\ r.id = nextConnID
    BY <2>2 DEF ConnType
  <2> HIDE DEF r
  <2>4. conns'[c] = r /\ \A d \in Conns \ {c} : conns'[d] = conns[d]
    BY <1>3, <2>1 DEF TypeInv, ConnsType
  <2>5. nextConnID \in Nat /\ nextConnID' = nextConnID + 1 /\ registry' = registry
    BY <1>3 DEF AssignID, TypeInv, LifeType
  <2>6. \A d \in Conns : HasID(d)' <=> HasID(d) \/ d = c
    BY <2>3, <2>4 DEF HasID
  <2>7. \A d \in Conns : HasID(d)' => conns'[d].id \in Nat /\ conns'[d].id < nextConnID'
    BY <1>3, <2>3, <2>4, <2>5, <2>6 DEF RegistryInv
  <2>8. \A d \in Conns \ {c} : HasID(d) => conns[d].id # nextConnID
    BY <1>3, <2>5 DEF RegistryInv
  <2>9. \A d \in Conns : conns'[d].pc \in Registered <=> conns[d].pc \in Registered /\ d # c
    BY <2>3, <2>4 DEF Registered
  <2>10. conns[c].pc \notin Registered
    BY <2>2 DEF Registered
  <2>11. \A d, e \in Conns : HasID(d)' /\ HasID(e)' /\ conns'[d].id = conns'[e].id => d = e
    BY <1>3, <2>3, <2>4, <2>6, <2>8 DEF RegistryInv
  <2>12. \A d \in Conns : ~HasID(d)' => conns'[d].id = None
    BY <1>3, <2>4, <2>6 DEF RegistryInv
  <2>13. \A n \in DOMAIN registry :
           /\ registry[n] \in Conns /\ registry[n] # c
           /\ conns[registry[n]].pc \in Registered /\ conns[registry[n]].id = n
    BY <1>3, <2>10 DEF RegistryInv
  <2>14. QED
    BY <1>3, <2>4, <2>5, <2>7, <2>9, <2>11, <2>12, <2>13 DEF RegistryInv
<1>4. ASSUME TypeInv, RegistryInv, NEW c \in Conns, Register(c) PROVE RegistryInv'
  <2>1. conns[c] \in ConnType /\ conns[c].pc = "created" /\ nextConnID' = nextConnID
    BY <1>4 DEF TypeInv, ConnsType, Register, At
  <2>2. conns'[c].pc = "loop" /\ conns'[c].id = conns[c].id
        /\ \A d \in Conns \ {c} : conns'[d] = conns[d]
    <3>1. Goto(c, "loop") /\ "loop" \in ConnPCs
      BY <1>4 DEF Register, ConnPCs
    <3>2. conns'[c] = [conns[c] EXCEPT !.pc = "loop"]
          /\ \A d \in Conns \ {c} : conns'[d] = conns[d]
      BY <1>4, <3>1, GotoFields DEF TypeInv, ConnsType
    <3>3. QED
      BY <2>1, <3>2 DEF ConnType
  <2>3. \A d \in Conns : HasID(d)' <=> HasID(d)
    BY <2>1, <2>2 DEF HasID, Registered
  <2>4. HasID(c) /\ conns[c].pc \notin Registered /\ conns'[c].pc \in Registered
    BY <2>1, <2>2 DEF HasID, Registered
  <2>5. conns[c].id \notin DOMAIN registry
    <3>1. SUFFICES ASSUME conns[c].id \in DOMAIN registry PROVE FALSE
      OBVIOUS
    <3>2. PICK d \in Conns : d = registry[conns[c].id] /\ conns[d].pc \in Registered
                             /\ conns[d].id = conns[c].id
      BY <1>4, <3>1 DEF RegistryInv
    <3>3. QED
      BY <1>4, <2>4, <3>2 DEF RegistryInv, HasID
  <2>6. /\ DOMAIN registry' = DOMAIN registry \cup {conns[c].id}
        /\ registry'[conns[c].id] = c
        /\ \A n \in DOMAIN registry : registry'[n] = registry[n]
    BY <1>4, <2>5 DEF Register
  <2>7. \A n \in DOMAIN registry : registry[n] # c
    BY <1>4, <2>4 DEF RegistryInv
  <2>8. \A n \in DOMAIN registry' :
           /\ registry'[n] \in Conns
           /\ conns'[registry'[n]].pc \in Registered /\ conns'[registry'[n]].id = n
    BY <1>4, <2>2, <2>4, <2>6, <2>7 DEF RegistryInv
  <2>9. \A d \in Conns : conns'[d].pc \in Registered =>
           conns'[d].id \in DOMAIN registry' /\ registry'[conns'[d].id] = d
    BY <1>4, <2>2, <2>6 DEF RegistryInv
  <2>10. \A d \in Conns : conns'[d].id = conns[d].id
    BY <2>2
  <2>11. QED
    BY <1>4, <2>1, <2>3, <2>8, <2>9, <2>10 DEF RegistryInv
<1>5. ASSUME TypeInv, RegistryInv, NEW c \in Conns, Unregister(c) PROVE RegistryInv'
  <2>1. conns[c].pc = "closing" /\ nextConnID' = nextConnID
    BY <1>5 DEF Unregister, At
  <2>2. conns'[c].pc = "gone" /\ conns'[c].id = None
        /\ \A d \in Conns \ {c} : conns'[d] = conns[d]
    BY <1>5 DEF Unregister, NewConn, TypeInv, ConnsType
  <2>3. /\ HasID(c) /\ ~HasID(c)' /\ conns[c].pc \in Registered /\ conns'[c].pc \notin Registered
        /\ \A d \in Conns \ {c} : HasID(d)' <=> HasID(d)
    BY <2>1, <2>2 DEF HasID, Registered
  <2>4. DOMAIN registry' = DOMAIN registry \ {conns[c].id}
        /\ \A n \in DOMAIN registry' : registry'[n] = registry[n]
    BY <1>5 DEF Unregister, Restrict
  <2>5. \A n \in DOMAIN registry' : registry[n] # c
    BY <1>5, <2>4 DEF RegistryInv
  <2>6. \A d \in Conns \ {c} : conns[d].pc \in Registered => conns[d].id # conns[c].id
    BY <1>5, <2>3 DEF RegistryInv, HasID
  <2>7. \A n \in DOMAIN registry' :
           /\ registry'[n] \in Conns
           /\ conns'[registry'[n]].pc \in Registered /\ conns'[registry'[n]].id = n
    BY <1>5, <2>2, <2>4, <2>5 DEF RegistryInv
  <2>8. \A d \in Conns : conns'[d].pc \in Registered =>
           conns'[d].id \in DOMAIN registry' /\ registry'[conns'[d].id] = d
    BY <1>5, <2>2, <2>3, <2>4, <2>6 DEF RegistryInv
  <2>9. QED
    BY <1>5, <2>1, <2>2, <2>3, <2>7, <2>8 DEF RegistryInv
<1>6. ASSUME TypeInv, RegistryInv, NEW c \in Conns, Serves(c) PROVE RegistryInv'
  <2>1. \A d \in Conns : /\ conns'[d].id = conns[d].id
                         /\ conns'[d].pc \in Registered <=> conns[d].pc \in Registered
                         /\ HasID(d)' <=> HasID(d)
    BY <1>6, ServesFields DEF HasID
  <2>2. QED
    BY <1>2, <1>6, <2>1, ServesFields
<1>7. ASSUME TypeInv, RegistryInv, NEW c \in Conns, Accept(c) PROVE RegistryInv'
  <2>1. conns[c] \in ConnType /\ conns[c].pc = "none" /\ UNCHANGED <<registry, nextConnID>>
    BY <1>7 DEF TypeInv, ConnsType, Accept, At
  <2>2. conns' = [conns EXCEPT ![c].pc = "accepted"]
    BY <1>7 DEF Accept, Goto
  <2>3. conns'[c].pc = "accepted" /\ conns'[c].id = conns[c].id
        /\ \A d \in Conns \ {c} : conns'[d] = conns[d]
    BY <1>7, <2>1, <2>2 DEF TypeInv, ConnsType, ConnType
  <2>4. QED
    BY <1>2, <1>7, <2>1, <2>3 DEF HasID, Registered
<1>8. ASSUME TypeInv, RegistryInv,
             \/ Start \/ (\E done \in 0..4 : InitOwner(done))
             \/ (\E l \in Listeners \cup {"web"} : EndLoop(l))
             \/ (\E s \in Stops : Signal(s) \/ StopSteps(s))
      PROVE RegistryInv'
  BY <1>2, <1>8, OtherSteps DEF HasID
<1>9. ASSUME TypeInv, RegistryInv, UNCHANGED vars PROVE RegistryInv'
  BY <1>2, <1>9 DEF vars, HasID
<1>10. QED
  BY <1>1, <1>3, <1>4, <1>5, <1>6, <1>7, <1>8, <1>9 DEF Next, GoroutineSteps, ClientSteps, Serves, WritesRecord

\* CountInv holds at first and every step keeps it.
LEMMA CountInvInductive ==
    /\ Init => CountInv
    /\ TypeInv /\ CountInv /\ [Next]_vars => CountInv'
<1>1. Init => CountInv
  <2>1. Init => Drawn = {} /\ nextConnID = 0
    BY DEF Init, NewConn, Drawn
  <2>2. QED
    BY <2>1, FS_EmptySet DEF CountInv
<1>2. ASSUME TypeInv, CountInv, nextConnID' = nextConnID,
             \A d \in Conns : conns'[d].pc \in {"none", "accepted"}
                              <=> conns[d].pc \in {"none", "accepted"}
      PROVE CountInv'
  <2>1. Drawn' = Drawn
    BY <1>2 DEF Drawn
  <2>2. QED
    BY <1>2, <2>1 DEF CountInv
<1>3. ASSUME TypeInv, CountInv, NEW c \in Conns, AssignID(c) PROVE CountInv'
  <2> DEFINE r == [conns[c] EXCEPT !.pc = "created", !.id = nextConnID,
                                   !.agent = IF c \in Locals THEN owner ELSE None]
  <2>1. r \in ConnType /\ conns' = [conns EXCEPT ![c] = r]
    BY <1>3, NewConnectionFields DEF AssignID
  <2>2. conns[c] \in ConnType /\ conns[c].pc = "accepted"
    BY <1>3 DEF TypeInv, ConnsType, AssignID, At
  <2>3. r.pc = "created"
    BY <2>2 DEF ConnType
  <2> HIDE DEF r
  <2>4. conns'[c] = r /\ \A d \in Conns \ {c} : conns'[d] = conns[d]
    BY <1>3, <2>1 DEF TypeInv, ConnsType
  <2>5. c \notin Drawn /\ Drawn' = Drawn \cup {c}
    BY <2>2, <2>3, <2>4 DEF Drawn
  <2>6. IsFiniteSet(Drawn)
    BY FS_Subset, ServiceAssumption DEF Drawn
  <2>7. Cardinality(Drawn') = Cardinality(Drawn) + 1
    BY <2>5, <2>6, FS_AddElement
  <2>8. nextConnID' = nextConnID + 1
    BY <1>3 DEF AssignID
  <2>9. QED
    BY <1>3, <2>7, <2>8 DEF CountInv
<1>4. ASSUME TypeInv, CountInv, NEW c \in Conns, Register(c) \/ Unregister(c) \/ Accept(c)
      PROVE CountInv'
  <2>1. nextConnID' = nextConnID /\ conns \in [Conns -> ConnType]
    BY <1>4 DEF TypeInv, ConnsType, Register, Unregister, Accept
  <2>2. \A d \in Conns : conns'[d].pc \in {"none", "accepted"}
                         <=> conns[d].pc \in {"none", "accepted"}
    BY <1>4, <2>1 DEF Register, Unregister, Accept, At, Goto, NewConn, ConnType
  <2>3. QED
    BY <1>2, <1>4, <2>1, <2>2
<1>5. ASSUME TypeInv, CountInv, NEW c \in Conns, Serves(c) PROVE CountInv'
  BY <1>2, <1>5, ServesFields DEF Registered
<1>6. ASSUME TypeInv, CountInv,
             \/ Start \/ (\E done \in 0..4 : InitOwner(done))
             \/ (\E l \in Listeners \cup {"web"} : EndLoop(l))
             \/ (\E s \in Stops : Signal(s) \/ StopSteps(s))
      PROVE CountInv'
  BY <1>2, <1>6, OtherSteps
<1>7. ASSUME TypeInv, CountInv, UNCHANGED vars PROVE CountInv'
  BY <1>2, <1>7 DEF vars
<1>8. QED
  BY <1>1, <1>3, <1>4, <1>5, <1>6, <1>7 DEF Next, GoroutineSteps, ClientSteps, Serves, WritesRecord

\* WalkInv holds at first and every step keeps it.
LEMMA WalkInvInductive ==
    /\ Init => WalkInv
    /\ TypeInv /\ RegistryInv /\ WalkInv /\ [Next]_vars => WalkInv'
<1>1. Init => WalkInv
  BY DEF Init, WalkInv
<1>2. ASSUME TypeInv, WalkInv, UNCHANGED <<ctxDone, stops>>, NEW c \in Conns,
             \A d \in Conns \ {c} : conns'[d] = conns[d],
             conns'[c].pc \in Registered =>
                /\ conns[c].pc \in Registered \/ (MutexFree /\ conns'[c].pc = "loop")
                /\ conns[c].closed => conns'[c].closed
                /\ conns[c].pc = "loop" /\ ctxDone => conns'[c].pc \in {"loop", "closing"}
                /\ conns[c].pc # "closing"
      PROVE WalkInv'
  BY <1>2 DEF WalkInv, MutexFree
<1>3. ASSUME TypeInv, WalkInv, NEW c \in Conns, Serves(c), UNCHANGED <<ctxDone, stops>>
      PROVE WalkInv'
  <2>1. /\ conns[c].pc \in Registered \ {"closing"}
        /\ conns[c].pc = "loop" /\ ctxDone => conns'[c].pc = "closing"
        /\ conns'[c].closed = conns[c].closed
        /\ \A d \in Conns \ {c} : conns'[d] = conns[d]
    BY <1>3, ServesFields
  <2>2. conns'[c].pc \in Registered =>
           /\ conns[c].pc \in Registered \/ (MutexFree /\ conns'[c].pc = "loop")
           /\ conns[c].closed => conns'[c].closed
           /\ conns[c].pc = "loop" /\ ctxDone => conns'[c].pc \in {"loop", "closing"}
           /\ conns[c].pc # "closing"
    BY <2>1
  <2>3. QED
    BY <1>2, <1>3, <2>1, <2>2
<1>4. ASSUME TypeInv, WalkInv, NEW c \in Conns, NEW s \in Stops, HandleStop(c, s) PROVE WalkInv'
  <2>1. /\ conns[c].pc \in Registered \ {"closing"} /\ conns'[c].closed = conns[c].closed
        /\ \A d \in Conns \ {c} : conns'[d] = conns[d]
    BY <1>4, ServesFields DEF Serves
  <2>2. ctxDone' = TRUE /\ conns[c].pc = "reading"
    BY <1>4 DEF HandleStop, BeginStop, Receives, At
  <2>3. /\ stops'[s].pc = "cancelled"
        /\ \A q \in Stops \ {s} : stops'[q] = stops[q]
    BY <1>4 DEF HandleStop, BeginStop, Step, TypeInv, LifeType
  <2>4. \A d \in Conns : conns'[d].closed = conns[d].closed
        /\ (conns'[d].pc \in Registered => conns[d].pc \in Registered)
        /\ (conns'[d].pc \in Registered \ {"loop", "closing"}
              => conns[d].pc \in Registered \ {"loop", "closing"})
    BY <2>1, <2>2
  <2>5. QED
    BY <1>4, <2>2, <2>3, <2>4 DEF WalkInv
<1>5. ASSUME TypeInv, WalkInv, NEW s \in Stops, Signal(s) PROVE WalkInv'
  <2>1. ctxDone' = TRUE /\ conns' = conns
    BY <1>5 DEF Signal, BeginStop
  <2>2. /\ stops'[s].pc = "cancelled"
        /\ \A q \in Stops \ {s} : stops'[q] = stops[q]
    BY <1>5 DEF Signal, BeginStop, Step, TypeInv, LifeType
  <2>3. QED
    BY <1>5, <2>1, <2>2 DEF WalkInv
<1>6. ASSUME TypeInv, WalkInv, NEW s \in Stops, CloseListeners(s) PROVE WalkInv'
  <2>1. ctxDone' = ctxDone /\ conns' = conns /\ stops[s].pc = "cancelled"
    BY <1>6 DEF CloseListeners, Step
  <2>2. /\ stops'[s].pc = "unlistened"
        /\ \A q \in Stops \ {s} : stops'[q] = stops[q]
    BY <1>6 DEF CloseListeners, Step, TypeInv, LifeType
  <2>3. QED
    BY <1>6, <2>1, <2>2 DEF WalkInv
<1>7. ASSUME TypeInv, RegistryInv, WalkInv, NEW s \in Stops, BeginWalk(s) PROVE WalkInv'
  <2>1. ctxDone' = ctxDone /\ conns' = conns /\ stops[s].pc = "unlistened"
    BY <1>7 DEF BeginWalk, lifecycle
  <2>2. /\ stops'[s].pc = "walking" /\ stops'[s].left = Range(registry)
        /\ \A q \in Stops \ {s} : stops'[q] = stops[q]
    BY <1>7 DEF BeginWalk, TypeInv, LifeType
  <2>3. \A c \in Conns : conns[c].pc \in Registered => c \in Range(registry)
    BY <1>7 DEF RegistryInv, Range
  <2>4. QED
    BY <1>7, <2>1, <2>2, <2>3 DEF WalkInv
<1>8. ASSUME TypeInv, WalkInv, NEW s \in Stops, NEW c \in Conns, CloseConnection(s, c)
      PROVE WalkInv'
  <2>1. ctxDone' = ctxDone
    BY <1>8 DEF CloseConnection, lifecycle
  <2>2. /\ conns'[c].closed = TRUE
        /\ \A d \in Conns : conns'[d].pc = conns[d].pc
        /\ \A d \in Conns \ {c} : conns'[d] = conns[d]
    BY <1>8 DEF CloseConnection, TypeInv, ConnsType, ConnType
  <2>3. /\ \A q \in Stops : stops'[q].pc = stops[q].pc
        /\ \A q \in Stops : stops[q].left \subseteq stops'[q].left \cup {c}
    BY <1>8 DEF CloseConnection, TypeInv, LifeType
  <2>4. QED
    BY <1>8, <2>1, <2>2, <2>3 DEF WalkInv
<1>9. ASSUME TypeInv, WalkInv, NEW s \in Stops, EndWalk(s) \/ ReturnFromStop(s) PROVE WalkInv'
  <2>1. ctxDone' = ctxDone /\ conns' = conns
    BY <1>9 DEF EndWalk, ReturnFromStop, lifecycle
  <2>2. \A q \in Stops \ {s} : stops'[q] = stops[q]
    BY <1>9 DEF EndWalk, ReturnFromStop, Step, TypeInv, LifeType
  <2>3. /\ stops[s].pc \in {"walking", "walked"} /\ stops'[s].pc \in {"walked", "returned"}
        /\ stops[s].pc = "walking" => stops[s].left = {}
    BY <1>9 DEF EndWalk, ReturnFromStop, Step, TypeInv, LifeType
  <2>4. QED
    BY <1>9, <2>1, <2>2, <2>3 DEF WalkInv
<1>10. ASSUME TypeInv, WalkInv, NEW c \in Conns,
              AssignID(c) \/ Register(c) \/ Unregister(c) \/ Accept(c)
       PROVE WalkInv'
  <2>1. UNCHANGED <<ctxDone, stops>> /\ conns \in [Conns -> ConnType]
    BY <1>10 DEF AssignID, Register, Unregister, Accept, Quiet, lifecycle, TypeInv, ConnsType
  <2>2. \A d \in Conns \ {c} : conns'[d] = conns[d]
    BY <1>10, <2>1 DEF AssignID, NewConnection, Register, Unregister, Accept, Goto
  <2>3. CASE AssignID(c) \/ Unregister(c) \/ Accept(c)
    <3>1. conns'[c].pc \in {"created", "gone", "accepted"}
      BY <2>1, <2>3 DEF AssignID, NewConnection, Unregister, NewConn, Accept, Goto, ConnType
    <3>2. QED
      BY <1>2, <1>10, <2>1, <2>2, <3>1 DEF Registered
  <2>4. CASE Register(c)
    <3>1. conns[c].pc = "created" /\ MutexFree /\ conns'[c].pc = "loop"
          /\ conns'[c].closed = conns[c].closed
      BY <2>1, <2>4 DEF Register, At, Goto, ConnType
    <3>2. QED
      BY <1>2, <1>10, <2>1, <2>2, <3>1
  <2>5. QED
    BY <1>10, <2>3, <2>4
<1>11. ASSUME TypeInv, WalkInv, UNCHANGED <<ctxDone, stops, conns>> PROVE WalkInv'
  BY <1>11 DEF WalkInv
<1>12. Start \/ (\E done \in 0..4 : InitOwner(done))
             \/ (\E l \in Listeners \cup {"web"} : EndLoop(l)) \/ UNCHANGED vars
       => UNCHANGED <<ctxDone, stops, conns>>
  BY DEF Start, InitOwner, EndLoop, vars, lifecycle
<1>13. ASSUME NEW c \in Conns, Serves(c)
       PROVE UNCHANGED <<ctxDone, stops>> \/ \E s \in Stops : HandleStop(c, s)
  BY <1>13 DEF Serves, CheckContext, ReadAfterClose, HangUp, BeginSend, EndSend, HandleData,
         HandleStatus, WritesRecord, HandleWrite, HandleExecute, VerifyInvite, ConsumeInvite,
         StoreKey, HandleAuthInit, HandleAuthResponse, HandleInviteCreate, HandleRegister,
         Quiet, Handled, lifecycle
<1>14. QED
  BY <1>1, <1>3, <1>4, <1>5, <1>6, <1>7, <1>8, <1>9, <1>10, <1>11, <1>12, <1>13
     DEF Next, StopSteps, GoroutineSteps, ClientSteps, Serves, WritesRecord

\* KeyInv holds at first and every step keeps it.
LEMMA KeyInvInductive ==
    /\ Init => KeyInv
    /\ TypeInv /\ KeyInv /\ [Next]_vars => KeyInv'
<1>1. Init => KeyInv
  BY DEF Init, NewConn, KeyInv, IdentityProven, ProvenBy
<1>0. ASSUME TypeInv, KeyInv, NEW i \in Identities, NEW key,
             keys' = [keys EXCEPT ![i] = key], Stored \subseteq Stored',
             key # None => StoredFor(Stored', i, key),
             \A d \in Conns : /\ conns'[d].label = conns[d].label
                              /\ conns'[d].session = conns[d].session
      PROVE KeyInv'
  <2>1. /\ keys'[i] = key
        /\ \A j \in Identities \ {i} : keys'[j] = keys[j]
    BY <1>0 DEF TypeInv, EnrolType
  <2>2. \A j, x : StoredFor(Stored, j, x) => StoredFor(Stored', j, x)
    BY <1>0 DEF StoredFor
  <2>3. \A j \in Identities : keys'[j] # None => StoredFor(Stored', j, keys'[j])
    BY <1>0, <2>1, <2>2 DEF KeyInv
  <2>4. \A d \in Conns : conns'[d].session # None =>
           StoredFor(Stored', conns'[d].session.identity, conns'[d].session.key)
    BY <1>0, <2>2 DEF KeyInv
  <2>5. IdentityProven'
    <3>1. IdentityProven <=> ProvenBy(Stored)
      BY DEF IdentityProven, Stored
    <3>2. IdentityProven' <=> ProvenBy(Stored)'
      BY DEF IdentityProven, Stored
    <3>3. QED
      BY <1>0, <3>1, <3>2 DEF KeyInv, ProvenBy
  <2>6. QED
    BY <2>3, <2>4, <2>5 DEF KeyInv
<1>2. ASSUME KeyInv, UNCHANGED <<keys, enrolled, written>>,
             \A d \in Conns : /\ conns'[d].label = conns[d].label
                              /\ conns'[d].session \in {conns[d].session, None}
      PROVE KeyInv'
  BY <1>2 DEF KeyInv, IdentityProven, ProvenBy, Stored, StoredFor
<1>3. ASSUME TypeInv, NEW c \in Conns, conns' = Answer(c)
      PROVE \A d \in Conns : /\ conns'[d].label = conns[d].label
                             /\ conns'[d].session \in {conns[d].session, None}
                             /\ conns'[d].session = conns[d].session
  <2>1. /\ Answer(c)[c].label = conns[c].label /\ Answer(c)[c].session = conns[c].session
        /\ \A d \in Conns \ {c} : Answer(c)[d] = conns[d]
    BY <1>3, AnswerFields DEF TypeInv, ConnsType
  <2>2. QED
    BY <1>3, <2>1
<1>4. ASSUME TypeInv, NEW c \in Conns, NEW pc, Goto(c, pc)
      PROVE \A d \in Conns : /\ conns'[d].label = conns[d].label
                             /\ conns'[d].session \in {conns[d].session, None}
  BY <1>4 DEF Goto, TypeInv, ConnsType, ConnType
<1>5. ASSUME TypeInv, KeyInv, NEW c \in Conns, NEW i \in Identities, HandleAuthInit(c, i)
      PROVE KeyInv'
  <2>1. UNCHANGED <<keys, enrolled, written>>
    BY <1>5 DEF HandleAuthInit, enrolment
  <2>2. CASE LookupAgentPublicKey(i) = None
    BY <1>2, <1>3, <1>5, <2>1, <2>2 DEF HandleAuthInit
  <2>3. CASE LookupAgentPublicKey(i) # None
    <3> DEFINE x == [identity |-> i, key |-> keys[i]]
    <3>1. conns' = [Answer(c) EXCEPT ![c].session = x]
      BY <1>5, <2>3 DEF HandleAuthInit, LookupAgentPublicKey
    <3>2. StoredFor(Stored, x.identity, x.key)
      BY <1>5, <2>3 DEF KeyInv, LookupAgentPublicKey
    <3>3. /\ Answer(c) \in [Conns -> ConnType] /\ Answer(c)[c].label = conns[c].label
          /\ \A d \in Conns \ {c} : Answer(c)[d] = conns[d]
      BY <1>5, AnswerFields DEF TypeInv, ConnsType
    <3> HIDE DEF x
    <3>4. /\ conns'[c].label = conns[c].label /\ conns'[c].session = x
          /\ \A d \in Conns \ {c} : conns'[d] = conns[d]
      BY <3>1, <3>3 DEF ConnType
    <3>5. QED
      BY <1>5, <2>1, <3>2, <3>4 DEF KeyInv, IdentityProven, ProvenBy, Stored, StoredFor
  <2>4. QED
    BY <2>2, <2>3
<1>6. ASSUME TypeInv, KeyInv, NEW c \in Conns, NEW i \in Identities, HandleAuthResponse(c, i)
      PROVE KeyInv'
  <2>1. UNCHANGED <<keys, enrolled, written>>
    BY <1>6 DEF HandleAuthResponse, enrolment
  <2>2. /\ Answer(c) \in [Conns -> ConnType] /\ Answer(c)[c].label = conns[c].label
        /\ \A d \in Conns \ {c} : Answer(c)[d] = conns[d]
    BY <1>6, AnswerFields DEF TypeInv, ConnsType
  <2>3. CASE conns' = Answer(c)
    BY <1>2, <1>3, <1>6, <2>1, <2>3
  <2>4. CASE conns' = [Answer(c) EXCEPT ![c].session = None]
    <3>1. /\ conns'[c].label = conns[c].label /\ conns'[c].session = None
          /\ \A d \in Conns \ {c} : conns'[d] = conns[d]
      BY <2>2, <2>4 DEF ConnType
    <3>2. QED
      BY <1>2, <1>6, <2>1, <3>1
  <2>5. CASE /\ conns[c].session # None /\ VerifyResponse(c, i)
             /\ conns' = [Answer(c) EXCEPT ![c].session = None, ![c].agent = i, ![c].label = i]
    <3>1. /\ conns'[c].label = i /\ conns'[c].session = None
          /\ \A d \in Conns \ {c} : conns'[d] = conns[d]
      BY <2>2, <2>5 DEF ConnType
    <3>2. StoredFor(Stored, i, KeyOf[c])
      BY <1>6, <2>5 DEF KeyInv, VerifyResponse
    <3>3. QED
      BY <1>6, <2>1, <3>1, <3>2 DEF KeyInv, IdentityProven, ProvenBy, Stored, StoredFor
  <2>6. QED
    BY <1>6, <2>3, <2>4, <2>5 DEF HandleAuthResponse
<1>7. ASSUME TypeInv, KeyInv, NEW c \in Conns, StoreKey(c) PROVE KeyInv'
  <2>1. /\ \A d \in Conns : /\ conns'[d].label = conns[d].label
                            /\ conns'[d].session = conns[d].session
        /\ conns[c].job \in Jobs
    <3>1. conns' = Answer(c) /\ conns[c].pc = "consumed"
      BY <1>7 DEF StoreKey, At
    <3>2. conns[c].job \in Jobs
      BY <1>7, <3>1 DEF TypeInv, ConnsType, ConnType, Enrolling
    <3>3. QED
      BY <1>3, <1>7, <3>1, <3>2
  <2>2. CASE UNCHANGED <<keys, enrolled>>
    BY <1>2, <1>7, <2>1, <2>2 DEF StoreKey
  <2>3. CASE /\ keys' = [keys EXCEPT ![conns[c].job.identity] = conns[c].job.key]
             /\ enrolled' = IF conns[c].job.key = None THEN enrolled
                            ELSE enrolled \cup {Enrolled(conns[c].job)}
    <3> DEFINE job == conns[c].job
    <3>1. job.identity \in Identities
      BY <2>1 DEF Jobs
    <3>2. Stored \subseteq Stored' /\ (job.key # None => Enrolled(job) \in Stored')
      BY <1>7, <2>3 DEF StoreKey, Stored
    <3>3. Enrolled(job).identity = job.identity /\ Enrolled(job).key = job.key
      BY DEF Enrolled
    <3>4. job.key # None => StoredFor(Stored', job.identity, job.key)
      BY <3>2, <3>3 DEF StoredFor
    <3>5. QED
      BY <1>0, <1>7, <2>1, <2>3, <3>1, <3>2, <3>4
  <2>4. QED
    BY <1>7, <2>2, <2>3 DEF StoreKey
<1>8. ASSUME TypeInv, KeyInv, NEW done \in 0..4, InitOwner(done) PROVE KeyInv'
  <2>1. conns' = conns
    BY <1>8 DEF InitOwner
  <2>2. CASE done = 0
    BY <1>2, <1>8, <2>1, <2>2 DEF InitOwner
  <2>3. CASE done >= 1
    <3>1. /\ keys' = [keys EXCEPT ![Owner] = OwnerKey]
          /\ enrolled' = enrolled \cup {[token |-> None, identity |-> Owner, key |-> OwnerKey]}
      BY <1>8, <2>3 DEF InitOwner
    <3>2. StoredFor(Stored', Owner, OwnerKey) /\ Stored \subseteq Stored'
      <4> DEFINE e == [token |-> None, identity |-> Owner, key |-> OwnerKey]
      <4>1. e.identity = Owner /\ e.key = OwnerKey
        OBVIOUS
      <4>2. e \in Stored' /\ Stored \subseteq Stored'
        BY <1>8, <3>1 DEF Stored, InitOwner
      <4>3. QED
        BY <4>1, <4>2 DEF StoredFor
    <3>3. QED
      BY <1>0, <1>8, <2>1, <3>1, <3>2, ServiceAssumption
  <2>4. QED
    BY <2>2, <2>3
<1>9. ASSUME TypeInv, KeyInv, NEW c \in Conns, NEW i \in Identities, NEW t \in Tokens,
             NEW k \in {KeyOf[c], None}, HandleRegister(c, i, t, k)
      PROVE KeyInv'
  <2>1. UNCHANGED <<keys, enrolled, written>>
    BY <1>9 DEF HandleRegister, enrolment
  <2>2. CASE conns' = Answer(c)
    BY <1>2, <1>3, <1>9, <2>1, <2>2
  <2>3. CASE conns' = [conns EXCEPT ![c].pc = "checked",
                                    ![c].job = [identity |-> i, token |-> t, key |-> k]]
    <3>1. conns[c] \in ConnType
          /\ conns'[c] = [conns[c] EXCEPT !.pc = "checked",
                                          !.job = [identity |-> i, token |-> t, key |-> k]]
          /\ \A d \in Conns \ {c} : conns'[d] = conns[d]
      BY <1>9, <2>3 DEF TypeInv, ConnsType
    <3>2. conns'[c].label = conns[c].label /\ conns'[c].session = conns[c].session
      BY <3>1 DEF ConnType
    <3>3. QED
      BY <1>2, <1>9, <2>1, <3>1, <3>2
  <2>4. QED
    BY <1>9, <2>2, <2>3 DEF HandleRegister
<1>10. ASSUME TypeInv, KeyInv, NEW c \in Conns,
              \/ CheckContext(c) \/ ReadAfterClose(c) \/ HangUp(c) \/ BeginSend(c) \/ EndSend(c)
              \/ Register(c) \/ Accept(c)
       PROVE KeyInv'
  <2>1. UNCHANGED <<keys, enrolled, written>> /\ \E pc : Goto(c, pc)
    BY <1>10 DEF CheckContext, ReadAfterClose, HangUp, BeginSend, EndSend, Register, Accept,
                 Quiet, enrolment
  <2>2. QED
    BY <1>2, <1>4, <1>10, <2>1
<1>11. ASSUME TypeInv, KeyInv, NEW c \in Conns,
              \/ HandleData(c) \/ HandleStatus(c) \/ VerifyInvite(c) \/ ConsumeInvite(c)
              \/ \E s \in Stops : HandleStop(c, s)
              \/ \E t \in Tokens : HandleInviteCreate(c, t)
       PROVE KeyInv'
  <2>1. UNCHANGED <<keys, enrolled, written>> /\ (conns' = Answer(c) \/ \E pc : Goto(c, pc))
    BY <1>11 DEF HandleData, HandleStatus, VerifyInvite, ConsumeInvite, HandleStop,
                 HandleInviteCreate, enrolment
  <2>2. QED
    BY <1>2, <1>3, <1>4, <1>11, <2>1
<1>12. ASSUME TypeInv, KeyInv, NEW c \in Conns, AssignID(c) \/ Unregister(c) PROVE KeyInv'
  <2>1. UNCHANGED <<keys, enrolled, written>>
    BY <1>12 DEF AssignID, Unregister, Quiet, enrolment
  <2>2. CASE AssignID(c)
    <3>1. \A d \in Conns : /\ conns'[d].label = conns[d].label
                           /\ conns'[d].session = conns[d].session
      BY <1>12, <2>2 DEF AssignID, NewConnection, TypeInv, ConnsType, ConnType
    <3>2. QED
      BY <1>2, <1>12, <2>1, <3>1
  <2>3. CASE Unregister(c)
    <3>1. /\ conns'[c].label = None /\ conns'[c].session = None
          /\ \A d \in Conns \ {c} : conns'[d] = conns[d]
      BY <1>12, <2>3 DEF Unregister, NewConn, TypeInv, ConnsType
    <3>2. QED
      BY <1>12, <2>1, <3>1 DEF KeyInv, IdentityProven, ProvenBy, Stored, StoredFor
  <2>4. QED
    BY <1>12, <2>2, <2>3
<1>13. ASSUME TypeInv, KeyInv,
              \/ Start \/ (\E l \in Listeners \cup {"web"} : EndLoop(l))
              \/ (\E s \in Stops : Signal(s) \/ StopSteps(s))
       PROVE KeyInv'
  <2>1. UNCHANGED <<keys, enrolled, written>>
    BY <1>13 DEF Start, EndLoop, Signal, StopSteps, CloseListeners, BeginWalk, EndWalk,
                 ReturnFromStop, CloseConnection, enrolment
  <2>2. QED
    BY <1>2, <1>13, <2>1, OtherSteps
<1>14. ASSUME TypeInv, KeyInv, UNCHANGED vars PROVE KeyInv'
  BY <1>2, <1>14 DEF vars, enrolment
<1>15. ASSUME TypeInv, KeyInv, NEW c \in Conns, WritesRecord(c) PROVE KeyInv'
  <2>1. \A d \in Conns : /\ conns'[d].label = conns[d].label
                         /\ conns'[d].session \in {conns[d].session, None}
                         /\ conns'[d].session = conns[d].session
    BY <1>3, <1>15, WritesRecordFields DEF TypeInv
  <2>2. enrolled' = enrolled
    BY <1>15, WritesRecordFields DEF TypeInv
  <2>3. CASE UNCHANGED <<keys, written>>
    BY <1>2, <1>15, <2>1, <2>2, <2>3
  <2>4. ASSUME NEW i \in Identities, NEW k, WriteKey(i, k) PROVE KeyInv'
    <3> DEFINE e == [identity |-> i, key |-> k]
    <3>1. e.identity = i /\ e.key = k
      OBVIOUS
    <3>2. Stored \subseteq Stored' /\ (k # None => e \in Stored')
      BY <2>2, <2>4 DEF Stored, WriteKey
    <3>3. k # None => StoredFor(Stored', i, k)
      BY <3>1, <3>2 DEF StoredFor
    <3>4. keys' = [keys EXCEPT ![i] = k]
      BY <2>4 DEF WriteKey
    <3>5. QED
      BY <1>0, <1>15, <2>1, <3>2, <3>3, <3>4
  <2>5. QED
    BY <1>15, <2>3, <2>4, WritesRecordFields DEF TypeInv
<1>16. QED
  BY <1>1, <1>5, <1>6, <1>7, <1>8, <1>9, <1>10, <1>11, <1>12, <1>13, <1>14, <1>15
     DEF Next, GoroutineSteps, ClientSteps, WritesRecord

\* A token is redeemed only by a registration that is under way, has stored
\* its key, had none or was refused it by the tree: InvitesEnrol is inductive.
LEMMA InvitesInductive ==
    /\ Init => InvitesEnrol
    /\ TypeInv /\ InvitesEnrol /\ [Next]_vars => InvitesEnrol'
<1>1. Init => InvitesEnrol
  BY DEF Init, InvitesEnrol
<1>2. ASSUME InvitesEnrol, UNCHANGED <<redeemed, enrolled, burnt>>,
             \A d \in Conns : At(d, "consumed") =>
                conns'[d].pc = "consumed" /\ conns'[d].job = conns[d].job
      PROVE InvitesEnrol'
  BY <1>2 DEF InvitesEnrol, Spent, At
<1>3. ASSUME TypeInv, InvitesEnrol, NEW c \in Conns, ConsumeInvite(c) PROVE InvitesEnrol'
  <2>1. conns[c].pc = "verified" /\ UNCHANGED <<enrolled, burnt>>
    BY <1>3 DEF ConsumeInvite, At
  <2>2. \A d \in Conns \ {c} : conns'[d] = conns[d]
    BY <1>3, ServesFields DEF Serves
  <2>3. CASE /\ redeemed' = redeemed \cup {conns[c].job.token}
             /\ Goto(c, "consumed")
    <3>1. conns[c] \in ConnType /\ conns'[c] = [conns[c] EXCEPT !.pc = "consumed"]
      BY <1>3, <2>3 DEF TypeInv, ConnsType, Goto
    <3>2. conns'[c].pc = "consumed" /\ conns'[c].job = conns[c].job
      BY <3>1 DEF ConnType
    <3>3. QED
      BY <1>3, <2>1, <2>2, <2>3, <3>2 DEF InvitesEnrol, Spent, At
  <2>4. CASE UNCHANGED redeemed
    BY <1>2, <1>3, <2>1, <2>2, <2>4 DEF At
  <2>5. QED
    BY <1>3, <2>3, <2>4 DEF ConsumeInvite
<1>4. ASSUME TypeInv, InvitesEnrol, NEW c \in Conns, StoreKey(c) PROVE InvitesEnrol'
  <2>1. redeemed' = redeemed
    BY <1>4 DEF StoreKey
  <2>2. \A d \in Conns \ {c} : conns'[d] = conns[d]
    BY <1>4, ServesFields DEF Serves
  <2>3. /\ enrolled \subseteq enrolled' /\ burnt \subseteq burnt'
        /\ \/ \E e \in enrolled' : e.token = conns[c].job.token
           \/ conns[c].job.token \in burnt'
    <3>1. Enrolled(conns[c].job).token = conns[c].job.token
      BY DEF Enrolled
    <3>2. \/ enrolled' = enrolled \cup {Enrolled(conns[c].job)} /\ burnt' = burnt
          \/ enrolled' = enrolled /\ burnt' = burnt \cup {conns[c].job.token}
      BY <1>4 DEF StoreKey
    <3>3. QED
      BY <3>1, <3>2
  <2>4. QED
    BY <1>4, <2>1, <2>2, <2>3 DEF InvitesEnrol, Spent, At
<1>5. ASSUME TypeInv, InvitesEnrol, NEW c \in Conns, Serves(c),
             UNCHANGED <<redeemed, enrolled, burnt>>, conns[c].pc # "consumed"
      PROVE InvitesEnrol'
  <2>1. \A d \in Conns \ {c} : conns'[d] = conns[d]
    BY <1>5, ServesFields
  <2>2. QED
    BY <1>2, <1>5, <2>1 DEF At
<1>6. ASSUME NEW c \in Conns, Serves(c)
      PROVE  \/ ConsumeInvite(c) \/ StoreKey(c)
             \/ UNCHANGED <<redeemed, enrolled, burnt>> /\ conns[c].pc # "consumed"
  BY <1>6 DEF Serves, CheckContext, ReadAfterClose, HangUp, BeginSend, EndSend, HandleData,
         HandleStatus, WritesRecord, HandleWrite, HandleExecute, WriteKey, HandleStop,
         VerifyInvite, HandleAuthInit, HandleAuthResponse, HandleInviteCreate,
         HandleRegister, Receives, At, Quiet, enrolment
<1>7. ASSUME TypeInv, InvitesEnrol, NEW c \in Conns,
             AssignID(c) \/ Register(c) \/ Unregister(c) \/ Accept(c)
      PROVE InvitesEnrol'
  <2>1. UNCHANGED <<redeemed, enrolled, burnt>> /\ conns[c].pc # "consumed"
    BY <1>7 DEF AssignID, Register, Unregister, Accept, At, Quiet, enrolment
  <2>2. \A d \in Conns \ {c} : conns'[d] = conns[d]
    BY <1>7 DEF AssignID, NewConnection, Register, Unregister, Accept, Goto, TypeInv, ConnsType
  <2>3. QED
    BY <1>2, <1>7, <2>1, <2>2 DEF At
<1>8. ASSUME TypeInv, InvitesEnrol,
             \/ Start \/ (\E l \in Listeners \cup {"web"} : EndLoop(l))
             \/ (\E s \in Stops : Signal(s) \/ StopSteps(s))
      PROVE InvitesEnrol'
  <2>1. UNCHANGED <<redeemed, enrolled, burnt>>
    BY <1>8 DEF Start, EndLoop, Signal, StopSteps, CloseListeners, BeginWalk, EndWalk,
                ReturnFromStop, CloseConnection, enrolment
  <2>2. QED
    BY <1>2, <1>8, <2>1, OtherSteps DEF At
<1>9. ASSUME TypeInv, InvitesEnrol, NEW done \in 0..4, InitOwner(done) PROVE InvitesEnrol'
  <2>1. UNCHANGED <<redeemed, burnt, conns>> /\ enrolled \subseteq enrolled'
    BY <1>9 DEF InitOwner
  <2>2. QED
    BY <1>9, <2>1 DEF InvitesEnrol, Spent, At
<1>10. ASSUME InvitesEnrol, UNCHANGED vars PROVE InvitesEnrol'
  BY <1>2, <1>10 DEF vars, enrolment, At
<1>11. QED
  BY <1>1, <1>3, <1>4, <1>5, <1>6, <1>7, <1>8, <1>9, <1>10
     DEF Next, GoroutineSteps, ClientSteps, Serves, WritesRecord

\* The daemon's state keeps its types, whatever its clients and its callers do.
LEMMA TypeAlways == Spec => [](TypeInv /\ RegistryInv)
<1>1. Init => TypeInv /\ RegistryInv
  BY LifeTypeInductive, EnrolTypeInductive, ConnsTypeInductive, RegistryInvInductive DEF TypeInv
<1>2. TypeInv /\ RegistryInv /\ [Next]_vars => (TypeInv /\ RegistryInv)'
  BY LifeTypeInductive, EnrolTypeInductive, ConnsTypeInductive, RegistryInvInductive DEF TypeInv
<1>3. QED
  BY <1>1, <1>2, PTL DEF Spec

\* The map of connections is exactly the registered connections, each under
\* its own id (handleConnection), for any number of connections.
THEOREM ConnectionsAreRegistered == Spec => []RegistryExact
<1>1. TypeInv /\ RegistryInv => RegistryExact
  BY DEF RegistryInv, RegistryExact, Range
<1>2. QED
  BY <1>1, TypeAlways, PTL

\* The daemon's state has its types; the ids of connections never outnumber
\* the connections (handleConnection draws one id for each).
THEOREM ServiceTypes == Spec => []ServiceTypeOK
<1>1. TypeInv /\ RegistryInv /\ CountInv => ServiceTypeOK
  <2>1. SUFFICES ASSUME TypeInv, RegistryInv, CountInv PROVE ServiceTypeOK
    OBVIOUS
  <2>2. nextConnID \in 0..Cardinality(Conns) /\ Cardinality(Conns) \in Nat
    <3>1. Drawn \in SUBSET Conns /\ IsFiniteSet(Conns)
      BY ServiceAssumption DEF Drawn
    <3>2. IsFiniteSet(Drawn) /\ Cardinality(Drawn) <= Cardinality(Conns)
      BY <3>1, FS_Subset
    <3>3. Cardinality(Drawn) \in Nat /\ Cardinality(Conns) \in Nat
      BY <3>1, <3>2, FS_CardinalityType
    <3>4. QED
      BY <2>1, <3>2, <3>3 DEF CountInv
  <2>3. \A c \in Conns : conns[c].id \in 0..Cardinality(Conns) \cup {None}
    BY <2>1, <2>2 DEF RegistryInv, TypeInv, LifeType
  <2>4. \A c \in Conns :
          /\ conns[c].pc \in ConnPCs
          /\ {conns[c].agent, conns[c].label} \subseteq Identities \cup {None}
          /\ conns[c].pc \in {"checked", "verified", "consumed"} <=> conns[c].job # None
    BY <2>1 DEF TypeInv, ConnsType, ConnType, Enrolling
  <2>5. \A s \in Stops : stops[s].pc \in StopPCs /\ stops[s].left \subseteq Conns
    BY <2>1 DEF TypeInv, LifeType
  <2>6. QED
    BY <2>1, <2>2, <2>3, <2>4, <2>5 DEF ServiceTypeOK, TypeInv, LifeType, EnrolType
<1>2. QED
  BY <1>1, TypeAlways, CountInvInductive, PTL DEF Spec

\* Whoever handshook as an agent holds a key that was stored for that agent,
\* by an enrolment or by a client's WRITE or EXECUTE (handleAuthInit,
\* handleAuthResponse), for any clients, keys and identities.
THEOREM HandshakesProveIdentity == Spec => []IdentityProven
<1>1. KeyInv => IdentityProven
  BY DEF KeyInv
<1>2. QED
  BY <1>1, TypeAlways, KeyInvInductive, PTL DEF Spec

\* A redeemed invite has enrolled an agent, is about to, or came with an empty
\* key or met a failing write (RegisterAgent), for any number of registrations
\* racing for a token and whatever clients write meanwhile.
THEOREM SpentInvitesEnrol == Spec => []InvitesEnrol
BY TypeAlways, InvitesInductive, PTL DEF Spec

\* After a call of Stop has walked the connections, no goroutine waits for a
\* client on an open socket (Service.Stop), for any number of calls of Stop.
THEOREM StopWakesEveryone == Spec => []NobodyLeftWaiting
<1>1. WalkInv => NobodyLeftWaiting
  BY DEF WalkInv, NobodyLeftWaiting, At, Registered
<1>2. QED
  BY <1>1, TypeAlways, WalkInvInductive, PTL DEF Spec
=============================================================================
