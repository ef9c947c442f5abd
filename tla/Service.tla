------------------------------ MODULE Service ------------------------------
(***************************************************************************)
(* The daemon (internal/service): its life from Start to Stop, the         *)
(* goroutine that serves each connection, and the enrolment and            *)
(* authentication of agents over those connections.                        *)
(*                                                                         *)
(* Every step of this module is one critical section or one operation on   *)
(* the tree (which has a lock of its own).  The messages that only read    *)
(* and answer are one action; the ones that change what the daemon knows   *)
(* (AUTH_INIT, AUTH_RESPONSE, REGISTER, INVITE_CREATE, STOP, and WRITE and *)
(* EXECUTE where they reach the daemon's own records) have theirs.         *)
(* An identity stands for the numeric id ownerAgentID hashes it to.        *)
(***************************************************************************)
EXTENDS Naturals, FiniteSets, Functions

CONSTANTS Conns,       \* connections clients may open
          Locals,      \* the ones that dial the UNIX socket
          Identities,  \* CV identities of agents
          Owner,       \* the identity InitOwner generates
          OwnerKey,    \* its public key
          KeyOf,       \* [Conns -> public key of the client's key pair]
          Tokens,      \* enrolment tokens that may be drawn
          Stops,       \* calls of Service.Stop: a signal, STOP messages
          MaxUpsets,   \* bound on tree writes that fail and on clients' writes
                       \* to the daemon's own records, together
          MaxMessages, \* bound on the messages clients send
          None

PublicKeys == Range(KeyOf) \cup {OwnerKey}
Sessions == [identity : Identities, key : PublicKeys]
Jobs == [identity : Identities, token : Tokens, key : PublicKeys \cup {None}]

ASSUME ServiceAssumption ==
    /\ IsFiniteSet(Conns) /\ Locals \subseteq Conns
    /\ Owner \in Identities
    /\ DOMAIN KeyOf = Conns
    /\ None \notin Identities \cup PublicKeys \cup Sessions \cup Jobs
    /\ MaxUpsets \in Nat /\ MaxMessages \in Nat

VARIABLES
    stage,       \* "new", "running" or "failed": what Start did
    ctxDone,     \* the service context is cancelled
    listening,   \* open listeners
    loops,       \* goroutines counted in shutdownWG
    registry,    \* Service.connections, id -> connection
    nextConnID,
    conns,       \* the connections and the goroutines that serve them
    stops,       \* the calls of Stop: where each is, what it has yet to close
    keys,        \* world.agent.{id}.keys.public
    owner,       \* world.node.owner
    grantee,     \* the agent @grant on world.agent names
    invites,     \* world.node.invites
    enrolled,    \* history: keys enrolled, for whom and on which token
    written,     \* history: keys clients wrote to the tree, and for whom
    redeemed,    \* history: tokens VerifyAndConsumeInvite accepted
    burnt,       \* history: tokens redeemed by a registration that stored no key
    upsets,      \* failed tree writes and clients' writes to the records
    messages     \* messages received

lifecycle == <<stage, ctxDone, listening, loops>>
enrolment == <<keys, owner, grantee, invites, enrolled, written, redeemed, burnt,
               upsets>>
vars == <<lifecycle, registry, nextConnID, conns, stops, enrolment, messages>>

Listeners == {"local", "network"}
ConnPCs == {"none", "accepted", "created", "loop", "reading",
            "checked", "verified", "consumed", "reply", "sending", "closing", "gone"}
Registered == {"loop", "reading", "checked", "verified", "consumed", "reply",
               "sending", "closing"}
StopPCs == {"idle", "cancelled", "unlistened", "walking", "walked", "returned"}

NewConn == [pc |-> "none", id |-> None, agent |-> None, label |-> None,
            session |-> None, job |-> None, closed |-> FALSE]

(* service.New: an open tree whose root is seeded, nothing listening. *)
Init ==
    /\ stage = "new" /\ ctxDone = FALSE /\ listening = {} /\ loops = {}
    /\ registry = << >> /\ nextConnID = 0
    /\ conns = [c \in Conns |-> NewConn]
    /\ stops = [s \in Stops |-> [pc |-> "idle", left |-> {}]]
    /\ keys = [i \in Identities |-> None]
    /\ owner = None /\ grantee = None
    /\ invites = [t \in Tokens |-> "none"]
    /\ enrolled = {} /\ written = {} /\ redeemed = {} /\ burnt = {} /\ upsets = 0
    /\ messages = 0

-----------------------------------------------------------------------------
(* The owner, established before the daemon runs (amorphd init-owner). *)

OwnerIdentity == owner

(* A key stored as the empty text reads as absent: None stands for both. *)
LookupAgentPublicKey(i) == keys[i]

(* InitOwner writes the public key, the private key, the marker and the    *)
(* @grant condition one after the other: done is how many went through.    *)
InitOwner(done) ==
    /\ stage = "new" /\ OwnerIdentity = None /\ keys[Owner] = None
    /\ done < 4 => upsets < MaxUpsets
    /\ upsets' = IF done < 4 THEN upsets + 1 ELSE upsets
    /\ keys' = IF done >= 1 THEN [keys EXCEPT ![Owner] = OwnerKey] ELSE keys
    /\ enrolled' = IF done >= 1
                   THEN enrolled \cup {[token |-> None, identity |-> Owner, key |-> OwnerKey]}
                   ELSE enrolled
    /\ owner' = IF done >= 3 THEN Owner ELSE owner
    /\ grantee' = IF done = 4 THEN Owner ELSE grantee
    /\ UNCHANGED <<lifecycle, registry, nextConnID, conns, stops, invites, written, redeemed,
                   burnt, messages>>

-----------------------------------------------------------------------------
(* The life of the daemon. *)

(* Start opens both listeners and starts the accept loops and the web      *)
(* server, or closes what it opened and fails.                             *)
Start ==
    /\ stage = "new"
    /\ \/ /\ stage' = "running"
          /\ listening' = Listeners
          /\ loops' = Listeners \cup {"web"}
       \/ /\ stage' = "failed"
          /\ UNCHANGED <<listening, loops>>
    /\ UNCHANGED <<ctxDone, registry, nextConnID, conns, stops, enrolment, messages>>

(* A goroutine of shutdownWG returns: an accept loop on the error of its   *)
(* closed listener once the context is done, the web server when Stop      *)
(* closes it or when it cannot listen.                                     *)
EndLoop(l) ==
    /\ l \in loops
    /\ l # "web" => l \notin listening /\ ctxDone
    /\ loops' = loops \ {l}
    /\ UNCHANGED <<stage, ctxDone, listening, registry, nextConnID, conns, stops, enrolment, messages>>

Step(s, from, to) == /\ stops[s].pc = from
                     /\ stops' = [stops EXCEPT ![s].pc = to]

BeginStop(s) ==
    /\ stage = "running"
    /\ Step(s, "idle", "cancelled")
    /\ ctxDone' = TRUE

(* A signal ends main's wait, which then calls Stop. *)
Signal(s) ==
    /\ BeginStop(s)
    /\ UNCHANGED <<stage, listening, loops, registry, nextConnID, conns, enrolment, messages>>

CloseListeners(s) ==
    /\ Step(s, "cancelled", "unlistened")
    /\ listening' = {}
    /\ UNCHANGED <<stage, ctxDone, loops, registry, nextConnID, conns, enrolment, messages>>

(* connectionsMutex: Stop holds it for its whole walk over the connections. *)
MutexFree == \A s \in Stops : stops[s].pc # "walking"

BeginWalk(s) ==
    /\ MutexFree
    /\ stops[s].pc = "unlistened"
    /\ stops' = [stops EXCEPT ![s] = [pc |-> "walking", left |-> Range(registry)]]
    /\ UNCHANGED <<lifecycle, registry, nextConnID, conns, enrolment, messages>>

(* Connection.Close takes the connection's mutex, which sendResponse holds *)
(* while it writes.                                                        *)
CanClose(c) == conns[c].pc # "sending"

CloseConnection(s, c) ==
    /\ stops[s].pc = "walking" /\ c \in stops[s].left
    /\ CanClose(c)
    /\ conns' = [conns EXCEPT ![c].closed = TRUE]
    /\ stops' = [stops EXCEPT ![s].left = @ \ {c}]
    /\ UNCHANGED <<lifecycle, registry, nextConnID, enrolment, messages>>

EndWalk(s) ==
    /\ stops[s].left = {}
    /\ Step(s, "walking", "walked")
    /\ UNCHANGED <<lifecycle, registry, nextConnID, conns, enrolment, messages>>

(* shutdownWG.Wait: the accept loops and the web server, no connection. *)
ReturnFromStop(s) ==
    /\ loops = {}
    /\ Step(s, "walked", "returned")
    /\ UNCHANGED <<lifecycle, registry, nextConnID, conns, enrolment, messages>>

-----------------------------------------------------------------------------
(* handleConnection: the goroutine that serves connection c. *)

At(c, pc) == conns[c].pc = pc
Goto(c, pc) == conns' = [conns EXCEPT ![c].pc = pc]
Quiet == UNCHANGED <<lifecycle, stops, enrolment, messages>>

Accept(c) ==
    /\ At(c, "none")
    /\ (IF c \in Locals THEN "local" ELSE "network") \in listening \cap loops
    /\ Goto(c, "accepted")
    /\ UNCHANGED <<registry, nextConnID>> /\ Quiet

(* Local connections adopt the owner; None is the default agent 1000. *)
NewConnection(c, id) ==
    [conns EXCEPT ![c].pc = "created", ![c].id = id,
                  ![c].agent = IF c \in Locals THEN OwnerIdentity ELSE None]

MutantAssignID(c) ==
    /\ At(c, "accepted") /\ MutexFree
    /\ conns' = NewConnection(c, nextConnID)
    /\ UNCHANGED <<nextConnID, registry>> /\ Quiet

MutantSkipID(c) ==
    /\ At(c, "accepted") /\ MutexFree
    /\ conns' = NewConnection(c, nextConnID + 1)
    /\ nextConnID' = nextConnID + 2
    /\ UNCHANGED registry /\ Quiet

(* The id is drawn under the mutex and the wrapper, which reads the owner, *)
(* made right after it; nobody else reads or writes the id drawn.          *)
AssignID(c) ==
    /\ At(c, "accepted") /\ MutexFree
    /\ conns' = NewConnection(c, nextConnID)
    /\ nextConnID' = nextConnID + 1
    /\ UNCHANGED registry /\ Quiet

Register(c) ==
    /\ At(c, "created") /\ MutexFree
    /\ registry' = [n \in DOMAIN registry \cup {conns[c].id} |->
                       IF n = conns[c].id THEN c ELSE registry[n]]
    /\ Goto(c, "loop")
    /\ UNCHANGED nextConnID /\ Quiet

MutantCheckContext(c) ==
    /\ At(c, "loop")
    /\ Goto(c, "reading")
    /\ UNCHANGED <<registry, nextConnID>> /\ Quiet

(* The select at the head of Connection.Start's loop. *)
CheckContext(c) ==
    /\ At(c, "loop")
    /\ Goto(c, IF ctxDone THEN "closing" ELSE "reading")
    /\ UNCHANGED <<registry, nextConnID>> /\ Quiet

(* ReadFull fails: the connection was closed here, or the client hung up. *)
ReadAfterClose(c) ==
    /\ At(c, "reading") /\ conns[c].closed
    /\ Goto(c, "closing")
    /\ UNCHANGED <<registry, nextConnID>> /\ Quiet

HangUp(c) ==
    /\ At(c, "reading")
    /\ Goto(c, "closing")
    /\ UNCHANGED <<registry, nextConnID>> /\ Quiet

(* sendResponse refuses on a closed connection, else writes with the       *)
(* connection's mutex held until the client has taken the bytes.           *)
BeginSend(c) ==
    /\ At(c, "reply")
    /\ Goto(c, IF conns[c].closed THEN "closing" ELSE "sending")
    /\ UNCHANGED <<registry, nextConnID>> /\ Quiet

EndSend(c) ==
    /\ At(c, "sending")
    /\ \E pc \in {"loop", "closing"} : Goto(c, pc)
    /\ UNCHANGED <<registry, nextConnID>> /\ Quiet

(* Connection.Start's deferred Close, then the deletion from the map; the  *)
(* Connection is garbage.                                                  *)
Unregister(c) ==
    /\ At(c, "closing") /\ MutexFree
    /\ registry' = Restrict(registry, DOMAIN registry \ {conns[c].id})
    /\ conns' = [conns EXCEPT ![c] = [NewConn EXCEPT !.pc = "gone"]]
    /\ UNCHANGED nextConnID /\ Quiet

-----------------------------------------------------------------------------
(* processNextMessage and the handlers: a message arrives on an open       *)
(* connection, its handler runs, the response is left for sendResponse.    *)

Receives(c) ==
    /\ At(c, "reading") /\ ~conns[c].closed
    /\ messages < MaxMessages
    /\ messages' = messages + 1

Answer(c) == [conns EXCEPT ![c].pc = "reply", ![c].job = None]

Handled == UNCHANGED <<lifecycle, registry, nextConnID, stops>>

(* READ, READ_AT, CHILDREN, EXTRACT, WHOAMI, COMPACT, the mesh operations, *)
(* and EXECUTE, WRITE and PURGE that leave the daemon's own records alone, *)
(* their refusals included: what they do to the rest of the tree is the    *)
(* storage modules' and the interpreter's.                                 *)
HandleData(c) ==
    /\ Receives(c)
    /\ conns' = Answer(c)
    /\ UNCHANGED enrolment /\ Handled

Upset == upsets < MaxUpsets /\ upsets' = upsets + 1

(* A client's write to world.agent.{i}.keys.public; None erases the key. *)
WriteKey(i, k) ==
    /\ keys' = [keys EXCEPT ![i] = k]
    /\ written' = IF k = None THEN written ELSE written \cup {[identity |-> i, key |-> k]}
    /\ UNCHANGED <<owner, grantee, invites, enrolled, redeemed, burnt>>

(* WRITE and PURGE: with no condition stored, an agent holds every         *)
(* permission under its own home, where its key is, and none outside.      *)
HandleWrite(c, k) ==
    /\ Receives(c) /\ conns[c].agent # None
    /\ Upset
    /\ WriteKey(conns[c].agent, k)
    /\ conns' = Answer(c)
    /\ Handled

(* EXECUTE runs MBL with no permission check: a program may write any      *)
(* leaf.  The conditions of @grant are kept beside the tree, out of reach. *)
HandleExecute(c) ==
    /\ Receives(c)
    /\ Upset
    /\ \/ \E i \in Identities, k \in {KeyOf[c], None} : WriteKey(i, k)
       \/ /\ \E i \in Identities \cup {None} : owner' = i
          /\ UNCHANGED <<keys, grantee, invites, enrolled, written, redeemed, burnt>>
       \/ /\ \E t \in Tokens, mark \in {"partial", "unused", "used"} :
                invites' = [invites EXCEPT ![t] = mark]
          /\ UNCHANGED <<keys, owner, grantee, enrolled, written, redeemed, burnt>>
    /\ conns' = Answer(c)
    /\ Handled

(* STATUS on the local socket counts the connections under their mutex. *)
HandleStatus(c) ==
    /\ Receives(c) /\ c \in Locals /\ MutexFree
    /\ conns' = Answer(c)
    /\ UNCHANGED enrolment /\ Handled

(* STOP starts Service.Stop in a goroutine of its own and acknowledges. *)
HandleStop(c, s) ==
    /\ Receives(c) /\ c \in Locals
    /\ BeginStop(s)
    /\ conns' = Answer(c)
    /\ UNCHANGED <<stage, listening, loops, registry, nextConnID, enrolment>>

MutantHandleAuthInit(c, i) ==
    /\ Receives(c)
    /\ conns' = IF conns[c].session # None
                THEN [Answer(c) EXCEPT ![c].session.identity = i]
                ELSE IF LookupAgentPublicKey(i) = None THEN Answer(c)
                ELSE [Answer(c) EXCEPT ![c].session =
                         [identity |-> i, key |-> LookupAgentPublicKey(i)]]
    /\ UNCHANGED enrolment /\ Handled

(* AUTH_INIT: a challenge encrypted to the key stored for the identity. *)
HandleAuthInit(c, i) ==
    /\ Receives(c)
    /\ conns' = IF LookupAgentPublicKey(i) = None THEN Answer(c)
                ELSE [Answer(c) EXCEPT ![c].session =
                         [identity |-> i, key |-> LookupAgentPublicKey(i)]]
    /\ UNCHANGED enrolment /\ Handled

(* VerifyResponse accepts what only the holder of the session's key can    *)
(* have decrypted, sent under the session's identity.                      *)
VerifyResponse(c, i) ==
    LET session == conns[c].session IN session.identity = i /\ session.key = KeyOf[c]

(* AUTH_RESPONSE under identity i.  Without a session, or with a payload   *)
(* that does not decode, nothing changes; else the session is spent.       *)
HandleAuthResponse(c, i) ==
    /\ Receives(c)
    /\ \/ conns' = Answer(c)
       \/ /\ conns[c].session # None
          /\ conns' = IF VerifyResponse(c, i)
                      THEN [Answer(c) EXCEPT ![c].session = None,
                                                   ![c].agent = i, ![c].label = i]
                      ELSE [Answer(c) EXCEPT ![c].session = None]
    /\ UNCHANGED enrolment /\ Handled

(* CanGrant on world.agent: the one condition InitOwner stored there;      *)
(* without it the default is closed.                                       *)
CanIssueInvites(agent) == agent # None /\ agent = grantee

(* INVITE_CREATE: CreateInvite stores issuer, used and expires under the   *)
(* new token's hash; a failing write leaves the leaves before it behind.   *)
HandleInviteCreate(c, t) ==
    /\ Receives(c) /\ invites[t] = "none"
    /\ \/ /\ ~CanIssueInvites(conns[c].agent)
          /\ conns' = Answer(c)
          /\ UNCHANGED <<invites, upsets>>
       \/ /\ CanIssueInvites(conns[c].agent)
          /\ invites' = [invites EXCEPT ![t] = "unused"]
          /\ conns' = Answer(c)
          /\ UNCHANGED upsets
       \/ /\ CanIssueInvites(conns[c].agent) /\ upsets < MaxUpsets
          /\ invites' = [invites EXCEPT ![t] = "partial"]
          /\ conns' = Answer(c)
          /\ upsets' = upsets + 1
    /\ UNCHANGED <<keys, owner, grantee, enrolled, written, redeemed, burnt>> /\ Handled

(* REGISTER: RegisterAgent refuses a taken name before it looks at the     *)
(* token.  A public key of no bytes, None, is not refused.                 *)
HandleRegister(c, i, t, k) ==
    /\ Receives(c)
    /\ conns' = IF LookupAgentPublicKey(i) # None THEN Answer(c)
                ELSE [conns EXCEPT ![c].pc = "checked",
                                   ![c].job = [identity |-> i, token |-> t, key |-> k]]
    /\ UNCHANGED enrolment /\ Handled

(* VerifyAndConsumeInvite, up to its write: the token is known and unused, *)
(* and its 24 hours may or may not be over.                                *)
VerifyInvite(c) ==
    /\ At(c, "checked")
    /\ \/ conns' = Answer(c)
       \/ /\ invites[conns[c].job.token] = "unused"
          /\ Goto(c, "verified")
    /\ UNCHANGED enrolment /\ Handled /\ UNCHANGED messages

(* ... and the write that marks it used. *)
ConsumeInvite(c) ==
    /\ At(c, "verified")
    /\ \/ /\ invites' = [invites EXCEPT ![conns[c].job.token] = "used"]
          /\ redeemed' = redeemed \cup {conns[c].job.token}
          /\ Goto(c, "consumed")
          /\ UNCHANGED upsets
       \/ /\ upsets < MaxUpsets
          /\ upsets' = upsets + 1
          /\ conns' = Answer(c)
          /\ UNCHANGED <<invites, redeemed>>
    /\ UNCHANGED <<keys, owner, grantee, enrolled, written, burnt>> /\ Handled
    /\ UNCHANGED messages

Enrolled(job) == [token |-> job.token, identity |-> job.identity, key |-> job.key]

MutantStoreKey(c) ==
    /\ At(c, "consumed")
    /\ LET job == conns[c].job
           free == keys[job.identity] = None
       IN
       /\ keys' = IF free THEN [keys EXCEPT ![job.identity] = job.key] ELSE keys
       /\ enrolled' = IF free /\ job.key # None THEN enrolled \cup {Enrolled(job)} ELSE enrolled
       /\ burnt' = IF job.key = None THEN burnt \cup {job.token} ELSE burnt
       /\ conns' = Answer(c)
    /\ UNCHANGED <<owner, grantee, invites, written, redeemed, upsets>> /\ Handled
    /\ UNCHANGED messages

(* RegisterAgent's last write, the public key; the name is not looked up   *)
(* again.                                                                  *)
StoreKey(c) ==
    /\ At(c, "consumed")
    /\ LET job == conns[c].job IN
       \/ /\ keys' = [keys EXCEPT ![job.identity] = job.key]
          /\ enrolled' = IF job.key = None THEN enrolled ELSE enrolled \cup {Enrolled(job)}
          /\ burnt' = IF job.key = None THEN burnt \cup {job.token} ELSE burnt
          /\ conns' = Answer(c)
          /\ UNCHANGED upsets
       \/ /\ upsets < MaxUpsets
          /\ upsets' = upsets + 1
          /\ burnt' = burnt \cup {job.token}
          /\ conns' = Answer(c)
          /\ UNCHANGED <<keys, enrolled>>
    /\ UNCHANGED <<owner, grantee, invites, written, redeemed>> /\ Handled
    /\ UNCHANGED messages

-----------------------------------------------------------------------------
StopSteps(s) == \/ CloseListeners(s) \/ BeginWalk(s) \/ EndWalk(s) \/ ReturnFromStop(s)
                \/ \E c \in Conns : CloseConnection(s, c)

GoroutineSteps(c) ==
    \/ AssignID(c) \/ Register(c) \/ CheckContext(c)
    \/ ReadAfterClose(c) \/ VerifyInvite(c) \/ ConsumeInvite(c) \/ StoreKey(c)
    \/ BeginSend(c) \/ EndSend(c) \/ Unregister(c)

ClientSteps(c) ==
    \/ Accept(c) \/ HangUp(c) \/ HandleData(c) \/ HandleStatus(c) \/ HandleExecute(c)
    \/ \E k \in {KeyOf[c], None} : HandleWrite(c, k)
    \/ \E s \in Stops : HandleStop(c, s)
    \/ \E i \in Identities : HandleAuthInit(c, i) \/ HandleAuthResponse(c, i)
    \/ \E t \in Tokens : HandleInviteCreate(c, t)
    \/ \E i \in Identities, t \in Tokens, k \in {KeyOf[c], None} : HandleRegister(c, i, t, k)

Next ==
    \/ Start
    \/ \E done \in 0..4 : InitOwner(done)
    \/ \E l \in Listeners \cup {"web"} : EndLoop(l)
    \/ \E s \in Stops : Signal(s) \/ StopSteps(s)
    \/ \E c \in Conns : GoroutineSteps(c) \/ ClientSteps(c)

Spec == Init /\ [][Next]_vars

-----------------------------------------------------------------------------
(* Type correctness of the daemon's state. *)
ServiceTypeOK ==
    /\ stage \in {"new", "running", "failed"} /\ ctxDone \in BOOLEAN
    /\ listening \subseteq Listeners /\ loops \subseteq Listeners \cup {"web"}
    /\ nextConnID \in 0..Cardinality(Conns)
    /\ \A c \in Conns :
          /\ conns[c].pc \in ConnPCs
          /\ conns[c].id \in 0..Cardinality(Conns) \cup {None}
          /\ {conns[c].agent, conns[c].label} \subseteq Identities \cup {None}
          /\ conns[c].pc \in {"checked", "verified", "consumed"} <=> conns[c].job # None
    /\ \A s \in Stops : stops[s].pc \in StopPCs /\ stops[s].left \subseteq Conns
    /\ upsets \in 0..MaxUpsets /\ messages \in 0..MaxMessages

(* The map of connections holds, under its own id, each connection between *)
(* its registration and its cleanup, and nothing else (handleConnection):  *)
(* otherwise Stop misses one, or one goroutine deletes another's entry.    *)
RegistryExact ==
    /\ \A n \in DOMAIN registry : conns[registry[n]].id = n
    /\ Range(registry) = {c \in Conns : conns[c].pc \in Registered}

ProvenBy(entries) ==
    \A c \in Conns : conns[c].label # None =>
        \E e \in entries : e.identity = conns[c].label /\ e.key = KeyOf[c]

(* A connection that handshook as an agent belongs to a client holding a   *)
(* key that was stored for that very identity, by InitOwner, a             *)
(* registration, a WRITE or an EXECUTE, whatever was stored or             *)
(* re-initiated while the challenge was out (handleAuthInit,               *)
(* handleAuthResponse).                                                    *)
IdentityProven == ProvenBy(enrolled \cup written)

(* ServiceKeys.cfg: only InitOwner and a registration store a key the      *)
(* handshake accepts (the comment on RegisterAgent, invite.go:143-149).    *)
(* The code fails it: an EXECUTE writes keys without a permission check    *)
(* (connection.go:688-695).                                                *)
OnlyEnrolledKeys == ProvenBy(enrolled)

Spent(t, exceptions) ==
    \/ \E e \in enrolled : e.token = t
    \/ \E c \in Conns : At(c, "consumed") /\ conns[c].job.token = t
    \/ t \in exceptions

(* An invite is redeemed only for an enrolment: a redeemed token has       *)
(* stored a key, or is about to, unless the tree refused the key or the    *)
(* key was empty.  A name taken between the check and the store does not   *)
(* waste it (RegisterAgent: "so a name clash does not burn the invite").   *)
InvitesEnrol == \A t \in redeemed : Spent(t, burnt)

(* ServiceInvites.cfg, where no write fails: the same without exceptions.  *)
(* The code fails it: the check that a key is given (invite.go:157) never  *)
(* sees the empty key of a REGISTER, which is no nil (connection.go:229).  *)
InvitesNeverBurn == \A t \in redeemed : Spent(t, {})

(* ServiceInvites.cfg: "the same token cannot be redeemed twice"           *)
(* (invite.go:93-95).  The code fails it: two registrations both read the  *)
(* mark before either has written it.                                      *)
InvitesEnrolOnce ==
    \A e, f \in enrolled : e.token = f.token /\ e.token # None => e = f

(* Nobody is left waiting: once a call of Stop has walked the map, a       *)
(* goroutine that waits for a client's message waits on a closed socket,   *)
(* so it ends.  A connection accepted while Stop closes things down is in  *)
(* the map before the walk, or sees the cancelled context after it         *)
(* (Service.Stop, handleConnection, Connection.Start).                     *)
NobodyLeftWaiting ==
    (\E s \in Stops : stops[s].pc \in {"walked", "returned"}) =>
        \A c \in Conns : At(c, "reading") => conns[c].closed
=============================================================================
