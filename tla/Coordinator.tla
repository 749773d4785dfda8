---------------------------- MODULE Coordinator ----------------------------
(***************************************************************************)
(* The coordinator runtime (net.cpp): the single-threaded session loop of  *)
(* ProvenanceServer, the request/response clients that connect to it, and  *)
(* the main thread of rp_coordinator, which advances the epoch and stops   *)
(* the server while the loop runs.                                         *)
(*                                                                         *)
(* Of the store only the publisher registry, the epoch and the set of      *)
(* committed requests are kept; ProvenanceStore models the rest.  A store  *)
(* call is one step here; CommitRace splits it at its locks.               *)
(*                                                                         *)
(* Bytes are abstracted to the two halves of a frame: a peer can stop      *)
(* between them.  The order in which the loop walks its session vector is  *)
(* left open.  Steps on different sockets commute, so one pass of recv or  *)
(* of the probe over all sessions is one step.                             *)
(***************************************************************************)
EXTENDS Integers, Sequences, FiniteSets

CONSTANTS
    Conns,          \* connections; each is opened at most once
    Identities,     \* <<PublisherId, WorkerBootId>> pairs
    Coord,          \* the identity of the coordinator itself
    None,           \* an unset identity
    Script,         \* Script[c][k]: what the k-th request of c may be
    MaxEpoch,       \* bound: coordinator epochs
    MaxSessions,    \* Limits::max_sessions
    MaxPublishers,  \* Limits::max_publishers
    MaxAge          \* max_frame_assembly_ms, in ticks of the loop

VARIABLES
    store,           \* epoch, publisher registry and committed requests
    authority,       \* the epoch in options.coordinator_authority
    lapsed,          \* history: boots whose fence at the end was refused
    phase,           \* where the loop is in its tick
    todo,            \* sessions the frame pass has not reached yet
    serving,         \* the session the frame pass is at
    sess,            \* SessionState of each connection
    active_sessions,
    stop_requested,
    main,            \* the main thread: its position and the epoch it sets
    link,            \* the two directions of each socket
    client           \* ProvenanceClient of each connection

serverVars == <<phase, todo, serving, sess, active_sessions>>
mainVars   == <<authority, stop_requested, main>>
vars == <<store, authority, lapsed, phase, todo, serving, sess,
          active_sessions, stop_requested, main, link, client>>

-----------------------------------------------------------------------------
(* Frames, sockets and sessions *)

Epochs == 0..MaxEpoch
Ids    == [who : Identities \cup {None}, epoch : Epochs]
NoId   == [who |-> None, epoch |-> 0]

Messages == {"Hello", "Publish", "Epoch", "Fence", "Query", "Ping", "Bye",
             "Damaged"}

\* A request carries the identity that a Hello presents, the epoch that a
\* notification announces or the boot that a fence names.  Its sender may
\* stall half way.  An unset identity is refused everywhere and not sent.
Requests ==
    {r \in [msg : Messages, arg : Ids, stalls : BOOLEAN] :
        r.msg \in {"Hello", "Fence"} => r.arg.who # None}

ASSUME CoordinatorAssumption ==
    /\ IsFiniteSet(Conns) /\ None \notin Conns
    /\ Script \in [Conns -> Seq(SUBSET Requests)]
    /\ Coord \in Identities /\ None \notin Identities
    /\ MaxEpoch \in Nat \ {0} /\ MaxAge \in Nat
    /\ MaxSessions \in Nat \ {0} /\ MaxPublishers \in Nat \ {0}

\* n numbers the requests of a connection for the properties only: a frame
\* carries nothing that ties an answer to its request.  from is the identity
\* in the frame header.
Frames == [msg : Messages, n : Nat, from : Ids, arg : Ids]

Tokens == [part : {"head", "tail"}, frame : Frames]

Head_(f) == [part |-> "head", frame |-> f]
Tail_(f) == [part |-> "tail", frame |-> f]

Answer(kind, n, ok) == [kind |-> kind, n |-> n, ok |-> ok]

Answers == [kind : {"HelloAck", "Result", "Error", "Pong"},
            n : Nat, ok : BOOLEAN]

NewSession == [st |-> "open", input |-> <<>>, assembling |-> FALSE,
               age |-> 0, registered |-> FALSE, closing |-> FALSE,
               id |-> NoId]

NewClient == [st |-> "new", id |-> NoId, sent |-> 0, ask |-> None,
              late |-> FALSE]

SessionStates == {"Unknown", "Live", "Fenced"}

Stores == [epoch : 1..MaxEpoch, pubs : [Identities -> SessionStates],
           applied : SUBSET (Conns \X Nat)]

Sessions == [st : {"none", "open", "ended"}, input : Seq(Tokens),
             assembling : BOOLEAN, age : 0..MaxAge, registered : BOOLEAN,
             closing : BOOLEAN, id : Ids]

Commands == [pc : {"idle", "advancing", "joining", "done"}, epoch : Epochs]

Links == [queued : BOOLEAN, up : Seq(Tokens), eof : BOOLEAN,
          down : Seq(Answers), cut : BOOLEAN]

Clients == [st : {"new", "open", "sending", "wait", "gone"}, id : Ids,
            sent : Nat, ask : Frames \cup {None}, late : BOOLEAN]

Open == {c \in Conns : sess[c].st = "open"}

Queued == {c \in Conns : link[c].queued}

Init ==
    /\ store = [epoch |-> 1,
                pubs |-> [w \in Identities |->
                             IF w = Coord THEN "Live" ELSE "Unknown"],
                applied |-> {}]
    /\ authority = 1
    /\ lapsed = {}
    /\ phase = "frames"
    /\ todo = {}
    /\ serving = None
    /\ sess = [c \in Conns |-> [NewSession EXCEPT !.st = "none"]]
    /\ active_sessions = 0
    /\ stop_requested = FALSE
    /\ main = [pc |-> "idle", epoch |-> 0]
    /\ link = [c \in Conns |-> [queued |-> FALSE, up |-> <<>>, eof |-> FALSE,
                                down |-> <<>>, cut |-> FALSE]]
    /\ client = [c \in Conns |-> NewClient]

-----------------------------------------------------------------------------
(* The store as the server uses it *)

Live(w) == store.pubs[w] = "Live"

\* Mutant: the epoch the caller registered under is not compared.
Authorized_AnyEpoch(id) == id.who # None /\ Live(id.who)

Authorized(id) == id.epoch = store.epoch /\ id.who # None /\ Live(id.who)

Registered == {w \in Identities : store.pubs[w] # "Unknown"}

CanRegister(w, e) ==
    /\ e = store.epoch
    /\ store.pubs[w] # "Fenced"
    /\ Cardinality(Registered) < MaxPublishers

\* A new boot fences the live older boots of its publisher.
AfterRegister(w) ==
    [store EXCEPT !.pubs = [v \in Identities |->
                               IF v = w THEN "Live"
                               ELSE IF v[1] = w[1] /\ Live(v) THEN "Fenced"
                               ELSE store.pubs[v]]]

AfterFence(w) == [store EXCEPT !.pubs[w] = "Fenced"]

-----------------------------------------------------------------------------
(* The client *)

Connect(c) ==
    /\ client[c].st = "new"
    /\ main.pc # "done"
    /\ client' = [client EXCEPT ![c].st = "open"]
    /\ link' = [link EXCEPT ![c].queued = TRUE]
    /\ UNCHANGED <<store, lapsed, serverVars, mainVars>>

\* What is written to a socket the server closed is lost.
Written(c, tokens) ==
    IF link[c].cut THEN link ELSE [link EXCEPT ![c].up = @ \o tokens]

\* exchange: the request is sent completely, or only its first half so far.
Send(c, r) ==
    LET f == [msg |-> r.msg, n |-> client[c].sent + 1,
              from |-> client[c].id, arg |-> r.arg]
    IN /\ client[c].st = "open"
       /\ link' = Written(c, IF r.stalls THEN <<Head_(f)>>
                             ELSE <<Head_(f), Tail_(f)>>)
       /\ client' = [client EXCEPT
                        ![c].st = IF r.stalls THEN "sending" ELSE "wait",
                        ![c].sent = @ + 1, ![c].ask = f]
       /\ UNCHANGED <<store, lapsed, serverVars, mainVars>>

SendRest(c) ==
    /\ client[c].st = "sending"
    /\ link' = Written(c, <<Tail_(client[c].ask)>>)
    /\ client' = [client EXCEPT ![c].st = "wait"]
    /\ UNCHANGED <<store, lapsed, serverVars, mainVars>>

\* exchange takes the next frame that arrives for the answer.  Only a Hello
\* that is acknowledged sets the identity of later frames.
Receive(c) ==
    /\ client[c].st = "wait"
    /\ link[c].down # <<>>
    /\ LET a == Head(link[c].down)
           f == client[c].ask
           acked == f.msg = "Hello" /\ a.kind = "HelloAck" /\ a.ok
       IN client' = [client EXCEPT
                        ![c].st = "open", ![c].ask = None,
                        ![c].id = IF acked
                                  THEN f.arg ELSE @]
    /\ link' = [link EXCEPT ![c].down = Tail(@)]
    /\ UNCHANGED <<store, lapsed, serverVars, mainVars>>

\* The exchange budget runs out, while sending or while waiting.  The client
\* stays connected, and an answer that still comes is the next one's.
Timeout(c) ==
    /\ client[c].st \in {"sending", "wait"}
    /\ client' = [client EXCEPT ![c].st = "open", ![c].ask = None,
                                 ![c].late = TRUE]
    /\ UNCHANGED <<store, lapsed, serverVars, mainVars, link>>

\* "coordinator closed the session"; no later exchange of this connection can
\* succeed.
SessionLost(c) ==
    /\ client[c].st = "wait"
    /\ link[c].cut /\ link[c].down = <<>>
    /\ client' = [client EXCEPT ![c] = [NewClient EXCEPT !.st = "gone"]]
    /\ UNCHANGED <<store, lapsed, serverVars, mainVars, link>>

\* close, or the end of the process: a reset also discards what the server
\* has not read.
Disconnect(c) ==
    /\ client[c].st \in {"open", "sending", "wait"}
    /\ client' = [client EXCEPT ![c] = [NewClient EXCEPT !.st = "gone"]]
    /\ \E reset \in BOOLEAN :
          link' = [link EXCEPT ![c].eof = TRUE, ![c].down = <<>>,
                               ![c].up = IF reset THEN <<>> ELSE @]
    /\ UNCHANGED <<store, lapsed, serverVars, mainVars>>

ClientStep ==
    \E c \in Conns :
        \/ Connect(c)
        \/ /\ client[c].sent < Len(Script[c])
           /\ \E r \in Script[c][client[c].sent + 1] : Send(c, r)
        \/ SendRest(c) \/ Receive(c) \/ Timeout(c) \/ SessionLost(c)
        \/ Disconnect(c)

-----------------------------------------------------------------------------
(* The session loop: select, accept, read and probe *)

\* Every frame was handled and every closing session closed.
TickEnded ==
    phase = "frames" /\ todo = {} /\ \A c \in Open : ~sess[c].closing

\* One pass of select, accept and recv.  Connections beyond max_sessions are
\* closed at once.  A peer whose end of stream is read is closing before the
\* frames it sent last are looked at.  A session accepted in this pass is not
\* read in it.
Select ==
    /\ TickEnded /\ ~stop_requested
    /\ \E accepted \in SUBSET Queued :
          /\ Cardinality(accepted) =
                LET room == MaxSessions - Cardinality(Open)
                IN IF Cardinality(Queued) <= room THEN Cardinality(Queued)
                   ELSE room
          /\ sess' = [c \in Conns |->
                         IF c \in accepted THEN NewSession
                         ELSE IF c \in Open
                         THEN [sess[c] EXCEPT
                                  !.input = @ \o link[c].up,
                                  !.closing = @ \/ link[c].eof]
                         ELSE sess[c]]
          /\ link' = [c \in Conns |->
                         [link[c] EXCEPT
                             !.queued = FALSE,
                             !.up = IF c \in Open THEN <<>> ELSE @,
                             !.cut = @ \/ c \in Queued \ accepted]]
          /\ active_sessions' = active_sessions + Cardinality(accepted)
    /\ phase' = "probe"
    /\ UNCHANGED <<store, lapsed, todo, serving, mainVars, client>>

\* The one-byte peek of every session: a peer that closed since the read, with
\* nothing left to read, is closing, and what was read from it is dropped.
\* The frame pass has something to do for the other sessions with input.
Probe ==
    /\ phase = "probe"
    /\ sess' = [c \in Conns |->
                   IF c \in Open
                   THEN [sess[c] EXCEPT
                            !.closing = \/ @
                                        \/ link[c].eof /\ link[c].up = <<>>]
                   ELSE sess[c]]
    /\ phase' = "frames"
    /\ todo' = {c \in Open : sess[c].input # <<>> /\ ~sess'[c].closing}
    /\ UNCHANGED <<store, lapsed, serving, active_sessions, mainVars, link,
                   client>>

-----------------------------------------------------------------------------
(* handle_frame *)

\* The first complete frame of the input of c is taken off and handled.
FirstFrame(c) == sess[c].input[1].frame

\* A half frame followed by another frame does not decode.
Decodes(c) ==
    /\ sess[c].input[2] = Tail_(FirstFrame(c))
    /\ FirstFrame(c).msg # "Damaged"

\* The session after a frame was taken off its input.
Taken(c) == [sess[c] EXCEPT !.input = SubSeq(@, 3, Len(@)),
                            !.assembling = FALSE]

\* What was sent to a peer that is gone is lost.
Sent(c, a) ==
    IF link[c].eof THEN link
    ELSE [link EXCEPT ![c].down = Append(@, a)]

AtFrame(c) ==
    /\ phase = "frames" /\ c \in todo /\ serving \in {None, c}
    /\ Len(sess[c].input) >= 2

\* The session becomes s; the pass stays with it until its input is used up
\* or it is closing.
Becomes(c, s) ==
    LET more == s.input # <<>> /\ ~s.closing
    IN /\ sess' = [sess EXCEPT ![c] = s]
       /\ serving' = IF more THEN c ELSE None
       /\ todo' = IF more THEN todo ELSE todo \ {c}
       /\ UNCHANGED <<phase, active_sessions, lapsed, mainVars, client>>

Handles(c, msgs) ==
    AtFrame(c) /\ Decodes(c) /\ FirstFrame(c).msg \in msgs

\* A frame with bad magic or size ends the session silently, one that fails
\* its digest or header checks with an error.
RefuseFrame(c) ==
    /\ AtFrame(c) /\ ~Decodes(c)
    /\ Becomes(c, [Taken(c) EXCEPT !.closing = TRUE])
    /\ link' \in {link, Sent(c, Answer("Error", FirstFrame(c).n, FALSE))}
    /\ UNCHANGED store

HandlePing(c) ==
    /\ Handles(c, {"Ping"})
    /\ Becomes(c, Taken(c))
    /\ link' = Sent(c, Answer("Pong", FirstFrame(c).n, TRUE))
    /\ UNCHANGED store

HandleBye(c) ==
    /\ Handles(c, {"Bye"})
    /\ Becomes(c, [Taken(c) EXCEPT !.closing = TRUE])
    /\ UNCHANGED <<store, link>>

\* Mutant: a refused registration is neither answered nor closed.
HandleHello_Silent(c) ==
    LET f  == FirstFrame(c)
        ok == CanRegister(f.arg.who, f.arg.epoch)
    IN /\ Handles(c, {"Hello"})
       /\ store' = IF ok THEN AfterRegister(f.arg.who) ELSE store
       /\ Becomes(c, IF ok THEN [Taken(c) EXCEPT !.registered = TRUE,
                                                 !.id = f.arg]
                     ELSE Taken(c))
       /\ link' = IF ok THEN Sent(c, Answer("HelloAck", f.n, ok)) ELSE link

\* A refused registration ends the session, and so does an acknowledgement
\* that cannot be sent.  A second Hello replaces the identity.
HandleHello(c) ==
    LET f  == FirstFrame(c)
        ok == CanRegister(f.arg.who, f.arg.epoch)
    IN /\ Handles(c, {"Hello"})
       /\ store' = IF ok THEN AfterRegister(f.arg.who) ELSE store
       /\ \E failed \in {FALSE, link[c].eof} :
             Becomes(c, IF ok THEN [Taken(c) EXCEPT !.registered = TRUE,
                                                    !.id = f.arg,
                                                    !.closing = failed]
                        ELSE [Taken(c) EXCEPT !.closing = TRUE])
       /\ link' = Sent(c, Answer("HelloAck", f.n, ok))

\* The frame comes from the identity the session registered.
Matches(c) == sess[c].registered /\ FirstFrame(c).from.who = sess[c].id.who

NeedsSession == {"Publish", "Epoch", "Fence", "Query"}

RefuseRequest(c) ==
    /\ Handles(c, NeedsSession)
    /\ ~Matches(c)
    /\ Becomes(c, [Taken(c) EXCEPT !.closing = TRUE])
    /\ link' = Sent(c, Answer("Error", FirstFrame(c).n, FALSE))
    /\ UNCHANGED store

Serves(c, m) == Handles(c, {m}) /\ Matches(c) /\ Becomes(c, Taken(c))

\* Mutant: the answer does not wait for the outcome of the store.
HandlePublish_ReportsEarly(c) ==
    /\ Serves(c, "Publish")
    /\ \E ok \in {FALSE, Authorized(sess[c].id)} :
          /\ store' = IF ok
                      THEN [store EXCEPT
                               !.applied = @ \cup {<<c, FirstFrame(c).n>>}]
                      ELSE store
          /\ link' = Sent(c, Answer("Result", FirstFrame(c).n, TRUE))

\* Publications, administrative actions, corrections, declarations and links:
\* the store commits the request or refuses it, by its own rules too.  The
\* identity the store sees is the session's, not the payload's.
HandlePublish(c) ==
    /\ Serves(c, "Publish")
    /\ \E ok \in {FALSE, Authorized(sess[c].id)} :
          /\ store' = IF ok
                      THEN [store EXCEPT
                               !.applied = @ \cup {<<c, FirstFrame(c).n>>}]
                      ELSE store
          /\ link' = Sent(c, Answer("Result", FirstFrame(c).n, ok))

HandleNotify(c) ==
    LET e  == FirstFrame(c).arg.epoch
        ok == Authorized(sess[c].id) /\ e > store.epoch
    IN /\ Serves(c, "Epoch")
       /\ store' = IF ok THEN [store EXCEPT !.epoch = e] ELSE store
       /\ link' = Sent(c, Answer("Result", FirstFrame(c).n, ok))

\* The authority of a fence is the one in its payload, which the client
\* library fills in with its own identity.  Its scope, like that of a
\* notification, is the fabric-wide one that client_scope has by default.
HandleFence(c) ==
    LET w  == FirstFrame(c).arg.who
        ok == Authorized(FirstFrame(c).from) /\ store.pubs[w] # "Unknown"
    IN /\ Serves(c, "Fence")
       /\ store' = IF ok THEN AfterFence(w) ELSE store
       /\ link' = Sent(c, Answer("Result", FirstFrame(c).n, ok))

\* A result larger than max_frame_bytes is dropped: no answer is sent.
HandleQuery(c) ==
    /\ Serves(c, "Query")
    /\ \/ \E ok \in BOOLEAN :
             link' = Sent(c, Answer("Result", FirstFrame(c).n, ok))
       \/ link' = link
    /\ UNCHANGED store

-----------------------------------------------------------------------------
(* The end of a tick *)

\* Mutant: the assembly clock restarts at every tick.
AwaitRest_Restarts(c) ==
    /\ phase = "frames" /\ c \in todo /\ serving \in {None, c}
    /\ Len(sess[c].input) = 1
    /\ sess' = [sess EXCEPT ![c].assembling = TRUE, ![c].age = 0]
    /\ todo' = todo \ {c}
    /\ serving' = None
    /\ UNCHANGED <<store, lapsed, phase, active_sessions, mainVars, link,
                   client>>

\* Only a part of a frame is left.  The assembly clock runs from the first
\* tick that saw it; a frame that stays incomplete past max_frame_assembly_ms
\* ends the session.
AwaitRest(c) ==
    LET s   == sess[c]
        age == IF s.assembling THEN s.age + 1 ELSE 0
    IN /\ phase = "frames" /\ c \in todo /\ serving \in {None, c}
       /\ Len(s.input) = 1
       /\ sess' = [sess EXCEPT
                      ![c].assembling = TRUE,
                      ![c].age = IF age > MaxAge THEN 0 ELSE age,
                      ![c].closing = age > MaxAge]
       /\ todo' = todo \ {c}
       /\ serving' = None
       /\ UNCHANGED <<store, lapsed, phase, active_sessions, mainVars, link,
                      client>>

\* Mutant: the session is not taken off the counter.
close_session_KeepsCount(c) ==
    /\ sess' = [sess EXCEPT ![c] = [NewSession EXCEPT !.st = "ended"]]
    /\ store' = IF sess[c].registered THEN AfterFence(sess[c].id.who)
                ELSE store
    /\ link' = [link EXCEPT ![c].cut = TRUE, ![c].up = <<>>]
    /\ UNCHANGED <<lapsed, active_sessions>>

\* close_session: the fence is refused when the coordinator's own authority is
\* not the current one, and nobody looks at the refusal.  Closing a socket
\* with unread input resets it, and answers still under way are lost.
close_session(c) ==
    LET w      == sess[c].id.who
        fences == sess[c].registered /\ Authorized([who |-> Coord,
                                                    epoch |-> authority])
    IN /\ sess' = [sess EXCEPT ![c] = [NewSession EXCEPT !.st = "ended"]]
       /\ store' = IF fences THEN AfterFence(w) ELSE store
       /\ lapsed' = IF sess[c].registered /\ ~fences THEN lapsed \cup {w}
                    ELSE lapsed
       /\ active_sessions' = active_sessions - 1
       /\ \E lost \in {FALSE, link[c].up # <<>>} :
             link' = [link EXCEPT ![c].cut = TRUE, ![c].up = <<>>,
                                  ![c].down = IF lost THEN <<>> ELSE @]

CloseSession(c) ==
    /\ phase = "frames" /\ todo = {}
    /\ c \in Open /\ sess[c].closing
    /\ close_session(c)
    /\ UNCHANGED <<phase, todo, serving, mainVars, client>>

\* The loop ends on request or when select fails; what is left is closed.
LeaveLoop ==
    /\ TickEnded
    /\ phase' = "drain"
    /\ UNCHANGED <<store, lapsed, todo, serving, sess, active_sessions,
                   mainVars, link, client>>

\* Mutant: sessions that are open when the loop ends are not fenced.
DrainSession_NoFence(c) ==
    /\ phase = "drain"
    /\ c \in Open
    /\ sess' = [sess EXCEPT ![c] = [NewSession EXCEPT !.st = "ended"]]
    /\ active_sessions' = active_sessions - 1
    /\ link' = [link EXCEPT ![c].cut = TRUE, ![c].up = <<>>]
    /\ UNCHANGED <<store, lapsed, phase, todo, serving, mainVars, client>>

\* Mutant: only sessions already marked closing are closed.
DrainSession_OnlyClosing(c) ==
    /\ phase = "drain"
    /\ c \in Open /\ sess[c].closing
    /\ close_session(c)
    /\ UNCHANGED <<phase, todo, serving, mainVars, client>>

DrainSession(c) ==
    /\ phase = "drain"
    /\ c \in Open
    /\ close_session(c)
    /\ UNCHANGED <<phase, todo, serving, mainVars, client>>

EndLoop ==
    /\ phase = "drain"
    /\ Open = {}
    /\ phase' = "stopped"
    /\ UNCHANGED <<store, lapsed, todo, serving, sess, active_sessions,
                   mainVars, link, client>>

ServerStep ==
    \/ Select \/ Probe \/ LeaveLoop \/ EndLoop
    \/ \E c \in Conns :
          \/ RefuseFrame(c) \/ HandlePing(c) \/ HandleBye(c) \/ HandleHello(c)
          \/ RefuseRequest(c) \/ HandlePublish(c) \/ HandleNotify(c)
          \/ HandleFence(c) \/ HandleQuery(c)
          \/ AwaitRest(c) \/ CloseSession(c) \/ DrainSession(c)

-----------------------------------------------------------------------------
(* The main thread *)

\* ProvenanceServer::advance_epoch: the store moves first, the authority of
\* the server's own fences in a second step.
AdvanceStore(e) ==
    /\ main.pc = "idle" /\ phase # "stopped"
    /\ Authorized([who |-> Coord, epoch |-> authority])
    /\ e > store.epoch
    /\ store' = [store EXCEPT !.epoch = e]
    /\ main' = [pc |-> "advancing", epoch |-> e]
    /\ UNCHANGED <<lapsed, serverVars, authority, stop_requested, link,
                   client>>

AdvanceAuthority ==
    /\ main.pc = "advancing"
    /\ authority' = main.epoch
    /\ main' = [pc |-> "idle", epoch |-> 0]
    /\ UNCHANGED <<store, lapsed, serverVars, stop_requested, link, client>>

Stop ==
    /\ main.pc = "idle"
    /\ stop_requested' = TRUE
    /\ main' = [main EXCEPT !.pc = "joining"]
    /\ UNCHANGED <<store, lapsed, serverVars, authority, link, client>>

\* The loop thread was joined; closing the listener drops the connections
\* nobody accepted.
Joined ==
    /\ main.pc = "joining" /\ phase = "stopped"
    /\ main' = [main EXCEPT !.pc = "done"]
    /\ link' = [c \in Conns |-> [link[c] EXCEPT !.queued = FALSE,
                                                !.cut = @ \/ c \in Queued]]
    /\ UNCHANGED <<store, lapsed, serverVars, authority, stop_requested,
                   client>>

MainStep ==
    \/ \E e \in 1..MaxEpoch : AdvanceStore(e)
    \/ AdvanceAuthority \/ Stop \/ Joined

Next == ClientStep \/ ServerStep \/ MainStep

Spec == Init /\ [][Next]_vars

\* The loop thread runs; the main thread finishes the command it is at.
FairSpec ==
    /\ Spec
    /\ WF_vars(ServerStep)
    /\ WF_vars(AdvanceAuthority)
    /\ WF_vars(Joined)

-----------------------------------------------------------------------------
(* Invariants *)

\* Every piece of the runtime stays well formed, whatever peers send.
TypeOK ==
    /\ store \in Stores
    /\ authority \in 1..MaxEpoch
    /\ lapsed \subseteq Identities
    /\ phase \in {"probe", "frames", "drain", "stopped"}
    /\ todo \subseteq Conns
    /\ serving \in Conns \cup {None}
    /\ sess \in [Conns -> Sessions]
    /\ active_sessions \in Nat
    /\ stop_requested \in BOOLEAN
    /\ main \in Commands
    /\ link \in [Conns -> Links]
    /\ client \in [Conns -> Clients]

\* The session counter is the number of open sessions and never exceeds
\* max_sessions: no connection is counted twice, and the peek, the end of the
\* stream, Bye and the assembly timeout together close a session once.
SessionsCounted ==
    /\ active_sessions = Cardinality(Open)
    /\ active_sessions <= MaxSessions

\* A worker boot is live only while a session that registered it is open,
\* however that session ends: end of stream, reset, Bye, a damaged or stalled
\* frame, a refused Hello, or the end of the loop.  The exception is a fence
\* that was refused because the coordinator's authority had lapsed.  A session
\* says Hello once here, or again for its own publisher: a second Hello for
\* another publisher replaces the identity and leaves the first boot live.
LiveBootHasSession ==
    \A w \in Identities \ {Coord} :
        Live(w) => \/ w \in lapsed
                   \/ \E c \in Open : sess[c].registered /\ sess[c].id.who = w

\* A client whose exchanges all completed gets the answer to the request it
\* sent, and a publication it is told was committed was committed, although
\* answers carry no request number.
AnswersMatch ==
    \A c \in Conns :
        client[c].st = "wait" /\ link[c].down # <<>> /\ ~client[c].late =>
            LET a == Head(link[c].down) IN
            /\ a.n = client[c].ask.n
            /\ client[c].ask.msg = "Publish" /\ a.ok =>
                  <<c, a.n>> \in store.applied

\* The README's promise: "A session that ends - by clean disconnect or by
\* process death - fences that worker boot permanently", so no boot is live
\* without a session, the lapses of the coordinator's authority included.
EndedSessionIsFenced ==
    \A w \in Identities \ {Coord} :
        Live(w) => \E c \in Open : sess[c].registered /\ sess[c].id.who = w

-----------------------------------------------------------------------------
(* Action and temporal properties *)

\* Frames received before an epoch advance, a fence or a reincarnation of their
\* boot commit nothing when they are handled after it: a request is committed
\* only on an open session that registered under the epoch the store is in now,
\* whose boot is live and sent the frame; a boot that was fenced stays fenced.
\* A boot whose closing fence was refused is not fenced: see EndedSessionIsFenced.
FencedCommitsNothing ==
    [][/\ \A w \in Identities :
             store.pubs[w] = "Fenced" => store.pubs'[w] = "Fenced"
       /\ \A r \in store'.applied \ store.applied :
             LET c == r[1] IN
             /\ sess[c].st = "open" /\ sess[c].registered
             /\ sess[c].id.epoch = store.epoch
             /\ Live(sess[c].id.who)
             /\ FirstFrame(c).from.who = sess[c].id.who]_vars

Incomplete(c) == sess[c].st = "open" /\ Len(sess[c].input) = 1

\* A peer that stalls inside a frame does not hold its session for ever.
StalledPeerIsClosed == \A c \in Conns : Incomplete(c) ~> ~Incomplete(c)

\* A request that was sent completely is answered, or its session is closed
\* under it, without the help of the client's timeout.  A result that is too
\* large and a loop that has ended are the exceptions.
RequestIsAnswered ==
    \A c \in Conns :
        (client[c].st = "wait" /\ client[c].ask.msg # "Query")
            ~> (client[c].st # "wait" \/ link[c].down # <<>> \/ link[c].cut
                \/ phase = "stopped")

\* A stop request ends the loop, with every session closed.
StopEndsLoop == stop_requested ~> main.pc = "done" /\ Open = {}

=============================================================================
