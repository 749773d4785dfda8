-------------------------- MODULE Coordinator_proofs --------------------------
(***************************************************************************)
(* Proofs about Coordinator, for every number of connections and every     *)
(* script: its types, SessionsCounted, FencedCommitsNothing, AnswersMatch,  *)
(* and LiveBootHasSession where a connection says Hello for one publisher. *)
(***************************************************************************)
EXTENDS Coordinator, FiniteSetTheorems, SequenceTheorems, TLAPS

\* What connection c may send, and the identities it presents.
Asked(c) == UNION {Script[c][k] : k \in 1..Len(Script[c])}

Hellos(c) == {r.arg : r \in {q \in Asked(c) : q.msg = "Hello"}}

FramesOf(c) == {f \in Frames : f.msg = "Hello" => f.arg \in Hellos(c)}

TokensOf(c) == {t \in Tokens : t.frame \in FramesOf(c)}

\* The states of c with the frames that c may send.
SessionsOf(c) ==
    {s \in Sessions : /\ s.input \in Seq(TokensOf(c))
                      /\ s.registered => s.id \in Hellos(c)}

LinksOf(c) == {k \in Links : k.up \in Seq(TokensOf(c))}

ClientsOf(c) ==
    {k \in Clients : k.st \in {"sending", "wait"} => k.ask \in FramesOf(c)}

StoreTyped == store \in Stores /\ lapsed \subseteq Identities

MainTyped ==
    /\ authority \in 1..MaxEpoch
    /\ stop_requested \in BOOLEAN
    /\ main \in Commands
    /\ main.pc = "advancing" => main.epoch \in 1..MaxEpoch

LoopTyped ==
    /\ phase \in {"probe", "frames", "drain", "stopped"}
    /\ todo \subseteq Conns
    /\ serving \in Conns \cup {None}

SessTyped ==
    sess \in [Conns -> Sessions] /\ \A c \in Conns : sess[c] \in SessionsOf(c)

LinkTyped ==
    link \in [Conns -> Links] /\ \A c \in Conns : link[c] \in LinksOf(c)

ClientTyped ==
    /\ client \in [Conns -> Clients]
    /\ \A c \in Conns : client[c] \in ClientsOf(c)

\* TypeOK except for the session counter, strengthened.
Typed ==
    /\ StoreTyped /\ MainTyped /\ LoopTyped
    /\ SessTyped /\ LinkTyped /\ ClientTyped

-----------------------------------------------------------------------------
(* Types *)

\* The bounds are numbers.
LEMMA Bounds ==
    /\ MaxEpoch \in Nat \ {0} /\ MaxAge \in Nat /\ MaxSessions \in Nat \ {0}
    /\ Coord \in Identities /\ None \notin Identities /\ None \notin Conns
    /\ IsFiniteSet(Conns)
  BY CoordinatorAssumption

\* What a script asks for are requests.
LEMMA AskedRequests ==
    ASSUME NEW c \in Conns
    PROVE  Asked(c) \subseteq Requests
<1>1. Script[c] \in Seq(SUBSET Requests)
  BY CoordinatorAssumption
<1>2. \A k \in 1..Len(Script[c]) : Script[c][k] \in SUBSET Requests
  BY <1>1
<1> QED
  BY <1>2 DEF Asked

\* A Hello presents an identity.
LEMMA HelloIds ==
    ASSUME NEW c \in Conns, NEW i \in Hellos(c)
    PROVE  i \in Ids /\ i.who \in Identities
<1>1. PICK r \in Asked(c) : r.msg = "Hello" /\ i = r.arg
  BY DEF Hellos
<1>2. r \in Requests
  BY <1>1, AskedRequests
<1> QED
  BY <1>1, <1>2 DEF Requests, Ids

\* A session, a socket or a client is replaced by a well-formed one.
LEMMA SessUpdate ==
    ASSUME SessTyped, NEW c \in Conns, NEW s \in SessionsOf(c),
           sess' = [sess EXCEPT ![c] = s]
    PROVE  SessTyped'
<1>1. s \in Sessions
  BY DEF SessionsOf
<1>2. \A d \in Conns : sess'[d] = IF d = c THEN s ELSE sess[d]
  BY DEF SessTyped
<1>3. sess' \in [Conns -> Sessions]
  BY <1>1 DEF SessTyped
<1> QED
  BY <1>2, <1>3 DEF SessTyped

\* The same for sockets.
LEMMA LinkUpdate ==
    ASSUME LinkTyped, NEW c \in Conns, NEW k \in LinksOf(c),
           link' = [link EXCEPT ![c] = k]
    PROVE  LinkTyped'
<1>1. k \in Links
  BY DEF LinksOf
<1>2. \A d \in Conns : link'[d] = IF d = c THEN k ELSE link[d]
  BY DEF LinkTyped
<1>3. link' \in [Conns -> Links]
  BY <1>1 DEF LinkTyped
<1> QED
  BY <1>2, <1>3 DEF LinkTyped

\* The same for clients.
LEMMA ClientUpdate ==
    ASSUME ClientTyped, NEW c \in Conns, NEW k \in ClientsOf(c),
           client' = [client EXCEPT ![c] = k]
    PROVE  ClientTyped'
<1>1. k \in Clients
  BY DEF ClientsOf
<1>2. \A d \in Conns : client'[d] = IF d = c THEN k ELSE client[d]
  BY DEF ClientTyped
<1>3. client' \in [Conns -> Clients]
  BY <1>1 DEF ClientTyped
<1> QED
  BY <1>2, <1>3 DEF ClientTyped

\* New and ended sessions, and clients without a request.
LEMMA NewTyped ==
    ASSUME NEW c \in Conns
    PROVE  /\ NoId \in Ids
           /\ NewSession \in SessionsOf(c)
           /\ \A st \in {"none", "open", "ended"} :
                 [NewSession EXCEPT !.st = st] \in SessionsOf(c)
           /\ \A st \in {"new", "gone"} :
                 [NewClient EXCEPT !.st = st] \in ClientsOf(c)
<1>1. NoId \in Ids
  BY Bounds DEF NoId, Ids, Epochs
<1>2. <<>> \in Seq(TokensOf(c)) /\ <<>> \in Seq(Tokens) /\ 0 \in 0..MaxAge
  BY Bounds
<1>3. \A st \in {"none", "open", "ended"} :
         [NewSession EXCEPT !.st = st] \in Sessions
  BY <1>1, <1>2 DEF NewSession, Sessions
<1>4. \A st \in {"none", "open", "ended"} :
         [NewSession EXCEPT !.st = st] \in SessionsOf(c)
  BY <1>2, <1>3 DEF SessionsOf, NewSession
<1>5. NewSession \in SessionsOf(c)
  BY <1>1, <1>2 DEF NewSession, SessionsOf, Sessions
<1>6. \A st \in {"new", "gone"} : [NewClient EXCEPT !.st = st] \in Clients
  BY <1>1 DEF Clients, NewClient
<1>7. \A st \in {"new", "gone"} :
         [NewClient EXCEPT !.st = st] \in ClientsOf(c)
  BY <1>6 DEF ClientsOf, NewClient
<1> QED
  BY <1>1, <1>4, <1>5, <1>7

\* Init establishes the types.
LEMMA InitTyped == Init => Typed
<1> SUFFICES ASSUME Init PROVE Typed
  OBVIOUS
<1>1. StoreTyped
  BY Bounds DEF Init, StoreTyped, Stores, SessionStates
<1>2. MainTyped /\ LoopTyped
  <2>1. authority \in 1..MaxEpoch /\ main \in Commands
    BY Bounds DEF Init, Commands, Epochs
  <2>2. main.pc # "advancing"
    BY DEF Init
  <2>3. stop_requested \in BOOLEAN
    BY DEF Init
  <2> QED
    BY <2>1, <2>2, <2>3 DEF Init, MainTyped, LoopTyped
<1>3. SessTyped
  <2>1. \A c \in Conns : [NewSession EXCEPT !.st = "none"] \in SessionsOf(c)
    BY NewTyped
  <2>2. \A c \in Conns : [NewSession EXCEPT !.st = "none"] \in Sessions
    BY <2>1 DEF SessionsOf
  <2> QED
    BY <2>1, <2>2 DEF Init, SessTyped
<1>4. LinkTyped
  <2> DEFINE k == [queued |-> FALSE, up |-> <<>>, eof |-> FALSE,
                   down |-> <<>>, cut |-> FALSE]
  <2>1. <<>> \in Seq(Tokens) /\ <<>> \in Seq(Answers)
        /\ \A c \in Conns : <<>> \in Seq(TokensOf(c))
    OBVIOUS
  <2>3. k \in Links /\ k.up = <<>>
    BY <2>1 DEF Links
  <2>2. link = [c \in Conns |-> k]
    BY DEF Init
  <2> HIDE DEF k
  <2> QED
    BY <2>1, <2>2, <2>3 DEF LinkTyped, LinksOf
<1>5. ClientTyped
  <2>1. \A c \in Conns : NewClient \in ClientsOf(c)
    BY NewTyped DEF ClientsOf, Clients, NewClient
  <2>2. \A c \in Conns : NewClient \in Clients
    BY <2>1 DEF ClientsOf
  <2> QED
    BY <2>1, <2>2 DEF Init, ClientTyped
<1> QED
  BY <1>1, <1>2, <1>3, <1>4, <1>5 DEF Typed
-----------------------------------------------------------------------------
(* Types: the client *)

\* Frames of c are frames.
LEMMA TokenSeq ==
    ASSUME NEW c \in Conns
    PROVE  Seq(TokensOf(c)) \subseteq Seq(Tokens)
  BY DEF TokensOf

\* What a client writes to its socket keeps the types.
LEMMA WrittenTyped ==
    ASSUME LinkTyped, NEW c \in Conns, NEW tokens \in Seq(TokensOf(c)),
           link' = Written(c, tokens)
    PROVE  LinkTyped'
<1>1. CASE link[c].cut
  BY <1>1 DEF Written, LinkTyped
<1>2. CASE ~link[c].cut
  <2> DEFINE up == link[c].up \o tokens
             k  == [link[c] EXCEPT !.up = up]
  <2>1. link[c] \in Links /\ link[c].up \in Seq(TokensOf(c))
    BY DEF LinkTyped, LinksOf
  <2>2. up \in Seq(TokensOf(c)) /\ up \in Seq(Tokens)
    BY <2>1, TokenSeq
  <2>3. link' = [link EXCEPT ![c] = k]
    BY <1>2 DEF Written, LinkTyped
  <2> HIDE DEF up
  <2>4. k \in LinksOf(c)
    BY <2>1, <2>2 DEF Links, LinksOf
  <2> HIDE DEF k
  <2> QED
    BY <2>3, <2>4, LinkUpdate
<1> QED
  BY <1>1, <1>2

\* A request that is sent.
LEMMA SendTyped ==
    ASSUME Typed, NEW c \in Conns, NEW r \in Asked(c), Send(c, r)
    PROVE  Typed'
<1> DEFINE f == [msg |-> r.msg, n |-> client[c].sent + 1,
                 from |-> client[c].id, arg |-> r.arg]
           st == IF r.stalls THEN "sending" ELSE "wait"
           m == client[c].sent + 1
           k == [client[c] EXCEPT !.st = st, !.sent = m, !.ask = f]
           tokens == IF r.stalls THEN <<Head_(f)>> ELSE <<Head_(f), Tail_(f)>>
<1>0. client \in [Conns -> Clients] /\ client[c] \in Clients
  BY DEF Typed, ClientTyped
<1>1. f \in FramesOf(c)
  <2>1. r \in Requests
    BY AskedRequests
  <2>2. r.msg = "Hello" => r.arg \in Hellos(c)
    BY DEF Hellos
  <2>3. f \in Frames
    BY <1>0, <2>1 DEF Clients, Requests, Frames
  <2> QED
    BY <2>2, <2>3 DEF FramesOf
<1>2. link' = Written(c, tokens) /\ client' = [client EXCEPT ![c] = k]
  BY <1>0 DEF Send
<1>b. st \in {"sending", "wait"} /\ m \in Nat
  BY <1>0 DEF Clients
<1> HIDE DEF f, st, m
<1>3. Head_(f) \in TokensOf(c) /\ Tail_(f) \in TokensOf(c)
  BY <1>1 DEF Head_, Tail_, TokensOf, Tokens, FramesOf
<1>4. tokens \in Seq(TokensOf(c))
  BY <1>3
<1>5. k \in ClientsOf(c)
  <2>1. f \in Frames
    BY <1>1 DEF FramesOf
  <2>2. k \in Clients
    BY <1>0, <1>b, <2>1 DEF Clients
  <2>3. k.ask = f
    BY <1>0 DEF Clients
  <2> HIDE DEF k
  <2> QED
    BY <1>1, <2>2, <2>3 DEF ClientsOf
<1> HIDE DEF k, tokens
<1>6. LinkTyped' /\ ClientTyped'
  BY <1>2, <1>4, <1>5, WrittenTyped, ClientUpdate DEF Typed
<1> QED
  BY <1>6 DEF Send, Typed, serverVars, mainVars, StoreTyped, MainTyped,
              LoopTyped, SessTyped

\* The other steps of a client.
LEMMA ClientTypedStep ==
    ASSUME Typed, ClientStep
    PROVE  Typed'
<1> SUFFICES ASSUME NEW c \in Conns,
                    \/ Connect(c)
                    \/ /\ client[c].sent < Len(Script[c])
                       /\ \E r \in Script[c][client[c].sent + 1] : Send(c, r)
                    \/ SendRest(c) \/ Receive(c) \/ Timeout(c)
                    \/ SessionLost(c) \/ Disconnect(c)
             PROVE  Typed'
  BY DEF ClientStep
<1>0. /\ client \in [Conns -> Clients] /\ client[c] \in Clients
      /\ client[c] \in ClientsOf(c)
      /\ link \in [Conns -> Links] /\ link[c] \in Links
      /\ link[c].up \in Seq(TokensOf(c))
  BY DEF Typed, ClientTyped, LinkTyped, LinksOf
<1> USE DEF serverVars, mainVars
<1>a. ASSUME UNCHANGED <<store, lapsed, serverVars, mainVars>>,
             LinkTyped', ClientTyped'
      PROVE  Typed'
  BY <1>a DEF Typed, StoreTyped, MainTyped, LoopTyped, SessTyped
<1>1. CASE Connect(c)
  <2> DEFINE k == [client[c] EXCEPT !.st = "open"]
             q == [link[c] EXCEPT !.queued = TRUE]
  <2>1. k \in ClientsOf(c)
    BY <1>0 DEF ClientsOf, Clients
  <2>2. q \in LinksOf(c)
    BY <1>0 DEF LinksOf, Links
  <2>3. client' = [client EXCEPT ![c] = k] /\ link' = [link EXCEPT ![c] = q]
    BY <1>0, <1>1 DEF Connect
  <2> HIDE DEF k, q
  <2>4. LinkTyped' /\ ClientTyped'
    BY <2>1, <2>2, <2>3, LinkUpdate, ClientUpdate DEF Typed
  <2> QED
    BY <1>1, <1>a, <2>4 DEF Connect
<1>2. CASE /\ client[c].sent < Len(Script[c])
           /\ \E r \in Script[c][client[c].sent + 1] : Send(c, r)
  <2>1. client[c].sent + 1 \in 1..Len(Script[c])
    <3>1. Script[c] \in Seq(SUBSET Requests) /\ client[c].sent \in Nat
      BY <1>0, CoordinatorAssumption DEF Clients
    <3> QED
      BY <1>2, <3>1
  <2>2. Script[c][client[c].sent + 1] \subseteq Asked(c)
    BY <2>1 DEF Asked
  <2> QED
    BY <1>2, <2>2, SendTyped
<1>3. CASE SendRest(c)
  <2> DEFINE k == [client[c] EXCEPT !.st = "wait"]
  <2>1. client[c].ask \in FramesOf(c)
    BY <1>0, <1>3 DEF SendRest, ClientsOf
  <2>2. <<Tail_(client[c].ask)>> \in Seq(TokensOf(c))
    <3>1. Tail_(client[c].ask) \in TokensOf(c)
      BY <2>1 DEF Tail_, TokensOf, Tokens, FramesOf
    <3> QED
      BY <3>1
  <2>3. k \in ClientsOf(c)
    <3>1. k \in Clients /\ k.ask = client[c].ask
      BY <1>0 DEF Clients
    <3> QED
      BY <2>1, <3>1 DEF ClientsOf
  <2>4. client' = [client EXCEPT ![c] = k]
    BY <1>0, <1>3 DEF SendRest
  <2> HIDE DEF k
  <2>5. LinkTyped' /\ ClientTyped'
    BY <1>3, <2>2, <2>3, <2>4, WrittenTyped, ClientUpdate DEF Typed, SendRest
  <2> QED
    BY <1>3, <1>a, <2>5 DEF SendRest
<1>4. CASE Receive(c)
  <2> DEFINE f == client[c].ask
             ack == /\ f.msg = "Hello"
                    /\ Head(link[c].down).kind = "HelloAck"
                    /\ Head(link[c].down).ok
             k == [client[c] EXCEPT !.st = "open", !.ask = None,
                                    !.id = IF ack THEN f.arg
                                           ELSE client[c].id]
             q == [link[c] EXCEPT !.down = Tail(link[c].down)]
  <2>1. f \in Frames
    BY <1>0, <1>4 DEF Receive, ClientsOf, FramesOf
  <2>2. f.arg \in Ids
    BY <2>1 DEF Frames
  <2>3. client' = [client EXCEPT ![c] = k] /\ link' = [link EXCEPT ![c] = q]
    BY <1>0, <1>4 DEF Receive
  <2> HIDE DEF ack, f
  <2>4. k \in ClientsOf(c)
    <3>1. k \in Clients
      BY <1>0, <2>2 DEF Clients
    <3>2. k.st = "open"
      BY <1>0 DEF Clients
    <3> HIDE DEF k
    <3> QED
      BY <3>1, <3>2 DEF ClientsOf
  <2>5. q \in LinksOf(c)
    <3>1. Tail(link[c].down) \in Seq(Answers)
      BY <1>0, <1>4 DEF Receive, Links
    <3> QED
      BY <1>0, <3>1 DEF LinksOf, Links
  <2> HIDE DEF k, q
  <2>6. LinkTyped' /\ ClientTyped'
    BY <2>3, <2>4, <2>5, LinkUpdate, ClientUpdate DEF Typed
  <2> QED
    BY <1>4, <1>a, <2>6 DEF Receive
<1>5. CASE Timeout(c)
  <2> DEFINE k == [client[c] EXCEPT !.st = "open", !.ask = None,
                                    !.late = TRUE]
  <2>1. k \in ClientsOf(c)
    BY <1>0 DEF ClientsOf, Clients
  <2>2. client' = [client EXCEPT ![c] = k]
    BY <1>0, <1>5 DEF Timeout
  <2> HIDE DEF k
  <2>3. LinkTyped' /\ ClientTyped'
    BY <1>5, <2>1, <2>2, ClientUpdate DEF Typed, Timeout, LinkTyped
  <2> QED
    BY <1>5, <1>a, <2>3 DEF Timeout
<1>6. CASE SessionLost(c)
  <2>1. LinkTyped' /\ ClientTyped'
    BY <1>6, NewTyped, ClientUpdate DEF Typed, SessionLost, LinkTyped
  <2> QED
    BY <1>6, <1>a, <2>1 DEF SessionLost
<1>7. CASE Disconnect(c)
  <2>1. PICK reset \in BOOLEAN :
           link' = [link EXCEPT ![c].eof = TRUE, ![c].down = <<>>,
                        ![c].up = IF reset THEN <<>> ELSE link[c].up]
    BY <1>7 DEF Disconnect
  <2> DEFINE up == IF reset THEN <<>> ELSE link[c].up
             q == [link[c] EXCEPT !.eof = TRUE, !.down = <<>>, !.up = up]
  <2>2. up \in Seq(TokensOf(c)) /\ up \in Seq(Tokens)
    BY <1>0, TokenSeq
  <2>3. link' = [link EXCEPT ![c] = q]
    BY <1>0, <2>1
  <2> HIDE DEF up
  <2>4. q \in LinksOf(c)
    <3>1. <<>> \in Seq(Answers)
      OBVIOUS
    <3> QED
      BY <1>0, <2>2, <3>1 DEF LinksOf, Links
  <2> HIDE DEF q
  <2>5. LinkTyped' /\ ClientTyped'
    BY <1>7, <2>3, <2>4, LinkUpdate, NewTyped, ClientUpdate
       DEF Typed, Disconnect
  <2> QED
    BY <1>7, <1>a, <2>5 DEF Disconnect
<1> QED
  BY <1>1, <1>2, <1>3, <1>4, <1>5, <1>6, <1>7
-----------------------------------------------------------------------------
(* Types: the loop *)

\* The frame that is handled is one of c's, and so is what is left.
LEMMA FrameTyped ==
    ASSUME Typed, NEW c \in Conns, AtFrame(c)
    PROVE  /\ FirstFrame(c) \in FramesOf(c) /\ FirstFrame(c).n \in Nat
           /\ Taken(c) \in SessionsOf(c)
           /\ Taken(c).registered = sess[c].registered
           /\ Taken(c).id = sess[c].id /\ Taken(c).st = sess[c].st
<1> DEFINE input == sess[c].input
           rest == SubSeq(input, 3, Len(input))
<1>0. sess[c] \in Sessions /\ sess[c] \in SessionsOf(c)
  BY DEF Typed, SessTyped
<1>1. input \in Seq(TokensOf(c)) /\ Len(input) >= 2 /\ Len(input) \in Nat
  BY <1>0 DEF SessionsOf, AtFrame
<1>2. \A i \in 1..Len(input) : input[i] \in TokensOf(c)
  BY <1>1
<1>3. FirstFrame(c) \in FramesOf(c)
  BY <1>1, <1>2 DEF FirstFrame, TokensOf
<1>4. FirstFrame(c).n \in Nat
  BY <1>3 DEF FramesOf, Frames
<1>5. rest \in Seq(TokensOf(c))
  <2>1. \A i \in 3..Len(input) : input[i] \in TokensOf(c)
    BY <1>1, <1>2
  <2> HIDE DEF input
  <2> QED
    BY <1>1, <2>1, SubSeqProperties
<1>6. rest \in Seq(Tokens)
  BY <1>5, TokenSeq
<1>7. Taken(c) = [sess[c] EXCEPT !.input = rest, !.assembling = FALSE]
  BY DEF Taken
<1> HIDE DEF rest, input
<1>8. /\ Taken(c) \in Sessions /\ Taken(c).input = rest
      /\ Taken(c).registered = sess[c].registered
      /\ Taken(c).id = sess[c].id /\ Taken(c).st = sess[c].st
  BY <1>0, <1>6, <1>7 DEF Sessions
<1>9. Taken(c) \in SessionsOf(c)
  BY <1>0, <1>5, <1>8 DEF SessionsOf
<1> QED
  BY <1>3, <1>4, <1>8, <1>9

\* A session that is marked closing, or not.
LEMMA ClosingTyped ==
    ASSUME NEW c \in Conns, NEW s \in SessionsOf(c), NEW b \in BOOLEAN
    PROVE  [s EXCEPT !.closing = b] \in SessionsOf(c)
<1>1. s \in Sessions
  BY DEF SessionsOf
<1>2. /\ [s EXCEPT !.closing = b] \in Sessions
      /\ [s EXCEPT !.closing = b].input = s.input
      /\ [s EXCEPT !.closing = b].registered = s.registered
      /\ [s EXCEPT !.closing = b].id = s.id
  BY <1>1 DEF Sessions
<1> QED
  BY <1>2 DEF SessionsOf

\* An answer that is sent.
LEMMA SentTyped ==
    ASSUME LinkTyped, NEW c \in Conns, NEW a \in Answers, link' = Sent(c, a)
    PROVE  LinkTyped'
<1>1. CASE link[c].eof
  BY <1>1 DEF Sent, LinkTyped
<1>2. CASE ~link[c].eof
  <2> DEFINE down == Append(link[c].down, a)
             k == [link[c] EXCEPT !.down = down]
  <2>1. link[c] \in Links /\ link[c] \in LinksOf(c)
    BY DEF LinkTyped
  <2>2. down \in Seq(Answers)
    BY <2>1 DEF Links
  <2>3. link' = [link EXCEPT ![c] = k]
    BY <1>2 DEF Sent, LinkTyped
  <2> HIDE DEF down
  <2>4. k \in LinksOf(c)
    BY <2>1, <2>2 DEF Links, LinksOf
  <2> HIDE DEF k
  <2> QED
    BY <2>3, <2>4, LinkUpdate
<1> QED
  BY <1>1, <1>2

\* The session after a frame is well formed, and with it the loop.
LEMMA BecomesTyped ==
    ASSUME Typed, NEW c \in Conns, NEW s \in SessionsOf(c), Becomes(c, s),
           store' \in Stores, LinkTyped'
    PROVE  Typed'
<1>1. SessTyped'
  BY SessUpdate DEF Typed, Becomes
<1>2. LoopTyped'
  BY DEF Typed, LoopTyped, Becomes
<1> QED
  BY <1>1, <1>2 DEF Typed, Becomes, StoreTyped, MainTyped, ClientTyped,
                    mainVars

\* The store calls keep the store well formed.
LEMMA StoreCalls ==
    ASSUME store \in Stores, NEW w
    PROVE  /\ AfterRegister(w) \in Stores
           /\ AfterFence(w) \in Stores
           /\ \A e \in 1..MaxEpoch : [store EXCEPT !.epoch = e] \in Stores
           /\ \A r \in Conns \X Nat :
                 [store EXCEPT !.applied = store.applied \cup {r}] \in Stores
<1>1. AfterRegister(w) \in Stores
  <2> DEFINE pubs == [v \in Identities |->
                        IF v = w THEN "Live"
                        ELSE IF v[1] = w[1] /\ Live(v) THEN "Fenced"
                        ELSE store.pubs[v]]
  <2>1. pubs \in [Identities -> SessionStates]
    BY DEF Stores, SessionStates
  <2>2. AfterRegister(w) = [store EXCEPT !.pubs = pubs]
    BY DEF AfterRegister
  <2> HIDE DEF pubs
  <2> QED
    BY <2>1, <2>2 DEF Stores
<1>2. AfterFence(w) \in Stores
  <2> DEFINE pubs == [store.pubs EXCEPT ![w] = "Fenced"]
  <2>1. pubs \in [Identities -> SessionStates]
    BY DEF Stores, SessionStates
  <2>2. AfterFence(w) = [store EXCEPT !.pubs = pubs]
    BY DEF AfterFence
  <2> HIDE DEF pubs
  <2> QED
    BY <2>1, <2>2 DEF Stores
<1>3. \A e \in 1..MaxEpoch : [store EXCEPT !.epoch = e] \in Stores
  BY DEF Stores
<1>4. \A r \in Conns \X Nat :
         [store EXCEPT !.applied = store.applied \cup {r}] \in Stores
  BY DEF Stores
<1> QED
  BY <1>1, <1>2, <1>3, <1>4

\* Every answer is well formed.
LEMMA AnswerTyped ==
    ASSUME NEW kind \in {"HelloAck", "Result", "Error", "Pong"},
           NEW n \in Nat, NEW ok \in BOOLEAN
    PROVE  Answer(kind, n, ok) \in Answers
  BY DEF Answer, Answers

Handler(c) ==
    \/ RefuseFrame(c) \/ HandlePing(c) \/ HandleBye(c) \/ HandleHello(c)
    \/ RefuseRequest(c) \/ HandlePublish(c) \/ HandleNotify(c)
    \/ HandleFence(c) \/ HandleQuery(c)

\* The session that a Hello leaves.
LEMMA HelloTyped ==
    ASSUME Typed, NEW c \in Conns, Handles(c, {"Hello"}), NEW b \in BOOLEAN
    PROVE  [Taken(c) EXCEPT !.registered = TRUE, !.id = FirstFrame(c).arg,
                            !.closing = b] \in SessionsOf(c)
<1> DEFINE i == FirstFrame(c).arg
           s == [Taken(c) EXCEPT !.registered = TRUE, !.id = i, !.closing = b]
<1>1. FirstFrame(c) \in FramesOf(c) /\ Taken(c) \in SessionsOf(c)
  BY FrameTyped DEF Handles
<1>2. i \in Hellos(c)
  BY <1>1 DEF Handles, FramesOf
<1>3. i \in Ids
  BY <1>2, HelloIds
<1>4. Taken(c) \in Sessions /\ Taken(c).input \in Seq(TokensOf(c))
  BY <1>1 DEF SessionsOf
<1> HIDE DEF i
<1>5. s \in Sessions /\ s.input = Taken(c).input /\ s.id = i
  BY <1>3, <1>4 DEF Sessions
<1> HIDE DEF s
<1>6. s \in SessionsOf(c)
  BY <1>2, <1>4, <1>5 DEF SessionsOf
<1> QED
  BY <1>6 DEF s, i

\* handle_frame keeps the types.
LEMMA HandlerTyped ==
    ASSUME Typed, NEW c \in Conns, Handler(c)
    PROVE  Typed'
<1> DEFINE f == FirstFrame(c)
           t == Taken(c)
           u == [Taken(c) EXCEPT !.closing = TRUE]
<1>0. store \in Stores /\ LinkTyped
  BY DEF Typed, StoreTyped
<1>1. AtFrame(c)
  BY DEF Handler, RefuseFrame, HandlePing, HandleBye, HandleHello,
         RefuseRequest, HandlePublish, HandleNotify, HandleFence, HandleQuery,
         Serves, Handles
<1>2. /\ f \in FramesOf(c) /\ f.n \in Nat
      /\ t \in SessionsOf(c) /\ u \in SessionsOf(c)
  BY <1>1, FrameTyped, ClosingTyped
<1>3. \A kind \in {"HelloAck", "Result", "Error", "Pong"}, ok \in BOOLEAN :
         Answer(kind, f.n, ok) \in Answers
  BY <1>2, AnswerTyped
<1>4. ASSUME link' = link PROVE LinkTyped'
  BY <1>0, <1>4 DEF LinkTyped
<1> HIDE DEF f, t, u
<1>5. CASE RefuseFrame(c)
  <2>1. Becomes(c, u) /\ store' = store
    BY <1>5 DEF RefuseFrame, u
  <2>2. link' = link \/ link' = Sent(c, Answer("Error", f.n, FALSE))
    BY <1>5 DEF RefuseFrame, f
  <2>3. LinkTyped'
    BY <1>0, <1>3, <1>4, <2>2, SentTyped
  <2> QED
    BY <1>0, <1>2, <2>1, <2>3, BecomesTyped
<1>6. CASE HandlePing(c)
  <2>1. Becomes(c, t) /\ store' = store
    BY <1>6 DEF HandlePing, t
  <2>2. LinkTyped'
    BY <1>0, <1>3, <1>6, SentTyped DEF HandlePing, f
  <2> QED
    BY <1>0, <1>2, <2>1, <2>2, BecomesTyped
<1>7. CASE HandleBye(c)
  <2>1. Becomes(c, u) /\ store' = store /\ LinkTyped'
    BY <1>4, <1>7 DEF HandleBye, u
  <2> QED
    BY <1>0, <1>2, <2>1, BecomesTyped
<1>8. CASE HandleHello(c)
  <2> DEFINE ok == CanRegister(f.arg.who, f.arg.epoch)
  <2>1. store' \in Stores
    BY <1>0, <1>8, StoreCalls DEF HandleHello
  <2>2. LinkTyped'
    <3>1. ok \in BOOLEAN
      BY DEF CanRegister
    <3>2. link' = Sent(c, Answer("HelloAck", f.n, ok))
      BY <1>8 DEF HandleHello, f
    <3> HIDE DEF ok
    <3> QED
      BY <1>0, <1>3, <3>1, <3>2, SentTyped
  <2>3. \E s \in SessionsOf(c) : Becomes(c, s)
    <3>1. link[c].eof \in BOOLEAN
      BY <1>0 DEF LinkTyped, Links
    <3>2. PICK failed \in {FALSE, link[c].eof} :
             Becomes(c, IF ok THEN [Taken(c) EXCEPT !.registered = TRUE,
                                           !.id = f.arg, !.closing = failed]
                        ELSE u)
      BY <1>8 DEF HandleHello, f, u
    <3>3. failed \in BOOLEAN
      BY <3>1, <3>2
    <3>4. [Taken(c) EXCEPT !.registered = TRUE, !.id = f.arg,
                           !.closing = failed] \in SessionsOf(c)
      BY <1>8, <3>3, HelloTyped DEF HandleHello, f
    <3> QED
      BY <1>2, <3>2, <3>4
  <2> QED
    BY <2>1, <2>2, <2>3, BecomesTyped
<1>9. CASE RefuseRequest(c)
  <2>1. Becomes(c, u) /\ store' = store
    BY <1>9 DEF RefuseRequest, u
  <2>2. LinkTyped'
    BY <1>0, <1>3, <1>9, SentTyped DEF RefuseRequest, f
  <2> QED
    BY <1>0, <1>2, <2>1, <2>2, BecomesTyped
<1>10. CASE HandlePublish(c)
  <2>1. PICK ok \in {FALSE, Authorized(sess[c].id)} :
           /\ store' = IF ok THEN [store EXCEPT !.applied =
                                      store.applied \cup {<<c, f.n>>}]
                       ELSE store
           /\ link' = Sent(c, Answer("Result", f.n, ok))
    BY <1>10 DEF HandlePublish, f
  <2>2. ok \in BOOLEAN
    BY DEF Authorized
  <2>3. store' \in Stores
    <3>1. <<c, f.n>> \in Conns \X Nat
      BY <1>2
    <3> QED
      BY <1>0, <2>1, <3>1, StoreCalls
  <2>4. LinkTyped'
    BY <1>0, <1>3, <2>1, <2>2, SentTyped
  <2>5. Becomes(c, t)
    BY <1>10 DEF HandlePublish, Serves, t
  <2> QED
    BY <1>2, <2>3, <2>4, <2>5, BecomesTyped
<1>11. CASE HandleNotify(c)
  <2> DEFINE e == f.arg.epoch
             ok == Authorized(sess[c].id) /\ e > store.epoch
  <2>1. ok => e \in 1..MaxEpoch
    <3>1. e \in 0..MaxEpoch /\ store.epoch \in 1..MaxEpoch
      BY <1>0, <1>2 DEF FramesOf, Frames, Ids, Epochs, Stores
    <3> HIDE DEF e
    <3> QED
      BY <3>1, Bounds
  <2>2. /\ store' = IF ok THEN [store EXCEPT !.epoch = e] ELSE store
        /\ link' = Sent(c, Answer("Result", f.n, ok)) /\ Becomes(c, t)
    BY <1>11 DEF HandleNotify, Serves, f, t
  <2>3. ok \in BOOLEAN
    BY DEF Authorized
  <2> HIDE DEF ok, e
  <2>4. store' \in Stores
    BY <1>0, <2>1, <2>2, StoreCalls
  <2>5. LinkTyped'
    BY <1>0, <1>3, <2>2, <2>3, SentTyped
  <2> QED
    BY <1>2, <2>2, <2>4, <2>5, BecomesTyped
<1>12. CASE HandleFence(c)
  <2> DEFINE w == f.arg.who
             ok == Authorized(f.from) /\ store.pubs[w] # "Unknown"
  <2>1. /\ store' = IF ok THEN AfterFence(w) ELSE store
        /\ link' = Sent(c, Answer("Result", f.n, ok)) /\ Becomes(c, t)
    BY <1>12 DEF HandleFence, Serves, f, t
  <2>2. ok \in BOOLEAN
    BY DEF Authorized
  <2> HIDE DEF ok
  <2>3. store' \in Stores
    BY <1>0, <2>1, StoreCalls
  <2>4. LinkTyped'
    BY <1>0, <1>3, <2>1, <2>2, SentTyped
  <2> QED
    BY <1>2, <2>1, <2>3, <2>4, BecomesTyped
<1>13. CASE HandleQuery(c)
  <2>1. Becomes(c, t) /\ store' = store
    BY <1>13 DEF HandleQuery, Serves, t
  <2>2. \/ link' = link
        \/ \E ok \in BOOLEAN : link' = Sent(c, Answer("Result", f.n, ok))
    BY <1>13 DEF HandleQuery, f
  <2>3. LinkTyped'
    BY <1>0, <1>3, <1>4, <2>2, SentTyped
  <2> QED
    BY <1>0, <1>2, <2>1, <2>3, BecomesTyped
<1> QED
  BY <1>5, <1>6, <1>7, <1>8, <1>9, <1>10, <1>11, <1>12, <1>13 DEF Handler

\* A pass of select, accept and recv keeps the types.
LEMMA SelectTyped ==
    ASSUME Typed, Select
    PROVE  Typed'
<1>0. /\ \A c \in Conns : sess[c] \in Sessions /\ sess[c] \in SessionsOf(c)
      /\ \A c \in Conns : link[c] \in Links /\ link[c] \in LinksOf(c)
  BY DEF Typed, SessTyped, LinkTyped
<1>1. PICK accepted \in SUBSET Queued :
         /\ sess' = [c \in Conns |->
                        IF c \in accepted THEN NewSession
                        ELSE IF c \in Open
                        THEN [sess[c] EXCEPT
                                 !.input = sess[c].input \o link[c].up,
                                 !.closing = sess[c].closing \/ link[c].eof]
                        ELSE sess[c]]
         /\ link' = [c \in Conns |->
                        [link[c] EXCEPT
                            !.queued = FALSE,
                            !.up = IF c \in Open THEN <<>> ELSE link[c].up,
                            !.cut = link[c].cut \/ c \in Queued \ accepted]]
  BY DEF Select
<1>2. ASSUME NEW c \in Conns PROVE sess'[c] \in SessionsOf(c)
  <2> DEFINE i == sess[c].input \o link[c].up
             b == sess[c].closing \/ link[c].eof
             s == [sess[c] EXCEPT !.input = i, !.closing = b]
  <2>1. i \in Seq(TokensOf(c))
    BY <1>0 DEF SessionsOf, LinksOf
  <2>2. i \in Seq(Tokens)
    BY <2>1, TokenSeq
  <2>3. b \in BOOLEAN
    OBVIOUS
  <2>4. sess'[c] = NewSession \/ sess'[c] = s \/ sess'[c] = sess[c]
    BY <1>1
  <2> HIDE DEF i, b
  <2>5. /\ s \in Sessions /\ s.input = i /\ s.registered = sess[c].registered
        /\ s.id = sess[c].id
    BY <1>0, <2>2, <2>3 DEF Sessions
  <2> HIDE DEF s
  <2>6. s \in SessionsOf(c)
    BY <1>0, <2>1, <2>5 DEF SessionsOf
  <2> QED
    BY <1>0, <2>4, <2>6, NewTyped
<1>3. ASSUME NEW c \in Conns PROVE link'[c] \in LinksOf(c)
  <2> DEFINE up == IF c \in Open THEN <<>> ELSE link[c].up
             b == link[c].cut \/ c \in Queued \ accepted
             k == [link[c] EXCEPT !.queued = FALSE, !.up = up, !.cut = b]
  <2>1. up \in Seq(TokensOf(c))
    BY <1>0 DEF LinksOf
  <2>2. up \in Seq(Tokens)
    BY <2>1, TokenSeq
  <2>3. b \in BOOLEAN
    OBVIOUS
  <2>4. link'[c] = k
    BY <1>1
  <2> HIDE DEF up, b
  <2>5. k \in Links /\ k.up = up
    BY <1>0, <2>2, <2>3 DEF Links
  <2> HIDE DEF k
  <2> QED
    BY <2>1, <2>4, <2>5 DEF LinksOf
<1>4. SessTyped'
  <2>1. \A c \in Conns : sess'[c] \in Sessions
    BY <1>2 DEF SessionsOf
  <2>2. sess' = [c \in Conns |-> sess'[c]]
    BY <1>1
  <2>3. sess' \in [Conns -> Sessions]
    BY <2>1, <2>2
  <2> QED
    BY <1>2, <2>3 DEF SessTyped
<1>5. LinkTyped'
  <2>1. \A c \in Conns : link'[c] \in Links
    BY <1>3 DEF LinksOf
  <2>2. link' = [c \in Conns |-> link'[c]]
    BY <1>1
  <2>3. link' \in [Conns -> Links]
    BY <2>1, <2>2
  <2> QED
    BY <1>3, <2>3 DEF LinkTyped
<1> QED
  BY <1>4, <1>5 DEF Typed, Select, StoreTyped, LoopTyped, MainTyped,
                    ClientTyped, mainVars

\* The probe keeps the types.
LEMMA ProbeTyped ==
    ASSUME Typed, Probe
    PROVE  Typed'
<1> DEFINE b(c) == sess[c].closing \/ (link[c].eof /\ link[c].up = <<>>)
<1>1. sess' = [c \in Conns |-> IF c \in Open
                               THEN [sess[c] EXCEPT !.closing = b(c)]
                               ELSE sess[c]]
  BY DEF Probe
<1>2. ASSUME NEW c \in Conns PROVE sess'[c] \in SessionsOf(c)
  <2>1. sess[c] \in SessionsOf(c)
    BY DEF Typed, SessTyped
  <2>2. b(c) \in BOOLEAN
    OBVIOUS
  <2> HIDE DEF b
  <2>3. [sess[c] EXCEPT !.closing = b(c)] \in SessionsOf(c)
    BY <2>1, <2>2, ClosingTyped
  <2>4. \/ sess'[c] = sess[c]
        \/ sess'[c] = [sess[c] EXCEPT !.closing = b(c)]
    BY <1>1
  <2> QED
    BY <2>1, <2>3, <2>4
<1>3. SessTyped'
  <2>1. \A c \in Conns : sess'[c] \in Sessions
    BY <1>2 DEF SessionsOf
  <2>2. sess' = [c \in Conns |-> sess'[c]]
    BY <1>1
  <2>3. sess' \in [Conns -> Sessions]
    BY <2>1, <2>2
  <2> QED
    BY <1>2, <2>3 DEF SessTyped
<1>4. LoopTyped'
  BY DEF Probe, Typed, LoopTyped, Open
<1> QED
  BY <1>3, <1>4 DEF Typed, Probe, StoreTyped, MainTyped, LinkTyped,
                    ClientTyped, mainVars

\* Waiting for the rest of a frame keeps the types.
LEMMA AwaitTyped ==
    ASSUME Typed, NEW c \in Conns, AwaitRest(c)
    PROVE  Typed'
<1> DEFINE age == IF sess[c].assembling THEN sess[c].age + 1 ELSE 0
           a == IF age > MaxAge THEN 0 ELSE age
           b == age > MaxAge
           s == [sess[c] EXCEPT !.assembling = TRUE, !.age = a, !.closing = b]
<1>0. /\ sess \in [Conns -> Sessions]
      /\ sess[c] \in Sessions /\ sess[c] \in SessionsOf(c)
  BY DEF Typed, SessTyped
<1>1. a \in 0..MaxAge /\ b \in BOOLEAN
  <2>1. age \in Nat
    BY <1>0 DEF Sessions
  <2> HIDE DEF age
  <2> QED
    BY <2>1, Bounds
<1>2. sess' = [sess EXCEPT ![c] = s]
  BY <1>0 DEF AwaitRest
<1> HIDE DEF a, b
<1>3. /\ s \in Sessions /\ s.input = sess[c].input
      /\ s.registered = sess[c].registered /\ s.id = sess[c].id
  BY <1>0, <1>1 DEF Sessions
<1> HIDE DEF s
<1>4. s \in SessionsOf(c)
  BY <1>0, <1>3 DEF SessionsOf
<1>5. SessTyped'
  BY <1>2, <1>4, SessUpdate DEF Typed
<1>6. LoopTyped'
  BY DEF AwaitRest, Typed, LoopTyped
<1> QED
  BY <1>5, <1>6 DEF Typed, AwaitRest, StoreTyped, MainTyped, LinkTyped,
                    ClientTyped, mainVars

\* close_session keeps the types.
LEMMA CloseTyped ==
    ASSUME Typed, NEW c \in Conns, close_session(c)
    PROVE  StoreTyped' /\ SessTyped' /\ LinkTyped'
<1> DEFINE w == sess[c].id.who
<1>0. /\ sess[c] \in SessionsOf(c) /\ link \in [Conns -> Links]
      /\ link[c] \in Links /\ link[c] \in LinksOf(c)
      /\ store \in Stores /\ lapsed \subseteq Identities
  BY DEF Typed, SessTyped, LinkTyped, StoreTyped
<1>1. SessTyped'
  BY NewTyped, SessUpdate DEF Typed, close_session
<1>2. StoreTyped'
  <2>1. store' \in Stores
    BY <1>0, StoreCalls DEF close_session
  <2>2. sess[c].registered => w \in Identities
    BY <1>0, HelloIds DEF SessionsOf
  <2>3. lapsed' \subseteq Identities
    BY <1>0, <2>2 DEF close_session
  <2> QED
    BY <2>1, <2>3 DEF StoreTyped
<1>3. LinkTyped'
  <2>1. PICK lost \in {FALSE, link[c].up # <<>>} :
           link' = [link EXCEPT ![c].cut = TRUE, ![c].up = <<>>,
                        ![c].down = IF lost THEN <<>> ELSE link[c].down]
    BY DEF close_session
  <2> DEFINE down == IF lost THEN <<>> ELSE link[c].down
             k == [link[c] EXCEPT !.cut = TRUE, !.up = <<>>, !.down = down]
  <2>2. down \in Seq(Answers)
    BY <1>0 DEF Links
  <2>3. link' = [link EXCEPT ![c] = k]
    BY <1>0, <2>1
  <2>4. <<>> \in Seq(Tokens) /\ <<>> \in Seq(TokensOf(c))
    OBVIOUS
  <2> HIDE DEF down
  <2>5. k \in Links /\ k.up = <<>>
    BY <1>0, <2>2, <2>4 DEF Links
  <2> HIDE DEF k
  <2>6. k \in LinksOf(c)
    BY <2>4, <2>5 DEF LinksOf
  <2> QED
    BY <2>3, <2>6, LinkUpdate DEF Typed
<1> QED
  BY <1>1, <1>2, <1>3

\* Every step of the loop keeps the types.
LEMMA ServerTyped ==
    ASSUME Typed, ServerStep
    PROVE  Typed'
<1>1. CASE Select \/ Probe
  BY <1>1, SelectTyped, ProbeTyped
<1>2. CASE LeaveLoop \/ EndLoop
  BY <1>2 DEF LeaveLoop, EndLoop, Typed, StoreTyped, MainTyped, LoopTyped,
              SessTyped, LinkTyped, ClientTyped, mainVars
<1>3. ASSUME NEW c \in Conns, Handler(c) \/ AwaitRest(c)
      PROVE  Typed'
  BY <1>3, HandlerTyped, AwaitTyped
<1>4. ASSUME NEW c \in Conns, CloseSession(c) \/ DrainSession(c)
      PROVE  Typed'
  <2>1. StoreTyped' /\ SessTyped' /\ LinkTyped'
    BY <1>4, CloseTyped DEF CloseSession, DrainSession
  <2> QED
    BY <1>4, <2>1 DEF CloseSession, DrainSession, Typed, MainTyped, LoopTyped,
                      ClientTyped, mainVars
<1> QED
  BY <1>1, <1>2, <1>3, <1>4 DEF ServerStep, Handler

\* Every step of the main thread keeps the types.
LEMMA MainTypedStep ==
    ASSUME Typed, MainStep
    PROVE  Typed'
<1> USE DEF serverVars
<1>0. store \in Stores /\ main \in Commands
  BY DEF Typed, StoreTyped, MainTyped
<1>1. ASSUME NEW e \in 1..MaxEpoch, AdvanceStore(e)
      PROVE  Typed'
  <2>1. store' \in Stores
    BY <1>0, <1>1, StoreCalls DEF AdvanceStore
  <2>2. main' \in Commands /\ main'.epoch = e
    BY <1>1, Bounds DEF AdvanceStore, Commands, Epochs
  <2> QED
    BY <1>1, <2>1, <2>2 DEF AdvanceStore, Typed, StoreTyped, MainTyped,
                            LoopTyped, SessTyped, LinkTyped, ClientTyped
<1>2. CASE AdvanceAuthority
  <2>1. main' \in Commands /\ main'.pc = "idle"
    BY <1>2, Bounds DEF AdvanceAuthority, Commands, Epochs
  <2>2. authority' \in 1..MaxEpoch
    BY <1>2 DEF AdvanceAuthority, Typed, MainTyped
  <2> QED
    BY <1>2, <2>1, <2>2 DEF AdvanceAuthority, Typed, StoreTyped, MainTyped,
                            LoopTyped, SessTyped, LinkTyped, ClientTyped
<1>3. CASE Stop
  <2>1. main' \in Commands /\ main'.pc = "joining"
    BY <1>0, <1>3 DEF Stop, Commands
  <2>2. MainTyped'
    BY <1>3, <2>1 DEF Stop, Typed, MainTyped
  <2> QED
    BY <1>3, <2>2 DEF Stop, Typed, StoreTyped, LoopTyped, SessTyped,
                      LinkTyped, ClientTyped
<1>4. CASE Joined
  <2>1. main' \in Commands /\ main'.pc = "done"
    BY <1>0, <1>4 DEF Joined, Commands
  <2>2. MainTyped'
    BY <1>4, <2>1 DEF Joined, Typed, MainTyped
  <2>3. ASSUME NEW c \in Conns
        PROVE  link'[c] \in LinksOf(c)
    <3> DEFINE b == link[c].cut \/ c \in Queued
               k == [link[c] EXCEPT !.queued = FALSE, !.cut = b]
    <3>1. link[c] \in Links /\ link[c] \in LinksOf(c)
      BY DEF Typed, LinkTyped
    <3>2. link'[c] = k /\ b \in BOOLEAN
      BY <1>4 DEF Joined
    <3> HIDE DEF b
    <3>3. k \in Links /\ k.up = link[c].up
      BY <3>1, <3>2 DEF Links
    <3> QED
      BY <3>1, <3>2, <3>3 DEF LinksOf
  <2>4. LinkTyped'
    <3>1. \A c \in Conns : link'[c] \in Links
      BY <2>3 DEF LinksOf
    <3>2. link' = [c \in Conns |-> link'[c]]
      BY <1>4 DEF Joined
    <3>3. link' \in [Conns -> Links]
      BY <3>1, <3>2
    <3> QED
      BY <2>3, <3>3 DEF LinkTyped
  <2> QED
    BY <1>4, <2>2, <2>4 DEF Joined, Typed, StoreTyped, LoopTyped, SessTyped,
                            ClientTyped
<1> QED
  BY <1>1, <1>2, <1>3, <1>4 DEF MainStep

\* Every step keeps the types.
LEMMA NextTyped == Typed /\ [Next]_vars => Typed'
<1> SUFFICES ASSUME Typed, [Next]_vars PROVE Typed'
  OBVIOUS
<1>1. CASE UNCHANGED vars
  BY <1>1 DEF vars, Typed, StoreTyped, MainTyped, LoopTyped, SessTyped,
              LinkTyped, ClientTyped
<1>2. CASE Next
  BY <1>2, ClientTypedStep, ServerTyped, MainTypedStep DEF Next
<1> QED
  BY <1>1, <1>2
-----------------------------------------------------------------------------
(* Sessions are counted *)

\* A connection is accepted at most once: while it is queued, and before, it
\* has had no session.  The frame pass is at open sessions only.
OnceInv ==
    /\ \A c \in Conns : /\ link[c].queued => sess[c].st = "none"
                                             /\ client[c].st # "new"
                        /\ client[c].st = "new" => sess[c].st = "none"
    /\ todo \subseteq Open
    /\ phase # "frames" => todo = {}

CountInv == OnceInv /\ SessionsCounted

\* The set of open sessions is finite.
LEMMA OpenFinite == IsFiniteSet(Open) /\ Cardinality(Open) \in Nat
<1>1. Open \in SUBSET Conns
  BY DEF Open
<1> QED
  BY <1>1, Bounds, FS_Subset, FS_CardinalityType

\* A step that opens and closes no session.
LEMMA CountKept ==
    ASSUME Typed, Typed', CountInv, UNCHANGED active_sessions,
           \A c \in Conns : sess'[c].st = sess[c].st,
           \A c \in Conns : client'[c].st = "new" => client[c].st = "new",
           \A c \in Conns : link'[c].queued =>
               link[c].queued \/ client[c].st = "new",
           \A c \in Conns : link'[c].queued => client'[c].st # "new",
           todo' \subseteq todo, phase' = phase \/ todo' = {}
    PROVE  CountInv'
<1>1. Open' = Open
  BY DEF Open
<1>2. SessionsCounted'
  BY <1>1 DEF CountInv, SessionsCounted
<1>3. OnceInv'
  <2>1. \A c \in Conns : link'[c].queued => sess'[c].st = "none"
    BY DEF CountInv, OnceInv
  <2>2. \A c \in Conns : client'[c].st = "new" => sess'[c].st = "none"
    BY DEF CountInv, OnceInv
  <2>3. todo' \subseteq Open' /\ (phase' # "frames" => todo' = {})
    BY <1>1 DEF CountInv, OnceInv
  <2> QED
    BY <2>1, <2>2, <2>3 DEF OnceInv
<1> QED
  BY <1>2, <1>3 DEF CountInv

\* The steps of the clients.
LEMMA ClientCount ==
    ASSUME Typed, Typed', CountInv, ClientStep
    PROVE  CountInv'
<1>0. /\ client \in [Conns -> Clients] /\ link \in [Conns -> Links]
      /\ \A c \in Conns : client[c] \in Clients /\ link[c] \in Links
  BY DEF Typed, ClientTyped, LinkTyped
<1> SUFFICES ASSUME NEW c \in Conns,
                    \/ Connect(c) \/ (\E r : Send(c, r))
                    \/ SendRest(c) \/ Receive(c) \/ Timeout(c)
                    \/ SessionLost(c) \/ Disconnect(c)
             PROVE  CountInv'
  BY DEF ClientStep
<1> USE DEF serverVars
<1>1. UNCHANGED <<phase, todo, sess, active_sessions>>
  BY DEF Connect, Send, SendRest, Receive, Timeout, SessionLost, Disconnect
<1>2. \A d \in Conns : d # c => client'[d] = client[d] /\ link'[d] = link[d]
  BY <1>0 DEF Connect, Send, SendRest, Receive, Timeout, SessionLost,
              Disconnect, Written
<1>a. client[c] \in Clients /\ link[c] \in Links
  BY <1>0
<1>3. client'[c].st # "new"
  <2>1. CASE Connect(c) \/ SendRest(c) \/ Timeout(c)
    BY <1>0, <1>a, <2>1 DEF Connect, SendRest, Timeout, Clients
  <2>4. CASE \E r : Send(c, r)
    <3>1. PICK r : Send(c, r)
      BY <2>4
    <3> DEFINE st == IF r.stalls THEN "sending" ELSE "wait"
               f == [msg |-> r.msg, n |-> client[c].sent + 1,
                     from |-> client[c].id, arg |-> r.arg]
    <3>2. client' = [client EXCEPT ![c].st = st,
                                   ![c].sent = client[c].sent + 1,
                                   ![c].ask = f]
      BY <1>0, <3>1 DEF Send
    <3>3. st # "new"
      OBVIOUS
    <3> HIDE DEF st, f
    <3> QED
      BY <1>0, <1>a, <3>2, <3>3 DEF Clients
  <2>2. CASE Receive(c)
    BY <1>0, <1>a, <2>2 DEF Receive, Clients
  <2>3. CASE SessionLost(c) \/ Disconnect(c)
    BY <1>0, <2>3 DEF SessionLost, Disconnect, NewClient
  <2> QED
    BY <2>1, <2>2, <2>3, <2>4
<1>4. link'[c].queued => link[c].queued \/ client[c].st = "new"
  <2>1. CASE Connect(c)
    BY <2>1 DEF Connect
  <2>2. CASE (\E r : Send(c, r)) \/ SendRest(c)
    <3>1. \E tokens : link' = Written(c, tokens)
      BY <2>2 DEF Send, SendRest
    <3> QED
      BY <1>0, <1>a, <3>1 DEF Written, Links
  <2>3. CASE Receive(c) \/ Timeout(c) \/ SessionLost(c)
    BY <1>0, <1>a, <2>3 DEF Receive, Timeout, SessionLost, Links
  <2>4. CASE Disconnect(c)
    <3>1. \E up : link' = [link EXCEPT ![c].eof = TRUE, ![c].down = <<>>,
                                       ![c].up = up]
      BY <2>4 DEF Disconnect
    <3> QED
      BY <1>0, <1>a, <3>1 DEF Links
  <2> QED
    BY <2>1, <2>2, <2>3, <2>4
<1>5. \A d \in Conns : d # c =>
         (link'[d].queued => client'[d].st # "new")
  BY <1>2 DEF CountInv, OnceInv
<1> QED
  BY <1>1, <1>2, <1>3, <1>4, <1>5, CountKept

\* A session after a frame is as open as before.
LEMMA HandlerKeeps ==
    ASSUME Typed, NEW c \in Conns, Handler(c)
    PROVE  /\ UNCHANGED <<active_sessions, phase, client, lapsed>>
           /\ todo' \subseteq todo /\ c \in todo
           /\ \A d \in Conns : sess'[d].st = sess[d].st
           /\ \A d \in Conns : link'[d].queued = link[d].queued
           /\ \A d \in Conns : d # c => sess'[d] = sess[d]
           /\ \/ /\ sess'[c].registered = sess[c].registered
                 /\ sess'[c].id = sess[c].id
              \/ HandleHello(c)
<1>0. /\ sess \in [Conns -> Sessions] /\ link \in [Conns -> Links]
      /\ \A d \in Conns : link[d] \in Links
  BY DEF Typed, SessTyped, LinkTyped
<1>1. AtFrame(c)
  BY DEF Handler, RefuseFrame, HandlePing, HandleBye, HandleHello,
         RefuseRequest, HandlePublish, HandleNotify, HandleFence, HandleQuery,
         Serves, Handles
<1>2. /\ Taken(c) \in Sessions /\ Taken(c).registered = sess[c].registered
      /\ Taken(c).id = sess[c].id /\ Taken(c).st = sess[c].st
  BY <1>1, FrameTyped DEF SessionsOf
<1>3. link' = link \/ \E a : link' = Sent(c, a)
  BY DEF Handler, RefuseFrame, HandlePing, HandleBye, HandleHello,
         RefuseRequest, HandlePublish, HandleNotify, HandleFence, HandleQuery
<1>4. \A d \in Conns : link'[d].queued = link[d].queued
  BY <1>0, <1>3 DEF Sent, Links
<1>5. PICK s : /\ Becomes(c, s) /\ s.st = sess[c].st
               /\ \/ /\ s.registered = sess[c].registered
                     /\ s.id = sess[c].id
                  \/ HandleHello(c)
  <2>1. CASE HandleHello(c)
    <3>1. PICK s, b : /\ Becomes(c, s)
                      /\ \/ s = [Taken(c) EXCEPT !.registered = TRUE,
                                    !.id = FirstFrame(c).arg, !.closing = b]
                         \/ s = [Taken(c) EXCEPT !.closing = TRUE]
      BY <2>1 DEF HandleHello
    <3>2. s.st = Taken(c).st
      BY <1>2, <3>1 DEF Sessions
    <3> QED
      BY <1>2, <2>1, <3>1, <3>2
  <2>2. CASE ~HandleHello(c)
    <3>1. \/ Becomes(c, Taken(c))
          \/ Becomes(c, [Taken(c) EXCEPT !.closing = TRUE])
      BY <2>2 DEF Handler, RefuseFrame, HandlePing, HandleBye, RefuseRequest,
                  HandlePublish, HandleNotify, HandleFence, HandleQuery, Serves
    <3> DEFINE u == [Taken(c) EXCEPT !.closing = TRUE]
    <3>2. /\ u.st = Taken(c).st /\ u.registered = Taken(c).registered
          /\ u.id = Taken(c).id
      BY <1>2 DEF Sessions
    <3> HIDE DEF u
    <3> QED
      BY <1>2, <3>1, <3>2 DEF u
  <2> QED
    BY <2>1, <2>2
<1>6. sess' = [sess EXCEPT ![c] = s]
  BY <1>5 DEF Becomes
<1>7. /\ \A d \in Conns : d # c => sess'[d] = sess[d]
      /\ sess'[c] = s
  BY <1>0, <1>6
<1>8. /\ UNCHANGED <<active_sessions, phase, client, lapsed>>
      /\ todo' \subseteq todo
  BY <1>5 DEF Becomes
<1>9. c \in todo
  BY <1>1 DEF AtFrame
<1> QED
  BY <1>4, <1>5, <1>7, <1>8, <1>9

\* close_session closes one open session.
LEMMA CloseCount ==
    ASSUME Typed, CountInv, NEW c \in Open, close_session(c), todo = {},
           UNCHANGED <<phase, todo, client>>
    PROVE  CountInv'
<1>0. /\ sess \in [Conns -> Sessions] /\ link \in [Conns -> Links]
      /\ c \in Conns /\ sess[c].st = "open" /\ link[c] \in Links
  BY DEF Typed, SessTyped, LinkTyped, Open
<1>1. /\ \A d \in Conns : d # c => sess'[d] = sess[d]
      /\ sess'[c].st = "ended"
  BY <1>0 DEF close_session, NewSession
<1>2. Open' = Open \ {c}
  BY <1>0, <1>1 DEF Open
<1>3. active_sessions' = Cardinality(Open')
  BY <1>2, OpenFinite, FS_RemoveElement
     DEF CountInv, SessionsCounted, close_session
<1>4. SessionsCounted'
  BY <1>3, OpenFinite, Bounds DEF CountInv, SessionsCounted, close_session
<1>5. \A d \in Conns : link'[d].queued = link[d].queued
  BY <1>0 DEF close_session, Links
<1>6. OnceInv'
  BY <1>0, <1>1, <1>5 DEF CountInv, OnceInv
<1> QED
  BY <1>4, <1>6 DEF CountInv

\* Accepting connections counts each of them once, up to the bound.
LEMMA SelectCount ==
    ASSUME Typed, CountInv, Select
    PROVE  CountInv'
<1>0. /\ \A c \in Conns : sess[c] \in Sessions /\ link[c] \in Links
      /\ todo = {} /\ todo' = {} /\ phase' = "probe" /\ client' = client
  BY DEF Typed, SessTyped, LinkTyped, Select, TickEnded
<1> DEFINE room == MaxSessions - Cardinality(Open)
<1>1. PICK accepted \in SUBSET Queued :
         /\ Cardinality(accepted) =
               IF Cardinality(Queued) <= room THEN Cardinality(Queued)
               ELSE room
         /\ sess' = [c \in Conns |->
                        IF c \in accepted THEN NewSession
                        ELSE IF c \in Open
                        THEN [sess[c] EXCEPT
                                 !.input = sess[c].input \o link[c].up,
                                 !.closing = sess[c].closing \/ link[c].eof]
                        ELSE sess[c]]
         /\ link' = [c \in Conns |->
                        [link[c] EXCEPT
                            !.queued = FALSE,
                            !.up = IF c \in Open THEN <<>> ELSE link[c].up,
                            !.cut = link[c].cut \/ c \in Queued \ accepted]]
         /\ active_sessions' = active_sessions + Cardinality(accepted)
  BY DEF Select
<1>2. accepted \subseteq Conns /\ accepted \cap Open = {}
  BY <1>1 DEF Queued, Open, CountInv, OnceInv
<1>3. \A c \in Conns : sess'[c].st = IF c \in accepted THEN "open"
                                     ELSE sess[c].st
  BY <1>0, <1>1 DEF NewSession, Sessions
<1>4. Open' = Open \cup accepted
  BY <1>2, <1>3 DEF Open
<1>5. /\ IsFiniteSet(accepted) /\ Cardinality(accepted) \in Nat
      /\ IsFiniteSet(Queued) /\ Cardinality(Queued) \in Nat
  <2>1. Queued \in SUBSET Conns /\ accepted \in SUBSET Conns
    BY <1>2 DEF Queued
  <2> QED
    BY <2>1, Bounds, FS_Subset, FS_CardinalityType
<1>6. Cardinality(Open') = Cardinality(Open) + Cardinality(accepted)
  <2>1. Cardinality(Open \cap accepted) = 0
    BY <1>2, FS_EmptySet
  <2>2. Cardinality(Open \cup accepted) =
           Cardinality(Open) + Cardinality(accepted)
              - Cardinality(Open \cap accepted)
    BY <1>5, OpenFinite, FS_Union
  <2>3. Cardinality(Open') = Cardinality(Open \cup accepted)
    BY <1>4
  <2> QED
    BY <1>5, <2>1, <2>2, <2>3, OpenFinite
<1>7. SessionsCounted'
  <2>1. Cardinality(accepted) <= room
    <3>1. Cardinality(accepted) = IF Cardinality(Queued) <= room
                                  THEN Cardinality(Queued) ELSE room
      BY <1>1
    <3>2. room \in Int
      BY OpenFinite, Bounds
    <3> HIDE DEF room
    <3> QED
      BY <1>5, <3>1, <3>2
  <2>2. active_sessions = Cardinality(Open)
    BY DEF CountInv, SessionsCounted
  <2>3. active_sessions' = Cardinality(Open')
    BY <1>1, <1>6, <2>2
  <2>4. active_sessions' <= MaxSessions
    BY <1>5, <1>6, <2>1, <2>3, OpenFinite, Bounds
  <2> QED
    BY <2>3, <2>4 DEF SessionsCounted
<1>8. \A c \in Conns : ~link'[c].queued
  BY <1>0, <1>1 DEF Links
<1>9. OnceInv'
  <2>1. \A c \in Conns : client[c].st = "new" => c \notin accepted
    BY <1>1 DEF Queued, CountInv, OnceInv
  <2> QED
    BY <1>0, <1>3, <1>8, <2>1 DEF CountInv, OnceInv
<1> QED
  BY <1>7, <1>9 DEF CountInv

\* Every step keeps the count.
LEMMA NextCount ==
    ASSUME Typed, Typed', CountInv, Next
    PROVE  CountInv'
<1>0. /\ sess \in [Conns -> Sessions] /\ link \in [Conns -> Links]
      /\ \A c \in Conns : sess[c] \in Sessions /\ link[c] \in Links
  BY DEF Typed, SessTyped, LinkTyped
<1>q. \A c \in Conns : link[c].queued => client[c].st # "new"
  BY DEF CountInv, OnceInv
<1>1. CASE ClientStep
  BY <1>1, ClientCount
<1>2. CASE Select
  BY <1>2, SelectCount
<1>3. CASE Probe
  <2>1. \A c \in Conns : sess'[c].st = sess[c].st
    BY <1>0, <1>3 DEF Probe, Sessions
  <2>2. Open' = Open
    BY <2>1 DEF Open
  <2>3. OnceInv'
    BY <1>3, <2>1, <2>2 DEF Probe, CountInv, OnceInv
  <2> QED
    BY <1>3, <2>2, <2>3 DEF Probe, CountInv, SessionsCounted
<1>4. CASE LeaveLoop \/ EndLoop
  <2>1. todo = {}
    BY <1>4 DEF LeaveLoop, EndLoop, TickEnded, CountInv, OnceInv
  <2> QED
    BY <1>4, <1>q, <2>1, CountKept DEF LeaveLoop, EndLoop
<1>5. ASSUME NEW c \in Conns, Handler(c) PROVE CountInv'
  BY <1>5, <1>q, HandlerKeeps, CountKept
<1>6. ASSUME NEW c \in Conns, AwaitRest(c) PROVE CountInv'
  <2>1. \A d \in Conns : sess'[d].st = sess[d].st
    BY <1>0, <1>6 DEF AwaitRest, Sessions
  <2> QED
    BY <1>6, <1>q, <2>1, CountKept DEF AwaitRest
<1>7. ASSUME NEW c \in Conns, CloseSession(c) \/ DrainSession(c)
      PROVE  CountInv'
  <2>1. todo = {}
    BY <1>7 DEF CloseSession, DrainSession, CountInv, OnceInv
  <2> QED
    BY <1>7, <2>1, CloseCount DEF CloseSession, DrainSession
<1>8. CASE MainStep
  <2>1. UNCHANGED <<phase, todo, sess, active_sessions, client>>
    BY <1>8 DEF MainStep, AdvanceStore, AdvanceAuthority, Stop, Joined,
                serverVars
  <2>2. \A c \in Conns : link'[c].queued => link[c].queued
    <3>1. CASE Joined
      BY <1>0, <3>1 DEF Joined, Links
    <3>2. CASE ~Joined
      BY <1>8, <3>2 DEF MainStep, AdvanceStore, AdvanceAuthority, Stop
    <3> QED
      BY <3>1, <3>2
  <2> QED
    BY <1>q, <2>1, <2>2, CountKept
<1> QED
  BY <1>1, <1>2, <1>3, <1>4, <1>5, <1>6, <1>7, <1>8
     DEF Next, ServerStep, Handler

\* Nothing is open at first.
LEMMA InitCount == Init => CountInv
<1> SUFFICES ASSUME Init PROVE CountInv
  OBVIOUS
<1>1. \A c \in Conns : sess[c].st = "none"
  BY DEF Init, NewSession
<1>2. Open = {}
  BY <1>1 DEF Open
<1>3. SessionsCounted
  BY <1>2, FS_EmptySet, Bounds DEF Init, SessionsCounted
<1>4. \A c \in Conns : ~link[c].queued
  BY DEF Init
<1> QED
  BY <1>1, <1>3, <1>4 DEF Init, CountInv, OnceInv

\* Both invariants hold in every reachable state.
LEMMA Counted == Spec => [](Typed /\ CountInv)
<1>1. CountInv /\ UNCHANGED vars => CountInv'
  BY DEF CountInv, OnceInv, SessionsCounted, Open, vars
<1>2. Typed /\ Typed' /\ CountInv /\ [Next]_vars => CountInv'
  BY <1>1, NextCount
<1> QED
  BY <1>2, InitTyped, NextTyped, InitCount, PTL DEF Spec

\* Whatever peers send, every piece of the runtime stays well formed (TypeOK
\* of Coordinator).
THEOREM CoordinatorTyped == Spec => []TypeOK
<1>1. Typed /\ CountInv => TypeOK
  BY OpenFinite DEF Typed, CountInv, SessionsCounted, TypeOK, StoreTyped,
                    MainTyped, LoopTyped, SessTyped, LinkTyped, ClientTyped
<1> QED
  BY <1>1, Counted, PTL

\* The session counter is exact and never above max_sessions, for any number
\* of connections that come, go, stall and reset (SessionsCounted).
THEOREM SessionsAreCounted == Spec => []SessionsCounted
<1>1. CountInv => SessionsCounted
  BY DEF CountInv
<1> QED
  BY <1>1, Counted, PTL
-----------------------------------------------------------------------------
(* A fenced boot commits nothing *)

\* The action of FencedCommitsNothing.
StaysFenced ==
    \A w \in Identities :
        store.pubs[w] = "Fenced" => store.pubs'[w] = "Fenced"

CommitsLive ==
    \A r \in store'.applied \ store.applied :
        LET c == r[1] IN
        /\ sess[c].st = "open" /\ sess[c].registered
        /\ sess[c].id.epoch = store.epoch
        /\ Live(sess[c].id.who)
        /\ FirstFrame(c).from.who = sess[c].id.who

\* What a fence does to the registry and to the committed requests.
LEMMA FenceKeeps ==
    ASSUME store \in Stores, NEW w, store' = AfterFence(w)
    PROVE  /\ StaysFenced /\ store'.applied = store.applied
           /\ \A v \in Identities : store'.pubs[v] = "Live" => Live(v)
           /\ w \in Identities => store'.pubs[w] = "Fenced"
<1>1. /\ store'.applied = store.applied
      /\ store'.pubs = [store.pubs EXCEPT ![w] = "Fenced"]
  BY DEF AfterFence, Stores
<1>2. store.pubs \in [Identities -> SessionStates]
  BY DEF Stores
<1>3. \A v \in Identities :
         store'.pubs[v] = IF v = w THEN "Fenced" ELSE store.pubs[v]
  BY <1>1, <1>2
<1> QED
  BY <1>1, <1>3 DEF StaysFenced, Live

\* What a registration does to them.
LEMMA RegisterKeeps ==
    ASSUME store \in Stores, NEW w, store' = AfterRegister(w),
           store.pubs[w] # "Fenced"
    PROVE  /\ StaysFenced /\ store'.applied = store.applied
           /\ \A v \in Identities : v # w /\ store'.pubs[v] = "Live" =>
                                     Live(v) /\ v[1] # w[1]
<1>1. /\ store'.applied = store.applied
      /\ store'.pubs =
            [v \in Identities |-> IF v = w THEN "Live"
                                  ELSE IF v[1] = w[1] /\ Live(v) THEN "Fenced"
                                  ELSE store.pubs[v]]
  BY DEF AfterRegister, Stores
<1>2. \A v \in Identities :
         store'.pubs[v] = IF v = w THEN "Live"
                          ELSE IF v[1] = w[1] /\ Live(v) THEN "Fenced"
                          ELSE store.pubs[v]
  BY <1>1
<1> QED
  BY <1>1, <1>2 DEF StaysFenced, Live

\* A handler leaves fenced boots fenced and commits for live sessions only.
LEMMA HandlerCommits ==
    ASSUME Typed, CountInv, NEW c \in Conns, Handler(c)
    PROVE  StaysFenced /\ CommitsLive
<1>0. store \in Stores
  BY DEF Typed, StoreTyped
<1>1. CASE HandleHello(c)
  <2> DEFINE w == FirstFrame(c).arg.who
  <2>1. \/ store' = store
        \/ store' = AfterRegister(w) /\ store.pubs[w] # "Fenced"
    BY <1>1 DEF HandleHello, CanRegister
  <2> HIDE DEF w
  <2>2. StaysFenced /\ store'.applied = store.applied
    <3>1. CASE store' = store
      BY <3>1 DEF StaysFenced
    <3>2. CASE store' = AfterRegister(w) /\ store.pubs[w] # "Fenced"
      BY <1>0, <3>2, RegisterKeeps
    <3> QED
      BY <2>1, <3>1, <3>2
  <2> QED
    BY <2>2 DEF CommitsLive
<1>2. CASE HandlePublish(c)
  <2>1. \/ store' = store
        \/ /\ Authorized(sess[c].id)
           /\ store' = [store EXCEPT !.applied =
                           store.applied \cup {<<c, FirstFrame(c).n>>}]
    BY <1>2 DEF HandlePublish
  <2>2. store'.pubs = store.pubs
    BY <1>0, <2>1 DEF Stores
  <2>3. sess[c].st = "open"
    BY HandlerKeeps DEF CountInv, OnceInv, Open
  <2>4. \A r \in store'.applied \ store.applied :
           Authorized(sess[c].id) /\ r[1] = c
    BY <1>0, <2>1 DEF Stores
  <2>5. Matches(c)
    BY <1>2 DEF HandlePublish, Serves
  <2>6. CommitsLive
    BY <2>3, <2>4, <2>5 DEF CommitsLive, Authorized, Matches
  <2> QED
    BY <2>2, <2>6 DEF StaysFenced
<1>3. CASE HandleNotify(c)
  <2>1. store'.pubs = store.pubs /\ store'.applied = store.applied
    BY <1>0, <1>3 DEF HandleNotify, Stores
  <2> QED
    BY <2>1 DEF StaysFenced, CommitsLive
<1>4. CASE HandleFence(c)
  <2>1. store' = store \/ \E w : store' = AfterFence(w)
    BY <1>4 DEF HandleFence
  <2>2. StaysFenced /\ store'.applied = store.applied
    <3>1. CASE store' = store
      BY <3>1 DEF StaysFenced
    <3>2. CASE \E w : store' = AfterFence(w)
      BY <1>0, <3>2, FenceKeeps
    <3> QED
      BY <2>1, <3>1, <3>2
  <2> QED
    BY <2>2 DEF CommitsLive
<1>5. CASE store' = store
  BY <1>5 DEF StaysFenced, CommitsLive
<1> QED
  BY <1>1, <1>2, <1>3, <1>4, <1>5
     DEF Handler, RefuseFrame, HandlePing, HandleBye, RefuseRequest,
         HandleQuery

\* So does every step.
LEMMA NextCommits ==
    ASSUME Typed, CountInv, Next
    PROVE  StaysFenced /\ CommitsLive
<1>0. store \in Stores
  BY DEF Typed, StoreTyped
<1>1. CASE store' = store
  BY <1>1 DEF StaysFenced, CommitsLive
<1>2. ASSUME NEW c \in Conns, Handler(c) PROVE StaysFenced /\ CommitsLive
  BY <1>2, HandlerCommits
<1>3. ASSUME NEW c \in Conns, close_session(c)
      PROVE  StaysFenced /\ CommitsLive
  <2>1. store' = store \/ \E w : store' = AfterFence(w)
    BY <1>3 DEF close_session
  <2>2. StaysFenced /\ store'.applied = store.applied
    <3>1. CASE store' = store
      BY <3>1 DEF StaysFenced
    <3>2. CASE \E w : store' = AfterFence(w)
      BY <1>0, <3>2, FenceKeeps
    <3> QED
      BY <2>1, <3>1, <3>2
  <2> QED
    BY <2>2 DEF CommitsLive
<1>4. ASSUME NEW e \in 1..MaxEpoch, AdvanceStore(e)
      PROVE  StaysFenced /\ CommitsLive
  <2>1. store'.pubs = store.pubs /\ store'.applied = store.applied
    BY <1>0, <1>4 DEF AdvanceStore, Stores
  <2> QED
    BY <2>1 DEF StaysFenced, CommitsLive
<1>5. CASE ClientStep
  BY <1>1, <1>5 DEF ClientStep, Connect, Send, SendRest, Receive, Timeout,
                    SessionLost, Disconnect
<1>6. CASE ServerStep
  BY <1>1, <1>2, <1>3, <1>6
     DEF ServerStep, Select, Probe, LeaveLoop, EndLoop, Handler, AwaitRest,
         CloseSession, DrainSession
<1>7. CASE MainStep
  BY <1>1, <1>4, <1>7 DEF MainStep, AdvanceAuthority, Stop, Joined
<1> QED
  BY <1>5, <1>6, <1>7 DEF Next

\* A boot that was fenced stays fenced, and requests are committed only on an
\* open session that registered under the present epoch and whose boot is live
\* and sent them (FencedCommitsNothing), whatever order frames, ends of
\* sessions, fences and epoch advances come in.
THEOREM FencedBootsCommitNothing == Spec => FencedCommitsNothing
<1> DEFINE A == /\ \A w \in Identities :
                      store.pubs[w] = "Fenced" => store.pubs'[w] = "Fenced"
                /\ \A r \in store'.applied \ store.applied :
                      LET c == r[1] IN
                      /\ sess[c].st = "open" /\ sess[c].registered
                      /\ sess[c].id.epoch = store.epoch
                      /\ Live(sess[c].id.who)
                      /\ FirstFrame(c).from.who = sess[c].id.who
<1>1. Typed /\ CountInv /\ [Next]_vars => [A]_vars
  BY NextCommits DEF StaysFenced, CommitsLive
<1> QED
  BY <1>1, Counted, PTL DEF Spec, FencedCommitsNothing

-----------------------------------------------------------------------------
(* A live boot has a session *)

\* A connection presents boots of one publisher only.
OnePublisher ==
    \A c \in Conns : \A i, j \in Hellos(c) : i.who[1] = j.who[1]

\* No boot becomes live and no registered session is lost or changed.
LEMMA LiveKept ==
    ASSUME LiveBootHasSession, lapsed \subseteq lapsed',
           \A w \in Identities : store'.pubs[w] = "Live" => Live(w),
           \A c \in Open : sess[c].registered =>
               c \in Open' /\ sess'[c].registered /\ sess'[c].id = sess[c].id
    PROVE  LiveBootHasSession'
  BY DEF LiveBootHasSession, Live

\* The registration of a boot fences the one the session had before.
LEMMA HelloLive ==
    ASSUME OnePublisher, Typed, CountInv, LiveBootHasSession,
           NEW c \in Conns, HandleHello(c)
    PROVE  LiveBootHasSession'
<1> DEFINE f == FirstFrame(c)
           w == f.arg.who
           ok == CanRegister(w, f.arg.epoch)
<1>0. /\ store \in Stores /\ sess \in [Conns -> Sessions]
      /\ sess[c] \in SessionsOf(c)
  BY DEF Typed, StoreTyped, SessTyped
<1>1. /\ \A d \in Conns : sess'[d].st = sess[d].st
      /\ \A d \in Conns : d # c => sess'[d] = sess[d]
      /\ c \in Open /\ lapsed' = lapsed
  BY HandlerKeeps DEF Handler, CountInv, OnceInv
<1>2. Open' = Open
  BY <1>1 DEF Open
<1>3. /\ f \in FramesOf(c) /\ Taken(c) \in Sessions
      /\ Taken(c).registered = sess[c].registered
      /\ Taken(c).id = sess[c].id
  BY FrameTyped DEF HandleHello, Handles, SessionsOf
<1>4. f.arg \in Hellos(c)
  BY <1>3 DEF HandleHello, Handles, FramesOf
<1>5. CASE ok
  <2>1. store' = AfterRegister(w)
    BY <1>5 DEF HandleHello
  <2>2. sess'[c].registered /\ sess'[c].id = f.arg
    <3>1. PICK b : Becomes(c, [Taken(c) EXCEPT !.registered = TRUE,
                                               !.id = f.arg, !.closing = b])
      BY <1>5 DEF HandleHello
    <3>2. sess'[c] = [Taken(c) EXCEPT !.registered = TRUE, !.id = f.arg,
                                      !.closing = b]
      BY <1>0, <3>1 DEF Becomes
    <3> HIDE DEF f
    <3> QED
      BY <1>3, <3>2 DEF Sessions
  <2>3. ASSUME NEW v \in Identities \ {Coord}, store'.pubs[v] = "Live",
               v \notin lapsed
        PROVE  \E d \in Open' : sess'[d].registered /\ sess'[d].id.who = v
    <3>1. CASE v = w
      BY <1>1, <1>2, <2>2, <3>1
    <3>2. CASE v # w
      <4>1. Live(v) /\ v[1] # w[1]
        <5>1. store.pubs[w] # "Fenced"
          BY <1>5 DEF CanRegister
        <5> QED
          BY <1>0, <2>1, <2>3, <3>2, <5>1, RegisterKeeps
      <4>2. PICK d \in Open : sess[d].registered /\ sess[d].id.who = v
        BY <2>3, <4>1 DEF LiveBootHasSession
      <4>3. d # c
        BY <1>0, <1>4, <4>1, <4>2 DEF OnePublisher, SessionsOf
      <4>4. sess'[d] = sess[d]
        BY <1>1, <4>3 DEF Open
      <4> QED
        BY <1>2, <4>2, <4>4
    <3> QED
      BY <3>1, <3>2
  <2> QED
    BY <1>1, <2>3 DEF LiveBootHasSession, Live
<1>6. CASE ~ok
  <2>1. store' = store
    BY <1>6 DEF HandleHello
  <2>2. /\ sess'[c].registered = sess[c].registered
        /\ sess'[c].id = sess[c].id
    <3>1. Becomes(c, [Taken(c) EXCEPT !.closing = TRUE])
      BY <1>6 DEF HandleHello
    <3>2. sess'[c] = [Taken(c) EXCEPT !.closing = TRUE]
      BY <1>0, <3>1 DEF Becomes
    <3> QED
      BY <1>3, <3>2 DEF Sessions
  <2>3. \A d \in Open : /\ sess'[d].registered = sess[d].registered
                        /\ sess'[d].id = sess[d].id
    BY <1>1, <2>2 DEF Open
  <2> QED
    BY <1>1, <1>2, <2>1, <2>3, LiveKept DEF Live
<1> QED
  BY <1>5, <1>6

\* The other frames.
LEMMA HandlerLive ==
    ASSUME OnePublisher, Typed, CountInv, LiveBootHasSession,
           NEW c \in Conns, Handler(c)
    PROVE  LiveBootHasSession'
<1>0. store \in Stores
  BY DEF Typed, StoreTyped
<1>1. CASE HandleHello(c)
  BY <1>1, HelloLive
<1>2. CASE ~HandleHello(c)
  <2>1. /\ \A d \in Conns : sess'[d].st = sess[d].st
        /\ \A d \in Conns : /\ sess'[d].registered = sess[d].registered
                            /\ sess'[d].id = sess[d].id
        /\ lapsed' = lapsed
    BY <1>2, HandlerKeeps
  <2>2. Open' = Open
    BY <2>1 DEF Open
  <2>3. \/ store'.pubs = store.pubs \/ \E w : store' = AfterFence(w)
    <3>1. CASE HandlePublish(c)
      BY <1>0, <3>1 DEF HandlePublish, Stores
    <3>2. CASE HandleNotify(c)
      BY <1>0, <3>2 DEF HandleNotify, Stores
    <3>3. CASE ~HandlePublish(c) /\ ~HandleNotify(c)
      BY <1>2, <3>3 DEF Handler, RefuseFrame, HandlePing, HandleBye,
                        RefuseRequest, HandleFence, HandleQuery
    <3> QED
      BY <3>1, <3>2, <3>3
  <2>4. \A w \in Identities : store'.pubs[w] = "Live" => Live(w)
    <3>1. CASE store'.pubs = store.pubs
      BY <3>1 DEF Live
    <3>2. CASE \E w : store' = AfterFence(w)
      BY <1>0, <3>2, FenceKeeps
    <3> QED
      BY <2>3, <3>1, <3>2
  <2>5. \A d \in Open : sess'[d].registered = sess[d].registered
                        /\ sess'[d].id = sess[d].id
    BY <2>1 DEF Open
  <2> QED
    BY <2>1, <2>2, <2>4, <2>5, LiveKept
<1> QED
  BY <1>1, <1>2

\* A session that is closed takes its boot along.
LEMMA CloseLive ==
    ASSUME Typed, LiveBootHasSession, NEW c \in Open, close_session(c)
    PROVE  LiveBootHasSession'
<1> DEFINE w == sess[c].id.who
<1>0. /\ store \in Stores /\ sess \in [Conns -> Sessions] /\ c \in Conns
      /\ sess[c] \in SessionsOf(c)
  BY DEF Typed, StoreTyped, SessTyped, Open
<1>1. \A d \in Conns : d # c => sess'[d] = sess[d]
  BY <1>0 DEF close_session
<1>2. \A d \in Open : d # c => d \in Open'
  BY <1>1 DEF Open
<1>3. /\ store' = store \/ store' = AfterFence(w)
      /\ lapsed \subseteq lapsed'
      /\ sess[c].registered => store' = AfterFence(w) \/ w \in lapsed'
  BY DEF close_session
<1>4. sess[c].registered => w \in Identities
  BY <1>0, HelloIds DEF SessionsOf
<1> HIDE DEF w
<1>5. \A v \in Identities : store'.pubs[v] = "Live" => Live(v)
  <2>1. CASE store' = store
    BY <2>1 DEF Live
  <2>2. CASE store' = AfterFence(w)
    BY <1>0, <2>2, FenceKeeps
  <2> QED
    BY <1>3, <2>1, <2>2
<1>6. sess[c].registered => store'.pubs[w] # "Live" \/ w \in lapsed'
  BY <1>0, <1>3, <1>4, FenceKeeps
<1>7. ASSUME NEW v \in Identities \ {Coord}, store'.pubs[v] = "Live",
             v \notin lapsed'
      PROVE  \E d \in Open' : sess'[d].registered /\ sess'[d].id.who = v
  <2>1. Live(v) /\ v \notin lapsed
    BY <1>3, <1>5, <1>7
  <2>2. PICK d \in Open : sess[d].registered /\ sess[d].id.who = v
    BY <2>1 DEF LiveBootHasSession
  <2>3. d # c
    BY <1>6, <1>7, <2>2 DEF w
  <2> QED
    BY <1>1, <1>2, <2>2, <2>3 DEF Open
<1> QED
  BY <1>7 DEF LiveBootHasSession, Live

\* Every step keeps a session for every live boot.
LEMMA NextLive ==
    ASSUME OnePublisher, Typed, CountInv, LiveBootHasSession, Next
    PROVE  LiveBootHasSession'
<1>0. /\ store \in Stores /\ sess \in [Conns -> Sessions]
      /\ \A c \in Conns : sess[c] \in Sessions
  BY DEF Typed, StoreTyped, SessTyped
<1>1. CASE ClientStep \/ LeaveLoop \/ EndLoop
  <2>1. UNCHANGED <<store, sess, lapsed>>
    BY <1>1 DEF ClientStep, Connect, Send, SendRest, Receive, Timeout,
                SessionLost, Disconnect, LeaveLoop, EndLoop, serverVars
  <2> QED
    BY <2>1 DEF LiveBootHasSession, Live, Open
<1>2. CASE MainStep
  <2>1. UNCHANGED <<sess, lapsed>> /\ store'.pubs = store.pubs
    BY <1>0, <1>2 DEF MainStep, AdvanceStore, AdvanceAuthority, Stop, Joined,
                      serverVars, Stores
  <2> QED
    BY <2>1 DEF LiveBootHasSession, Live, Open
<1>3. CASE Select
  <2>1. PICK accepted \in SUBSET Queued :
           sess' = [c \in Conns |->
                      IF c \in accepted THEN NewSession
                      ELSE IF c \in Open
                      THEN [sess[c] EXCEPT
                               !.input = sess[c].input \o link[c].up,
                               !.closing = sess[c].closing \/ link[c].eof]
                      ELSE sess[c]]
    BY <1>3 DEF Select
  <2>2. accepted \cap Open = {}
    BY <2>1 DEF Queued, Open, CountInv, OnceInv
  <2>3. \A c \in Open : /\ sess'[c].st = sess[c].st
                        /\ sess'[c].registered = sess[c].registered
                        /\ sess'[c].id = sess[c].id
    BY <1>0, <2>1, <2>2 DEF Sessions, Open
  <2>4. \A c \in Open : c \in Open'
    BY <2>3 DEF Open
  <2>5. UNCHANGED <<store, lapsed>>
    BY <1>3 DEF Select
  <2> QED
    BY <2>3, <2>4, <2>5, LiveKept DEF Live
<1>4. ASSUME NEW c \in Conns, AwaitRest(c) PROVE LiveBootHasSession'
  <2>1. \A d \in Open : /\ sess'[d].st = sess[d].st
                        /\ sess'[d].registered = sess[d].registered
                        /\ sess'[d].id = sess[d].id
    BY <1>0, <1>4 DEF AwaitRest, Sessions, Open
  <2>2. \A d \in Open : d \in Open'
    BY <2>1 DEF Open
  <2> QED
    BY <1>4, <2>1, <2>2, LiveKept DEF AwaitRest, Live
<1>5. CASE Probe
  <2>1. \A c \in Open : /\ sess'[c].st = sess[c].st
                        /\ sess'[c].registered = sess[c].registered
                        /\ sess'[c].id = sess[c].id
    BY <1>0, <1>5 DEF Probe, Sessions, Open
  <2>2. \A c \in Open : c \in Open'
    BY <2>1 DEF Open
  <2> QED
    BY <1>5, <2>1, <2>2, LiveKept DEF Probe, Live
<1>6. ASSUME NEW c \in Conns, Handler(c) PROVE LiveBootHasSession'
  BY <1>6, HandlerLive
<1>7. ASSUME NEW c \in Conns, CloseSession(c) \/ DrainSession(c)
      PROVE  LiveBootHasSession'
  BY <1>7, CloseLive DEF CloseSession, DrainSession
<1> QED
  BY <1>1, <1>2, <1>3, <1>4, <1>5, <1>6, <1>7 DEF Next, ServerStep, Handler

\* However sessions end, no boot is live without one, unless the fence at its
\* end was refused (LiveBootHasSession): for every script in which a connection
\* presents boots of one publisher.
THEOREM LiveBootsHaveSessions ==
    ASSUME OnePublisher
    PROVE  Spec => []LiveBootHasSession
<1>1. Init => LiveBootHasSession
  BY DEF Init, LiveBootHasSession, Live
<1>2. Typed /\ CountInv /\ LiveBootHasSession /\ [Next]_vars
         => LiveBootHasSession'
  <2>1. LiveBootHasSession /\ UNCHANGED vars => LiveBootHasSession'
    BY DEF LiveBootHasSession, Live, Open, vars
  <2> QED
    BY <2>1, NextLive
<1> QED
  BY <1>1, <1>2, Counted, PTL DEF Spec

-----------------------------------------------------------------------------
(* Answers reach their requests *)

\* What of frame f may be in the session's input (x) and on its way to it (y):
\* a half of it, both, or nothing any more.
Halves(f) ==
    {<<>>, <<Head_(f)>>, <<Tail_(f)>>, <<Head_(f), Tail_(f)>>}

Underway(x, y, f) ==
    \/ x = <<>> /\ y \in Halves(f)
    \/ y = <<>> /\ x \in Halves(f)
    \/ x = <<Head_(f)>> /\ y = <<Tail_(f)>>

\* The same when only its first half was sent.
Begun(x, y, f) ==
    \/ x = <<>> /\ y \in {<<>>, <<Head_(f)>>}
    \/ y = <<>> /\ x \in {<<>>, <<Head_(f)>>}

\* a answers the request c waits for.
AnswerTo(c, a) ==
    /\ a.n = client[c].ask.n
    /\ client[c].ask.msg = "Publish" /\ a.ok => <<c, a.n>> \in store.applied

\* While no exchange of c timed out, there is at most one request of c, or one
\* answer, between c and the coordinator: nothing at all while c is not in an
\* exchange, and the answer only after the whole request was used up.
Idle(c) ==
    sess[c].input = <<>> /\ link[c].up = <<>> /\ link[c].down = <<>>

Sending(c) ==
    /\ Begun(sess[c].input, link[c].up, client[c].ask)
    /\ link[c].down = <<>>

Waiting(c) ==
    \/ /\ Underway(sess[c].input, link[c].up, client[c].ask)
       /\ link[c].down = <<>>
    \/ /\ sess[c].input = <<>> /\ link[c].up = <<>>
       /\ \E a \in Answers : link[c].down = <<a>> /\ AnswerTo(c, a)

ExchangeOf(c) ==
    ~client[c].late => /\ client[c].st \in {"new", "open"} => Idle(c)
                       /\ client[c].st = "sending" => Sending(c)
                       /\ client[c].st = "wait" => Waiting(c)

ExchangeInv == \A c \in Conns : ExchangeOf(c)

\* Two single elements make a pair.
LEMMA PairConcat ==
    ASSUME NEW h, NEW t
    PROVE  <<h>> \o <<t>> = <<h, t>>
<1> DEFINE S == {h, t}
           x == <<h>> \o <<t>>
           y == <<h, t>>
<1>1. <<h>> \in Seq(S) /\ <<t>> \in Seq(S)
  OBVIOUS
<1>2. Len(<<h>>) = 1 /\ Len(<<t>>) = 1 /\ <<h>>[1] = h /\ <<t>>[1] = t
  OBVIOUS
<1>3. /\ x \in Seq(S) /\ Len(x) = Len(<<h>>) + Len(<<t>>)
      /\ \A i \in 1..(Len(<<h>>) + Len(<<t>>)) :
            x[i] = IF i <= Len(<<h>>) THEN <<h>>[i]
                   ELSE <<t>>[i - Len(<<h>>)]
  BY <1>1, ConcatProperties
<1>4. Len(x) = 2 /\ x[1] = h /\ x[2] = t
  BY <1>2, <1>3
<1>5. y \in Seq(S) /\ Len(y) = 2 /\ y[1] = h /\ y[2] = t
  OBVIOUS
<1> HIDE DEF S, x, y
<1>6. \A i \in 1..2 : x[i] = y[i]
  BY <1>4, <1>5
<1>7. x = y
  BY <1>3, <1>4, <1>5, <1>6, SeqEqual
<1> QED
  BY <1>7 DEF x, y

\* The halves of a frame move from the socket to the input, are sent, or are
\* lost.
LEMMA HalvesMove ==
    ASSUME NEW x, NEW y, NEW f
    PROVE  /\ Underway(x, y, f) => Underway(x \o y, <<>>, f)
           /\ Underway(x, y, f) => Underway(<<>>, y, f)
           /\ Begun(x, y, f) => Begun(x \o y, <<>>, f)
           /\ Begun(x, y, f) => Begun(<<>>, y, f)
           /\ Begun(x, y, f) => Underway(x, y, f)
           /\ Begun(x, y, f) => Underway(x, y \o <<Tail_(f)>>, f)
           /\ Underway(<<>>, <<>>, f) /\ Begun(<<>>, <<>>, f)
<1> DEFINE h == Head_(f)
           t == Tail_(f)
<1> HIDE DEF h, t
<1>1. /\ <<>> \o <<>> = <<>> /\ <<>> \o <<h>> = <<h>> /\ <<>> \o <<t>> = <<t>>
      /\ <<>> \o <<h, t>> = <<h, t>> /\ <<h>> \o <<t>> = <<h, t>>
      /\ <<h>> \o <<>> = <<h>> /\ <<t>> \o <<>> = <<t>>
      /\ <<h, t>> \o <<>> = <<h, t>>
  <2>1. /\ <<>> \in Seq({h, t}) /\ <<h>> \in Seq({h, t})
        /\ <<t>> \in Seq({h, t}) /\ <<h, t>> \in Seq({h, t})
    OBVIOUS
  <2> QED
    BY <2>1, ConcatEmptySeq, PairConcat
<1>2. /\ Underway(x, y, f) <=>
            \/ x = <<>> /\ y \in {<<>>, <<h>>, <<t>>, <<h, t>>}
            \/ y = <<>> /\ x \in {<<>>, <<h>>, <<t>>, <<h, t>>}
            \/ x = <<h>> /\ y = <<t>>
      /\ Begun(x, y, f) <=> \/ x = <<>> /\ y \in {<<>>, <<h>>}
                            \/ y = <<>> /\ x \in {<<>>, <<h>>}
  BY DEF Underway, Begun, Halves, h, t
<1>3. Underway(x, y, f) => Underway(x \o y, <<>>, f) /\ Underway(<<>>, y, f)
  <2>1. Underway(x, y, f) => x \o y \in {<<>>, <<h>>, <<t>>, <<h, t>>}
    BY <1>1, <1>2
  <2>2. Underway(x, y, f) => y \in {<<>>, <<h>>, <<t>>, <<h, t>>}
    BY <1>2
  <2> QED
    BY <2>1, <2>2 DEF Underway, Halves, h, t
<1>4. Begun(x, y, f) => /\ Begun(x \o y, <<>>, f) /\ Begun(<<>>, y, f)
                        /\ Underway(x, y, f)
  <2>1. Begun(x, y, f) => x \o y \in {<<>>, <<h>>}
    BY <1>1, <1>2
  <2>2. Begun(x, y, f) => y \in {<<>>, <<h>>} /\ Underway(x, y, f)
    BY <1>2
  <2> QED
    BY <2>1, <2>2 DEF Begun, h
<1>5. Begun(x, y, f) => Underway(x, y \o <<t>>, f)
  <2>1. Begun(x, y, f) => \/ x = <<>> /\ y \o <<t>> \in {<<t>>, <<h, t>>}
                          \/ x = <<h>> /\ y \o <<t>> = <<t>>
    BY <1>1, <1>2
  <2> QED
    BY <2>1 DEF Underway, Halves, h, t
<1>6. Underway(<<>>, <<>>, f) /\ Begun(<<>>, <<>>, f)
  BY DEF Underway, Begun, Halves
<1> QED
  BY <1>3, <1>4, <1>5, <1>6 DEF t

\* A complete frame is in the input only as the frame c waits for.
LEMMA WholeFrame ==
    ASSUME NEW x, NEW y, NEW f, Len(x) >= 2, Underway(x, y, f)
    PROVE  /\ x = <<Head_(f), Tail_(f)>> /\ y = <<>>
           /\ x[1].frame = f /\ SubSeq(x, 3, Len(x)) = <<>>
<1> DEFINE h == Head_(f)
           t == Tail_(f)
<1> HIDE DEF h, t
<1>1. ~(0 >= 2) /\ ~(1 >= 2) /\ Len(<<>>) = 0 /\ Len(<<h>>) = 1
      /\ Len(<<t>>) = 1 /\ Len(<<h, t>>) = 2
  OBVIOUS
<1>2. x = <<h, t>> /\ y = <<>>
  BY <1>1 DEF Underway, Halves, h, t
<1>3. x[1] = h /\ Len(x) = 2 /\ SubSeq(<<h, t>>, 3, 2) = <<>>
  BY <1>2
<1> QED
  BY <1>2, <1>3 DEF h, t, Head_

\* A step that moves nothing between c and the coordinator.
LEMMA ExchangeKept ==
    ASSUME NEW c \in Conns, ExchangeOf(c), client'[c] = client[c],
           sess'[c].input = sess[c].input, link'[c].up = link[c].up,
           link'[c].down = link[c].down,
           store.applied \subseteq store'.applied
    PROVE  ExchangeOf(c)'
<1>1. \A a : AnswerTo(c, a) => AnswerTo(c, a)'
  BY DEF AnswerTo
<1>2. Waiting(c) => Waiting(c)'
  BY <1>1 DEF Waiting
<1> QED
  BY <1>2 DEF ExchangeOf, Idle, Sending

\* What a handler does to the exchange: it uses up one frame, commits what it
\* reports as committed and answers that frame or nothing.
LEMMA HandlerAnswers ==
    ASSUME Typed, NEW c \in Conns, Handler(c)
    PROVE  /\ AtFrame(c) /\ client' = client
           /\ store.applied \subseteq store'.applied
           /\ sess'[c].input = SubSeq(sess[c].input, 3, Len(sess[c].input))
           /\ \A d \in Conns : d # c => sess'[d] = sess[d]
           /\ \/ link' = link
              \/ \E a \in Answers :
                    /\ link' = Sent(c, a) /\ a.n = FirstFrame(c).n
                    /\ FirstFrame(c).msg = "Publish" /\ a.ok =>
                          <<c, a.n>> \in store'.applied
<1> DEFINE f == FirstFrame(c)
           rest == SubSeq(sess[c].input, 3, Len(sess[c].input))
<1>0. /\ store \in Stores /\ sess \in [Conns -> Sessions]
      /\ sess[c] \in Sessions
  BY DEF Typed, StoreTyped, SessTyped
<1>1. AtFrame(c)
  BY DEF Handler, RefuseFrame, HandlePing, HandleBye, HandleHello,
         RefuseRequest, HandlePublish, HandleNotify, HandleFence, HandleQuery,
         Serves, Handles
<1>2. f.n \in Nat /\ Taken(c) \in Sessions
  BY <1>1, FrameTyped DEF SessionsOf
<1>3. Taken(c).input = rest
  <2>1. Taken(c) = [sess[c] EXCEPT !.input = rest, !.assembling = FALSE]
    BY DEF Taken
  <2> HIDE DEF rest
  <2> QED
    BY <1>0, <2>1 DEF Sessions
<1>4. client' = client
  BY HandlerKeeps
<1>5. \A d \in Conns : d # c => sess'[d] = sess[d]
  BY HandlerKeeps
<1>6. sess'[c].input = rest
  <2>1. PICK s : Becomes(c, s) /\ s.input = Taken(c).input
    <3>1. CASE HandleHello(c)
      <4>1. PICK s, b : /\ Becomes(c, s)
                        /\ \/ s = [Taken(c) EXCEPT !.registered = TRUE,
                                      !.id = FirstFrame(c).arg, !.closing = b]
                           \/ s = [Taken(c) EXCEPT !.closing = TRUE]
        BY <3>1 DEF HandleHello
      <4>2. s.input = Taken(c).input
        BY <1>2, <4>1 DEF Sessions
      <4> QED
        BY <4>1, <4>2
    <3>2. CASE ~HandleHello(c)
      <4> DEFINE u == [Taken(c) EXCEPT !.closing = TRUE]
      <4>1. Becomes(c, Taken(c)) \/ Becomes(c, u)
        BY <3>2 DEF Handler, RefuseFrame, HandlePing, HandleBye,
                    RefuseRequest, HandlePublish, HandleNotify, HandleFence,
                    HandleQuery, Serves
      <4>2. u.input = Taken(c).input
        BY <1>2 DEF Sessions
      <4> HIDE DEF u
      <4> QED
        BY <4>1, <4>2
    <3> QED
      BY <3>1, <3>2
  <2>2. sess'[c] = s
    BY <1>0, <2>1 DEF Becomes
  <2> QED
    BY <1>3, <2>1, <2>2
<1>7. \A kind \in {"HelloAck", "Result", "Error", "Pong"}, ok \in BOOLEAN :
         LET a == Answer(kind, f.n, ok)
         IN a \in Answers /\ a.n = f.n /\ a.ok = ok
  BY <1>2, AnswerTyped DEF Answer
<1> DEFINE Answered ==
              \/ link' = link
              \/ \E a \in Answers :
                    /\ link' = Sent(c, a) /\ a.n = f.n
                    /\ f.msg = "Publish" /\ a.ok =>
                          <<c, a.n>> \in store'.applied
<1>8. ASSUME NEW kind \in {"HelloAck", "Result", "Error", "Pong"},
             NEW ok \in BOOLEAN, link' = Sent(c, Answer(kind, f.n, ok)),
             f.msg # "Publish" \/ ~ok \/ <<c, f.n>> \in store'.applied
      PROVE  Answered
  BY <1>7, <1>8
<1>9. /\ \A w : /\ AfterRegister(w).applied = store.applied
                /\ AfterFence(w).applied = store.applied
      /\ \A e : [store EXCEPT !.epoch = e].applied = store.applied
  BY <1>0 DEF AfterRegister, AfterFence, Stores
<1> HIDE DEF f, rest, Answered
<1>10. CASE RefuseFrame(c)
  <2>1. /\ store' = store
        /\ link' = link \/ link' = Sent(c, Answer("Error", f.n, FALSE))
    BY <1>10 DEF RefuseFrame, f
  <2>2. Answered
    BY <1>8, <2>1 DEF Answered
  <2> QED
    BY <1>1, <1>4, <1>5, <1>6, <2>1, <2>2 DEF Answered, f, rest
<1>11. CASE HandlePing(c)
  <2>1. /\ store' = store /\ f.msg # "Publish"
        /\ link' = Sent(c, Answer("Pong", f.n, TRUE))
    BY <1>11 DEF HandlePing, Handles, f
  <2>2. Answered
    BY <1>8, <2>1
  <2> QED
    BY <1>1, <1>4, <1>5, <1>6, <2>1, <2>2 DEF Answered, f, rest
<1>12. CASE HandleBye(c)
  <2>1. store' = store /\ link' = link
    BY <1>12 DEF HandleBye
  <2> QED
    BY <1>1, <1>4, <1>5, <1>6, <2>1 DEF f, rest
<1>13. CASE HandleHello(c)
  <2> DEFINE ok == CanRegister(f.arg.who, f.arg.epoch)
  <2>1. ok \in BOOLEAN
    BY DEF CanRegister
  <2>2. /\ f.msg # "Publish"
        /\ store' = IF ok THEN AfterRegister(f.arg.who) ELSE store
        /\ link' = Sent(c, Answer("HelloAck", f.n, ok))
    BY <1>13 DEF HandleHello, Handles, f
  <2> HIDE DEF ok
  <2>3. Answered
    BY <1>8, <2>1, <2>2
  <2>4. store'.applied = store.applied
    BY <1>9, <2>2
  <2> QED
    BY <1>1, <1>4, <1>5, <1>6, <2>3, <2>4 DEF Answered, f, rest
<1>14. CASE RefuseRequest(c)
  <2>1. /\ store' = store
        /\ link' = Sent(c, Answer("Error", f.n, FALSE))
    BY <1>14 DEF RefuseRequest, f
  <2>2. Answered
    BY <1>8, <2>1
  <2> QED
    BY <1>1, <1>4, <1>5, <1>6, <2>1, <2>2 DEF Answered, f, rest
<1>15. CASE HandlePublish(c)
  <2>1. PICK ok \in {FALSE, Authorized(sess[c].id)} :
           /\ store' = IF ok THEN [store EXCEPT !.applied =
                                      store.applied \cup {<<c, f.n>>}]
                       ELSE store
           /\ link' = Sent(c, Answer("Result", f.n, ok))
    BY <1>15 DEF HandlePublish, f
  <2>2. ok \in BOOLEAN
    BY DEF Authorized
  <2>3. /\ store.applied \subseteq store'.applied
        /\ ok => <<c, f.n>> \in store'.applied
    BY <1>0, <2>1 DEF Stores
  <2>4. Answered
    BY <1>8, <2>1, <2>2, <2>3
  <2> QED
    BY <1>1, <1>4, <1>5, <1>6, <2>3, <2>4 DEF Answered, f, rest
<1>16. CASE HandleNotify(c)
  <2> DEFINE e == f.arg.epoch
             ok == Authorized(sess[c].id) /\ e > store.epoch
  <2>1. ok \in BOOLEAN
    BY DEF Authorized
  <2>2. /\ store' = IF ok THEN [store EXCEPT !.epoch = e] ELSE store
        /\ link' = Sent(c, Answer("Result", f.n, ok)) /\ f.msg # "Publish"
    BY <1>16 DEF HandleNotify, Serves, Handles, f
  <2> HIDE DEF ok, e
  <2>3. Answered
    BY <1>8, <2>1, <2>2
  <2>4. store'.applied = store.applied
    BY <1>9, <2>2
  <2> QED
    BY <1>1, <1>4, <1>5, <1>6, <2>3, <2>4 DEF Answered, f, rest
<1>17. CASE HandleFence(c)
  <2> DEFINE w == f.arg.who
             ok == Authorized(f.from) /\ store.pubs[w] # "Unknown"
  <2>1. ok \in BOOLEAN
    BY DEF Authorized
  <2>2. /\ store' = IF ok THEN AfterFence(w) ELSE store
        /\ link' = Sent(c, Answer("Result", f.n, ok)) /\ f.msg # "Publish"
    BY <1>17 DEF HandleFence, Serves, Handles, f
  <2> HIDE DEF ok, w
  <2>3. Answered
    BY <1>8, <2>1, <2>2
  <2>4. store'.applied = store.applied
    BY <1>9, <2>2
  <2> QED
    BY <1>1, <1>4, <1>5, <1>6, <2>3, <2>4 DEF Answered, f, rest
<1>18. CASE HandleQuery(c)
  <2>1. /\ store' = store /\ f.msg # "Publish"
        /\ \/ link' = link
           \/ \E ok \in BOOLEAN : link' = Sent(c, Answer("Result", f.n, ok))
    BY <1>18 DEF HandleQuery, Serves, Handles, f
  <2>2. Answered
    BY <1>8, <2>1 DEF Answered
  <2> QED
    BY <1>1, <1>4, <1>5, <1>6, <2>1, <2>2 DEF Answered, f, rest
<1> QED
  BY <1>10, <1>11, <1>12, <1>13, <1>14, <1>15, <1>16, <1>17, <1>18
     DEF Handler

\* A socket to which an answer is sent.
LEMMA SentLink ==
    ASSUME LinkTyped, NEW c \in Conns, NEW a \in Answers, link' = Sent(c, a)
    PROVE  /\ \A d \in Conns : d # c => link'[d] = link[d]
           /\ link'[c].up = link[c].up
           /\ link[c].down = <<>> => link'[c].down \in {<<>>, <<a>>}
<1>0. link \in [Conns -> Links] /\ link[c] \in Links
  BY DEF LinkTyped
<1>1. CASE link[c].eof
  BY <1>1 DEF Sent
<1>2. CASE ~link[c].eof
  <2> DEFINE down == Append(link[c].down, a)
  <2>1. link' = [link EXCEPT ![c].down = down]
    BY <1>2 DEF Sent
  <2>2. link[c].down = <<>> => down = <<a>>
    OBVIOUS
  <2> HIDE DEF down
  <2>3. /\ \A d \in Conns : d # c => link'[d] = link[d]
        /\ link'[c].up = link[c].up /\ link'[c].down = down
    BY <1>0, <2>1 DEF Links
  <2> QED
    BY <2>2, <2>3
<1> QED
  BY <1>1, <1>2

\* A frame is handled only for a client that waits for its answer.
LEMMA HandlerExchange ==
    ASSUME Typed, ExchangeInv, NEW c \in Conns, Handler(c)
    PROVE  ExchangeInv'
<1>0. /\ AtFrame(c) /\ client' = client
      /\ store.applied \subseteq store'.applied
      /\ sess'[c].input = SubSeq(sess[c].input, 3, Len(sess[c].input))
      /\ \A d \in Conns : d # c => sess'[d] = sess[d]
  BY HandlerAnswers
<1>1. \/ link' = link
      \/ \E a \in Answers :
            /\ link' = Sent(c, a) /\ a.n = FirstFrame(c).n
            /\ FirstFrame(c).msg = "Publish" /\ a.ok =>
                  <<c, a.n>> \in store'.applied
  BY HandlerAnswers
<1>2. LinkTyped
  BY DEF Typed
<1>3. ASSUME NEW d \in Conns, d # c PROVE ExchangeOf(d)'
  <2>1. link'[d] = link[d]
    BY <1>1, <1>2, <1>3, SentLink
  <2> QED
    BY <1>0, <1>3, <2>1, ExchangeKept DEF ExchangeInv
<1>4. ExchangeOf(c)'
  <2> DEFINE f == client[c].ask
             x == sess[c].input
             y == link[c].up
  <2> SUFFICES ASSUME ~client[c].late PROVE ExchangeOf(c)'
    BY <1>0 DEF ExchangeOf
  <2>1. Len(x) >= 2
    BY <1>0 DEF AtFrame
  <2>2. x # <<>>
    BY <2>1
  <2>3. client[c].st \notin {"new", "open"}
    BY <2>2 DEF ExchangeInv, ExchangeOf, Idle
  <2>4. client[c].st # "sending"
    <3>1. x # <<Head_(f)>>
      <4> DEFINE h == Head_(f)
      <4> HIDE DEF h
      <4>1. Len(<<h>>) = 1 /\ ~(1 >= 2)
        OBVIOUS
      <4> QED
        BY <2>1, <4>1 DEF h
    <3>2. ~Begun(x, y, f)
      BY <2>2, <3>1 DEF Begun
    <3> QED
      BY <3>2 DEF ExchangeInv, ExchangeOf, Sending
  <2>5. CASE client[c].st # "wait"
    BY <1>0, <2>3, <2>4, <2>5 DEF ExchangeOf
  <2>6. CASE client[c].st = "wait"
    <3>1. Underway(x, y, f) /\ link[c].down = <<>>
      BY <2>2, <2>6 DEF ExchangeInv, ExchangeOf, Waiting
    <3>2. /\ y = <<>> /\ FirstFrame(c) = f
          /\ SubSeq(x, 3, Len(x)) = <<>>
      BY <2>1, <3>1, WholeFrame DEF FirstFrame
    <3>3. sess'[c].input = <<>>
      BY <1>0, <3>2
    <3>4. \/ link'[c].up = <<>> /\ link'[c].down = <<>>
          \/ \E a \in Answers :
                /\ link'[c].up = <<>> /\ link'[c].down \in {<<>>, <<a>>}
                /\ a.n = f.n
                /\ f.msg = "Publish" /\ a.ok => <<c, a.n>> \in store'.applied
      <4>1. CASE link' = link
        BY <3>1, <3>2, <4>1
      <4>2. CASE link' # link
        <5>1. PICK a \in Answers :
                 /\ link' = Sent(c, a) /\ a.n = FirstFrame(c).n
                 /\ FirstFrame(c).msg = "Publish" /\ a.ok =>
                       <<c, a.n>> \in store'.applied
          BY <1>1, <4>2
        <5>2. link'[c].up = y /\ link'[c].down \in {<<>>, <<a>>}
          BY <1>2, <3>1, <5>1, SentLink
        <5> QED
          BY <3>2, <5>1, <5>2
      <4> QED
        BY <4>1, <4>2
    <3>5. client'[c] = client[c]
      BY <1>0
    <3>6. Underway(<<>>, <<>>, f)
      BY HalvesMove
    <3>7. Waiting(c)'
      <4>1. CASE link'[c].up = <<>> /\ link'[c].down = <<>>
        BY <3>3, <3>5, <3>6, <4>1 DEF Waiting
      <4>2. CASE \E a \in Answers :
                /\ link'[c].up = <<>> /\ link'[c].down = <<a>>
                /\ a.n = f.n
                /\ f.msg = "Publish" /\ a.ok => <<c, a.n>> \in store'.applied
        BY <3>3, <3>5, <4>2 DEF Waiting, AnswerTo
      <4> QED
        BY <3>4, <4>1, <4>2
    <3> QED
      BY <2>6, <3>5, <3>7 DEF ExchangeOf
  <2> QED
    BY <2>5, <2>6
<1> QED
  BY <1>3, <1>4 DEF ExchangeInv

\* A client sends, receives, gives up or goes away.
LEMMA ClientExchange ==
    ASSUME Typed, ExchangeInv, ClientStep
    PROVE  ExchangeInv'
<1>0. /\ client \in [Conns -> Clients] /\ link \in [Conns -> Links]
      /\ \A c \in Conns : client[c] \in Clients /\ link[c] \in Links
  BY DEF Typed, ClientTyped, LinkTyped
<1> SUFFICES ASSUME NEW c \in Conns,
                    \/ Connect(c)
                    \/ (\E r \in Script[c][client[c].sent + 1] : Send(c, r))
                    \/ SendRest(c) \/ Receive(c) \/ Timeout(c)
                    \/ SessionLost(c) \/ Disconnect(c)
             PROVE  ExchangeInv'
  BY DEF ClientStep
<1> DEFINE x == sess[c].input
           y == link[c].up
<1>a. client[c] \in Clients /\ link[c] \in Links
  BY <1>0
<1>b. sess' = sess /\ store' = store
  BY DEF Connect, Send, SendRest, Receive, Timeout, SessionLost, Disconnect,
         serverVars
<1>c. \A d \in Conns : d # c => client'[d] = client[d] /\ link'[d] = link[d]
  BY <1>0 DEF Connect, Send, SendRest, Receive, Timeout, SessionLost,
              Disconnect, Written
<1>d. \A d \in Conns : d # c => ExchangeOf(d)'
  BY <1>b, <1>c, ExchangeKept DEF ExchangeInv
<1>e. ASSUME NEW tokens, link' = Written(c, tokens)
      PROVE  /\ link'[c].down = link[c].down
             /\ link'[c].up = y \/ link'[c].up = y \o tokens
  <2> DEFINE z == y \o tokens
  <2>1. link' = link \/ link' = [link EXCEPT ![c].up = z]
    BY <1>e DEF Written
  <2> HIDE DEF z
  <2>2. /\ link'[c].down = link[c].down
        /\ link'[c].up = y \/ link'[c].up = z
    BY <1>0, <1>a, <2>1 DEF Links
  <2> QED
    BY <2>2 DEF z
<1>1. CASE Connect(c)
  <2>1. /\ client[c].st = "new" /\ client'[c].st = "open"
        /\ client'[c].late = client[c].late
        /\ link'[c].up = y /\ link'[c].down = link[c].down
    BY <1>0, <1>a, <1>1 DEF Connect, Clients, Links
  <2> QED
    BY <1>b, <1>d, <2>1 DEF ExchangeInv, ExchangeOf, Idle
<1>2. ASSUME NEW r \in Script[c][client[c].sent + 1], Send(c, r)
      PROVE  ExchangeInv'
  <2> DEFINE f == [msg |-> r.msg, n |-> client[c].sent + 1,
                   from |-> client[c].id, arg |-> r.arg]
             st == IF r.stalls THEN "sending" ELSE "wait"
             tokens == IF r.stalls THEN <<Head_(f)>>
                       ELSE <<Head_(f), Tail_(f)>>
             m == client[c].sent + 1
  <2>1. /\ client[c].st = "open" /\ link' = Written(c, tokens)
        /\ client' = [client EXCEPT ![c].st = st, ![c].sent = m,
                                    ![c].ask = f]
    BY <1>0, <1>2 DEF Send
  <2> HIDE DEF f, st, m
  <2>2. /\ client'[c].st = st /\ client'[c].ask = f
        /\ client'[c].late = client[c].late
    BY <1>0, <1>a, <2>1 DEF Clients
  <2>3. ASSUME ~client[c].late
        PROVE  /\ st = "sending" => Sending(c)'
               /\ st = "wait" => Waiting(c)'
    <3>1. x = <<>> /\ y = <<>> /\ link[c].down = <<>>
      BY <2>1, <2>3 DEF ExchangeInv, ExchangeOf, Idle
    <3>2. y \o tokens = tokens
      <4>1. tokens \in Seq({Head_(f), Tail_(f)})
        <5>1. /\ <<Head_(f)>> \in Seq({Head_(f), Tail_(f)})
              /\ <<Head_(f), Tail_(f)>> \in Seq({Head_(f), Tail_(f)})
          OBVIOUS
        <5> QED
          BY <5>1, Zenon
      <4> HIDE DEF tokens
      <4> QED
        BY <3>1, <4>1, ConcatEmptySeq
    <3>3. link'[c].down = <<>> /\ link'[c].up \in {<<>>, tokens}
      <4> HIDE DEF tokens
      <4> QED
        BY <1>e, <2>1, <3>1, <3>2
    <3>4. CASE r.stalls
      <4>1. st = "sending" /\ link'[c].up \in {<<>>, <<Head_(f)>>}
        BY <3>3, <3>4 DEF st
      <4>2. Begun(x, link'[c].up, f)
        BY <3>1, <4>1 DEF Begun
      <4> QED
        BY <1>b, <2>2, <3>3, <4>1, <4>2 DEF Sending
    <3>5. CASE ~r.stalls
      <4>1. /\ st = "wait"
            /\ link'[c].up \in {<<>>, <<Head_(f), Tail_(f)>>}
        BY <3>3, <3>5 DEF st
      <4>2. Underway(x, link'[c].up, f)
        BY <3>1, <4>1 DEF Underway, Halves
      <4> QED
        BY <1>b, <2>2, <3>3, <4>1, <4>2 DEF Waiting
    <3> QED
      BY <3>4, <3>5
  <2>4. st \in {"sending", "wait"}
    BY DEF st
  <2>5. ExchangeOf(c)'
    BY <2>2, <2>3, <2>4 DEF ExchangeOf
  <2> QED
    BY <1>d, <2>5 DEF ExchangeInv
<1>3. CASE SendRest(c)
  <2> DEFINE f == client[c].ask
  <2>1. /\ client[c].st = "sending" /\ link' = Written(c, <<Tail_(f)>>)
        /\ client' = [client EXCEPT ![c].st = "wait"]
    BY <1>3 DEF SendRest
  <2>2. /\ client'[c].st = "wait" /\ client'[c].ask = f
        /\ client'[c].late = client[c].late
    BY <1>0, <1>a, <2>1 DEF Clients
  <2>3. ASSUME ~client[c].late PROVE Waiting(c)'
    <3>1. Begun(x, y, f) /\ link[c].down = <<>>
      BY <2>1, <2>3 DEF ExchangeInv, ExchangeOf, Sending
    <3>2. /\ link'[c].down = <<>>
          /\ link'[c].up = y \/ link'[c].up = y \o <<Tail_(f)>>
      BY <1>e, <2>1, <3>1
    <3>3. Underway(x, y, f) /\ Underway(x, y \o <<Tail_(f)>>, f)
      BY <3>1, HalvesMove
    <3> QED
      BY <1>b, <2>2, <3>2, <3>3 DEF Waiting
  <2>4. ExchangeOf(c)'
    BY <2>2, <2>3 DEF ExchangeOf
  <2> QED
    BY <1>d, <2>4 DEF ExchangeInv
<1>4. CASE Receive(c)
  <2> DEFINE rest == Tail(link[c].down)
  <2>1. /\ client[c].st = "wait" /\ link[c].down # <<>>
        /\ link' = [link EXCEPT ![c].down = rest]
    BY <1>4 DEF Receive
  <2>2. \E i : client' = [client EXCEPT ![c].st = "open", ![c].ask = None,
                                        ![c].id = i]
    BY <1>4 DEF Receive
  <2>3. client'[c].st = "open" /\ client'[c].late = client[c].late
    BY <1>0, <1>a, <2>2 DEF Clients
  <2>4. ASSUME ~client[c].late PROVE Idle(c)'
    <3>1. /\ x = <<>> /\ y = <<>>
          /\ \E a \in Answers : link[c].down = <<a>>
      BY <2>1, <2>4 DEF ExchangeInv, ExchangeOf, Waiting
    <3>2. rest = <<>>
      BY <3>1
    <3> HIDE DEF rest
    <3>3. link'[c].up = y /\ link'[c].down = rest
      BY <1>0, <1>a, <2>1 DEF Links
    <3> QED
      BY <1>b, <3>1, <3>2, <3>3 DEF Idle
  <2>5. ExchangeOf(c)'
    BY <2>3, <2>4 DEF ExchangeOf
  <2> QED
    BY <1>d, <2>5 DEF ExchangeInv
<1>5. CASE Timeout(c)
  <2>1. client'[c].late
    BY <1>0, <1>a, <1>5 DEF Timeout, Clients
  <2> QED
    BY <1>d, <2>1 DEF ExchangeInv, ExchangeOf
<1>6. CASE SessionLost(c) \/ Disconnect(c)
  <2>1. client'[c].st = "gone"
    BY <1>0, <1>6 DEF SessionLost, Disconnect, NewClient
  <2> QED
    BY <1>d, <2>1 DEF ExchangeInv, ExchangeOf
<1> QED
  BY <1>1, <1>2, <1>3, <1>4, <1>5, <1>6

\* A pass of select moves what is on the way into the inputs.
LEMMA SelectExchange ==
    ASSUME Typed, ExchangeInv, Select
    PROVE  ExchangeInv'
<1>0. /\ \A c \in Conns : sess[c] \in Sessions /\ link[c] \in Links
      /\ client' = client /\ store' = store
  BY DEF Typed, SessTyped, LinkTyped, Select
<1>1. PICK accepted \in SUBSET Queued :
         /\ sess' = [c \in Conns |->
                        IF c \in accepted THEN NewSession
                        ELSE IF c \in Open
                        THEN [sess[c] EXCEPT
                                 !.input = sess[c].input \o link[c].up,
                                 !.closing = sess[c].closing \/ link[c].eof]
                        ELSE sess[c]]
         /\ link' = [c \in Conns |->
                        [link[c] EXCEPT
                            !.queued = FALSE,
                            !.up = IF c \in Open THEN <<>> ELSE link[c].up,
                            !.cut = link[c].cut \/ c \in Queued \ accepted]]
  BY DEF Select
<1> SUFFICES ASSUME NEW c \in Conns PROVE ExchangeOf(c)'
  BY DEF ExchangeInv
<1> DEFINE x == sess[c].input
           y == link[c].up
           f == client[c].ask
           z == x \o y
           u == IF c \in Open THEN <<>> ELSE y
<1>2. /\ link'[c].down = link[c].down /\ link'[c].up = u
      /\ c \in accepted => sess'[c].input = <<>>
      /\ c \notin accepted /\ c \in Open => sess'[c].input = z
      /\ c \notin accepted /\ c \notin Open => sess'[c].input = x
  <2>1. link'[c] = [link[c] EXCEPT !.queued = FALSE, !.up = u,
                       !.cut = link[c].cut \/ c \in Queued \ accepted]
    BY <1>1
  <2>2. sess'[c] = IF c \in accepted THEN NewSession
                   ELSE IF c \in Open
                   THEN [sess[c] EXCEPT
                            !.input = z,
                            !.closing = sess[c].closing \/ link[c].eof]
                   ELSE sess[c]
    BY <1>1
  <2> HIDE DEF z, u
  <2>3. link'[c].down = link[c].down /\ link'[c].up = u
    BY <1>0, <2>1 DEF Links
  <2> QED
    BY <1>0, <2>2, <2>3 DEF NewSession, Sessions
<1>3. \/ sess'[c].input = x /\ link'[c].up = y
      \/ sess'[c].input = z /\ link'[c].up = <<>>
      \/ sess'[c].input = <<>> /\ link'[c].up = y
      \/ sess'[c].input = <<>> /\ link'[c].up = <<>>
  BY <1>2
<1>4. x = <<>> /\ y = <<>> => z = <<>>
  <2>1. <<>> \in Seq({})
    OBVIOUS
  <2> QED
    BY <2>1, ConcatEmptySeq
<1>5. Begun(x, y, f) => Begun(sess'[c].input, link'[c].up, f)
  BY <1>3, HalvesMove
<1>6. Underway(x, y, f) => Underway(sess'[c].input, link'[c].up, f)
  BY <1>3, HalvesMove
<1> HIDE DEF z
<1>7. Idle(c) => Idle(c)'
  BY <1>2, <1>3, <1>4 DEF Idle
<1>8. Sending(c) => Sending(c)'
  BY <1>0, <1>2, <1>5 DEF Sending
<1>9. Waiting(c) => Waiting(c)'
  <2>1. \A a : AnswerTo(c, a) => AnswerTo(c, a)'
    BY <1>0 DEF AnswerTo
  <2>2. x = <<>> /\ y = <<>> =>
           sess'[c].input = <<>> /\ link'[c].up = <<>>
    BY <1>3, <1>4
  <2> QED
    BY <1>0, <1>2, <1>6, <2>1, <2>2 DEF Waiting
<1> QED
  BY <1>0, <1>7, <1>8, <1>9 DEF ExchangeInv, ExchangeOf

\* Closing a session loses what is on the way.
LEMMA CloseExchange ==
    ASSUME Typed, ExchangeInv, NEW c \in Conns, close_session(c),
           client' = client
    PROVE  ExchangeInv'
<1>0. /\ sess \in [Conns -> Sessions] /\ link \in [Conns -> Links]
      /\ link[c] \in Links /\ store \in Stores
  BY DEF Typed, SessTyped, LinkTyped, StoreTyped
<1>1. /\ \A d \in Conns : d # c => sess'[d] = sess[d] /\ link'[d] = link[d]
      /\ sess'[c].input = <<>>
  BY <1>0 DEF close_session, NewSession
<1>2. link'[c].up = <<>> /\ link'[c].down \in {<<>>, link[c].down}
  <2>1. PICK down \in {<<>>, link[c].down} :
           link' = [link EXCEPT ![c].cut = TRUE, ![c].up = <<>>,
                                ![c].down = down]
    BY DEF close_session
  <2>2. link'[c].up = <<>> /\ link'[c].down = down
    BY <1>0, <2>1 DEF Links
  <2> QED
    BY <2>1, <2>2
<1>3. store'.applied = store.applied
  <2>1. store' = store \/ \E w : store' = AfterFence(w)
    BY DEF close_session
  <2> QED
    BY <1>0, <2>1, FenceKeeps
<1>4. \A d \in Conns : d # c => ExchangeOf(d)'
  BY <1>1, <1>3, ExchangeKept DEF ExchangeInv
<1>5. Underway(<<>>, <<>>, client[c].ask) /\ Begun(<<>>, <<>>, client[c].ask)
  BY HalvesMove
<1>6. Idle(c) => Idle(c)'
  BY <1>1, <1>2 DEF Idle
<1>7. Sending(c) => Sending(c)'
  BY <1>1, <1>2, <1>5 DEF Sending
<1>8. Waiting(c) => Waiting(c)'
  <2>1. \A a : AnswerTo(c, a) => AnswerTo(c, a)'
    BY <1>3 DEF AnswerTo
  <2> QED
    BY <1>1, <1>2, <1>5, <2>1 DEF Waiting
<1>9. ExchangeOf(c)'
  BY <1>6, <1>7, <1>8 DEF ExchangeInv, ExchangeOf
<1> QED
  BY <1>4, <1>9 DEF ExchangeInv

\* Every step keeps it.
LEMMA NextExchange ==
    ASSUME Typed, ExchangeInv, Next
    PROVE  ExchangeInv'
<1>0. /\ sess \in [Conns -> Sessions] /\ link \in [Conns -> Links]
      /\ \A c \in Conns : sess[c] \in Sessions /\ link[c] \in Links
      /\ store \in Stores
  BY DEF Typed, SessTyped, LinkTyped, StoreTyped
<1>1. ASSUME client' = client, store.applied \subseteq store'.applied,
             \A c \in Conns : sess'[c].input = sess[c].input,
             \A c \in Conns : /\ link'[c].up = link[c].up
                              /\ link'[c].down = link[c].down
      PROVE  ExchangeInv'
  BY <1>1, ExchangeKept DEF ExchangeInv
<1>2. CASE ClientStep
  BY <1>2, ClientExchange
<1>3. CASE MainStep
  <2>1. client' = client /\ sess' = sess
    BY <1>3 DEF MainStep, AdvanceStore, AdvanceAuthority, Stop, Joined,
                serverVars
  <2>2. store'.applied = store.applied
    BY <1>0, <1>3 DEF MainStep, AdvanceStore, AdvanceAuthority, Stop, Joined,
                      Stores
  <2>3. \A c \in Conns : link'[c].up = link[c].up
                         /\ link'[c].down = link[c].down
    <3>1. CASE link' = link
      BY <3>1
    <3>2. CASE Joined
      <4>1. ASSUME NEW c \in Conns
            PROVE  link'[c].up = link[c].up /\ link'[c].down = link[c].down
        <5> DEFINE b == link[c].cut \/ c \in Queued
        <5>1. link'[c] = [link[c] EXCEPT !.queued = FALSE, !.cut = b]
          BY <3>2, <4>1 DEF Joined
        <5> HIDE DEF b
        <5> QED
          BY <1>0, <4>1, <5>1 DEF Links
      <4> QED
        BY <4>1
    <3> QED
      BY <1>3, <3>1, <3>2 DEF MainStep, AdvanceStore, AdvanceAuthority, Stop
  <2> QED
    BY <1>1, <2>1, <2>2, <2>3
<1>4. CASE Select
  BY <1>4, SelectExchange
<1>5. CASE Probe \/ LeaveLoop \/ EndLoop
  <2>1. UNCHANGED <<client, store, link>>
    BY <1>5 DEF Probe, LeaveLoop, EndLoop
  <2>2. \A c \in Conns : sess'[c].input = sess[c].input
    <3>1. CASE sess' = sess
      BY <3>1
    <3>2. CASE Probe
      <4>1. ASSUME NEW c \in Conns PROVE sess'[c].input = sess[c].input
        <5> DEFINE b == sess[c].closing \/ (link[c].eof /\ link[c].up = <<>>)
        <5>1. sess'[c] = sess[c] \/ sess'[c] = [sess[c] EXCEPT !.closing = b]
          BY <3>2, <4>1 DEF Probe
        <5> HIDE DEF b
        <5> QED
          BY <1>0, <4>1, <5>1 DEF Sessions
      <4> QED
        BY <4>1
    <3> QED
      BY <1>5, <3>1, <3>2 DEF LeaveLoop, EndLoop
  <2> QED
    BY <1>1, <2>1, <2>2
<1>6. ASSUME NEW c \in Conns, AwaitRest(c) PROVE ExchangeInv'
  <2>1. UNCHANGED <<client, store, link>>
    BY <1>6 DEF AwaitRest
  <2>2. \A d \in Conns : sess'[d].input = sess[d].input
    BY <1>0, <1>6 DEF AwaitRest, Sessions
  <2> QED
    BY <1>1, <2>1, <2>2
<1>7. ASSUME NEW c \in Conns, Handler(c) PROVE ExchangeInv'
  BY <1>7, HandlerExchange
<1>8. ASSUME NEW c \in Conns, CloseSession(c) \/ DrainSession(c)
      PROVE  ExchangeInv'
  BY <1>8, CloseExchange DEF CloseSession, DrainSession
<1> QED
  BY <1>2, <1>3, <1>4, <1>5, <1>6, <1>7, <1>8 DEF Next, ServerStep, Handler

\* A client whose exchanges all completed takes for the answer the answer to
\* the request it sent, and a publication reported as committed was committed
\* (AnswersMatch), although a frame says nothing about which request it
\* answers: whatever damaged, stalled or refused requests came before, however
\* passes of the loop, epoch advances and ends of sessions interleave.
THEOREM AnswersReachRequests == Spec => []AnswersMatch
<1>1. Init => ExchangeInv
  BY DEF Init, NewClient, NewSession, ExchangeInv, ExchangeOf, Idle
<1>2. Typed /\ ExchangeInv /\ [Next]_vars => ExchangeInv'
  <2>1. ASSUME ExchangeInv, UNCHANGED vars PROVE ExchangeInv'
    BY <2>1, ExchangeKept DEF ExchangeInv, vars
  <2> QED
    BY <2>1, NextExchange
<1>3. ExchangeInv => AnswersMatch
  <2> SUFFICES ASSUME ExchangeInv, NEW c \in Conns, client[c].st = "wait",
                      link[c].down # <<>>, ~client[c].late
               PROVE  /\ Head(link[c].down).n = client[c].ask.n
                      /\ client[c].ask.msg = "Publish"
                         /\ Head(link[c].down).ok =>
                            <<c, Head(link[c].down).n>> \in store.applied
    BY DEF AnswersMatch
  <2>1. PICK a \in Answers : link[c].down = <<a>> /\ AnswerTo(c, a)
    BY DEF ExchangeInv, ExchangeOf, Waiting
  <2>2. Head(link[c].down) = a
    BY <2>1
  <2> QED
    BY <2>1, <2>2 DEF AnswerTo
<1> QED
  BY <1>1, <1>2, <1>3, InitTyped, NextTyped, PTL DEF Spec

=============================================================================
