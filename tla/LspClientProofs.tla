--------------------------- MODULE LspClientProofs ---------------------------
(***************************************************************************)
(* Proofs about module LspClient, for any number of documents, edits,      *)
(* requests and roots: the types, that requests keep their order, that no  *)
(* caller is forgotten, that the server is answered while it shuts down,   *)
(* and that its documents follow the editor's.                             *)
(***************************************************************************)
EXTENDS LspClient, SequenceTheorems, FiniteSetTheorems, TLAPS

-----------------------------------------------------------------------------
(* What may be in the channels. *)

Work    == {Request("work", i) : i \in 1 .. MaxCalls}
Calls   == Work \cup {Request("initialize", InitializeId), Request("shutdown", ShutdownId)}
Replies == {Response(c) : c \in ServerCalls}
Opened  == {Notification("didOpen", <<d, n>>) : d \in Docs, n \in 0 .. MaxEdits \cup {Garbled}}
Changed == {Notification("didChange", <<d, n, n + 1>>) : d \in Docs, n \in 0 .. MaxEdits - 1}
             \cup {Notification("didChange", <<d, Garbled, Garbled>>) : d \in Docs}
Closings == {Notification("didClose", <<d>>) : d \in Docs}
Others  == {Notification("didChangeFolders", <<r>>) : r \in NewRoots}
             \cup {Notification("initialized", <<>>), Notification("exit", <<>>)}
Notices == Opened \cup Changed \cup Closings \cup Others
Message == Calls \cup Replies \cup Notices
Delayed == Work \cup Replies

FromServer == {ServerCall(c) : c \in ServerCalls}
News   == FromServer \cup {Initialized, Exit}
Output == FromServer \cup {Malformed} \cup {Answer(id, ok) : id \in Ids, ok \in BOOLEAN}

EditorTypes ==
  /\ phase \in {"running", "closing", "exited"} /\ registered \in BOOLEAN
  /\ doc \in [Docs -> {"none", "open", "closed"}]
  /\ text \in [Docs -> 0 .. MaxEdits]
  /\ preview \subseteq {d \in Docs : doc[d] = "open"}
  /\ misled \subseteq Docs
  /\ call \in [Ids -> {"unused", "waiting", "ok", "failed"}]
  /\ nextCall \in 1 .. ShutdownId
  /\ capabilities \in BOOLEAN
  /\ initTask \in {"start", "called", "initialized", "failed", "notified", "done"}
  /\ rootTask \in [NewRoots -> {"idle", "spawned", "added"}]

TransportTypes ==
  /\ clientRx \in Seq(Message) /\ pendingMessages \in Seq(Delayed)
  /\ injectRx \in Seq(Replies) /\ incoming \in Seq(News) /\ stdout \in Seq(Output)
  /\ outgoing \in Message \cup {Silent}
  /\ isPending \in BOOLEAN /\ sendUp \in BOOLEAN /\ recvUp \in BOOLEAN
  /\ permit \in BOOLEAN /\ shutdownRequested \in BOOLEAN /\ shutdownFlushed \in BOOLEAN
  /\ pendingRequests \subseteq Ids

ServerState ==
  [up : BOOLEAN, text : [Docs -> 0 .. MaxEdits \cup {NotOpen, Garbled}],
   unanswered : SUBSET Ids, newest : Ids,
   calls : [ServerCalls -> {"idle", "sent", "late", "answered"}],
   told : {"nothing", "shutdown", "exit"}, malformed : BOOLEAN]

ServerTypes == srv \in ServerState

Types == EditorTypes /\ TransportTypes /\ ServerTypes

-----------------------------------------------------------------------------
(* Sequences as queues. *)

LEMMA InQueue ==
  ASSUME NEW S, NEW s \in Seq(S), NEW m
  PROVE  m \in Range(s) <=> \E i \in 1 .. Len(s) : s[i] = m
<1>1. DOMAIN s = 1 .. Len(s)
  BY LenProperties
<1> QED BY <1>1, Zenon DEF Range

LEMMA QueueTyped ==
  ASSUME NEW S, NEW s \in Seq(S)
  PROVE  Range(s) \subseteq S /\ (s = <<>> => Range(s) = {})
<1>1. \A m \in Range(s) : \E i \in 1 .. Len(s) : s[i] = m
  BY InQueue
<1>2. \A i \in 1 .. Len(s) : s[i] \in S
  BY ElementOfSeq
<1>3. s = <<>> => 1 .. Len(s) = {}
  OBVIOUS
<1> QED BY <1>1, <1>2, <1>3, Zenon

LEMMA QueueAfterSend ==
  ASSUME NEW S, NEW s \in Seq(S), NEW t \in Seq(S)
  PROVE  /\ s \o t \in Seq(S) /\ Len(s \o t) = Len(s) + Len(t)
         /\ \A i \in 1 .. Len(s) : (s \o t)[i] = s[i]
         /\ \A i \in 1 .. Len(t) : (s \o t)[Len(s) + i] = t[i]
         /\ \A i \in 1 .. Len(s \o t) : i > Len(s) =>
              i - Len(s) \in 1 .. Len(t) /\ (s \o t)[i] = t[i - Len(s)]
         /\ Range(s \o t) = Range(s) \cup Range(t)
<1>1. /\ s \o t \in Seq(S) /\ Len(s \o t) = Len(s) + Len(t)
      /\ \A i \in 1 .. Len(s) : (s \o t)[i] = s[i]
      /\ \A i \in 1 .. Len(t) : (s \o t)[Len(s) + i] = t[i]
      /\ \A i \in 1 .. Len(s \o t) : i > Len(s) =>
              i - Len(s) \in 1 .. Len(t) /\ (s \o t)[i] = t[i - Len(s)]
  BY ConcatProperties
<1>2. ASSUME NEW m PROVE m \in Range(s \o t) <=> m \in Range(s) \cup Range(t)
  <2>1. /\ m \in Range(s) <=> \E i \in 1 .. Len(s) : s[i] = m
        /\ m \in Range(t) <=> \E i \in 1 .. Len(t) : t[i] = m
        /\ m \in Range(s \o t) <=> \E i \in 1 .. Len(s \o t) : (s \o t)[i] = m
    <3>1. m \in Range(s) <=> \E i \in 1 .. Len(s) : s[i] = m
      BY InQueue, Zenon
    <3>2. m \in Range(t) <=> \E i \in 1 .. Len(t) : t[i] = m
      BY InQueue, Zenon
    <3> DEFINE u == s \o t
    <3>3. u \in Seq(S)
      BY <1>1
    <3> HIDE DEF u
    <3>4. m \in Range(u) <=> \E i \in 1 .. Len(u) : u[i] = m
      BY <3>3, InQueue
    <3> QED BY <3>1, <3>2, <3>4 DEF u
  <2>2. Len(s) \in Nat /\ Len(t) \in Nat
    OBVIOUS
  <2>3. \A i \in 1 .. Len(s) : i \in 1 .. Len(s \o t)
    BY <1>1, <2>2
  <2>4. \A i \in 1 .. Len(t) : Len(s) + i \in 1 .. Len(s \o t)
    BY <1>1, <2>2
  <2>5. \A i \in 1 .. Len(s \o t) : i \in 1 .. Len(s) \/ i > Len(s)
    BY <1>1, <2>2
  <2>6. ASSUME NEW i \in 1 .. Len(s \o t), (s \o t)[i] = m
        PROVE  m \in Range(s) \cup Range(t)
    <3>1. CASE i \in 1 .. Len(s)
      BY <1>1, <2>1, <2>6, <3>1, Zenon
    <3>2. CASE i > Len(s)
      BY <1>1, <2>1, <2>6, <3>2, Zenon
    <3> QED BY <2>5, <3>1, <3>2
  <2> QED BY <1>1, <2>1, <2>3, <2>4, <2>6
<1> QED BY <1>1, <1>2

LEMMA QueueAfterAppend ==
  ASSUME NEW S, NEW s \in Seq(S), NEW m \in S
  PROVE  /\ Append(s, m) \in Seq(S) /\ Len(Append(s, m)) = Len(s) + 1
         /\ \A i \in 1 .. Len(s) : Append(s, m)[i] = s[i]
         /\ Append(s, m)[Len(s) + 1] = m
         /\ Range(Append(s, m)) = Range(s) \cup {m}
<1>1. /\ Append(s, m) \in Seq(S) /\ Len(Append(s, m)) = Len(s) + 1
      /\ \A i \in 1 .. Len(s) : Append(s, m)[i] = s[i]
      /\ Append(s, m)[Len(s) + 1] = m
  OBVIOUS
<1>2. \A x : x \in Range(s) <=> \E i \in 1 .. Len(s) : s[i] = x
  BY InQueue, Zenon
<1>3. \A x : x \in Range(Append(s, m)) <=>
               \E i \in 1 .. Len(Append(s, m)) : Append(s, m)[i] = x
  BY <1>1, InQueue, Zenon
<1>4. Len(s) \in Nat /\ 1 .. Len(Append(s, m)) = (1 .. Len(s)) \cup {Len(s) + 1}
  BY <1>1
<1>5. ASSUME NEW x PROVE x \in Range(Append(s, m)) <=> x \in Range(s) \cup {m}
  BY <1>1, <1>2, <1>3, <1>4, Zenon
<1> QED BY <1>1, <1>5, Zenon

LEMMA QueueAfterTake ==
  ASSUME NEW S, NEW s \in Seq(S), s # <<>>
  PROVE  /\ Tail(s) \in Seq(S) /\ Len(s) \in Nat \ {0} /\ Len(Tail(s)) = Len(s) - 1
         /\ Head(s) = s[1] /\ Head(s) \in S
         /\ \A i \in 1 .. Len(Tail(s)) : i + 1 \in 1 .. Len(s) /\ Tail(s)[i] = s[i + 1]
         /\ Range(s) = Range(Tail(s)) \cup {Head(s)}
<1>1. /\ Tail(s) \in Seq(S) /\ Len(s) \in Nat \ {0} /\ Len(Tail(s)) = Len(s) - 1
      /\ Head(s) = s[1] /\ Head(s) \in S
  BY HeadTailProperties, EmptySeq
<1>2. \A i \in 1 .. Len(Tail(s)) : i + 1 \in 1 .. Len(s) /\ Tail(s)[i] = s[i + 1]
  BY <1>1, HeadTailProperties
<1>3. \A x : x \in Range(s) <=> \E i \in 1 .. Len(s) : s[i] = x
  BY InQueue, Zenon
<1>4. \A x : x \in Range(Tail(s)) <=> \E i \in 1 .. Len(Tail(s)) : Tail(s)[i] = x
  BY <1>1, InQueue, Zenon
<1>5. \A i \in 1 .. Len(s) : i = 1 \/ (i - 1 \in 1 .. Len(Tail(s)) /\ Tail(s)[i - 1] = s[i])
  BY <1>1, <1>2
<1>6. 1 \in 1 .. Len(s)
  BY <1>1
<1>7. ASSUME NEW x PROVE x \in Range(s) <=> x \in Range(Tail(s)) \cup {Head(s)}
  BY <1>1, <1>2, <1>3, <1>4, <1>5, <1>6, Zenon
<1> QED BY <1>1, <1>2, <1>7, Zenon

-----------------------------------------------------------------------------
(* Messages. *)

LEMMA MessagesAre ==
  /\ \A i \in 1 .. MaxCalls : Request("work", i) \in Message /\ Request("work", i) \in Delayed
  /\ Request("initialize", InitializeId) \in Message
  /\ Request("shutdown", ShutdownId) \in Message
  /\ \A c \in ServerCalls : Response(c) \in Replies
  /\ \A d \in Docs, n \in 0 .. MaxEdits \cup {Garbled} : Notification("didOpen", <<d, n>>) \in Message
  /\ \A d \in Docs, n \in 0 .. MaxEdits - 1 :
       Notification("didChange", <<d, n, n + 1>>) \in Message
  /\ \A d \in Docs : Notification("didChange", <<d, Garbled, Garbled>>) \in Message
  /\ \A d \in Docs : Notification("didClose", <<d>>) \in Message
  /\ \A r \in NewRoots : Notification("didChangeFolders", <<r>>) \in Message
  /\ Notification("initialized", <<>>) \in Message /\ Notification("exit", <<>>) \in Message
  /\ Replies \subseteq Message /\ Replies \subseteq Delayed /\ Delayed \subseteq Message
<1>1. \A i \in 1 .. MaxCalls : Request("work", i) \in Work
  BY DEF Work
<1>2. \A c \in ServerCalls : Response(c) \in Replies
  BY DEF Replies
<1>3. \A d \in Docs, n \in 0 .. MaxEdits \cup {Garbled} : Notification("didOpen", <<d, n>>) \in Opened
  BY DEF Opened
<1>4. /\ \A d \in Docs, n \in 0 .. MaxEdits - 1 :
           Notification("didChange", <<d, n, n + 1>>) \in Changed
      /\ \A d \in Docs : Notification("didChange", <<d, Garbled, Garbled>>) \in Changed
  BY DEF Changed
<1>5. \A d \in Docs : Notification("didClose", <<d>>) \in Closings
  BY DEF Closings
<1>6. /\ \A r \in NewRoots : Notification("didChangeFolders", <<r>>) \in Others
      /\ Notification("initialized", <<>>) \in Others /\ Notification("exit", <<>>) \in Others
  BY DEF Others
<1>7. /\ Request("initialize", InitializeId) \in Calls
      /\ Request("shutdown", ShutdownId) \in Calls /\ Work \subseteq Calls
  BY DEF Calls
<1>8. /\ Calls \subseteq Message /\ Replies \subseteq Message /\ Opened \subseteq Message
      /\ Changed \subseteq Message /\ Closings \subseteq Message /\ Others \subseteq Message
  BY DEF Message, Notices
<1>9. Work \subseteq Delayed /\ Replies \subseteq Delayed /\ Delayed = Work \cup Replies
  BY DEF Delayed
<1> QED BY <1>1, <1>2, <1>3, <1>4, <1>5, <1>6, <1>7, <1>8, <1>9

LEMMA MaxCallsType == MaxCalls \in Nat /\ ShutdownId = MaxCalls + 1 /\ Ids = 0 .. MaxCalls + 1
BY LspAssumption DEF ShutdownId, Ids

LEMMA WorkIs ==
  ASSUME NEW m \in Work
  PROVE  m.kind = "request" /\ m.method = "work" /\ m.arg \in 1 .. MaxCalls
BY DEF Work, Request

LEMMA ReplyIs ==
  ASSUME NEW m \in Replies
  PROVE  m.kind = "response" /\ m.method = "reply" /\ m.arg \in ServerCalls /\ m = Response(m.arg)
BY DEF Replies, Response

LEMMA NoticeIs ==
  ASSUME NEW m \in Notices
  PROVE  /\ m.kind = "notification"
         /\ m.method \in {"didOpen", "didChange", "didClose", "didChangeFolders",
                          "initialized", "exit"}
         /\ m.method = "didOpen" => m \in Opened
         /\ m.method = "didChange" => m \in Changed
         /\ m.method = "didClose" => m \in Closings
<1>1. m \in Opened => m.kind = "notification" /\ m.method = "didOpen"
  BY DEF Opened, Notification
<1>2. m \in Changed => m.kind = "notification" /\ m.method = "didChange"
  BY DEF Changed, Notification
<1>3. m \in Closings => m.kind = "notification" /\ m.method = "didClose"
  BY DEF Closings, Notification
<1>4. m \in Others => m.kind = "notification"
                        /\ m.method \in {"didChangeFolders", "initialized", "exit"}
  BY DEF Others, Notification
<1> QED BY <1>1, <1>2, <1>3, <1>4 DEF Notices

LEMMA CallIs ==
  ASSUME NEW m \in Calls
  PROVE  /\ m.kind = "request" /\ m.arg \in Ids
         /\ m.method \in {"initialize", "work", "shutdown"}
         /\ m.method = "initialize" => m.arg = InitializeId
         /\ m.method = "work" => m.arg \in 1 .. MaxCalls /\ m \in Work
         /\ m.method = "shutdown" => m.arg = ShutdownId
BY MaxCallsType DEF Calls, Work, Request, InitializeId

LEMMA SilentIs == Silent.kind = "none" /\ Silent.method = "none" /\ Silent \notin Message
<1>1. Silent.kind = "none" /\ Silent.method = "none"
  BY DEF Silent
<1> QED BY <1>1, CallIs, ReplyIs, NoticeIs DEF Message

LEMMA MessageIs ==
  ASSUME NEW m \in Message
  PROVE  /\ m.kind = "request" <=> m \in Calls
         /\ m.kind = "notification" <=> m \in Notices
         /\ m.method = "reply" <=> m \in Replies
         /\ Asking(m) => m \in Calls
         /\ m \in Calls \/ m \in Replies \/ m \in Notices
         /\ m.kind # "request" /\ m.kind # "notification" => m \in Replies
         /\ m.method \in {"initialize", "work", "shutdown"} => m \in Calls
<1>1. m \in Calls \/ m \in Replies \/ m \in Notices
  BY DEF Message
<1>2. CASE m \in Calls
  BY <1>2, CallIs, ReplyIs, NoticeIs DEF Asking
<1>3. CASE m \in Replies
  BY <1>3, CallIs, ReplyIs, NoticeIs DEF Asking
<1>4. CASE m \in Notices
  BY <1>4, CallIs, ReplyIs, NoticeIs DEF Asking
<1> QED BY <1>1, <1>2, <1>3, <1>4

-----------------------------------------------------------------------------
(* The documents that are opened anew. *)

LEMMA SetAsSequence ==
  ASSUME NEW S, IsFiniteSet(S)
  PROVE  /\ SetToSeq(S) \in Seq(S)
         /\ \A x \in S : \E i \in 1 .. Len(SetToSeq(S)) : SetToSeq(S)[i] = x
<1> DEFINE n == Cardinality(S)  s == SetToSeq(S)
<1>1. n \in Nat /\ \E f : f \in Bijection(1 .. n, S)
  BY FS_CardinalityType DEF ExistsBijection
<1>2. \E f \in [1 .. n -> S] : IsInjective(f)
  BY <1>1 DEF Bijection, Injection
<1>3. s \in [1 .. n -> S] /\ IsInjective(s)
  BY <1>2, Zenon DEF SetToSeq
<1>4. s \in Injection(1 .. n, S)
  BY <1>3 DEF Injection
<1>5. Cardinality(1 .. n) = Cardinality(S)
  BY <1>1, FS_Interval, FS_CardinalityType
<1>6. s \in Surjection(1 .. n, S)
  BY <1>4, <1>5, FS_Injection
<1> HIDE DEF s, n
<1>7. s \in Seq(S) /\ Len(s) = n
  BY <1>1, <1>3
<1>8. \A x \in S : \E i \in 1 .. n : s[i] = x
  BY <1>6 DEF Surjection
<1> QED BY <1>7, <1>8 DEF s

LEMMA ReopenedAre ==
  ASSUME EditorTypes
  PROVE  /\ Reopened \in Seq(Message)
         /\ \A i \in 1 .. Len(Reopened) : \E d \in Docs : doc[d] = "open" /\ Reopened[i] = DidOpen(d)
         /\ \A d \in Docs : doc[d] = "open" => \E i \in 1 .. Len(Reopened) : Reopened[i] = DidOpen(d)
<1> DEFINE S == {d \in Docs : doc[d] = "open"}  s == SetToSeq(S)
<1>1. IsFiniteSet(S)
  BY LspAssumption, FS_Subset
<1>2. s \in Seq(S) /\ \A x \in S : \E i \in 1 .. Len(s) : s[i] = x
  BY <1>1, SetAsSequence
<1>3. Reopened = [i \in DOMAIN s |-> DidOpen(s[i])]
  BY DEF Reopened
<1>4. \A d \in Docs : DidOpen(d) \in Message
  BY MessagesAre DEF DidOpen, EditorTypes
<1>5. S \subseteq Docs /\ \A d \in Docs : d \in S <=> doc[d] = "open"
  OBVIOUS
<1> HIDE DEF S, s
<1>6. Len(s) \in Nat /\ DOMAIN s = 1 .. Len(s) /\ \A i \in 1 .. Len(s) : s[i] \in S
  BY <1>2, LenProperties, ElementOfSeq
<1>7. Reopened = [i \in 1 .. Len(s) |-> DidOpen(s[i])]
  BY <1>3, <1>6
<1>8. \A i \in 1 .. Len(s) : Reopened[i] = DidOpen(s[i])
  BY <1>7
<1>9. Reopened \in [1 .. Len(s) -> Message]
  BY <1>4, <1>5, <1>6, <1>7
<1>10. Reopened \in Seq(Message) /\ Len(Reopened) = Len(s)
  BY <1>6, <1>9
<1> QED BY <1>2, <1>5, <1>6, <1>8, <1>10

-----------------------------------------------------------------------------
(* Types. *)

LEMMA SentTyped ==
  ASSUME TransportTypes, NEW ps \in Seq(Message), Sent(ps)
  PROVE  clientRx' \in Seq(Message)
BY QueueAfterSend DEF Sent, TransportTypes

LEMMA SentOneTyped ==
  ASSUME TransportTypes, NEW m \in Message, Sent(<<m>>)
  PROVE  clientRx' \in Seq(Message)
<1>1. <<m>> \in Seq(Message)
  OBVIOUS
<1> QED BY <1>1, SentTyped

LEMMA EditorSends ==
  ASSUME Types, NEW ps \in Seq(Message), Sent(ps) \/ UNCHANGED clientRx,
         UNCHANGED <<injectRx, incoming, notifyVars, sendVars, sharedVars, recvUp, stdout, srv>>
  PROVE  TransportTypes' /\ ServerTypes'
<1>1. clientRx' \in Seq(Message)
  BY SentTyped DEF Types, TransportTypes
<1> QED BY <1>1 DEF Types, TransportTypes, ServerTypes, notifyVars, sendVars, sharedVars

\* What the editor does to a document.
DocumentStep(d) == OpenDoc(d) \/ EditDoc(d) \/ CloseDoc(d) \/ GhostEdit(d) \/ EditOverGhost(d)

LEMMA DocumentTypes ==
  ASSUME Types, NEW d \in Docs, DocumentStep(d)
  PROVE  Types'
<1>1. EditorTypes'
  <2>1. CASE OpenDoc(d)
    BY <2>1 DEF OpenDoc, Types, EditorTypes, initVars
  <2>2. CASE EditDoc(d)
    BY <2>2, LspAssumption DEF EditDoc, Types, EditorTypes, initVars
  <2>3. CASE CloseDoc(d)
    BY <2>3, LspAssumption DEF CloseDoc, Types, EditorTypes, initVars
  <2>4. CASE GhostEdit(d)
    BY <2>4 DEF GhostEdit, Types, EditorTypes, initVars
  <2>5. CASE EditOverGhost(d)
    BY <2>5, LspAssumption DEF EditOverGhost, Types, EditorTypes, initVars
  <2> QED BY <2>1, <2>2, <2>3, <2>4, <2>5 DEF DocumentStep
<1>2. CASE OpenDoc(d)
  <2>1. DidOpen(d) \in Message
    BY MessagesAre DEF DidOpen, Types, EditorTypes
  <2>2. <<DidOpen(d)>> \in Seq(Message)
    BY <2>1
  <2> QED BY <1>1, <1>2, <2>2, EditorSends DEF OpenDoc, Types
<1>3. CASE EditDoc(d)
  <2>1. text[d] \in 0 .. MaxEdits - 1
    BY <1>3, LspAssumption DEF EditDoc, Types, EditorTypes
  <2>2. <<Notification("didChange", <<d, text[d], text[d] + 1>>)>> \in Seq(Message)
    BY <2>1, MessagesAre
  <2> QED BY <1>1, <1>3, <2>2, EditorSends DEF EditDoc, IfInitialized, Types
<1>4. CASE CloseDoc(d)
  <2>1. <<Notification("didClose", <<d>>)>> \in Seq(Message)
    BY MessagesAre
  <2> QED BY <1>1, <1>4, <2>1, EditorSends DEF CloseDoc, IfInitialized, Types
<1>5. CASE GhostEdit(d)
  <2>1. <<>> \in Seq(Message)
    BY EmptySeq
  <2> QED BY <1>1, <1>5, <2>1, EditorSends DEF GhostEdit, Types
<1>6. CASE EditOverGhost(d)
  <2>1. <<Notification("didChange", <<d, Garbled, Garbled>>)>> \in Seq(Message)
    BY MessagesAre
  <2> QED BY <1>1, <1>6, <2>1, EditorSends DEF EditOverGhost, Types
<1> QED BY <1>2, <1>3, <1>4, <1>5, <1>6 DEF DocumentStep

LEMMA CallTypes ==
  ASSUME Types
  PROVE  /\ CallServer => Types'
         /\ Initialize => Types'
         /\ \A id \in Ids : Timeout(id) => Types'
<1> USE DEF Types
<1>1. ASSUME CallServer PROVE Types'
  <2>1. nextCall \in 1 .. MaxCalls /\ nextCall' = nextCall + 1
    BY <1>1, MaxCallsType DEF CallServer, EditorTypes
  <2>2. <<Request("work", nextCall)>> \in Seq(Message)
    BY <2>1, MessagesAre
  <2>3. TransportTypes' /\ ServerTypes'
    BY <1>1, <2>2, EditorSends DEF CallServer, Issue
  <2>4. EditorTypes'
    BY <1>1, <2>1, MaxCallsType DEF CallServer, Issue, EditorTypes, initVars
  <2> QED BY <2>3, <2>4
<1>2. ASSUME Initialize PROVE Types'
  <2>1. <<Request("initialize", InitializeId)>> \in Seq(Message)
    BY MessagesAre
  <2>2. TransportTypes' /\ ServerTypes'
    BY <1>2, <2>1, EditorSends DEF Initialize, Issue
  <2>3. EditorTypes'
    BY <1>2 DEF Initialize, Issue, EditorTypes
  <2> QED BY <2>2, <2>3
<1>3. ASSUME NEW id \in Ids, Timeout(id) PROVE Types'
  <2>1. EditorTypes'
    BY <1>3 DEF Timeout, EditorTypes, initVars
  <2> QED BY <1>3, <2>1 DEF Timeout, TransportTypes, ServerTypes, notifyVars, sendVars, sharedVars
<1> QED BY <1>1, <1>2, <1>3

LEMMA NewsIs ==
  ASSUME NEW m \in News
  PROVE  /\ m # Initialized /\ m # Exit => m \in FromServer /\ Response(m.id) \in Replies
         /\ m \in FromServer => m.id \in ServerCalls /\ m = ServerCall(m.id)
         /\ m \in FromServer => m # Initialized /\ m # Exit
         /\ Initialized # Exit
<1>1. m \in FromServer => m.id \in ServerCalls /\ m = ServerCall(m.id)
  BY DEF FromServer, ServerCall
<1>2. m \in FromServer => m # Initialized /\ m # Exit
  BY DEF FromServer, ServerCall, Initialized, Exit
<1>3. Initialized # Exit
  BY DEF Initialized, Exit
<1> QED BY <1>1, <1>2, <1>3, MessagesAre DEF News

LEMMA IncomingTypes ==
  ASSUME Types, HandleIncoming
  PROVE  Types'
<1> DEFINE m == Head(incoming)
<1>1. incoming \in Seq(News) /\ incoming # <<>>
  BY DEF HandleIncoming, Types, TransportTypes
<1>2. m \in News /\ Tail(incoming) \in Seq(News)
  BY <1>1, QueueAfterTake
<1> HIDE DEF m
<1>3. <<Response(m.id)>> \in Seq(Message) \/ m = Initialized \/ m = Exit
  BY <1>2, NewsIs, MessagesAre
<1>4. Reopened \in Seq(Message)
  BY ReopenedAre DEF Types
<1>5. UNCHANGED clientRx \/ Sent(IF m = Initialized THEN Reopened ELSE <<Response(m.id)>>)
  BY DEF HandleIncoming, m
<1>6. m = Exit => UNCHANGED clientRx
  BY DEF HandleIncoming, m
<1>7. clientRx' \in Seq(Message)
  BY <1>3, <1>4, <1>5, <1>6, SentTyped DEF Types, TransportTypes
<1>8. TransportTypes'
  BY <1>2, <1>7 DEF HandleIncoming, Types, TransportTypes, notifyVars, sendVars, sharedVars
<1>9. EditorTypes'
  BY DEF HandleIncoming, Types, EditorTypes, initVars
<1>10. ServerTypes'
  BY DEF HandleIncoming, Types, ServerTypes
<1> QED BY <1>8, <1>9, <1>10 DEF Types

LEMMA RootTypes ==
  ASSUME Types, NEW r \in NewRoots, AddRoot(r) \/ RootListens(r) \/ RootWakes(r)
  PROVE  Types'
<1>1. Notification("didChangeFolders", <<r>>) \in Message
  BY MessagesAre
<1>2. clientRx' \in Seq(Message)
  BY <1>1, SentOneTyped DEF AddRoot, RootListens, RootWakes, IfInitialized, Types, TransportTypes
<1>3. EditorTypes'
  BY DEF AddRoot, RootListens, RootWakes, Types, EditorTypes, editorVars, initVars
<1>4. permit' \in BOOLEAN
  BY DEF AddRoot, RootListens, RootWakes, Listen, Types, TransportTypes, notifyVars
<1>5. TransportTypes' /\ ServerTypes'
  BY <1>2, <1>4 DEF AddRoot, RootListens, RootWakes, Types, TransportTypes, ServerTypes,
                    sendVars, sharedVars
<1> QED BY <1>3, <1>5 DEF Types

LEMMA InitTaskTypes ==
  ASSUME Types, InitializeReturns \/ NotifyInitialized \/ WakeOne
  PROVE  Types'
<1>1. clientRx' \in Seq(Message)
  BY MessagesAre, SentOneTyped
  DEF InitializeReturns, NotifyInitialized, WakeOne, Types, TransportTypes
<1>2. EditorTypes'
  BY DEF InitializeReturns, NotifyInitialized, WakeOne, Types, EditorTypes, editorVars
<1>3. permit' \in BOOLEAN
  BY DEF InitializeReturns, NotifyInitialized, WakeOne, NotifyOne, Types, TransportTypes, notifyVars
<1>4. TransportTypes' /\ ServerTypes'
  BY <1>1, <1>3 DEF InitializeReturns, NotifyInitialized, WakeOne, Types, TransportTypes,
                    ServerTypes, sendVars, sharedVars
<1> QED BY <1>2, <1>4 DEF Types

LEMMA ClosedTyped ==
  ASSUME Types, NEW ids
  PROVE  Closed(ids) \in [Ids -> {"unused", "waiting", "ok", "failed"}]
BY DEF Types, EditorTypes, Closed

LEMMA ServerIsTyped == Started \in ServerState /\ Dead \in ServerState
<1>1. /\ [d \in Docs |-> NotOpen] \in [Docs -> 0 .. MaxEdits \cup {NotOpen, Garbled}]
      /\ [c \in ServerCalls |-> "idle"] \in [ServerCalls -> {"idle", "sent", "late", "answered"}]
      /\ 0 \in Ids
  BY MaxCallsType
<1>2. Started \in ServerState
  BY <1>1 DEF Started, ServerState
<1> QED BY <1>2 DEF Dead, ServerState

LEMMA QuitTypes ==
  ASSUME Types, Quit \/ QuitFlushed \/ QuitCapped
  PROVE  Types'
<1>1. CASE Quit
  <2>1. <<Request("shutdown", ShutdownId), Notification("exit", <<>>)>> \in Seq(Message)
    BY MessagesAre
  <2>2. TransportTypes' /\ ServerTypes'
    BY <1>1, <2>1, EditorSends DEF Quit
  <2>3. EditorTypes'
    BY <1>1 DEF Quit, Types, EditorTypes, initVars
  <2> QED BY <2>2, <2>3 DEF Types
<1>2. CASE QuitFlushed \/ QuitCapped
  <2>1. TornDown
    BY <1>2 DEF QuitFlushed, QuitCapped
  <2>2. EditorTypes'
    BY <2>1, ClosedTyped DEF TornDown, Types, EditorTypes, initVars
  <2>3. TransportTypes'
    <3>1. \A S : <<>> \in Seq(S)
      BY EmptySeq
    <3>2. isPending \in BOOLEAN /\ shutdownRequested \in BOOLEAN /\ shutdownFlushed \in BOOLEAN
      BY DEF Types, TransportTypes
    <3> QED BY <2>1, <3>1, <3>2 DEF TornDown, TransportTypes
  <2>4. ServerTypes'
    BY <2>1, ServerIsTyped DEF TornDown, ServerTypes
  <2> QED BY <2>2, <2>3, <2>4 DEF Types
<1> QED BY <1>1, <1>2

LEMMA TakeTyped ==
  ASSUME Types, NEW m \in Message, Take(m)
  PROVE  outgoing' \in Message \cup {Silent} /\ pendingRequests' \subseteq Ids
<1>1. m.kind = "request" => m.arg \in Ids
  BY MessageIs, CallIs
<1> QED BY <1>1 DEF Take, Register, Types, TransportTypes

LEMMA TakingTypes ==
  ASSUME Types, SendDrains \/ SendTakes \/ SendInjected
  PROVE  Types'
<1>1. EditorTypes' /\ ServerTypes'
  BY DEF SendDrains, SendTakes, SendInjected, Types, EditorTypes, ServerTypes, editorVars, initVars
<1>2. /\ isPending' \in BOOLEAN /\ sendUp' \in BOOLEAN /\ recvUp' \in BOOLEAN
      /\ permit' \in BOOLEAN /\ shutdownRequested' \in BOOLEAN /\ shutdownFlushed' \in BOOLEAN
      /\ incoming' \in Seq(News) /\ stdout' \in Seq(Output)
  BY DEF SendDrains, SendTakes, SendInjected, NoteShutdown, Types, TransportTypes, notifyVars, sharedVars
<1>3. CASE SendDrains
  <2>1. Head(pendingMessages) \in Delayed /\ Tail(pendingMessages) \in Seq(Delayed)
    BY <1>3, QueueAfterTake DEF SendDrains, Types, TransportTypes
  <2>2. Take(Head(pendingMessages)) /\ Head(pendingMessages) \in Message
    BY <1>3, <2>1, MessagesAre DEF SendDrains
  <2>3. outgoing' \in Message \cup {Silent} /\ pendingRequests' \subseteq Ids
    BY <2>2, TakeTyped
  <2>4. clientRx' \in Seq(Message) /\ injectRx' \in Seq(Replies) /\ pendingMessages' \in Seq(Delayed)
    BY <1>3, <2>1 DEF SendDrains, Types, TransportTypes
  <2> QED BY <1>1, <1>2, <2>3, <2>4 DEF Types, TransportTypes
<1>4. CASE SendTakes
  <2>1. Head(clientRx) \in Message /\ Tail(clientRx) \in Seq(Message)
    BY <1>4, QueueAfterTake DEF SendTakes, Types, TransportTypes
  <2>2. Take(Head(clientRx))
    BY <1>4 DEF SendTakes
  <2>3. outgoing' \in Message \cup {Silent} /\ pendingRequests' \subseteq Ids
    BY <2>1, <2>2, TakeTyped
  <2>4. clientRx' \in Seq(Message) /\ injectRx' \in Seq(Replies) /\ pendingMessages' \in Seq(Delayed)
    BY <1>4, <2>1 DEF SendTakes, Types, TransportTypes
  <2> QED BY <1>1, <1>2, <2>3, <2>4 DEF Types, TransportTypes
<1>5. CASE SendInjected
  <2>1. Head(injectRx) \in Replies /\ Tail(injectRx) \in Seq(Replies)
    BY <1>5, QueueAfterTake DEF SendInjected, Types, TransportTypes
  <2>2. Take(Head(injectRx)) /\ Head(injectRx) \in Message
    BY <1>5, <2>1, MessagesAre DEF SendInjected
  <2>3. outgoing' \in Message \cup {Silent} /\ pendingRequests' \subseteq Ids
    BY <2>2, TakeTyped
  <2>4. clientRx' \in Seq(Message) /\ injectRx' \in Seq(Replies) /\ pendingMessages' \in Seq(Delayed)
    BY <1>5, <2>1 DEF SendInjected, Types, TransportTypes
  <2> QED BY <1>1, <1>2, <2>3, <2>4 DEF Types, TransportTypes
<1> QED BY <1>3, <1>4, <1>5

LEMMA PendingTypes ==
  ASSUME Types, SendListens \/ SendInitialized \/ SendDelays
  PROVE  Types'
<1>1. CASE SendListens \/ SendInitialized
  <2>1. EditorTypes' /\ ServerTypes'
    BY <1>1 DEF SendListens, SendInitialized, Types, EditorTypes, ServerTypes, editorVars, initVars
  <2>2. incoming' \in Seq(News) /\ permit' \in BOOLEAN /\ isPending' \in BOOLEAN
    <3>1. Initialized \in News /\ incoming \in Seq(News)
      BY DEF News, Types, TransportTypes
    <3>2. Append(incoming, Initialized) \in Seq(News)
      BY <3>1, QueueAfterAppend
    <3> QED BY <1>1, <3>1, <3>2 DEF SendListens, SendInitialized, Listen, Types, TransportTypes, sendVars
  <2> QED BY <1>1, <2>1, <2>2 DEF SendListens, SendInitialized, Types, TransportTypes, sendVars, sharedVars
<1>2. CASE SendDelays
  <2> DEFINE m == Head(clientRx)
  <2>1. m \in Message /\ Tail(clientRx) \in Seq(Message)
    BY <1>2, QueueAfterTake DEF SendDelays, Types, TransportTypes
  <2>2. SendPending(m)
    BY <1>2 DEF SendDelays
  <2>3. ServerTypes' /\ incoming' \in Seq(News) /\ stdout' \in Seq(Output)
    BY <1>2 DEF SendDelays, Types, TransportTypes, ServerTypes
  <2> HIDE DEF m
  <2>4. call' \in [Ids -> {"unused", "waiting", "ok", "failed"}]
    BY <2>2, ClosedTyped DEF SendPending, Types, EditorTypes
  <2>5. EditorTypes'
    BY <1>2, <2>4 DEF SendDelays, Types, EditorTypes, initVars
  <2>6. ~IsEarly(m) /\ m.method # "shutdown" /\ m.kind # "notification" => m \in Delayed
    <3>1. m \in Calls => m.method \in {"initialize", "shutdown"} \/ m \in Work
      BY CallIs
    <3>2. m.kind # "notification" => m \in Calls \/ m \in Replies
      BY <2>1, MessageIs
    <3> QED BY <3>1, <3>2 DEF IsEarly, Delayed
  <2>7. m \in Delayed => Append(pendingMessages, m) \in Seq(Delayed)
    BY QueueAfterAppend DEF Types, TransportTypes
  <2>8. \A S : <<>> \in Seq(S)
    BY EmptySeq
  <2>9. /\ clientRx' \in Seq(Message) /\ injectRx' \in Seq(Replies)
        /\ pendingMessages' \in Seq(Delayed) /\ sendUp' \in BOOLEAN
    BY <2>1, <2>2, <2>6, <2>7, <2>8 DEF SendPending, Delay, Types, TransportTypes
  <2> QED BY <1>2, <2>3, <2>5, <2>9 DEF SendDelays, Types, TransportTypes, sharedVars
<1> QED BY <1>1, <1>2

-----------------------------------------------------------------------------
(* What the server makes of each kind of message. *)

IsRead(m, s) ==
  /\ s \in ServerState /\ s.up = srv.up
  /\ s.unanswered = IF m \in Calls THEN srv.unanswered \cup {m.arg} ELSE srv.unanswered
  /\ s.newest = IF m \in Calls THEN m.arg ELSE srv.newest
  /\ s.told = "shutdown" => srv.told = "shutdown" \/ m.method = "shutdown"
  /\ s.calls = IF m \in Replies THEN [srv.calls EXCEPT ![m.arg] = "answered"] ELSE srv.calls
  /\ \A d \in Docs :
       /\ m \in Opened => s.text[d] = IF d = m.arg[1] THEN m.arg[2] ELSE srv.text[d]
       /\ m \in Changed => (d # m.arg[1] => s.text[d] = srv.text[d])
                             /\ (d = m.arg[1] /\ srv.text[d] = m.arg[2] => s.text[d] = m.arg[3])
       /\ m \in Closings => s.text[d] = IF d = m.arg[1] THEN NotOpen ELSE srv.text[d]
       /\ m \notin Opened \cup Changed \cup Closings => s.text[d] = srv.text[d]

LEMMA OpenedIs ==
  ASSUME NEW m \in Opened
  PROVE  m.method = "didOpen" /\ m.arg[1] \in Docs /\ m.arg[2] \in 0 .. MaxEdits \cup {Garbled}
BY DEF Opened, Notification

LEMMA ChangedIs ==
  ASSUME NEW m \in Changed
  PROVE  /\ m.method = "didChange" /\ m.arg[1] \in Docs
         /\ m.arg[2] \in 0 .. MaxEdits - 1 \cup {Garbled}
         /\ m.arg[3] \in 0 .. MaxEdits \cup {Garbled}
<1>1. CASE \E d \in Docs, n \in 0 .. MaxEdits - 1 : m = Notification("didChange", <<d, n, n + 1>>)
  <2>1. PICK d \in Docs, n \in 0 .. MaxEdits - 1 : m = Notification("didChange", <<d, n, n + 1>>)
    BY <1>1
  <2>2. m.arg = <<d, n, n + 1>> /\ m.method = "didChange"
    BY <2>1 DEF Notification
  <2>3. m.arg[1] = d /\ m.arg[2] = n /\ m.arg[3] = n + 1
    BY <2>2
  <2> QED BY <2>2, <2>3, LspAssumption
<1>2. CASE \E d \in Docs : m = Notification("didChange", <<d, Garbled, Garbled>>)
  BY <1>2 DEF Notification
<1> QED BY <1>1, <1>2 DEF Changed

LEMMA ClosingIs ==
  ASSUME NEW m \in Closings
  PROVE  m.method = "didClose" /\ m.arg[1] \in Docs
BY DEF Closings, Notification

LEMMA CallIsRead ==
  ASSUME ServerTypes, NEW m \in Calls
  PROVE  IsRead(m, Receive(m))
<1>1. m.arg \in Ids /\ m.method \in {"initialize", "work", "shutdown"} /\ m.kind = "request"
  BY CallIs
<1>2. m \notin Replies /\ m \notin Opened \cup Changed \cup Closings
  BY <1>1, ReplyIs, NoticeIs DEF Notices
<1>3. CASE m.method = "shutdown"
  <2>1. Receive(m) = [srv EXCEPT !.told = "shutdown", !.unanswered = @ \cup {m.arg}, !.newest = m.arg]
    BY <1>3 DEF Receive
  <2>2. srv.unanswered \cup {m.arg} \in SUBSET Ids
    BY <1>1 DEF ServerTypes, ServerState
  <2>3. Receive(m) \in ServerState
    BY <1>1, <2>1, <2>2 DEF ServerTypes, ServerState
  <2>4. /\ Receive(m).up = srv.up /\ Receive(m).unanswered = srv.unanswered \cup {m.arg}
        /\ Receive(m).newest = m.arg
        /\ Receive(m).calls = srv.calls /\ Receive(m).text = srv.text
    BY <2>1 DEF ServerTypes, ServerState
  <2> QED BY <1>2, <1>3, <2>3, <2>4 DEF IsRead
<1>4. CASE m.method # "shutdown"
  <2>1. Receive(m) = [srv EXCEPT !.unanswered = @ \cup {m.arg}, !.newest = m.arg]
    BY <1>1, <1>4 DEF Receive
  <2>2. srv.unanswered \cup {m.arg} \in SUBSET Ids
    BY <1>1 DEF ServerTypes, ServerState
  <2>3. Receive(m) \in ServerState
    BY <1>1, <2>1, <2>2 DEF ServerTypes, ServerState
  <2>4. /\ Receive(m).up = srv.up /\ Receive(m).unanswered = srv.unanswered \cup {m.arg}
        /\ Receive(m).newest = m.arg /\ Receive(m).told = srv.told
        /\ Receive(m).calls = srv.calls /\ Receive(m).text = srv.text
    BY <2>1 DEF ServerTypes, ServerState
  <2> QED BY <1>2, <2>3, <2>4 DEF IsRead
<1> QED BY <1>3, <1>4

LEMMA ReplyIsRead ==
  ASSUME ServerTypes, NEW m \in Replies
  PROVE  IsRead(m, Receive(m))
<1>1. m.arg \in ServerCalls /\ m.method = "reply"
  BY ReplyIs
<1>2. m \notin Calls /\ m \notin Opened \cup Changed \cup Closings
  BY <1>1, CallIs, NoticeIs DEF Notices
<1>3. Receive(m) = [srv EXCEPT !.calls[m.arg] = "answered"]
  BY <1>1 DEF Receive
<1> QED BY <1>1, <1>2, <1>3 DEF IsRead, ServerTypes, ServerState

LEMMA NoticeIsRead ==
  ASSUME ServerTypes, NEW m \in Notices
  PROVE  IsRead(m, Receive(m))
<1>1. m \notin Calls /\ m \notin Replies /\ m.method # "shutdown"
  BY NoticeIs, CallIs, ReplyIs
<1>2. CASE m \in Opened
  <2>1. /\ m.method = "didOpen" /\ m.arg[1] \in Docs /\ m.arg[2] \in 0 .. MaxEdits \cup {Garbled}
        /\ m \notin Changed /\ m \notin Closings
    BY <1>2, OpenedIs, ChangedIs, ClosingIs
  <2>2. Receive(m) = [srv EXCEPT !.text[m.arg[1]] = m.arg[2]]
    BY <2>1 DEF Receive
  <2> QED BY <1>1, <1>2, <2>1, <2>2 DEF IsRead, ServerTypes, ServerState
<1>3. CASE m \in Changed
  <2> DEFINE d == m.arg[1]
             t == CASE srv.text[d] = NotOpen -> NotOpen [] srv.text[d] = m.arg[2] -> m.arg[3]
                    [] OTHER -> Garbled
  <2>1. /\ m.method = "didChange" /\ d \in Docs
        /\ m.arg[2] \in 0 .. MaxEdits - 1 \cup {Garbled}
        /\ m.arg[3] \in 0 .. MaxEdits \cup {Garbled}
        /\ m \notin Opened /\ m \notin Closings
    BY <1>3, OpenedIs, ChangedIs, ClosingIs
  <2>2. Receive(m) = [srv EXCEPT !.text[d] = t]
    BY <2>1 DEF Receive
  <2>3. t \in 0 .. MaxEdits \cup {NotOpen, Garbled}
    BY <2>1
  <2>4. srv.text[d] = m.arg[2] => t = m.arg[3]
    BY <2>1, LspAssumption
  <2> HIDE DEF t
  <2> QED BY <1>1, <1>3, <2>1, <2>2, <2>3, <2>4 DEF IsRead, ServerTypes, ServerState
<1>4. CASE m \in Closings
  <2>1. m.method = "didClose" /\ m.arg[1] \in Docs /\ m \notin Opened /\ m \notin Changed
    BY <1>4, OpenedIs, ChangedIs, ClosingIs
  <2>2. Receive(m) = [srv EXCEPT !.text[m.arg[1]] = NotOpen]
    BY <2>1 DEF Receive
  <2> QED BY <1>1, <1>4, <2>1, <2>2 DEF IsRead, ServerTypes, ServerState
<1>5. CASE m \in Others
  <2>1. m.method \in {"didChangeFolders", "initialized", "exit"}
    BY <1>5 DEF Others, Notification
  <2>2. m \notin Opened \cup Changed \cup Closings
    BY <2>1, OpenedIs, ChangedIs, ClosingIs
  <2>3. Receive(m) = [srv EXCEPT !.told = "exit"] \/ Receive(m) = srv
    BY <2>1 DEF Receive
  <2> QED BY <1>1, <2>2, <2>3 DEF IsRead, ServerTypes, ServerState
<1> QED BY <1>2, <1>3, <1>4, <1>5 DEF Notices

LEMMA MessageIsRead ==
  ASSUME ServerTypes, NEW m \in Message
  PROVE  IsRead(m, Receive(m))
BY CallIsRead, ReplyIsRead, NoticeIsRead DEF Message

LEMMA FlushTypes ==
  ASSUME Types, SendFlushes
  PROVE  /\ Types'
         /\ outgoing \in Message /\ outgoing' = Silent
         /\ srv.up => IsRead(outgoing, srv')
         /\ ~srv.up => srv' = srv
<1>1. outgoing \in Message /\ outgoing # Silent
  BY DEF SendFlushes, Types, TransportTypes
<1>2. ServerTypes /\ IsRead(outgoing, Receive(outgoing))
  BY <1>1, MessageIsRead DEF Types
<1>3. /\ srv.up => srv' = Receive(outgoing)
      /\ ~srv.up => srv' = srv
  BY DEF SendFlushes
<1>4. ServerTypes' /\ (srv.up => IsRead(outgoing, srv'))
  BY <1>2, <1>3 DEF IsRead, ServerTypes
<1>5. EditorTypes'
  BY DEF SendFlushes, Types, EditorTypes, editorVars, initVars
<1>6. shutdownFlushed' \in BOOLEAN
  BY DEF SendFlushes, Types, TransportTypes
<1>7. TransportTypes'
  BY <1>6 DEF SendFlushes, Types, TransportTypes, notifyVars
<1> QED BY <1>1, <1>3, <1>4, <1>5, <1>7 DEF SendFlushes, Types

LEMMA OutputIs ==
  ASSUME NEW m \in Output
  PROVE  /\ m.what = "answer" => m.id \in Ids /\ m.ok \in BOOLEAN /\ m = Answer(m.id, m.ok)
         /\ m.what = "call" => m \in FromServer /\ m.id \in ServerCalls /\ m = ServerCall(m.id)
BY DEF Output, FromServer, Answer, ServerCall, Malformed

LEMMA RecvTypes ==
  ASSUME Types, RecvTask
  PROVE  Types'
<1>1. ServerTypes'
  BY DEF RecvTask, RecvAnswer, RecvCall, RecvEnds, Types, ServerTypes
<1>2. stdout # <<>> => Tail(stdout) \in Seq(Output) /\ Head(stdout) \in Output
  BY QueueAfterTake DEF Types, TransportTypes
<1>3. CASE RecvAnswer
  <2>1. call' \in [Ids -> {"unused", "waiting", "ok", "failed"}]
    BY <1>3 DEF RecvAnswer, Types, EditorTypes
  <2>2. EditorTypes'
    BY <1>3, <2>1 DEF RecvAnswer, Types, EditorTypes, initVars
  <2>3. pendingRequests' \subseteq Ids /\ stdout' \in Seq(Output)
    BY <1>2, <1>3 DEF RecvAnswer, Types, TransportTypes
  <2>4. TransportTypes'
    BY <1>3, <2>3 DEF RecvAnswer, Types, TransportTypes, notifyVars, sendVars
  <2> QED BY <1>1, <2>2, <2>4 DEF Types
<1>4. CASE RecvCall
  <2>1. EditorTypes'
    BY <1>4 DEF RecvCall, Types, EditorTypes, editorVars, initVars
  <2>2. Head(stdout) \in FromServer /\ Response(Head(stdout).id) \in Replies
    BY <1>2, <1>4, OutputIs, MessagesAre DEF RecvCall
  <2>3. /\ Append(incoming, Head(stdout)) \in Seq(News)
        /\ Append(injectRx, Response(Head(stdout).id)) \in Seq(Replies)
    BY <2>2, QueueAfterAppend DEF News, Types, TransportTypes
  <2>4. incoming' \in Seq(News) /\ injectRx' \in Seq(Replies) /\ stdout' \in Seq(Output)
    BY <1>2, <1>4, <2>3 DEF RecvCall, Types, TransportTypes
  <2>5. TransportTypes'
    BY <1>4, <2>4 DEF RecvCall, Types, TransportTypes, notifyVars, sendVars, sharedVars
  <2> QED BY <1>1, <2>1, <2>5 DEF Types
<1>5. CASE RecvEnds
  <2>1. EditorTypes'
    BY <1>5, ClosedTyped DEF RecvEnds, Types, EditorTypes, initVars
  <2>2. Append(incoming, Exit) \in Seq(News)
    BY QueueAfterAppend DEF News, Types, TransportTypes
  <2>3. TransportTypes'
    BY <1>5, <2>2 DEF RecvEnds, Types, TransportTypes, notifyVars, sendVars
  <2> QED BY <1>1, <2>1, <2>3 DEF Types
<1> QED BY <1>3, <1>4, <1>5 DEF RecvTask

LEMMA ServerStepTypes ==
  ASSUME Types, Server
  PROVE  Types'
<1>1. EditorTypes'
  BY DEF Server, ServerAnswers, ServerAsks, ServerWritesMalformed, ServerDies, Types,
         EditorTypes, editorVars, initVars
<1>2. \A m \in Output : Append(stdout, m) \in Seq(Output)
  BY QueueAfterAppend DEF Types, TransportTypes
<1>3. stdout' \in Seq(Output) /\ ServerTypes'
  <2>1. ASSUME NEW id \in Ids, NEW ok \in BOOLEAN, ServerAnswers(id, ok)
        PROVE  stdout' \in Seq(Output) /\ ServerTypes'
    <3>1. Answer(id, ok) \in Output
      BY DEF Output
    <3>2. srv.unanswered \ {id} \in SUBSET Ids
      BY DEF Types, ServerTypes, ServerState
    <3> QED BY <1>2, <2>1, <3>1, <3>2 DEF ServerAnswers, Types, ServerTypes, ServerState
  <2>2. ASSUME NEW c \in ServerCalls, ServerAsks(c)
        PROVE  stdout' \in Seq(Output) /\ ServerTypes'
    <3>1. ServerCall(c) \in Output
      BY DEF Output, FromServer
    <3> QED BY <1>2, <2>2, <3>1 DEF ServerAsks, Types, ServerTypes, ServerState
  <2>3. ASSUME ServerWritesMalformed PROVE stdout' \in Seq(Output) /\ ServerTypes'
    <3>1. Malformed \in Output
      BY DEF Output
    <3> QED BY <1>2, <2>3, <3>1 DEF ServerWritesMalformed, Types, ServerTypes, ServerState
  <2>4. ASSUME ServerDies PROVE stdout' \in Seq(Output) /\ ServerTypes'
    BY <2>4, ServerIsTyped DEF ServerDies, Types, TransportTypes, ServerTypes
  <2> QED BY <2>1, <2>2, <2>3, <2>4 DEF Server
<1>4. TransportTypes'
  BY <1>3 DEF Server, ServerAnswers, ServerAsks, ServerWritesMalformed, ServerDies, Types,
              TransportTypes, notifyVars, sendVars, sharedVars
<1> QED BY <1>1, <1>3, <1>4 DEF Types

LEMMA TypesInit == Init => Types
<1> SUFFICES ASSUME Init PROVE Types
  OBVIOUS
<1>1. EditorTypes
  <2>1. 0 \in 0 .. MaxEdits /\ 1 \in 1 .. ShutdownId /\ preview = {} /\ misled = {}
    BY LspAssumption, MaxCallsType DEF Init
  <2>2. /\ doc = [d \in Docs |-> "none"] /\ text = [d \in Docs |-> 0]
        /\ call = [i \in Ids |-> "unused"] /\ rootTask = [r \in NewRoots |-> "idle"]
    BY DEF Init
  <2>3. doc \in [Docs -> {"none", "open", "closed"}] /\ text \in [Docs -> 0 .. MaxEdits]
    BY <2>1, <2>2
  <2>4. /\ call \in [Ids -> {"unused", "waiting", "ok", "failed"}]
        /\ rootTask \in [NewRoots -> {"idle", "spawned", "added"}]
    BY <2>2
  <2> QED BY <2>1, <2>3, <2>4 DEF Init, EditorTypes
<1>2. \A S : <<>> \in Seq(S)
  BY EmptySeq
<1>3. TransportTypes
  BY <1>2 DEF Init, TransportTypes
<1> QED BY <1>1, <1>3, ServerIsTyped DEF Init, Types, ServerTypes

LEMMA TypesStep ==
  ASSUME Types, [Next]_vars
  PROVE  Types'
<1>1. CASE UNCHANGED vars
  BY <1>1 DEF vars, Types, EditorTypes, TransportTypes, ServerTypes, editorVars, initVars,
              notifyVars, sendVars, sharedVars
<1>2. CASE MainThread
  BY <1>2, DocumentTypes, CallTypes, IncomingTypes, QuitTypes, RootTypes DEF MainThread, DocumentStep
<1>3. CASE SendTask
  BY <1>3, TakingTypes, PendingTypes, FlushTypes DEF SendTask
<1>4. CASE RecvTask
  BY <1>4, RecvTypes
<1>5. CASE InitTask
  BY <1>5, CallTypes, InitTaskTypes DEF InitTask
<1>6. CASE Server
  BY <1>6, ServerStepTypes
<1>7. CASE \E id \in Ids : Timeout(id)
  BY <1>7, CallTypes
<1>8. CASE \E r \in NewRoots : RootTask(r)
  BY <1>8, RootTypes DEF RootTask
<1> QED BY <1>1, <1>2, <1>3, <1>4, <1>5, <1>6, <1>7, <1>8 DEF Next, Exited

(* Channels carry only what their readers handle, and no index, request    *)
(* number or text leaves its range, in every instance.                     *)
THEOREM LspTypeCorrect == Spec => []Types
<1>1. Types /\ [Next]_vars => Types'
  BY TypesStep
<1> QED BY <1>1, TypesInit, PTL DEF Spec

-----------------------------------------------------------------------------
(* No caller is forgotten. *)

InLine == {outgoing} \cup Range(pendingMessages) \cup Range(clientRx)

Asked(id) == \E m \in InLine : m.kind = "request" /\ m.arg = id
IsWritten(id)  == outgoing.kind = "request" /\ outgoing.arg = id
IsAnswered(id) == recvUp /\ \E ok \in BOOLEAN : Answer(id, ok) \in Range(stdout)
Touched(id) == IsWritten(id) \/ id \in srv.unanswered \/ IsAnswered(id)

Traced(id) ==
  /\ call[id] = "waiting" => (Asked(id) \/ id \in pendingRequests)
  /\ call[id] = "waiting" => (Touched(id) => id \in pendingRequests)
  /\ call[id] = "unused" => (id = ShutdownId \/ (~Asked(id) /\ ~Touched(id)))

(* The inductive invariant: a request is known to the transport from the   *)
(* moment it is queued, and an identifier that was not handed out is known *)
(* to nobody.                                                              *)
Remembered ==
  /\ initTask = "start" => call[InitializeId] = "unused"
  /\ \A id \in nextCall .. ShutdownId : call[id] = "unused"
  /\ \A id \in Ids : Traced(id)

LEMMA ShutdownNeverWaits ==
  ASSUME Types, Remembered
  PROVE  call[ShutdownId] = "unused"
BY MaxCallsType DEF Types, EditorTypes, Remembered

LEMMA SentRange ==
  ASSUME Types, NEW ps \in Seq(Message), Sent(ps)
  PROVE  /\ sendUp => Range(clientRx') = Range(clientRx) \cup Range(ps)
         /\ ~sendUp => clientRx' = clientRx
<1>1. clientRx \in Seq(Message)
  BY DEF Types, TransportTypes
<1>2. Range(clientRx \o ps) = Range(clientRx) \cup Range(ps)
  BY <1>1, QueueAfterSend
<1> QED BY <1>2 DEF Sent

\* Requests that are neither asked nor touched anew.
LEMMA NothingAsked ==
  ASSUME Types, Remembered,
         NEW ps \in Seq(Message), Sent(ps) \/ UNCHANGED clientRx,
         \A m \in Range(ps) : m.kind # "request" \/ m.arg = ShutdownId,
         UNCHANGED <<call, nextCall, pendingMessages, outgoing, pendingRequests, recvUp, stdout, srv>>,
         initTask' = "start" => initTask = "start"
  PROVE  Remembered'
<1>1. Range(clientRx) \subseteq Range(clientRx') /\ Range(clientRx') \subseteq Range(clientRx) \cup Range(ps)
  BY SentRange
<1>2. ASSUME NEW id \in Ids PROVE Traced(id)'
  <2>1. Asked(id) => Asked(id)'
    BY <1>1 DEF Asked, InLine
  <2>2. Asked(id)' => Asked(id) \/ id = ShutdownId
    BY <1>1 DEF Asked, InLine
  <2>3. Touched(id)' = Touched(id)
    BY DEF Touched, IsWritten, IsAnswered
  <2> QED BY <2>1, <2>2, <2>3 DEF Remembered, Traced
<1> QED BY <1>2 DEF Remembered

\* A new request is queued by its caller.
LEMMA OneAsked ==
  ASSUME Types, Remembered, NEW id \in Ids, NEW m, Request(m, id) \in Message, Issue(id, m),
         call[id] = "unused", id # ShutdownId,
         UNCHANGED <<pendingMessages, outgoing, pendingRequests, recvUp, stdout, srv>>
  PROVE  \A i \in Ids : Traced(i)'
<1> DEFINE r == Request(m, id)
<1>1. <<r>> \in Seq(Message) /\ r.kind = "request" /\ r.arg = id /\ Range(<<r>>) = {r}
  BY DEF Request, Range
<1>2. /\ Sent(<<r>>)
      /\ call' = [call EXCEPT ![id] = IF sendUp THEN "waiting" ELSE "failed"]
  BY DEF Issue
<1> HIDE DEF r
<1>3. /\ sendUp => Range(clientRx') = Range(clientRx) \cup {r}
      /\ ~sendUp => clientRx' = clientRx
  BY <1>1, <1>2, SentRange
<1>4. ASSUME NEW i \in Ids PROVE Traced(i)'
  <2>1. Touched(i)' = Touched(i)
    BY DEF Touched, IsWritten, IsAnswered
  <2>2. CASE i = id
    <3>1. ~Touched(i)
      BY <2>2 DEF Remembered, Traced
    <3>2. sendUp => Asked(i)'
      BY <1>1, <1>3, <2>2 DEF Asked, InLine
    <3>3. call'[i] = IF sendUp THEN "waiting" ELSE "failed"
      BY <1>2, <2>2 DEF Types, EditorTypes
    <3> QED BY <2>1, <3>1, <3>2, <3>3 DEF Traced
  <2>3. CASE i # id
    <3>1. Asked(i)' <=> Asked(i)
      BY <1>1, <1>3, <2>3 DEF Asked, InLine
    <3>2. call'[i] = call[i]
      BY <1>2, <2>3 DEF Types, EditorTypes
    <3> QED BY <2>1, <3>1, <3>2 DEF Remembered, Traced
  <2> QED BY <2>2, <2>3
<1> QED BY <1>4

LEMMA CallsRemembered ==
  ASSUME Types, Remembered
  PROVE  /\ CallServer => Remembered'
         /\ Initialize => Remembered'
         /\ \A id \in Ids : Timeout(id) => Remembered'
<1>1. ASSUME CallServer PROVE Remembered'
  <2>1. nextCall \in 1 .. MaxCalls /\ nextCall' = nextCall + 1 /\ nextCall \in nextCall .. ShutdownId
    BY <1>1, MaxCallsType DEF CallServer, Types, EditorTypes
  <2>2. nextCall \in Ids /\ nextCall # ShutdownId /\ call[nextCall] = "unused" /\ nextCall # InitializeId
    BY <2>1, MaxCallsType DEF Remembered, InitializeId
  <2>3. \A i \in Ids : Traced(i)'
    BY <1>1, <2>1, <2>2, MessagesAre, OneAsked DEF CallServer, sendVars, sharedVars
  <2>4. \A i \in Ids : i # nextCall => call'[i] = call[i]
    BY <1>1, <2>2 DEF CallServer, Issue, Types, EditorTypes
  <2>5. \A i \in nextCall' .. ShutdownId : i \in nextCall .. ShutdownId /\ i # nextCall /\ i \in Ids
    BY <2>1, MaxCallsType
  <2>6. InitializeId \in Ids /\ initTask' = initTask
    BY <1>1, MaxCallsType DEF CallServer, initVars, InitializeId
  <2> QED BY <2>2, <2>3, <2>4, <2>5, <2>6 DEF Remembered
<1>2. ASSUME Initialize PROVE Remembered'
  <2>1. InitializeId \in Ids /\ InitializeId # ShutdownId /\ call[InitializeId] = "unused"
    BY <1>2, MaxCallsType DEF Initialize, InitializeId, Remembered
  <2>2. \A i \in Ids : Traced(i)'
    BY <1>2, <2>1, MessagesAre, OneAsked DEF Initialize, sendVars, sharedVars
  <2>3. initTask' = "called" /\ nextCall' = nextCall
    BY <1>2 DEF Initialize
  <2>4. \A i \in nextCall .. ShutdownId : i \in Ids /\ i # InitializeId
    BY MaxCallsType DEF Types, EditorTypes, InitializeId
  <2>5. \A i \in Ids : i # InitializeId => call'[i] = call[i]
    BY <1>2, <2>1 DEF Initialize, Issue, Types, EditorTypes
  <2> QED BY <2>2, <2>3, <2>4, <2>5 DEF Remembered
<1>3. ASSUME NEW id \in Ids, Timeout(id) PROVE Remembered'
  <2>1. /\ call' = [call EXCEPT ![id] = "failed"] /\ call[id] = "waiting"
        /\ UNCHANGED <<initTask, nextCall, clientRx, pendingMessages, outgoing, pendingRequests,
                       recvUp, stdout, srv>>
    BY <1>3 DEF Timeout, initVars, sendVars, sharedVars
  <2>2. \A i \in Ids : call'[i] = call[i] \/ (call[i] = "waiting" /\ call'[i] = "failed")
    BY <2>1 DEF Types, EditorTypes
  <2>3. \A i \in Ids : (Asked(i)' <=> Asked(i)) /\ (Touched(i)' <=> Touched(i))
    BY <2>1 DEF Asked, InLine, Touched, IsWritten, IsAnswered
  <2>4. \A i \in Ids : Traced(i)'
    BY <2>1, <2>2, <2>3 DEF Remembered, Traced
  <2>5. InitializeId \in Ids /\ \A i \in nextCall .. ShutdownId : i \in Ids
    BY MaxCallsType DEF Types, EditorTypes, InitializeId
  <2> QED BY <2>1, <2>2, <2>4, <2>5 DEF Remembered
<1> QED BY <1>1, <1>2, <1>3

LEMMA NoticeAsksNothing ==
  ASSUME Types, Remembered, NEW m \in Message, m.kind # "request",
         Sent(<<m>>) \/ UNCHANGED clientRx,
         UNCHANGED <<call, nextCall, pendingMessages, outgoing, pendingRequests, recvUp, stdout, srv>>,
         initTask' = "start" => initTask = "start"
  PROVE  Remembered'
<1>1. <<m>> \in Seq(Message) /\ Range(<<m>>) = {m}
  BY DEF Range
<1> QED BY <1>1, NothingAsked

\* The steps that send the server a notification, or nothing.
Notifies ==
  \/ \E d \in Docs : DocumentStep(d)
  \/ \E r \in NewRoots : AddRoot(r) \/ RootTask(r)
  \/ InitializeReturns \/ NotifyInitialized \/ WakeOne
  \/ SendListens \/ SendInitialized

LEMMA NoticeSent ==
  ASSUME Types, Notifies
  PROVE  \E m \in Message : m.kind # "request" /\ (Sent(<<m>>) \/ UNCHANGED clientRx)
<1>1. ASSUME NEW a, NEW b PROVE Notification(a, b).kind # "request"
  BY DEF Notification
<1>2. ASSUME NEW d \in Docs, OpenDoc(d) \/ CloseDoc(d)
      PROVE  \E m \in Message : m.kind # "request" /\ (Sent(<<m>>) \/ UNCHANGED clientRx)
  <2>1. DidOpen(d) \in Message /\ Notification("didClose", <<d>>) \in Message
    BY MessagesAre DEF DidOpen, Types, EditorTypes
  <2> QED BY <1>1, <1>2, <2>1 DEF OpenDoc, CloseDoc, IfInitialized, DidOpen
<1>3. ASSUME NEW d \in Docs, EditDoc(d)
      PROVE  \E m \in Message : m.kind # "request" /\ (Sent(<<m>>) \/ UNCHANGED clientRx)
  <2>1. text[d] \in 0 .. MaxEdits - 1
    BY <1>3, LspAssumption DEF EditDoc, Types, EditorTypes
  <2>2. Notification("didChange", <<d, text[d], text[d] + 1>>) \in Message
    BY <2>1, MessagesAre
  <2> QED BY <1>1, <1>3, <2>2 DEF EditDoc, IfInitialized
<1>4. ASSUME NEW r \in NewRoots, AddRoot(r) \/ RootTask(r)
      PROVE  \E m \in Message : m.kind # "request" /\ (Sent(<<m>>) \/ UNCHANGED clientRx)
  <2>1. Notification("didChangeFolders", <<r>>) \in Message
    BY MessagesAre
  <2> QED BY <1>1, <1>4, <2>1 DEF AddRoot, RootTask, RootListens, RootWakes, IfInitialized
<1>5. ASSUME InitializeReturns \/ NotifyInitialized \/ WakeOne \/ SendListens \/ SendInitialized
      PROVE  \E m \in Message : m.kind # "request" /\ (Sent(<<m>>) \/ UNCHANGED clientRx)
  <2>1. Notification("initialized", <<>>) \in Message
    BY MessagesAre
  <2> QED BY <1>1, <1>5, <2>1 DEF InitializeReturns, NotifyInitialized, WakeOne, SendListens, SendInitialized
<1>6. ASSUME NEW d \in Docs, GhostEdit(d) \/ EditOverGhost(d)
      PROVE  \E m \in Message : m.kind # "request" /\ (Sent(<<m>>) \/ UNCHANGED clientRx)
  <2>1. Notification("didChange", <<d, Garbled, Garbled>>) \in Message
    BY MessagesAre
  <2> QED BY <1>1, <1>6, <2>1 DEF GhostEdit, EditOverGhost
<1> QED BY <1>2, <1>3, <1>4, <1>5, <1>6 DEF Notifies, DocumentStep

LEMMA NotifiesRemember ==
  ASSUME Types, Remembered, Notifies
  PROVE  Remembered'
<1>1. /\ initTask' = "start" => initTask = "start"
      /\ UNCHANGED <<call, nextCall, pendingMessages, outgoing, pendingRequests, recvUp, stdout, srv>>
  BY DEF Notifies, DocumentStep, OpenDoc, EditDoc, CloseDoc, GhostEdit, EditOverGhost, AddRoot, RootTask, RootListens, RootWakes,
         InitializeReturns, NotifyInitialized, WakeOne, SendListens, SendInitialized, editorVars,
         initVars, sendVars, sharedVars
<1> QED BY <1>1, NoticeSent, NoticeAsksNothing

\* What the main thread sends when it handles a message.
LEMMA HandlingSends ==
  ASSUME Types, HandleIncoming
  PROVE  \E ps \in Seq(Message) : /\ \A m \in Range(ps) : m.kind # "request"
                                  /\ Sent(ps) \/ UNCHANGED clientRx
<1> DEFINE m == Head(incoming)
<1>1. m \in News
  BY QueueAfterTake DEF HandleIncoming, Types, TransportTypes
<1>2. \/ UNCHANGED clientRx
      \/ m = Initialized /\ Sent(Reopened)
      \/ m # Initialized /\ m # Exit /\ Sent(<<Response(m.id)>>)
  BY DEF HandleIncoming
<1> HIDE DEF m
<1>3. CASE Sent(Reopened)
  <2>1. Reopened \in Seq(Message)
    BY ReopenedAre DEF Types
  <2>2. \A i \in 1 .. Len(Reopened) : Reopened[i].kind = "notification"
    <3>1. \A d \in Docs : DidOpen(d).kind = "notification"
      BY DEF DidOpen, Notification
    <3> QED BY <3>1, ReopenedAre DEF Types
  <2>3. \A x \in Range(Reopened) : x.kind = "notification"
    BY <2>1, <2>2, InQueue
  <2> QED BY <1>3, <2>1, <2>3
<1>4. CASE m # Initialized /\ m # Exit /\ Sent(<<Response(m.id)>>)
  <2> DEFINE r == Response(m.id)
  <2>1. r \in Message /\ r.kind # "request"
    BY <1>1, <1>4, NewsIs, ReplyIs, MessagesAre
  <2>2. <<r>> \in Seq(Message) /\ Range(<<r>>) = {r}
    BY <2>1 DEF Range
  <2> HIDE DEF r
  <2>3. \A x \in Range(<<r>>) : x.kind # "request"
    BY <2>1, <2>2
  <2>4. Sent(<<r>>)
    BY <1>4 DEF r
  <2> QED BY <2>2, <2>3, <2>4
<1>5. CASE UNCHANGED clientRx
  <2>1. <<>> \in Seq(Message) /\ Range(<<>>) = {}
    BY EmptySeq DEF Range
  <2> QED BY <1>5, <2>1
<1> QED BY <1>2, <1>3, <1>4, <1>5

LEMMA HandlingRemembers ==
  ASSUME Types, Remembered, HandleIncoming
  PROVE  Remembered'
<1>1. /\ initTask' = "start" => initTask = "start"
      /\ UNCHANGED <<call, nextCall, pendingMessages, outgoing, pendingRequests, recvUp, stdout, srv>>
  BY DEF HandleIncoming, initVars, sendVars, sharedVars
<1>2. PICK ps \in Seq(Message) : /\ \A m \in Range(ps) : m.kind # "request"
                                 /\ Sent(ps) \/ UNCHANGED clientRx
  BY HandlingSends
<1> QED BY <1>1, <1>2, NothingAsked

LEMMA QuitRemembers ==
  ASSUME Types, Remembered, Quit \/ QuitFlushed \/ QuitCapped
  PROVE  Remembered'
<1>1. CASE Quit
  <2> DEFINE ps == <<Request("shutdown", ShutdownId), Notification("exit", <<>>)>>
  <2>1. ps \in Seq(Message) /\ Range(ps) = {Request("shutdown", ShutdownId), Notification("exit", <<>>)}
    BY MessagesAre DEF Range
  <2>2. \A m \in Range(ps) : m.kind # "request" \/ m.arg = ShutdownId
    BY <2>1 DEF Request, Notification
  <2>3. Sent(ps) \/ UNCHANGED clientRx
    BY <1>1 DEF Quit
  <2>4. /\ initTask' = "start" => initTask = "start"
        /\ UNCHANGED <<call, nextCall, pendingMessages, outgoing, pendingRequests, recvUp, stdout, srv>>
    BY <1>1 DEF Quit, initVars, sendVars, sharedVars
  <2> HIDE DEF ps
  <2> QED BY <2>1, <2>2, <2>3, <2>4, NothingAsked
<1>2. CASE QuitFlushed \/ QuitCapped
  <2>1. TornDown
    BY <1>2 DEF QuitFlushed, QuitCapped
  <2>2. \A i \in Ids : call'[i] # "waiting" /\ (call'[i] = "unused" <=> call[i] = "unused")
    BY <2>1 DEF TornDown, Closed, Types, EditorTypes
  <2>3. InLine' = {Silent}
    BY <2>1 DEF TornDown, InLine, Range
  <2>4. \A i \in Ids : ~Asked(i)' /\ ~Touched(i)'
    BY <2>1, <2>3, SilentIs DEF TornDown, Asked, Touched, IsWritten, IsAnswered, Dead, Started
  <2>5. nextCall' = nextCall /\ initTask' = initTask
    BY <2>1 DEF TornDown, initVars
  <2>6. InitializeId \in Ids /\ \A i \in nextCall .. ShutdownId : i \in Ids
    BY MaxCallsType DEF Types, EditorTypes, InitializeId
  <2> QED BY <2>2, <2>4, <2>5, <2>6 DEF Remembered, Traced
<1> QED BY <1>1, <1>2

\* The identifiers' bounds, where neither counter nor initialization moves.
LEMMA RememberedFrom ==
  ASSUME Types, Remembered, UNCHANGED <<nextCall, initTask>>,
         \A i \in Ids : Traced(i)' /\ (call[i] = "unused" => call'[i] = "unused")
  PROVE  Remembered'
<1>1. InitializeId \in Ids /\ \A i \in nextCall .. ShutdownId : i \in Ids
  BY MaxCallsType DEF Types, EditorTypes, InitializeId
<1> QED BY <1>1 DEF Remembered

\* A message is taken to be written; its request is registered first.
LEMMA OneTaken ==
  ASSUME Types, Remembered, NEW m \in Message, Take(m), outgoing = Silent,
         {x \in InLine' : x.kind = "request"} = {x \in InLine : x.kind = "request"},
         UNCHANGED <<call, nextCall, initTask, recvUp, stdout, srv>>
  PROVE  Remembered'
<1>1. ASSUME NEW i \in Ids PROVE Traced(i)'
  <2>1. Asked(i)' <=> Asked(i)
    BY DEF Asked
  <2>2. i \in pendingRequests => i \in pendingRequests'
    BY DEF Take, Register
  <2>3. IsWritten(i)' => i \in pendingRequests'
    BY DEF IsWritten, Take, Register
  <2>4. IsWritten(i)' => Asked(i)'
    BY DEF IsWritten, Asked, InLine
  <2>5. Touched(i)' => Touched(i) \/ IsWritten(i)'
    BY DEF Touched, IsAnswered
  <2> QED BY <2>1, <2>2, <2>3, <2>4, <2>5 DEF Remembered, Traced
<1> QED BY <1>1, RememberedFrom

LEMMA TakingRemembers ==
  ASSUME Types, Remembered, SendDrains \/ SendTakes \/ SendInjected
  PROVE  Remembered'
<1>1. /\ outgoing = Silent /\ UNCHANGED <<call, nextCall, initTask, recvUp, stdout, srv>>
  BY DEF SendDrains, SendTakes, SendInjected, Selecting, editorVars, initVars
<1>2. Silent.kind = "none"
  BY SilentIs
<1>3. /\ clientRx # <<>> => Head(clientRx) \in Message /\ Range(clientRx) = Range(Tail(clientRx)) \cup {Head(clientRx)}
      /\ pendingMessages # <<>> => Head(pendingMessages) \in Message
           /\ Range(pendingMessages) = Range(Tail(pendingMessages)) \cup {Head(pendingMessages)}
      /\ injectRx # <<>> => Head(injectRx) \in Replies
  <2>1. clientRx # <<>> => Head(clientRx) \in Message /\ Range(clientRx) = Range(Tail(clientRx)) \cup {Head(clientRx)}
    BY QueueAfterTake DEF Types, TransportTypes
  <2>2. pendingMessages # <<>> => Head(pendingMessages) \in Delayed
           /\ Range(pendingMessages) = Range(Tail(pendingMessages)) \cup {Head(pendingMessages)}
    BY QueueAfterTake DEF Types, TransportTypes
  <2>3. injectRx # <<>> => Head(injectRx) \in Replies
    BY QueueAfterTake DEF Types, TransportTypes
  <2> QED BY <2>1, <2>2, <2>3, MessagesAre
<1>4. CASE SendDrains
  <2>1. /\ Take(Head(pendingMessages)) /\ Head(pendingMessages) \in Message
        /\ outgoing' = Head(pendingMessages) /\ Range(pendingMessages') = Range(Tail(pendingMessages))
        /\ Range(clientRx') = Range(clientRx)
        /\ Range(pendingMessages) = Range(Tail(pendingMessages)) \cup {Head(pendingMessages)}
    BY <1>3, <1>4 DEF SendDrains, Take
  <2>2. InLine = InLine' \cup {Silent}
    BY <1>1, <2>1 DEF InLine
  <2> QED BY <1>1, <1>2, <2>1, <2>2, OneTaken
<1>5. CASE SendTakes
  <2>1. /\ Take(Head(clientRx)) /\ Head(clientRx) \in Message
        /\ outgoing' = Head(clientRx) /\ Range(clientRx') = Range(Tail(clientRx))
        /\ Range(pendingMessages') = Range(pendingMessages)
        /\ Range(clientRx) = Range(Tail(clientRx)) \cup {Head(clientRx)}
    BY <1>3, <1>5 DEF SendTakes, Take
  <2>2. InLine = InLine' \cup {Silent}
    BY <1>1, <2>1 DEF InLine
  <2> QED BY <1>1, <1>2, <2>1, <2>2, OneTaken
<1>6. CASE SendInjected
  <2> DEFINE m == Head(injectRx)
  <2>1. Take(m) /\ outgoing' = m /\ UNCHANGED <<clientRx, pendingMessages>>
    BY <1>6 DEF SendInjected, Take
  <2>2. m \in Message /\ m.kind # "request"
    BY <1>3, <1>6, ReplyIs, MessagesAre DEF SendInjected
  <2> HIDE DEF m
  <2>3. /\ InLine' = {m} \cup Range(pendingMessages) \cup Range(clientRx)
        /\ InLine = {Silent} \cup Range(pendingMessages) \cup Range(clientRx)
    BY <1>1, <2>1 DEF InLine
  <2> QED BY <1>1, <1>2, <2>1, <2>2, <2>3, OneTaken
<1> QED BY <1>4, <1>5, <1>6

LEMMA ClosedAre ==
  ASSUME Types, NEW ids, call' = Closed(ids), NEW i \in Ids
  PROVE  /\ call'[i] = "unused" <=> call[i] = "unused"
         /\ call'[i] = "waiting" <=> call[i] = "waiting" /\ i \notin ids
BY DEF Types, EditorTypes, Closed

LEMMA InRequestIds ==
  ASSUME NEW S, NEW s \in Seq(S), NEW m \in Range(s), m.kind = "request"
  PROVE  m.arg \in RequestIds(s)
<1>1. PICK i \in 1 .. Len(s) : s[i] = m
  BY InQueue
<1>2. i \in DOMAIN s
  BY <1>1, LenProperties
<1> QED BY <1>1, <1>2 DEF RequestIds

LEMMA DelaysRemember ==
  ASSUME Types, Remembered, SendDelays
  PROVE  Remembered'
<1> DEFINE m == Head(clientRx)
<1>1. /\ outgoing = Silent /\ UNCHANGED <<nextCall, initTask, outgoing, pendingRequests, recvUp, stdout, srv>>
      /\ clientRx # <<>> /\ SendPending(m)
  BY DEF SendDelays, Selecting, initVars, sharedVars
<1>2. m \in Message /\ Tail(clientRx) \in Seq(Message) /\ Range(clientRx) = Range(Tail(clientRx)) \cup {m}
  BY <1>1, QueueAfterTake DEF Types, TransportTypes
<1>3. pendingMessages \in Seq(Delayed) /\ clientRx \in Seq(Message)
  BY DEF Types, TransportTypes
<1> HIDE DEF m
<1>4. \A i \in Ids : Touched(i)' = Touched(i)
  BY <1>1 DEF Touched, IsWritten, IsAnswered
<1>5. InLine = {Silent} \cup Range(pendingMessages) \cup Range(Tail(clientRx)) \cup {m}
  BY <1>1, <1>2 DEF InLine
<1>6. Silent.kind = "none"
  BY SilentIs
<1>7. CASE m.method = "shutdown"
  <2> DEFINE lost == RequestIds(pendingMessages) \cup RequestIds(Tail(clientRx))
  <2>1. call' = Closed(lost) /\ pendingMessages' = <<>> /\ clientRx' = <<>>
    BY <1>1, <1>7 DEF SendPending
  <2>2. \A x \in Range(pendingMessages) \cup Range(Tail(clientRx)) :
          x.kind = "request" => x.arg \in lost
    BY <1>2, <1>3, InRequestIds
  <2> HIDE DEF lost
  <2>3. m.arg = ShutdownId
    BY <1>2, <1>7, MessageIs, CallIs
  <2>4. call[ShutdownId] = "unused"
    BY ShutdownNeverWaits
  <2>5. InLine' = {Silent}
    BY <1>1, <2>1 DEF InLine, Range
  <2>6. ASSUME NEW i \in Ids PROVE Traced(i)' /\ (call[i] = "unused" => call'[i] = "unused")
    <3>1. /\ call'[i] = "unused" <=> call[i] = "unused"
          /\ call'[i] = "waiting" <=> call[i] = "waiting" /\ i \notin lost
      BY <2>1, ClosedAre
    <3>2. ~Asked(i)'
      BY <1>6, <2>5 DEF Asked
    <3>3. call'[i] = "waiting" => ~Asked(i)
      BY <1>5, <1>6, <2>2, <2>3, <2>4, <3>1 DEF Asked
    <3> QED BY <1>1, <1>4, <3>1, <3>2, <3>3 DEF Remembered, Traced
  <2> QED BY <1>1, <2>6, RememberedFrom
<1>8. CASE m.method # "shutdown"
  <2>1. /\ clientRx' = Tail(clientRx) /\ call' = call
        /\ IF m.kind = "notification" THEN UNCHANGED pendingMessages ELSE Delay(m)
        /\ ~IsEarly(m)
    BY <1>1, <1>8 DEF SendPending
  <2>2. m.kind # "notification" => m \in Delayed
    BY <1>2, <1>8, <2>1, MessageIs, CallIs DEF IsEarly, Delayed
  <2>3. Range(pendingMessages') = IF m.kind = "notification" THEN Range(pendingMessages)
                                                             ELSE Range(pendingMessages) \cup {m}
    <3>1. m.kind # "notification" =>
            Range(Append(pendingMessages, m)) = Range(pendingMessages) \cup {m}
      BY <1>3, <2>2, QueueAfterAppend
    <3> QED BY <2>1, <3>1 DEF Delay
  <2>4. {x \in InLine' : x.kind = "request"} = {x \in InLine : x.kind = "request"}
    BY <1>1, <1>5, <2>1, <2>3 DEF InLine
  <2>5. \A i \in Ids : Asked(i)' <=> Asked(i)
    BY <2>4 DEF Asked
  <2>6. \A i \in Ids : Traced(i)' /\ (call[i] = "unused" => call'[i] = "unused")
    BY <1>1, <1>4, <2>1, <2>5 DEF Remembered, Traced
  <2> QED BY <1>1, <2>6, RememberedFrom
<1> QED BY <1>7, <1>8

LEMMA FlushRemembers ==
  ASSUME Types, Remembered, SendFlushes
  PROVE  Remembered'
<1>1. /\ outgoing' = Silent /\ outgoing \in Message
      /\ UNCHANGED <<call, nextCall, initTask, clientRx, pendingMessages, pendingRequests, recvUp, stdout>>
  BY FlushTypes DEF SendFlushes, editorVars, initVars
<1>2. srv'.unanswered = srv.unanswered \/
        (outgoing.kind = "request" /\ srv'.unanswered = srv.unanswered \cup {outgoing.arg})
  BY <1>1, FlushTypes, MessageIs DEF IsRead
<1>4. InLine' \subseteq InLine \cup {Silent} /\ InLine \subseteq InLine' \cup {outgoing}
  BY <1>1 DEF InLine
<1>5. ASSUME NEW i \in Ids PROVE Traced(i)' /\ (call[i] = "unused" => call'[i] = "unused")
  <2>1. Asked(i)' => Asked(i)
    BY <1>4, SilentIs DEF Asked
  <2>2. Asked(i) => Asked(i)' \/ IsWritten(i)
    BY <1>4 DEF Asked, IsWritten
  <2>3. ~IsWritten(i)' /\ IsAnswered(i)' = IsAnswered(i)
    BY <1>1, SilentIs DEF IsWritten, IsAnswered
  <2>4. i \in srv'.unanswered => i \in srv.unanswered \/ IsWritten(i)
    BY <1>2 DEF IsWritten
  <2>5. Touched(i)' => Touched(i)
    BY <2>3, <2>4 DEF Touched
  <2>6. IsWritten(i) => Touched(i)
    BY DEF Touched
  <2> QED BY <1>1, <2>1, <2>2, <2>5, <2>6 DEF Remembered, Traced
<1> QED BY <1>1, <1>5, RememberedFrom

LEMMA RecvRemembers ==
  ASSUME Types, Remembered, RecvTask
  PROVE  Remembered'
<1>1. UNCHANGED <<nextCall, initTask, clientRx, pendingMessages, outgoing, srv>> /\ recvUp
  BY DEF RecvTask, RecvAnswer, RecvCall, RecvEnds, Receiving, editorVars, initVars, sendVars
<1>2. \A i \in Ids : Asked(i)' = Asked(i) /\ IsWritten(i)' = IsWritten(i)
  BY <1>1 DEF Asked, InLine, IsWritten
<1>3. stdout # <<>> => /\ Head(stdout) \in Output /\ Range(stdout) = Range(Tail(stdout)) \cup {Head(stdout)}
                       /\ Tail(stdout) \in Seq(Output)
  BY QueueAfterTake DEF Types, TransportTypes
<1>4. CASE RecvAnswer
  <2> DEFINE a == Head(stdout)
  <2>1. /\ pendingRequests' = pendingRequests \ {a.id} /\ stdout' = Tail(stdout) /\ stdout # <<>>
        /\ recvUp' = recvUp /\ a.what = "answer"
        /\ call' = IF a.id \in pendingRequests /\ call[a.id] = "waiting"
                   THEN [call EXCEPT ![a.id] = IF a.ok THEN "ok" ELSE "failed"] ELSE call
    BY <1>4 DEF RecvAnswer
  <2>2. a.id \in Ids /\ a.ok \in BOOLEAN /\ a = Answer(a.id, a.ok) /\ a \in Range(stdout)
    BY <1>3, <2>1, OutputIs
  <2>3. Range(stdout') \subseteq Range(stdout)
    BY <1>3, <2>1
  <2> HIDE DEF a
  <2>4. Touched(a.id)
    BY <1>1, <2>2 DEF Touched, IsAnswered
  <2>5. call[a.id] = "waiting" => a.id \in pendingRequests
    BY <2>2, <2>4 DEF Remembered, Traced
  <2>6. call'[a.id] # "waiting" /\ (call[a.id] = "unused" <=> call'[a.id] = "unused")
    BY <2>1, <2>2, <2>5 DEF Types, EditorTypes
  <2>7. \A i \in Ids : i # a.id => call'[i] = call[i] /\ (i \in pendingRequests' <=> i \in pendingRequests)
    BY <2>1 DEF Types, EditorTypes
  <2>8. \A i \in Ids : Touched(i)' => Touched(i)
    BY <1>1, <1>2, <2>1, <2>3 DEF Touched, IsAnswered
  <2>9. ASSUME NEW i \in Ids PROVE Traced(i)' /\ (call[i] = "unused" => call'[i] = "unused")
    <3>1. CASE i = a.id
      BY <1>2, <2>2, <2>4, <2>6, <2>8, <3>1 DEF Remembered, Traced
    <3>2. CASE i # a.id
      BY <1>2, <2>7, <2>8, <3>2 DEF Remembered, Traced
    <3> QED BY <3>1, <3>2
  <2> QED BY <1>1, <2>9, RememberedFrom
<1>5. CASE RecvCall
  <2>1. UNCHANGED <<call, pendingRequests, recvUp>> /\ stdout' = Tail(stdout) /\ stdout # <<>>
    BY <1>5 DEF RecvCall, editorVars, sharedVars
  <2>2. Range(stdout') \subseteq Range(stdout)
    BY <1>3, <2>1
  <2>3. \A i \in Ids : Touched(i)' => Touched(i)
    BY <1>1, <1>2, <2>1, <2>2 DEF Touched, IsAnswered
  <2>4. \A i \in Ids : Traced(i)' /\ (call[i] = "unused" => call'[i] = "unused")
    BY <1>2, <2>1, <2>3 DEF Remembered, Traced
  <2> QED BY <1>1, <2>4, RememberedFrom
<1>6. CASE RecvEnds
  <2>1. call' = Closed(pendingRequests) /\ pendingRequests' = {} /\ ~recvUp'
    BY <1>6 DEF RecvEnds
  <2>2. \A i \in Ids : ~IsAnswered(i)'
    BY <2>1 DEF IsAnswered
  <2>3. \A i \in Ids : Touched(i)' => Touched(i)
    BY <1>1, <1>2, <2>2 DEF Touched
  <2>4. ASSUME NEW i \in Ids PROVE Traced(i)' /\ (call[i] = "unused" => call'[i] = "unused")
    <3>1. /\ call'[i] = "unused" <=> call[i] = "unused"
          /\ call'[i] = "waiting" <=> call[i] = "waiting" /\ i \notin pendingRequests
      BY <2>1, ClosedAre
    <3> QED BY <1>2, <2>3, <3>1 DEF Remembered, Traced
  <2> QED BY <1>1, <2>4, RememberedFrom
<1> QED BY <1>4, <1>5, <1>6 DEF RecvTask

LEMMA ServerRemembers ==
  ASSUME Types, Remembered, Server
  PROVE  Remembered'
<1>1. UNCHANGED <<call, nextCall, initTask, clientRx, pendingMessages, outgoing, pendingRequests, recvUp>>
  BY DEF Server, ServerAnswers, ServerAsks, ServerWritesMalformed, ServerDies, editorVars, initVars,
         sendVars, sharedVars
<1>2. \A i \in Ids : Asked(i)' = Asked(i) /\ IsWritten(i)' = IsWritten(i)
  BY <1>1 DEF Asked, InLine, IsWritten
<1>3. \A i \in Ids : Touched(i)' => Touched(i)
  <2>1. \A x \in Output : Range(Append(stdout, x)) = Range(stdout) \cup {x}
    BY QueueAfterAppend DEF Types, TransportTypes
  <2>2. ASSUME NEW id \in Ids, NEW ok \in BOOLEAN, ServerAnswers(id, ok)
        PROVE  \A i \in Ids : Touched(i)' => Touched(i)
    <3>1. Answer(id, ok) \in Output
      BY DEF Output
    <3>2. Range(stdout') = Range(stdout) \cup {Answer(id, ok)} /\ srv'.unanswered \subseteq srv.unanswered
      BY <2>1, <2>2, <3>1 DEF ServerAnswers, Types, ServerTypes, ServerState
    <3>3. id \in srv.unanswered
      BY <2>2 DEF ServerAnswers
    <3>4. \A i \in Ids, k \in BOOLEAN : Answer(i, k) = Answer(id, ok) => i = id
      BY DEF Answer
    <3> QED BY <1>1, <1>2, <3>2, <3>3, <3>4 DEF Touched, IsAnswered
  <2>3. ASSUME NEW x \in Output, x.what # "answer", stdout' = Append(stdout, x),
               srv'.unanswered = srv.unanswered
        PROVE  \A i \in Ids : Touched(i)' => Touched(i)
    <3>1. \A i \in Ids, k \in BOOLEAN : Answer(i, k) # x
      BY <2>3 DEF Answer
    <3>2. Range(stdout') = Range(stdout) \cup {x}
      BY <2>1, <2>3
    <3> QED BY <1>1, <1>2, <2>3, <3>1, <3>2 DEF Touched, IsAnswered
  <2>4. ASSUME NEW c \in ServerCalls, ServerAsks(c) PROVE \A i \in Ids : Touched(i)' => Touched(i)
    <3>1. ServerCall(c) \in Output /\ ServerCall(c).what # "answer"
      <4>1. ServerCall(c) \in Output
        BY DEF Output, FromServer
      <4> QED BY <4>1 DEF ServerCall
    <3>2. srv'.unanswered = srv.unanswered /\ stdout' = Append(stdout, ServerCall(c))
      BY <2>4 DEF ServerAsks, Types, ServerTypes, ServerState
    <3> QED BY <2>3, <3>1, <3>2
  <2>5. ASSUME ServerWritesMalformed PROVE \A i \in Ids : Touched(i)' => Touched(i)
    <3>1. Malformed \in Output /\ Malformed.what # "answer"
      BY DEF Output, Malformed
    <3>2. srv'.unanswered = srv.unanswered /\ stdout' = Append(stdout, Malformed)
      BY <2>5 DEF ServerWritesMalformed, Types, ServerTypes, ServerState
    <3> QED BY <2>3, <3>1, <3>2
  <2>6. ASSUME ServerDies PROVE \A i \in Ids : Touched(i)' => Touched(i)
    <3>1. srv'.unanswered = {} /\ stdout' = stdout
      BY <2>6 DEF ServerDies, Dead, Started
    <3> QED BY <1>1, <1>2, <3>1 DEF Touched, IsAnswered
  <2> QED BY <2>2, <2>4, <2>5, <2>6 DEF Server
<1>4. \A i \in Ids : Traced(i)' /\ (call[i] = "unused" => call'[i] = "unused")
  BY <1>1, <1>2, <1>3 DEF Remembered, Traced
<1> QED BY <1>1, <1>4, RememberedFrom

LEMMA RememberedStep ==
  ASSUME Types, Remembered, [Next]_vars
  PROVE  Remembered'
<1>1. CASE UNCHANGED vars
  BY <1>1 DEF vars, Remembered, Traced, Asked, InLine, Touched, IsWritten, IsAnswered, editorVars,
              initVars, sendVars, sharedVars
<1>2. CASE MainThread
  BY <1>2, NotifiesRemember, CallsRemembered, HandlingRemembers, QuitRemembers DEF MainThread, DocumentStep,
         Notifies
<1>3. CASE SendTask
  BY <1>3, TakingRemembers, NotifiesRemember, DelaysRemember, FlushRemembers DEF SendTask, Notifies
<1>4. CASE RecvTask
  BY <1>4, RecvRemembers
<1>5. CASE InitTask
  BY <1>5, CallsRemembered, NotifiesRemember DEF InitTask, Notifies
<1>6. CASE Server
  BY <1>6, ServerRemembers
<1>7. CASE \E id \in Ids : Timeout(id)
  BY <1>7, CallsRemembered
<1>8. CASE \E r \in NewRoots : RootTask(r)
  BY <1>8, NotifiesRemember DEF Notifies
<1> QED BY <1>1, <1>2, <1>3, <1>4, <1>5, <1>6, <1>7, <1>8 DEF Next, Exited

LEMMA RememberedInit == Init => Remembered
<1> SUFFICES ASSUME Init PROVE Remembered
  OBVIOUS
<1>1. \A i \in Ids : call[i] = "unused"
  BY DEF Init
<1>2. InLine = {Silent} /\ Range(stdout) = {}
  BY DEF Init, InLine, Range
<1>3. \A i \in Ids : ~Asked(i) /\ ~Touched(i)
  BY <1>2, SilentIs DEF Init, Asked, Touched, IsWritten, IsAnswered, Started
<1>4. InitializeId \in Ids /\ \A i \in nextCall .. ShutdownId : i \in Ids
  BY MaxCallsType DEF Init, InitializeId
<1> QED BY <1>1, <1>3, <1>4 DEF Remembered, Traced

LEMMA RememberedHolds == Spec => [](Types /\ Remembered)
<1>1. Init => Types /\ Remembered
  BY TypesInit, RememberedInit
<1>2. Types /\ Remembered /\ [Next]_vars => Types' /\ Remembered'
  BY TypesStep, RememberedStep
<1> QED BY <1>1, <1>2, PTL DEF Spec

\* The line, place by place.
LEMMA LineIs ==
  ASSUME Types
  PROVE  /\ Line \in Seq(Message \cup {Silent})
         /\ Len(Line) = 1 + Len(pendingMessages) + Len(clientRx)
         /\ Len(pendingMessages) \in Nat /\ Len(clientRx) \in Nat
         /\ Line[1] = outgoing
         /\ \A i \in 1 .. Len(pendingMessages) : Line[1 + i] = pendingMessages[i]
         /\ \A i \in 1 .. Len(clientRx) : Line[1 + Len(pendingMessages) + i] = clientRx[i]
<1> DEFINE T == Message \cup {Silent}  p == <<outgoing>> \o pendingMessages
<1>1. clientRx \in Seq(Message) /\ pendingMessages \in Seq(Delayed) /\ outgoing \in T
  BY DEF Types, TransportTypes
<1>2. Delayed \subseteq T /\ Message \subseteq T
  BY MessagesAre
<1>3. clientRx \in Seq(T) /\ pendingMessages \in Seq(T)
  BY <1>1, <1>2, SeqMonotonic
<1>4. <<outgoing>> \in Seq(T) /\ Len(<<outgoing>>) = 1 /\ <<outgoing>>[1] = outgoing
  BY <1>1
<1> HIDE DEF T
<1>5. /\ p \in Seq(T) /\ Len(p) = 1 + Len(pendingMessages) /\ p[1] = outgoing
      /\ \A i \in 1 .. Len(pendingMessages) : p[1 + i] = pendingMessages[i]
  BY <1>3, <1>4, QueueAfterSend
<1> HIDE DEF p
<1>6. Line = p \o clientRx
  BY DEF Line, p
<1>7. /\ Line \in Seq(T) /\ Len(Line) = Len(p) + Len(clientRx)
      /\ \A i \in 1 .. Len(p) : Line[i] = p[i]
      /\ \A i \in 1 .. Len(clientRx) : Line[Len(p) + i] = clientRx[i]
  BY <1>3, <1>5, <1>6, QueueAfterSend
<1>8. Len(pendingMessages) \in Nat /\ Len(clientRx) \in Nat
  BY <1>1, LenProperties
<1>9. /\ Line[1] = outgoing
      /\ \A i \in 1 .. Len(pendingMessages) : Line[1 + i] = pendingMessages[i]
  <2>1. 1 \in 1 .. Len(p) /\ \A i \in 1 .. Len(pendingMessages) : 1 + i \in 1 .. Len(p)
    BY <1>5, <1>8
  <2> QED BY <1>5, <1>7, <2>1
<1> QED BY <1>5, <1>7, <1>8, <1>9 DEF T

LEMMA AskedInLine ==
  ASSUME Types, NEW id, Asked(id)
  PROVE  id \in RequestIds(Line)
<1>1. PICK m \in InLine : m.kind = "request" /\ m.arg = id
  BY DEF Asked
<1>2. clientRx \in Seq(Message) /\ pendingMessages \in Seq(Delayed)
  BY DEF Types, TransportTypes
<1>3. \E i \in 1 .. Len(Line) : Line[i] = m
  <2>1. CASE m = outgoing
    BY <2>1, LineIs
  <2>2. CASE m \in Range(pendingMessages)
    <3>1. PICK i \in 1 .. Len(pendingMessages) : pendingMessages[i] = m
      BY <1>2, <2>2, InQueue
    <3>2. 1 + i \in 1 .. Len(Line)
      BY LineIs
    <3> QED BY <3>1, <3>2, LineIs
  <2>3. CASE m \in Range(clientRx)
    <3>1. PICK i \in 1 .. Len(clientRx) : clientRx[i] = m
      BY <1>2, <2>3, InQueue
    <3>2. 1 + Len(pendingMessages) + i \in 1 .. Len(Line)
      BY LineIs
    <3> QED BY <3>1, <3>2, LineIs
  <2> QED BY <2>1, <2>2, <2>3 DEF InLine
<1>4. Line \in Seq(Message \cup {Silent})
  BY LineIs
<1>5. m \in Range(Line)
  BY <1>3, <1>4, InQueue
<1> QED BY <1>1, <1>4, <1>5, InRequestIds

(* A caller that waits is never forgotten, for any number of requests,     *)
(* documents and roots, whatever the server does and whenever either of    *)
(* the transport's tasks ends: process_request_response finds a sender for *)
(* every answer that somebody waits for.                                   *)
THEOREM CallsAreKnown == Spec => []NoCallIsForgotten
<1>1. ASSUME Types, Remembered PROVE NoCallIsForgotten
  <2>1. ASSUME NEW id \in Ids, call[id] = "waiting"
        PROVE  /\ id \in RequestIds(Line) \cup pendingRequests
               /\ Answer(id, TRUE) \in Range(stdout) /\ recvUp => id \in pendingRequests
    <3>1. Asked(id) \/ id \in pendingRequests
      BY <1>1, <2>1 DEF Remembered, Traced
    <3>2. Touched(id) => id \in pendingRequests
      BY <1>1, <2>1 DEF Remembered, Traced
    <3>3. Answer(id, TRUE) \in Range(stdout) /\ recvUp => Touched(id)
      BY DEF Touched, IsAnswered
    <3> QED BY <1>1, <3>1, <3>2, <3>3, AskedInLine
  <2> QED BY <2>1 DEF NoCallIsForgotten
<1> QED BY <1>1, RememberedHolds, PTL

-----------------------------------------------------------------------------
(* Requests keep their order. *)

Increasing(s) ==
  \A j \in DOMAIN s : Asking(s[j]) => \A i \in 1 .. j - 1 : Asking(s[i]) => s[i].arg < s[j].arg
Above(n, S) == \A m \in S : Asking(m) => n < m.arg
Before(S, T) == \A m \in S : Asking(m) => Above(m.arg, T)

(* The inductive invariant: what the server has read comes before what is  *)
(* being written, that before what was delayed, and that before what is    *)
(* still in the channel; a running editor's next request comes after all.  *)
Ordered ==
  /\ Increasing(pendingMessages) /\ Increasing(clientRx)
  /\ Before(Range(pendingMessages), Range(clientRx))
  /\ Before({outgoing}, Range(pendingMessages) \cup Range(clientRx))
  /\ Above(srv.newest, InLine)
  /\ phase = "running" => srv.newest < nextCall /\ \A m \in InLine : Asking(m) => m.arg < nextCall

LEMMA IncreasingSeq ==
  ASSUME NEW S, NEW s \in Seq(S)
  PROVE  Increasing(s) <=> \A j \in 1 .. Len(s) : \A i \in 1 .. j - 1 :
                             Asking(s[i]) /\ Asking(s[j]) => s[i].arg < s[j].arg
<1>1. DOMAIN s = 1 .. Len(s)
  BY LenProperties
<1> QED BY <1>1 DEF Increasing

LEMMA IncreasingAfterSend ==
  ASSUME NEW S, NEW s \in Seq(S), NEW t \in Seq(S), Increasing(s), Increasing(t),
         Before(Range(s), Range(t))
  PROVE  Increasing(s \o t)
<1>1. /\ s \o t \in Seq(S) /\ Len(s \o t) = Len(s) + Len(t) /\ Len(s) \in Nat /\ Len(t) \in Nat
      /\ \A i \in 1 .. Len(s) : (s \o t)[i] = s[i]
      /\ \A i \in 1 .. Len(s \o t) : i > Len(s) =>
              i - Len(s) \in 1 .. Len(t) /\ (s \o t)[i] = t[i - Len(s)]
  BY QueueAfterSend, LenProperties
<1>2. /\ \A i \in 1 .. Len(s) : s[i] \in Range(s)
      /\ \A i \in 1 .. Len(t) : t[i] \in Range(t)
  BY InQueue
<1> DEFINE u == s \o t
<1> HIDE DEF u
<1>3. ASSUME NEW j \in 1 .. Len(u), NEW i \in 1 .. j - 1, Asking(u[i]), Asking(u[j])
      PROVE  u[i].arg < u[j].arg
  <2>1. i \in 1 .. Len(u) /\ i < j /\ i \in Int /\ j \in Int
    BY <1>1, <1>3 DEF u
  <2>2. CASE j <= Len(s)
    <3>1. i \in 1 .. Len(s) /\ j \in 1 .. Len(s) /\ u[i] = s[i] /\ u[j] = s[j]
      BY <1>1, <2>1, <2>2 DEF u
    <3> QED BY <1>3, <3>1, IncreasingSeq
  <2>3. CASE i > Len(s)
    <3>1. i - Len(s) \in 1 .. Len(t) /\ u[i] = t[i - Len(s)]
      BY <1>1, <2>1, <2>3 DEF u
    <3>2. j - Len(s) \in 1 .. Len(t) /\ u[j] = t[j - Len(s)]
      BY <1>1, <2>1, <2>3 DEF u
    <3>3. i - Len(s) \in 1 .. (j - Len(s)) - 1
      BY <1>1, <2>1, <3>1, <3>2
    <3> QED BY <1>3, <3>1, <3>2, <3>3, IncreasingSeq
  <2>4. CASE i <= Len(s) /\ j > Len(s)
    <3>1. i \in 1 .. Len(s) /\ u[i] \in Range(s)
      BY <1>1, <1>2, <2>1, <2>4 DEF u
    <3>2. u[j] \in Range(t)
      BY <1>1, <1>2, <2>1, <2>4 DEF u
    <3> QED BY <1>3, <3>1, <3>2 DEF Before, Above
  <2> QED BY <1>1, <2>1, <2>2, <2>3, <2>4
<1>4. u \in Seq(S)
  BY <1>1 DEF u
<1>5. Increasing(u)
  BY <1>3, <1>4, IncreasingSeq
<1> QED BY <1>5 DEF u

LEMMA IncreasingAfterTake ==
  ASSUME NEW S, NEW s \in Seq(S), s # <<>>, Increasing(s)
  PROVE  Increasing(Tail(s)) /\ Before({Head(s)}, Range(Tail(s)))
<1> DEFINE t == Tail(s)
<1>1. /\ t \in Seq(S) /\ Len(s) \in Nat \ {0} /\ Len(t) = Len(s) - 1 /\ Head(s) = s[1]
      /\ \A i \in 1 .. Len(t) : i + 1 \in 1 .. Len(s) /\ t[i] = s[i + 1]
  BY QueueAfterTake
<1> HIDE DEF t
<1>2. ASSUME NEW j \in 1 .. Len(t), NEW i \in 1 .. j - 1, Asking(t[i]), Asking(t[j])
      PROVE  t[i].arg < t[j].arg
  <2>1. i \in 1 .. Len(t) /\ i + 1 \in 1 .. (j + 1) - 1 /\ j + 1 \in 1 .. Len(s)
    BY <1>1
  <2> QED BY <1>1, <1>2, <2>1, IncreasingSeq
<1>3. ASSUME NEW m \in Range(t), Asking(m), Asking(Head(s)) PROVE Head(s).arg < m.arg
  <2>1. PICK i \in 1 .. Len(t) : t[i] = m
    BY <1>1, InQueue
  <2>2. i + 1 \in 1 .. Len(s) /\ s[i + 1] = m /\ 1 \in 1 .. (i + 1) - 1
    BY <1>1, <2>1
  <2> QED BY <1>1, <1>3, <2>2, IncreasingSeq
<1>4. Increasing(t)
  BY <1>1, <1>2, IncreasingSeq
<1> QED BY <1>3, <1>4 DEF t, Before, Above

LEMMA AskingIs ==
  ASSUME NEW m \in Message, Asking(m)
  PROVE  m.arg \in 1 .. ShutdownId /\ m.kind = "request"
<1>1. m \in Calls /\ m.method \in {"work", "shutdown"}
  BY MessageIs DEF Asking
<1> QED BY <1>1, CallIs, MaxCallsType

\* Messages are queued that come after everything in line.
LEMMA SendingOrdered ==
  ASSUME Types, Ordered, NEW ps \in Seq(Message), Sent(ps) \/ UNCHANGED clientRx, Increasing(ps),
         \A m \in Range(ps) : Asking(m) => phase = "running" /\ nextCall <= m.arg,
         UNCHANGED <<pendingMessages, outgoing, srv>>,
         phase' = "running" => /\ phase = "running" /\ nextCall <= nextCall' /\ nextCall' \in Nat
                               /\ \A m \in Range(ps) : Asking(m) => m.arg < nextCall'
  PROVE  Ordered'
<1>1. clientRx \in Seq(Message) /\ nextCall \in Nat /\ srv.newest \in Nat
  BY MaxCallsType DEF Types, TransportTypes, EditorTypes, ServerTypes, ServerState
<1>2. InLine \subseteq Message \cup {Silent}
  <2>1. /\ Range(clientRx) \subseteq Message /\ outgoing \in Message \cup {Silent}
    BY <1>1, QueueTyped DEF Types, TransportTypes
  <2>2. Range(pendingMessages) \subseteq Delayed
    BY QueueTyped DEF Types, TransportTypes
  <2> QED BY <2>1, <2>2, MessagesAre DEF InLine
<1>3. ~Asking(Silent)
  BY SilentIs DEF Asking
<1>4. \A m \in InLine : Asking(m) => m.arg \in Nat
  BY <1>2, <1>3, AskingIs, MaxCallsType
<1>5. \A m \in Range(ps) : Asking(m) => m.arg \in Nat
  BY QueueTyped, AskingIs, MaxCallsType
<1>6. \A m \in InLine, x \in Range(ps) : Asking(m) /\ Asking(x) => m.arg < x.arg
  BY <1>1, <1>4, <1>5 DEF Ordered
<1>7. \A x \in Range(ps) : Asking(x) => srv.newest < x.arg
  BY <1>1, <1>5 DEF Ordered
<1>8. CASE UNCHANGED clientRx
  <2>1. InLine' = InLine
    BY <1>8 DEF InLine
  <2>2. phase' = "running" => /\ srv.newest < nextCall'
                              /\ \A m \in InLine : Asking(m) => m.arg < nextCall'
    BY <1>1, <1>4 DEF Ordered
  <2>3. /\ Increasing(pendingMessages)' /\ Increasing(clientRx)'
        /\ Before(Range(pendingMessages), Range(clientRx))'
        /\ Before({outgoing}, Range(pendingMessages) \cup Range(clientRx))'
    BY <1>8 DEF Ordered, Increasing, Before, Above
  <2>4. Above(srv.newest, InLine)'
    BY <2>1 DEF Ordered, Above
  <2> QED BY <2>1, <2>2, <2>3, <2>4 DEF Ordered
<1>9. CASE Sent(ps) /\ sendUp
  <2>1. clientRx' = clientRx \o ps /\ Range(clientRx') = Range(clientRx) \cup Range(ps)
    BY <1>9, SentRange DEF Sent
  <2>2. Before(Range(clientRx), Range(ps))
    BY <1>6 DEF Before, Above, InLine
  <2>3. Increasing(clientRx')
    BY <1>1, <2>1, <2>2, IncreasingAfterSend DEF Ordered
  <2>4. InLine' = InLine \cup Range(ps)
    BY <2>1 DEF InLine
  <2>5. /\ Before(Range(pendingMessages), Range(clientRx'))
        /\ Before({outgoing}, Range(pendingMessages) \cup Range(clientRx'))
    BY <1>6, <2>1 DEF Ordered, Before, Above, InLine
  <2>6. Above(srv.newest, InLine')
    BY <1>7, <2>4 DEF Ordered, Above
  <2>7. phase' = "running" => /\ srv.newest < nextCall'
                              /\ \A m \in InLine' : Asking(m) => m.arg < nextCall'
    BY <1>1, <1>4, <2>4 DEF Ordered
  <2>8. Increasing(pendingMessages)'
    BY DEF Ordered
  <2> QED BY <2>3, <2>5, <2>6, <2>7, <2>8 DEF Ordered
<1> QED BY <1>8, <1>9 DEF Sent

LEMMA SingleIs ==
  ASSUME NEW m \in Message
  PROVE  <<m>> \in Seq(Message) /\ Range(<<m>>) = {m} /\ Increasing(<<m>>)
<1>1. <<m>> \in Seq(Message) /\ Range(<<m>>) = {m} /\ Len(<<m>>) = 1
  BY DEF Range
<1> DEFINE s == <<m>>
<1>2. s \in Seq(Message) /\ Len(s) = 1
  BY <1>1
<1> HIDE DEF s
<1>3. Increasing(s)
  BY <1>2, IncreasingSeq
<1> QED BY <1>1, <1>3 DEF s

LEMMA NumbersAreNat ==
  ASSUME Types
  PROVE  nextCall \in Nat /\ srv.newest \in Nat
BY MaxCallsType DEF Types, EditorTypes, ServerTypes, ServerState

LEMMA QuietlyOrdered ==
  ASSUME Types, Ordered, NEW ps \in Seq(Message), Sent(ps) \/ UNCHANGED clientRx,
         \A m \in Range(ps) : m.kind # "request",
         UNCHANGED <<phase, nextCall, pendingMessages, outgoing, srv>>
  PROVE  Ordered'
<1>1. \A m \in Range(ps) : ~Asking(m)
  BY QueueTyped, AskingIs
<1>2. \A i \in 1 .. Len(ps) : ps[i] \in Range(ps)
  BY InQueue
<1>3. Increasing(ps)
  BY <1>1, <1>2, IncreasingSeq
<1> QED BY <1>1, <1>3, NumbersAreNat, SendingOrdered

LEMMA EditorOrdered ==
  ASSUME Types, Ordered
  PROVE  /\ Notifies => Ordered'
         /\ HandleIncoming => Ordered'
         /\ CallServer => Ordered'
         /\ Initialize => Ordered'
         /\ Quit => Ordered'
<1>1. ASSUME Notifies PROVE Ordered'
  <2>1. PICK m \in Message : m.kind # "request" /\ (Sent(<<m>>) \/ UNCHANGED clientRx)
    BY <1>1, NoticeSent
  <2>2. UNCHANGED <<phase, nextCall, pendingMessages, outgoing, srv>>
    BY <1>1 DEF Notifies, DocumentStep, OpenDoc, EditDoc, CloseDoc, GhostEdit, EditOverGhost, AddRoot,
       RootTask, RootListens, RootWakes,
       InitializeReturns, NotifyInitialized, WakeOne, SendListens, SendInitialized, editorVars, sendVars
  <2> QED BY <2>1, <2>2, SingleIs, QuietlyOrdered
<1>2. ASSUME HandleIncoming PROVE Ordered'
  <2>1. PICK ps \in Seq(Message) : /\ \A m \in Range(ps) : m.kind # "request"
                                   /\ Sent(ps) \/ UNCHANGED clientRx
    BY <1>2, HandlingSends
  <2>2. UNCHANGED <<phase, nextCall, pendingMessages, outgoing, srv>>
    BY <1>2 DEF HandleIncoming, sendVars
  <2> QED BY <2>1, <2>2, QuietlyOrdered
<1>3. ASSUME CallServer PROVE Ordered'
  <2> DEFINE m == Request("work", nextCall)
  <2>1. nextCall \in 1 .. MaxCalls /\ nextCall' = nextCall + 1 /\ phase = "running"
    BY <1>3, MaxCallsType DEF CallServer, Types, EditorTypes
  <2>2. m \in Message /\ m.arg = nextCall
    BY <2>1, MessagesAre DEF Request
  <2>3. Sent(<<m>>) /\ UNCHANGED <<phase, pendingMessages, outgoing, srv>>
    BY <1>3 DEF CallServer, Issue, sendVars
  <2> HIDE DEF m
  <2>4. <<m>> \in Seq(Message) /\ Range(<<m>>) = {m} /\ Increasing(<<m>>)
    BY <2>2, SingleIs
  <2>5. nextCall' \in Nat /\ nextCall <= nextCall' /\ nextCall < nextCall' /\ nextCall <= nextCall
    BY <2>1
  <2>6. \A x \in Range(<<m>>) : x.arg = nextCall
    BY <2>2, <2>4
  <2> QED BY <2>1, <2>3, <2>4, <2>5, <2>6, SendingOrdered
<1>4. ASSUME Initialize PROVE Ordered'
  <2> DEFINE m == Request("initialize", InitializeId)
  <2>1. m \in Message /\ ~Asking(m)
    BY MessagesAre DEF Request, Asking
  <2>2. Sent(<<m>>) /\ UNCHANGED <<phase, nextCall, pendingMessages, outgoing, srv>>
    BY <1>4 DEF Initialize, Issue, sendVars
  <2> HIDE DEF m
  <2>3. <<m>> \in Seq(Message) /\ Range(<<m>>) = {m} /\ Increasing(<<m>>)
    BY <2>1, SingleIs
  <2>4. \A x \in Range(<<m>>) : ~Asking(x)
    BY <2>1, <2>3
  <2>5. nextCall' \in Nat /\ nextCall <= nextCall'
    BY <2>2, NumbersAreNat
  <2> QED BY <2>2, <2>3, <2>4, <2>5, SendingOrdered
<1>5. ASSUME Quit PROVE Ordered'
  <2> DEFINE m == Request("shutdown", ShutdownId)
             n == Notification("exit", <<>>)
  <2>1. m \in Message /\ n \in Message /\ ~Asking(n) /\ m.arg = ShutdownId
    BY MessagesAre DEF Request, Notification, Asking
  <2>2. Sent(<<m, n>>) \/ UNCHANGED clientRx
    BY <1>5 DEF Quit
  <2>3. phase = "running" /\ phase' = "closing" /\ UNCHANGED <<pendingMessages, outgoing, srv>>
    BY <1>5 DEF Quit, sendVars
  <2> HIDE DEF m, n
  <2>4. /\ <<m, n>> \in Seq(Message) /\ Range(<<m, n>>) = {m, n} /\ Len(<<m, n>>) = 2
        /\ <<m, n>>[1] = m /\ <<m, n>>[2] = n
    BY <2>1 DEF Range
  <2>5. \A j \in 1 .. 2 : \A i \in 1 .. j - 1 : j = 2
    OBVIOUS
  <2>6. Increasing(<<m, n>>)
    BY <2>1, <2>4, <2>5, IncreasingSeq
  <2>7. nextCall <= ShutdownId
    BY MaxCallsType DEF Types, EditorTypes
  <2>8. \A x \in Range(<<m, n>>) : Asking(x) => nextCall <= x.arg
    BY <2>1, <2>4, <2>7
  <2> QED BY <2>2, <2>3, <2>4, <2>6, <2>8, SendingOrdered
<1> QED BY <1>1, <1>2, <1>3, <1>4, <1>5

\* Nothing about the line or the server's newest request changes.
LEMMA LineUntouched ==
  ASSUME Ordered, UNCHANGED <<clientRx, pendingMessages, outgoing, nextCall>>,
         phase' = "running" => phase = "running",
         srv'.newest = srv.newest
  PROVE  Ordered'
<1>1. InLine' = InLine
  BY DEF InLine
<1>2. /\ Increasing(pendingMessages)' /\ Increasing(clientRx)'
      /\ Before(Range(pendingMessages), Range(clientRx))'
      /\ Before({outgoing}, Range(pendingMessages) \cup Range(clientRx))'
  BY DEF Ordered, Increasing, Before, Above
<1> QED BY <1>1, <1>2 DEF Ordered, Above

\* The foremost message is taken to be written, ...
LEMMA TakingOrdered ==
  ASSUME Types, Ordered, SendDrains \/ SendTakes \/ SendInjected
  PROVE  Ordered'
<1>1. /\ outgoing = Silent /\ UNCHANGED <<phase, nextCall, srv>>
  BY DEF SendDrains, SendTakes, SendInjected, Selecting, editorVars
<1>2. clientRx \in Seq(Message) /\ pendingMessages \in Seq(Delayed) /\ injectRx \in Seq(Replies)
  BY DEF Types, TransportTypes
<1>3. CASE SendDrains
  <2>1. /\ outgoing' = Head(pendingMessages) /\ pendingMessages' = Tail(pendingMessages)
        /\ clientRx' = clientRx /\ pendingMessages # <<>>
    BY <1>3 DEF SendDrains, Take
  <2>2. /\ Range(pendingMessages) = Range(pendingMessages') \cup {outgoing'}
    BY <1>2, <2>1, QueueAfterTake
  <2>3. Increasing(pendingMessages') /\ Before({outgoing'}, Range(pendingMessages'))
    BY <1>2, <2>1, IncreasingAfterTake DEF Ordered
  <2>4. InLine' \subseteq InLine
    BY <2>1, <2>2 DEF InLine
  <2>5. /\ Before({outgoing'}, Range(clientRx)) /\ Before(Range(pendingMessages'), Range(clientRx))
    BY <2>2 DEF Ordered, Before, Above
  <2>6. Before({outgoing'}, Range(pendingMessages') \cup Range(clientRx'))
    BY <2>1, <2>3, <2>5 DEF Before, Above
  <2> QED BY <1>1, <2>1, <2>3, <2>4, <2>5, <2>6 DEF Ordered, Above
<1>4. CASE SendTakes
  <2>1. /\ outgoing' = Head(clientRx) /\ clientRx' = Tail(clientRx)
        /\ pendingMessages' = pendingMessages /\ clientRx # <<>>
        /\ IsEarly(outgoing') \/ pendingMessages = <<>>
    BY <1>4 DEF SendTakes, Take, Drained, Types, TransportTypes
  <2>2. /\ Range(clientRx) = Range(clientRx') \cup {outgoing'}
    BY <1>2, <2>1, QueueAfterTake
  <2>3. Increasing(clientRx') /\ Before({outgoing'}, Range(clientRx'))
    BY <1>2, <2>1, IncreasingAfterTake DEF Ordered
  <2>4. InLine' \subseteq InLine
    BY <2>1, <2>2 DEF InLine
  <2>5. Before(Range(pendingMessages), Range(clientRx'))
    BY <2>2 DEF Ordered, Before, Above
  <2>6. ~Asking(outgoing') \/ Range(pendingMessages) = {}
    BY <1>2, <2>1, QueueTyped DEF IsEarly, Asking
  <2>7. Before({outgoing'}, Range(pendingMessages') \cup Range(clientRx'))
    BY <2>1, <2>3, <2>6 DEF Before, Above
  <2> QED BY <1>1, <2>1, <2>3, <2>4, <2>5, <2>7 DEF Ordered, Above
<1>5. CASE SendInjected
  <2>1. /\ outgoing' = Head(injectRx) /\ UNCHANGED <<clientRx, pendingMessages>> /\ injectRx # <<>>
    BY <1>5 DEF SendInjected, Take
  <2>2. outgoing' \in Message /\ outgoing'.kind # "request"
    BY <1>2, <2>1, QueueAfterTake, ReplyIs, MessagesAre
  <2>3. ~Asking(outgoing')
    BY <2>2, AskingIs
  <2>4. InLine' \subseteq InLine \cup {outgoing'}
    BY <2>1 DEF InLine
  <2>5. Increasing(pendingMessages') /\ Increasing(clientRx')
          /\ Before(Range(pendingMessages'), Range(clientRx'))
    BY <2>1 DEF Ordered
  <2>6. Before({outgoing'}, Range(pendingMessages') \cup Range(clientRx'))
    BY <2>3 DEF Before
  <2>7. /\ Above(srv.newest, InLine')
        /\ phase = "running" => \A m \in InLine' : Asking(m) => m.arg < nextCall
    BY <2>3, <2>4 DEF Ordered, Above
  <2> QED BY <1>1, <2>5, <2>6, <2>7 DEF Ordered
<1> QED BY <1>3, <1>4, <1>5

\* ... or delayed, or dropped with everything else by a shutdown, ...
LEMMA DelaysOrdered ==
  ASSUME Types, Ordered, SendDelays
  PROVE  Ordered'
<1> DEFINE m == Head(clientRx)
<1>1. /\ outgoing = Silent /\ UNCHANGED <<phase, nextCall, outgoing, srv>>
      /\ clientRx # <<>> /\ SendPending(m)
  BY DEF SendDelays, Selecting
<1>2. pendingMessages \in Seq(Delayed) /\ clientRx \in Seq(Message)
  BY DEF Types, TransportTypes
<1>3. m \in Message /\ Tail(clientRx) \in Seq(Message) /\ Range(clientRx) = Range(Tail(clientRx)) \cup {m}
  BY <1>1, <1>2, QueueAfterTake
<1>4. Increasing(Tail(clientRx)) /\ Before({m}, Range(Tail(clientRx)))
  BY <1>1, <1>2, IncreasingAfterTake DEF Ordered
<1> HIDE DEF m
<1>5. Above(srv.newest, InLine) /\ ~Asking(Silent)
  BY SilentIs DEF Ordered, Asking
<1>6. CASE m.method = "shutdown"
  <2>1. pendingMessages' = <<>> /\ clientRx' = <<>>
    BY <1>1, <1>6 DEF SendPending
  <2>2. Range(<<>>) = {} /\ Increasing(<<>>)
    BY DEF Range, Increasing
  <2>3. InLine' = {Silent}
    BY <1>1, <2>1, <2>2 DEF InLine
  <2> QED BY <1>1, <1>5, <2>1, <2>2, <2>3 DEF Ordered, Before, Above
<1>7. CASE m.method # "shutdown"
  <2>1. /\ clientRx' = Tail(clientRx) /\ ~IsEarly(m)
        /\ pendingMessages' = pendingMessages \/ pendingMessages' = Append(pendingMessages, m)
        /\ m.kind # "notification" => pendingMessages' = Append(pendingMessages, m)
        /\ m.kind = "notification" => pendingMessages' = pendingMessages
    BY <1>1, <1>7 DEF SendPending, Delay
  <2>2. m.kind # "notification" => m \in Delayed
    BY <1>3, <1>7, <2>1, MessageIs, CallIs DEF IsEarly, Delayed
  <2>3. Range(pendingMessages') \subseteq Range(pendingMessages) \cup {m}
    <3>1. CASE m.kind = "notification"
      BY <2>1, <3>1
    <3>2. CASE m.kind # "notification"
      <4>1. Range(Append(pendingMessages, m)) = Range(pendingMessages) \cup {m}
        BY <1>2, <2>2, <3>2, QueueAfterAppend
      <4> QED BY <2>1, <3>2, <4>1
    <3> QED BY <3>1, <3>2
  <2>4. Increasing(pendingMessages')
    <3>1. CASE m.kind = "notification"
      BY <2>1, <3>1 DEF Ordered
    <3>2. CASE m.kind # "notification"
      <4>1. Before(Range(pendingMessages), {m})
        BY <1>3 DEF Ordered, Before, Above
      <4>2. <<m>> \in Seq(Delayed) /\ Range(<<m>>) = {m} /\ Increasing(<<m>>)
        <5>1. <<m>> \in Seq(Delayed)
          BY <2>2, <3>2
        <5> QED BY <1>3, <5>1, SingleIs
      <4>3. Append(pendingMessages, m) = pendingMessages \o <<m>>
        BY <1>2, <2>2, <3>2, AppendIsConcat
      <4>4. Increasing(pendingMessages)
        BY DEF Ordered
      <4>5. Increasing(pendingMessages \o <<m>>)
        BY <1>2, <4>1, <4>2, <4>4, IncreasingAfterSend
      <4> QED BY <2>1, <3>2, <4>3, <4>5
    <3> QED BY <3>1, <3>2
  <2>5. InLine' \subseteq InLine
    BY <1>1, <1>3, <2>1, <2>3 DEF InLine
  <2>6. Before(Range(pendingMessages'), Range(clientRx'))
    BY <1>3, <1>4, <2>1, <2>3 DEF Ordered, Before, Above
  <2>7. Before({outgoing'}, Range(pendingMessages') \cup Range(clientRx'))
    BY <1>1, <1>5 DEF Before
  <2> QED BY <1>1, <1>4, <2>1, <2>4, <2>5, <2>6, <2>7 DEF Ordered, Above
<1> QED BY <1>6, <1>7

\* ... or read by the server.
LEMMA FlushOrdered ==
  ASSUME Types, Ordered, SendFlushes
  PROVE  Ordered'
<1>1. /\ outgoing' = Silent /\ outgoing \in Message
      /\ UNCHANGED <<phase, nextCall, clientRx, pendingMessages>>
  BY FlushTypes DEF SendFlushes, editorVars
<1>2. ~Asking(Silent)
  BY SilentIs DEF Asking
<1>3. srv'.newest = srv.newest \/ (outgoing \in Calls /\ srv'.newest = outgoing.arg)
  BY FlushTypes DEF IsRead
<1>4. InLine' \subseteq InLine \cup {Silent} /\ InLine' \subseteq {Silent} \cup (Range(pendingMessages) \cup Range(clientRx))
  BY <1>1 DEF InLine
<1>5. InLine \subseteq Message \cup {Silent} /\ nextCall \in 1 .. ShutdownId
  <2>1. Range(clientRx) \subseteq Message /\ outgoing \in Message \cup {Silent} /\ Range(pendingMessages) \subseteq Delayed
    BY QueueTyped DEF Types, TransportTypes
  <2> QED BY <2>1, MessagesAre DEF InLine, Types, EditorTypes
<1>6. /\ Above(srv'.newest, InLine')
      /\ phase = "running" => srv'.newest < nextCall
  <2>1. CASE srv'.newest = srv.newest
    BY <1>2, <1>4, <2>1 DEF Ordered, Above
  <2>2. CASE outgoing \in Calls /\ srv'.newest = outgoing.arg /\ Asking(outgoing)
    <3>1. Above(srv'.newest, InLine')
      BY <1>2, <1>4, <2>2 DEF Ordered, Above, Before
    <3>2. phase = "running" => srv'.newest < nextCall
      BY <2>2 DEF Ordered, InLine
    <3> QED BY <3>1, <3>2
  <2>3. CASE outgoing \in Calls /\ srv'.newest = outgoing.arg /\ ~Asking(outgoing)
    <3>1. srv'.newest = 0
      BY <2>3, CallIs DEF Asking, InitializeId
    <3>2. \A x \in InLine' : Asking(x) => 0 < x.arg
      <4>1. ASSUME NEW x \in InLine', Asking(x) PROVE 0 < x.arg
        <5>1. x \in Message
          BY <1>2, <1>4, <1>5, <4>1
        <5> QED BY <4>1, <5>1, AskingIs, MaxCallsType
      <4> QED BY <4>1
    <3>3. 0 < nextCall
      BY <1>5, MaxCallsType
    <3> QED BY <3>1, <3>2, <3>3 DEF Above
  <2> QED BY <1>3, <2>1, <2>2, <2>3
<1>7. /\ Increasing(pendingMessages') /\ Increasing(clientRx')
      /\ Before(Range(pendingMessages'), Range(clientRx'))
  BY <1>1 DEF Ordered
<1>8. Before({outgoing'}, Range(pendingMessages') \cup Range(clientRx'))
  BY <1>1, <1>2 DEF Before
<1>9. phase' = "running" => \A x \in InLine' : Asking(x) => x.arg < nextCall'
  BY <1>1, <1>2, <1>4 DEF Ordered
<1> QED BY <1>1, <1>6, <1>7, <1>8, <1>9 DEF Ordered

LEMMA TornDownOrdered ==
  ASSUME Types, TornDown
  PROVE  Ordered'
<1>1. /\ pendingMessages' = <<>> /\ clientRx' = <<>> /\ outgoing' = Silent /\ srv' = Dead
      /\ phase' = "exited"
  BY DEF TornDown
<1>2. Range(<<>>) = {} /\ Increasing(<<>>) /\ ~Asking(Silent)
  BY SilentIs DEF Range, Increasing, Asking
<1>3. InLine' = {Silent}
  BY <1>1, <1>2 DEF InLine
<1> QED BY <1>1, <1>2, <1>3 DEF Ordered, Before, Above

LEMMA ServerOrdered ==
  ASSUME Types, Ordered, Server
  PROVE  Ordered'
<1>1. UNCHANGED <<phase, nextCall, clientRx, pendingMessages, outgoing>>
  BY DEF Server, ServerAnswers, ServerAsks, ServerWritesMalformed, ServerDies, editorVars, sendVars
<1>2. CASE srv'.newest = srv.newest
  BY <1>1, <1>2, LineUntouched
<1>3. CASE srv'.newest = 0
  <2>1. InLine' = InLine
    BY <1>1 DEF InLine
  <2>2. srv.newest \in Nat /\ nextCall \in Nat
    BY NumbersAreNat
  <2>3. /\ Range(clientRx) \subseteq Message /\ Range(pendingMessages) \subseteq Delayed
        /\ outgoing \in Message \cup {Silent}
    BY QueueTyped DEF Types, TransportTypes
  <2>4. InLine \subseteq Message \cup {Silent} /\ ~Asking(Silent)
    BY <2>3, MessagesAre, SilentIs DEF InLine, Asking
  <2>5. \A x \in InLine : Asking(x) => 0 < x.arg
    BY <2>4, AskingIs, MaxCallsType
  <2>6. phase = "running" => 0 < nextCall
    BY <2>2 DEF Ordered
  <2>7. /\ Increasing(pendingMessages)' /\ Increasing(clientRx)'
        /\ Before(Range(pendingMessages), Range(clientRx))'
        /\ Before({outgoing}, Range(pendingMessages) \cup Range(clientRx))'
    BY <1>1 DEF Ordered, Increasing, Before, Above
  <2>8. phase' = "running" => \A x \in InLine' : Asking(x) => x.arg < nextCall'
    BY <1>1, <2>1 DEF Ordered
  <2> QED BY <1>1, <1>3, <2>1, <2>5, <2>6, <2>7, <2>8 DEF Ordered, Above
<1>4. srv'.newest = srv.newest \/ srv'.newest = 0
  BY DEF Server, ServerAnswers, ServerAsks, ServerWritesMalformed, ServerDies, Dead, Started,
         Types, ServerTypes, ServerState
<1> QED BY <1>2, <1>3, <1>4

LEMMA OrderedStep ==
  ASSUME Types, Ordered, [Next]_vars
  PROVE  Ordered'
<1>1. CASE UNCHANGED vars
  BY <1>1, LineUntouched DEF vars, editorVars, sendVars
<1>2. CASE MainThread
  <2>1. CASE QuitFlushed \/ QuitCapped
    BY <2>1, TornDownOrdered DEF QuitFlushed, QuitCapped
  <2> QED BY <1>2, <2>1, EditorOrdered DEF MainThread, DocumentStep, Notifies
<1>3. CASE SendTask
  BY <1>3, EditorOrdered, TakingOrdered, DelaysOrdered, FlushOrdered DEF SendTask, Notifies
<1>4. CASE RecvTask
  <2>1. UNCHANGED <<phase, nextCall, clientRx, pendingMessages, outgoing, srv>>
    BY <1>4 DEF RecvTask, RecvAnswer, RecvCall, RecvEnds, editorVars, sendVars
  <2> QED BY <2>1, LineUntouched
<1>5. CASE InitTask
  BY <1>5, EditorOrdered DEF InitTask, Notifies
<1>6. CASE Server
  BY <1>6, ServerOrdered
<1>7. CASE \E id \in Ids : Timeout(id)
  <2>1. UNCHANGED <<phase, nextCall, clientRx, pendingMessages, outgoing, srv>>
    BY <1>7 DEF Timeout, sendVars
  <2> QED BY <2>1, LineUntouched
<1>8. CASE \E r \in NewRoots : RootTask(r)
  BY <1>8, EditorOrdered DEF Notifies
<1> QED BY <1>1, <1>2, <1>3, <1>4, <1>5, <1>6, <1>7, <1>8 DEF Next, Exited

LEMMA OrderedInit == Init => Ordered
<1> SUFFICES ASSUME Init PROVE Ordered
  OBVIOUS
<1>1. /\ pendingMessages = <<>> /\ clientRx = <<>> /\ outgoing = Silent /\ nextCall = 1
      /\ srv.newest = 0
  BY DEF Init, Started
<1>2. Range(<<>>) = {} /\ Increasing(<<>>) /\ ~Asking(Silent)
  BY SilentIs DEF Range, Increasing, Asking
<1>3. InLine = {Silent}
  BY <1>1, <1>2 DEF InLine
<1> QED BY <1>1, <1>2, <1>3 DEF Ordered, Before, Above

LEMMA LineOrdered ==
  ASSUME Types, Ordered
  PROVE  RequestsKeepTheirOrder
<1> DEFINE T == Message \cup {Silent}  q == <<outgoing>>  p == q \o pendingMessages
<1>1. clientRx \in Seq(Message) /\ pendingMessages \in Seq(Delayed) /\ outgoing \in T
  BY DEF Types, TransportTypes
<1>2. Delayed \subseteq T /\ Message \subseteq T
  BY MessagesAre
<1>3. clientRx \in Seq(T) /\ pendingMessages \in Seq(T)
  BY <1>1, <1>2, SeqMonotonic
<1>4. q \in Seq(T) /\ Len(q) = 1 /\ Range(q) = {outgoing}
  BY <1>1 DEF Range
<1> HIDE DEF T, q
<1>5. Increasing(q)
  BY <1>4, IncreasingSeq
<1>6. /\ Before({outgoing}, Range(pendingMessages)) /\ Before({outgoing}, Range(clientRx))
      /\ Before(Range(pendingMessages), Range(clientRx))
      /\ Increasing(pendingMessages) /\ Increasing(clientRx)
  BY DEF Ordered, Before, Above
<1>7. p \in Seq(T) /\ Range(p) = {outgoing} \cup Range(pendingMessages)
  BY <1>3, <1>4, QueueAfterSend
<1>8. Increasing(p)
  BY <1>3, <1>4, <1>5, <1>6, IncreasingAfterSend
<1> HIDE DEF p
<1>9. Before(Range(p), Range(clientRx))
  BY <1>6, <1>7 DEF Before, Above
<1>10. Line = p \o clientRx
  BY DEF Line, p, q
<1>11. Line \in Seq(T) /\ Range(Line) = InLine
  BY <1>3, <1>7, <1>10, QueueAfterSend DEF InLine
<1>12. Increasing(Line)
  BY <1>3, <1>6, <1>7, <1>8, <1>9, <1>10, IncreasingAfterSend
<1>13. \A j \in DOMAIN Line : Line[j] \in InLine
  BY <1>11, InQueue DEF Range
<1>14. Above(srv.newest, InLine)
  BY DEF Ordered
<1> HIDE DEF Line
<1> QED BY <1>12, <1>13, <1>14 DEF RequestsKeepTheirOrder, Increasing, Above

(* However many requests are made, before or after initialization, the     *)
(* server reads them in the order of their numbers, and shutdown after     *)
(* all of them: a delayed request is drained before the channel is read.   *)
THEOREM RequestsInOrder == Spec => []RequestsKeepTheirOrder
<1>1. Init => Types /\ Ordered
  BY TypesInit, OrderedInit
<1>2. Types /\ Ordered /\ [Next]_vars => Types' /\ Ordered'
  BY TypesStep, OrderedStep
<1>3. Types /\ Ordered => RequestsKeepTheirOrder
  BY LineOrdered
<1> QED BY <1>1, <1>2, <1>3, PTL DEF Spec

-----------------------------------------------------------------------------
(* The server is answered while it shuts down. *)

\* The server has read shutdown, or is about to.
ToldToStop == srv.told = "shutdown" \/ outgoing.method = "shutdown"
                \/ \E c \in ServerCalls : srv.calls[c] = "late"

(* The inductive invariant: a server that asks after shutdown asks a       *)
(* transport that has noted it, and a request it has not made is nowhere.  *)
Noted ==
  /\ ToldToStop => shutdownRequested
  /\ srv.up => \A c \in ServerCalls : srv.calls[c] = "idle" =>
                 ServerCall(c) \notin Range(incoming) \cup Range(stdout)

LEMMA CallsAreDistinct ==
  ASSUME NEW c, NEW d
  PROVE  /\ ServerCall(c) = ServerCall(d) => c = d
         /\ Response(c) = Response(d) => c = d
         /\ ServerCall(c) # Malformed /\ ServerCall(c) # Initialized /\ ServerCall(c) # Exit
         /\ ServerCall(c).what = "call"
BY DEF ServerCall, Response, Malformed, Initialized, Exit

\* Neither the server nor what it wrote is touched, and nothing says shutdown.
LEMMA StillAnswered ==
  ASSUME Noted, ShutdownAnswersTheServer, UNCHANGED <<srv, stdout>>,
         shutdownRequested => shutdownRequested',
         outgoing'.method = "shutdown" => outgoing.method = "shutdown" \/ shutdownRequested',
         \A c \in ServerCalls : ServerCall(c) \in Range(incoming') => ServerCall(c) \in Range(incoming),
         recvUp' => recvUp, sendUp' => sendUp,
         sendUp' => \A c \in ServerCalls : Response(c) \in Range(injectRx) \cup {outgoing} =>
                      Response(c) \in Range(injectRx') \cup {outgoing'}
  PROVE  Noted' /\ ShutdownAnswersTheServer'
BY DEF Noted, ToldToStop, ShutdownAnswersTheServer

LEMMA IncomingAnswered ==
  ASSUME Types, Noted, ShutdownAnswersTheServer, SendInitialized \/ HandleIncoming
  PROVE  Noted' /\ ShutdownAnswersTheServer'
<1>1. UNCHANGED <<srv, stdout, shutdownRequested, outgoing, recvUp, sendUp, injectRx>>
  BY DEF SendInitialized, HandleIncoming, sendVars, sharedVars
<1>2. incoming \in Seq(News)
  BY DEF Types, TransportTypes
<1>3. CASE SendInitialized
  <2>1. incoming' = Append(incoming, Initialized) /\ Initialized \in News
    BY <1>3 DEF SendInitialized, News
  <2>2. Range(incoming') = Range(incoming) \cup {Initialized}
    BY <1>2, <2>1, QueueAfterAppend
  <2>3. \A c \in ServerCalls : ServerCall(c) \in Range(incoming') => ServerCall(c) \in Range(incoming)
    BY <2>2, CallsAreDistinct
  <2> QED BY <1>1, <2>3, StillAnswered
<1>4. CASE HandleIncoming
  <2>1. incoming' = Tail(incoming) /\ incoming # <<>>
    BY <1>4 DEF HandleIncoming
  <2>2. Range(incoming') \subseteq Range(incoming)
    BY <1>2, <2>1, QueueAfterTake
  <2> QED BY <1>1, <2>2, StillAnswered
<1> QED BY <1>3, <1>4

LEMMA TakingAnswered ==
  ASSUME Types, Noted, ShutdownAnswersTheServer,
         SendDrains \/ SendTakes \/ SendInjected \/ SendDelays
  PROVE  Noted' /\ ShutdownAnswersTheServer'
<1>1. /\ outgoing = Silent /\ UNCHANGED <<srv, stdout, incoming, recvUp>>
      /\ shutdownRequested => shutdownRequested'
  <2>1. outgoing = Silent /\ UNCHANGED <<srv, stdout, incoming, recvUp>>
    BY DEF SendDrains, SendTakes, SendInjected, SendDelays, Selecting
  <2>2. SendDrains \/ SendInjected \/ SendDelays => shutdownRequested' = shutdownRequested
    BY DEF SendDrains, SendInjected, SendDelays, sharedVars
  <2>3. SendTakes => (shutdownRequested => shutdownRequested')
    BY DEF SendTakes, NoteShutdown
  <2> QED BY <2>1, <2>2, <2>3
<1>2. \A c \in ServerCalls : Response(c) # Silent
  BY DEF Response, Silent
<1>3. /\ pendingMessages \in Seq(Delayed) /\ injectRx \in Seq(Replies)
  BY DEF Types, TransportTypes
<1>4. CASE SendDrains
  <2>1. outgoing' = Head(pendingMessages) /\ pendingMessages # <<>> /\ UNCHANGED <<injectRx, sendUp>>
    BY <1>4 DEF SendDrains, Take
  <2>2. outgoing' \in Delayed
    BY <1>3, <2>1, QueueAfterTake
  <2>3. outgoing'.method # "shutdown"
    BY <2>2, WorkIs, ReplyIs DEF Delayed
  <2> QED BY <1>1, <1>2, <2>1, <2>3, StillAnswered
<1>5. CASE SendTakes
  <2>1. /\ UNCHANGED <<injectRx, sendUp>>
        /\ outgoing'.method = "shutdown" => shutdownRequested'
    BY <1>5 DEF SendTakes, Take, NoteShutdown
  <2> QED BY <1>1, <1>2, <2>1, StillAnswered
<1>6. CASE SendInjected
  <2>1. outgoing' = Head(injectRx) /\ injectRx # <<>> /\ injectRx' = Tail(injectRx) /\ sendUp' = sendUp
    BY <1>6 DEF SendInjected, Take
  <2>2. outgoing' \in Replies /\ Range(injectRx) = Range(injectRx') \cup {outgoing'}
    BY <1>3, <2>1, QueueAfterTake
  <2>3. outgoing'.method # "shutdown"
    BY <2>2, ReplyIs
  <2> QED BY <1>1, <1>2, <2>1, <2>2, <2>3, StillAnswered
<1>7. CASE SendDelays
  <2>1. outgoing' = outgoing
    BY <1>7 DEF SendDelays
  <2>2. UNCHANGED <<sendUp, injectRx>> \/ sendUp' = FALSE
    BY <1>7 DEF SendDelays, SendPending
  <2> QED BY <1>1, <2>1, <2>2, StillAnswered
<1> QED BY <1>4, <1>5, <1>6, <1>7

LEMMA FlushAnswered ==
  ASSUME Types, Noted, ShutdownAnswersTheServer, SendFlushes
  PROVE  Noted' /\ ShutdownAnswersTheServer'
<1>1. /\ UNCHANGED <<stdout, incoming, shutdownRequested, recvUp, sendUp, injectRx>>
      /\ outgoing \in Message /\ outgoing' = Silent
  BY FlushTypes DEF SendFlushes
<1>2. Silent.method # "shutdown"
  BY SilentIs
<1>3. CASE ~srv.up
  <2>1. srv' = srv
    BY <1>3, FlushTypes
  <2> QED BY <1>1, <1>2, <1>3, <2>1 DEF Noted, ToldToStop, ShutdownAnswersTheServer
<1>4. CASE srv.up
  <2>1. /\ srv'.up
        /\ srv'.told = "shutdown" => srv.told = "shutdown" \/ outgoing.method = "shutdown"
        /\ srv'.calls = IF outgoing \in Replies THEN [srv.calls EXCEPT ![outgoing.arg] = "answered"]
                                                ELSE srv.calls
    BY <1>4, FlushTypes DEF IsRead
  <2>2. \A c \in ServerCalls : \/ srv'.calls[c] = srv.calls[c] /\ outgoing # Response(c)
                               \/ srv'.calls[c] = "answered"
    <3>1. CASE outgoing \in Replies
      <4>1. outgoing = Response(outgoing.arg) /\ outgoing.arg \in ServerCalls
        BY <3>1, ReplyIs
      <4> QED BY <2>1, <3>1, <4>1, CallsAreDistinct DEF Types, ServerTypes, ServerState
    <3>2. CASE outgoing \notin Replies
      BY <2>1, <3>2, MessagesAre
    <3> QED BY <3>1, <3>2
  <2>3. \A c \in ServerCalls : /\ srv'.calls[c] = "late" => srv.calls[c] = "late" /\ outgoing # Response(c)
                               /\ srv'.calls[c] = "idle" => srv.calls[c] = "idle"
    BY <2>2
  <2>4. Noted'
    BY <1>1, <1>2, <1>4, <2>1, <2>3 DEF Noted, ToldToStop
  <2>5. ShutdownAnswersTheServer'
    BY <1>1, <1>4, <2>1, <2>3 DEF ShutdownAnswersTheServer
  <2> QED BY <2>4, <2>5
<1> QED BY <1>3, <1>4

LEMMA RecvAnswered ==
  ASSUME Types, Noted, ShutdownAnswersTheServer, RecvTask
  PROVE  Noted' /\ ShutdownAnswersTheServer'
<1>1. UNCHANGED <<srv, outgoing, sendUp, shutdownRequested>> /\ recvUp
  BY DEF RecvTask, RecvAnswer, RecvCall, RecvEnds, Receiving, sendVars, sharedVars
<1>2. /\ stdout \in Seq(Output) /\ incoming \in Seq(News) /\ injectRx \in Seq(Replies)
  BY DEF Types, TransportTypes
<1>3. stdout # <<>> => Head(stdout) \in Output /\ Range(stdout) = Range(Tail(stdout)) \cup {Head(stdout)}
  BY <1>2, QueueAfterTake
<1>4. CASE RecvAnswer
  <2>1. /\ stdout # <<>> /\ Head(stdout).what = "answer" /\ stdout' = Tail(stdout)
        /\ UNCHANGED <<incoming, injectRx, recvUp>>
    BY <1>4 DEF RecvAnswer
  <2>2. \A c \in ServerCalls : ServerCall(c) \in Range(stdout') <=> ServerCall(c) \in Range(stdout)
    BY <1>3, <2>1, CallsAreDistinct
  <2> QED BY <1>1, <2>1, <2>2 DEF Noted, ToldToStop, ShutdownAnswersTheServer
<1>5. CASE RecvCall
  <2> DEFINE x == Head(stdout)
  <2>1. /\ stdout # <<>> /\ x.what = "call" /\ stdout' = Tail(stdout) /\ recvUp' = recvUp
        /\ shutdownRequested => incoming' = incoming /\
             injectRx' = IF sendUp THEN Append(injectRx, Response(x.id)) ELSE injectRx
        /\ ~shutdownRequested => incoming' = Append(incoming, x) /\ injectRx' = injectRx
    BY <1>5 DEF RecvCall
  <2>2. x = ServerCall(x.id) /\ x.id \in ServerCalls /\ x \in News
    BY <1>3, <2>1, OutputIs DEF News
  <2>3. Range(stdout) = Range(stdout') \cup {x}
    BY <1>3, <2>1
  <2> HIDE DEF x
  <2>4. Range(incoming') \subseteq Range(incoming) \cup {x}
    <3>1. Range(Append(incoming, x)) = Range(incoming) \cup {x}
      BY <1>2, <2>2, QueueAfterAppend
    <3> QED BY <2>1, <3>1
  <2>5. shutdownRequested => incoming' = incoming
    BY <2>1
  <2>6. shutdownRequested /\ sendUp => Range(injectRx') = Range(injectRx) \cup {Response(x.id)}
    <3>1. Response(x.id) \in Replies
      BY <2>2, MessagesAre
    <3>2. Range(Append(injectRx, Response(x.id))) = Range(injectRx) \cup {Response(x.id)}
      BY <1>2, <3>1, QueueAfterAppend
    <3> QED BY <2>1, <3>2
  <2>7. Noted'
    BY <1>1, <2>3, <2>4 DEF Noted, ToldToStop
  <2>8. ASSUME NEW c \in ServerCalls, srv.calls[c] = "late"
        PROVE  /\ ServerCall(c) \notin Range(incoming')
               /\ recvUp' /\ sendUp /\ srv.up =>
                    ServerCall(c) \in Range(stdout') \/ Response(c) \in Range(injectRx') \cup {outgoing}
    <3>1. shutdownRequested
      BY <2>8 DEF Noted, ToldToStop
    <3>2. ServerCall(c) = x => Response(c) = Response(x.id)
      BY <2>2, CallsAreDistinct
    <3> QED BY <2>1, <2>3, <2>5, <2>6, <2>8, <3>1, <3>2 DEF ShutdownAnswersTheServer
  <2> QED BY <1>1, <2>7, <2>8 DEF ShutdownAnswersTheServer
<1>6. CASE RecvEnds
  <2>1. incoming' = Append(incoming, Exit) /\ ~recvUp' /\ stdout' = stdout /\ Exit \in News
    BY <1>6 DEF RecvEnds, News
  <2>2. Range(incoming') = Range(incoming) \cup {Exit}
    BY <1>2, <2>1, QueueAfterAppend
  <2>3. \A c \in ServerCalls : ServerCall(c) \in Range(incoming') => ServerCall(c) \in Range(incoming)
    BY <2>2, CallsAreDistinct
  <2> QED BY <1>1, <2>1, <2>3 DEF Noted, ToldToStop, ShutdownAnswersTheServer
<1> QED BY <1>4, <1>5, <1>6 DEF RecvTask

LEMMA ServerAnswered ==
  ASSUME Types, Noted, ShutdownAnswersTheServer, Server
  PROVE  Noted' /\ ShutdownAnswersTheServer'
<1>1. UNCHANGED <<incoming, injectRx, outgoing, recvUp, sendUp, shutdownRequested>>
  BY DEF Server, ServerAnswers, ServerAsks, ServerWritesMalformed, ServerDies, sendVars, sharedVars
<1>2. stdout \in Seq(Output)
  BY DEF Types, TransportTypes
<1>3. ASSUME NEW x \in Output, stdout' = Append(stdout, x), x.what # "call",
             srv'.up = srv.up, srv'.told = srv.told, srv'.calls = srv.calls
      PROVE  Noted' /\ ShutdownAnswersTheServer'
  <2>1. Range(Append(stdout, x)) = Range(stdout) \cup {x}
    BY <1>2, QueueAfterAppend
  <2>2. \A c \in ServerCalls : ServerCall(c) \in Range(stdout') <=> ServerCall(c) \in Range(stdout)
    BY <1>3, <2>1, CallsAreDistinct
  <2> QED BY <1>1, <1>3, <2>2 DEF Noted, ToldToStop, ShutdownAnswersTheServer
<1>4. ASSUME NEW id \in Ids, NEW ok \in BOOLEAN, ServerAnswers(id, ok)
      PROVE  Noted' /\ ShutdownAnswersTheServer'
  <2>1. Answer(id, ok) \in Output /\ Answer(id, ok).what = "answer"
    BY DEF Output, Answer
  <2>2. srv'.up = srv.up /\ srv'.told = srv.told /\ srv'.calls = srv.calls
    BY <1>4 DEF ServerAnswers, Types, ServerTypes, ServerState
  <2> QED BY <1>3, <1>4, <2>1, <2>2 DEF ServerAnswers
<1>5. CASE ServerWritesMalformed
  <2>1. Malformed \in Output /\ Malformed.what = "malformed"
    BY DEF Output, Malformed
  <2>2. srv'.up = srv.up /\ srv'.told = srv.told /\ srv'.calls = srv.calls
    BY <1>5 DEF ServerWritesMalformed, Types, ServerTypes, ServerState
  <2> QED BY <1>3, <1>5, <2>1, <2>2 DEF ServerWritesMalformed
<1>6. ASSUME NEW c \in ServerCalls, ServerAsks(c)
      PROVE  Noted' /\ ShutdownAnswersTheServer'
  <2>1. /\ srv.up /\ srv.calls[c] = "idle" /\ stdout' = Append(stdout, ServerCall(c))
        /\ srv' = [srv EXCEPT !.calls[c] = IF srv.told = "shutdown" THEN "late" ELSE "sent"]
    BY <1>6 DEF ServerAsks, Writing, Serving
  <2>2. ServerCall(c) \in Output
    BY DEF Output, FromServer
  <2>3. Range(stdout') = Range(stdout) \cup {ServerCall(c)}
    <3>1. Range(Append(stdout, ServerCall(c))) = Range(stdout) \cup {ServerCall(c)}
      BY <1>2, <2>2, QueueAfterAppend
    <3> QED BY <2>1, <3>1
  <2>4. /\ srv'.up = srv.up /\ srv'.told = srv.told
        /\ srv'.calls[c] = IF srv.told = "shutdown" THEN "late" ELSE "sent"
        /\ \A x \in ServerCalls : x # c => srv'.calls[x] = srv.calls[x]
    BY <2>1 DEF Types, ServerTypes, ServerState
  <2>5. \A x \in ServerCalls : x # c => ServerCall(x) # ServerCall(c)
    BY CallsAreDistinct
  <2>6. \A x \in ServerCalls : x # c =>
          (ServerCall(x) \in Range(stdout') <=> ServerCall(x) \in Range(stdout))
    BY <2>3, <2>5
  <2>7. ToldToStop' => ToldToStop
    BY <1>1, <2>4 DEF ToldToStop
  <2>8. ASSUME NEW x \in ServerCalls, srv'.calls[x] = "idle"
        PROVE  ServerCall(x) \notin Range(incoming') \cup Range(stdout')
    BY <1>1, <2>1, <2>4, <2>6, <2>8 DEF Noted
  <2>9. ServerCall(c) \notin Range(incoming) /\ ServerCall(c) \in Range(stdout')
    BY <2>1, <2>3 DEF Noted
  <2>10. Noted'
    BY <1>1, <2>7, <2>8 DEF Noted
  <2>11. ShutdownAnswersTheServer'
    BY <1>1, <2>4, <2>6, <2>9 DEF ShutdownAnswersTheServer
  <2> QED BY <2>10, <2>11
<1>7. CASE ServerDies
  <2>1. ~srv'.up /\ srv'.told = "nothing" /\ \A c \in ServerCalls : srv'.calls[c] = "idle"
    BY <1>7 DEF ServerDies, Dead, Started
  <2> QED BY <1>1, <2>1 DEF Noted, ToldToStop, ShutdownAnswersTheServer
<1> QED BY <1>4, <1>5, <1>6, <1>7 DEF Server

LEMMA NotedStep ==
  ASSUME Types, Noted, ShutdownAnswersTheServer, [Next]_vars
  PROVE  Noted' /\ ShutdownAnswersTheServer'
<1>1. ASSUME UNCHANGED <<srv, stdout, shutdownRequested, outgoing, incoming, recvUp, sendUp, injectRx>>
      PROVE  Noted' /\ ShutdownAnswersTheServer'
  BY <1>1, StillAnswered
<1>2. CASE UNCHANGED vars
  BY <1>1, <1>2 DEF vars, sendVars, sharedVars
<1>3. CASE MainThread
  <2>1. CASE QuitFlushed \/ QuitCapped
    <3>1. TornDown
      BY <2>1 DEF QuitFlushed, QuitCapped
    <3>2. /\ ~srv'.up /\ srv'.told = "nothing" /\ \A c \in ServerCalls : srv'.calls[c] = "idle"
          /\ outgoing' = Silent
      BY <3>1 DEF TornDown, Dead, Started
    <3> QED BY <3>2, SilentIs DEF Noted, ToldToStop, ShutdownAnswersTheServer
  <2>2. CASE HandleIncoming
    BY <2>2, IncomingAnswered
  <2>3. ASSUME NEW d \in Docs, DocumentStep(d)
        PROVE  Noted' /\ ShutdownAnswersTheServer'
    BY <1>1, <2>3 DEF DocumentStep, OpenDoc, EditDoc, CloseDoc, GhostEdit, EditOverGhost, sendVars, sharedVars
  <2>4. CASE CallServer \/ Quit \/ \E r \in NewRoots : AddRoot(r)
    BY <1>1, <2>4 DEF CallServer, Quit, AddRoot, sendVars, sharedVars
  <2> QED BY <1>3, <2>1, <2>2, <2>3, <2>4 DEF MainThread, DocumentStep
<1>4. CASE SendTask
  <2>1. CASE SendListens
    BY <1>1, <2>1 DEF SendListens, sendVars, sharedVars
  <2> QED BY <1>4, <2>1, IncomingAnswered, TakingAnswered, FlushAnswered DEF SendTask
<1>5. CASE RecvTask
  BY <1>5, RecvAnswered
<1>6. CASE InitTask
  BY <1>1, <1>6 DEF InitTask, Initialize, InitializeReturns, NotifyInitialized, WakeOne, sendVars, sharedVars
<1>7. CASE Server
  BY <1>7, ServerAnswered
<1>8. CASE \E id \in Ids : Timeout(id)
  BY <1>1, <1>8 DEF Timeout, sendVars, sharedVars
<1>9. CASE \E r \in NewRoots : RootTask(r)
  BY <1>1, <1>9 DEF RootTask, RootListens, RootWakes, sendVars, sharedVars
<1> QED BY <1>2, <1>3, <1>4, <1>5, <1>6, <1>7, <1>8, <1>9 DEF Next, Exited

(* Whatever the server asks after it has read shutdown, and however many   *)
(* requests it makes, none reaches an application that no longer listens,  *)
(* and the transport has each one or its answer at every moment.           *)
THEOREM LateCallsAreAnswered == Spec => []ShutdownAnswersTheServer
<1>1. Init => Noted /\ ShutdownAnswersTheServer
  <2> SUFFICES ASSUME Init PROVE Noted /\ ShutdownAnswersTheServer
    OBVIOUS
  <2>1. /\ srv.told = "nothing" /\ \A c \in ServerCalls : srv.calls[c] = "idle"
        /\ outgoing = Silent /\ incoming = <<>> /\ stdout = <<>>
    BY DEF Init, Started
  <2>2. Range(<<>>) = {}
    BY DEF Range
  <2> QED BY <2>1, <2>2, SilentIs DEF Noted, ToldToStop, ShutdownAnswersTheServer
<1>2. Types /\ Noted /\ ShutdownAnswersTheServer /\ [Next]_vars
        => Types' /\ Noted' /\ ShutdownAnswersTheServer'
  BY TypesStep, NotedStep
<1> QED BY <1>1, <1>2, TypesInit, PTL DEF Spec

-----------------------------------------------------------------------------
(* The server's documents follow the editor's. *)

\* NotOpen stands for a text nothing is claimed about.
Texts == 0 .. MaxEdits \cup {NotOpen}
Edits == Opened \cup Changed \cup Closings

Concerns(m, d) == m \in Edits /\ m.arg[1] = d

\* A server that has the text a of d has the text b once it has read m.
Follows(m, d, a, b) ==
  \/ b = NotOpen
  \/ m = Notification("didOpen", <<d, b>>)
  \/ m = Notification("didChange", <<d, a, b>>)
  \/ ~Concerns(m, d) /\ b = a

Chain(s, d, e) == \A i \in 1 .. Len(s) : Follows(s[i], d, e[i - 1], e[i])

\* The texts e lead from the server's text of d, over what is being written
\* and what is queued, to the editor's.
Leads(d, e) ==
  /\ Follows(outgoing, d, srv.text[d], e[0])
  /\ Chain(clientRx, d, e)
  /\ e[Len(clientRx)] = text[d]

Synced == /\ phase = "running" /\ srv.up /\ sendUp /\ recvUp /\ ~isPending
          /\ Initialized \notin Range(incoming)

(* The inductive invariant, with what it needs of the initialization: the  *)
(* send task learns of it only after the capabilities are known, and a     *)
(* client that was removed, or is about to be, reads no more.              *)
Following == Synced => \A d \in Docs : doc[d] = "open" /\ d \notin misled =>
               \E e \in [0 .. Len(clientRx) -> Texts] : Leads(d, e)

Heralded ==
  /\ capabilities <=> initTask \in {"initialized", "notified", "done"}
  /\ permit \/ woken # {} \/ ~isPending => initTask = "done"
  /\ ~registered \/ Exit \in Range(incoming) => ~recvUp

LEMMA ConcernsOnly ==
  /\ \A d, n : \A x \in Docs : Concerns(Notification("didOpen", <<d, n>>), x) => x = d
  /\ \A d, n, k : \A x \in Docs : Concerns(Notification("didChange", <<d, n, k>>), x) => x = d
  /\ \A d \in Docs, x \in Docs : Concerns(Notification("didClose", <<d>>), x) => x = d
  /\ \A x \in Docs : ~Concerns(Silent, x)
  /\ \A m \in Calls \cup Replies \cup Others, x \in Docs : ~Concerns(m, x)
<1>1. Edits \subseteq Message /\ Silent \notin Edits
  BY SilentIs DEF Edits, Message, Notices
<1>2. \A m \in Edits : m.kind = "notification" /\ m.method \in {"didOpen", "didChange", "didClose"}
  BY NoticeIs, OpenedIs, ChangedIs, ClosingIs DEF Edits, Notices
<1>3. \A m \in Others : m.method \in {"didChangeFolders", "initialized", "exit"}
  BY DEF Others, Notification
<1>4. \A m \in Calls \cup Replies \cup Others : m \notin Edits
  BY <1>2, <1>3, CallIs, ReplyIs
<1>5. /\ \A d, n : Notification("didOpen", <<d, n>>).arg[1] = d
      /\ \A d, n, k : Notification("didChange", <<d, n, k>>).arg[1] = d
      /\ \A d : Notification("didClose", <<d>>).arg[1] = d
  BY DEF Notification
<1> QED BY <1>1, <1>4, <1>5 DEF Concerns

LEMMA ChainJoined ==
  ASSUME NEW s \in Seq(Message), NEW t \in Seq(Message), NEW d \in Docs,
         NEW e \in [0 .. Len(s) -> Texts], NEW f \in [0 .. Len(t) -> Texts],
         f[0] = e[Len(s)], Chain(s, d, e), Chain(t, d, f)
  PROVE  \E g \in [0 .. Len(s \o t) -> Texts] :
           Chain(s \o t, d, g) /\ g[0] = e[0] /\ g[Len(s \o t)] = f[Len(t)]
<1> DEFINE u == s \o t  n == Len(s)
           g == [i \in 0 .. Len(u) |-> IF i <= n THEN e[i] ELSE f[i - n]]
<1>1. /\ u \in Seq(Message) /\ Len(u) = n + Len(t) /\ n \in Nat /\ Len(t) \in Nat
      /\ \A i \in 1 .. n : u[i] = s[i]
      /\ \A i \in 1 .. Len(u) : i > n => i - n \in 1 .. Len(t) /\ u[i] = t[i - n]
  BY QueueAfterSend, LenProperties
<1>2. n = Len(s) /\ f[0] = e[n]
  OBVIOUS
<1> HIDE DEF u, n
<1>3. \A i \in 0 .. Len(u) : /\ i <= n => i \in 0 .. n
                             /\ ~(i <= n) => i - n \in 0 .. Len(t)
  BY <1>1
<1>4. g \in [0 .. Len(u) -> Texts]
  BY <1>2, <1>3
<1>5. g[0] = e[0] /\ g[Len(u)] = f[Len(t)]
  <2>1. 0 \in 0 .. Len(u) /\ Len(u) \in 0 .. Len(u) /\ 0 <= n
    BY <1>1
  <2>2. CASE Len(t) = 0
    <3>1. Len(u) = n
      BY <1>1, <2>2
    <3> QED BY <1>2, <2>1, <2>2, <3>1
  <2>3. CASE Len(t) # 0
    <3>1. ~(Len(u) <= n) /\ Len(u) - n = Len(t)
      BY <1>1, <2>3
    <3> QED BY <2>1, <3>1
  <2> QED BY <2>2, <2>3
<1>6. ASSUME NEW i \in 1 .. Len(u) PROVE Follows(u[i], d, g[i - 1], g[i])
  <2>1. i \in 0 .. Len(u) /\ i - 1 \in 0 .. Len(u) /\ i \in Int
    BY <1>1
  <2>2. CASE i <= n
    <3>1. i \in 1 .. Len(s) /\ i - 1 <= n /\ u[i] = s[i]
      BY <1>1, <1>2, <2>1, <2>2
    <3>2. g[i - 1] = e[i - 1] /\ g[i] = e[i]
      BY <2>1, <2>2, <3>1
    <3>3. Follows(s[i], d, e[i - 1], e[i])
      BY <3>1 DEF Chain
    <3> QED BY <3>1, <3>2, <3>3
  <2>3. CASE i > n
    <3>1. i - n \in 1 .. Len(t) /\ u[i] = t[i - n]
      BY <1>1, <2>3
    <3>2. Follows(t[i - n], d, f[(i - n) - 1], f[i - n])
      BY <3>1 DEF Chain
    <3>3. g[i] = f[i - n]
      BY <1>1, <2>1, <2>3
    <3>4. g[i - 1] = f[(i - n) - 1]
      <4>1. CASE i - 1 = n
        <5>1. (i - n) - 1 = 0 /\ i - 1 <= n
          BY <1>1, <2>1, <4>1
        <5> QED BY <1>2, <2>1, <4>1, <5>1
      <4>2. CASE i - 1 # n
        <5>1. ~(i - 1 <= n) /\ (i - 1) - n = (i - n) - 1
          BY <1>1, <2>1, <2>3, <4>2
        <5> QED BY <2>1, <5>1
      <4> QED BY <4>1, <4>2
    <3> QED BY <3>1, <3>2, <3>3, <3>4
  <2> QED BY <1>1, <2>1, <2>2, <2>3
<1> HIDE DEF g
<1>7. Chain(u, d, g)
  BY <1>6 DEF Chain
<1> QED BY <1>4, <1>5, <1>7 DEF u

\* What is appended leads on from the editor's text, or from nothing.
LEMMA LedOn ==
  ASSUME Types, NEW d \in Docs, NEW ps \in Seq(Message), clientRx' = clientRx \o ps,
         outgoing' = outgoing, srv'.text = srv.text,
         NEW e \in [0 .. Len(clientRx) -> Texts], Follows(outgoing, d, srv.text[d], e[0]),
         Chain(clientRx, d, e),
         NEW f \in [0 .. Len(ps) -> Texts], f[0] = e[Len(clientRx)], Chain(ps, d, f),
         f[Len(ps)] = text'[d]
  PROVE  \E g \in [0 .. Len(clientRx') -> Texts] : Leads(d, g)'
<1>1. clientRx \in Seq(Message)
  BY DEF Types, TransportTypes
<1>2. PICK g \in [0 .. Len(clientRx \o ps) -> Texts] :
        Chain(clientRx \o ps, d, g) /\ g[0] = e[0] /\ g[Len(clientRx \o ps)] = f[Len(ps)]
  <2> DEFINE q == clientRx
  <2>1. /\ q \in Seq(Message) /\ e \in [0 .. Len(q) -> Texts]
        /\ f[0] = e[Len(q)] /\ Chain(q, d, e)
    BY <1>1
  <2> HIDE DEF q
  <2>2. \E g \in [0 .. Len(q \o ps) -> Texts] :
          Chain(q \o ps, d, g) /\ g[0] = e[0] /\ g[Len(q \o ps)] = f[Len(ps)]
    BY <2>1, ChainJoined
  <2> QED BY <2>2 DEF q
<1>3. Leads(d, g)'
  BY <1>2 DEF Leads, Chain
<1> QED BY <1>2, <1>3

LEMMA BlankLeads ==
  ASSUME NEW s \in Seq(Message), NEW d, NEW m, NEW a
  PROVE  \E e \in [0 .. Len(s) -> Texts] : /\ Chain(s, d, e) /\ Follows(m, d, a, e[0])
                                           /\ e[Len(s)] = NotOpen
<1> DEFINE e == [i \in 0 .. Len(s) |-> NotOpen]
<1>1. e \in [0 .. Len(s) -> Texts]
  BY DEF Texts
<1>2. Len(s) \in Nat
  BY LenProperties
<1>3. \A i \in 0 .. Len(s) : e[i] = NotOpen
  OBVIOUS
<1>4. 0 \in 0 .. Len(s) /\ Len(s) \in 0 .. Len(s) /\ \A i \in 1 .. Len(s) : i \in 0 .. Len(s)
  BY <1>2
<1>5. \A i \in 1 .. Len(s) : e[i] = NotOpen
  BY <1>3, <1>4
<1>6. e[0] = NotOpen /\ e[Len(s)] = NotOpen
  BY <1>3, <1>4
<1> HIDE DEF e
<1>7. Chain(s, d, e) /\ Follows(m, d, a, e[0])
  BY <1>5, <1>6 DEF Chain, Follows
<1> QED BY <1>1, <1>6, <1>7

\* Messages that do not concern an open document leave it as it was.
LEMMA QuietDocument ==
  ASSUME Types, Following, NEW ps \in Seq(Message), Sent(ps) \/ UNCHANGED clientRx,
         UNCHANGED outgoing, srv'.text = srv.text, Synced, NEW d \in Docs,
         doc[d] = "open", d \notin misled, text'[d] = text[d], \A m \in Range(ps) : ~Concerns(m, d)
  PROVE  \E e \in [0 .. Len(clientRx') -> Texts] : Leads(d, e)'
<1>1. PICK e \in [0 .. Len(clientRx) -> Texts] : Leads(d, e)
  BY DEF Following
<1>2. CASE UNCHANGED clientRx
  <2>1. Leads(d, e)'
    BY <1>1, <1>2 DEF Leads, Chain
  <2> QED BY <1>1, <1>2, <2>1
<1>3. CASE Sent(ps)
  <2> DEFINE f == [i \in 0 .. Len(ps) |-> text[d]]
  <2>1. text[d] \in Texts
    BY DEF Types, EditorTypes, Texts
  <2>2. Len(ps) \in Nat /\ \A i \in 1 .. Len(ps) : ps[i] \in Range(ps)
    BY LenProperties, InQueue
  <2>3. f \in [0 .. Len(ps) -> Texts] /\ \A i \in 0 .. Len(ps) : f[i] = text[d]
    BY <2>1
  <2>4. 0 \in 0 .. Len(ps) /\ Len(ps) \in 0 .. Len(ps)
         /\ \A i \in 1 .. Len(ps) : i - 1 \in 0 .. Len(ps) /\ i \in 0 .. Len(ps)
    BY <2>2
  <2> HIDE DEF f
  <2>5. Chain(ps, d, f)
    BY <2>2, <2>3, <2>4 DEF Chain, Follows
  <2>6. clientRx' = clientRx \o ps
    BY <1>3 DEF Synced, Sent
  <2>7. f[0] = text[d] /\ f[Len(ps)] = text[d]
    BY <2>3, <2>4
  <2>8. /\ Follows(outgoing, d, srv.text[d], e[0]) /\ Chain(clientRx, d, e)
        /\ e[Len(clientRx)] = text[d]
    BY <1>1 DEF Leads
  <2> QED BY <2>3, <2>5, <2>6, <2>7, <2>8, LedOn
<1> QED BY <1>2, <1>3

LEMMA QuietlyFollowing ==
  ASSUME Types, Following, NEW ps \in Seq(Message), Sent(ps) \/ UNCHANGED clientRx,
         UNCHANGED outgoing, srv'.text = srv.text, Synced' => Synced,
         \A d \in Docs : doc'[d] = "open" /\ d \notin misled' =>
           /\ doc[d] = "open" /\ d \notin misled /\ text'[d] = text[d]
           /\ \A m \in Range(ps) : ~Concerns(m, d)
  PROVE  Following'
<1>1. ASSUME Synced', NEW d \in Docs, doc'[d] = "open", d \notin misled'
      PROVE  \E e \in [0 .. Len(clientRx') -> Texts] : Leads(d, e)'
  BY <1>1, QuietDocument
<1> QED BY <1>1 DEF Following

LEMMA OneQuietly ==
  ASSUME Types, Following, NEW m \in Message, Sent(<<m>>) \/ UNCHANGED clientRx,
         UNCHANGED outgoing, srv'.text = srv.text, Synced' => Synced,
         \A d \in Docs : doc'[d] = "open" /\ d \notin misled' =>
           doc[d] = "open" /\ d \notin misled /\ text'[d] = text[d] /\ ~Concerns(m, d)
  PROVE  Following'
<1>1. <<m>> \in Seq(Message) /\ Range(<<m>>) = {m}
  BY SingleIs
<1>2. \A d \in Docs : doc'[d] = "open" /\ d \notin misled' =>
        /\ doc[d] = "open" /\ d \notin misled /\ text'[d] = text[d]
        /\ \A x \in Range(<<m>>) : ~Concerns(x, d)
  BY <1>1
<1> QED BY <1>1, <1>2, QuietlyFollowing

\* A document that is opened without a preview has the editor's text,
\* whatever it had before.
LEMMA OpenedAnew ==
  ASSUME Types, NEW ps \in Seq(Message), Sent(ps), sendUp, NEW d \in Docs, d \notin preview,
         NEW k \in 1 .. Len(ps), ps[k] = DidOpen(d),
         \A i \in 1 .. Len(ps) : ps[i] = DidOpen(d) \/ ~Concerns(ps[i], d),
         UNCHANGED outgoing, srv'.text = srv.text, text'[d] = text[d]
  PROVE  \E e \in [0 .. Len(clientRx') -> Texts] : Leads(d, e)'
<1> DEFINE f == [i \in 0 .. Len(ps) |-> IF i < k THEN NotOpen ELSE text[d]]
<1>1. clientRx \in Seq(Message)
  BY DEF Types, TransportTypes
<1>2. PICK e \in [0 .. Len(clientRx) -> Texts] :
        Chain(clientRx, d, e) /\ Follows(outgoing, d, srv.text[d], e[0]) /\ e[Len(clientRx)] = NotOpen
  BY <1>1, BlankLeads
<1>3. text[d] \in Texts /\ NotOpen \in Texts
  BY DEF Types, EditorTypes, Texts
<1>4. Len(ps) \in Nat /\ k \in Nat /\ 0 < k /\ k <= Len(ps)
  BY LenProperties
<1>5. /\ f \in [0 .. Len(ps) -> Texts]
      /\ \A i \in 0 .. Len(ps) : f[i] = IF i < k THEN NotOpen ELSE text[d]
  BY <1>3
<1>6. f[0] = NotOpen /\ f[Len(ps)] = text[d]
  <2>1. 0 \in 0 .. Len(ps) /\ Len(ps) \in 0 .. Len(ps) /\ ~(Len(ps) < k)
    BY <1>4
  <2> QED BY <1>4, <1>5, <2>1
<1> HIDE DEF f
<1>7. ASSUME NEW i \in 1 .. Len(ps) PROVE Follows(ps[i], d, f[i - 1], f[i])
  <2>1. i \in 0 .. Len(ps) /\ i - 1 \in 0 .. Len(ps) /\ i \in Int
    BY <1>4
  <2>2. CASE i < k
    BY <1>5, <2>1, <2>2 DEF Follows
  <2>3. CASE ps[i] = DidOpen(d) /\ ~(i < k)
    BY <1>5, <2>1, <2>3 DEF Follows, DidOpen
  <2>4. CASE ~Concerns(ps[i], d) /\ i > k
    <3>1. ~(i < k) /\ ~(i - 1 < k)
      BY <1>4, <2>1, <2>4
    <3>2. f[i] = text[d] /\ f[i - 1] = text[d]
      BY <1>5, <2>1, <3>1
    <3> QED BY <2>4, <3>2 DEF Follows
  <2>5. i < k \/ i = k \/ i > k
    BY <1>4, <2>1
  <2>6. i = k \/ i > k => ~(i < k)
    BY <1>4, <2>1
  <2> QED BY <2>2, <2>3, <2>4, <2>5, <2>6
<1>8. Chain(ps, d, f)
  BY <1>7 DEF Chain
<1>9. clientRx' = clientRx \o ps
  BY DEF Sent
<1> QED BY <1>2, <1>5, <1>6, <1>8, <1>9, LedOn

LEMMA NothingFollows ==
  ASSUME Following, UNCHANGED <<doc, text, misled, clientRx, outgoing>>, srv'.text = srv.text,
         Synced' => Synced
  PROVE  Following'
<1>1. \A d, e : Leads(d, e)' = Leads(d, e)
  BY DEF Leads, Chain
<1> QED BY <1>1 DEF Following

LEMMA DocumentsFollow ==
  ASSUME Types, Following, Heralded, NEW d \in Docs, DocumentStep(d)
  PROVE  Following'
<1>1. /\ UNCHANGED outgoing /\ srv'.text = srv.text
      /\ UNCHANGED <<phase, srv, sendUp, recvUp, isPending, incoming>>
  BY DEF DocumentStep, OpenDoc, EditDoc, CloseDoc, GhostEdit, EditOverGhost, sendVars
<1>2. Synced' = Synced
  BY <1>1 DEF Synced
<1>3. CASE OpenDoc(d)
  <2>1. /\ Sent(<<DidOpen(d)>>) /\ doc' = [doc EXCEPT ![d] = "open"] /\ text' = text /\ misled' = misled
        /\ d \notin preview
    BY <1>3 DEF OpenDoc, Types, EditorTypes
  <2>2. DidOpen(d) \in Message
    BY MessagesAre DEF DidOpen, Types, EditorTypes
  <2>3. \A x \in Docs : x # d => ~Concerns(DidOpen(d), x)
    BY ConcernsOnly DEF DidOpen, Types, EditorTypes
  <2> DEFINE ps == <<DidOpen(d)>>
  <2>4. /\ ps \in Seq(Message) /\ Range(ps) = {DidOpen(d)} /\ Len(ps) = 1 /\ ps[1] = DidOpen(d)
    BY <2>2, SingleIs
  <2>5. Sent(ps)
    BY <2>1
  <2> HIDE DEF ps
  <2>6. 1 \in 1 .. Len(ps) /\ \A i \in 1 .. Len(ps) : ps[i] = DidOpen(d)
    BY <2>4
  <2>7. ASSUME Synced PROVE \E e \in [0 .. Len(clientRx') -> Texts] : Leads(d, e)'
    <3>1. sendUp
      BY <2>7 DEF Synced
    <3> QED BY <1>1, <2>1, <2>4, <2>5, <2>6, <3>1, OpenedAnew
  <2>8. ASSUME Synced, NEW x \in Docs, doc'[x] = "open", x \notin misled, x # d
        PROVE  \E e \in [0 .. Len(clientRx') -> Texts] : Leads(x, e)'
    <3>1. doc[x] = "open"
      BY <2>1, <2>8 DEF Types, EditorTypes
    <3>2. \A m \in Range(ps) : ~Concerns(m, x)
      BY <2>3, <2>4, <2>8
    <3> QED BY <1>1, <2>1, <2>4, <2>5, <2>8, <3>1, <3>2, QuietDocument
  <2> QED BY <1>2, <2>1, <2>7, <2>8 DEF Following
<1>4. CASE EditDoc(d)
  <2> DEFINE n == text[d]  m == Notification("didChange", <<d, n, n + 1>>)
             f == [i \in 0 .. 1 |-> n + i]
  <2>1. /\ IfInitialized(<<m>>) /\ doc' = doc /\ text' = [text EXCEPT ![d] = n + 1]
        /\ n < MaxEdits /\ misled' = misled
    BY <1>4 DEF EditDoc
  <2>2. n \in 0 .. MaxEdits - 1 /\ n + 1 \in 0 .. MaxEdits
    BY <2>1, LspAssumption DEF Types, EditorTypes
  <2>3. m \in Message /\ \A x \in Docs : x # d => ~Concerns(m, x)
    BY <2>2, MessagesAre, ConcernsOnly
  <2>4. <<m>> \in Seq(Message) /\ Range(<<m>>) = {m}
    BY <2>3, SingleIs
  <2>5. Sent(<<m>>) \/ UNCHANGED clientRx
    BY <2>1 DEF IfInitialized
  <2>6. ASSUME Synced, NEW x \in Docs, doc'[x] = "open", x \notin misled, x # d
        PROVE  \E e \in [0 .. Len(clientRx') -> Texts] : Leads(x, e)'
    <3>1. doc[x] = "open" /\ text'[x] = text[x]
      BY <2>1, <2>6 DEF Types, EditorTypes
    <3>2. \A y \in Range(<<m>>) : ~Concerns(y, x)
      BY <2>3, <2>4, <2>6
    <3> HIDE DEF m
    <3> QED BY <1>1, <2>4, <2>5, <2>6, <3>1, <3>2, QuietDocument
  <2>7. ASSUME Synced, doc[d] = "open", d \notin misled
        PROVE  \E e \in [0 .. Len(clientRx') -> Texts] : Leads(d, e)'
    <3>1. capabilities
      BY <2>7 DEF Synced, Heralded
    <3>2. clientRx' = clientRx \o <<m>>
      BY <2>1, <2>7, <3>1 DEF IfInitialized, Sent, Synced
    <3>3. PICK e \in [0 .. Len(clientRx) -> Texts] : Leads(d, e)
      BY <2>7 DEF Following
    <3>4. n \in 0 .. MaxEdits /\ n \in Nat /\ MaxEdits \in Nat
      BY <2>2, LspAssumption
    <3>5. f \in [0 .. 1 -> Texts] /\ f[0] = n /\ f[1] = n + 1
      BY <2>2, <3>4 DEF Texts
    <3>6. Follows(m, d, f[0], f[1])
      BY <3>5 DEF Follows
    <3>7. text'[d] = n + 1
      BY <2>1 DEF Types, EditorTypes
    <3> HIDE DEF m, f, n
    <3> DEFINE ps == <<m>>
    <3>8. ps \in Seq(Message) /\ Len(ps) = 1 /\ ps[1] = m /\ clientRx' = clientRx \o ps
      BY <2>4, <3>2
    <3> HIDE DEF ps
    <3>9. Chain(ps, d, f)
      BY <3>6, <3>8 DEF Chain
    <3>10. /\ Follows(outgoing, d, srv.text[d], e[0]) /\ Chain(clientRx, d, e)
           /\ e[Len(clientRx)] = n
      BY <3>3 DEF Leads, n
    <3> QED BY <1>1, <3>5, <3>7, <3>8, <3>9, <3>10, LedOn
  <2> QED BY <1>2, <2>1, <2>6, <2>7 DEF Following
<1>5. CASE CloseDoc(d)
  <2> DEFINE m == Notification("didClose", <<d>>)
  <2>1. /\ IfInitialized(<<m>>) /\ doc' = [doc EXCEPT ![d] = "closed"]
        /\ text' = [text EXCEPT ![d] = 0] /\ misled' = misled \ {d}
    BY <1>5 DEF CloseDoc
  <2>2. m \in Message /\ \A x \in Docs : x # d => ~Concerns(m, x)
    BY MessagesAre, ConcernsOnly
  <2>3. Sent(<<m>>) \/ UNCHANGED clientRx
    BY <2>1 DEF IfInitialized
  <2>4. \A x \in Docs : doc'[x] = "open" /\ x \notin misled' =>
          x # d /\ doc[x] = "open" /\ x \notin misled /\ text'[x] = text[x]
    BY <2>1 DEF Types, EditorTypes
  <2> HIDE DEF m
  <2> QED BY <1>1, <1>2, <2>2, <2>3, <2>4, OneQuietly
<1>6. CASE GhostEdit(d)
  BY <1>1, <1>2, <1>6, NothingFollows DEF GhostEdit
<1>7. CASE EditOverGhost(d)
  <2> DEFINE m == Notification("didChange", <<d, Garbled, Garbled>>)
  <2>1. /\ Sent(<<m>>) /\ doc' = doc /\ text' = [text EXCEPT ![d] = @ + 1]
        /\ misled' = misled \cup {d}
    BY <1>7 DEF EditOverGhost
  <2>2. m \in Message /\ \A x \in Docs : x # d => ~Concerns(m, x)
    BY MessagesAre, ConcernsOnly
  <2>3. \A x \in Docs : doc'[x] = "open" /\ x \notin misled' =>
          x # d /\ doc[x] = "open" /\ x \notin misled /\ text'[x] = text[x]
    BY <2>1 DEF Types, EditorTypes
  <2> HIDE DEF m
  <2> QED BY <1>1, <1>2, <2>1, <2>2, <2>3, OneQuietly
<1> QED BY <1>3, <1>4, <1>5, <1>6, <1>7 DEF DocumentStep

\* The main thread handles a message: the hook opens every document anew.
LEMMA HandlingFollows ==
  ASSUME Types, Following, Heralded, HandleIncoming
  PROVE  Following'
<1> DEFINE m == Head(incoming)
<1>1. /\ UNCHANGED <<phase, doc, text, outgoing, srv, sendUp, recvUp, isPending>>
      /\ incoming' = Tail(incoming) /\ incoming # <<>>
  BY DEF HandleIncoming, sendVars
<1>2. incoming \in Seq(News)
  BY DEF Types, TransportTypes
<1>3. misled' = IF registered /\ m = Initialized THEN preview ELSE misled
  BY DEF HandleIncoming
<1>4. m \in News /\ Range(incoming) = Range(incoming') \cup {m}
  BY <1>1, <1>2, QueueAfterTake
<1>5. /\ ~registered \/ m = Exit => UNCHANGED clientRx
      /\ registered /\ m = Initialized /\ m # Exit => Sent(Reopened)
      /\ registered /\ m # Initialized /\ m # Exit => Sent(<<Response(m.id)>>)
  BY DEF HandleIncoming
<1> HIDE DEF m
<1>6. CASE ~registered \/ m = Exit
  <2>1. ~recvUp
    BY <1>4, <1>6 DEF Heralded
  <2> QED BY <1>1, <2>1 DEF Following, Synced
<1>7. CASE registered /\ m = Initialized /\ m # Exit
  <2>1. Sent(Reopened)
    BY <1>5, <1>7
  <2>2. /\ Reopened \in Seq(Message)
        /\ \A i \in 1 .. Len(Reopened) : \E d \in Docs : doc[d] = "open" /\ Reopened[i] = DidOpen(d)
        /\ \A d \in Docs : doc[d] = "open" => \E i \in 1 .. Len(Reopened) : Reopened[i] = DidOpen(d)
    BY ReopenedAre DEF Types
  <2>3. \A d \in Docs, x \in Docs : x # d => ~Concerns(DidOpen(d), x)
    BY ConcernsOnly DEF DidOpen, Types, EditorTypes
  <2> DEFINE ps == Reopened
  <2> HIDE DEF ps
  <2>4. ASSUME Synced', NEW d \in Docs, doc'[d] = "open", d \notin misled'
        PROVE  \E e \in [0 .. Len(clientRx') -> Texts] : Leads(d, e)'
    <3>1. sendUp /\ doc[d] = "open" /\ text'[d] = text[d] /\ d \notin preview
      BY <1>1, <1>7, <1>3, <2>4 DEF Synced
    <3>2. PICK k \in 1 .. Len(ps) : ps[k] = DidOpen(d)
      BY <2>2, <3>1 DEF ps
    <3>3. \A i \in 1 .. Len(ps) : ps[i] = DidOpen(d) \/ ~Concerns(ps[i], d)
      BY <2>2, <2>3 DEF ps
    <3>4. ps \in Seq(Message) /\ Sent(ps)
      BY <2>1, <2>2 DEF ps
    <3> QED BY <1>1, <3>1, <3>2, <3>3, <3>4, OpenedAnew
  <2> QED BY <2>4 DEF Following
<1>8. CASE registered /\ m # Initialized /\ m # Exit
  <2>1. m = ServerCall(m.id) /\ m.id \in ServerCalls
    BY <1>4, <1>8, NewsIs
  <2>2. Response(m.id) \in Replies /\ Response(m.id) \in Message
    BY <2>1, MessagesAre
  <2>3. \A x \in Docs : ~Concerns(Response(m.id), x)
    BY <2>2, ConcernsOnly
  <2>4. Synced' => Synced
    BY <1>1, <1>4, <1>8 DEF Synced
  <2>5. Sent(<<Response(m.id)>>)
    BY <1>5, <1>8
  <2> DEFINE r == Response(m.id)
  <2>6. r \in Message /\ Sent(<<r>>) /\ \A x \in Docs : ~Concerns(r, x)
    BY <2>2, <2>3, <2>5
  <2> HIDE DEF r
  <2>7. misled' = misled
    BY <1>8, <1>3
  <2> QED BY <1>1, <2>4, <2>6, <2>7, OneQuietly
<1> QED BY <1>6, <1>7, <1>8

\* The steps that send nothing about a document.
Unconcerned ==
  \/ CallServer \/ Initialize \/ InitializeReturns \/ NotifyInitialized \/ WakeOne
  \/ SendListens \/ \E r \in NewRoots : AddRoot(r) \/ RootTask(r)

LEMMA UnconcernedSends ==
  ASSUME Types, Unconcerned
  PROVE  \E m \in Message : /\ \A x \in Docs : ~Concerns(m, x)
                            /\ Sent(<<m>>) \/ UNCHANGED clientRx
<1>1. /\ Request("initialize", InitializeId) \in Calls
      /\ \A i \in 1 .. MaxCalls : Request("work", i) \in Calls
  BY DEF Calls, Work
<1>2. /\ \A r \in NewRoots : Notification("didChangeFolders", <<r>>) \in Others
      /\ Notification("initialized", <<>>) \in Others
  BY DEF Others
<1>3. \A m \in Calls \cup Others : m \in Message /\ \A x \in Docs : ~Concerns(m, x)
  BY ConcernsOnly DEF Message, Notices
<1>4. CASE CallServer
  <2>1. nextCall \in 1 .. MaxCalls
    BY <1>4, MaxCallsType DEF CallServer, Types, EditorTypes
  <2> QED BY <1>1, <1>3, <1>4, <2>1 DEF CallServer, Issue
<1>5. CASE Initialize
  BY <1>1, <1>3, <1>5 DEF Initialize, Issue
<1>6. CASE InitializeReturns \/ NotifyInitialized \/ WakeOne \/ SendListens
  BY <1>2, <1>3, <1>6 DEF InitializeReturns, NotifyInitialized, WakeOne, SendListens
<1>7. ASSUME NEW r \in NewRoots, AddRoot(r) \/ RootTask(r)
      PROVE  \E m \in Message : /\ \A x \in Docs : ~Concerns(m, x)
                                /\ Sent(<<m>>) \/ UNCHANGED clientRx
  BY <1>2, <1>3, <1>7 DEF AddRoot, RootTask, RootListens, RootWakes, IfInitialized
<1> QED BY <1>4, <1>5, <1>6, <1>7 DEF Unconcerned

LEMMA UnconcernedFollows ==
  ASSUME Types, Following, Unconcerned
  PROVE  Following'
<1>1. UNCHANGED <<phase, doc, text, misled, outgoing, srv, sendUp, recvUp, isPending, incoming>>
  BY DEF Unconcerned, CallServer, Initialize, InitializeReturns, NotifyInitialized, WakeOne,
         SendListens, AddRoot, RootTask, RootListens, RootWakes, sendVars, editorVars
<1>2. Synced' => Synced
  BY <1>1 DEF Synced
<1> QED BY <1>1, <1>2, UnconcernedSends, OneQuietly

\* The foremost message is taken to be written, ...
LEMMA TakingFollows ==
  ASSUME Types, Following, SendDrains \/ SendTakes \/ SendInjected
  PROVE  Following'
<1>1. /\ outgoing = Silent
      /\ UNCHANGED <<phase, doc, text, misled, srv, sendUp, recvUp, isPending, incoming>>
  BY DEF SendDrains, SendTakes, SendInjected, Selecting, editorVars
<1>2. /\ pendingMessages \in Seq(Delayed) /\ injectRx \in Seq(Replies) /\ clientRx \in Seq(Message)
  BY DEF Types, TransportTypes
<1>3. Synced' => Synced
  BY <1>1 DEF Synced
<1>4. ASSUME Synced', NEW d \in Docs, doc'[d] = "open", d \notin misled'
      PROVE  \E e \in [0 .. Len(clientRx') -> Texts] : Leads(d, e)'
  <2>1. PICK e \in [0 .. Len(clientRx) -> Texts] : Leads(d, e)
    BY <1>1, <1>3, <1>4 DEF Following
  <2>2. e[0] = NotOpen \/ e[0] = srv.text[d]
    BY <1>1, <2>1 DEF Leads, Follows, Silent, Notification
  <2>3. CASE SendDrains \/ SendInjected
    <3>1. clientRx' = clientRx
      BY <2>3 DEF SendDrains, SendInjected
    <3>2. outgoing' \in Delayed
      <4>1. CASE SendDrains
        <5>1. outgoing' = Head(pendingMessages) /\ pendingMessages # <<>>
          BY <4>1 DEF SendDrains, Take
        <5> QED BY <1>2, <5>1, QueueAfterTake
      <4>2. CASE SendInjected
        <5>1. outgoing' = Head(injectRx) /\ injectRx # <<>>
          BY <4>2 DEF SendInjected, Take
        <5>2. outgoing' \in Replies
          BY <1>2, <5>1, QueueAfterTake
        <5> QED BY <5>2 DEF Delayed
      <4> QED BY <2>3, <4>1, <4>2
    <3>3. ~Concerns(outgoing', d)
      BY <3>2, ConcernsOnly DEF Delayed, Calls
    <3>4. Leads(d, e)'
      BY <1>1, <2>1, <2>2, <3>1, <3>3 DEF Leads, Follows, Chain
    <3> QED BY <2>1, <3>1, <3>4
  <2>4. CASE SendTakes
    <3>1. outgoing' = Head(clientRx) /\ clientRx' = Tail(clientRx) /\ clientRx # <<>>
      BY <2>4 DEF SendTakes, Take
    <3> DEFINE n == Len(clientRx')
    <3>2. /\ clientRx' \in Seq(Message) /\ Len(clientRx) \in Nat \ {0} /\ n = Len(clientRx) - 1
          /\ outgoing' = clientRx[1] /\ outgoing' \in Message
          /\ \A i \in 1 .. n : i + 1 \in 1 .. Len(clientRx) /\ clientRx'[i] = clientRx[i + 1]
      BY <1>2, <3>1, QueueAfterTake
    <3>3. \A i \in 0 .. n : i + 1 \in 0 .. Len(clientRx)
      BY <3>2
    <3>4. PICK f \in [0 .. n -> Texts] : \A i \in 0 .. n : f[i] = e[i + 1]
      <4>1. [i \in 0 .. n |-> e[i + 1]] \in [0 .. n -> Texts]
        BY <3>3
      <4> QED BY <4>1
    <3>5. /\ Chain(clientRx, d, e) /\ e[Len(clientRx)] = text[d]
      BY <2>1 DEF Leads
    <3>6. 0 \in 0 .. n /\ n \in 0 .. n /\ n + 1 = Len(clientRx) /\ 1 \in 1 .. Len(clientRx)
          /\ \A i \in 1 .. n : i \in 0 .. n /\ i - 1 \in 0 .. n /\ (i - 1) + 1 = i /\ (i + 1) - 1 = i
      BY <3>2
    <3>7. f[0] = e[1] /\ f[n] = text[d]
      BY <3>4, <3>5, <3>6
    <3>8. ASSUME NEW i \in 1 .. n PROVE Follows(clientRx'[i], d, f[i - 1], f[i])
      <4>1. Follows(clientRx[i + 1], d, e[(i + 1) - 1], e[i + 1])
        BY <3>2, <3>5 DEF Chain
      <4>2. f[i - 1] = e[i] /\ f[i] = e[i + 1] /\ (i + 1) - 1 = i
        BY <3>4, <3>6
      <4> QED BY <3>2, <4>1, <4>2
    <3>9. Follows(outgoing', d, srv.text[d], f[0])
      <4>1. Follows(outgoing', d, e[0], e[1])
        <5>1. Follows(clientRx[1], d, e[1 - 1], e[1])
          BY <3>5, <3>6 DEF Chain
        <5> QED BY <3>2, <5>1
      <4>2. ASSUME outgoing' = Notification("didChange", <<d, NotOpen, e[1]>>) PROVE FALSE
        <5>1. outgoing'.arg[2] = NotOpen /\ outgoing'.method = "didChange"
          BY <4>2 DEF Notification
        <5>2. outgoing' \in Notices
          BY <3>2, <4>2, MessageIs DEF Notification
        <5>3. outgoing' \in Changed
          BY <5>1, <5>2, NoticeIs
        <5>4. outgoing'.arg[2] \in 0 .. MaxEdits - 1 \cup {Garbled}
          BY <5>3, ChangedIs
        <5>5. NotOpen \notin 0 .. MaxEdits - 1 \cup {Garbled}
          BY LspAssumption
        <5> QED BY <5>1, <5>4, <5>5
      <4> QED BY <2>2, <3>7, <4>1, <4>2 DEF Follows
    <3>10. Chain(clientRx', d, f)
      BY <3>8 DEF Chain
    <3>11. f[Len(clientRx')] = text'[d]
      BY <1>1, <3>7
    <3>12. Leads(d, f)'
      BY <1>1, <3>9, <3>10, <3>11 DEF Leads, Chain
    <3> QED BY <3>12
  <2> QED BY <2>3, <2>4
<1> QED BY <1>4 DEF Following

\* ... or read by the server.
LEMMA FlushFollows ==
  ASSUME Types, Following, SendFlushes
  PROVE  Following'
<1>1. /\ outgoing' = Silent /\ outgoing \in Message
      /\ UNCHANGED <<phase, doc, text, misled, clientRx, sendUp, recvUp, isPending, incoming>>
      /\ srv.up => IsRead(outgoing, srv')
      /\ ~srv.up => srv' = srv
  BY FlushTypes DEF SendFlushes, editorVars
<1>2. Synced' => Synced
  BY <1>1 DEF Synced
<1>3. ASSUME Synced', NEW d \in Docs, doc'[d] = "open", d \notin misled'
      PROVE  \E e \in [0 .. Len(clientRx') -> Texts] : Leads(d, e)'
  <2>1. PICK e \in [0 .. Len(clientRx) -> Texts] : Leads(d, e)
    BY <1>1, <1>2, <1>3 DEF Following
  <2>2. Follows(outgoing, d, srv.text[d], e[0])
    BY <2>1 DEF Leads
  <2>3. IsRead(outgoing, srv')
    BY <1>1, <1>2, <1>3 DEF Synced
  <2>4. e[0] = NotOpen \/ e[0] = srv'.text[d]
    <3>1. CASE outgoing = Notification("didOpen", <<d, e[0]>>)
      <4>1. outgoing \in Notices /\ outgoing.method = "didOpen" /\ outgoing.arg = <<d, e[0]>>
        BY <1>1, <3>1, MessageIs DEF Notification
      <4>2. outgoing \in Opened /\ outgoing.arg[1] = d /\ outgoing.arg[2] = e[0]
        BY <4>1, NoticeIs
      <4> QED BY <2>3, <4>2 DEF IsRead
    <3>2. CASE outgoing = Notification("didChange", <<d, srv.text[d], e[0]>>)
      <4>1. /\ outgoing \in Notices /\ outgoing.method = "didChange"
            /\ outgoing.arg = <<d, srv.text[d], e[0]>>
        BY <1>1, <3>2, MessageIs DEF Notification
      <4>2. /\ outgoing \in Changed /\ outgoing.arg[1] = d /\ outgoing.arg[2] = srv.text[d]
            /\ outgoing.arg[3] = e[0]
        BY <4>1, NoticeIs
      <4> QED BY <2>3, <4>2 DEF IsRead
    <3>3. CASE ~Concerns(outgoing, d) /\ e[0] = srv.text[d]
      <4>1. srv'.text[d] = srv.text[d]
        <5>1. outgoing \in Opened \/ outgoing \in Changed \/ outgoing \in Closings
                => outgoing.arg[1] # d
          BY <3>3 DEF Concerns, Edits
        <5> QED BY <2>3, <5>1 DEF IsRead
      <4> QED BY <3>3, <4>1
    <3> QED BY <2>2, <3>1, <3>2, <3>3 DEF Follows
  <2>5. ~Concerns(Silent, d)
    BY ConcernsOnly
  <2>6. Follows(Silent, d, srv'.text[d], e[0])
    BY <2>4, <2>5 DEF Follows
  <2>7. Leads(d, e)'
    BY <1>1, <2>1, <2>6 DEF Leads, Chain
  <2> QED BY <1>1, <2>7
<1> QED BY <1>3 DEF Following

LEMMA FollowingStep ==
  ASSUME Types, Following, Heralded, [Next]_vars
  PROVE  Following'
<1>1. ASSUME ~Synced' PROVE Following'
  BY <1>1 DEF Following
<1>2. ASSUME UNCHANGED <<phase, doc, text, misled, clientRx, outgoing, srv, sendUp, recvUp, isPending,
                          incoming>>
      PROVE  Following'
  <2>1. Synced' => Synced
    BY <1>2 DEF Synced
  <2> QED BY <1>2, <2>1, NothingFollows
<1>3. CASE UNCHANGED vars
  BY <1>2, <1>3 DEF vars, editorVars, sendVars
<1>4. CASE MainThread
  <2>1. CASE Quit \/ QuitFlushed \/ QuitCapped
    <3>1. phase' # "running"
      BY <2>1 DEF Quit, QuitFlushed, QuitCapped, TornDown
    <3> QED BY <1>1, <3>1 DEF Synced
  <2> QED BY <1>4, <2>1, DocumentsFollow, HandlingFollows, UnconcernedFollows
         DEF MainThread, DocumentStep, Unconcerned
<1>5. CASE SendTask
  <2>1. CASE SendInitialized
    <3>1. incoming' = Append(incoming, Initialized) /\ incoming \in Seq(News) /\ Initialized \in News
      BY <2>1 DEF SendInitialized, News, Types, TransportTypes
    <3>2. Range(Append(incoming, Initialized)) = Range(incoming) \cup {Initialized}
      BY <3>1, QueueAfterAppend
    <3> QED BY <1>1, <3>1, <3>2 DEF Synced
  <2>2. CASE SendDelays
    <3>1. isPending'
      BY <2>2 DEF SendDelays
    <3> QED BY <1>1, <3>1 DEF Synced
  <2> QED BY <1>5, <2>1, <2>2, TakingFollows, FlushFollows, UnconcernedFollows DEF SendTask, Unconcerned
<1>6. CASE RecvTask
  <2>1. UNCHANGED <<phase, doc, text, misled, clientRx, outgoing, srv, sendUp, isPending>>
    BY <1>6 DEF RecvTask, RecvAnswer, RecvCall, RecvEnds, editorVars, sendVars
  <2>2. Synced' => Synced
    <3>1. CASE RecvAnswer
      <4>1. UNCHANGED <<recvUp, incoming>>
        BY <3>1 DEF RecvAnswer
      <4> QED BY <2>1, <4>1 DEF Synced
    <3>2. CASE RecvCall
      <4>1. /\ recvUp' = recvUp /\ stdout # <<>> /\ Head(stdout).what = "call"
            /\ incoming' = incoming \/ incoming' = Append(incoming, Head(stdout))
        BY <3>2 DEF RecvCall
      <4>2. incoming \in Seq(News) /\ stdout \in Seq(Output)
        BY DEF Types, TransportTypes
      <4>3. Head(stdout) \in Output
        BY <4>1, <4>2, QueueAfterTake
      <4>4. Head(stdout) \in News
        BY <4>1, <4>3, OutputIs DEF News
      <4>5. Range(Append(incoming, Head(stdout))) = Range(incoming) \cup {Head(stdout)}
        BY <4>2, <4>4, QueueAfterAppend
      <4>6. Range(incoming) \subseteq Range(incoming')
        BY <4>1, <4>5
      <4> QED BY <2>1, <4>1, <4>6 DEF Synced
    <3>3. CASE RecvEnds
      BY <3>3 DEF RecvEnds, Synced
    <3> QED BY <1>6, <3>1, <3>2, <3>3 DEF RecvTask
  <2> QED BY <2>1, <2>2, NothingFollows
<1>7. CASE InitTask
  BY <1>7, UnconcernedFollows DEF InitTask, Unconcerned
<1>8. CASE Server
  <2>1. UNCHANGED <<phase, doc, text, misled, clientRx, outgoing, sendUp, recvUp, isPending, incoming>>
    BY <1>8 DEF Server, ServerAnswers, ServerAsks, ServerWritesMalformed, ServerDies, editorVars, sendVars
  <2>2. CASE ServerDies
    <3>1. ~srv'.up
      BY <2>2 DEF ServerDies, Dead, Started
    <3> QED BY <1>1, <3>1 DEF Synced
  <2>3. CASE ~ServerDies
    <3>1. srv'.text = srv.text /\ srv'.up = srv.up
      BY <1>8, <2>3 DEF Server, ServerAnswers, ServerAsks, ServerWritesMalformed, Types, ServerTypes,
                        ServerState
    <3>2. Synced' => Synced
      BY <2>1, <3>1 DEF Synced
    <3> QED BY <2>1, <3>1, <3>2, NothingFollows
  <2> QED BY <2>2, <2>3
<1>9. CASE \E id \in Ids : Timeout(id)
  BY <1>2, <1>9 DEF Timeout, sendVars
<1>10. CASE \E r \in NewRoots : RootTask(r)
  BY <1>10, UnconcernedFollows DEF Unconcerned
<1> QED BY <1>3, <1>4, <1>5, <1>6, <1>7, <1>8, <1>9, <1>10 DEF Next, Exited

LEMMA HeraldedStep ==
  ASSUME Types, Heralded, [Next]_vars
  PROVE  Heralded'
<1>1. ASSUME UNCHANGED <<capabilities, initTask>>,
             permit' => permit, woken' # {} => woken # {} \/ permit,
             ~isPending' => ~isPending \/ woken # {},
             recvUp' => recvUp, registered' => registered,
             ~registered' => ~registered \/ ~recvUp,
             Exit \in Range(incoming') => Exit \in Range(incoming) \/ ~recvUp'
      PROVE  Heralded'
  BY <1>1 DEF Heralded
<1>2. incoming \in Seq(News) /\ stdout \in Seq(Output)
  BY DEF Types, TransportTypes
<1>3. ASSUME UNCHANGED <<registered, initVars, incoming, notifyVars, isPending, recvUp>>
      PROVE  Heralded'
  BY <1>3 DEF Heralded, initVars, notifyVars
<1>4. CASE UNCHANGED vars
  BY <1>3, <1>4 DEF vars, editorVars, sendVars
<1>5. CASE MainThread
  <2>1. ASSUME NEW d \in Docs, DocumentStep(d) PROVE Heralded'
    BY <1>3, <2>1 DEF DocumentStep, OpenDoc, EditDoc, CloseDoc, GhostEdit, EditOverGhost, sendVars
  <2>2. CASE CallServer \/ Quit
    BY <1>3, <2>2 DEF CallServer, Quit, sendVars
  <2>3. CASE HandleIncoming
    <3>1. /\ incoming' = Tail(incoming) /\ incoming # <<>>
          /\ registered' = (registered /\ Head(incoming) # Exit)
          /\ UNCHANGED <<initVars, notifyVars, isPending, recvUp>>
      BY <2>3 DEF HandleIncoming, sendVars
    <3>2. Range(incoming) = Range(incoming') \cup {Head(incoming)}
      BY <1>2, <3>1, QueueAfterTake
    <3>3. Exit \in Range(incoming') => Exit \in Range(incoming)
      BY <3>2
    <3>4. ~registered' => ~registered \/ ~recvUp
      BY <3>1, <3>2 DEF Heralded
    <3> QED BY <3>1, <3>3, <3>4 DEF Heralded, initVars, notifyVars
  <2>4. CASE QuitFlushed \/ QuitCapped
    <3>1. TornDown
      BY <2>4 DEF QuitFlushed, QuitCapped
    <3> QED BY <3>1 DEF TornDown, Heralded, initVars
  <2>5. ASSUME NEW r \in NewRoots, AddRoot(r) PROVE Heralded'
    BY <2>5 DEF AddRoot, Heralded, editorVars, notifyVars, sendVars
  <2> QED BY <1>5, <2>1, <2>2, <2>3, <2>4, <2>5 DEF MainThread, DocumentStep
<1>6. CASE SendTask
  <2>1. CASE SendListens
    <3>1. UNCHANGED <<registered, capabilities, initTask, incoming, isPending, recvUp>>
      BY <2>1 DEF SendListens, editorVars, initVars, sendVars
    <3>2. Listen("send")
      BY <2>1 DEF SendListens
    <3>3. (permit' => permit) /\ (woken' # {} => woken # {} \/ permit)
      BY <3>2 DEF Listen
    <3> QED BY <3>1, <3>3 DEF Heralded
  <2>2. CASE SendInitialized
    <3>1. /\ incoming' = Append(incoming, Initialized) /\ woken # {} /\ woken' \subseteq woken
          /\ UNCHANGED <<registered, capabilities, initTask, permit, recvUp>>
      BY <2>2 DEF SendInitialized, editorVars, initVars
    <3>2. Initialized \in News /\ Initialized # Exit
      BY DEF News, Initialized, Exit
    <3>3. Range(Append(incoming, Initialized)) = Range(incoming) \cup {Initialized}
      BY <1>2, <3>2, QueueAfterAppend
    <3>4. Exit \in Range(incoming') => Exit \in Range(incoming)
      BY <3>1, <3>2, <3>3
    <3> QED BY <3>1, <3>4 DEF Heralded
  <2>3. CASE SendDrains \/ SendTakes \/ SendInjected \/ SendFlushes
    BY <1>3, <2>3 DEF SendDrains, SendTakes, SendInjected, SendFlushes, editorVars
  <2>4. CASE SendDelays
    BY <2>4 DEF SendDelays, Heralded, initVars
  <2> QED BY <1>6, <2>1, <2>2, <2>3, <2>4 DEF SendTask
<1>7. CASE RecvTask
  <2>1. UNCHANGED <<registered, initVars, notifyVars, isPending>>
    BY <1>7 DEF RecvTask, RecvAnswer, RecvCall, RecvEnds, editorVars, sendVars
  <2>2. CASE RecvAnswer
    BY <1>3, <2>1, <2>2 DEF RecvAnswer
  <2>3. CASE RecvCall
    <3>1. /\ recvUp' = recvUp /\ stdout # <<>> /\ Head(stdout).what = "call"
          /\ incoming' = incoming \/ incoming' = Append(incoming, Head(stdout))
      BY <2>3 DEF RecvCall
    <3>2. Head(stdout) \in Output
      BY <1>2, <3>1, QueueAfterTake
    <3>3. Head(stdout) \in News /\ Head(stdout) # Exit
      BY <3>1, <3>2, OutputIs DEF News, Exit
    <3>4. Range(Append(incoming, Head(stdout))) = Range(incoming) \cup {Head(stdout)}
      BY <1>2, <3>3, QueueAfterAppend
    <3>5. Exit \in Range(incoming') => Exit \in Range(incoming)
      BY <3>1, <3>3, <3>4
    <3> QED BY <2>1, <3>1, <3>5 DEF Heralded, initVars, notifyVars
  <2>4. CASE RecvEnds
    <3>1. ~recvUp'
      BY <2>4 DEF RecvEnds
    <3> QED BY <2>1, <3>1 DEF Heralded, initVars, notifyVars
  <2> QED BY <1>7, <2>2, <2>3, <2>4 DEF RecvTask
<1>8. CASE InitTask
  <2>1. UNCHANGED <<registered, incoming, isPending, recvUp>>
    BY <1>8 DEF InitTask, Initialize, InitializeReturns, NotifyInitialized, WakeOne, editorVars, sendVars
  <2>2. CASE Initialize \/ InitializeReturns \/ NotifyInitialized
    <3>1. initTask # "done" /\ UNCHANGED <<permit, woken>>
      BY <2>2 DEF Initialize, InitializeReturns, NotifyInitialized, notifyVars
    <3>2. ~permit' /\ woken' = {} /\ isPending'
      BY <2>1, <3>1 DEF Heralded
    <3>3. CASE Initialize \/ NotifyInitialized
      <4>1. capabilities' = capabilities
              /\ (initTask' \in {"initialized", "notified", "done"}
                    <=> initTask \in {"initialized", "notified", "done"})
        BY <3>3 DEF Initialize, NotifyInitialized
      <4> QED BY <2>1, <3>2, <4>1 DEF Heralded
    <3>4. CASE InitializeReturns
      <4>1. capabilities' <=> initTask' \in {"initialized", "notified", "done"}
        BY <3>4 DEF InitializeReturns
      <4> QED BY <2>1, <3>2, <4>1 DEF Heralded
    <3> QED BY <2>2, <3>3, <3>4
  <2>3. CASE WakeOne
    BY <2>1, <2>3 DEF Heralded, WakeOne
  <2> QED BY <1>8, <2>2, <2>3 DEF InitTask
<1>9. CASE Server
  BY <1>3, <1>9 DEF Server, ServerAnswers, ServerAsks, ServerWritesMalformed, ServerDies, editorVars,
                    sendVars
<1>10. CASE \E id \in Ids : Timeout(id)
  BY <1>3, <1>10 DEF Timeout, sendVars
<1>11. CASE \E r \in NewRoots : RootTask(r)
  <2>1. UNCHANGED <<registered, capabilities, initTask, incoming, isPending, recvUp>>
    BY <1>11 DEF RootTask, RootListens, RootWakes, editorVars, initVars, sendVars
  <2>2. (permit' => permit) /\ (woken' # {} => woken # {} \/ permit)
    BY <1>11 DEF RootTask, RootListens, RootWakes, Listen
  <2> QED BY <2>1, <2>2 DEF Heralded
<1> QED BY <1>4, <1>5, <1>6, <1>7, <1>8, <1>9, <1>10, <1>11 DEF Next, Exited

LEMMA QuietMirrors ==
  ASSUME Types, Following
  PROVE  ServerMirrorsOpenDocuments
<1> SUFFICES ASSUME Quiet, NEW d \in Docs, doc[d] = "open", d \notin misled
             PROVE  srv.text[d] = text[d]
  BY DEF ServerMirrorsOpenDocuments
<1>1. Synced /\ clientRx = <<>> /\ outgoing = Silent
  BY DEF Quiet, Synced
<1>2. Len(clientRx) = 0
  BY <1>1
<1>3. PICK e \in [0 .. Len(clientRx) -> Texts] : Leads(d, e)
  BY <1>1 DEF Following
<1>4. Follows(Silent, d, srv.text[d], text[d])
  BY <1>1, <1>2, <1>3 DEF Leads
<1>5. text[d] # NotOpen
  BY LspAssumption DEF Types, EditorTypes
<1>6. \A a, b : Silent # Notification(a, b)
  BY DEF Silent, Notification
<1> QED BY <1>4, <1>5, <1>6 DEF Follows

(* For any number of documents and edits, whatever was ignored while the   *)
(* server was not ready, however messages are delayed and whatever         *)
(* previews come and go: when all that was queued for an initialized       *)
(* server is written, its text of each open document is the editor's,      *)
(* unless the server was told of it with a preview's text.                 *)
THEOREM ServerFollowsTheEditor == Spec => []ServerMirrorsOpenDocuments
<1>1. Init => Following /\ Heralded
  <2> SUFFICES ASSUME Init PROVE Following /\ Heralded
    OBVIOUS
  <2>1. isPending /\ registered /\ incoming = <<>> /\ woken = {} /\ ~permit
    BY DEF Init
  <2>2. Range(<<>>) = {}
    BY DEF Range
  <2>3. Following
    BY <2>1 DEF Following, Synced
  <2>4. capabilities = FALSE /\ initTask = "start"
    BY DEF Init
  <2>5. Heralded
    <3>1. capabilities <=> initTask \in {"initialized", "notified", "done"}
      BY <2>4
    <3>2. ~(permit \/ woken # {} \/ ~isPending) /\ ~(~registered \/ Exit \in Range(incoming))
      BY <2>1, <2>2
    <3> QED BY <3>1, <3>2, Zenon DEF Heralded
  <2> QED BY <2>3, <2>5
<1>2. Types /\ Following /\ Heralded /\ [Next]_vars => Types' /\ Following' /\ Heralded'
  BY TypesStep, FollowingStep, HeraldedStep
<1>3. Types /\ Following => ServerMirrorsOpenDocuments
  BY QuietMirrors
<1> QED BY <1>1, <1>2, <1>3, TypesInit, PTL DEF Spec

-----------------------------------------------------------------------------
(* start_client notifies initialize_notify once (notify_one, lib.rs:965),  *)
(* and two kinds of task wait for it: the send task and the task of each   *)
(* new root.  The wake-up is a permit, or is on its way to one task, and   *)
(* is never both.                                                          *)
OneWakeUp ==
  /\ permit \/ woken # {} => initTask = "done"
  /\ permit => woken = {}
  /\ \A s, t \in woken : s = t

Spent == initTask = "done" /\ ~permit /\ woken = {}

\* A task goes on because it was woken.
WakesSomeone ==
  \/ isPending /\ ~isPending'
  \/ \E r \in NewRoots : rootTask[r] = "spawned" /\ rootTask'[r] = "added"

LEMMA NotifyUntouched ==
  ASSUME OneWakeUp, UNCHANGED <<notifyVars, initTask, isPending>>,
         \A r \in NewRoots : rootTask[r] = "spawned" => rootTask'[r] = "spawned"
  PROVE  OneWakeUp' /\ (WakesSomeone => ~Spent /\ Spent') /\ (Spent => Spent')
<1>1. OneWakeUp' /\ (Spent => Spent')
  BY DEF OneWakeUp, Spent, notifyVars
<1>2. ~WakesSomeone
  BY DEF WakesSomeone
<1> QED BY <1>1, <1>2

LEMMA ListenHandsOver ==
  ASSUME OneWakeUp, NEW t, Listen(t), UNCHANGED <<initTask, isPending, rootTask>>
  PROVE  OneWakeUp' /\ (WakesSomeone => ~Spent /\ Spent') /\ (Spent => Spent')
<1>1. ~WakesSomeone
  BY DEF WakesSomeone
<1>2. CASE permit
  <2>1. woken' = {t} /\ ~permit' /\ initTask' = "done"
    BY <1>2 DEF Listen, OneWakeUp
  <2> QED BY <1>1, <1>2, <2>1 DEF OneWakeUp, Spent
<1>3. CASE ~permit
  <2>1. UNCHANGED <<woken, permit>>
    BY <1>3 DEF Listen
  <2> QED BY <1>1, <2>1 DEF OneWakeUp, Spent
<1> QED BY <1>2, <1>3

\* The task that was woken takes the only wake-up there is.
LEMMA WokenTakesTheOne ==
  ASSUME OneWakeUp, NEW t \in woken, woken' = woken \ {t}, UNCHANGED <<initTask, permit>>
  PROVE  OneWakeUp' /\ ~Spent /\ Spent'
<1>1. initTask' = "done" /\ ~permit' /\ woken' = {}
  BY DEF OneWakeUp
<1> QED BY <1>1 DEF OneWakeUp, Spent

LEMMA OneWakeUpStep ==
  ASSUME Types, OneWakeUp, [Next]_vars
  PROVE  OneWakeUp' /\ (WakesSomeone => ~Spent /\ Spent') /\ (Spent => Spent')
<1>1. ASSUME UNCHANGED <<notifyVars, initVars, isPending>>
      PROVE  OneWakeUp' /\ (WakesSomeone => ~Spent /\ Spent') /\ (Spent => Spent')
  BY <1>1, NotifyUntouched DEF initVars
<1>2. CASE UNCHANGED vars
  BY <1>1, <1>2 DEF vars, sendVars
<1>3. CASE MainThread
  <2>1. ASSUME NEW d \in Docs, DocumentStep(d)
        PROVE  UNCHANGED <<notifyVars, initVars, isPending>>
    BY <2>1 DEF DocumentStep, OpenDoc, EditDoc, CloseDoc, GhostEdit, EditOverGhost, sendVars
  <2>2. CASE CallServer \/ HandleIncoming \/ Quit
    BY <1>1, <2>2 DEF CallServer, HandleIncoming, Quit, sendVars
  <2>3. CASE QuitFlushed \/ QuitCapped
    <3>1. woken' = {} /\ ~permit' /\ UNCHANGED <<initVars, isPending>>
      BY <2>3 DEF QuitFlushed, QuitCapped, TornDown
    <3> QED BY <3>1 DEF OneWakeUp, Spent, WakesSomeone, initVars
  <2>4. ASSUME NEW r \in NewRoots, AddRoot(r)
        PROVE  OneWakeUp' /\ (WakesSomeone => ~Spent /\ Spent') /\ (Spent => Spent')
    <3>1. UNCHANGED <<notifyVars, initTask, isPending>> /\ rootTask[r] = "idle"
      BY <2>4 DEF AddRoot, sendVars
    <3>2. \A q \in NewRoots : q # r => rootTask'[q] = rootTask[q]
      BY <2>4 DEF AddRoot, Types, EditorTypes
    <3> QED BY <3>1, <3>2, NotifyUntouched
  <2> QED BY <1>1, <1>3, <2>1, <2>2, <2>3, <2>4 DEF MainThread, DocumentStep
<1>4. CASE SendTask
  <2>1. CASE SendListens
    BY <2>1, ListenHandsOver DEF SendListens, initVars, sendVars
  <2>2. CASE SendInitialized
    <3>1. /\ "send" \in woken /\ woken' = woken \ {"send"}
          /\ UNCHANGED <<initTask, permit>>
      BY <2>2 DEF SendInitialized, initVars
    <3> QED BY <3>1, WokenTakesTheOne
  <2>3. CASE SendDrains \/ SendTakes \/ SendInjected \/ SendFlushes
    BY <1>1, <2>3 DEF SendDrains, SendTakes, SendInjected, SendFlushes
  <2>4. CASE SendDelays
    <3>1. UNCHANGED <<initVars, woken, permit, isPending>>
      BY <2>4 DEF SendDelays
    <3> QED BY <3>1 DEF OneWakeUp, Spent, WakesSomeone, initVars
  <2> QED BY <1>4, <2>1, <2>2, <2>3, <2>4 DEF SendTask
<1>5. CASE RecvTask
  BY <1>1, <1>5 DEF RecvTask, RecvAnswer, RecvCall, RecvEnds, sendVars
<1>6. CASE InitTask
  <2>1. CASE Initialize \/ InitializeReturns \/ NotifyInitialized
    <3>1. initTask # "done" /\ UNCHANGED <<permit, woken, isPending, rootTask>>
      BY <2>1 DEF Initialize, InitializeReturns, NotifyInitialized, notifyVars, sendVars
    <3> QED BY <3>1 DEF OneWakeUp, Spent, WakesSomeone
  <2>2. CASE WakeOne
    <3>1. ~permit /\ woken = {} /\ ~Spent
      BY <2>2 DEF WakeOne, OneWakeUp, Spent
    <3>2. initTask' = "done" /\ UNCHANGED <<isPending, rootTask>>
      BY <2>2 DEF WakeOne, sendVars
    <3>3. (permit' => woken' = {}) /\ \A s, t \in woken' : s = t
      BY <2>2, <3>1 DEF WakeOne, NotifyOne
    <3> QED BY <3>1, <3>2, <3>3 DEF OneWakeUp, WakesSomeone
  <2> QED BY <1>6, <2>1, <2>2 DEF InitTask
<1>7. CASE Server
  BY <1>1, <1>7 DEF Server, ServerAnswers, ServerAsks, ServerWritesMalformed, ServerDies, sendVars
<1>8. CASE \E id \in Ids : Timeout(id)
  BY <1>1, <1>8 DEF Timeout, sendVars
<1>9. ASSUME NEW r \in NewRoots, RootTask(r)
      PROVE  OneWakeUp' /\ (WakesSomeone => ~Spent /\ Spent') /\ (Spent => Spent')
  <2>1. CASE RootListens(r)
    BY <2>1, ListenHandsOver DEF RootListens, initVars, sendVars
  <2>2. CASE RootWakes(r)
    <3>1. r \in woken /\ woken' = woken \ {r} /\ UNCHANGED <<initTask, permit>>
      BY <2>2 DEF RootWakes
    <3> QED BY <3>1, WokenTakesTheOne
  <2> QED BY <1>9, <2>1, <2>2 DEF RootTask
<1> QED BY <1>2, <1>3, <1>4, <1>5, <1>6, <1>7, <1>8, <1>9 DEF Next, Exited

(* The single wake-up serves a single task, whatever their number and the  *)
(* order in which they come to wait: whoever goes on takes the last of it, *)
(* and once it is spent nobody goes on any more.  A root that still waits  *)
(* when the send task is told (or the send task, when a root is told       *)
(* first) therefore waits for ever: why NewRootsAreAdded fails.            *)
THEOREM OneTaskIsWoken ==
  Spec => [][(WakesSomeone => ~Spent /\ Spent') /\ (Spent => Spent')]_vars
<1>1. Init => OneWakeUp
  BY DEF Init, OneWakeUp
<1>2. Types /\ OneWakeUp /\ [Next]_vars => Types' /\ OneWakeUp'
  BY TypesStep, OneWakeUpStep
<1>3. Types /\ OneWakeUp /\ [Next]_vars
        => [(WakesSomeone => ~Spent /\ Spent') /\ (Spent => Spent')]_vars
  BY OneWakeUpStep
<1> QED BY <1>1, <1>2, <1>3, TypesInit, PTL DEF Spec
=============================================================================
