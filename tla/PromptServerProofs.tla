------------------------- MODULE PromptServerProofs -------------------------
(***************************************************************************)
(* The invariant IInv of PromptServer is inductive, for every set of       *)
(* clients, messages of every length and every number of commands, every   *)
(* backlog and every width of the counter.  That messages are handed over  *)
(* whole and run in order follows.                                         *)
(***************************************************************************)
EXTENDS PromptServer, QueueLemmas, FiniteSetTheorems

USE ClientsAssumption, MessageAssumption, BoundsAssumption

\* What the assumptions say of the message of one client.
LEMMA MessageFacts ==
  ASSUME NEW c \in Clients
  PROVE  /\ Message[c].len \in Nat /\ Message[c].len <= CounterMax
         /\ Message[c].commands \in Seq({"known", "skipped"})
         /\ PacketLen(c) \in Nat /\ PacketLen(c) = 2 + Message[c].len
         /\ c # NoClient
BY DEF PacketLen

\* The known commands of a message are finitely many.
LEMMA KnownFacts ==
  ASSUME NEW c \in Clients
  PROVE  Known(c) \subseteq 1..Len(Message[c].commands) /\ IsFiniteSet(Known(c))
<1>1. Len(Message[c].commands) \in Nat
  BY MessageFacts, Queue
<1>2. Known(c) \subseteq 1..Len(Message[c].commands)
  BY MessageFacts, <1>1 DEF Known
<1>3. IsFiniteSet(1..Len(Message[c].commands))
  BY <1>1, FS_Interval
<1>4. QED
  BY <1>2, <1>3, FS_Subset

\* Adding -1 to an unsigned counter.
LEMMA Decrement ==
  ASSUME NEW n \in 0..CounterMax
  PROVE  (n + CounterMax) % (CounterMax + 1)
           = IF n = 0 THEN CounterMax ELSE n - 1
<1>1. CASE n = 0
  BY <1>1
<1>2. CASE n # 0
  <2>1. n + CounterMax = (CounterMax + 1) + (n - 1)
    OBVIOUS
  <2>2. QED
    BY <1>2, <2>1, SMTT(30)
<1>3. QED
  BY <1>1, <1>2

LEMMA InitInv == Init => IInv
<1> SUFFICES ASSUME Init PROVE IInv
  OBVIOUS
<1>1. /\ <<>> \in Seq(Clients) /\ <<>> \in Seq(Clients \X Nat)
      /\ DOMAIN <<>> = {}
  BY EmptySeq
<1>2. TypeOK
  <2>1. /\ client \in [Clients -> {"new", "open", "closed"}]
        /\ written \in [Clients -> Nat]
        /\ \A c \in Clients : written[c] <= PacketLen(c)
    BY MessageFacts DEF Init
  <2>2. g_stop_server \in BOOLEAN /\ late_command \in BOOLEAN
    BY Zenon DEF Init
  <2>3. QED
    BY <1>1, <2>1, <2>2 DEF Init, TypeOK
<1>3. ReadInv /\ MessageIntact
  BY DEF Init, ReadInv, Serving, MessageIntact
<1>4. AcceptedOnce
  BY <1>1 DEF Init, AcceptedOnce, Serving, Run
<1>5. RunInv /\ CommandsInOrder
  BY <1>1 DEF Init, RunInv, Serving, CommandsInOrder
<1>6. QED
  BY <1>2, <1>3, <1>4, <1>5 DEF IInv

-----------------------------------------------------------------------------
(* What a step leaves alone.                                                *)

LEMMA RunKept ==
  RunInv /\ CommandsInOrder /\ UNCHANGED <<connfd, idx, executed>>
    => RunInv' /\ CommandsInOrder'
<1> SUFFICES ASSUME RunInv, CommandsInOrder, UNCHANGED <<connfd, idx, executed>>
             PROVE  RunInv' /\ CommandsInOrder'
  OBVIOUS
<1>1. connfd' = connfd /\ idx' = idx /\ executed' = executed
  OBVIOUS
<1>2. RunInv'
  BY <1>1 DEF RunInv, Serving, Done, Run
<1>3. CommandsInOrder'
  BY <1>1 DEF CommandsInOrder
<1>4. QED
  BY <1>2, <1>3

LEMMA OnceKept ==
  AcceptedOnce /\ UNCHANGED <<client, backlog, connfd, executed>>
    => AcceptedOnce'
BY DEF AcceptedOnce, Serving, Run

LEMMA ReadKept ==
  ReadInv /\ MessageIntact /\ UNCHANGED <<clientVars, serverVars>>
    => ReadInv' /\ MessageIntact'
BY DEF ReadInv, MessageIntact, Serving, Held, PacketLen, Commands, clientVars,
       serverVars

\* The steps of main, and the error that ends the process.
LEMMA MainInv ==
  ASSUME IInv, UNCHANGED <<clientVars, backlog, serverVars, executed>>,
         g_stop_server' \in BOOLEAN, late_command' \in BOOLEAN,
         main_pc' \in {"running", "stopped", "released", "exited"}
  PROVE  IInv'
<1>1. TypeOK'
  BY DEF IInv, TypeOK, clientVars, serverVars, PacketLen
<1>2. UNCHANGED <<client, backlog, connfd, idx, executed>>
  BY DEF clientVars, serverVars
<1>3. QED
  BY <1>1, <1>2, RunKept, OnceKept, ReadKept DEF IInv

-----------------------------------------------------------------------------
(* The clients.                                                             *)

\* A client ends, with its connection reset or not.
LEMMA LeavesInv ==
  ASSUME IInv, NEW c \in Clients, NEW pc \in {"new", "open"}, Leaves(c, pc),
         reset' = reset \/ reset' = reset \cup {c}
  PROVE  IInv'
<1>1. /\ client[c] = pc /\ client' = [client EXCEPT ![c] = "closed"]
      /\ UNCHANGED <<written, backlog, serverVars, mainVars, historyVars>>
  BY DEF Leaves
<1>2. /\ client' \in [Clients -> {"new", "open", "closed"}]
      /\ client'[c] = "closed" /\ client[c] # "closed"
      /\ \A d \in Clients : d # c => client'[d] = client[d]
  BY <1>1 DEF IInv, TypeOK
<1>3. TypeOK'
  BY <1>1, <1>2 DEF IInv, TypeOK, serverVars, mainVars, historyVars, PacketLen
<1>4. AcceptedOnce'
  <2>1. \A d \in Clients : client'[d] = "new" => client[d] = "new"
    BY <1>2
  <2>2. \A i \in DOMAIN backlog : backlog[i] \in Clients
    BY Queue DEF IInv, TypeOK
  <2>3. connfd \in Clients \cup {NoClient}
    BY DEF IInv, TypeOK
  <2>4. QED
    BY <1>1, <2>1, <2>2, <2>3 DEF IInv, AcceptedOnce, Serving, Run, serverVars,
       historyVars
<1>5. ReadInv' /\ MessageIntact'
  <2>1. connfd \in Clients \cup {NoClient}
    BY DEF IInv, TypeOK
  <2>2. ASSUME connfd \in Clients, client[connfd] = "closed"
        PROVE  /\ client'[connfd] = "closed"
               /\ connfd \in reset' <=> connfd \in reset
    BY <1>2, <2>2
  <2>3. Serving /\ Held => Held'
    BY <1>1, <2>1, <2>2 DEF Held, Serving, serverVars, PacketLen
  <2>4. ReadInv'
    BY <1>1, <2>1, <2>3 DEF IInv, ReadInv, Serving, serverVars, Commands,
       PacketLen
  <2>5. MessageIntact'
    BY <1>1, <2>1, <2>2 DEF IInv, ReadInv, Serving, MessageIntact, serverVars,
       PacketLen
  <2>6. QED
    BY <2>4, <2>5
<1>6. QED
  BY <1>1, <1>3, <1>4, <1>5, RunKept DEF IInv, serverVars, historyVars

LEMMA ConnectInv ==
  ASSUME IInv, NEW c \in Clients, Connect(c)
  PROVE  IInv'
<1>1. /\ client[c] = "new" /\ client' = [client EXCEPT ![c] = "open"]
      /\ backlog' = Append(backlog, c)
      /\ UNCHANGED <<written, reset, serverVars, mainVars, historyVars>>
  BY DEF Connect
<1>2. /\ client' \in [Clients -> {"new", "open", "closed"}]
      /\ client'[c] = "open"
      /\ \A d \in Clients : d # c => client'[d] = client[d]
  BY <1>1 DEF IInv, TypeOK
<1>3. /\ backlog' \in Seq(Clients) /\ Len(backlog) \in Nat
      /\ DOMAIN backlog = 1..Len(backlog)
      /\ DOMAIN backlog' = 1..(Len(backlog) + 1)
      /\ \A i \in DOMAIN backlog :
           backlog[i] \in Clients /\ backlog'[i] = backlog[i]
      /\ backlog'[Len(backlog) + 1] = c
  <2>1. backlog \in Seq(Clients)
    BY DEF IInv, TypeOK
  <2>2. /\ Append(backlog, c) \in Seq(Clients)
        /\ Len(backlog) \in Nat /\ Len(Append(backlog, c)) = Len(backlog) + 1
        /\ \A i \in 1..Len(backlog) :
             backlog[i] \in Clients /\ Append(backlog, c)[i] = backlog[i]
        /\ Append(backlog, c)[Len(backlog) + 1] = c
    BY <2>1, Queue
  <2>3. /\ DOMAIN backlog = 1..Len(backlog)
        /\ DOMAIN Append(backlog, c) = 1..(Len(backlog) + 1)
    BY <2>1, <2>2, LenProperties
  <2>4. QED
    BY <1>1, <2>2, <2>3
<1>4. TypeOK'
  BY <1>1, <1>2, <1>3 DEF IInv, TypeOK, serverVars, mainVars, historyVars,
     PacketLen
<1>5. connfd \in Clients \cup {NoClient} /\ connfd # c
  BY <1>1, MessageFacts DEF IInv, TypeOK, AcceptedOnce, Serving
<1>6. AcceptedOnce'
  <2>1. ASSUME NEW i \in DOMAIN backlog
        PROVE  /\ client'[backlog[i]] # "new" /\ backlog[i] # c
               /\ backlog[i] # connfd /\ Run(backlog[i]) = {}
               /\ \A j \in DOMAIN backlog : backlog[i] = backlog[j] => i = j
    BY <1>1, <1>2, <1>3 DEF IInv, AcceptedOnce
  <2>2. Run(c) = {}
    BY <1>1 DEF IInv, AcceptedOnce
  <2>3. executed' = executed /\ connfd' = connfd
    BY <1>1 DEF serverVars, historyVars
  <2>4. \A d \in Clients : Run(d)' = Run(d)
    BY <2>3 DEF Run
  <2>5. \A d \in Clients : client'[d] = "new" => Run(d)' = {}
    BY <1>2, <2>4 DEF IInv, AcceptedOnce
  <2>6. ASSUME NEW i \in DOMAIN backlog'
        PROVE  /\ client'[backlog'[i]] # "new" /\ backlog'[i] # connfd'
               /\ Run(backlog[i])' = {}
               /\ \A j \in DOMAIN backlog' : backlog'[i] = backlog'[j] => i = j
    <3>1. CASE i \in DOMAIN backlog
      <4>1. backlog'[i] = backlog[i]
        BY <1>3, <3>1
      <4>2. /\ client'[backlog[i]] # "new" /\ backlog[i] # c
            /\ backlog[i] # connfd /\ Run(backlog[i]) = {}
            /\ \A j \in DOMAIN backlog : backlog[i] = backlog[j] => i = j
        BY <2>1, <3>1
      <4>3. Run(backlog[i])' = {}
        BY <2>3, <4>1, <4>2 DEF Run
      <4>4. \A j \in DOMAIN backlog' :
              j \in DOMAIN backlog \/ j = Len(backlog) + 1
        BY <1>3
      <4>5. QED
        BY <1>3, <2>3, <4>1, <4>2, <4>3, <4>4
    <3>2. CASE i = Len(backlog) + 1
      <4>1. backlog'[i] = c
        BY <1>3, <3>2
      <4>2. \A j \in DOMAIN backlog : backlog'[j] # c
        BY <1>3, <2>1
      <4>3. Run(backlog[i])' = {}
        BY <2>2, <2>3, <4>1 DEF Run
      <4>4. QED
        BY <1>2, <1>3, <1>5, <2>3, <3>2, <4>1, <4>2, <4>3
    <3>3. QED
      BY <1>3, <3>1, <3>2
  <2>7. Serving' => client'[connfd'] # "new"
    BY <1>2, <1>5, <2>3 DEF IInv, AcceptedOnce, Serving
  <2>8. QED
    BY <2>5, <2>6, <2>7 DEF AcceptedOnce
<1>7. ReadInv' /\ MessageIntact'
  BY <1>1, <1>2, <1>5 DEF IInv, ReadInv, MessageIntact, Serving, Held, Commands,
     PacketLen, serverVars
<1>8. QED
  BY <1>1, <1>4, <1>6, <1>7, RunKept DEF IInv, serverVars, historyVars

LEMMA WriteInv ==
  ASSUME IInv, NEW c \in Clients, Write(c)
  PROVE  IInv'
<1>1. PICK n \in 1..(PacketLen(c) - written[c]) :
        written' = [written EXCEPT ![c] = @ + n]
  BY DEF Write
<1>2. /\ client[c] = "open"
      /\ UNCHANGED <<client, reset, backlog, serverVars, mainVars, historyVars>>
  BY DEF Write
<1>3. /\ written[c] \in Nat /\ PacketLen(c) \in Nat
      /\ written' \in [Clients -> Nat]
      /\ written'[c] = written[c] + n /\ written'[c] <= PacketLen(c)
      /\ \A d \in Clients : d # c => written'[d] = written[d]
  BY <1>1, MessageFacts DEF IInv, TypeOK
<1>4. TypeOK'
  BY <1>2, <1>3 DEF IInv, TypeOK, serverVars, mainVars, historyVars, PacketLen
<1>5. UNCHANGED <<client, backlog, connfd, idx, executed>>
  BY <1>2 DEF serverVars, historyVars
<1>6. ReadInv' /\ MessageIntact'
  <2>1. connfd \in Clients \cup {NoClient}
    BY DEF IInv, TypeOK
  <2>2. ASSUME Serving PROVE written[connfd] <= written'[connfd]
    <3>1. connfd \in Clients /\ written[connfd] \in Nat
      BY <2>1, <2>2 DEF Serving, IInv, TypeOK
    <3>2. CASE connfd = c
      BY <1>3, <3>2
    <3>3. CASE connfd # c
      BY <1>3, <3>1, <3>3
    <3>4. QED
      BY <3>2, <3>3
  <2>3. connfd = c => ~Held
    BY <1>2 DEF Held
  <2>4. ReadInv'
    BY <1>2, <1>3, <2>1, <2>2, <2>3, SMTT(30) DEF IInv, TypeOK, ReadInv,
       Serving, Held, Commands, PacketLen, serverVars
  <2>5. MessageIntact'
    <3> SUFFICES ASSUME server_pc = "callback" PROVE MessageIntact'
      BY <1>2 DEF MessageIntact, serverVars
    <3>1. /\ connfd \in Clients /\ connfd' = connfd
          /\ got' = got /\ len' = len /\ client' = client
      BY <1>2, <2>1 DEF IInv, ReadInv, Serving, serverVars
    <3>2. \/ got = PacketLen(connfd) /\ written[connfd] = PacketLen(connfd)
          \/ got \in {0, 2} /\ len = CounterMax /\ client[connfd] = "closed"
      BY DEF IInv, MessageIntact
    <3>3. ASSUME written[connfd] = PacketLen(connfd)
          PROVE  written'[connfd] = PacketLen(connfd)
      <4>1. CASE connfd = c
        BY <1>3, <3>3, <4>1
      <4>2. CASE connfd # c
        BY <1>3, <3>1, <3>3, <4>2
      <4>3. QED
        BY <4>1, <4>2
    <3>4. QED
      BY <3>1, <3>2, <3>3 DEF MessageIntact, PacketLen
  <2>6. QED
    BY <2>4, <2>5
<1>7. QED
  BY <1>4, <1>5, <1>6, RunKept, OnceKept DEF IInv

-----------------------------------------------------------------------------
(* The server thread.                                                       *)

LEMMA StartServerInv == IInv /\ StartServer => IInv'
<1> SUFFICES ASSUME IInv, StartServer PROVE IInv'
  OBVIOUS
<1>1. /\ server_pc = "start"
      /\ UNCHANGED <<clientVars, backlog, connfd, got, len, idx, historyVars>>
  BY DEF StartServer
<1>2. CASE server_pc' \in {"check", "ended"} /\ UNCHANGED mainVars
  <2>1. TypeOK'
    BY <1>1, <1>2 DEF IInv, TypeOK, clientVars, mainVars, historyVars, PacketLen
  <2>2. ReadInv' /\ MessageIntact'
    BY <1>1, <1>2 DEF IInv, ReadInv, MessageIntact, Serving, clientVars
  <2>3. QED
    BY <1>1, <2>1, <2>2, RunKept, OnceKept DEF IInv, clientVars, historyVars
<1>3. CASE main_pc' = "exited" /\ UNCHANGED <<server_pc, g_stop_server>>
  <2>1. UNCHANGED <<clientVars, backlog, serverVars, executed>>
    BY <1>1, <1>3 DEF serverVars, historyVars
  <2>2. g_stop_server' \in BOOLEAN /\ late_command' \in BOOLEAN
    BY <1>1, <1>3 DEF IInv, TypeOK, historyVars
  <2>3. QED
    BY <1>3, <2>1, <2>2, MainInv
<1>4. QED
  BY <1>2, <1>3 DEF StartServer

LEMMA CheckStopInv == IInv /\ CheckStop => IInv'
<1> SUFFICES ASSUME IInv, CheckStop PROVE IInv'
  OBVIOUS
<1>1. /\ server_pc = "check"
      /\ UNCHANGED <<written, reset, connfd, got, len, idx, mainVars,
                     historyVars>>
  BY DEF CheckStop
<1>2. ReadInv' /\ MessageIntact'
  BY <1>1 DEF CheckStop, IInv, ReadInv, MessageIntact, Serving
<1>3. CASE g_stop_server
  <2>1. /\ server_pc' = "ended" /\ backlog' = <<>>
        /\ client' = [c \in Clients |->
              IF \E i \in DOMAIN backlog : backlog[i] = c THEN "closed"
                                                          ELSE client[c]]
    BY <1>3 DEF CheckStop
  <2>2. /\ client' \in [Clients -> {"new", "open", "closed"}]
        /\ \A c \in Clients : client'[c] \in {client[c], "closed"}
    BY <2>1 DEF IInv, TypeOK
  <2>3. backlog' \in Seq(Clients) /\ DOMAIN backlog' = {}
    BY <2>1, EmptySeq
  <2>4. TypeOK'
    BY <1>1, <2>1, <2>2, <2>3 DEF IInv, TypeOK, mainVars, historyVars, PacketLen
  <2>5. AcceptedOnce'
    BY <1>1, <1>2, <2>1, <2>2, <2>3
    DEF IInv, ReadInv, AcceptedOnce, Serving, Run, historyVars
  <2>6. QED
    BY <1>1, <1>2, <2>4, <2>5, RunKept DEF IInv, historyVars
<1>4. CASE ~g_stop_server
  <2>1. server_pc' = "accept" /\ UNCHANGED <<backlog, client>>
    BY <1>4 DEF CheckStop
  <2>2. TypeOK'
    BY <1>1, <2>1 DEF IInv, TypeOK, mainVars, historyVars, PacketLen
  <2>3. QED
    BY <1>1, <1>2, <2>1, <2>2, RunKept, OnceKept DEF IInv, historyVars
<1>5. QED
  BY <1>3, <1>4

LEMMA AcceptInv == IInv /\ Accept => IInv'
<1> SUFFICES ASSUME IInv, Accept PROVE IInv'
  OBVIOUS
<1> DEFINE c == Head(backlog)
<1>1. /\ server_pc = "accept" /\ server_pc' = "read_len"
      /\ backlog # <<>> /\ connfd' = c /\ backlog' = Tail(backlog)
      /\ got' = 0 /\ len' = 0 /\ idx' = 0
      /\ UNCHANGED <<clientVars, mainVars, historyVars>>
  BY DEF Accept
<1>2. /\ c \in Clients /\ c = backlog[1] /\ Len(backlog) \in Nat \ {0}
      /\ DOMAIN backlog = 1..Len(backlog)
      /\ backlog' \in Seq(Clients) /\ DOMAIN backlog' = 1..(Len(backlog) - 1)
      /\ \A i \in DOMAIN backlog' : backlog'[i] = backlog[i + 1]
  BY <1>1, Queue DEF IInv, TypeOK
<1> HIDE DEF c
<1>3. client[c] # "new" /\ Run(c) = {}
  BY <1>2 DEF IInv, AcceptedOnce
<1>4. TypeOK'
  BY <1>1, <1>2, SMTT(30) DEF IInv, TypeOK, clientVars, mainVars, historyVars,
     PacketLen
<1>5. ReadInv' /\ MessageIntact'
  <2>1. written'[connfd'] \in Nat /\ connfd' # NoClient
    BY <1>1, <1>2, MessageFacts DEF IInv, TypeOK, clientVars
  <2>2. QED
    BY <1>1, <2>1 DEF ReadInv, MessageIntact, Serving
<1>6. AcceptedOnce'
  <2>1. executed' = executed /\ client' = client
    BY <1>1 DEF clientVars, historyVars
  <2>2. ASSUME NEW i \in DOMAIN backlog'
        PROVE  /\ client'[backlog'[i]] # "new" /\ backlog'[i] # c
               /\ Run(backlog[i])' = {}
               /\ \A j \in DOMAIN backlog' : backlog'[i] = backlog'[j] => i = j
    <3>1. i + 1 \in DOMAIN backlog /\ 1 \in DOMAIN backlog /\ i + 1 # 1
      BY <1>2, SMTT(30)
    <3>2. /\ client[backlog[i + 1]] # "new" /\ Run(backlog[i + 1]) = {}
          /\ backlog[i + 1] # backlog[1]
      BY <3>1 DEF IInv, AcceptedOnce
    <3>3. Run(backlog[i])' = {}
      BY <1>2, <2>1, <3>2 DEF Run
    <3>4. ASSUME NEW j \in DOMAIN backlog', backlog'[i] = backlog'[j]
          PROVE  i = j
      <4>1. backlog'[i] = backlog[i + 1] /\ backlog'[j] = backlog[j + 1]
        BY <1>2
      <4>2. j + 1 \in DOMAIN backlog
        BY <1>2, SMTT(30)
      <4>3. i + 1 = j + 1
        BY <3>1, <3>4, <4>1, <4>2 DEF IInv, AcceptedOnce
      <4>4. QED
        BY <1>2, <4>3
    <3>5. QED
      BY <1>2, <2>1, <3>2, <3>3, <3>4
  <2>3. QED
    BY <1>1, <1>3, <2>1, <2>2 DEF IInv, AcceptedOnce, Serving, Run
<1>7. RunInv'
  <2>1. Done' = {}
    <3>1. \A i \in Known(c) : ~(i < 1)
      BY <1>2, KnownFacts, MessageFacts
    <3>2. QED
      BY <1>1, <3>1 DEF Done, Before
  <2>2. Cardinality(Done)' = 0
    BY <2>1, FS_EmptySet
  <2>3. Len(executed) \in Nat /\ executed' = executed
    BY <1>1, Queue DEF IInv, TypeOK, historyVars
  <2>4. UpTo(executed', Len(executed'), 0) = {}
    BY <2>3 DEF UpTo
  <2>5. Run(connfd)' = {}
    BY <1>1, <1>3, <2>3 DEF Run
  <2>6. QED
    BY <2>1, <2>2, <2>3, <2>4, <2>5 DEF RunInv
<1>8. CommandsInOrder'
  <2>1. executed' = executed
    BY <1>1 DEF historyVars
  <2>2. QED
    BY <2>1 DEF IInv, CommandsInOrder
<1>9. QED
  BY <1>4, <1>5, <1>6, <1>7, <1>8 DEF IInv

LEMMA AcceptNothingInv == IInv /\ AcceptNothing => IInv'
<1> SUFFICES ASSUME IInv, AcceptNothing PROVE IInv'
  OBVIOUS
<1>1. /\ server_pc = "accept" /\ server_pc' = "check"
      /\ UNCHANGED <<clientVars, backlog, connfd, got, len, idx, mainVars,
                     historyVars>>
  BY DEF AcceptNothing
<1>2. TypeOK'
  BY <1>1 DEF IInv, TypeOK, clientVars, mainVars, historyVars, PacketLen
<1>3. ReadInv' /\ MessageIntact'
  BY <1>1 DEF IInv, ReadInv, MessageIntact, Serving
<1>4. QED
  BY <1>1, <1>2, <1>3, RunKept, OnceKept DEF IInv, clientVars, historyVars

\* While a message is read nothing is run.
LEMMA ReadingKept ==
  ASSUME IInv,
         UNCHANGED <<clientVars, backlog, connfd, idx, mainVars, historyVars>>,
         server_pc' \in {"read_len", "read_msg", "callback"},
         got' \in Nat, len' \in 0..CounterMax
  PROVE  TypeOK' /\ AcceptedOnce' /\ RunInv' /\ CommandsInOrder'
<1>1. TypeOK'
  BY DEF IInv, TypeOK, clientVars, mainVars, historyVars, PacketLen
<1>2. QED
  BY <1>1, RunKept, OnceKept DEF IInv, clientVars, historyVars

\* The client that is served, and what is known of it.
LEMMA ServedFacts ==
  ASSUME IInv, server_pc \in {"read_len", "read_msg", "callback"}
  PROVE  /\ connfd \in Clients /\ Serving
         /\ got \in Nat /\ len \in 0..CounterMax
         /\ written[connfd] \in Nat /\ got <= written[connfd]
         /\ written[connfd] <= PacketLen(connfd)
         /\ Commands \in Seq({"known", "skipped"})
<1>1. /\ connfd \in Clients /\ Serving /\ got <= written[connfd]
      /\ got \in Nat /\ len \in 0..CounterMax
  BY DEF IInv, ReadInv, Serving, TypeOK
<1>2. written[connfd] \in Nat /\ written[connfd] <= PacketLen(connfd)
  BY <1>1 DEF IInv, TypeOK
<1>3. Commands \in Seq({"known", "skipped"})
  BY <1>1, MessageFacts, EmptySeq DEF Commands
<1>4. QED
  BY <1>1, <1>2, <1>3

LEMMA ReadLenInv == IInv /\ ReadLen => IInv'
<1> SUFFICES ASSUME IInv, ReadLen PROVE IInv'
  OBVIOUS
<1> DEFINE next == IF Message[connfd].len = 0 THEN "callback" ELSE "read_msg"
<1>1. /\ server_pc = "read_len"
      /\ UNCHANGED <<clientVars, backlog, connfd, idx, mainVars, historyVars>>
  BY DEF ReadLen, ServerReads
<1>2. PICK n \in 1..(written[connfd] - got) :
        /\ got' = got + n
        /\ \/ len + n < 2 /\ len' = len + n /\ UNCHANGED server_pc
           \/ len + n = 2 /\ len' = 0 /\ server_pc' = next
  BY DEF ReadLen, ServerReads
<1>3. got = len /\ got' \in Nat /\ got' <= written[connfd] /\ idx = 0
  BY <1>1, <1>2, ServedFacts DEF IInv, ReadInv, Held
<1>4. len' \in 0..CounterMax
  BY <1>1, <1>2, ServedFacts
<1>5. TypeOK' /\ AcceptedOnce' /\ RunInv' /\ CommandsInOrder'
  BY <1>1, <1>2, <1>3, <1>4, ReadingKept
<1>6. written' = written /\ connfd' = connfd /\ idx' = 0
  BY <1>1, <1>3 DEF clientVars
<1>7. /\ connfd' \in Clients /\ Serving' /\ got' <= written'[connfd']
      /\ written'[connfd'] <= PacketLen(connfd')
      /\ PacketLen(connfd') = 2 + Message[connfd'].len
      /\ Message[connfd'].len \in Nat /\ 0 <= Len(Commands')
  <2>1. /\ connfd \in Clients /\ written[connfd] <= PacketLen(connfd)
        /\ Message[connfd].commands \in Seq({"known", "skipped"})
    BY <1>1, ServedFacts, MessageFacts
  <2>2. Commands' \in Seq({"known", "skipped"})
    BY <1>6, <2>1, EmptySeq DEF Commands
  <2>3. QED
    BY <1>3, <1>6, <2>1, <2>2, MessageFacts, Queue DEF Serving
<1>8. CASE len + n < 2
  <2>1. got' = len' /\ len' < 2 /\ server_pc' = "read_len"
    BY <1>1, <1>2, <1>3, <1>8, ServedFacts
  <2>2. QED
    BY <1>5, <1>6, <1>7, <2>1 DEF IInv, ReadInv, MessageIntact
<1>9. CASE len + n = 2
  <2>1. got' = 2 /\ len' = 0 /\ server_pc' = next
    BY <1>1, <1>2, <1>3, <1>9, ServedFacts
  <2>2. CASE Message[connfd].len = 0
    BY <1>5, <1>6, <1>7, <2>1, <2>2 DEF IInv, ReadInv, MessageIntact, TypeOK
  <2>3. CASE Message[connfd].len # 0
    BY <1>5, <1>6, <1>7, <2>1, <2>3 DEF IInv, ReadInv, MessageIntact
  <2>4. QED
    BY <2>2, <2>3
<1>10. QED
  BY <1>2, <1>8, <1>9

LEMMA ReadMsgInv == IInv /\ ReadMsg => IInv'
<1> SUFFICES ASSUME IInv, ReadMsg PROVE IInv'
  OBVIOUS
<1> DEFINE body == Message[connfd].len
<1>1. /\ server_pc = "read_msg"
      /\ UNCHANGED <<clientVars, backlog, connfd, idx, mainVars, historyVars>>
  BY DEF ReadMsg, ServerReads
<1>2. PICK n \in 1..(written[connfd] - got) :
        /\ got' = got + n
        /\ \/ len + n < body /\ len' = len + n /\ UNCHANGED server_pc
           \/ len + n = body /\ len' = 0 /\ server_pc' = "callback"
  BY DEF ReadMsg, ServerReads
<1>3. /\ got = 2 + len /\ got' \in Nat /\ got' <= written[connfd]
      /\ idx = 0
  BY <1>1, <1>2, ServedFacts, SMTT(30) DEF IInv, ReadInv, Held
<1>4. body \in Nat /\ body <= CounterMax
  BY <1>1, ServedFacts, MessageFacts
<1>5. len' \in 0..CounterMax
  BY <1>1, <1>2, <1>4, ServedFacts
<1>6. TypeOK' /\ AcceptedOnce' /\ RunInv' /\ CommandsInOrder'
  BY <1>1, <1>2, <1>3, <1>5, ReadingKept
<1>7. written' = written /\ connfd' = connfd /\ idx' = 0
  BY <1>1, <1>3 DEF clientVars
<1>8. /\ connfd' \in Clients /\ Serving' /\ got' <= written'[connfd']
      /\ written'[connfd'] <= PacketLen(connfd')
      /\ PacketLen(connfd') = 2 + Message[connfd'].len
      /\ 0 <= Len(Commands')
  <2>1. /\ connfd \in Clients /\ written[connfd] <= PacketLen(connfd)
        /\ Message[connfd].commands \in Seq({"known", "skipped"})
    BY <1>1, ServedFacts, MessageFacts
  <2>2. Commands' \in Seq({"known", "skipped"})
    BY <1>7, <2>1, EmptySeq DEF Commands
  <2>3. QED
    BY <1>3, <1>7, <2>1, <2>2, MessageFacts, Queue DEF Serving
<1>9. CASE len + n < body
  <2>1. got' = 2 + len' /\ len' < body /\ server_pc' = "read_msg"
    BY <1>1, <1>2, <1>3, <1>9, ServedFacts
  <2>2. QED
    BY <1>6, <1>7, <1>8, <2>1 DEF IInv, ReadInv, MessageIntact
<1>10. CASE len + n = body
  <2>1. got' = 2 + body /\ server_pc' = "callback"
    BY <1>1, <1>2, <1>3, <1>10, ServedFacts
  <2>2. written'[connfd'] = PacketLen(connfd')
    BY <1>4, <1>7, <1>8, <2>1 DEF TypeOK, IInv
  <2>3. QED
    BY <1>6, <1>7, <1>8, <2>1, <2>2 DEF IInv, ReadInv, MessageIntact
<1>11. QED
  BY <1>2, <1>9, <1>10

LEMMA ReadFailsInv == IInv /\ ReadFails => IInv'
<1> SUFFICES ASSUME IInv, ReadFails PROVE IInv'
  OBVIOUS
<1>1. /\ server_pc \in {"read_len", "read_msg"}
      /\ connfd \in reset /\ got = written[connfd]
      /\ reset' = reset \ {connfd}
      /\ server_pc' = IF len' = CounterMax THEN "callback" ELSE server_pc
      /\ UNCHANGED <<client, written, backlog, connfd, got, idx, mainVars,
                     historyVars>>
  BY DEF ReadFails
<1>2. len' = IF len = 0 THEN CounterMax ELSE len - 1
  BY <1>1, ServedFacts, Decrement DEF ReadFails
<1>3. len' \in 0..CounterMax /\ (len' = CounterMax <=> len = 0)
  BY <1>1, <1>2, ServedFacts
<1>4. /\ connfd' = connfd /\ got' = got /\ written' = written
      /\ client' = client /\ client[connfd] = "closed" /\ connfd \notin reset'
      /\ idx' = 0
  BY <1>1 DEF IInv, TypeOK, ReadInv
<1>5. TypeOK'
  BY <1>1, <1>3 DEF IInv, TypeOK, mainVars, historyVars, PacketLen
<1>6. /\ server_pc = "read_len" => got = len /\ len < 2
      /\ server_pc = "read_msg" => got = 2 + len /\ len < Message[connfd].len
  BY <1>1 DEF IInv, ReadInv, Held
<1>7. /\ connfd \in Clients /\ Serving' /\ got <= written[connfd]
      /\ PacketLen(connfd) = 2 + Message[connfd].len
      /\ Message[connfd].len \in Nat /\ got \in Nat /\ len \in Nat
      /\ 0 <= Len(Commands')
  <2>1. /\ connfd \in Clients
        /\ Message[connfd].commands \in Seq({"known", "skipped"})
    BY <1>1, ServedFacts, MessageFacts
  <2>2. Commands' \in Seq({"known", "skipped"})
    BY <1>4, <2>1, EmptySeq DEF Commands
  <2>3. QED
    BY <1>1, <1>4, <2>2, ServedFacts, MessageFacts, Queue DEF Serving
<1>8. got < PacketLen(connfd)
  BY <1>1, <1>6, <1>7
<1>9. ASSUME len = 0 PROVE ReadInv' /\ MessageIntact'
  <2>1. server_pc' = "callback" /\ len' = CounterMax /\ got \in {0, 2}
    BY <1>1, <1>3, <1>6, <1>9
  <2>2. QED
    BY <1>4, <1>7, <2>1 DEF ReadInv, MessageIntact
<1>10. ASSUME len # 0 PROVE ReadInv' /\ MessageIntact'
  <2>1. server_pc' = server_pc
    BY <1>1, <1>3, <1>10
  <2>2. Held'
    BY <1>1, <1>4, <1>8, <2>1 DEF Held, PacketLen
  <2>3. QED
    BY <1>1, <1>4, <1>7, <2>1, <2>2 DEF ReadInv, MessageIntact
<1>11. ReadInv' /\ MessageIntact'
  BY <1>9, <1>10
<1>12. QED
  BY <1>1, <1>5, <1>11, RunKept, OnceKept DEF IInv, historyVars

\* The elements up to a place, when one is appended behind them.
GrowsBy(t, s, e) ==
  /\ \A n \in 0..Len(s), k \in 0..Len(s) :
       k <= n => UpTo(t, n, k) = UpTo(s, n, k)
  /\ \A k \in 0..Len(s) :
       UpTo(t, Len(s) + 1, k + 1) = UpTo(s, Len(s), k) \cup {e}

LEMMA UpToAppend ==
  ASSUME NEW s \in Seq(Clients \X Nat), NEW e \in Clients \X Nat
  PROVE  GrowsBy(Append(s, e), s, e)
<1> DEFINE t == Append(s, e)
           l == Len(s)
<1>1. /\ l \in Nat /\ t[l + 1] = e
      /\ \A i \in 1..l : t[i] = s[i]
  BY Queue
<1> HIDE DEF t, l
<1>2. ASSUME NEW n \in 0..l, NEW k \in 0..l, k <= n
      PROVE  UpTo(t, n, k) = UpTo(s, n, k)
  <2>1. \A m \in (n - k + 1)..n : t[m] = s[m]
    BY <1>1, <1>2
  <2>2. ASSUME NEW x PROVE x \in UpTo(t, n, k) <=> x \in UpTo(s, n, k)
    <3>1. /\ x \in UpTo(t, n, k) <=> \E m \in (n - k + 1)..n : x = t[m]
          /\ x \in UpTo(s, n, k) <=> \E m \in (n - k + 1)..n : x = s[m]
      BY Zenon DEF UpTo
    <3>2. QED
      BY <2>1, <3>1, Zenon
  <2>3. QED
    BY <2>2, Zenon
<1>3. ASSUME NEW k \in 0..l, NEW l1, NEW k1, l1 = l + 1, k1 = k + 1
      PROVE  UpTo(t, l1, k1) = UpTo(s, l, k) \cup {e}
  <2>1. \A m \in (l - k + 1)..l : t[m] = s[m]
    BY <1>1
  <2>2. (l1 - k1 + 1)..l1 = ((l - k + 1)..l) \cup {l1}
    BY <1>1, <1>3
  <2>3. t[l1] = e
    BY <1>1, <1>3
  <2>4. ASSUME NEW x PROVE x \in UpTo(t, l1, k1) <=> x \in UpTo(s, l, k) \/ x = e
    <3>1. /\ x \in UpTo(t, l1, k1) <=> \E m \in (l1 - k1 + 1)..l1 : x = t[m]
          /\ x \in UpTo(s, l, k) <=> \E m \in (l - k + 1)..l : x = s[m]
      BY Zenon DEF UpTo
    <3>2. x \in UpTo(t, l1, k1)
            <=> (\E m \in (l - k + 1)..l : x = t[m]) \/ x = t[l1]
      BY <2>2, <3>1, Zenon
    <3>3. QED
      BY <2>1, <2>3, <3>1, <3>2, Zenon
  <2>5. QED
    BY <2>4, Zenon
<1>4. QED
  BY <1>2, <1>3 DEF t, l, GrowsBy

\* A step of the callback: the next element of the message.
LEMMA HandleCommandInv == IInv /\ HandleCommand => IInv'
<1> SUFFICES ASSUME IInv, HandleCommand PROVE IInv'
  OBVIOUS
<1> DEFINE i == idx + 1
           e == <<connfd, i>>
<1>1. /\ server_pc = "callback" /\ idx < Len(Commands) /\ idx' = i
      /\ UNCHANGED <<clientVars, backlog, server_pc, connfd, got, len, mainVars>>
  BY DEF HandleCommand
<1>2. /\ connfd \in Clients /\ Serving /\ idx \in Nat /\ i \in Nat
      /\ executed \in Seq(Clients \X Nat) /\ e \in Clients \X Nat
      /\ Len(executed) \in Nat
  BY <1>1, ServedFacts, Queue DEF IInv, TypeOK
<1>3. Commands = Message[connfd].commands /\ i \in 1..Len(Commands)
  <2>1. Len(<<>>) = 0
    BY EmptySeq
  <2>2. Commands = Message[connfd].commands
    BY <1>1, <1>2, <2>1 DEF Commands
  <2>3. Len(Commands) \in Nat
    BY <1>1, ServedFacts, Queue
  <2>4. QED
    BY <1>1, <1>2, <2>2, <2>3
<1>4. i \in Known(connfd) <=> Commands[i] = "known"
  BY <1>2, <1>3, MessageFacts DEF Known
<1>5. ReadInv' /\ MessageIntact'
  <2>1. Commands' = Commands
    BY <1>1 DEF Commands, PacketLen, clientVars
  <2>2. i <= Len(Commands)
    BY <1>1, <1>2, <1>3
  <2>3. QED
    BY <1>1, <2>1, <2>2 DEF IInv, ReadInv, MessageIntact, Serving, PacketLen,
       clientVars
<1>6. /\ \A c \in Clients, n \in Nat :
           IsFiniteSet(Before(c, n)) /\ Cardinality(Before(c, n)) \in Nat
      /\ \A j \in Known(connfd) : j \in Nat
  <2>1. ASSUME NEW c \in Clients, NEW n \in Nat
        PROVE  IsFiniteSet(Before(c, n)) /\ Cardinality(Before(c, n)) \in Nat
    <3>1. Before(c, n) \subseteq Known(c)
      BY DEF Before
    <3>2. QED
      BY <3>1, KnownFacts, FS_Subset, FS_CardinalityType
  <2>2. \A j \in Known(connfd) : j \in Nat
    BY <1>2, KnownFacts
  <2>3. QED
    BY <2>1, <2>2
<1>7. CASE Commands[i] # "known"
  <2>1. UNCHANGED historyVars
    BY <1>7 DEF HandleCommand
  <2>2. TypeOK'
    BY <1>1, <1>2, <2>1 DEF IInv, TypeOK, clientVars, mainVars, historyVars,
       PacketLen
  <2>3. Done' = Done
    BY <1>1, <1>2, <1>4, <1>6, <1>7 DEF Done, Before
  <2>4. /\ connfd' = connfd /\ executed' = executed
        /\ Cardinality(Done)' = Cardinality(Done)
    BY <1>1, <2>1, <2>3 DEF historyVars
  <2>5. \A n \in Run(connfd) : executed[n][2] <= idx'
    <3>1. ASSUME NEW n \in Run(connfd) PROVE executed[n][2] <= idx'
      <4>1. executed[n] \in Clients \X Nat /\ executed[n][2] <= idx
        BY <1>2, Queue DEF Run, IInv, RunInv
      <4>2. QED
        BY <1>1, <1>2, <4>1
    <3>2. QED
      BY <3>1
  <2>6. RunInv'
    BY <1>2, <2>3, <2>4, <2>5 DEF IInv, RunInv, Run, Serving
  <2>7. CommandsInOrder'
    BY <2>4 DEF IInv, CommandsInOrder
  <2>8. QED
    BY <1>1, <1>5, <2>1, <2>2, <2>6, <2>7, OnceKept DEF IInv, clientVars,
       historyVars
<1>8. CASE Commands[i] = "known"
  <2> DEFINE n == Len(executed)
             k == Cardinality(Done)
  <2>1. /\ executed' = Append(executed, e)
        /\ late_command' = (late_command \/ main_pc = "released")
    BY <1>8 DEF HandleCommand
  <2>2. /\ executed' \in Seq(Clients \X Nat)
        /\ DOMAIN executed = 1..n /\ DOMAIN executed' = 1..(n + 1)
        /\ Len(executed') = n + 1 /\ executed'[n + 1] = e
        /\ \A m \in 1..n : executed'[m] = executed[m]
        /\ \A m \in 1..n : executed[m] \in Clients \X Nat
    BY <1>2, <2>1, Queue
  <2>3. TypeOK'
    <3>1. late_command' \in BOOLEAN
      BY <2>1, Zenon
    <3>2. QED
      BY <1>1, <1>2, <2>2, <3>1 DEF IInv, TypeOK, clientVars, mainVars, PacketLen
  <2>4. /\ k \in Nat /\ k <= n /\ IsFiniteSet(Done)
        /\ UpTo(executed, n, k) = {connfd} \X Done
        /\ \A m \in Run(connfd) : executed[m][2] <= idx
    BY <1>2, <1>6 DEF IInv, RunInv, Done
  <2>5. /\ UpTo(executed', n, k) = {connfd} \X Done
        /\ UpTo(executed', n + 1, k + 1) = ({connfd} \X Done) \cup {e}
        /\ \A m \in 0..n, j \in 0..n :
             j <= m => UpTo(executed', m, j) = UpTo(executed, m, j)
    <3>1. /\ \A m \in 0..n, j \in 0..n :
               j <= m => UpTo(executed', m, j) = UpTo(executed, m, j)
          /\ \A j \in 0..n :
               UpTo(executed', n + 1, j + 1) = UpTo(executed, n, j) \cup {e}
      <4> HIDE DEF e
      <4>1. executed \in Seq(Clients \X Nat) /\ e \in Clients \X Nat
        BY <1>2
      <4>2. GrowsBy(executed', executed, e)
        BY <2>1, <4>1, UpToAppend
      <4>3. QED
        BY <4>2 DEF GrowsBy
    <3>2. k \in 0..n /\ n \in 0..n
      BY <1>2, <2>4
    <3>3. QED
      BY <2>4, <3>1, <3>2
  <2>6. Done' = Done \cup {i} /\ i \notin Done /\ Done = Before(connfd, i)
    BY <1>1, <1>2, <1>4, <1>6, <1>8 DEF Done, Before
  <2>7. Cardinality(Done)' = k + 1
    BY <2>4, <2>6, FS_AddElement
  <2>8. RunInv'
    <3>1. UpTo(executed, Len(executed), Cardinality(Done))' = ({connfd} \X Done)'
      <4>1. ({connfd} \X Done)' = ({connfd} \X Done) \cup {e}
        BY <1>1, <2>6
      <4>2. QED
        BY <2>2, <2>5, <2>7, <4>1
    <3>2. \A m \in Run(connfd)' : executed'[m][2] <= idx'
      <4>1. ASSUME NEW m \in Run(connfd)' PROVE executed'[m][2] <= idx'
        <5>1. m \in 1..(n + 1) /\ executed'[m][1] = connfd
          BY <1>1, <2>2 DEF Run
        <5>2. CASE m = n + 1
          BY <1>1, <1>2, <2>2, <5>2
        <5>3. CASE m \in 1..n
          <6>1. m \in Run(connfd) /\ executed[m] \in Clients \X Nat
            BY <2>2, <5>1, <5>3 DEF Run
          <6>2. executed[m][2] <= idx
            BY <2>4, <6>1
          <6>3. QED
            BY <1>1, <1>2, <2>2, <5>3, <6>1, <6>2
        <5>4. QED
          BY <1>2, <5>1, <5>2, <5>3
      <4>2. QED
        BY <4>1
    <3>3. QED
      BY <2>2, <2>4, <2>7, <3>1, <3>2 DEF RunInv
  <2>9. CommandsInOrder'
    <3> DEFINE InOrderAt(m) ==
          LET c == executed'[m][1]
              j == executed'[m][2]
              b == Cardinality(Before(c, j))
          IN /\ j \in Known(c)
             /\ \A l \in 1..(m - 1) : executed'[l] # <<c, j>>
             /\ m > b
             /\ UpTo(executed', m - 1, b) = {c} \X Before(c, j)
    <3>1. ASSUME NEW m \in 1..n PROVE InOrderAt(m)
      <4>1. /\ executed'[m] = executed[m]
            /\ \A l \in 1..(m - 1) : executed'[l] = executed[l]
        BY <1>2, <2>2
      <4>2. executed[m][1] \in Clients /\ executed[m][2] \in Nat
        BY <2>2
      <4> DEFINE c == executed[m][1]
                 j == executed[m][2]
                 b == Cardinality(Before(c, j))
      <4>3. /\ j \in Known(c) /\ m > b
            /\ \A l \in 1..(m - 1) : executed[l] # <<c, j>>
            /\ UpTo(executed, m - 1, b) = {c} \X Before(c, j)
        BY <2>2 DEF IInv, CommandsInOrder
      <4>4. b \in Nat
        BY <1>6, <4>2
      <4> HIDE DEF b
      <4>5. UpTo(executed', m - 1, b) = UpTo(executed, m - 1, b)
        <5>1. m - 1 \in 0..n /\ b \in 0..n /\ b <= m - 1
          BY <1>2, <4>3, <4>4, SMTT(30)
        <5>2. QED
          BY <2>5, <5>1
      <4>6. QED
        BY <4>1, <4>3, <4>5 DEF b
    <3>2. InOrderAt(n + 1)
      <4>1. e[1] = connfd /\ e[2] = i
        OBVIOUS
      <4>2. ASSUME NEW l \in 1..n PROVE executed'[l] # e
        <5>1. CASE executed[l][1] = connfd
          <6>1. l \in Run(connfd) /\ executed[l] \in Clients \X Nat
            BY <2>2, <5>1 DEF Run
          <6>2. executed[l][2] <= idx
            BY <2>4, <6>1
          <6>3. QED
            BY <1>2, <2>2, <4>1, <6>1, <6>2
        <5>2. CASE executed[l][1] # connfd
          BY <2>2, <4>1, <5>2
        <5>3. QED
          BY <5>1, <5>2
      <4>3. n + 1 > k /\ (n + 1) - 1 = n
        BY <1>2, <2>4
      <4>4. Cardinality(Before(connfd, i)) = k /\ i \in Known(connfd)
        BY <1>4, <1>8, <2>6
      <4>5. QED
        BY <2>2, <2>5, <2>6, <4>1, <4>2, <4>3, <4>4
    <3>3. ASSUME NEW m \in DOMAIN executed' PROVE InOrderAt(m)
      <4>1. m \in 1..n \/ m = n + 1
        BY <1>2, <2>2
      <4>2. QED
        BY <3>1, <3>2, <4>1
    <3>4. QED
      BY <3>3 DEF CommandsInOrder
  <2>10. AcceptedOnce'
    <3>1. connfd' = connfd /\ client' = client /\ backlog' = backlog
      BY <1>1 DEF clientVars
    <3>2. ASSUME NEW c \in Clients, c # connfd, Run(c) = {}
          PROVE  Run(c)' = {}
      <4>1. ASSUME NEW m \in DOMAIN executed' PROVE executed'[m][1] # c
        <5>1. CASE m \in 1..n
          BY <2>2, <3>2, <5>1 DEF Run
        <5>2. CASE m = n + 1
          BY <2>2, <3>2, <5>2
        <5>3. QED
          BY <1>2, <2>2, <5>1, <5>2
      <4>2. QED
        BY <4>1 DEF Run
    <3>3. \A j \in DOMAIN backlog : backlog[j] \in Clients
      BY Queue DEF IInv, TypeOK
    <3>4. ASSUME NEW j \in DOMAIN backlog PROVE Run(backlog[j])' = {}
      <4>1. backlog[j] \in Clients /\ backlog[j] # connfd /\ Run(backlog[j]) = {}
        BY <3>3 DEF IInv, AcceptedOnce
      <4>2. \A m \in DOMAIN executed' : executed'[m][1] # backlog[j]
        BY <3>2, <4>1 DEF Run
      <4>3. QED
        BY <3>1, <4>2 DEF Run
    <3>5. ASSUME NEW c \in Clients, client[c] = "new" PROVE Run(c)' = {}
      BY <1>2, <3>2, <3>5 DEF IInv, AcceptedOnce
    <3>6. QED
      BY <3>1, <3>4, <3>5 DEF IInv, AcceptedOnce, Serving
  <2>11. QED
    BY <1>5, <2>3, <2>8, <2>9, <2>10 DEF IInv
<1>9. QED
  BY <1>7, <1>8

LEMMA CloseConnectionInv == IInv /\ CloseConnection => IInv'
<1> SUFFICES ASSUME IInv, CloseConnection PROVE IInv'
  OBVIOUS
<1>1. /\ connfd' = NoClient /\ server_pc' = "check"
      /\ UNCHANGED <<clientVars, backlog, got, len, idx, mainVars, historyVars>>
  BY DEF CloseConnection
<1>2. TypeOK'
  BY <1>1 DEF IInv, TypeOK, clientVars, mainVars, historyVars, PacketLen
<1>3. ReadInv' /\ MessageIntact' /\ RunInv'
  BY <1>1 DEF ReadInv, MessageIntact, RunInv, Serving
<1>4. AcceptedOnce'
  <2>1. \A i \in DOMAIN backlog : backlog[i] # NoClient
    BY Queue DEF IInv, TypeOK
  <2>2. UNCHANGED <<client, backlog, executed>>
    BY <1>1 DEF clientVars, historyVars
  <2>3. QED
    BY <1>1, <2>1, <2>2 DEF IInv, AcceptedOnce, Serving, Run
<1>5. CommandsInOrder'
  <2>1. executed' = executed
    BY <1>1 DEF historyVars
  <2>2. QED
    BY <2>1 DEF IInv, CommandsInOrder
<1>6. QED
  BY <1>2, <1>3, <1>4, <1>5 DEF IInv

-----------------------------------------------------------------------------
(* The whole.                                                               *)

LEMMA ManagerInv ==
  ASSUME IInv, NEW c \in Clients, Manager(c) \/ Reset(c)
  PROVE  IInv'
<1>1. CASE GiveUp(c)
  BY <1>1, LeavesInv DEF GiveUp
<1>2. CASE Connect(c)
  BY <1>2, ConnectInv
<1>3. CASE ConnectFails(c)
  BY <1>3, LeavesInv DEF ConnectFails
<1>4. CASE Write(c)
  BY <1>4, WriteInv
<1>5. CASE WriteFails(c)
  BY <1>5, LeavesInv DEF WriteFails
<1>6. CASE Close(c)
  BY <1>6, LeavesInv DEF Close
<1>7. CASE Reset(c)
  BY <1>7, LeavesInv DEF Reset
<1>8. QED
  BY <1>1, <1>2, <1>3, <1>4, <1>5, <1>6, <1>7 DEF Manager

LEMMA ServerTaskInv == IInv /\ ServerTask => IInv'
BY StartServerInv, CheckStopInv, AcceptInv, AcceptNothingInv, ReadLenInv,
   ReadMsgInv, ReadFailsInv, HandleCommandInv, CloseConnectionInv DEF ServerTask

\* main stops the server, releases the pipeline and returns; an error of accept
\* ends the process.
LEMMA ProcessInv ==
  IInv /\ (AcceptFails \/ StopUsrPromptMonitor \/ ReleasePipeline \/ Return)
    => IInv'
<1> SUFFICES ASSUME IInv,
                    AcceptFails \/ StopUsrPromptMonitor \/ ReleasePipeline
                      \/ Return
             PROVE  IInv'
  OBVIOUS
<1>1. UNCHANGED <<clientVars, backlog, serverVars, historyVars>>
  BY DEF AcceptFails, StopUsrPromptMonitor, ReleasePipeline, Return
<1>2. main_pc' \in {"running", "stopped", "released", "exited"}
  BY DEF AcceptFails, StopUsrPromptMonitor, ReleasePipeline, Return
<1>3. g_stop_server' \in BOOLEAN
  <2>1. g_stop_server \in BOOLEAN
    BY DEF IInv, TypeOK
  <2>2. g_stop_server' = g_stop_server \/ g_stop_server' = TRUE
    BY DEF AcceptFails, StopUsrPromptMonitor, ReleasePipeline, Return
  <2>3. QED
    BY <2>1, <2>2, Zenon
<1>4. executed' = executed /\ late_command' \in BOOLEAN
  BY <1>1 DEF IInv, TypeOK, historyVars
<1>5. QED
  BY <1>1, <1>2, <1>3, <1>4, MainInv

LEMMA StutterInv == IInv /\ UNCHANGED vars => IInv'
<1> SUFFICES ASSUME IInv, UNCHANGED vars PROVE IInv'
  OBVIOUS
<1>1. UNCHANGED <<clientVars, backlog, serverVars, mainVars, historyVars>>
  BY DEF vars
<1>2. /\ g_stop_server' \in BOOLEAN /\ late_command' \in BOOLEAN
      /\ main_pc' \in {"running", "stopped", "released", "exited"}
  BY <1>1 DEF IInv, TypeOK, mainVars, historyVars
<1>3. QED
  BY <1>1, <1>2, MainInv DEF historyVars

\* The server reads messages of any length as a whole or not at all and accepts
\* each client once, however the bytes arrive, whoever dies and whatever is
\* reset (_read_bytes, _read_message, handle_usr_prompt).
THEOREM InductiveInvariant == Spec => []IInv
<1>1. IInv /\ [Next]_vars => IInv'
  BY ManagerInv, ServerTaskInv, ProcessInv, StutterInv DEF Next
<1>2. QED
  BY <1>1, InitInv, PTL DEF Spec

\* Types are kept: the counter of _read_bytes keeps its width, and no client
\* writes more than it has announced.
THEOREM TypeCorrect == Spec => []TypeOK
<1>1. IInv => TypeOK
  BY DEF IInv
<1>2. QED
  BY <1>1, InductiveInvariant, PTL

\* The callback is given one whole message or an empty buffer.
THEOREM MessagesAreIntact == Spec => []MessageIntact
<1>1. IInv => MessageIntact
  BY DEF IInv
<1>2. QED
  BY <1>1, InductiveInvariant, PTL

\* Commands are run message by message, in order, each once.
THEOREM CommandsRunInOrder == Spec => []CommandsInOrder
<1>1. IInv => CommandsInOrder
  BY DEF IInv
<1>2. QED
  BY <1>1, InductiveInvariant, PTL
=============================================================================
