---------------------------- MODULE PromptServer ----------------------------
(***************************************************************************)
(* The requests of the user: the manager program that sends a message      *)
(* (ds_fpfilter_manager.c), the server thread that reads it                *)
(* (ds_usr_prompt_handler.c), and the callback that runs its commands      *)
(* (handle_usr_prompt in deepstream_fpfilter_app.c).                       *)
(*                                                                         *)
(* A message is two bytes of length and a body.  TCP keeps the order of    *)
(* the bytes and nothing else: a write may take a part of what it is given *)
(* and a read may return a part of what was written, so only numbers of    *)
(* bytes matter here.  The server serves one connection at a time; others  *)
(* wait in the backlog of the listening socket, and their clients may      *)
(* write already.                                                          *)
(*                                                                         *)
(* A read that finds no byte waits, or returns 0 at once if the client has *)
(* closed its end.  _read_bytes adds the 0 and reads again; as that        *)
(* changes nothing, both are the absence of a step.  A connection may also *)
(* be reset: what has arrived can still be read, then one read returns -1, *)
(* which _read_bytes adds to its unsigned counter, and the next ones 0.    *)
(***************************************************************************)
EXTENDS Naturals, Sequences, FiniteSets

CONSTANTS
  Clients,       \* runs of the manager program, one message each
  NoClient,
  Message,       \* for each client the length of the body, and what its
                 \* commands are: "known", or "skipped" for an element without
                 \* target or action, or with one that is not known.  A body
                 \* that does not parse has no commands.
  Backlog,       \* connections that wait to be accepted
  Faults,        \* "crash": a client may die before it has written
                 \* everything; "reset": a connection may be reset
  CounterMax     \* bound: what -1 is as an unsigned integer (UINT_MAX)

ASSUME ClientsAssumption == NoClient \notin Clients

ASSUME MessageAssumption ==
  Message \in [Clients -> [len : Nat, commands : Seq({"known", "skipped"})]]

ASSUME BoundsAssumption ==
  /\ Backlog \in Nat \ {0}
  /\ Faults \subseteq {"crash", "reset"}
  /\ CounterMax \in Nat \ {0, 1}
  /\ \A c \in Clients : Message[c].len <= CounterMax

VARIABLES
  client,        \* "new", "open" or "closed", for each client
  written,       \* bytes the client wrote
  reset,         \* clients whose connection was reset, and no read has
                 \* returned -1 for it
  backlog,       \* clients connected and not accepted, oldest first
  server_pc,     \* where the server thread is
  connfd,        \* the client being served, or NoClient
  got,           \* bytes read from connfd
  len,           \* the counter of _read_bytes
  idx,           \* commands of its message already looked at
  g_stop_server,
  main_pc,       \* "running", "stopped" (stop_usr_prompt_monitor returned),
                 \* "released" (the pipeline is unreferenced), "exited"
  executed,      \* history: <<client, index>> of the commands that were run
  late_command   \* history: a command was run on the released pipeline

clientVars == <<client, written, reset>>
serverVars == <<server_pc, connfd, got, len, idx>>
mainVars == <<g_stop_server, main_pc>>
historyVars == <<executed, late_command>>
vars == <<clientVars, backlog, serverVars, mainVars, historyVars>>

PacketLen(c) == 2 + Message[c].len

Alive == main_pc # "exited"
Listening == Alive /\ server_pc \notin {"start", "ended"}

\* The callback parses what is in the buffer.  If not all of a message was read
\* the buffer is zero and has no commands.
Commands == IF got = PacketLen(connfd) THEN Message[connfd].commands ELSE <<>>

\* Every variable keeps its type, and no client writes more than the message
\* whose length it has announced.
TypeOK ==
  /\ client \in [Clients -> {"new", "open", "closed"}]
  /\ written \in [Clients -> Nat]
  /\ \A c \in Clients : written[c] <= PacketLen(c)
  /\ reset \subseteq {c \in Clients : client[c] = "closed"}
  /\ backlog \in Seq(Clients)
  /\ server_pc \in {"start", "check", "accept", "read_len", "read_msg",
                    "callback", "ended"}
  /\ connfd \in Clients \cup {NoClient}
  /\ got \in Nat
  /\ len \in 0..CounterMax
  /\ idx \in Nat
  /\ g_stop_server \in BOOLEAN
  /\ main_pc \in {"running", "stopped", "released", "exited"}
  /\ executed \in Seq(Clients \X Nat)
  /\ late_command \in BOOLEAN

\* start_usr_prompt_monitor has returned.
Init ==
  /\ client = [c \in Clients |-> "new"]
  /\ written = [c \in Clients |-> 0]
  /\ reset = {}
  /\ backlog = <<>>
  /\ server_pc = "start"
  /\ connfd = NoClient
  /\ got = 0
  /\ len = 0
  /\ idx = 0
  /\ g_stop_server = FALSE
  /\ main_pc = "running"
  /\ executed = <<>>
  /\ late_command = FALSE

-----------------------------------------------------------------------------
(* Variants of the definitions below as a plausible mistake would have      *)
(* written them; the checks of the project substitute them.                 *)

\* A read that fails is taken for the end of the message wherever it happens.
ReadFailsAnywhere ==
  /\ Alive /\ server_pc \in {"read_len", "read_msg"}
  /\ connfd \in reset /\ got = written[connfd]
  /\ reset' = reset \ {connfd}
  /\ server_pc' = "callback"
  /\ UNCHANGED <<client, written, backlog, connfd, got, len, idx, mainVars,
                 historyVars>>

\* The callback returns at the first element it does not know.
HandleCommandReturns ==
  /\ Alive /\ server_pc = "callback"
  /\ idx < Len(Commands)
  /\ IF Commands[idx + 1] = "known"
     THEN /\ executed' = Append(executed, <<connfd, idx + 1>>)
          /\ late_command' = (late_command \/ main_pc = "released")
          /\ idx' = idx + 1
     ELSE idx' = Len(Commands) /\ UNCHANGED historyVars
  /\ UNCHANGED <<clientVars, backlog, server_pc, connfd, got, len, mainVars>>

\* The loop of the callback does not get past an element it does not know.
HandleCommandStuck ==
  /\ Alive /\ server_pc = "callback"
  /\ idx < Len(Commands)
  /\ Commands[idx + 1] = "known"
  /\ executed' = Append(executed, <<connfd, idx + 1>>)
  /\ late_command' = (late_command \/ main_pc = "released")
  /\ idx' = idx + 1
  /\ UNCHANGED <<clientVars, backlog, server_pc, connfd, got, len, mainVars>>

\* The counters are not reset for the next connection.
AcceptKeepsIndex ==
  /\ Alive /\ server_pc = "accept"
  /\ backlog # <<>>
  /\ connfd' = Head(backlog)
  /\ backlog' = Tail(backlog)
  /\ got' = 0
  /\ len' = 0
  /\ server_pc' = "read_len"
  /\ UNCHANGED <<clientVars, idx, mainVars, historyVars>>

\* The socket blocks: with no connection, accept does not return.
AcceptBlocks ==
  /\ Alive /\ server_pc = "accept"
  /\ backlog = <<>>
  /\ UNCHANGED vars

\* The manager waits for the server to take the message before it closes.
CloseWaits(c) ==
  /\ client[c] = "open"
  /\ written[c] = PacketLen(c) /\ connfd = c /\ got = written[c]
  /\ client' = [client EXCEPT ![c] = "closed"]
  /\ UNCHANGED <<written, reset, backlog, serverVars, mainVars, historyVars>>

-----------------------------------------------------------------------------
(* The manager program: main and _send_buf_to_ds_app.                       *)

\* A step of a client that only changes where it is.
Leaves(c, pc) ==
  /\ client[c] = pc
  /\ client' = [client EXCEPT ![c] = "closed"]
  /\ UNCHANGED <<written, backlog, serverVars, mainVars, historyVars>>

\* Wrong arguments, or a file that cannot be opened.
GiveUp(c) == Leaves(c, "new") /\ UNCHANGED reset

\* connect succeeds as soon as the kernel has queued the connection.
Connect(c) ==
  /\ client[c] = "new"
  /\ Listening /\ Len(backlog) < Backlog
  /\ client' = [client EXCEPT ![c] = "open"]
  /\ backlog' = Append(backlog, c)
  /\ UNCHANGED <<written, reset, serverVars, mainVars, historyVars>>

\* Nobody listens, or the backlog stays full until connect times out: the
\* program prints a message and returns.
ConnectFails(c) ==
  /\ ~Listening \/ Len(backlog) >= Backlog
  /\ Leaves(c, "new")
  /\ UNCHANGED reset

\* One write of the loop.
Write(c) ==
  /\ Alive /\ client[c] = "open"
  /\ \E n \in 1..(PacketLen(c) - written[c]) :
       written' = [written EXCEPT ![c] = @ + n]
  /\ UNCHANGED <<client, reset, backlog, serverVars, mainVars, historyVars>>

\* The server's process is gone.  A first write may return -1; one that
\* follows kills the program (SIGPIPE).
WriteFails(c) ==
  /\ ~Alive /\ written[c] < PacketLen(c)
  /\ Leaves(c, "open")
  /\ UNCHANGED reset

\* Everything is written, or the program dies.
Close(c) ==
  /\ written[c] = PacketLen(c) \/ "crash" \in Faults
  /\ Leaves(c, "open")
  /\ UNCHANGED reset

\* The connection is reset, which the client does not outlive.
Reset(c) ==
  /\ "reset" \in Faults /\ Alive
  /\ Leaves(c, "open")
  /\ reset' = reset \cup {c}

Manager(c) ==
  GiveUp(c) \/ Connect(c) \/ ConnectFails(c) \/ Write(c) \/ WriteFails(c)
  \/ Close(c)

-----------------------------------------------------------------------------
(* The server thread: _server_task.                                         *)

\* socket, bind and listen.  The thread ends if the port cannot be bound; the
\* process exits if one of the others fails.
StartServer ==
  /\ Alive /\ server_pc = "start"
  /\ \/ server_pc' \in {"check", "ended"} /\ UNCHANGED mainVars
     \/ main_pc' = "exited" /\ UNCHANGED <<server_pc, g_stop_server>>
  /\ UNCHANGED <<clientVars, backlog, connfd, got, len, idx, historyVars>>

\* while(!g_stop_server), under the mutex.  At the end the socket is closed and
\* the connections that wait are reset, which kills their clients.
CheckStop ==
  /\ Alive /\ server_pc = "check"
  /\ IF g_stop_server
     THEN /\ server_pc' = "ended"
          /\ backlog' = <<>>
          /\ client' = [c \in Clients |->
                IF \E i \in DOMAIN backlog : backlog[i] = c THEN "closed"
                                                            ELSE client[c]]
     ELSE server_pc' = "accept" /\ UNCHANGED <<backlog, client>>
  /\ UNCHANGED <<written, reset, connfd, got, len, idx, mainVars, historyVars>>

\* The socket does not block.
Accept ==
  /\ Alive /\ server_pc = "accept"
  /\ backlog # <<>>
  /\ connfd' = Head(backlog)
  /\ backlog' = Tail(backlog)
  /\ got' = 0
  /\ len' = 0
  /\ idx' = 0
  /\ server_pc' = "read_len"
  /\ UNCHANGED <<clientVars, mainVars, historyVars>>

\* No connection waits: sleep, and look at the stop flag again.
AcceptNothing ==
  /\ Alive /\ server_pc = "accept"
  /\ backlog = <<>>
  /\ server_pc' = "check"
  /\ UNCHANGED <<clientVars, backlog, connfd, got, len, idx, mainVars,
                 historyVars>>

\* Any other error of accept exits the process.
AcceptFails ==
  /\ Alive /\ server_pc = "accept"
  /\ main_pc' = "exited"
  /\ UNCHANGED <<clientVars, backlog, serverVars, g_stop_server, historyVars>>

\* One read of _read_bytes, which wants read_len bytes.  When it has them all
\* the server goes on at next, with a counter of its own.
ServerReads(pc, read_len, next) ==
  /\ Alive /\ server_pc = pc
  /\ \E n \in 1..(written[connfd] - got) :
       /\ got' = got + n
       /\ \/ len + n < read_len /\ len' = len + n /\ UNCHANGED server_pc
          \/ len + n = read_len /\ len' = 0 /\ server_pc' = next
  /\ UNCHANGED <<clientVars, backlog, connfd, idx, mainVars, historyVars>>

\* _read_message: the length, then the body.
ReadLen ==
  ServerReads("read_len", 2,
              IF Message[connfd].len = 0 THEN "callback" ELSE "read_msg")

ReadMsg == ServerReads("read_msg", Message[connfd].len, "callback")

\* A read returns -1: everything that arrived is read and the connection was
\* reset.  The counter is decremented; at 0 it wraps and _read_bytes returns,
\* for the length (0 then) as for the body, whose buffer is still zero.
ReadFails ==
  /\ Alive /\ server_pc \in {"read_len", "read_msg"}
  /\ connfd \in reset /\ got = written[connfd]
  /\ reset' = reset \ {connfd}
  /\ len' = (len + CounterMax) % (CounterMax + 1)
  /\ server_pc' = IF len' = CounterMax THEN "callback" ELSE server_pc
  /\ UNCHANGED <<client, written, backlog, connfd, got, idx, mainVars,
                 historyVars>>

\* handle_usr_prompt, one element of the array: a known command is run, for
\* the others the loop continues.
HandleCommand ==
  /\ Alive /\ server_pc = "callback"
  /\ idx < Len(Commands)
  /\ idx' = idx + 1
  /\ IF Commands[idx + 1] = "known"
     THEN /\ executed' = Append(executed, <<connfd, idx + 1>>)
          /\ late_command' = (late_command \/ main_pc = "released")
     ELSE UNCHANGED historyVars
  /\ UNCHANGED <<clientVars, backlog, server_pc, connfd, got, len, mainVars>>

\* The callback returns and the connection is closed.
CloseConnection ==
  /\ Alive /\ server_pc = "callback"
  /\ idx = Len(Commands)
  /\ connfd' = NoClient
  /\ server_pc' = "check"
  /\ UNCHANGED <<clientVars, backlog, got, len, idx, mainVars, historyVars>>

ServerTask ==
  \/ StartServer
  \/ CheckStop
  \/ Accept
  \/ AcceptNothing
  \/ ReadLen
  \/ ReadMsg
  \/ ReadFails
  \/ HandleCommand
  \/ CloseConnection

-----------------------------------------------------------------------------
(* main, out of its loop.                                                   *)

StopUsrPromptMonitor ==
  /\ main_pc = "running"
  /\ g_stop_server' = TRUE
  /\ main_pc' = "stopped"
  /\ UNCHANGED <<clientVars, backlog, serverVars, historyVars>>

\* gst_object_unref (GST_OBJECT (pipeline))
ReleasePipeline ==
  /\ main_pc = "stopped"
  /\ main_pc' = "released"
  /\ UNCHANGED <<clientVars, backlog, serverVars, g_stop_server, historyVars>>

Return ==
  /\ main_pc = "released"
  /\ main_pc' = "exited"
  /\ UNCHANGED <<clientVars, backlog, serverVars, g_stop_server, historyVars>>

-----------------------------------------------------------------------------
Next ==
  \/ \E c \in Clients : Manager(c) \/ Reset(c)
  \/ ServerTask
  \/ AcceptFails
  \/ StopUsrPromptMonitor
  \/ ReleasePipeline
  \/ Return

\* The server thread runs when it can, and so does a client until its program
\* returns.  The stream, and so main, need not end, and nothing need fail.
Fairness ==
  /\ WF_vars(ServerTask)
  /\ \A c \in Clients : WF_vars(Manager(c))

Spec == Init /\ [][Next]_vars /\ Fairness

-----------------------------------------------------------------------------
(* Safety.                                                                  *)

\* The callback is given one whole message, or, when a read has failed, a
\* buffer in which there is nothing of it: however writes and reads are split,
\* and wherever a client dies or its connection is reset, two messages are
\* never mixed and none is cut.
MessageIntact ==
  server_pc = "callback" =>
    \/ got = PacketLen(connfd) /\ written[connfd] = PacketLen(connfd)
    \/ got \in {0, 2} /\ len = CounterMax /\ client[connfd] = "closed"

Known(c) == {i \in DOMAIN Message[c].commands :
               Message[c].commands[i] = "known"}

Before(c, i) == {j \in Known(c) : j < i}

\* The k elements of s up to the nth.
UpTo(s, n, k) == {s[m] : m \in (n - k + 1)..n}

\* Messages are run one after the other: a command that is run is known, comes
\* behind all known commands in front of it in its message, and is not run
\* again; and no command of another message is run in between.
CommandsInOrder ==
  \A n \in DOMAIN executed :
    LET c == executed[n][1]
        i == executed[n][2]
        k == Cardinality(Before(c, i))
    IN /\ i \in Known(c)
       /\ \A m \in 1..(n - 1) : executed[m] # <<c, i>>
       /\ n > k
       /\ UpTo(executed, n - 1, k) = {c} \X Before(c, i)

Served(c) == \A i \in Known(c) : \E n \in DOMAIN executed :
               executed[n] = <<c, i>>

\* No command is run when main has released the pipeline.
NoLateCommand == ~late_command

\* The server is at a client that has died in the middle of its message, or
\* whose reset was taken for a byte less: it reads 0 bytes from now on.
Held ==
  /\ server_pc \in {"read_len", "read_msg"}
  /\ client[connfd] = "closed" /\ connfd \notin reset
  /\ got = written[connfd] /\ got < PacketLen(connfd)

\* The inductive invariant.  While a connection is served, no more is read than
\* was written, and the counter of _read_bytes is what has been read of the
\* length or of the body, unless no other read will return anything.
Serving == connfd # NoClient

ReadInv ==
  /\ Serving <=> server_pc \in {"read_len", "read_msg", "callback"}
  /\ Serving => got <= written[connfd]
  /\ server_pc = "read_len" => Held \/ (got = len /\ len < 2)
  /\ server_pc = "read_msg" =>
       Held \/ (got = 2 + len /\ len < Message[connfd].len)
  /\ server_pc \in {"read_len", "read_msg"} => idx = 0
  /\ server_pc = "callback" => idx <= Len(Commands)

\* A client is accepted once: it waits at one place, and before it is served
\* nothing of its message is run.
Run(c) == {n \in DOMAIN executed : executed[n][1] = c}

AcceptedOnce ==
  /\ Serving => client[connfd] # "new"
  /\ \A i \in DOMAIN backlog :
       /\ client[backlog[i]] # "new" /\ backlog[i] # connfd
       /\ Run(backlog[i]) = {}
       /\ \A j \in DOMAIN backlog : backlog[i] = backlog[j] => i = j
  /\ \A c \in Clients : client[c] = "new" => Run(c) = {}

\* What was run last is what is done of the message being served.
Done == Before(connfd, idx + 1)

RunInv ==
  Serving =>
    /\ Cardinality(Done) <= Len(executed)
    /\ UpTo(executed, Len(executed), Cardinality(Done)) = {connfd} \X Done
    /\ \A n \in Run(connfd) : executed[n][2] <= idx

IInv ==
  /\ TypeOK /\ ReadInv /\ AcceptedOnce /\ RunInv
  /\ MessageIntact /\ CommandsInOrder

-----------------------------------------------------------------------------
(* Liveness.                                                                *)

\* The server gets away from every client it has accepted.
ServerIsNotHeld == \A c \in Clients : (connfd = c) ~> (connfd # c \/ ~Alive)

\* Nothing else holds the server: it gets away from every other client, those
\* whose connection is reset before the length or before the body included.
OnlyCutMessagesHold ==
  \A c \in Clients :
    (connfd = c) ~> (connfd # c \/ ~Alive \/ (connfd = c /\ Held))

\* A message that is written is run as a whole, unless the server is held or
\* stopped, or the process exits.
MessageIsRun ==
  \A c \in Clients :
    (written[c] = PacketLen(c))
      ~> (Served(c) \/ Held \/ g_stop_server \/ ~Alive)

\* Once it is told to stop, the server thread ends if it is not held.
ServerStops == g_stop_server ~> (server_pc = "ended" \/ Held \/ ~Alive)

\* The manager program returns, whatever the server does: it does not wait for
\* its message to be read.
ManagerReturns == \A c \in Clients : <>(client[c] = "closed")
=============================================================================
