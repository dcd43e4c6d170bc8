----------------------------- MODULE TcpServer ------------------------------
(***************************************************************************)
(* clank/lib/communication/TcpServer.cpp with Command.cpp's parsing: one   *)
(* thread accepts one connection at a time, reads lines from it, hands     *)
(* commands to the listener and sends the answers back.  The main thread   *)
(* starts and kills it.                                                    *)
(*                                                                         *)
(* A line is one of                                                        *)
(*   "ping"   the text Ping                  "empty"  no text              *)
(*   "cmd"    a command the listener answers "other"  one it does not      *)
(*   "blank"  a command with an empty field  "bad"    no command           *)
(* recv() returns whatever prefix of the byte stream has arrived: several  *)
(* lines at once, or (Splits) a piece that does not end in a newline.      *)
(*                                                                         *)
(* External, modelled from their use here: the clients, the sockets and    *)
(* pthread_cancel, which is acted upon where the thread waits in accept,   *)
(* recv or send, or calls close, or in a call the listener makes.          *)
(***************************************************************************)
EXTENDS Integers, Sequences, FiniteSets

CONSTANTS Conns,      \* connections, each used once
          None,       \* no connection
          Lines,      \* kinds of line the clients send
          MaxLines,   \* bound on the lines of one connection
          Pipelined,  \* TRUE: a client may send before it has its answer
          Splits,     \* TRUE: recv may return part of a line
          Lossy,      \* TRUE: connections may break
          MayFail     \* TRUE: the listen socket may not be had

AllLines == {"ping", "cmd", "other", "blank", "bad", "empty"}
Answered == {"ping", "cmd", "blank"}

ASSUME TcpServerAssumption ==
  /\ None \notin Conns /\ Lines \subseteq AllLines /\ MaxLines \in Nat
  /\ {Pipelined, Splits, Lossy, MayFail} \subseteq BOOLEAN

VARIABLES
  main,      \* where the main thread is
  srv,       \* where serverThread is
  back,      \* where close_connection returns to, "none" outside of it
  islsock,   \* the listen socket is open
  iscsock,   \* a connection is usable
  killAll,   \* killAll, set with the request to cancel
  csock,     \* csocket
  fds,       \* connections whose descriptor this process has open
  kind,      \* the text in serverThread's buffer
  peer,      \* the client's end of each connection
  inbox,     \* lines sent and not yet received
  waiting,   \* connections whose client awaits an answer
  crashed    \* the process has ended abnormally

flags  == <<islsock, iscsock, killAll>>
client == <<peer, inbox, waiting>>
vars   == <<main, srv, back, flags, csock, fds, kind, client, crashed>>

MainPC == {"init", "run", "noServer", "kill0", "kill1", "kill2", "kill3", "join", "done"}
SrvPC  == {"none", "wait", "accept", "accepted", "raise", "loop", "recv", "reading",
           "dispatch", "handle", "send", "sending", "closing", "close", "clear", "exited"}
Returns == {"accept", "wait", "loop"}
PeerPC == {"unused", "pending", "up", "closed"}

Init ==
  /\ main = "init" /\ srv = "none" /\ back = "none"
  /\ islsock = FALSE /\ iscsock = FALSE /\ killAll = FALSE
  /\ csock = None /\ fds = {} /\ kind = "empty"
  /\ peer = [c \in Conns |-> "unused"]
  /\ inbox = [c \in Conns |-> <<>>]
  /\ waiting = {}
  /\ crashed = FALSE

Running == ~crashed
MainAt(l) == Running /\ main = l
SrvAt(l)  == Running /\ srv = l

-----------------------------------------------------------------------------
(* The main thread: Start and KillServer.                                  *)
Start ==
  /\ MainAt("init")
  /\ main' = "run" /\ srv' = "wait" /\ islsock' = TRUE
  /\ UNCHANGED <<back, iscsock, killAll, csock, fds, kind, client, crashed>>

(* create_listen_socket fails; the caller does not look at the result.     *)
StartFails ==
  /\ MainAt("init") /\ MayFail
  /\ main' = "noServer"
  /\ UNCHANGED <<srv, back, flags, csock, fds, kind, client, crashed>>

(* listen fails: Start calls KillServer, which without a server has neither *)
(* a mutex to lock nor a thread to cancel and join: undefined, it may end  *)
(* the process or appear to work.                                          *)
ListenFails ==
  /\ MainAt("init") /\ MayFail
  /\ killAll' = TRUE /\ main' = "noServer" /\ crashed' \in BOOLEAN
  /\ UNCHANGED <<srv, back, islsock, iscsock, csock, fds, kind, client>>

(* KillServer closes whatever connection the thread has by then.           *)
KillServer ==
  /\ MainAt("run")
  /\ main' = IF iscsock THEN "kill0" ELSE "kill1"
  /\ UNCHANGED <<srv, back, flags, csock, fds, kind, client, crashed>>

KillCloseConnection ==
  /\ MainAt("kill0")
  /\ main' = "kill1" /\ fds' = fds \ {csock}
  /\ UNCHANGED <<srv, back, flags, csock, kind, client, crashed>>

KillClearFlag ==
  /\ MainAt("kill1")
  /\ main' = "kill2" /\ iscsock' = FALSE
  /\ UNCHANGED <<srv, back, islsock, killAll, csock, fds, kind, client, crashed>>

KillCloseListener ==
  /\ MainAt("kill2")
  /\ main' = "kill3" /\ islsock' = FALSE
  /\ UNCHANGED <<srv, back, iscsock, killAll, csock, fds, kind, client, crashed>>

KillCancel ==
  /\ MainAt("kill3")
  /\ main' = "join" /\ killAll' = TRUE
  /\ UNCHANGED <<srv, back, islsock, iscsock, csock, fds, kind, client, crashed>>

KillJoin_Unjoined ==
  /\ MainAt("join")
  /\ main' = "done"
  /\ UNCHANGED <<srv, back, flags, csock, fds, kind, client, crashed>>
KillJoin ==
  /\ MainAt("join") /\ srv = "exited"
  /\ main' = "done"
  /\ UNCHANGED <<srv, back, flags, csock, fds, kind, client, crashed>>

(* KillServer when Start failed: undefined in the same way.                *)
KillNoServer ==
  /\ MainAt("noServer")
  /\ killAll' = TRUE /\ main' = "done" /\ crashed' \in BOOLEAN
  /\ UNCHANGED <<srv, back, islsock, iscsock, csock, fds, kind, client>>

MainNext == \/ Start \/ StartFails \/ ListenFails \/ KillServer \/ KillCloseConnection
            \/ KillClearFlag \/ KillCloseListener \/ KillCancel \/ KillJoin \/ KillNoServer

-----------------------------------------------------------------------------
(* close_connection: called by serverThread, which goes on at ret.         *)
close_connection(ret) == srv' = "closing" /\ back' = ret

CloseTest ==
  /\ SrvAt("closing")
  /\ IF iscsock THEN srv' = "close" /\ UNCHANGED back
                ELSE srv' = back /\ back' = "none"
  /\ UNCHANGED <<main, flags, csock, fds, kind, client, crashed>>

(* Mutant: the descriptor is not closed.                                   *)
Close_Leak ==
  /\ SrvAt("close")
  /\ srv' = "clear"
  /\ UNCHANGED <<main, back, flags, csock, fds, kind, client, crashed>>
Close ==
  /\ SrvAt("close")
  /\ srv' = "clear" /\ fds' = fds \ {csock}
  /\ UNCHANGED <<main, back, flags, csock, kind, client, crashed>>

(* Mutant: the flag stays up.                                              *)
ClearFlag_Stale ==
  /\ SrvAt("clear")
  /\ srv' = back /\ back' = "none"
  /\ UNCHANGED <<main, flags, csock, fds, kind, client, crashed>>
ClearFlag ==
  /\ SrvAt("clear")
  /\ srv' = back /\ back' = "none" /\ iscsock' = FALSE
  /\ UNCHANGED <<main, islsock, killAll, csock, fds, kind, client, crashed>>

(* serverThread: wait_for_connection.                                      *)
WaitForConnection ==
  /\ SrvAt("wait")
  /\ IF iscsock THEN close_connection("accept") ELSE srv' = "accept" /\ UNCHANGED back
  /\ UNCHANGED <<main, flags, csock, fds, kind, client, crashed>>

Accept(c) ==
  /\ SrvAt("accept") /\ peer[c] = "pending"
  /\ srv' = "accepted" /\ csock' = c /\ fds' = fds \cup {c}
  /\ peer' = [peer EXCEPT ![c] = "up"]
  /\ UNCHANGED <<main, back, flags, kind, inbox, waiting, crashed>>

(* accept breaks off, or the listen socket is closed already.              *)
AcceptFails ==
  /\ SrvAt("accept") /\ (Lossy \/ ~islsock)
  /\ srv' = "loop" /\ csock' = None
  /\ UNCHANGED <<main, back, flags, fds, kind, client, crashed>>

Accepted ==
  /\ SrvAt("accepted")
  /\ srv' = IF killAll THEN "loop" ELSE "raise"
  /\ UNCHANGED <<main, back, flags, csock, fds, kind, client, crashed>>

RaiseFlag ==
  /\ SrvAt("raise")
  /\ srv' = "loop" /\ iscsock' = TRUE
  /\ UNCHANGED <<main, back, islsock, killAll, csock, fds, kind, client, crashed>>

isAlive == ~killAll /\ iscsock

Loop ==
  /\ SrvAt("loop")
  /\ srv' = IF isAlive THEN "recv" ELSE "exited"
  /\ UNCHANGED <<main, back, flags, csock, fds, kind, client, crashed>>

-----------------------------------------------------------------------------
(* Receive.  It returns the text of a chunk that ends in a newline...      *)
IsCommand(l) == l \in {"cmd", "other", "blank"}

(* ... of which Parse sees the first command only; what comes before it    *)
(* becomes part of its module name.                                        *)
Text(s) ==
  CASE Len(s) = 1 \/ IsCommand(s[1]) -> s[1]
    [] \E i \in DOMAIN s : IsCommand(s[i]) -> "other"
    [] OTHER -> "bad"

ReceiveCheck ==
  /\ SrvAt("recv")
  /\ srv' = IF iscsock THEN "reading" ELSE "wait"
  /\ kind' = "empty"  \* the buffer is cleared
  /\ UNCHANGED <<main, back, flags, csock, fds, client, crashed>>

ReceiveLines ==
  /\ SrvAt("reading")
  /\ \E n \in 1..Len(inbox[csock]) :
        /\ kind' = Text(SubSeq(inbox[csock], 1, n))
        /\ inbox' = [inbox EXCEPT ![csock] = SubSeq(@, n + 1, Len(@))]
  /\ srv' = "dispatch"
  /\ UNCHANGED <<main, back, flags, csock, fds, peer, waiting, crashed>>

(* The chunk lacks the newline: -1, and the connection is left open for    *)
(* wait_for_connection to close.                                           *)
ReceivePiece ==
  /\ SrvAt("reading") /\ Splits /\ inbox[csock] # <<>>
  /\ srv' = "wait"
  /\ UNCHANGED <<main, back, flags, csock, fds, kind, client, crashed>>

(* recv returns 0 as the client closed, or -1 as the connection broke or   *)
(* KillServer closed the socket.                                           *)
ReceiveEnds ==
  /\ close_connection("wait")
  /\ UNCHANGED <<main, flags, csock, fds, kind, client, crashed>>

AtEnd_Never == FALSE
AtEnd == peer[csock] = "closed" /\ inbox[csock] = <<>>

ReceiveNothing == SrvAt("reading") /\ AtEnd /\ ReceiveEnds
ReceiveFails   == SrvAt("reading") /\ (Lossy \/ csock \notin fds) /\ ReceiveEnds

(* What the text asks for.  A line that is no command leaves Command's     *)
(* fields NULL, and isValid takes their length.                            *)
NextFor_NoPong(k) == IF k = "blank" THEN "send"
                     ELSE IF k = "empty" THEN "wait" ELSE "handle"
NextFor(k) == IF k \in {"ping", "blank"} THEN "send"
              ELSE IF k = "empty" THEN "wait" ELSE "handle"

Dispatch ==
  /\ SrvAt("dispatch")
  /\ IF kind = "bad" THEN crashed' = TRUE /\ UNCHANGED srv
                     ELSE srv' = NextFor(kind) /\ UNCHANGED crashed
  /\ UNCHANGED <<main, back, flags, csock, fds, kind, client>>

(* RaiseEvent: the listener returns; a nonempty result is sent.            *)
HasResult_Always == TRUE
HasResult == kind = "cmd"

Handled ==
  /\ SrvAt("handle")
  /\ srv' = IF HasResult THEN "send" ELSE "loop"
  /\ UNCHANGED <<main, back, flags, csock, fds, kind, client, crashed>>

(* Send: a result goes out on the connection, if there is one.             *)
SendCheck ==
  /\ SrvAt("send")
  /\ srv' = IF iscsock THEN "sending" ELSE "loop"
  /\ UNCHANGED <<main, back, flags, csock, fds, kind, client, crashed>>

Send ==
  /\ SrvAt("sending") /\ csock \in fds
  /\ srv' = "loop" /\ waiting' = waiting \ {csock}
  /\ UNCHANGED <<main, back, flags, csock, fds, kind, peer, inbox, crashed>>

(* send fails: the client or KillServer closed, or the connection broke.   *)
SendEnds ==
  /\ close_connection("loop")
  /\ UNCHANGED <<main, flags, csock, fds, kind, client, crashed>>

SendClosed == SrvAt("sending") /\ (peer[csock] = "closed" \/ csock \notin fds) /\ SendEnds
SendFails  == SrvAt("sending") /\ Lossy /\ SendEnds

(* The cancellation requested by KillServer is acted upon.  Unwinding out  *)
(* of a listener's catch (...) ends the process.                           *)
Cancellable_Never == FALSE
Cancellable == killAll /\ srv \in {"accept", "reading", "sending", "close", "handle"}

Cancelled ==
  /\ Running /\ Cancellable
  /\ IF srv = "handle" /\ kind = "cmd"
     THEN crashed' = TRUE /\ UNCHANGED srv
     ELSE srv' = "exited" /\ UNCHANGED crashed
  /\ back' = "none"
  /\ UNCHANGED <<main, flags, csock, fds, kind, client>>

SrvStep == \/ WaitForConnection \/ Accepted \/ RaiseFlag \/ Loop
           \/ CloseTest \/ Close \/ ClearFlag
           \/ ReceiveCheck \/ ReceiveLines \/ ReceivePiece \/ ReceiveNothing
           \/ Dispatch \/ Handled \/ SendCheck \/ Send \/ SendClosed
           \/ \E c \in Conns : Accept(c)

(* What may go wrong and need not: losses, and a blocked accept or recv    *)
(* that notices that its socket was closed.                                *)
Failures == AcceptFails \/ ReceiveFails \/ SendFails

-----------------------------------------------------------------------------
(* The clients.                                                            *)
Connect(c) ==
  /\ Running /\ islsock /\ peer[c] = "unused"
  /\ peer' = [peer EXCEPT ![c] = "pending"]
  /\ UNCHANGED <<main, srv, back, flags, csock, fds, kind, inbox, waiting, crashed>>

ClientSend(c, l) ==
  /\ Running /\ peer[c] = "up" /\ Len(inbox[c]) < MaxLines
  /\ Pipelined \/ c \notin waiting
  /\ inbox' = [inbox EXCEPT ![c] = Append(@, l)]
  /\ waiting' = IF l \in Answered THEN waiting \cup {c} ELSE waiting
  /\ UNCHANGED <<main, srv, back, flags, csock, fds, kind, peer, crashed>>

ClientClose(c) ==
  /\ Running /\ peer[c] = "up"
  /\ peer' = [peer EXCEPT ![c] = "closed"]
  /\ waiting' = waiting \ {c}
  /\ UNCHANGED <<main, srv, back, flags, csock, fds, kind, inbox, crashed>>

ClientNext == \E c \in Conns : \/ Connect(c) \/ ClientClose(c)
                               \/ \E l \in Lines : ClientSend(c, l)

Next == MainNext \/ SrvStep \/ Failures \/ Cancelled \/ ClientNext

Spec == Init /\ [][Next]_vars

(* The server thread runs, what was cancelled ends, and a KillServer that  *)
(* was begun goes on.  Clients do as they please; nothing has to fail.     *)
KillStep == \/ KillCloseConnection \/ KillClearFlag \/ KillCloseListener \/ KillCancel \/ KillJoin

Fairness == WF_vars(SrvStep) /\ WF_vars(Cancelled) /\ WF_vars(KillStep)

FairSpec == Spec /\ Fairness

-----------------------------------------------------------------------------
TypeOK ==
  /\ main \in MainPC /\ srv \in SrvPC
  /\ IF srv \in {"closing", "close", "clear"} THEN back \in Returns ELSE back = "none"
  /\ {islsock, iscsock, killAll, crashed} \subseteq BOOLEAN
  /\ csock \in Conns \cup {None} /\ fds \subseteq Conns /\ waiting \subseteq Conns
  /\ kind \in AllLines /\ (srv = "handle" => kind \in {"cmd", "other"})
  /\ peer \in [Conns -> PeerPC]
  /\ inbox \in [Conns -> Seq(Lines)]

(* Until KillServer clears the flag the process holds at most the          *)
(* descriptor of the connection it serves, and never one it has lost sight *)
(* of: what is dropped for a bad chunk is closed before the next accept.   *)
OneConnection ==
  main \in {"run", "kill0", "kill1"} =>
     /\ fds \subseteq {csock}
     /\ fds # {} => iscsock \/ srv \in {"accepted", "raise"}

(* Until KillServer closes the connection the thread receives from, sends  *)
(* to and closes an open descriptor only, and isConnected() tells the      *)
(* truth but for the instant between close_connection's two steps.         *)
UsesOpenConnection ==
  main \in {"init", "run", "kill0"} =>
     /\ srv \in {"reading", "sending", "close"} => csock \in fds
     /\ iscsock => csock \in fds \/ srv = "clear"

(* With clients that wait for their answers, an answer goes out only on a  *)
(* connection whose client awaits one, or has gone away.                   *)
AnswersMatch == [][Send => csock \in waiting \/ peer[csock] = "closed"]_vars

(* A client that awaits the answer to the one line it has under way gets   *)
(* it, unless its connection is closed, the server is killed or the        *)
(* process crashes.  (Behind another line it may get none: both may arrive *)
(* in one chunk, of which only the first command is seen.)                 *)
LoneLineAnswered ==
  \A c \in Conns :
     c \in waiting /\ Len(inbox[c]) = 1
        ~> c \notin waiting \/ c \notin fds \/ main # "run" \/ crashed

(* A client waits to be accepted for ever only behind one that stays, or   *)
(* when the server has been killed or its thread has ended.                *)
WaitsBehindAnother ==
  \A c \in Conns :
     <>[](peer[c] = "pending") =>
        \/ <>[](\E d \in fds : peer[d] = "up")
        \/ <>(main = "kill1" \/ srv = "exited" \/ crashed)

(* KillServer, once begun, joins the thread, unless the process crashes.   *)
KillReturns == main \in {"kill0", "kill1"} ~> (main = "done" \/ crashed)

(* "Connection termintated. Waiting for new one...": a lost connection     *)
(* leaves the thread serving; it ends only when the server is killed.      *)
ServesUntilKilled == main = "run" => srv # "exited"
=============================================================================
