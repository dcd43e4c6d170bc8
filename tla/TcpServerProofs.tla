-------------------------- MODULE TcpServerProofs ---------------------------
(***************************************************************************)
(* Proofs about TcpServer, for any number of connections, any lines and    *)
(* every combination of faults: the process never loses sight of a         *)
(* descriptor and uses none that is closed, and a client that waits for    *)
(* its answers gets none that it does not await.                           *)
(***************************************************************************)
EXTENDS TcpServer, SequenceTheorems, TLAPS

(* What is known of the connection, from where the two threads are.        *)
Connection ==
  /\ main = "init" => srv = "none" /\ fds = {} /\ ~iscsock
  /\ main \in {"init", "run", "kill0", "kill1"} => ~killAll
  /\ srv \in {"accept", "accepted", "raise"} => ~iscsock
  /\ srv = "clear" => csock \notin fds
  /\ main \in {"run", "kill0"} /\ srv \in {"accepted", "raise"} => csock \in fds
  /\ srv \in {"closing", "close", "clear"} => back \in Returns
  /\ OneConnection
  /\ UsesOpenConnection

(* Every initial state satisfies it.                                       *)
LEMMA InitConnection == Init => Connection
  BY DEF Init, Connection, OneConnection, UsesOpenConnection

(* The main thread's steps.                                                *)
LEMMA MainConnection == ASSUME Connection, MainNext PROVE Connection'
  <1>. USE DEF Connection, OneConnection, UsesOpenConnection, MainAt, flags
  <1>1. CASE Start BY <1>1 DEF Start
  <1>2. CASE StartFails BY <1>2 DEF StartFails
  <1>3. CASE ListenFails BY <1>3 DEF ListenFails
  <1>4. CASE KillServer BY <1>4 DEF KillServer
  <1>5. CASE KillCloseConnection BY <1>5 DEF KillCloseConnection
  <1>6. CASE KillClearFlag BY <1>6 DEF KillClearFlag
  <1>7. CASE KillCloseListener BY <1>7 DEF KillCloseListener
  <1>8. CASE KillCancel BY <1>8 DEF KillCancel
  <1>9. CASE KillJoin BY <1>9 DEF KillJoin
  <1>10. CASE KillNoServer BY <1>10 DEF KillNoServer
  <1>. QED BY <1>1, <1>2, <1>3, <1>4, <1>5, <1>6, <1>7, <1>8, <1>9, <1>10 DEF MainNext

(* The server thread's steps, those that fail included.                    *)
LEMMA SrvConnection ==
  ASSUME Connection, SrvStep \/ Failures \/ Cancelled PROVE Connection'
  <1>. USE DEF Connection, OneConnection, UsesOpenConnection, SrvAt, flags, Returns
  <1>1. CASE WaitForConnection BY <1>1 DEF WaitForConnection, close_connection
  <1>2. ASSUME NEW c \in Conns, Accept(c) PROVE Connection'
    BY <1>2 DEF Accept
  <1>3. CASE Accepted BY <1>3 DEF Accepted
  <1>4. CASE Loop BY <1>4 DEF Loop
  <1>5. CASE ReceiveCheck BY <1>5 DEF ReceiveCheck
  <1>6. CASE ReceiveLines BY <1>6 DEF ReceiveLines
  <1>7. CASE ReceivePiece BY <1>7 DEF ReceivePiece
  <1>8. CASE ReceiveNothing BY <1>8 DEF ReceiveNothing, ReceiveEnds, close_connection
  <1>9. CASE Dispatch BY <1>9 DEF Dispatch, NextFor
  <1>10. CASE Handled BY <1>10 DEF Handled
  <1>11. CASE Send BY <1>11 DEF Send
  <1>12. CASE SendClosed BY <1>12 DEF SendClosed, SendEnds, close_connection
  <1>13. CASE SendCheck BY <1>13 DEF SendCheck
  <1>14. CASE AcceptFails BY <1>14 DEF AcceptFails
  <1>15. CASE ReceiveFails BY <1>15 DEF ReceiveFails, ReceiveEnds, close_connection
  <1>16. CASE SendFails BY <1>16 DEF SendFails, SendEnds, close_connection
  <1>17. CASE Cancelled BY <1>17 DEF Cancelled, Cancellable
  <1>18. CASE RaiseFlag BY <1>18 DEF RaiseFlag
  <1>19. CASE CloseTest BY <1>19 DEF CloseTest
  <1>20. CASE Close BY <1>20 DEF Close
  <1>21. CASE ClearFlag BY <1>21 DEF ClearFlag
  <1>. QED BY <1>1, <1>2, <1>3, <1>4, <1>5, <1>6, <1>7, <1>8, <1>9, <1>10, <1>11, <1>12,
              <1>13, <1>14, <1>15, <1>16, <1>17, <1>18, <1>19, <1>20, <1>21 DEF SrvStep, Failures

(* Every step, a client's too, keeps it.                                   *)
LEMMA NextConnection == Connection /\ [Next]_vars => Connection'
  <1>. SUFFICES ASSUME Connection, [Next]_vars PROVE Connection'
    OBVIOUS
  <1>1. ASSUME ClientNext \/ UNCHANGED vars
        PROVE  UNCHANGED <<main, srv, back, iscsock, killAll, csock, fds>>
    BY <1>1 DEF ClientNext, Connect, ClientSend, ClientClose, vars, flags
  <1>. QED BY <1>1, MainConnection, SrvConnection
           DEF Next, Connection, OneConnection, UsesOpenConnection

LEMMA ConnectionInvariance == Spec => []Connection
  BY InitConnection, NextConnection, PTL DEF Spec

(* Until it is killed the server holds at most the descriptor it serves.   *)
THEOREM NoDescriptorLost == Spec => []OneConnection
  <1>1. Connection => OneConnection
    BY DEF Connection
  <1>. QED BY <1>1, ConnectionInvariance, PTL

(* Until KillServer closes the connection the thread uses no descriptor    *)
(* that is closed, and isConnected() tells the truth.                      *)
THEOREM ConnectionIsOpen == Spec => []UsesOpenConnection
  <1>1. Connection => UsesOpenConnection
    BY DEF Connection
  <1>. QED BY <1>1, ConnectionInvariance, PTL

-----------------------------------------------------------------------------
(* Types.  From accept to Send, and whenever iscsock is up, csocket is a   *)
(* connection.                                                             *)
Served == /\ iscsock => csock \in Conns
          /\ srv \in {"accepted", "raise", "recv", "reading", "dispatch", "handle", "send",
                     "sending"} => csock \in Conns
TypeInv == TypeOK /\ Served

LEMMA InitTypeInv == Init => TypeInv
  <1>. SUFFICES ASSUME Init PROVE TypeInv
    OBVIOUS
  <1>1. inbox \in [Conns -> Seq(Lines)]
    BY DEF Init
  <1>2. peer \in [Conns -> PeerPC]
    BY DEF Init, PeerPC
  <1>. QED BY <1>1, <1>2 DEF Init, TypeInv, TypeOK, Served, MainPC, SrvPC, AllLines

(* The text of a chunk is a kind of line.                                  *)
LEMMA TextType ==
  ASSUME NEW s \in Seq(Lines), s # <<>> PROVE Text(s) \in AllLines
  <1>1. s[1] \in AllLines
    BY TcpServerAssumption
  <1>. QED BY <1>1 DEF Text, AllLines

(* The main thread's steps.                                                *)
LEMMA MainTypes == ASSUME TypeInv, Connection, MainNext PROVE TypeInv'
  <1>. USE DEF TypeInv, TypeOK, Served, MainAt, MainPC, SrvPC, flags, client
  <1>1. CASE Start BY <1>1 DEF Start, Connection
  <1>2. CASE StartFails BY <1>2 DEF StartFails
  <1>3. CASE ListenFails BY <1>3 DEF ListenFails
  <1>4. CASE KillServer BY <1>4 DEF KillServer
  <1>5. CASE KillCloseConnection BY <1>5 DEF KillCloseConnection
  <1>6. CASE KillClearFlag BY <1>6 DEF KillClearFlag
  <1>7. CASE KillCloseListener BY <1>7 DEF KillCloseListener
  <1>8. CASE KillCancel BY <1>8 DEF KillCancel
  <1>9. CASE KillJoin BY <1>9 DEF KillJoin
  <1>10. CASE KillNoServer BY <1>10 DEF KillNoServer
  <1>. QED BY <1>1, <1>2, <1>3, <1>4, <1>5, <1>6, <1>7, <1>8, <1>9, <1>10 DEF MainNext

(* The server thread's steps.                                              *)
LEMMA SrvTypes ==
  ASSUME TypeInv, Connection, SrvStep \/ Failures \/ Cancelled PROVE TypeInv'
  <1>. USE DEF TypeInv, TypeOK, Served, SrvAt, SrvPC, Returns, flags, client
  <1>1. CASE WaitForConnection BY <1>1 DEF WaitForConnection, close_connection
  <1>2. ASSUME NEW c \in Conns, Accept(c) PROVE TypeInv'
    BY <1>2 DEF Accept, PeerPC
  <1>3. CASE Accepted BY <1>3 DEF Accepted
  <1>4. CASE Loop BY <1>4 DEF Loop, isAlive
  <1>5. CASE ReceiveCheck BY <1>5 DEF ReceiveCheck, AllLines
  <1>6. CASE ReceiveLines
    <2>1. csock \in Conns /\ inbox[csock] \in Seq(Lines)
      BY <1>6 DEF ReceiveLines
    <2>2. PICK n \in 1..Len(inbox[csock]) :
            /\ kind' = Text(SubSeq(inbox[csock], 1, n))
            /\ inbox' = [inbox EXCEPT ![csock] = SubSeq(@, n + 1, Len(@))]
      BY <1>6 DEF ReceiveLines
    <2>3. /\ SubSeq(inbox[csock], 1, n) \in Seq(Lines) /\ SubSeq(inbox[csock], 1, n) # <<>>
          /\ SubSeq(inbox[csock], n + 1, Len(inbox[csock])) \in Seq(Lines)
      <3>. DEFINE s == inbox[csock]
      <3>1. Len(s) \in Nat /\ n \in Int /\ n >= 1 /\ \A i \in 1..Len(s) : s[i] \in Lines
        BY <2>1
      <3>. HIDE DEF s
      <3>2. SubSeq(s, 1, n) \in Seq(Lines) /\ Len(SubSeq(s, 1, n)) = n
        <4>1. \A i \in 1..n : s[i] \in Lines
          BY <2>2, <3>1 DEF s
        <4>. QED BY <3>1, <4>1, SubSeqProperties
      <3>3. SubSeq(s, n + 1, Len(s)) \in Seq(Lines)
        <4>1. \A i \in n + 1..Len(s) : s[i] \in Lines
          BY <3>1
        <4>. QED BY <3>1, <4>1, SubSeqProperties
      <3>4. SubSeq(s, 1, n) # <<>>
        <4>1. Len(SubSeq(s, 1, n)) # 0
          BY <3>1, <3>2
        <4>2. Len(<< >>) = 0
          OBVIOUS
        <4>. QED BY <4>1, <4>2, Zenon
      <3>. QED BY <3>2, <3>3, <3>4 DEF s
    <2>4. kind' \in AllLines /\ inbox' \in [Conns -> Seq(Lines)]
      BY <2>1, <2>2, <2>3, TextType
    <2>. QED BY <1>6, <2>1, <2>4 DEF ReceiveLines
  <1>7. CASE ReceivePiece BY <1>7 DEF ReceivePiece
  <1>8. CASE ReceiveNothing BY <1>8 DEF ReceiveNothing, ReceiveEnds, close_connection
  <1>9. CASE Dispatch BY <1>9 DEF Dispatch, NextFor, AllLines
  <1>10. CASE Handled BY <1>10 DEF Handled
  <1>11. CASE Send BY <1>11 DEF Send
  <1>12. CASE SendClosed BY <1>12 DEF SendClosed, SendEnds, close_connection
  <1>13. CASE SendCheck BY <1>13 DEF SendCheck
  <1>14. CASE AcceptFails BY <1>14 DEF AcceptFails, Connection
  <1>15. CASE ReceiveFails BY <1>15 DEF ReceiveFails, ReceiveEnds, close_connection
  <1>16. CASE SendFails BY <1>16 DEF SendFails, SendEnds, close_connection
  <1>17. CASE Cancelled BY <1>17 DEF Cancelled, Cancellable
  <1>18. CASE RaiseFlag BY <1>18 DEF RaiseFlag
  <1>19. CASE CloseTest BY <1>19 DEF CloseTest
  <1>20. CASE Close BY <1>20 DEF Close
  <1>21. CASE ClearFlag BY <1>21 DEF ClearFlag
  <1>. QED BY <1>1, <1>2, <1>3, <1>4, <1>5, <1>6, <1>7, <1>8, <1>9, <1>10, <1>11, <1>12,
              <1>13, <1>14, <1>15, <1>16, <1>17, <1>18, <1>19, <1>20, <1>21 DEF SrvStep, Failures

(* The clients' steps.                                                     *)
LEMMA ClientTypes == ASSUME TypeInv, ClientNext PROVE TypeInv'
  <1>. USE DEF TypeInv, TypeOK, Served, PeerPC, flags
  <1>1. ASSUME NEW c \in Conns, Connect(c) PROVE TypeInv'
    BY <1>1 DEF Connect
  <1>2. ASSUME NEW c \in Conns, ClientClose(c) PROVE TypeInv'
    BY <1>2 DEF ClientClose
  <1>3. ASSUME NEW c \in Conns, NEW l \in Lines, ClientSend(c, l) PROVE TypeInv'
    BY <1>3 DEF ClientSend
  <1>. QED BY <1>1, <1>2, <1>3 DEF ClientNext

LEMMA TypeInvariance == Spec => []TypeInv
  <1>1. TypeInv /\ Connection /\ [Next]_vars => TypeInv'
    <2>. SUFFICES ASSUME TypeInv, Connection, [Next]_vars PROVE TypeInv'
      OBVIOUS
    <2>1. CASE UNCHANGED vars
      BY <2>1 DEF TypeInv, TypeOK, Served, vars, flags, client
    <2>. QED BY <2>1, MainTypes, SrvTypes, ClientTypes DEF Next
  <1>. QED BY <1>1, InitTypeInv, ConnectionInvariance, PTL DEF Spec

(* Every variable keeps its type; in particular the command listener is    *)
(* called for commands only.                                               *)
THEOREM ServerTypeCorrect == Spec => []TypeOK
  <1>1. TypeInv => TypeOK
    BY DEF TypeInv
  <1>. QED BY <1>1, TypeInvariance, PTL

-----------------------------------------------------------------------------
(* Answers.  The last line that a client has under way may be one that is  *)
(* answered, and then the client waits; what the server answers is such a  *)
(* line, and nothing that is answered comes after it.                      *)
Held == srv \in {"dispatch", "handle", "send", "sending"} /\ kind \in Answered
Owed ==
  /\ \A c \in Conns : peer[c] # "closed" =>
       \A i \in 1..Len(inbox[c]) : inbox[c][i] \in Answered => i = Len(inbox[c]) /\ c \in waiting
  /\ Held /\ peer[csock] # "closed" =>
       /\ csock \in waiting
       /\ \A i \in 1..Len(inbox[csock]) : inbox[csock][i] \notin Answered
  /\ srv \in {"send", "sending"} => kind \in Answered

LEMMA InitOwed == Init => Owed
  BY DEF Init, Owed, Held

(* A chunk whose text is answered begins with the line that is.            *)
LEMMA TextAnswered == ASSUME NEW s, Text(s) \in Answered PROVE Text(s) = s[1]
  BY DEF Text, Answered

(* Taking a chunk from the bytes that have come.                           *)
LEMMA ReceiveOwed == ASSUME TypeInv, Owed, ReceiveLines PROVE Owed'
  <1>1. /\ csock \in Conns /\ inbox[csock] \in Seq(Lines) /\ DOMAIN inbox = Conns
        /\ srv' = "dispatch" /\ UNCHANGED <<csock, peer, waiting>>
    BY DEF ReceiveLines, TypeInv, TypeOK, Served, SrvAt
  <1>2. PICK n \in 1..Len(inbox[csock]) :
          /\ kind' = Text(SubSeq(inbox[csock], 1, n))
          /\ inbox' = [inbox EXCEPT ![csock] = SubSeq(inbox[csock], n + 1, Len(inbox[csock]))]
    BY DEF ReceiveLines
  <1>3. PICK s \in Seq(Lines) : s = inbox[csock]
    BY <1>1
  <1>4. Len(s) \in Nat /\ n \in 1..Len(s)
    BY <1>2, <1>3
  <1>5. PICK t : t = SubSeq(s, n + 1, Len(s))
    OBVIOUS
  <1>6. Len(t) = Len(s) - n /\ \A i \in 1..Len(t) : t[i] = s[n + i]
    <2>1. \A i \in n + 1..Len(s) : s[i] \in Lines
      BY <1>3, <1>4
    <2>2. Len(SubSeq(s, n + 1, Len(s))) = Len(s) - n
      BY <1>4
    <2>3. \A i \in 1..Len(s) - n : SubSeq(s, n + 1, Len(s))[i] = s[n + i]
      BY <1>4
    <2>. QED BY <1>5, <2>2, <2>3
  <1>7. inbox'[csock] = t /\ \A c \in Conns : c # csock => inbox'[c] = inbox[c]
    BY <1>1, <1>2, <1>3, <1>5
  <1>8. ASSUME peer[csock] # "closed", NEW i \in 1..Len(t), t[i] \in Answered
        PROVE  i = Len(t) /\ csock \in waiting /\ s[1] \notin Answered
    <2>1. \A j \in 1..Len(s) : s[j] \in Answered => j = Len(s) /\ csock \in waiting
      BY <1>1, <1>3, <1>8 DEF Owed
    <2>2. n + i \in 1..Len(s) /\ s[n + i] \in Answered
      BY <1>4, <1>6, <1>8
    <2>3. n + i = Len(s) /\ csock \in waiting
      BY <2>1, <2>2
    <2>4. Len(t) = Len(s) - n /\ i \in Nat /\ i >= 1 /\ n \in Nat /\ n >= 1 /\ Len(s) \in Nat
      BY <1>4, <1>6
    <2>5. 1 \in 1..Len(s) /\ 1 # Len(s) /\ i = Len(t)
      BY <2>3, <2>4
    <2>6. s[1] \notin Answered
      BY <2>1, <2>5
    <2>. QED BY <2>3, <2>5, <2>6
  <1>9. ASSUME peer[csock] # "closed", kind' \in Answered
        PROVE  csock \in waiting /\ \A i \in 1..Len(t) : t[i] \notin Answered
    <2>1. SubSeq(s, 1, n)[1] = s[1]
      BY <1>4
    <2>2. s[1] \in Answered
      BY <1>2, <1>3, <1>9, <2>1, TextAnswered
    <2>3. 1 \in 1..Len(s)
      BY <1>4
    <2>. QED BY <1>1, <1>3, <1>8, <1>9, <2>2, <2>3 DEF Owed
  <1>. QED BY <1>1, <1>7, <1>8, <1>9 DEF Owed, Held

(* The other steps of the process.                                         *)
LEMMA ServerOwed ==
  ASSUME TypeInv, Owed, MainNext \/ SrvStep \/ Failures \/ Cancelled PROVE Owed'
  <1>1. CASE ReceiveLines
    BY <1>1, ReceiveOwed
  <1>2. ASSUME NEW c \in Conns, Accept(c) PROVE Owed'
    <2>1. /\ \A d \in Conns : peer'[d] # "closed" => peer[d] # "closed"
          /\ inbox' = inbox /\ waiting' = waiting /\ srv' = "accepted"
      BY <1>2 DEF Accept, TypeInv, TypeOK
    <2>. QED BY <2>1 DEF Owed, Held
  <1>3. CASE Send
    <2>1. srv = "sending" /\ waiting' = waiting \ {csock} /\ srv' = "loop" /\ csock \in Conns
          /\ UNCHANGED <<peer, inbox>>
      BY <1>3 DEF Send, SrvAt, TypeInv, Served
    <2>2. peer[csock] # "closed" => \A i \in 1..Len(inbox[csock]) : inbox[csock][i] \notin Answered
      BY <2>1 DEF Owed, Held
    <2>. QED BY <2>1, <2>2 DEF Owed, Held
  <1>4. CASE MainNext
    <2>1. UNCHANGED client /\ UNCHANGED <<csock, kind>> /\ srv' \in {srv, "wait"}
      BY <1>4 DEF MainNext, Start, StartFails, ListenFails, KillServer, KillCloseConnection,
                  KillClearFlag, KillCloseListener, KillCancel, KillJoin, KillNoServer
    <2>. QED BY <2>1 DEF Owed, Held, client
  <1>5. CASE \/ WaitForConnection \/ Accepted \/ RaiseFlag \/ Loop \/ CloseTest \/ Close \/ ClearFlag
             \/ ReceivePiece \/ ReceiveCheck \/ ReceiveNothing \/ SendClosed \/ Failures
    <2>1. UNCHANGED client /\ srv' \in SrvPC \ {"dispatch", "handle", "send", "sending"}
      BY <1>5 DEF WaitForConnection, Accepted, RaiseFlag, Loop, CloseTest, Close, ClearFlag,
                  close_connection, ReceivePiece, ReceiveCheck, ReceiveNothing, ReceiveEnds,
                  SendClosed, SendEnds, Failures, AcceptFails, ReceiveFails, SendFails, SrvAt,
                  TypeInv, TypeOK, Returns, SrvPC
    <2>. QED BY <2>1 DEF Owed, Held, client
  <1>6. CASE Dispatch \/ Handled \/ SendCheck \/ Cancelled
    <2>1. /\ UNCHANGED client /\ UNCHANGED <<csock, kind>>
          /\ srv \in {"dispatch", "handle", "send"} \/ srv' \in {srv, "exited"}
          /\ srv' \in {"send", "sending"} => kind \in Answered \/ srv \in {"send", "sending"}
      BY <1>6 DEF Dispatch, NextFor, Handled, HasResult, SendCheck, Cancelled, SrvAt, Answered
    <2>. QED BY <2>1 DEF Owed, Held, client
  <1>. QED BY <1>1, <1>2, <1>3, <1>4, <1>5, <1>6 DEF SrvStep

(* A client that waits sends nothing more.                                 *)
LEMMA ClientOwed == ASSUME ~Pipelined, TypeInv, Owed, ClientNext PROVE Owed'
  <1>1. ASSUME NEW c \in Conns, Connect(c) PROVE Owed'
    <2>1. /\ \A d \in Conns : peer'[d] # "closed" => peer[d] # "closed"
          /\ peer'[csock] # "closed" => peer[csock] # "closed"
          /\ UNCHANGED <<inbox, waiting, srv, kind, csock>>
      BY <1>1 DEF Connect, TypeInv, TypeOK
    <2>. QED BY <2>1 DEF Owed, Held
  <1>2. ASSUME NEW c \in Conns, ClientClose(c) PROVE Owed'
    <2>1. /\ peer' = [peer EXCEPT ![c] = "closed"] /\ waiting' = waiting \ {c} /\ peer \in [Conns -> PeerPC]
          /\ UNCHANGED <<inbox, srv, kind, csock>> /\ (Held => csock \in Conns)
      BY <1>2 DEF ClientClose, TypeInv, TypeOK, Served, Held
    <2>. QED BY <2>1 DEF Owed, Held
  <1>3. ASSUME NEW c \in Conns, NEW l \in Lines, ClientSend(c, l) PROVE Owed'
    <2>1. /\ c \notin waiting /\ peer[c] # "closed" /\ inbox \in [Conns -> Seq(Lines)]
          /\ inbox' = [inbox EXCEPT ![c] = Append(inbox[c], l)]
          /\ waiting \subseteq waiting' /\ (l \in Answered => c \in waiting')
          /\ UNCHANGED <<peer, srv, kind, csock>> /\ (Held => csock \in Conns)
      BY <1>3 DEF ClientSend, TypeInv, TypeOK, Served, Held
    <2>2. PICK s \in Seq(Lines) : s = inbox[c]
      BY <2>1
    <2>3. \A i \in 1..Len(s) : s[i] \notin Answered
      BY <2>1, <2>2 DEF Owed
    <2>4. PICK t : t = Append(s, l)
      OBVIOUS
    <2>5. Len(t) = Len(s) + 1 /\ Len(s) \in Nat /\ \A i \in 1..Len(t) : i # Len(t) => t[i] = s[i]
      BY <2>2, <2>4
    <2>6. \A i \in 1..Len(t) : t[i] \in Answered => i = Len(t) /\ c \in waiting'
      <3>1. t[Len(t)] = l
        BY <2>2, <2>4
      <3>2. \A i \in 1..Len(t) : i # Len(t) => i \in 1..Len(s)
        BY <2>5
      <3>3. \A i \in 1..Len(t) : i # Len(t) => t[i] \notin Answered
        BY <2>3, <2>5, <3>2
      <3>4. l \in Answered => c \in waiting'
        BY <2>1
      <3>. QED BY <3>1, <3>3, <3>4
    <2>7. inbox'[c] = t /\ \A d \in Conns : d # c => inbox'[d] = inbox[d]
      BY <2>1, <2>2, <2>4
    <2>8. Held /\ peer[csock] # "closed" => csock # c
      BY <2>1 DEF Owed
    <2>. QED BY <2>1, <2>6, <2>7, <2>8 DEF Owed, Held
  <1>. QED BY <1>1, <1>2, <1>3 DEF ClientNext

(* A client that sends nothing before it has its answer never gets one     *)
(* that it does not await, however its lines come together in a chunk.     *)
THEOREM AnswersAreAwaited == ASSUME ~Pipelined PROVE Spec => AnswersMatch
  <1>1. TypeInv /\ Owed /\ [Next]_vars => Owed'
    <2>. SUFFICES ASSUME TypeInv, Owed, [Next]_vars PROVE Owed'
      OBVIOUS
    <2>1. CASE UNCHANGED vars
      BY <2>1 DEF Owed, Held, vars, client
    <2>. QED BY <2>1, ServerOwed, ClientOwed DEF Next
  <1>2. TypeInv /\ Owed /\ [Next]_vars => [Send => csock \in waiting \/ peer[csock] = "closed"]_vars
    BY DEF Owed, Held, Send, SrvAt
  <1>. QED BY <1>1, <1>2, InitOwed, TypeInvariance, PTL DEF Spec, AnswersMatch
=============================================================================
